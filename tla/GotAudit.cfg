SPECIFICATION Spec
CONSTANTS
    Files = {prog, libc, lib}
    Ranges = {heap, vdso}
    Vdso = vdso
    Prog = prog
    Syms = {read, dup}
    Expected = {dup}
    Nowhere = nowhere
    Stale = stale
INVARIANTS
    TypeOK
    ForeignExact
    DuplicatesFound
SYMMETRY Libraries
