SPECIFICATION FtraceSpec
CONSTANTS
    malloc = malloc
    free = free
    Funcs <- MCFuncs
    Params = 2
    NbArgs = {0, 3}
    Regs <- MCRegs
    MaxBps = 2
    MaxCalls = 3
    MaxHooks = 2
    MaxLost = 1
INVARIANTS
    FtraceTypeOK
    RecordsTrue
    RecordedPerArgument
PROPERTY
    NothingStray
SYMMETRY FuncSymmetry
