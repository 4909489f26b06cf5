------------------------------ MODULE GotAudit ------------------------------
(***************************************************************************)
(* got-audit of scripts/got_audit.py: for every entry of the GOT, the file *)
(* that provides the address it holds, and an error if that file does not  *)
(* export the symbol or if several files do.  What files export is cached  *)
(* in the class (_symbols_ and _paths_) for as long as GDB lives, while    *)
(* libraries are loaded, unloaded and rebuilt and programs come and go.    *)
(* An entry of the GOT may point into any mapping: of a file, executable   *)
(* or not, or of no file at all.                                           *)
(***************************************************************************)
EXTENDS Integers, FiniteSets

CONSTANTS
    Files,      \* the files that get mapped
    Ranges,     \* the mappings whose path is no file: [heap], [vdso] and so on
    Vdso,       \* [vdso], which nothing is held against
    Prog,       \* the one whose GOT is displayed
    Syms,       \* the symbols of its GOT
    Expected,   \* _expected_dups_
    Nowhere,    \* an address in no mapping
    Stale       \* no report of the program as it is

ASSUME GotAuditAssumption ==
    /\ IsFiniteSet(Files)
    /\ Prog \in Files /\ Expected \subseteq Syms
    /\ Vdso \in Ranges /\ Files \cap Ranges = {}
    /\ Nowhere \notin Files \cup Ranges

VARIABLES
    exports,    \* what `nm -D` lists for a file now
    mapped,     \* the files with a mapping
    code,       \* those with an executable one
    got,        \* the mapping each entry points into
    paths,      \* _paths_: for each of its keys, the symbols
    symbols,    \* _symbols_
    report,     \* the errors on the screen; Stale once the program moved on
    rebuilt,    \* history: files that changed after they were recorded
    early       \* history: files that were looked up before they were listed

program == <<exports, mapped, code, got>>
vars == <<program, paths, symbols, report, rebuilt, early>>

Paths == Files \cup Ranges
Errors == Syms \X {"duplicate", "foreign"}

Init ==
    /\ exports \in [Files -> SUBSET Syms]
    /\ mapped = {Prog} /\ code = {Prog}
    /\ got = [s \in Syms |-> Prog]
    /\ paths = [f \in {} |-> {}]
    /\ symbols = [s \in Syms |-> {}]
    /\ report = Stale
    /\ rebuilt = {} /\ early = {}

-----------------------------------------------------------------------------
(* The audit.                                                              *)

\* Mutant: a file is skipped if any of its symbols is known already.
UnscannedBySymbol == {f \in code : \A s \in exports[f] : symbols[s] = {}}

\* The files do_invoke has nm list: is_file(), executable, not in _paths_.
Unscanned == code \ DOMAIN paths

\* Mutant: a symbol keeps the first file that was seen to export it.
SymbolsFirst(fs) ==
    [s \in Syms |->
        IF symbols[s] # {} THEN symbols[s] ELSE {f \in fs : s \in exports[f]}]

\* get_symbols_from_path of the files fs.
SymbolsAfter(fs) == [s \in Syms |-> symbols[s] \cup {f \in fs : s \in exports[f]}]

\* A file becomes a key with its first symbol.
PathsAfter(fs) ==
    [f \in DOMAIN paths \cup {g \in fs : exports[g] # {}} |->
        IF f \in fs THEN exports[f] ELSE paths[f]]

\* Mutant: an address in no mapping is looked up as well.
TouchedAny == {got[s] : s \in Syms}

\* The keys build_line adds: looking a path up in a defaultdict inserts it.
Touched == {p \in Paths \ {Prog, Vdso} : \E s \in Syms : got[s] = p}

\* The errors of build_line, from the caches S and P.
Found(S, P) ==
    LET Listed(f) == IF f \in DOMAIN P THEN P[f] ELSE {}
    IN  {e \in Errors :
            /\ got[e[1]] # Nowhere
            /\ \/ /\ e[2] = "duplicate"
                  /\ Cardinality(S[e[1]]) > 1 /\ e[1] \notin Expected
               \/ /\ e[2] = "foreign"
                  /\ got[e[1]] \notin {Prog, Vdso}
                  /\ e[1] \notin Listed(got[e[1]])}

Audit ==
    LET P == PathsAfter(Unscanned)
        S == SymbolsAfter(Unscanned)
    IN  /\ report' = Found(S, P)
        /\ symbols' = S
        /\ paths' = [f \in DOMAIN P \cup Touched |->
                        IF f \in DOMAIN P THEN P[f] ELSE {}]
        /\ early' = early \cup {f \in Touched \cap Files :
                                  f \notin code \cup DOMAIN paths}
        /\ UNCHANGED <<program, rebuilt>>

\* nm fails for a file: what was listed before it stays recorded.
AuditFails ==
    \E fs \in SUBSET Unscanned :
        /\ fs # Unscanned
        /\ symbols' = SymbolsAfter(fs)
        /\ paths' = PathsAfter(fs)
        /\ report' = Stale
        /\ UNCHANGED <<program, rebuilt, early>>

-----------------------------------------------------------------------------
(* The program.                                                            *)

\* The program maps a file to read it ...
Map(f) ==
    /\ f \notin mapped /\ mapped' = mapped \cup {f}
    /\ report' = Stale
    /\ UNCHANGED <<exports, code, got, paths, symbols, rebuilt, early>>

\* ... or to run it, whether it was mapped before or not (dlopen, mprotect).
Load(f) ==
    /\ f \notin code /\ code' = code \cup {f} /\ mapped' = mapped \cup {f}
    /\ report' = Stale
    /\ UNCHANGED <<exports, got, paths, symbols, rebuilt, early>>

\* dlclose and munmap; entries into an unloaded file dangle.
Unload(f) ==
    /\ f \in mapped \ {Prog}
    /\ mapped' = mapped \ {f} /\ code' = code \ {f}
    /\ got' = [s \in Syms |-> IF got[s] = f THEN Nowhere ELSE got[s]]
    /\ report' = Stale
    /\ UNCHANGED <<exports, paths, symbols, rebuilt, early>>

\* An entry is resolved by the loader, or overwritten by anything.
Bind(s, p) ==
    /\ p \in mapped \cup Ranges /\ got' = [got EXCEPT ![s] = p]
    /\ report' = Stale
    /\ UNCHANGED <<exports, mapped, code, paths, symbols, rebuilt, early>>

\* The program is started again.
Restart ==
    /\ mapped' = {Prog} /\ code' = {Prog} /\ got' = [s \in Syms |-> Prog]
    /\ report' = Stale
    /\ UNCHANGED <<exports, paths, symbols, rebuilt, early>>

\* A file is built again while no program maps it.
Rebuild(f) ==
    /\ f \notin mapped
    /\ \E E \in SUBSET Syms : exports' = [exports EXCEPT ![f] = E]
    /\ rebuilt' = IF f \in DOMAIN paths \/ \E s \in Syms : f \in symbols[s]
                  THEN rebuilt \cup {f} ELSE rebuilt
    /\ report' = Stale
    /\ UNCHANGED <<mapped, code, got, paths, symbols, early>>

Next ==
    \/ Audit
    \/ AuditFails
    \/ \E f \in Files : Map(f)
    \/ \E f \in Files : Load(f)
    \/ \E f \in Files : Unload(f)
    \/ \E s \in Syms, p \in Paths : Bind(s, p)
    \/ Restart
    \/ \E f \in Files : Rebuild(f)

Spec == Init /\ [][Next]_vars
-----------------------------------------------------------------------------
\* The variables stay in their ranges; a key of the cache is a file or a range
\* an entry pointed into, never [vdso] or an address in no mapping.
TypeOK ==
    /\ exports \in [Files -> SUBSET Syms]
    /\ mapped \in SUBSET Files /\ code \in SUBSET mapped /\ Prog \in code
    /\ got \in [Syms -> mapped \cup Ranges \cup {Nowhere}]
    /\ DOMAIN paths \subseteq Paths \ {Vdso}
    /\ \A p \in DOMAIN paths : paths[p] \subseteq Syms
    /\ symbols \in [Syms -> SUBSET Files]
    /\ report \in (SUBSET Errors) \cup {Stale}
    /\ rebuilt \subseteq Files /\ early \subseteq Files

\* The two caches are one relation, read from both ends: also after nm failed
\* for some file, and whatever was rebuilt since.
CachesAgree ==
    \A f \in Files, s \in Syms :
        f \in symbols[s] <=> (f \in DOMAIN paths /\ s \in paths[f])

\* What the mapping of path p exports.
Exports(p) == IF p \in Files THEN exports[p] ELSE {}

\* An entry that points into a mapping that does not export it is accused. One
\* that is exported is accused only while its file has no executable mapping, or
\* if an audit looked that file up at such a time, which hides it from nm for as
\* long as GDB lives (line 153). Files that changed since they were listed aside.
ForeignExact ==
    report # Stale =>
        \A s \in Syms :
            got[s] \notin {Prog, Vdso, Nowhere} \cup rebuilt =>
                /\ s \notin Exports(got[s]) => <<s, "foreign">> \in report
                /\ <<s, "foreign">> \in report =>
                       \/ s \notin Exports(got[s])
                       \/ got[s] \notin code \/ got[s] \in early

\* A symbol that two executable files export is reported, unless one of them was
\* looked up before it was listed. Only symbols that two files export are, of this
\* program or of an earlier one. Files that changed since aside.
DuplicatesFound ==
    report # Stale =>
        \A s \in Syms \ Expected :
            LET Providers(F) == {f \in F : s \in exports[f]}
            IN  /\ got[s] # Nowhere
                   /\ Cardinality(Providers(code \ (rebuilt \cup early))) > 1 =>
                       <<s, "duplicate">> \in report
                /\ <<s, "duplicate">> \in report =>
                       Cardinality(Providers(Files \ early) \cup rebuilt) > 1

-----------------------------------------------------------------------------
(* What the documentation says and the code does not do.                   *)

\* An error is printed if the file that provides the mapped memory does not
\* export the symbol (docs/commands/got-audit.md, line 11), not if it does.
OnlyForeignAccused ==
    report # Stale =>
        \A s \in Syms :
            <<s, "foreign">> \in report /\ got[s] \notin rebuilt =>
                s \notin Exports(got[s])

=============================================================================
