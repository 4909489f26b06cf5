--------------------------- MODULE GotAuditProofs ---------------------------
(***************************************************************************)
(* Proofs about GotAudit: for any files, ranges, symbols and sequence of   *)
(* programs, the caches agree with each other, an audit accuses every      *)
(* entry that points into a mapping that does not export it, and finds the *)
(* symbols that several files export. The exceptions are named: a file     *)
(* that changed after it was recorded, and one that was looked up before.  *)
(***************************************************************************)
EXTENDS GotAudit, FiniteSetTheorems, TLAPS

\* What is recorded of a file is what it exports, if it has not changed since,
\* and nothing if it was looked up before it was listed, nor of other mappings.
PathsCurrent ==
    /\ \A p \in DOMAIN paths \ (rebuilt \cup early) : paths[p] = Exports(p)
    /\ early \subseteq DOMAIN paths /\ \A f \in early : paths[f] = {}

IInv == /\ TypeOK
        /\ CachesAgree
        /\ PathsCurrent
        /\ ForeignExact
        /\ DuplicatesFound

\* Of two sets of files the larger has more than one if the smaller has.
LEMMA MoreFiles ==
    ASSUME NEW S \in SUBSET Files, NEW T \in SUBSET S, Cardinality(T) > 1
    PROVE  Cardinality(S) > 1
<1>1. IsFiniteSet(S)
  BY FS_Subset, GotAuditAssumption DEF GotAuditAssumption
<1>2. IsFiniteSet(T) /\ Cardinality(T) <= Cardinality(S)
  BY <1>1, FS_Subset
<1>3. Cardinality(S) \in Nat /\ Cardinality(T) \in Nat
  BY <1>1, <1>2, FS_CardinalityType
<1> QED
  BY <1>2, <1>3

\* The initial states satisfy the invariant.
LEMMA InitIInv == Init => IInv
<1> SUFFICES ASSUME Init PROVE IInv
  OBVIOUS
<1>1. DOMAIN paths = {} /\ report = Stale
  BY DEF Init
<1>2. TypeOK
  BY <1>1, GotAuditAssumption DEF Init, TypeOK
<1> QED
  BY <1>1, <1>2 DEF Init, IInv, CachesAgree, PathsCurrent, ForeignExact,
                 DuplicatesFound

\* Recording any unscanned files keeps the caches in agreement and current.
LEMMA Recording ==
    ASSUME IInv, NEW fs \in SUBSET Unscanned
    PROVE  /\ DOMAIN PathsAfter(fs) \subseteq Paths \ {Vdso}
           /\ \A f \in DOMAIN PathsAfter(fs) : PathsAfter(fs)[f] \subseteq Syms
           /\ SymbolsAfter(fs) \in [Syms -> SUBSET Files]
           /\ \A f \in Files, s \in Syms :
                 f \in SymbolsAfter(fs)[s] <=>
                     f \in DOMAIN PathsAfter(fs) /\ s \in PathsAfter(fs)[f]
           /\ \A p \in DOMAIN PathsAfter(fs) \ (rebuilt \cup early) :
                 PathsAfter(fs)[p] = Exports(p)
           /\ early \subseteq DOMAIN PathsAfter(fs)
           /\ \A f \in early : PathsAfter(fs)[f] = {}
<1>1. fs \subseteq Files /\ fs \cap DOMAIN paths = {}
  BY DEF Unscanned, IInv, TypeOK
<1>2. DOMAIN PathsAfter(fs) = DOMAIN paths \cup {g \in fs : exports[g] # {}}
  BY DEF PathsAfter
<1>3. \A f \in DOMAIN PathsAfter(fs) :
          PathsAfter(fs)[f] = IF f \in fs THEN exports[f] ELSE paths[f]
  BY DEF PathsAfter
<1>4. \A s \in Syms :
          SymbolsAfter(fs)[s] = symbols[s] \cup {f \in fs : s \in exports[f]}
  BY DEF SymbolsAfter
<1>5. \A f \in DOMAIN PathsAfter(fs) : PathsAfter(fs)[f] \subseteq Syms
  BY <1>1, <1>2, <1>3 DEF IInv, TypeOK
<1>6. SymbolsAfter(fs) \in [Syms -> SUBSET Files]
  BY <1>1 DEF SymbolsAfter, IInv, TypeOK
<1>7. ASSUME NEW f \in Files, NEW s \in Syms
      PROVE  f \in SymbolsAfter(fs)[s] <=>
                 f \in DOMAIN PathsAfter(fs) /\ s \in PathsAfter(fs)[f]
  <2>1. CASE f \in fs
    <3>1. f \notin symbols[s]
      BY <2>1, <1>1 DEF IInv, CachesAgree
    <3> QED
      BY <2>1, <3>1, <1>1, <1>2, <1>3, <1>4
  <2>2. CASE f \notin fs
    BY <2>2, <1>2, <1>3, <1>4 DEF IInv, CachesAgree
  <2> QED
    BY <2>1, <2>2
<1>8. \A p \in DOMAIN PathsAfter(fs) \ (rebuilt \cup early) :
          PathsAfter(fs)[p] = Exports(p)
  BY <1>1, <1>2, <1>3 DEF IInv, PathsCurrent, Exports
<1>9. DOMAIN PathsAfter(fs) \subseteq Paths \ {Vdso}
  BY <1>1, <1>2, GotAuditAssumption DEF IInv, TypeOK, Paths, GotAuditAssumption
<1>10. early \subseteq DOMAIN PathsAfter(fs) /\ \A f \in early : PathsAfter(fs)[f] = {}
  BY <1>1, <1>2, <1>3 DEF IInv, PathsCurrent
<1> QED
  BY <1>5, <1>6, <1>7, <1>8, <1>9, <1>10

\* A complete audit: what it has not listed by then exports nothing.
LEMMA AuditIInv == IInv /\ Audit => IInv'
<1> SUFFICES ASSUME IInv, Audit PROVE IInv'
  OBVIOUS
<1> DEFINE P == PathsAfter(Unscanned)
           S == SymbolsAfter(Unscanned)
<1>1. /\ report' = Found(S, P) /\ symbols' = S
      /\ paths' = [f \in DOMAIN P \cup Touched |->
                      IF f \in DOMAIN P THEN P[f] ELSE {}]
      /\ early' = early \cup {f \in Touched \cap Files :
                                f \notin code \cup DOMAIN paths}
      /\ UNCHANGED <<exports, mapped, code, got, rebuilt>>
  BY DEF Audit, program
<1>2. /\ DOMAIN P \subseteq Paths \ {Vdso}
      /\ \A f \in DOMAIN P : P[f] \subseteq Syms
      /\ S \in [Syms -> SUBSET Files]
      /\ \A f \in Files, s \in Syms :
            f \in S[s] <=> f \in DOMAIN P /\ s \in P[f]
      /\ \A p \in DOMAIN P \ (rebuilt \cup early) : P[p] = Exports(p)
      /\ early \subseteq DOMAIN P /\ \A f \in early : P[f] = {}
  BY Recording
<1>3. DOMAIN P = DOMAIN paths \cup {g \in Unscanned : exports[g] # {}}
  BY DEF PathsAfter
<1>4. \A f \in code : f \in DOMAIN P \/ exports[f] = {}
  BY <1>3 DEF Unscanned
<1>5. /\ DOMAIN paths' = DOMAIN P \cup Touched
      /\ \A f \in DOMAIN P : paths'[f] = P[f]
      /\ \A f \in Touched \ DOMAIN P : paths'[f] = {}
  BY <1>1
<1>6. Touched \subseteq Paths \ {Vdso} /\ Nowhere \notin Paths
  BY GotAuditAssumption DEF Touched, Paths, GotAuditAssumption
<1>60. early' \subseteq Files /\ \A f \in early' \ early : f \notin DOMAIN P
  BY <1>1, <1>3 DEF IInv, TypeOK, Unscanned
<1>61. \A p \in Touched \ (DOMAIN P \cup early') : Exports(p) = {}
  <2> SUFFICES ASSUME NEW p \in Touched, p \notin DOMAIN P, p \notin early', p \in Files
               PROVE  exports[p] = {}
    BY DEF Exports
  <2>1. p \in code
    BY <1>1, <1>3
  <2> QED
    BY <2>1, <1>4
<1>7. Found(S, P) \in SUBSET Errors
  BY DEF Found
<1> HIDE DEF P, S
<1>8. TypeOK'
  <2>1. DOMAIN paths' \subseteq Paths \ {Vdso}
    BY <1>2, <1>5, <1>6
  <2> QED
    BY <1>1, <1>2, <1>5, <1>60, <1>7, <2>1 DEF IInv, TypeOK
<1>9. CachesAgree'
  BY <1>1, <1>2, <1>5 DEF CachesAgree
<1>10. PathsCurrent'
  <2>1. \A p : Exports(p)' = Exports(p)
    BY <1>1 DEF Exports
  <2>2. ASSUME NEW p \in DOMAIN paths', p \notin rebuilt' \cup early'
        PROVE  paths'[p] = Exports(p)
    BY <1>1, <1>2, <1>5, <1>61, <2>2
  <2>3. early' \subseteq DOMAIN paths'
    BY <1>1, <1>2, <1>5
  <2>4. \A f \in early' : paths'[f] = {}
    BY <1>2, <1>5, <1>60, <2>3
  <2> QED
    BY <2>1, <2>2, <2>3, <2>4 DEF PathsCurrent
<1>11. ForeignExact'
  <2>1. \A p : Exports(p)' = Exports(p)
    BY <1>1 DEF Exports
  <2> SUFFICES ASSUME NEW s \in Syms,
                      got[s] \notin {Prog, Vdso, Nowhere} \cup rebuilt
               PROVE  /\ s \notin Exports(got[s]) => <<s, "foreign">> \in Found(S, P)
                      /\ <<s, "foreign">> \in Found(S, P) =>
                             \/ s \notin Exports(got[s])
                             \/ got[s] \notin code \/ got[s] \in early'
    BY <1>1, <2>1 DEF ForeignExact
  <2>2. <<s, "foreign">> \in Errors
    BY DEF Errors
  <2>3. <<s, "foreign">> \in Found(S, P) <=>
            s \notin (IF got[s] \in DOMAIN P THEN P[got[s]] ELSE {})
    BY <2>2 DEF Found
  <2>4. got[s] \in Paths
    BY DEF IInv, TypeOK, Paths
  <2>5. CASE got[s] \in early
    BY <2>3, <2>5, <1>1, <1>2
  <2>6. CASE got[s] \notin early /\ got[s] \in DOMAIN P
    BY <2>3, <2>6, <1>2
  <2>7. CASE got[s] \notin DOMAIN P
    BY <2>3, <2>7, <1>4, <2>4 DEF Exports
  <2> QED
    BY <2>5, <2>6, <2>7
<1>12. DuplicatesFound'
  <2> DEFINE Providers(s, F) == {f \in F : s \in exports[f]}
  <2> SUFFICES ASSUME NEW s \in Syms \ Expected
               PROVE  /\ got[s] # Nowhere
                         /\ Cardinality(Providers(s, code \ (rebuilt \cup early'))) > 1 =>
                             <<s, "duplicate">> \in Found(S, P)
                      /\ <<s, "duplicate">> \in Found(S, P) =>
                             Cardinality(Providers(s, Files \ early') \cup rebuilt) > 1
    BY <1>1 DEF DuplicatesFound
  <2>1. <<s, "duplicate">> \in Errors
    BY DEF Errors
  <2>2. <<s, "duplicate">> \in Found(S, P) <=>
            got[s] # Nowhere /\ Cardinality(S[s]) > 1
    BY <2>1 DEF Found
  <2>3. code \subseteq Files /\ rebuilt \subseteq Files /\ S[s] \subseteq Files
    BY <1>2 DEF IInv, TypeOK
  <2>30. early \subseteq early'
    BY <1>1
  <2>31. \A f \in Files : Exports(f) = exports[f]
    BY DEF Exports
  <2>32. \A f \in early' : f \notin S[s]
    BY <1>2, <1>60, <2>3
  <2>4. Providers(s, code \ (rebuilt \cup early')) \subseteq S[s]
    BY <2>3, <2>30, <2>31, <1>2, <1>4
  <2>5. S[s] \subseteq Providers(s, Files \ early') \cup rebuilt
    BY <2>3, <2>30, <2>31, <2>32, <1>2
  <2>6. Providers(s, Files \ early') \cup rebuilt \subseteq Files
    BY <2>3
  <2>7. Cardinality(Providers(s, code \ (rebuilt \cup early'))) > 1 => Cardinality(S[s]) > 1
    <3> HIDE DEF Providers
    <3> QED
      BY <2>3, <2>4, MoreFiles
  <2>8. Cardinality(S[s]) > 1 => Cardinality(Providers(s, Files \ early') \cup rebuilt) > 1
    <3> HIDE DEF Providers
    <3> QED
      BY <2>5, <2>6, MoreFiles
  <2> HIDE DEF Providers
  <2> QED
    BY <2>2, <2>7, <2>8
<1> QED
  BY <1>8, <1>9, <1>10, <1>11, <1>12 DEF IInv

\* An audit that nm interrupts leaves no report, and caches that agree.
LEMMA AuditFailsIInv == IInv /\ AuditFails => IInv'
<1> SUFFICES ASSUME IInv, AuditFails PROVE IInv'
  OBVIOUS
<1> PICK fs \in SUBSET Unscanned :
        /\ symbols' = SymbolsAfter(fs) /\ paths' = PathsAfter(fs)
        /\ report' = Stale
        /\ UNCHANGED <<exports, mapped, code, got, rebuilt, early>>
  BY DEF AuditFails, program
<1>1. /\ DOMAIN paths' \subseteq Paths \ {Vdso}
      /\ \A f \in DOMAIN paths' : paths'[f] \subseteq Syms
      /\ symbols' \in [Syms -> SUBSET Files]
      /\ \A f \in Files, s \in Syms :
            f \in symbols'[s] <=> f \in DOMAIN paths' /\ s \in paths'[f]
      /\ \A p \in DOMAIN paths' \ (rebuilt \cup early) : paths'[p] = Exports(p)
      /\ early \subseteq DOMAIN paths' /\ \A f \in early : paths'[f] = {}
  BY Recording
<1>2. /\ UNCHANGED <<exports, mapped, code, got, rebuilt, early>>
      /\ report' = Stale
  OBVIOUS
<1>3. \A p : Exports(p)' = Exports(p)
  BY <1>2 DEF Exports
<1> QED
  BY <1>1, <1>2, <1>3 DEF IInv, TypeOK, CachesAgree, PathsCurrent, ForeignExact,
         DuplicatesFound

\* The program and the file system touch no cache and void the report.
LEMMA ProgramIInv ==
    ASSUME IInv,
           \/ \E f \in Files : Map(f) \/ Load(f) \/ Unload(f) \/ Rebuild(f)
           \/ \E s \in Syms, p \in Paths : Bind(s, p)
           \/ Restart
    PROVE  IInv'
<1>1. UNCHANGED <<paths, symbols, early>> /\ report' = Stale
  BY DEF Map, Load, Unload, Rebuild, Bind, Restart
<1>2. /\ rebuilt \subseteq rebuilt' /\ rebuilt' \subseteq Files
      /\ \A p \in DOMAIN paths \ rebuilt' : Exports(p)' = Exports(p)
  BY DEF Map, Load, Unload, Rebuild, Bind, Restart, IInv, TypeOK, Exports
<1>3. mapped' \in SUBSET Files /\ code' \in SUBSET mapped' /\ Prog \in code'
  BY GotAuditAssumption
     DEF Map, Load, Unload, Rebuild, Bind, Restart, IInv, TypeOK, GotAuditAssumption
<1>4. exports' \in [Files -> SUBSET Syms]
  BY DEF Map, Load, Unload, Rebuild, Bind, Restart, IInv, TypeOK
<1>5. got' \in [Syms -> mapped' \cup Ranges \cup {Nowhere}]
  BY <1>3 DEF Map, Load, Unload, Rebuild, Bind, Restart, IInv, TypeOK
<1> QED
  BY <1>1, <1>2, <1>3, <1>4, <1>5
     DEF IInv, TypeOK, CachesAgree, PathsCurrent, ForeignExact,
         DuplicatesFound

\* Every step preserves the invariant.
LEMMA NextIInv == IInv /\ [Next]_vars => IInv'
<1> SUFFICES ASSUME IInv, [Next]_vars PROVE IInv'
  OBVIOUS
<1>1. CASE Audit
  BY <1>1, AuditIInv
<1>2. CASE AuditFails
  BY <1>2, AuditFailsIInv
<1>3. CASE \/ \E f \in Files : Map(f) \/ Load(f) \/ Unload(f) \/ Rebuild(f)
           \/ \E s \in Syms, p \in Paths : Bind(s, p)
           \/ Restart
  BY <1>3, ProgramIInv
<1>4. CASE UNCHANGED vars
  <2>1. UNCHANGED <<exports, mapped, code, got, paths, symbols, report, rebuilt,
                    early>>
    BY <1>4 DEF vars, program
  <2>2. DuplicatesFound'
    BY <2>1, Zenon DEF IInv, DuplicatesFound
  <2>3. \A p : Exports(p)' = Exports(p)
    BY <2>1 DEF Exports
  <2> QED
    BY <2>1, <2>2, <2>3 DEF IInv, TypeOK, CachesAgree, PathsCurrent, ForeignExact
<1> QED
  BY <1>1, <1>2, <1>3, <1>4 DEF Next

\* The invariant holds always.
LEMMA Invariance == Spec => []IInv
<1>1. Init => IInv
  BY InitIInv
<1>2. IInv /\ [Next]_vars => IInv'
  BY NextIInv
<1> QED
  BY <1>1, <1>2, PTL DEF Spec

\* Type correctness; in particular [vdso] and an address in no mapping never
\* become keys of the cache.
THEOREM TypeCorrect == Spec => []TypeOK
<1>1. IInv => TypeOK
  BY DEF IInv
<1> QED
  BY <1>1, Invariance, PTL

\* The two caches agree, also after failures and rebuilds.
THEOREM CachesAlwaysAgree == Spec => []CachesAgree
<1>1. IInv => CachesAgree
  BY DEF IInv
<1> QED
  BY <1>1, Invariance, PTL

\* An audit finds the symbols that several mapped files export, and none that
\* only one file does; but for files that changed or were looked up too early.
THEOREM DuplicatesAreFound == Spec => []DuplicatesFound
<1>1. IInv => DuplicatesFound
  BY DEF IInv
<1> QED
  BY <1>1, Invariance, PTL

\* An audit accuses each entry it should, and another one only if its file is not
\* mapped for execution, or once was looked up when it was not.
THEOREM ForeignIsExact == Spec => []ForeignExact
<1>1. IInv => ForeignExact
  BY DEF IInv
<1> QED
  BY <1>1, Invariance, PTL
=============================================================================
