--------------------------- MODULE ArgPanesProofs ---------------------------
(***************************************************************************)
(* Proofs about ArgPanes.  The invariant adds to the properties why they   *)
(* stay true: a table that is empty is one that could not be loaded, and   *)
(* the kernel's number is that of the last system call.                    *)
(***************************************************************************)
EXTENDS ArgPanes, TLAPS

EmptyIsSpoiled ==
    \A a \in DOMAIN argument_table : argument_table[a] = "empty" => a \in spoiled

SavedIsMade == orig \in {made, Unknown}

IInv == TypeOK /\ EmptyIsSpoiled /\ SavedIsMade /\ LibcPaneAnswers /\ SyscallOfTheProgram

\* The initial states satisfy the invariant.
LEMMA InitIInv == Init => IInv
  BY ArgPanesAssumption DEF Init, IInv, TypeOK, EmptyIsSpoiled, SavedIsMade,
     LibcPaneAnswers, SyscallOfTheProgram, Nothing, Nrs, Stops

\* A load adds the one key of an empty table, which spoils it if it is empty,
\* and what the pane then says is what that table allows.
LEMMA LoadIInv ==
    ASSUME IInv, at \in Calls, DOMAIN argument_table = {}, LibcLoad,
           files' \in [Generated -> {"absent", "good", "broken"}],
           manual' \in {"absent", "good", "broken"},
           UNCHANGED <<program, syscall, changes>>
    PROVE  IInv'
<1>1. /\ DOMAIN argument_table' = {arch}
      /\ argument_table'[arch] = IF Found(files') THEN "args" ELSE "empty"
      /\ spoiled' = IF Found(files') THEN spoiled ELSE spoiled \cup {arch}
  BY DEF LibcLoad, Loaded
<1>2. /\ shown'.pane = "libc" /\ shown'.arch = arch
      /\ shown'.result = LibcResult(argument_table')
  BY DEF LibcLoad, ShowLibc, Nothing, TableOf
<1>3. TypeOK'
  BY <1>1, <1>2 DEF IInv, TypeOK, program, syscall, Found
<1>4. EmptyIsSpoiled' /\ SavedIsMade'
  BY <1>1 DEF IInv, EmptyIsSpoiled, SavedIsMade, program
<1>5. LibcPaneAnswers'
  BY <1>1, <1>2 DEF LibcPaneAnswers, LibcResult, TableOf, program
<1> QED
  BY <1>2, <1>3, <1>4, <1>5 DEF IInv, SyscallOfTheProgram

\* The pane, from a table, from a load, and after an exception.
LEMMA LibcPaneIInv == IInv /\ LibcPane => IInv'
<1> SUFFICES ASSUME IInv, LibcPane PROVE IInv'
  OBVIOUS
<1>0. at \in Calls /\ UNCHANGED <<program, syscall, changes>>
  BY DEF LibcPane
<1>1. CASE DOMAIN argument_table # {}
  <2>1. UNCHANGED libc /\ shown'.pane = "libc" /\ shown'.arch = arch
        /\ shown'.result = LibcResult(argument_table)
    BY <1>1 DEF LibcPane, ShowLibc, Nothing, TableOf
  <2>2. TypeOK' /\ EmptyIsSpoiled' /\ SavedIsMade' /\ SyscallOfTheProgram'
    BY <1>0, <2>1 DEF IInv, TypeOK, EmptyIsSpoiled, SavedIsMade, SyscallOfTheProgram,
       libc, program, syscall
  <2>3. UNCHANGED <<arch, at, argument_table, spoiled>>
    BY <1>0, <2>1 DEF program, libc
  <2>4. (LibcResult(argument_table) = "args" => at \in Plt)
        /\ LibcResult(argument_table) # "raised"
    BY DEF LibcResult, TableOf
  <2>5. ASSUME LibcResult(argument_table) = "KeyError"
        PROVE  at \notin Documented \/ arch \in spoiled
               \/ \E a \in DOMAIN argument_table : a # arch
    <3>1. CASE arch \notin DOMAIN argument_table
      BY <1>1, <3>1
    <3>2. CASE arch \in DOMAIN argument_table
      <4>1. argument_table[arch] \in {"args", "empty"}
        BY <3>2 DEF IInv, TypeOK
      <4> QED
        BY <2>5, <3>2, <4>1 DEF IInv, EmptyIsSpoiled, LibcResult, TableOf
    <3> QED
      BY <3>1, <3>2
  <2>6. LibcPaneAnswers'
    BY <2>1, <2>3, <2>4, <2>5 DEF LibcPaneAnswers
  <2> QED
    BY <2>2, <2>6 DEF IInv
<1>2. CASE DOMAIN argument_table = {} /\ arch \in Generated \ Absent
  BY <1>0, <1>2, LoadIInv DEF LibcPane, IInv, TypeOK
<1>3. CASE DOMAIN argument_table = {} /\ arch \notin Generated \ Absent
  <2> PICK todo \in SUBSET Generated :
        \/ \E downloaded \in BOOLEAN : Generates(todo, downloaded) /\ LibcLoad
        \/ /\ GeneratorRaises(todo)
           /\ argument_table' = Kept
           /\ ShowLibc(argument_table', "raised")
           /\ UNCHANGED spoiled
    BY <1>3 DEF LibcPane
  <2>1. CASE \E downloaded \in BOOLEAN : Generates(todo, downloaded) /\ LibcLoad
    <3>1. files' \in [Generated -> {"absent", "good", "broken"}]
          /\ manual' \in {"absent", "good", "broken"}
      BY <2>1 DEF Generates, Written, IInv, TypeOK
    <3> QED
      BY <1>0, <1>3, <2>1, <3>1, LoadIInv
  <2>2. CASE /\ GeneratorRaises(todo) /\ argument_table' = Kept
             /\ ShowLibc(argument_table', "raised") /\ UNCHANGED spoiled
    <3>1. UNCHANGED <<argument_table, files>> /\ shown'.pane = "libc"
          /\ shown'.result = "raised" /\ manual' \in {"absent", "good", "broken"}
      BY <2>2 DEF GeneratorRaises, Kept, ShowLibc, Nothing, IInv, TypeOK
    <3> QED
      BY <1>0, <1>3, <2>2, <3>1 DEF IInv, TypeOK, EmptyIsSpoiled, SavedIsMade,
         LibcPaneAnswers, SyscallOfTheProgram, program, syscall
  <2> QED
    BY <2>1, <2>2
<1> QED
  BY <1>1, <1>2, <1>3

\* A number is only looked up at a system call instruction or behind one.
LEMMA SyscallArgsIInv == IInv /\ SyscallArgs => IInv'
<1> SUFFICES ASSUME IInv, SyscallArgs PROVE IInv'
  OBVIOUS
<1>1. /\ shown'.pane = "syscall" /\ shown'.result = SyscallResult
      /\ shown'.nr = Number /\ path' = Path
      /\ UNCHANGED <<program, libc, setting, dirs, changes>>
  BY DEF SyscallArgs
<1>2. Path \in Dirs \cup {"none"}
  BY DEF Path, IInv, TypeOK
<1>3. SyscallResult \in {"args", "warning"} => at \in {"syscall", "behind"}
  BY DEF SyscallResult
<1>4. TypeOK' /\ EmptyIsSpoiled' /\ SavedIsMade' /\ LibcPaneAnswers'
  BY <1>1, <1>2 DEF IInv, TypeOK, EmptyIsSpoiled, SavedIsMade, LibcPaneAnswers,
     program, libc
<1>5. SyscallOfTheProgram'
  BY <1>1, <1>3 DEF IInv, SavedIsMade, SyscallOfTheProgram, Number, program
<1> QED
  BY <1>4, <1>5 DEF IInv

\* All other steps clear the screen, so only what the program was and what is on
\* disk can change.
LEMMA ProgramIInv ==
    ASSUME IInv,
           \/ \E s \in Stops, n \in Nrs : Stop(s, n)
           \/ \E n \in Nrs : MakeCall(n)
           \/ \E a \in Archs : Load(a)
    PROVE  IInv'
<1>1. shown' = Nothing /\ UNCHANGED <<libc, syscall, changes>>
  BY DEF Stop, MakeCall, Load
<1>2. TypeOK' /\ SavedIsMade'
  BY <1>1, ArgPanesAssumption DEF IInv, TypeOK, SavedIsMade, Stop, MakeCall, Load, libc,
     syscall, Nothing, Nrs, Stops
<1> QED
  BY <1>1, <1>2 DEF IInv, EmptyIsSpoiled, LibcPaneAnswers, SyscallOfTheProgram, libc, Nothing

LEMMA ChangesIInv == IInv /\ (FilesChange \/ PathChanges) => IInv'
<1> SUFFICES ASSUME IInv, FilesChange \/ PathChanges PROVE IInv'
  OBVIOUS
<1>1. shown' = Nothing /\ UNCHANGED <<program, argument_table, spoiled, path>>
      /\ changes < MaxChanges /\ changes' = changes + 1
  BY DEF FilesChange, PathChanges, Changes
<1>2. /\ files' \in [Generated -> {"absent", "good", "broken"}]
      /\ manual' \in {"absent", "good", "broken"}
      /\ setting' \in Dirs /\ dirs' \subseteq Dirs
  BY DEF IInv, TypeOK, FilesChange, PathChanges
<1>3. TypeOK'
  BY <1>1, <1>2, ArgPanesAssumption DEF IInv, TypeOK, program, Nothing
<1> QED
  BY <1>1, <1>3 DEF IInv, EmptyIsSpoiled, SavedIsMade, LibcPaneAnswers,
     SyscallOfTheProgram, program, Nothing

\* Every step preserves the invariant.
LEMMA NextIInv == IInv /\ [Next]_vars => IInv'
<1> SUFFICES ASSUME IInv, [Next]_vars PROVE IInv'
  OBVIOUS
<1>1. CASE UNCHANGED vars
  BY <1>1 DEF vars, program, libc, syscall, IInv, TypeOK, EmptyIsSpoiled, SavedIsMade,
     LibcPaneAnswers, SyscallOfTheProgram
<1> QED
  BY <1>1, LibcPaneIInv, SyscallArgsIInv, ProgramIInv, ChangesIInv DEF Next

\* The invariant holds in every behaviour.
LEMMA Inductive == Spec => []IInv
  BY InitIInv, NextIInv, PTL DEF Spec

\* The variables stay in their ranges, and argument_table has no arguments for an
\* architecture without a file, for any architectures, functions and directories.
THEOREM TypeCorrect == Spec => []TypeOK
  BY Inductive, PTL DEF IInv

\* The libc pane names arguments of the program's architecture only, fails for
\* the two reasons it has only, and loads again after a failed generation.
THEOREM LibcPaneCorrect == Spec => []LibcPaneAnswers
  BY Inductive, PTL DEF IInv

\* syscall-args names no system call but the one about to be made or made last.
THEOREM SyscallArgsCorrect == Spec => []SyscallOfTheProgram
  BY Inductive, PTL DEF IInv
=============================================================================
