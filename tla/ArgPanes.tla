------------------------------ MODULE ArgPanes ------------------------------
(***************************************************************************)
(* The two panes of GEF's `context` that name the arguments of a call:     *)
(* scripts/libc_function_args, with the generator of its tables, and       *)
(* scripts/syscall_args.  Each keeps what it loaded first, the class-wide   *)
(* argument_table and __path, while the program's architecture, the files  *)
(* on disk and the setting syscall-args.path change.                       *)
(***************************************************************************)
EXTENDS Integers, Sequences

CONSTANTS
    Archs,      \* what gef.arch may be, by class name
    Calls,      \* the operands of call instructions
    Plt,        \* those that name a function @plt
    Documented, \* those whose function the libc manual has
    Dirs,       \* values of syscall-args.path
    Holds,      \* the tables each directory has
    NbParams,   \* of the system calls in the tables, by number
    Unknown,    \* a number in no table
    MaxChanges  \* bound: how often files, directories and setting change

Nrs == DOMAIN NbParams \cup {Unknown}
Generated == {"X86", "X86_64"} \cap Archs       \* x86_32.json, x86_64.json
Stops == Calls \cup {"syscall", "behind", "other"}

ASSUME ArgPanesAssumption ==
    /\ Plt \subseteq Calls /\ Documented \subseteq Calls
    /\ Calls \cap {"syscall", "behind", "other"} = {}
    /\ Holds \in [Dirs -> SUBSET Archs]
    /\ \A n \in DOMAIN NbParams : NbParams[n] \in 0..6
    /\ Unknown \notin DOMAIN NbParams
    /\ MaxChanges \in Nat

VARIABLES
    arch, at,       \* of the program: gef.arch, and the instruction at $pc,
                    \* "behind" if the one before it is a system call
    nr, orig,       \* the system call register, and what the kernel saved of it
    made,           \* history: the last system call the program made
    files,          \* the generated JSON files: "absent", "good" or "broken"
    manual,         \* libc.txt.gz, likewise
    argument_table, \* for each of its keys, "args" or "empty"
    setting, path,  \* syscall-args.path, and __path: a directory, or "none"
    dirs,           \* the directories there are
    shown,          \* the last pane since the program stopped
    spoiled,        \* history: architectures whose table could not be loaded
    changes

program == <<arch, at, nr, orig, made>>
libc    == <<files, manual, argument_table, spoiled>>
syscall == <<setting, path, dirs>>
vars == <<program, libc, syscall, shown, changes>>

Nothing == [pane |-> "none", result |-> "none", arch |-> "none", nr |-> Unknown]

Init ==
    /\ arch \in Archs /\ at = "other"
    /\ nr = Unknown /\ orig = Unknown /\ made = Unknown
    /\ files = [a \in Generated |-> "good"] /\ manual = "good"
    /\ argument_table = [a \in {} |-> "empty"]
    /\ setting \in Dirs /\ path = "none" /\ dirs \in SUBSET Dirs
    /\ shown = Nothing /\ spoiled = {} /\ changes = 0

-----------------------------------------------------------------------------
(* generate_all_json_files, of the files in todo: those that are absent, and *)
(* those the user lets it overwrite.                                         *)

Absent == {a \in Generated : files[a] = "absent"}

Written(todo) == [a \in Generated |-> IF a \in todo THEN "good" ELSE files[a]]

\* The manual is downloaded if it is not there, needed or not.
Generates(todo, downloaded) ==
    /\ manual = "absent" => downloaded \/ todo = {}
    /\ manual # "broken" \/ todo = {}
    /\ files' = Written(todo)
    /\ manual' = IF manual = "absent" /\ downloaded THEN "good" ELSE manual

\* No connection, also in the middle of the download; no manual (False, which
\* its caller raises); or a file that is no gzip.
GeneratorRaises(todo) ==
    /\ \/ manual = "absent" /\ manual' \in {"absent", "broken"}
       \/ manual = "broken" /\ todo # {} /\ manual' = manual
    /\ UNCHANGED files

-----------------------------------------------------------------------------
(* GlibcFunctionArguments.                                                 *)

\* Mutant: the mode is left out of the file's name, and one of the others is found.
FoundAny(fs) == \E a \in Generated : fs[a] = "good"

Found(fs) == arch \in Generated /\ fs[arch] = "good"

\* load_libc_args, once there are the files fs.
Loaded(fs) ==
    [a \in DOMAIN argument_table \cup {arch} |->
        IF a # arch THEN argument_table[a] ELSE IF Found(fs) THEN "args" ELSE "empty"]

\* What an exception of the generator leaves: the table as it was.
Kept == argument_table

\* Mutant: the table that was loaded is used, whatever the architecture is now.
TableOfAny(table) == CHOOSE a \in DOMAIN table : TRUE

TableOf(table) == arch

\* pane_content.  A function that is not called through the PLT is ignored; one
\* without an entry, or without a table to have it, raises.
LibcResult(table) ==
    LET a == TableOf(table)
    IN  IF at \notin Plt THEN "nothing"
        ELSE IF a \in DOMAIN table /\ table[a] = "args" /\ at \in Documented THEN "args"
        ELSE "KeyError"

ShowLibc(table, result) ==
    shown' = [Nothing EXCEPT !.pane = "libc", !.result = result,
              !.arch = IF result = "args" THEN TableOf(table) ELSE arch]

LibcLoad ==
    /\ argument_table' = Loaded(files')
    /\ spoiled' = IF Found(files') THEN spoiled ELSE spoiled \cup {arch}
    /\ ShowLibc(argument_table', LibcResult(argument_table'))

LibcPane ==
    /\ at \in Calls
    /\ IF DOMAIN argument_table # {}
       THEN /\ ShowLibc(argument_table, LibcResult(argument_table))
            /\ UNCHANGED libc
       ELSE IF arch \in Generated \ Absent
       THEN UNCHANGED <<files, manual>> /\ LibcLoad
       ELSE \E todo \in SUBSET Generated :
            /\ Absent \subseteq todo
            /\ \/ \E downloaded \in BOOLEAN : Generates(todo, downloaded) /\ LibcLoad
               \/ /\ GeneratorRaises(todo)
                  /\ argument_table' = Kept
                  /\ ShowLibc(argument_table', "raised")
                  /\ UNCHANGED spoiled
    /\ UNCHANGED <<program, syscall, changes>>

-----------------------------------------------------------------------------
(* The syscall tables: the registers of the parameters.                    *)

X86       == <<"ebx", "ecx", "edx", "esi", "edi", "ebp">>
X86_64    == <<"rdi", "rsi", "rdx", "r10", "r8", "r9">>
ARM       == <<"rr0", "rr1", "rr2", "rr3", "rr4", "rr5">>
PowerPC   == <<"r3", "r4", "r5", "r6", "r7", "r8">>
PowerPC64 == <<"r3", "r4", "r5", "r6", "r7", "r8">>
SPARC     == <<"o0", "o1", "o2", "o3", "o4", "o5">>
SPARC64   == <<"o0", "o1", "o2", "o3", "o4", "o5">>

ParamRegs == [X86 |-> X86, X86_64 |-> X86_64, ARM |-> ARM, PowerPC |-> PowerPC,
              PowerPC64 |-> PowerPC64, SPARC |-> SPARC, SPARC64 |-> SPARC64]

\* External: the names GDB has for these registers, and where it has one for
\* what the kernel saved of the number.
Registers == [ParamRegs EXCEPT !.ARM = <<"r0", "r1", "r2", "r3", "r4", "r5">>]
HasOrig(a) == a \in {"X86", "X86_64"}

-----------------------------------------------------------------------------
(* syscall-args.                                                           *)

\* Mutant: the register is read behind the instruction too.
NumberNow == nr

\* At the instruction the register has the number; behind it, what was saved.
Number == IF at = "syscall" THEN nr ELSE orig

\* The property path: the first directory that was one is kept.
Path ==
    IF path # "none" THEN path ELSE IF setting \in dirs THEN setting ELSE "none"

\* Every register of the entry is read, and raises if GDB has none of its name.
HasParams(a, n) == \A i \in 1..NbParams[n] : ParamRegs[a][i] = Registers[a][i]

SyscallResult ==
    IF Path = "none" \/ Path \notin dirs THEN "raised"
    ELSE IF arch \notin Holds[Path] THEN "raised"
    ELSE IF at \notin {"syscall", "behind"} THEN "nothing"
    ELSE IF at = "behind" /\ ~HasOrig(arch) THEN "raised"
    ELSE IF Number = Unknown THEN "warning"
    ELSE IF HasParams(arch, Number) THEN "args"
    ELSE "raised"

SyscallArgs ==
    /\ path' = Path
    /\ shown' = [pane |-> "syscall", result |-> SyscallResult, arch |-> arch,
                 nr |-> Number]
    /\ UNCHANGED <<program, libc, setting, dirs, changes>>

-----------------------------------------------------------------------------
(* The program, and what else changes.                                     *)

\* It stops somewhere.  The kernel keeps no number but during a system call.
Stop(s, n) ==
    /\ at' = s /\ nr' = n /\ orig' = Unknown
    /\ shown' = Nothing
    /\ UNCHANGED <<arch, made, libc, syscall, changes>>

\* It makes the system call it is at, and stops in it (`catch`) or behind it,
\* when the register may have the result.
MakeCall(n) ==
    /\ at = "syscall"
    /\ at' = "behind" /\ orig' = nr /\ made' = nr /\ nr' = n
    /\ shown' = Nothing
    /\ UNCHANGED <<arch, libc, syscall, changes>>

Load(a) ==
    /\ a # arch
    /\ arch' = a /\ at' = "other" /\ nr' = Unknown /\ orig' = Unknown
    /\ shown' = Nothing
    /\ UNCHANGED <<made, libc, syscall, changes>>

Changes ==
    /\ changes < MaxChanges /\ changes' = changes + 1
    /\ shown' = Nothing
    /\ UNCHANGED <<program, argument_table, spoiled, path>>

FilesChange ==
    /\ Changes
    /\ \/ \E a \in Generated, f \in {"absent", "good", "broken"} :
             files' = [files EXCEPT ![a] = f] /\ UNCHANGED manual
       \/ manual' \in {"absent", "good", "broken"} /\ UNCHANGED files
    /\ UNCHANGED <<setting, dirs>>

PathChanges ==
    /\ Changes
    /\ \/ setting' \in Dirs /\ UNCHANGED dirs
       \/ dirs' \in SUBSET Dirs /\ UNCHANGED setting
    /\ UNCHANGED <<files, manual>>

Next ==
    \/ LibcPane
    \/ SyscallArgs
    \/ \E s \in Stops, n \in Nrs : Stop(s, n)
    \/ \E n \in Nrs : MakeCall(n)
    \/ \E a \in Archs : Load(a)
    \/ FilesChange
    \/ PathChanges

Spec == Init /\ [][Next]_vars
-----------------------------------------------------------------------------
(* Properties.                                                             *)

\* The variables stay in their ranges; in particular argument_table has no arguments
\* for an architecture without a file of them.
TypeOK ==
    /\ arch \in Archs /\ at \in Stops /\ nr \in Nrs /\ orig \in Nrs /\ made \in Nrs
    /\ files \in [Generated -> {"absent", "good", "broken"}]
    /\ manual \in {"absent", "good", "broken"}
    /\ DOMAIN argument_table \subseteq Archs
    /\ \A a \in DOMAIN argument_table :
          argument_table[a] = "empty" \/ (argument_table[a] = "args" /\ a \in Generated)
    /\ setting \in Dirs /\ path \in Dirs \cup {"none"} /\ dirs \subseteq Dirs
    /\ spoiled \subseteq Archs /\ changes \in 0..MaxChanges
    /\ shown.pane \in {"none", "libc", "syscall"}

\* Whatever was debugged before and became of the files: names are those of the
\* program's architecture; the pane fails for a function of the manual only if
\* this one's file was of no use or, which is excused here, another architecture
\* was loaded first; and a generator that failed is tried again at the next call.
LibcPaneAnswers ==
    shown.pane = "libc" =>
        /\ shown.result = "args" => shown.arch = arch /\ at \in Plt
        /\ shown.result = "KeyError" =>
              \/ at \notin Documented
              \/ arch \in spoiled
              \/ \E a \in DOMAIN argument_table : a # arch
        /\ shown.result = "raised" => arch \notin DOMAIN argument_table

\* A system call that is named is the one the program is about to make, or the
\* one it made last, also when its number has given way to the result.
SyscallOfTheProgram ==
    shown.pane = "syscall" /\ shown.result \in {"args", "warning"} =>
        \/ at = "syscall" /\ shown.nr = nr
        \/ at = "behind" /\ shown.nr \in {made, Unknown}

-----------------------------------------------------------------------------
(* What the documentation says and the code does not do.                   *)

\* docs/commands/syscall-args.md, line 4: `gef` can be used to determine the
\* system call being invoked "and the arguments being passed to it".  The table
\* of ARM names registers r0 to r5 rr0 to rr5.
ArgumentsDetermined ==
    shown.pane = "syscall" /\ at = "syscall" /\ nr # Unknown
    /\ path \in dirs /\ arch \in Holds[path] => shown.result = "args"

\* libc_function_args/__init__.py, lines 53-55, leave a table alone if the "current
\* arch and mode [is] already loaded": argument_table is for several, but only the
\* first is ever loaded (line 88).
EveryArchIsLoaded ==
    shown.pane = "libc" /\ shown.result = "KeyError" =>
        at \notin Documented \/ arch \in spoiled

\* syscall_args/__init__.py, line 49: "Path to store/load the syscall tables
\* files".  The setting has no effect once a table was loaded.
SettingIsUsed ==
    [][shown' # shown /\ shown'.pane = "syscall" /\ setting \in dirs => path' = setting]_vars
=============================================================================
