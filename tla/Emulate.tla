------------------------------ MODULE Emulate -------------------------------
(***************************************************************************)
(* unicorn-emulate of scripts/emulate: the command writes a Python script  *)
(* with the registers of the program and its memory map, dumps what the    *)
(* memory holds to /tmp, one file per section, and runs the script, which  *)
(* reads these files.  The script is a temporary file or one the user      *)
(* named, to be run again outside GDB.  Every GDB on the machine has the   *)
(* same /tmp.  Everything a program holds at a stop is a snapshot: the GDB *)
(* it runs under and how often it stopped there.                           *)
(***************************************************************************)
EXTENDS Integers, FiniteSets

CONSTANTS
    Gdbs,
    fname,          \* the file name of the program each debugs
    arch,           \* and what gef.arch says of it: [arch, mode, thumb]
    Sections,       \* where they start
    Readable,       \* those that may be read and can be
    Vvar,           \* those of GDB only
    Maps,           \* bound: the memory maps a program has
    Outputs,        \* the names given with --output-file
    NoFile,
    Torn,           \* a file that is not whole: empty, cut, or of two writers
    MaxStops        \* bound

Names == {fname[g] : g \in Gdbs}
Dumps == Names \X Sections
Snapshots == Gdbs \X (0..MaxStops)
Scripts == [by : Gdbs, snapshot : Snapshots, maps : SUBSET Sections,
            loads : SUBSET Sections]

ASSUME EmulateAssumption ==
    /\ Sections \subseteq Nat /\ Readable \subseteq Sections /\ Vvar \subseteq Sections
    /\ Maps \subseteq SUBSET Sections
    /\ MaxStops \in Nat
    /\ Outputs \cap Gdbs = {} /\ Dumps \cap (Outputs \cup Gdbs) = {}
    /\ NoFile # Torn /\ {NoFile, Torn} \cap (Snapshots \cup Scripts) = {}

VARIABLES
    stops,      \* how often the program has stopped
    vmmap,      \* the sections mapped
    phase,      \* of the command a GDB runs
    out,        \* the script it writes: a name, or the GDB for its own temporary
    todo,       \* the sections it has not come to
    opened,     \* the one whose dump it has opened
    loads,      \* those it dumped
    raw,        \* /tmp/gef-{fname}-{page_start}.raw: the snapshot it is of
    script,     \* what the scripts hold, the last temporary one of each GDB too
    overtaken,  \* history: the files of its command that another GDB wrote since
    ran         \* the script that was emulated just now, and what it loaded

vars == <<stops, vmmap, phase, out, todo, opened, loads, raw, script, overtaken, ran>>

NoRun == [by |-> "none"]

Init ==
    /\ stops = [g \in Gdbs |-> 0]
    /\ vmmap \in [Gdbs -> Maps]
    /\ phase = [g \in Gdbs |-> "idle"]
    /\ out = [g \in Gdbs |-> g]
    /\ todo = [g \in Gdbs |-> {}] /\ opened = [g \in Gdbs |-> {}]
    /\ loads = [g \in Gdbs |-> {}]
    /\ raw = [k \in Dumps |-> NoFile]
    /\ script = [f \in Outputs \cup Gdbs |-> NoFile]
    /\ overtaken = [g \in Gdbs |-> {}]
    /\ ran = NoRun

-----------------------------------------------------------------------------
(* gef_to_uc_arch.                                                         *)

Known(a) ==
    \/ a.arch \in {"ARM", "ARM64"}
    \/ a.arch = "X86" /\ a.mode \in {"32", "64"}
    \/ a.arch = "PPC" /\ a.mode \in {"PPC32", "PPC64"}
    \/ a.arch = "MIPS" /\ a.mode \in {"MIPS32", "MIPS64"}

UcArch(a) == IF a.mode = "MIPS64" THEN "MIPS32" ELSE a.arch

\* External: the architectures Unicorn has.
Unicorn == {"ARM", "ARM64", "X86", "PPC", "MIPS"}

-----------------------------------------------------------------------------
(* The command, up to the script.                                          *)

Raw(g, s) == <<fname[g], s>>

Snapshot(g) == <<g, stops[g]>>

\* What the command of g has opened or written.
InUse(g) == {out[g]} \cup {Raw(g, s) : s \in opened[g] \cup loads[g]}

\* g opens or writes the files.
Touches(g, files) ==
    overtaken' = [h \in Gdbs |->
                    IF phase'[h] = "idle" THEN {}
                    ELSE overtaken[h] \cup (IF h = g THEN {} ELSE files \cap InUse(h))]

\* The command ends, and its variables are gone.
End(g) ==
    /\ phase' = [phase EXCEPT ![g] = "idle"]
    /\ out' = [out EXCEPT ![g] = g]
    /\ todo' = [todo EXCEPT ![g] = {}] /\ opened' = [opened EXCEPT ![g] = {}]
    /\ loads' = [loads EXCEPT ![g] = {}]

\* The script is opened, which empties it, and only then the memory map read.
\* An architecture that is not known has raised ValueError before that.
Start(g, f) ==
    /\ phase[g] = "idle" /\ Known(arch[g])
    /\ script' = [script EXCEPT ![f] = Torn]
    /\ \/ /\ vmmap[g] = {}
          /\ End(g)
       \/ /\ vmmap[g] # {}
          /\ phase' = [phase EXCEPT ![g] = "dump"]
          /\ out' = [out EXCEPT ![g] = f]
          /\ todo' = [todo EXCEPT ![g] = vmmap[g]]
          /\ UNCHANGED <<opened, loads>>
    /\ Touches(g, {f})
    /\ UNCHANGED <<stops, vmmap, raw>>
    /\ ran' = NoRun

\* The sections are taken as the memory map lists them.
NextSection(g, s) ==
    /\ phase[g] = "dump" /\ opened[g] = {}
    /\ s \in todo[g] /\ \A t \in todo[g] : s <= t

\* Mutant: what could not be read is loaded like the rest.
LoadedUnread(s) == s \notin Vvar

\* The script loads what can be read; a MemoryError skips the section.
Loaded(s) == s \in Readable \ Vvar

\* Mutant: a dump that is there already is not written again.
DumpedOnce(g, s) == s \in Readable \ Vvar /\ raw[Raw(g, s)] = NoFile

Dumped(g, s) == s \in Readable \ Vvar

Skip(g, s) ==
    /\ NextSection(g, s) /\ ~Dumped(g, s)
    /\ todo' = [todo EXCEPT ![g] = @ \ {s}]
    /\ loads' = IF Loaded(s) THEN [loads EXCEPT ![g] = @ \cup {s}] ELSE loads
    /\ UNCHANGED <<stops, vmmap, phase, out, opened, raw, script, overtaken>>
    /\ ran' = NoRun

\* open(loc, 'wb') empties the dump.
DumpOpen(g, s) ==
    /\ NextSection(g, s) /\ Dumped(g, s)
    /\ opened' = [opened EXCEPT ![g] = {s}]
    /\ raw' = [raw EXCEPT ![Raw(g, s)] = Torn]
    /\ UNCHANGED <<stops, vmmap, phase, out, todo, loads, script>>
    /\ ran' = NoRun
    /\ Touches(g, {Raw(g, s)})

\* What another GDB has written there meanwhile may stay behind the end of it.
DumpWrite(g, s) ==
    /\ s \in opened[g]
    /\ \E content \in {Snapshot(g)} \cup (IF raw[Raw(g, s)] = Torn THEN {} ELSE {Torn}) :
          raw' = [raw EXCEPT ![Raw(g, s)] = content]
    /\ opened' = [opened EXCEPT ![g] = {}]
    /\ todo' = [todo EXCEPT ![g] = @ \ {s}]
    /\ loads' = [loads EXCEPT ![g] = @ \cup {s}]
    /\ UNCHANGED <<stops, vmmap, phase, out, script>>
    /\ ran' = NoRun
    /\ Touches(g, {Raw(g, s)})

\* The section whose dump g is about to open, or has opened.
Dumping(g, s) == s \in opened[g] \/ (NextSection(g, s) /\ Dumped(g, s))

\* Mutant: a dump that fails is passed over.
DumpFailsQuietly(g) ==
    /\ \E s \in Sections : Dumping(g, s) /\ todo' = [todo EXCEPT ![g] = @ \ {s}]
    /\ opened' = [opened EXCEPT ![g] = {}]
    /\ UNCHANGED <<stops, vmmap, phase, out, loads, raw, script, overtaken>>
    /\ ran' = NoRun

\* The file is another user's and cannot be opened, or /tmp is full and what was
\* in the dump is lost already.
DumpFails(g) ==
    /\ \E s \in Sections : Dumping(g, s)
    /\ raw' = [k \in Dumps |-> IF \E s \in opened[g] : k = Raw(g, s) THEN Torn ELSE raw[k]]
    /\ End(g)
    /\ UNCHANGED <<stops, vmmap, script>>
    /\ ran' = NoRun
    /\ Touches(g, {Raw(g, s) : s \in opened[g]})

\* The script is written with one os.write, once everything is known.  It may write
\* less than it was given, which nobody looks at, or over the longer script of
\* another GDB.
Write(g) ==
    /\ phase[g] = "dump" /\ todo[g] = {}
    /\ \E content \in {[by |-> g, snapshot |-> Snapshot(g), maps |-> vmmap[g] \ Vvar,
                        loads |-> loads[g]], Torn} :
          script' = [script EXCEPT ![out[g]] = content]
    /\ phase' = [phase EXCEPT ![g] = "written"]
    /\ UNCHANGED <<stops, vmmap, out, todo, opened, loads, raw>>
    /\ ran' = NoRun
    /\ Touches(g, {out[g]})

\* os.write raises.
WriteFails(g) ==
    /\ phase[g] = "dump" /\ todo[g] = {}
    /\ End(g)
    /\ UNCHANGED <<stops, vmmap, raw, script>>
    /\ ran' = NoRun
    /\ Touches(g, {})

-----------------------------------------------------------------------------
(* Running a script, by the command or later by the user.                  *)

\* What the script s emulates: registers and map from its text, memory from the
\* dumps.  One of an architecture Unicorn does not have raises at once, and one
\* that is cut has lost its last line, the call of emulate.
Emulated(run, s) ==
    IF s \in {NoFile, Torn} THEN ran' = NoRun
    ELSE IF UcArch(arch[s.by]) \notin Unicorn THEN ran' = NoRun
    ELSE ran' = [by |-> run.by, stop |-> run.stop, overtaken |-> run.overtaken,
                 snapshot |-> s.snapshot, maps |-> s.maps,
                 mem |-> [x \in s.loads |-> raw[Raw(s.by, x)]]]

\* The sections and the script that the command of g has lost to another GDB.
Lost(g) == {s \in Sections : Raw(g, s) \in overtaken[g]} \cup (overtaken[g] \cap Outputs)

Run(g) ==
    /\ phase[g] = "written"
    /\ Emulated([by |-> "command", stop |-> Snapshot(g), overtaken |-> Lost(g)],
                script[out[g]])
    /\ script' = IF out[g] = g THEN [script EXCEPT ![g] = NoFile] ELSE script
    /\ End(g)
    /\ UNCHANGED <<stops, vmmap, raw>>
    /\ Touches(g, {})

\* --skip-emulation returns before the temporary file is unlinked.
SkipEmulation(g) ==
    /\ phase[g] = "written"
    /\ End(g)
    /\ UNCHANGED <<stops, vmmap, raw, script>>
    /\ ran' = NoRun
    /\ Touches(g, {})

\* The user runs a script that was made with --output-file.
Reuse(f) ==
    /\ script[f] \notin {NoFile, Torn}
    /\ Emulated([by |-> "user", stop |-> script[f].snapshot, overtaken |-> {}], script[f])
    /\ UNCHANGED <<stops, vmmap, phase, out, todo, opened, loads, raw, script, overtaken>>

\* The program runs and stops again, which it cannot while a command runs.
Resume(g) ==
    /\ phase[g] = "idle" /\ stops[g] < MaxStops
    /\ stops' = [stops EXCEPT ![g] = @ + 1]
    /\ \E m \in Maps : vmmap' = [vmmap EXCEPT ![g] = m]
    /\ UNCHANGED <<phase, out, todo, opened, loads, raw, script, overtaken>>
    /\ ran' = NoRun

Next ==
    \/ \E g \in Gdbs :
          \/ \E f \in Outputs \cup {g} : Start(g, f)
          \/ \E s \in Sections : Skip(g, s) \/ DumpOpen(g, s) \/ DumpWrite(g, s)
          \/ DumpFails(g) \/ Write(g) \/ WriteFails(g)
          \/ Run(g) \/ SkipEmulation(g) \/ Resume(g)
    \/ \E f \in Outputs : Reuse(f)

Spec == Init /\ [][Next]_vars

-----------------------------------------------------------------------------
(* Properties.                                                             *)

\* The variables stay in their ranges; in particular what was emulated had a file
\* for every section it loaded.
TypeOK ==
    /\ stops \in [Gdbs -> 0..MaxStops] /\ vmmap \in [Gdbs -> Maps]
    /\ phase \in [Gdbs -> {"idle", "dump", "written"}]
    /\ out \in [Gdbs -> Outputs \cup Gdbs]
    /\ todo \in [Gdbs -> SUBSET Sections] /\ opened \in [Gdbs -> SUBSET Sections]
    /\ loads \in [Gdbs -> SUBSET Sections]
    /\ DOMAIN raw = Dumps /\ \A k \in Dumps : raw[k] \in {NoFile, Torn} \/ raw[k] \in Snapshots
    /\ DOMAIN script = Outputs \cup Gdbs
    /\ \A f \in Outputs \cup Gdbs : script[f] \in {NoFile, Torn} \/ script[f] \in Scripts
    /\ overtaken \in [Gdbs -> SUBSET (Dumps \cup Outputs)]
    /\ ran # NoRun => \A s \in DOMAIN ran.mem : ran.mem[s] # NoFile

\* What a run had in front of it is the stop it is for, but for the sections in lost.
Replays(r, lost) ==
    /\ r.snapshot = r.stop
    /\ DOMAIN r.mem = r.maps \cap Readable
    /\ \A s \in DOMAIN r.mem \ lost : r.mem[s] = r.stop

\* The command emulates the program as it is: all of the memory that can be read,
\* from this very stop, although dumps of earlier stops and of other GDBs are lying
\* in /tmp and commands fail while they write there.  Excused is what another GDB,
\* whose program has the same file name, or whose script has, wrote between this
\* command's own writing of it and its run.
RunReplaysContext ==
    ran.by = "command" =>
        \/ ran.overtaken \cap Outputs # {}
        \/ Replays(ran, ran.overtaken)

\* A named script that can be run at all, whatever step of its command or of
\* another GDB's failed, loads each section it maps that could be read, and from a
\* file that is there.  (What is in the file may be newer, or torn.)
ScriptsComplete ==
    \A f \in Outputs :
        script[f] \in Scripts =>
            /\ script[f].loads = script[f].maps \cap Readable
            /\ \A s \in script[f].loads : raw[Raw(script[f].by, s)] # NoFile

\* The three below are false of the code, and no run checks them.

\* docs/commands/unicorn-emulate.md, line 39: --output-file "will generate
\* a pure Python script embedding your current execution context, ready to be
\* re-used outside GEF".  The memory is not in the script.
ScriptReplaysContext == ran.by = "user" => Replays(ran, {})

\* The names of the dumps tell no two GDBs apart that debug one program.
NothingIsOvertaken == ran.by = "command" => Replays(ran, {})

\* os.write tells how much it wrote: a command that comes to its end has written a
\* script.
WrittenIsWhole ==
    \A g \in Gdbs : phase[g] = "written" /\ out[g] \notin overtaken[g] =>
        script[out[g]] \in Scripts
=============================================================================
