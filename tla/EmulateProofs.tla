--------------------------- MODULE EmulateProofs ----------------------------
(***************************************************************************)
(* Proofs about Emulate, for any number of GDBs, of sections and of        *)
(* scripts, and whatever names the programs have: what the command         *)
(* emulates is the program as it is, but for what another GDB overtook,    *)
(* and a script that is whole loads all it should.  From the first dump to *)
(* the run, a file that a command uses is what it made of it or has been   *)
(* overtaken: the program cannot run meanwhile, and whoever writes a file  *)
(* takes it from the others.                                               *)
(***************************************************************************)
EXTENDS Emulate, TLAPS

\* The state of the command of g fits how far it is.
Progress(g) ==
    IF phase[g] = "idle"
    THEN todo[g] = {} /\ opened[g] = {} /\ loads[g] = {} /\ overtaken[g] = {}
    ELSE /\ todo[g] \subseteq vmmap[g]
         /\ opened[g] \subseteq todo[g] \cap (Readable \ Vvar)
         /\ loads[g] = ((vmmap[g] \ todo[g]) \ Vvar) \cap Readable
         /\ phase[g] = "written" => todo[g] = {}

\* The dumps it uses are its own, or overtaken.
Holds(g) ==
    /\ \A s \in loads[g] :
          /\ raw[Raw(g, s)] # NoFile
          /\ Raw(g, s) \in overtaken[g] \/ raw[Raw(g, s)] = Snapshot(g)
    /\ \A s \in opened[g] : Raw(g, s) \in overtaken[g] \/ raw[Raw(g, s)] = Torn

WrittenScript(g) == [by |-> g, snapshot |-> Snapshot(g), maps |-> vmmap[g] \ Vvar,
                     loads |-> loads[g]]

\* So is its script.
Wrote(g) ==
    /\ out[g] \in Outputs \cup {g}
    /\ phase[g] = "written" =>
          out[g] \in overtaken[g] \/ script[out[g]] \in {Torn, WrittenScript(g)}

Commands == \A g \in Gdbs : Progress(g) /\ Holds(g) /\ Wrote(g)

IInv == TypeOK /\ ScriptsComplete /\ Commands

\* The initial states satisfy the invariant.
LEMMA InitIInv == Init => IInv /\ RunReplaysContext
<1> SUFFICES ASSUME Init PROVE IInv /\ RunReplaysContext
  OBVIOUS
<1>1. TypeOK
  BY EmulateAssumption DEF Init, TypeOK
<1>2. ScriptsComplete
  BY EmulateAssumption DEF Init, ScriptsComplete
<1>3. Commands
  BY DEF Init, Commands, Progress, Holds, Wrote
<1> QED
  BY <1>1, <1>2, <1>3 DEF IInv, Init, RunReplaysContext, NoRun

\* Every name of a dump is one.
LEMMA RawInDumps == \A g \in Gdbs, s \in Sections : Raw(g, s) \in Dumps
  BY DEF Raw, Dumps, Names

\* Names tell the sections of one GDB apart.
LEMMA RawApart == \A g \in Gdbs, s, t \in Sections : Raw(g, s) = Raw(g, t) => s = t
  BY DEF Raw

\* A GDB that is not at work in a step loses what it uses, or it stays.
LEMMA OthersStay ==
    ASSUME IInv, NEW g \in Gdbs, NEW h \in Gdbs, h # g,
           NEW files, Touches(g, files), phase'[h] = phase[h],
           out'[h] = out[h], todo'[h] = todo[h], opened'[h] = opened[h],
           loads'[h] = loads[h], vmmap'[h] = vmmap[h], stops'[h] = stops[h],
           \A k \in Dumps : raw'[k] = raw[k] \/ (k \in files /\ raw'[k] # NoFile),
           \A f \in Outputs \cup Gdbs : script'[f] = script[f] \/ f \in files
    PROVE  (Progress(h) /\ Holds(h) /\ Wrote(h))'
<1>1. /\ Progress(h) /\ Holds(h) /\ Wrote(h)
      /\ loads[h] \subseteq Sections /\ opened[h] \subseteq Sections
      /\ out[h] \in Outputs \cup Gdbs
  BY DEF IInv, Commands, TypeOK
<1>2. overtaken'[h] = IF phase[h] = "idle" THEN {}
                      ELSE overtaken[h] \cup (files \cap InUse(h))
  BY DEF Touches
<1>3. Progress(h)'
  BY <1>1, <1>2 DEF Progress
<1>4. Snapshot(h)' = Snapshot(h) /\ WrittenScript(h)' = WrittenScript(h)
  BY DEF Snapshot, WrittenScript
<1>5. Holds(h)'
  <2>1. CASE phase[h] = "idle"
    BY <1>1, <2>1 DEF Progress, Holds
  <2>2. CASE phase[h] # "idle"
    <3>1. ASSUME NEW s \in loads[h] \cup opened[h]
          PROVE  /\ Raw(h, s) \in Dumps /\ Raw(h, s) \in InUse(h)
                 /\ Raw(h, s) \in overtaken'[h]
                    \/ (Raw(h, s) \notin overtaken[h] /\ raw'[Raw(h, s)] = raw[Raw(h, s)])
      <4>1. Raw(h, s) \in Dumps /\ Raw(h, s) \in InUse(h)
        BY <1>1, RawInDumps DEF InUse
      <4> QED
        BY <1>2, <2>2, <4>1
    <3>2. \A s \in loads[h] : raw'[Raw(h, s)] # NoFile
      BY <1>1, <3>1 DEF Holds
    <3>3. \A s \in loads[h] : Raw(h, s) \in overtaken'[h] \/ raw'[Raw(h, s)] = Snapshot(h)
      BY <1>1, <3>1 DEF Holds
    <3>4. \A s \in opened[h] : Raw(h, s) \in overtaken'[h] \/ raw'[Raw(h, s)] = Torn
      BY <1>1, <3>1 DEF Holds
    <3> QED
      BY <1>4, <3>2, <3>3, <3>4 DEF Holds, Raw
  <2> QED
    BY <2>1, <2>2
<1>6. Wrote(h)'
  BY <1>1, <1>2, <1>4 DEF Wrote, InUse
<1> QED
  BY <1>3, <1>5, <1>6

\* What Touches leaves of the type of overtaken, if the files are those of g.
LEMMA TouchesType ==
    ASSUME IInv, NEW g \in Gdbs, NEW files \in SUBSET (Dumps \cup Outputs \cup {g}),
           Touches(g, files)
    PROVE  overtaken' \in [Gdbs -> SUBSET (Dumps \cup Outputs)]
<1> SUFFICES ASSUME NEW h \in Gdbs, h # g
             PROVE  files \cap InUse(h) \subseteq Dumps \cup Outputs
  BY DEF Touches, IInv, TypeOK
<1>1. out[h] \in Outputs \cup {h} /\ loads[h] \subseteq Sections /\ opened[h] \subseteq Sections
  BY DEF IInv, Commands, Wrote, TypeOK
<1>2. \A s \in opened[h] \cup loads[h] : Raw(h, s) \in Dumps
  BY <1>1, RawInDumps
<1> QED
  BY <1>1, <1>2 DEF InUse

\* A script stays complete: dumps do not vanish.
LEMMA ScriptsStay ==
    ASSUME IInv,
           \A k \in Dumps : raw[k] # NoFile => raw'[k] # NoFile,
           \A f \in Outputs :
               \/ script'[f] = script[f]
               \/ script'[f] \in Scripts =>
                      /\ script'[f].loads = script'[f].maps \cap Readable
                      /\ \A s \in script'[f].loads : raw'[Raw(script'[f].by, s)] # NoFile
    PROVE  ScriptsComplete'
<1> SUFFICES ASSUME NEW f \in Outputs, script'[f] \in Scripts
             PROVE  /\ script'[f].loads = script'[f].maps \cap Readable
                    /\ \A s \in script'[f].loads : raw'[Raw(script'[f].by, s)] # NoFile
  BY DEF ScriptsComplete, Raw
<1>1. CASE script'[f] = script[f]
  <2>1. \A s \in script[f].loads : Raw(script[f].by, s) \in Dumps
    BY <1>1, RawInDumps DEF Scripts
  <2> QED
    BY <1>1, <2>1 DEF IInv, ScriptsComplete
<1> QED
  BY <1>1

\* A command starts with nothing dumped.
LEMMA StartIInv ==
    ASSUME IInv, NEW g \in Gdbs, NEW f \in Outputs \cup {g}, Start(g, f) PROVE IInv'
<1>1. /\ script' = [script EXCEPT ![f] = Torn] /\ f \in Outputs \cup Gdbs
      /\ phase[g] = "idle" /\ Touches(g, {f}) /\ ran' = NoRun
      /\ UNCHANGED <<stops, vmmap, raw>>
  BY DEF Start
<1>2. Torn \notin Scripts
  BY EmulateAssumption
<1>3. \A x \in Outputs \cup Gdbs : script'[x] = IF x = f THEN Torn ELSE script[x]
  BY <1>1 DEF IInv, TypeOK
<1>4. \A h \in Gdbs : h # g => /\ phase'[h] = phase[h] /\ out'[h] = out[h]
                               /\ todo'[h] = todo[h] /\ opened'[h] = opened[h]
                               /\ loads'[h] = loads[h]
  BY DEF Start, End, IInv, TypeOK
<1>5. /\ phase'[g] \in {"idle", "dump"} /\ out'[g] \in {f, g}
      /\ todo'[g] = IF phase'[g] = "idle" THEN {} ELSE vmmap[g]
      /\ opened'[g] = {} /\ loads'[g] = {}
  <2>1. opened[g] = {} /\ loads[g] = {}
    BY <1>1 DEF IInv, Commands, Progress
  <2>2. CASE End(g)
    BY <2>2 DEF End, IInv, TypeOK
  <2>3. CASE /\ phase' = [phase EXCEPT ![g] = "dump"] /\ out' = [out EXCEPT ![g] = f]
             /\ todo' = [todo EXCEPT ![g] = vmmap[g]] /\ UNCHANGED <<opened, loads>>
    BY <2>1, <2>3 DEF IInv, TypeOK
  <2> QED
    BY <2>2, <2>3 DEF Start
<1>6. TypeOK'
  <2>1. overtaken' \in [Gdbs -> SUBSET (Dumps \cup Outputs)]
    BY <1>1, TouchesType
  <2>2. /\ phase' \in [Gdbs -> {"idle", "dump", "written"}] /\ out' \in [Gdbs -> Outputs \cup Gdbs]
        /\ todo' \in [Gdbs -> SUBSET Sections] /\ opened' \in [Gdbs -> SUBSET Sections]
        /\ loads' \in [Gdbs -> SUBSET Sections]
    <3>1. vmmap[g] \in SUBSET Sections
      BY EmulateAssumption DEF IInv, TypeOK
    <3>2. CASE End(g)
      BY <3>2 DEF End, IInv, TypeOK
    <3>3. CASE /\ phase' = [phase EXCEPT ![g] = "dump"] /\ out' = [out EXCEPT ![g] = f]
               /\ todo' = [todo EXCEPT ![g] = vmmap[g]] /\ UNCHANGED <<opened, loads>>
      BY <1>1, <3>1, <3>3 DEF IInv, TypeOK
    <3> QED
      BY <3>2, <3>3 DEF Start
  <2> QED
    BY <1>1, <1>3, <2>1, <2>2 DEF IInv, TypeOK
<1>7. ScriptsComplete'
  BY <1>1, <1>2, <1>3, ScriptsStay
<1>8. (Progress(g) /\ Holds(g) /\ Wrote(g))'
  <2>1. phase'[g] = "idle" => overtaken'[g] = {}
    BY <1>1 DEF Touches
  <2>2. ((vmmap[g] \ vmmap[g]) \ Vvar) \cap Readable = {}
    OBVIOUS
  <2> QED
    BY <1>1, <1>5, <2>1, <2>2 DEF Progress, Holds, Wrote
<1>9. \A h \in Gdbs : h # g => (Progress(h) /\ Holds(h) /\ Wrote(h))'
  BY <1>1, <1>3, <1>4, OthersStay
<1> QED
  BY <1>6, <1>7, <1>8, <1>9 DEF IInv, Commands

\* Passing a section over.
LEMMA SkipIInv == ASSUME IInv, NEW g \in Gdbs, NEW s \in Sections, Skip(g, s) PROVE IInv'
<1>1. /\ todo' = [todo EXCEPT ![g] = @ \ {s}] /\ phase[g] = "dump" /\ opened[g] = {}
      /\ s \notin Readable \ Vvar /\ ran' = NoRun
      /\ loads' = loads
      /\ UNCHANGED <<stops, vmmap, phase, out, opened, raw, script, overtaken>>
  BY DEF Skip, NextSection, Dumped, Loaded
<1>2. TypeOK'
  BY <1>1 DEF IInv, TypeOK
<1>3. ScriptsComplete'
  BY <1>1, ScriptsStay
<1>4. ASSUME NEW h \in Gdbs PROVE (Progress(h) /\ Holds(h) /\ Wrote(h))'
  <2>1. Progress(h) /\ Holds(h) /\ Wrote(h)
    BY DEF IInv, Commands
  <2>2. todo'[h] = IF h = g THEN todo[g] \ {s} ELSE todo[h]
    BY <1>1 DEF IInv, TypeOK
  <2>3. Progress(h)'
    BY <1>1, <2>1, <2>2 DEF Progress
  <2>4. Holds(h)' /\ Wrote(h)'
    BY <1>1, <2>1 DEF Holds, Wrote, Raw, Snapshot, WrittenScript
  <2> QED
    BY <2>3, <2>4
<1> QED
  BY <1>2, <1>3, <1>4 DEF IInv, Commands

\* Opening a dump takes it from the others.
LEMMA DumpOpenIInv ==
    ASSUME IInv, NEW g \in Gdbs, NEW s \in Sections, DumpOpen(g, s) PROVE IInv'
<1>1. /\ opened' = [opened EXCEPT ![g] = {s}] /\ raw' = [raw EXCEPT ![Raw(g, s)] = Torn]
      /\ phase[g] = "dump" /\ s \in todo[g] /\ opened[g] = {} /\ s \in Readable \ Vvar
      /\ Touches(g, {Raw(g, s)}) /\ ran' = NoRun
      /\ UNCHANGED <<stops, vmmap, phase, out, todo, loads, script>>
  BY DEF DumpOpen, NextSection, Dumped
<1>2. /\ Raw(g, s) \in Dumps /\ Torn # NoFile
      /\ \A k \in Dumps : raw'[k] = IF k = Raw(g, s) THEN Torn ELSE raw[k]
  BY <1>1, RawInDumps, EmulateAssumption DEF IInv, TypeOK
<1>3. TypeOK'
  <2>1. overtaken' \in [Gdbs -> SUBSET (Dumps \cup Outputs)]
    BY <1>1, <1>2, TouchesType
  <2> QED
    BY <1>1, <1>2, <2>1 DEF IInv, TypeOK
<1>4. ScriptsComplete'
  BY <1>1, <1>2, ScriptsStay
<1>5. (Progress(g) /\ Holds(g) /\ Wrote(g))'
  <2>1. Progress(g) /\ Holds(g) /\ Wrote(g) /\ overtaken'[g] = overtaken[g]
        /\ opened'[g] = {s} /\ loads[g] \subseteq Sections
    BY <1>1 DEF IInv, Commands, TypeOK, Touches
  <2>2. Progress(g)'
    BY <1>1, <2>1 DEF Progress
  <2>3. s \notin loads[g]
    BY <1>1, <2>1 DEF Progress
  <2>4. \A t \in loads[g] : raw'[Raw(g, t)] = raw[Raw(g, t)]
    BY <1>2, <2>1, <2>3, RawInDumps, RawApart
  <2>5. Holds(g)'
    BY <1>1, <1>2, <2>1, <2>4 DEF Holds, Raw, Snapshot
  <2> QED
    BY <1>1, <2>1, <2>2, <2>5 DEF Wrote
<1>6. \A h \in Gdbs : h # g => (Progress(h) /\ Holds(h) /\ Wrote(h))'
  <2>1. \A h \in Gdbs : h # g => opened'[h] = opened[h]
    BY <1>1 DEF IInv, TypeOK
  <2>2. \A k \in Dumps : raw'[k] = raw[k] \/ (k \in {Raw(g, s)} /\ raw'[k] # NoFile)
    BY <1>2
  <2> QED
    BY <1>1, <2>1, <2>2, OthersStay
<1> QED
  BY <1>3, <1>4, <1>5, <1>6 DEF IInv, Commands

\* Writing it as well.
LEMMA DumpWriteIInv ==
    ASSUME IInv, NEW g \in Gdbs, NEW s \in Sections, DumpWrite(g, s) PROVE IInv'
<1>1. PICK content \in {Snapshot(g)} \cup (IF raw[Raw(g, s)] = Torn THEN {} ELSE {Torn}) :
          raw' = [raw EXCEPT ![Raw(g, s)] = content]
  BY DEF DumpWrite
<1>2. /\ s \in opened[g] /\ opened' = [opened EXCEPT ![g] = {}]
      /\ todo' = [todo EXCEPT ![g] = @ \ {s}] /\ loads' = [loads EXCEPT ![g] = @ \cup {s}]
      /\ Touches(g, {Raw(g, s)}) /\ ran' = NoRun
      /\ UNCHANGED <<stops, vmmap, phase, out, script>>
  BY DEF DumpWrite
<1>3. Snapshot(g) \in Snapshots /\ content \in Snapshots \cup {Torn} /\ content # NoFile
  <2>1. Snapshot(g) \in Snapshots
    BY DEF Snapshot, Snapshots, IInv, TypeOK
  <2> QED
    BY <1>1, <2>1, EmulateAssumption
<1>4. /\ Raw(g, s) \in Dumps
      /\ \A k \in Dumps : raw'[k] = IF k = Raw(g, s) THEN content ELSE raw[k]
  BY <1>1, RawInDumps DEF IInv, TypeOK
<1>5. TypeOK'
  <2>1. overtaken' \in [Gdbs -> SUBSET (Dumps \cup Outputs)]
    BY <1>2, <1>4, TouchesType
  <2> QED
    BY <1>1, <1>2, <1>3, <1>4, <2>1 DEF IInv, TypeOK
<1>6. ScriptsComplete'
  BY <1>2, <1>3, <1>4, ScriptsStay
<1>7. (Progress(g) /\ Holds(g) /\ Wrote(g))'
  <2>1. Progress(g) /\ Holds(g) /\ Wrote(g)
    BY DEF IInv, Commands
  <2>2. phase[g] # "idle" /\ s \in todo[g] /\ s \in Readable \ Vvar
    BY <1>2, <2>1 DEF Progress
  <2>3. /\ overtaken'[g] = overtaken[g] /\ opened'[g] = {} /\ todo'[g] = todo[g] \ {s}
        /\ loads'[g] = loads[g] \cup {s} /\ loads[g] \subseteq Sections
    BY <1>2, <2>2 DEF IInv, TypeOK, Touches
  <2>4. Progress(g)'
    BY <1>2, <2>1, <2>2, <2>3 DEF Progress
  <2>5. \A t \in loads[g] : raw'[Raw(g, t)] = raw[Raw(g, t)]
    <3>1. s \notin loads[g]
      BY <2>1, <2>2 DEF Progress
    <3> QED
      BY <1>4, <2>3, <3>1, RawInDumps, RawApart
  <2>6. Raw(g, s) \in overtaken[g] \/ raw'[Raw(g, s)] = Snapshot(g)
    BY <1>1, <1>2, <1>4, <2>1 DEF Holds
  <2>7. Holds(g)'
    BY <1>2, <1>3, <1>4, <2>1, <2>3, <2>5, <2>6 DEF Holds, Raw, Snapshot
  <2>8. phase[g] # "written"
    BY <2>1, <2>2 DEF Progress
  <2> QED
    BY <1>2, <2>1, <2>4, <2>7, <2>8 DEF Wrote
<1>8. \A h \in Gdbs : h # g => (Progress(h) /\ Holds(h) /\ Wrote(h))'
  <2>1. \A h \in Gdbs : h # g => /\ opened'[h] = opened[h] /\ todo'[h] = todo[h]
                                 /\ loads'[h] = loads[h]
    BY <1>2 DEF IInv, TypeOK
  <2>2. \A k \in Dumps : raw'[k] = raw[k] \/ (k \in {Raw(g, s)} /\ raw'[k] # NoFile)
    BY <1>3, <1>4
  <2> QED
    BY <1>2, <2>1, <2>2, OthersStay
<1> QED
  BY <1>5, <1>6, <1>7, <1>8 DEF IInv, Commands

\* A script is written with all of the dumps.
LEMMA WriteIInv == ASSUME IInv, NEW g \in Gdbs, Write(g) PROVE IInv'
<1> DEFINE c == WrittenScript(g)
<1>1. PICK content \in {c, Torn} : script' = [script EXCEPT ![out[g]] = content]
  BY DEF Write, WrittenScript
<1>2. /\ phase' = [phase EXCEPT ![g] = "written"] /\ phase[g] = "dump" /\ todo[g] = {}
      /\ Touches(g, {out[g]}) /\ ran' = NoRun
      /\ UNCHANGED <<stops, vmmap, out, todo, opened, loads, raw>>
  BY DEF Write
<1>3. /\ Progress(g) /\ Holds(g) /\ Wrote(g) /\ out[g] \in Outputs \cup {g}
      /\ loads[g] = (vmmap[g] \ Vvar) \cap Readable
  BY <1>2 DEF IInv, Commands, Progress, Wrote
<1>4. c \in Scripts
  <2>1. Snapshot(g) \in Snapshots
    BY DEF Snapshot, Snapshots, IInv, TypeOK
  <2>2. vmmap[g] \ Vvar \in SUBSET Sections /\ loads[g] \in SUBSET Sections
    BY EmulateAssumption DEF IInv, TypeOK
  <2> QED
    BY <2>1, <2>2 DEF WrittenScript, Scripts
<1>5. /\ c.loads = c.maps \cap Readable
      /\ \A s \in c.loads : raw[Raw(c.by, s)] # NoFile
  BY <1>3 DEF WrittenScript, Holds
<1>6. \A f \in Outputs \cup Gdbs : script'[f] = IF f = out[g] THEN content ELSE script[f]
  BY <1>1 DEF IInv, TypeOK
<1>7. TypeOK'
  <2>1. overtaken' \in [Gdbs -> SUBSET (Dumps \cup Outputs)]
    BY <1>2, <1>3, TouchesType
  <2> QED
    BY <1>1, <1>2, <1>4, <1>6, <2>1 DEF IInv, TypeOK
<1>8. ScriptsComplete'
  <2>1. Torn \notin Scripts
    BY EmulateAssumption
  <2> HIDE DEF c
  <2> QED
    BY <1>1, <1>2, <1>5, <1>6, <2>1, ScriptsStay
<1>9. (Progress(g) /\ Holds(g) /\ Wrote(g))'
  <2>1. phase'[g] = "written" /\ overtaken'[g] = overtaken[g] /\ WrittenScript(g)' = c
    BY <1>2 DEF IInv, TypeOK, Touches, WrittenScript, Snapshot
  <2>2. Progress(g)' /\ Holds(g)'
    BY <1>2, <1>3, <2>1 DEF Progress, Holds, Raw, Snapshot
  <2>3. script'[out[g]] \in {Torn, c}
    BY <1>1, <1>3, <1>6
  <2> HIDE DEF c
  <2>4. Wrote(g)'
    BY <1>2, <1>3, <2>1, <2>3 DEF Wrote
  <2> QED
    BY <2>2, <2>4
<1>10. \A h \in Gdbs : h # g => (Progress(h) /\ Holds(h) /\ Wrote(h))'
  <2>1. \A h \in Gdbs : h # g => phase'[h] = phase[h]
    BY <1>2 DEF IInv, TypeOK
  <2>2. \A f \in Outputs \cup Gdbs : script'[f] = script[f] \/ f \in {out[g]}
    BY <1>6
  <2> QED
    BY <1>2, <2>1, <2>2, OthersStay
<1> QED
  BY <1>7, <1>8, <1>9, <1>10 DEF IInv, Commands

\* The end of a command leaves the others as they are, but for the dump it had open.
LEMMA EndIInv ==
    ASSUME IInv, NEW g \in Gdbs, End(g), UNCHANGED <<stops, vmmap>>,
           NEW files \in SUBSET Dumps, Touches(g, files),
           DOMAIN raw' = Dumps,
           \A k \in Dumps : raw'[k] = IF k \in files THEN Torn ELSE raw[k],
           DOMAIN script' = Outputs \cup Gdbs,
           \A f \in Outputs \cup Gdbs :
               script'[f] = script[f] \/ (f = g /\ script'[f] = NoFile),
           ran' # NoRun => \A s \in DOMAIN ran'.mem : ran'.mem[s] # NoFile
    PROVE  IInv'
<1>1. \A h \in Gdbs :
          /\ phase'[h] = IF h = g THEN "idle" ELSE phase[h]
          /\ out'[h] = IF h = g THEN g ELSE out[h]
          /\ todo'[h] = IF h = g THEN {} ELSE todo[h]
          /\ opened'[h] = IF h = g THEN {} ELSE opened[h]
          /\ loads'[h] = IF h = g THEN {} ELSE loads[h]
  BY DEF End, IInv, TypeOK
<1>2. TypeOK'
  <2>1. overtaken' \in [Gdbs -> SUBSET (Dumps \cup Outputs)]
    BY TouchesType
  <2>2. /\ phase' \in [Gdbs -> {"idle", "dump", "written"}] /\ out' \in [Gdbs -> Outputs \cup Gdbs]
        /\ todo' \in [Gdbs -> SUBSET Sections] /\ opened' \in [Gdbs -> SUBSET Sections]
        /\ loads' \in [Gdbs -> SUBSET Sections]
    BY DEF End, IInv, TypeOK
  <2>3. /\ \A k \in Dumps : raw'[k] \in {NoFile, Torn} \/ raw'[k] \in Snapshots
        /\ \A f \in Outputs \cup Gdbs : script'[f] \in {NoFile, Torn} \/ script'[f] \in Scripts
    BY DEF IInv, TypeOK
  <2>4. NoRun' = NoRun
    BY DEF NoRun
  <2> QED
    BY <2>1, <2>2, <2>3, <2>4 DEF IInv, TypeOK
<1>3. ScriptsComplete'
  <2>1. g \notin Outputs /\ Torn # NoFile
    BY EmulateAssumption
  <2> QED
    BY <2>1, ScriptsStay
<1>4. (Progress(g) /\ Holds(g) /\ Wrote(g))'
  <2>1. overtaken'[g] = {}
    BY <1>1 DEF Touches
  <2> QED
    BY <1>1, <2>1 DEF Progress, Holds, Wrote
<1>5. ASSUME NEW h \in Gdbs, h # g PROVE (Progress(h) /\ Holds(h) /\ Wrote(h))'
  <2> DEFINE touched == files \cup {g}
  <2>1. InUse(h) \cap touched = InUse(h) \cap files
    <3>1. \A s \in opened[h] \cup loads[h] : Raw(h, s) \in Dumps
      BY RawInDumps DEF IInv, TypeOK
    <3>2. g # out[h] /\ g \notin Dumps
      BY <1>5, EmulateAssumption DEF IInv, Commands, Wrote
    <3> QED
      BY <3>1, <3>2 DEF InUse
  <2>2. Torn # NoFile
    BY EmulateAssumption
  <2>3. /\ Progress(h) /\ Holds(h) /\ Wrote(h)
        /\ loads[h] \subseteq Sections /\ opened[h] \subseteq Sections
    BY DEF IInv, Commands, TypeOK
  <2>4. overtaken'[h] = IF phase[h] = "idle" THEN {}
                        ELSE overtaken[h] \cup (files \cap InUse(h))
    BY <1>1, <1>5 DEF Touches
  <2>5. out[h] # g /\ out[h] \in Outputs \cup Gdbs
    BY <1>5, EmulateAssumption DEF IInv, Commands, Wrote, TypeOK
  <2>6. script'[out[h]] = script[out[h]]
    BY <2>5
  <2>7. Progress(h)'
    BY <1>1, <1>5, <2>3, <2>4 DEF Progress
  <2>8. Wrote(h)'
    <3>1. WrittenScript(h)' = WrittenScript(h)
      BY <1>1, <1>5 DEF WrittenScript, Snapshot
    <3> QED
      BY <1>1, <1>5, <2>3, <2>4, <2>6, <3>1 DEF Wrote
  <2>9. Holds(h)'
    <3>1. CASE phase[h] = "idle"
      BY <1>1, <1>5, <2>3, <3>1 DEF Progress, Holds
    <3>2. CASE phase[h] # "idle"
      <4>1. ASSUME NEW s \in loads[h] \cup opened[h]
            PROVE  /\ Raw(h, s) \in overtaken'[h]
                      \/ (Raw(h, s) \notin overtaken[h] /\ raw'[Raw(h, s)] = raw[Raw(h, s)])
                   /\ raw[Raw(h, s)] # NoFile => raw'[Raw(h, s)] # NoFile
        <5>1. Raw(h, s) \in Dumps /\ Raw(h, s) \in InUse(h)
          BY <2>3, RawInDumps DEF InUse
        <5> QED
          BY <2>2, <2>4, <3>2, <5>1
      <4>2. \A s \in loads[h] : raw'[Raw(h, s)] # NoFile
        BY <2>3, <4>1 DEF Holds
      <4>3. \A s \in loads[h] : Raw(h, s) \in overtaken'[h] \/ raw'[Raw(h, s)] = Snapshot(h)
        BY <2>3, <4>1 DEF Holds
      <4>4. \A s \in opened[h] : Raw(h, s) \in overtaken'[h] \/ raw'[Raw(h, s)] = Torn
        BY <2>3, <4>1 DEF Holds
      <4> QED
        BY <1>1, <1>5, <4>2, <4>3, <4>4 DEF Holds, Raw, Snapshot
    <3> QED
      BY <3>1, <3>2
  <2> QED
    BY <2>7, <2>8, <2>9
<1> QED
  BY <1>2, <1>3, <1>4, <1>5 DEF IInv, Commands

\* What the command runs has its dumps, and they are of this stop.
LEMMA RunLoads ==
    ASSUME IInv, NEW g \in Gdbs, Run(g), ran' # NoRun
    PROVE  /\ \A s \in DOMAIN ran'.mem : ran'.mem[s] # NoFile
           /\ RunReplaysContext'
<1> DEFINE c == script[out[g]]
           mem == [x \in c.loads |-> raw[Raw(c.by, x)]]
<1>1. /\ Progress(g) /\ Holds(g) /\ Wrote(g) /\ phase[g] = "written" /\ todo[g] = {}
      /\ loads[g] = (vmmap[g] \ Vvar) \cap Readable
  BY DEF IInv, Commands, Progress, Run
<1>2. /\ c \notin {NoFile, Torn}
      /\ ran' = [by |-> "command", stop |-> Snapshot(g), overtaken |-> Lost(g),
                 snapshot |-> c.snapshot, maps |-> c.maps, mem |-> mem]
  BY DEF Run, Emulated
<1>3. out[g] \in Outputs \cup {g} /\ c \in Scripts
  BY <1>1, <1>2 DEF Wrote, IInv, TypeOK
<1>4. CASE out[g] \in overtaken[g]
  <2>1. out[g] \in Outputs /\ out[g] \in Lost(g)
    BY <1>3, <1>4, EmulateAssumption DEF Lost, IInv, TypeOK
  <2>2. \A s \in c.loads : raw[Raw(c.by, s)] # NoFile
    BY <1>3, <2>1 DEF IInv, ScriptsComplete
  <2>3. ran'.overtaken \cap Outputs # {}
    BY <1>2, <2>1
  <2> QED
    BY <1>2, <2>2, <2>3 DEF RunReplaysContext
<1>5. CASE out[g] \notin overtaken[g]
  <2>1. c = WrittenScript(g)
    BY <1>1, <1>2, <1>5 DEF Wrote
  <2>2. /\ c.by = g /\ c.snapshot = Snapshot(g) /\ c.maps = vmmap[g] \ Vvar
        /\ c.loads = loads[g]
    BY <2>1 DEF WrittenScript
  <2>3. \A s \in loads[g] : /\ s \in Sections /\ raw[Raw(g, s)] # NoFile
                            /\ s \in Lost(g) \/ raw[Raw(g, s)] = Snapshot(g)
    BY <1>1 DEF Holds, Lost, IInv, TypeOK
  <2>4. mem = [x \in loads[g] |-> raw[Raw(g, x)]]
    BY <2>2
  <2> HIDE DEF c, mem
  <2>5. ran'.snapshot = Snapshot(g) /\ ran'.stop = Snapshot(g) /\ ran'.mem = mem
        /\ ran'.maps = vmmap[g] \ Vvar /\ ran'.overtaken = Lost(g)
    BY <1>2, <2>2
  <2>6. Replays(ran, ran.overtaken)'
    BY <1>1, <2>3, <2>4, <2>5 DEF Replays
  <2> QED
    BY <2>3, <2>4, <2>5, <2>6 DEF RunReplaysContext
<1> QED
  BY <1>4, <1>5

\* The program of an idle GDB runs.
LEMMA ResumeIInv == ASSUME IInv, NEW g \in Gdbs, Resume(g) PROVE IInv'
<1>1. PICK m \in Maps : vmmap' = [vmmap EXCEPT ![g] = m]
  BY DEF Resume
<1>2. /\ stops' = [stops EXCEPT ![g] = @ + 1] /\ stops[g] < MaxStops /\ phase[g] = "idle"
      /\ ran' = NoRun
      /\ UNCHANGED <<phase, out, todo, opened, loads, raw, script, overtaken>>
  BY DEF Resume
<1>3. TypeOK'
  BY <1>1, <1>2, EmulateAssumption DEF IInv, TypeOK
<1>4. ScriptsComplete'
  BY <1>2, ScriptsStay
<1>5. ASSUME NEW h \in Gdbs PROVE (Progress(h) /\ Holds(h) /\ Wrote(h))'
  <2>1. Progress(h) /\ Holds(h) /\ Wrote(h)
    BY DEF IInv, Commands
  <2>2. CASE phase[h] = "idle"
    BY <1>2, <2>1, <2>2 DEF Progress, Holds, Wrote
  <2>3. CASE phase[h] # "idle"
    <3>1. vmmap'[h] = vmmap[h] /\ stops'[h] = stops[h]
      BY <1>1, <1>2, <2>3 DEF IInv, TypeOK
    <3> QED
      BY <1>2, <2>1, <3>1 DEF Progress, Holds, Wrote, Raw, Snapshot, WrittenScript
  <2> QED
    BY <2>2, <2>3
<1> QED
  BY <1>3, <1>4, <1>5 DEF IInv, Commands

\* The user's run of a script changes nothing but what was run.
LEMMA ReuseIInv == ASSUME IInv, NEW f \in Outputs, Reuse(f) PROVE IInv' /\ RunReplaysContext'
<1>1. UNCHANGED <<stops, vmmap, phase, out, todo, opened, loads, raw, script, overtaken>>
  BY DEF Reuse
<1>2. script[f] \in Scripts /\ script[f] \notin {NoFile, Torn}
  BY DEF Reuse, IInv, TypeOK
<1>3. \/ ran' = NoRun
      \/ /\ ran'.by = "user"
         /\ ran'.mem = [x \in script[f].loads |-> raw[Raw(script[f].by, x)]]
  BY <1>2 DEF Reuse, Emulated
<1>4. \A s \in script[f].loads : raw[Raw(script[f].by, s)] # NoFile
  BY <1>2 DEF IInv, ScriptsComplete
<1>5. ran' # NoRun => \A s \in DOMAIN ran'.mem : ran'.mem[s] # NoFile
  BY <1>3, <1>4
<1>6. TypeOK'
  BY <1>1, <1>5 DEF IInv, TypeOK, NoRun
<1>7. Commands' /\ ScriptsComplete'
  BY <1>1 DEF IInv, Commands, Progress, Holds, Wrote, Raw, Snapshot, WrittenScript,
     ScriptsComplete
<1> QED
  BY <1>3, <1>6, <1>7 DEF IInv, RunReplaysContext, NoRun

\* Every step preserves the invariant, and what the run in it had in front of it is
\* what it should.
LEMMA NextIInv == IInv /\ RunReplaysContext /\ [Next]_vars => IInv' /\ RunReplaysContext'
<1> SUFFICES ASSUME IInv, RunReplaysContext, [Next]_vars PROVE IInv' /\ RunReplaysContext'
  OBVIOUS
<1>1. ran' = NoRun => RunReplaysContext'
  BY DEF RunReplaysContext, NoRun
<1>2. ASSUME NEW g \in Gdbs, WriteFails(g) \/ SkipEmulation(g) PROVE IInv' /\ ran' = NoRun
  <2>1. Touches(g, {}) /\ {} \in SUBSET Dumps
    BY <1>2 DEF WriteFails, SkipEmulation
  <2>2. End(g) /\ UNCHANGED <<stops, vmmap, raw, script>> /\ ran' = NoRun
    BY <1>2 DEF WriteFails, SkipEmulation
  <2>3. DOMAIN raw = Dumps /\ DOMAIN script = Outputs \cup Gdbs
    BY DEF IInv, TypeOK
  <2> QED
    BY <2>1, <2>2, <2>3, EndIInv
<1>3. ASSUME NEW g \in Gdbs, DumpFails(g) PROVE IInv' /\ ran' = NoRun
  <2> DEFINE files == {Raw(g, s) : s \in opened[g]}
  <2>1. files \in SUBSET Dumps
    BY RawInDumps DEF IInv, TypeOK
  <2>2. /\ End(g) /\ UNCHANGED <<stops, vmmap, script>> /\ ran' = NoRun
        /\ Touches(g, files)
        /\ DOMAIN raw' = Dumps
        /\ \A k \in Dumps : raw'[k] = IF k \in files THEN Torn ELSE raw[k]
    BY <1>3 DEF DumpFails
  <2>3. DOMAIN script = Outputs \cup Gdbs
    BY DEF IInv, TypeOK
  <2> HIDE DEF files
  <2> QED
    BY <2>1, <2>2, <2>3, EndIInv
<1>4. ASSUME NEW g \in Gdbs, Run(g) PROVE IInv' /\ RunReplaysContext'
  <2>1. Touches(g, {}) /\ {} \in SUBSET Dumps /\ End(g) /\ UNCHANGED <<stops, vmmap, raw>>
    BY <1>4 DEF Run
  <2>2. /\ DOMAIN raw = Dumps /\ DOMAIN script' = Outputs \cup Gdbs
        /\ \A f \in Outputs \cup Gdbs : script'[f] = script[f] \/ (f = g /\ script'[f] = NoFile)
    BY <1>4 DEF Run, IInv, TypeOK
  <2>3. ran' # NoRun => \A s \in DOMAIN ran'.mem : ran'.mem[s] # NoFile
    BY <1>4, RunLoads
  <2>4. IInv'
    BY <2>1, <2>2, <2>3, EndIInv
  <2> QED
    BY <1>1, <1>4, <2>4, RunLoads
<1>5. ASSUME NEW f \in Outputs, Reuse(f) PROVE IInv' /\ RunReplaysContext'
  BY <1>5, ReuseIInv
<1>6. CASE UNCHANGED vars
  BY <1>6 DEF vars, IInv, TypeOK, Commands, Progress, Holds, Wrote, WrittenScript,
     ScriptsComplete, Snapshot, Raw, RunReplaysContext, Replays, NoRun
<1>7. ASSUME NEW g \in Gdbs, NEW f \in Outputs \cup {g}, Start(g, f)
      PROVE  IInv' /\ ran' = NoRun
  BY <1>7, StartIInv DEF Start
<1>8. ASSUME NEW g \in Gdbs, NEW s \in Sections,
             Skip(g, s) \/ DumpOpen(g, s) \/ DumpWrite(g, s)
      PROVE  IInv' /\ ran' = NoRun
  BY <1>8, SkipIInv, DumpOpenIInv, DumpWriteIInv DEF Skip, DumpOpen, DumpWrite
<1>9. ASSUME NEW g \in Gdbs, Write(g) \/ Resume(g) PROVE IInv' /\ ran' = NoRun
  BY <1>9, WriteIInv, ResumeIInv DEF Write, Resume
<1> QED
  BY <1>1, <1>2, <1>3, <1>4, <1>5, <1>6, <1>7, <1>8, <1>9 DEF Next

\* The invariant holds in every state.
LEMMA Inductive == Spec => [](IInv /\ RunReplaysContext)
  BY InitIInv, NextIInv, PTL DEF Spec

\* The variables of unicorn-emulate have their types.
THEOREM TypeCorrect == Spec => []TypeOK
  BY Inductive, PTL DEF IInv

\* A named script of unicorn-emulate that can be run loads what it should, from
\* files that are there.
THEOREM ScriptsAreComplete == Spec => []ScriptsComplete
  BY Inductive, PTL DEF IInv

\* unicorn-emulate emulates the program as it is, but for what another GDB wrote
\* over meanwhile.
THEOREM RunsReplay == Spec => []RunReplaysContext
  BY Inductive, PTL
=============================================================================
