------------------------ MODULE SetPermissionProofs ------------------------
(***************************************************************************)
(* Proofs about SetPermission and AssembleSession: whatever the size of    *)
(* the code and of the stub, whatever engine assembles them, and whatever  *)
(* is typed where the program stops, the code comes back and the command   *)
(* keeps the promise of Mprotect, to a program that is not astray.         *)
(***************************************************************************)
EXTENDS AssembleSession, TLAPS

\* What is true of a pending stub: it is in memory, everything else is as it
\* should be, and the program, or what a signal handler will return to, is inside
\* it with the registers saved from the first instruction to the last.
Pending(b) ==
    /\ b.loc = b.pc + StubLen
    /\ \A a \in StubAt(b.pc) : a \in Text => /\ mem[a] = a - b.pc + 1
                                             /\ b.code[a] = wanted[a]
    /\ \A a \in Text \ StubAt(b.pc) : mem[a] = wanted[a]
    /\ b.pc <= StubPc /\ StubPc <= b.loc
    /\ saves = IF StubPc \in {b.pc, b.loc} THEN 0 ELSE 1
    /\ StubPc = b.loc => sig = NoSignal /\ run = "running"

\* The code a breakpoint writes back is never that of a stub.
CleanCode == \A b \in bps : \A a \in Text : b.code[a] \in {Own, Patch}

\* Instructions of a stub are only where a live one is pending.
StubsInLive ==
    \A a \in Text : mem[a] \in 1..StubLen => \E b \in Live : a \in StubAt(b.pc)

\* Of a program that is not astray at most one stub is live; that stub is as it
\* was written, and without one nothing is changed.
OnTrack ==
    /\ \A b, c \in Live : b = c
    /\ \A b \in Live : Pending(b)
    /\ Live = {} => mem = wanted /\ saves = 0 /\ sig = NoSignal

\* Inductive.
IInv ==
    /\ TypeOK
    /\ ~nested => CleanCode /\ StubsInLive
    /\ \A b \in bps : b.loc = b.pc + StubLen
    /\ ~astray => OnTrack
    /\ run = "dead" => Live = {} /\ ~astray

\* The initial states satisfy the invariant.
LEMMA InitIInv == Init => IInv
<1> SUFFICES ASSUME Init PROVE IInv
  OBVIOUS
<1>1. Live = {}
  BY DEF Init, Live
<1>2. TypeOK
  <2>1. pc \in Text /\ commands \in 0..MaxCommands
    BY SetPermissionAssumption DEF Init, Text
  <2>2. mem \in [Text -> Cells] /\ wanted \in [Text -> {Own, Patch}]
    BY DEF Init, Cells
  <2> QED
    BY <2>1, <2>2 DEF Init, TypeOK
<1>3. CleanCode /\ StubsInLive
  BY SetPermissionAssumption DEF Init, CleanCode, StubsInLive, Own
<1>4. OnTrack
  BY <1>1 DEF Init, OnTrack
<1> QED
  BY <1>1, <1>2, <1>3, <1>4 DEF Init, IInv

\* A cell that is no instruction of a stub is the program's or the user's.
LEMMA CellKinds ==
    ASSUME NEW c \in Cells, c \notin 1..StubLen
    PROVE  c \in {Own, Patch}
  BY DEF Cells

\* The program's own instructions and the user's are no stub's.
LEMMA NoStubCell == Own \notin 1..StubLen /\ Patch \notin 1..StubLen
  BY SetPermissionAssumption DEF Own, Patch

\* What does not touch memory and breakpoints leaves the stubs covered.
LEMMA CoverUntouched ==
    ASSUME IInv, UNCHANGED <<mem, bps, nested>>
    PROVE  /\ Live' = Live
           /\ ~nested' => (CleanCode /\ StubsInLive)'
           /\ \A b \in bps' : b.loc = b.pc + StubLen
  BY DEF IInv, Live, CleanCode, StubsInLive

\* The command leaves exactly its own stub live.
LEMMA CommandIInv ==
    ASSUME IInv, NEW fits \in BOOLEAN, NEW n \in 0..StubLen, SetPermissionCmd(fits, n)
    PROVE  IInv'
<1> USE SetPermissionAssumption
<1> PICK b : b = RestoreBp
  OBVIOUS
<1>1. b.loc = BehindStub(pc) /\ b.pc = pc /\ b.code = Saved(pc) /\ b.live = TRUE
  BY DEF RestoreBp
<1>2. bps' = bps \cup {b} /\ Live' = Live \cup {b} /\ mem' = StubWritten(n)
  BY <1>1 DEF SetPermissionCmd, Live
<1>3. pc \in Text /\ pc \in Int /\ n \in Int /\ n <= StubLen
  BY DEF IInv, TypeOK, Text
<1>4. b \in Breakpoints
  <2>1. BehindStub(pc) \in Text
    BY DEF SetPermissionCmd
  <2>2. Saved(pc) \in [Text -> Cells]
    BY DEF IInv, TypeOK, Saved, Cells
  <2> QED
    BY <1>3, <2>1, <2>2 DEF Breakpoints, RestoreBp
<1>5. mem' \in [Text -> Cells]
  <2>1. \A a \in Text : a \in pc .. pc + n - 1 => a - pc + 1 \in Cells
    BY <1>3 DEF Text, Cells
  <2> QED
    BY <1>2, <2>1 DEF StubWritten, IInv, TypeOK
<1>6. TypeOK'
  BY <1>2, <1>4, <1>5 DEF SetPermissionCmd, IInv, TypeOK
<1>7. \A c \in bps' : c.loc = c.pc + StubLen
  BY <1>1, <1>2 DEF IInv, BehindStub
<1>8. ASSUME ~nested' PROVE CleanCode' /\ StubsInLive'
  <2>1. ~nested /\ Live = {} /\ CleanCode /\ StubsInLive
    BY <1>8 DEF SetPermissionCmd, IInv
  <2>2. \A a \in Text : mem[a] \in {Own, Patch} /\ mem[a] \notin 1..StubLen
    <3>1. \A a \in Text : mem[a] \in Cells /\ mem[a] \notin 1..StubLen
      BY <2>1 DEF IInv, TypeOK, StubsInLive
    <3> QED
      BY <3>1, CellKinds
  <2>3. CleanCode'
    BY <1>1, <1>2, <2>1, <2>2 DEF CleanCode, Saved
  <2>4. \A a \in Text : a \notin StubAt(pc) => mem'[a] = mem[a]
    BY <1>2, <1>3 DEF StubWritten, StubAt, Text
  <2>5. StubsInLive'
    BY <1>1, <1>2, <2>2, <2>4 DEF StubsInLive
  <2> QED
    BY <2>3, <2>5
<1>9. ASSUME ~astray' PROVE OnTrack'
  <2>1. ~astray /\ Live = {} /\ n = StubLen
    <3>1. astray' = (astray \/ ~fits \/ n < StubLen \/ Live # {})
      BY DEF SetPermissionCmd
    <3>2. ~astray /\ ~(n < StubLen) /\ Live = {}
      BY <1>9, <3>1, Zenon
    <3> QED
      BY <1>3, <3>2
  <2>2. mem = wanted /\ saves = 0
    BY <2>1 DEF IInv, OnTrack
  <2>3. \A a \in StubAt(pc) : a \in Text =>
            mem'[a] = a - pc + 1 /\ b.code[a] = wanted[a]
    BY <1>1, <1>2, <2>1, <2>2 DEF StubWritten, StubAt, Saved
  <2>4. \A a \in Text \ StubAt(pc) : mem'[a] = wanted[a]
    BY <1>2, <2>1, <2>2 DEF StubWritten, StubAt
  <2>5. pc' = pc /\ saves' = 0 /\ wanted' = wanted /\ sig' = NoSignal
    BY <2>2 DEF SetPermissionCmd
  <2>6. StubPc' = pc
    BY <2>5 DEF StubPc
  <2>7. Pending(b)'
    BY <1>1, <1>3, <2>3, <2>4, <2>5, <2>6 DEF Pending, BehindStub
  <2> QED
    BY <1>2, <2>1, <2>7 DEF OnTrack
<1>10. run' \in {"stopped", "resumed"}
  BY DEF SetPermissionCmd
<1> QED
  BY <1>6, <1>7, <1>8, <1>9, <1>10 DEF IInv

\* Where a stub is pending and the program is not in a handler, it is at an
\* instruction of the stub unless the breakpoint takes it.
LEMMA InStub ==
    ASSUME IInv, ~astray, NEW b \in Live, sig = NoSignal, Free
    PROVE  /\ b.pc \in Int /\ b.loc = b.pc + StubLen /\ pc # b.loc
           /\ pc \in StubAt(b.pc) /\ mem[pc] = pc - b.pc + 1
           /\ mem[pc] \in 1..StubLen
<1> USE SetPermissionAssumption
<1>1. Pending(b) /\ b \in bps /\ b \in Breakpoints
  BY DEF IInv, OnTrack, TypeOK, Live
<1>2. b.pc \in Int /\ b.loc = b.pc + StubLen /\ pc \in Int /\ pc \in Text
      /\ StubPc = pc
  BY <1>1 DEF Pending, Breakpoints, Text, IInv, TypeOK, StubPc
<1>3. pc # b.loc
  BY <1>1, <1>2 DEF Pending, Free
<1>4. b.pc <= pc /\ pc <= b.loc
  BY <1>1, <1>2 DEF Pending
<1>5. pc \in StubAt(b.pc)
  BY <1>2, <1>3, <1>4 DEF StubAt
<1>6. mem[pc] = pc - b.pc + 1
  BY <1>1, <1>2, <1>5 DEF Pending
<1> QED
  BY <1>2, <1>3, <1>4, <1>5, <1>6

\* A step of the program that stays on its track.
LEMMA TrackKept ==
    ASSUME IInv, ~astray, UNCHANGED <<mem, wanted, bps, nested, astray>>,
           run' = "running", pc' \in Text, sig' \in Text \cup {NoSignal},
           saves' \in Nat, grants' \in Nat, commands' = commands,
           Live = {} => saves' = saves /\ sig' = sig,
           \A b \in Live : /\ b.pc <= StubPc' /\ StubPc' <= b.loc
                           /\ saves' = IF StubPc' \in {b.pc, b.loc} THEN 0 ELSE 1
                           /\ StubPc' = b.loc => sig' = NoSignal
    PROVE  IInv'
<1>1. Live' = Live /\ ~astray'
  BY DEF Live
<1>2. ASSUME NEW b \in Live PROVE Pending(b)'
  BY <1>2 DEF IInv, OnTrack, Pending
<1>3. OnTrack'
  BY <1>1, <1>2 DEF IInv, OnTrack
<1>4. TypeOK'
  BY DEF IInv, TypeOK
<1> QED
  BY <1>1, <1>3, <1>4, CoverUntouched DEF IInv

\* An instruction of the program's own; with a stub pending, one of a handler.
LEMMA OwnStepIInv == IInv /\ OwnStep => IInv'
<1> SUFFICES ASSUME IInv, OwnStep PROVE IInv'
  OBVIOUS
<1>1. /\ UNCHANGED <<mem, wanted, bps, nested, astray, saves, grants, commands>>
      /\ run' = "running" /\ ~astray /\ Free /\ mem[pc] \in {Own, Patch}
      /\ \/ pc' \in Text /\ sig' = sig
         \/ sig # NoSignal /\ pc' = sig /\ sig' = NoSignal
  BY DEF OwnStep
<1>2. pc' \in Text /\ sig' \in Text \cup {NoSignal} /\ saves' \in Nat
      /\ grants' \in Nat
  BY <1>1 DEF IInv, TypeOK
<1>3. CASE Live = {}
  <2>1. sig' = sig
    BY <1>1, <1>3 DEF IInv, OnTrack
  <2> QED
    BY <1>1, <1>2, <1>3, <2>1, TrackKept
<1>4. CASE Live # {}
  <2>1. sig # NoSignal
    <3> SUFFICES ASSUME sig = NoSignal PROVE FALSE
      OBVIOUS
    <3> PICK b \in Live : TRUE
      BY <1>4
    <3>1. mem[pc] \in 1..StubLen
      BY <1>1, InStub
    <3> QED
      BY <1>1, <3>1, NoStubCell
  <2>2. StubPc' = StubPc
    BY <1>1, <2>1 DEF StubPc
  <2>3. \A b \in Live : /\ b.pc <= StubPc /\ StubPc <= b.loc /\ StubPc # b.loc
                        /\ saves = IF StubPc \in {b.pc, b.loc} THEN 0 ELSE 1
    BY <1>1, <2>1 DEF IInv, OnTrack, Pending
  <2> QED
    BY <1>1, <1>2, <1>4, <2>2, <2>3, TrackKept
<1> QED
  BY <1>3, <1>4

\* The next instruction of the stub.
LEMMA StubStepIInv == IInv /\ StubStep => IInv'
<1> SUFFICES ASSUME IInv, StubStep PROVE IInv'
  OBVIOUS
<1> USE SetPermissionAssumption
<1>1. /\ UNCHANGED <<mem, wanted, sig, bps, nested, astray, commands>>
      /\ run' = "running" /\ ~astray /\ Free /\ sig = NoSignal
      /\ mem[pc] \in 1..StubLen /\ pc + 1 \in Text /\ pc' = pc + 1
      /\ saves' = (CASE mem[pc] = 1       -> saves + 1
                     [] mem[pc] = StubLen -> saves - 1
                     [] OTHER             -> saves)
      /\ grants' = IF mem[pc] = 2 THEN grants + 1 ELSE grants
  BY DEF StubStep
<1>2. pc \in Text /\ pc \in Int /\ saves \in Nat /\ grants' \in Nat
  BY <1>1 DEF IInv, TypeOK, Text
<1>3. Live # {}
  BY <1>1, <1>2, NoStubCell DEF IInv, OnTrack, TypeOK
<1> PICK b \in Live : TRUE
  BY <1>3
<1>4. \A c \in Live : c = b
  BY <1>1 DEF IInv, OnTrack
<1>5. /\ b.pc \in Int /\ b.loc = b.pc + StubLen /\ pc # b.loc
      /\ pc \in StubAt(b.pc) /\ mem[pc] = pc - b.pc + 1
  BY <1>1, InStub
<1>6. StubPc = pc /\ StubPc' = pc + 1
  BY <1>1 DEF StubPc
<1>7. saves = IF pc = b.pc THEN 0 ELSE 1
  BY <1>1, <1>5, <1>6 DEF IInv, OnTrack, Pending
<1>8. b.pc <= pc /\ pc < b.loc
  BY <1>2, <1>5 DEF StubAt
<1>9. saves' = IF pc + 1 \in {b.pc, b.loc} THEN 0 ELSE 1
  BY <1>1, <1>2, <1>5, <1>7, <1>8
<1>10. saves' \in Nat /\ b.pc <= pc + 1 /\ pc + 1 <= b.loc
  BY <1>2, <1>5, <1>8, <1>9
<1>11. \A c \in Live : /\ c.pc <= StubPc' /\ StubPc' <= c.loc
                       /\ saves' = IF StubPc' \in {c.pc, c.loc} THEN 0 ELSE 1
                       /\ StubPc' = c.loc => sig' = NoSignal
  BY <1>1, <1>4, <1>6, <1>9, <1>10
<1>12. pc' \in Text /\ sig' \in Text \cup {NoSignal}
  BY <1>1
<1> QED
  BY <1>1, <1>2, <1>3, <1>10, <1>11, <1>12, TrackKept

\* A handler is entered: the stub stays where it was interrupted.
LEMMA SignalIInv == IInv /\ Signal => IInv'
<1> SUFFICES ASSUME IInv, Signal PROVE IInv'
  OBVIOUS
<1>1. /\ UNCHANGED <<mem, wanted, bps, saves, grants, commands, astray, nested>>
      /\ run' = "running" /\ ~astray /\ Free /\ sig = NoSignal /\ Live # {}
      /\ pc' \in Text /\ sig' = pc
  BY DEF Signal
<1>2. pc \in Text /\ pc # NoSignal /\ saves' \in Nat /\ grants' \in Nat
  BY <1>1 DEF IInv, TypeOK, Text, NoSignal
<1>3. StubPc = pc /\ StubPc' = pc
  BY <1>1, <1>2 DEF StubPc
<1>4. \A b \in Live : pc # b.loc
  BY <1>1, InStub
<1>5. \A b \in Live : /\ b.pc <= StubPc /\ StubPc <= b.loc
                      /\ saves = IF StubPc \in {b.pc, b.loc} THEN 0 ELSE 1
  BY <1>1 DEF IInv, OnTrack, Pending
<1>6. \A b \in Live : /\ b.pc <= StubPc' /\ StubPc' <= b.loc
                      /\ saves' = IF StubPc' \in {b.pc, b.loc} THEN 0 ELSE 1
                      /\ StubPc' = b.loc => sig' = NoSignal
  BY <1>1, <1>3, <1>4, <1>5
<1>7. sig' \in Text \cup {NoSignal}
  BY <1>1, <1>2
<1> QED
  BY <1>1, <1>2, <1>6, <1>7, TrackKept

\* To a program that goes astray nothing more is promised than that its stubs
\* are covered.
LEMMA AstrayStepIInv == IInv /\ AstrayStep => IInv'
<1> SUFFICES ASSUME IInv, AstrayStep PROVE IInv'
  OBVIOUS
<1>1. UNCHANGED <<mem, wanted, bps, saves, grants, commands, nested>> /\ astray' = TRUE
      /\ run' = "running" /\ pc' \in Text /\ sig' = NoSignal
  BY DEF AstrayStep
<1>2. TypeOK'
  BY <1>1 DEF IInv, TypeOK
<1> QED
  BY <1>1, <1>2, CoverUntouched DEF IInv

\* The restore breakpoint puts everything back, an old one its own code.
LEMMA RestoreIInv == IInv /\ Restore => IInv'
<1> SUFFICES ASSUME IInv, Restore PROVE IInv'
  OBVIOUS
<1> USE SetPermissionAssumption
<1> PICK b \in bps : b.loc = pc /\ mem' = Restored(b) /\ pc' = b.pc
                     /\ astray' = (astray \/ ~b.live \/ sig # NoSignal)
  BY DEF Restore
<1>1. bps' = {c \in bps : c.loc # pc} /\ wanted' = wanted /\ saves' = saves
      /\ run' = "stopped" /\ grants' = grants /\ sig' = NoSignal /\ nested' = nested
      /\ commands' = commands
  BY DEF Restore
<1>2. b \in Breakpoints /\ b.pc \in Text /\ b.code \in [Text -> Cells]
      /\ b.live \in BOOLEAN
  BY DEF IInv, TypeOK, Breakpoints
<1>3. Live' = {c \in Live : c.loc # pc}
  BY <1>1 DEF Live
<1>4. TypeOK'
  <2>1. Restored(b) \in [Text -> Cells]
    BY <1>2 DEF IInv, TypeOK, Restored
  <2>2. pc' \in Text /\ astray' \in BOOLEAN
    BY <1>2 DEF IInv, TypeOK
  <2>3. bps' \subseteq Breakpoints
    BY <1>1 DEF IInv, TypeOK
  <2> QED
    BY <1>1, <2>1, <2>2, <2>3 DEF IInv, TypeOK
<1>5. ASSUME ~nested' PROVE CleanCode' /\ StubsInLive'
  <2>1. CleanCode /\ StubsInLive
    BY <1>1, <1>5 DEF IInv
  <2>2. CleanCode'
    BY <1>1, <2>1 DEF CleanCode
  <2> SUFFICES ASSUME NEW a \in Text, mem'[a] \in 1..StubLen
               PROVE  \E c \in Live' : a \in StubAt(c.pc)
    BY <2>2 DEF StubsInLive
  <2>3. a \notin StubAt(b.pc) /\ mem'[a] = mem[a]
    BY <2>1, NoStubCell DEF Restored, CleanCode
  <2> PICK c \in Live : a \in StubAt(c.pc)
    BY <2>1, <2>3 DEF StubsInLive
  <2>4. c.loc # pc
    <3>1. c.loc = c.pc + StubLen /\ b.loc = b.pc + StubLen
      BY DEF IInv, Live
    <3>2. c.pc \in Int /\ b.pc \in Int
      BY <1>2 DEF IInv, TypeOK, Live, Breakpoints, Text
    <3>3. c.pc # b.pc
      BY <2>3
    <3> QED
      BY <3>1, <3>2, <3>3
  <2> QED
    BY <1>3, <2>4
<1>6. \A c \in bps' : c.loc = c.pc + StubLen
  BY <1>1 DEF IInv
<1>7. ASSUME ~astray' PROVE OnTrack'
  <2>1. ~astray /\ b \in Live /\ sig = NoSignal /\ OnTrack
    BY <1>2, <1>7 DEF Live, IInv, TypeOK
  <2>2. Pending(b) /\ StubPc = pc
    BY <2>1 DEF OnTrack, StubPc
  <2>3. Live' = {}
    BY <1>3, <2>1 DEF OnTrack
  <2>4. saves' = 0
    BY <1>1, <2>2 DEF Pending
  <2>5. \A a \in Text : Restored(b)[a] = wanted[a]
    BY <2>2 DEF Restored, Pending
  <2>6. Restored(b) = [a \in Text |-> Restored(b)[a]]
    BY DEF Restored
  <2>7. wanted = [a \in Text |-> wanted[a]]
    BY DEF IInv, TypeOK
  <2>8. mem' = wanted'
    BY <1>1, <2>5, <2>6, <2>7
  <2> QED
    BY <1>1, <2>3, <2>4, <2>8 DEF OnTrack
<1> QED
  BY <1>1, <1>4, <1>5, <1>6, <1>7 DEF IInv

\* A list of instructions, written anywhere or refused.
LEMMA OverwriteIInv ==
    ASSUME NEW a \in Text, NEW n \in Nat, NEW good \in Nat, IInv,
           Overwrite(a, n, good)
    PROVE  IInv'
<1> USE SetPermissionAssumption
<1>1. /\ UNCHANGED <<pc, run, bps, saves, grants, commands, nested>>
      /\ run = "stopped" /\ mem' = Written(a, n, good)
      /\ wanted' = (IF good = n THEN Patches(wanted, a, n) ELSE wanted)
      /\ astray' = (astray \/ (good = n /\ OverStub(a, n)))
      /\ sig' = IF astray' THEN NoSignal ELSE sig
  BY DEF Overwrite
<1>2. Live' = Live /\ sig' \in Text \cup {NoSignal} /\ astray' \in BOOLEAN
  BY <1>1 DEF Live, IInv, TypeOK
<1>3. CASE good # n
  <2>1. UNCHANGED <<mem, wanted>> /\ astray' = astray
    BY <1>1, <1>3 DEF Written, IInv, TypeOK
  <2>2. TypeOK'
    BY <1>1, <1>2, <2>1 DEF IInv, TypeOK
  <2>3. ASSUME ~astray' PROVE OnTrack'
    <3>1. sig' = sig /\ StubPc' = StubPc /\ OnTrack
      BY <1>1, <2>1, <2>3 DEF StubPc, IInv
    <3>2. \A b : Pending(b)' <=> Pending(b)
      BY <1>1, <2>1, <3>1 DEF Pending
    <3> QED
      BY <1>1, <1>2, <2>1, <3>1, <3>2 DEF OnTrack
  <2> QED
    BY <1>1, <2>1, <2>2, <2>3, CoverUntouched DEF IInv
<1>4. CASE good = n
  <2>1. mem' = Patches(mem, a, n) /\ wanted' = Patches(wanted, a, n)
    BY <1>1, <1>4 DEF Written
  <2>2. \A c \in Text : c \notin a .. a + n - 1 =>
            mem'[c] = mem[c] /\ wanted'[c] = wanted[c]
    BY <2>1 DEF Patches
  <2>3. \A c \in Text : c \in a .. a + n - 1 =>
            mem'[c] = Patch /\ wanted'[c] = Patch
    BY <2>1 DEF Patches
  <2>4. TypeOK'
    <3>1. mem' \in [Text -> Cells] /\ wanted' \in [Text -> {Own, Patch}]
      BY <2>1 DEF IInv, TypeOK, Cells, Patches
    <3> QED
      BY <1>1, <1>2, <3>1 DEF IInv, TypeOK
  <2>5. ~nested' => CleanCode' /\ StubsInLive'
    BY <1>1, <1>2, <2>2, <2>3, NoStubCell DEF IInv, StubsInLive, CleanCode
  <2>6. ASSUME ~astray' PROVE OnTrack'
    <3>1. ~astray /\ ~OverStub(a, n) /\ sig' = sig /\ StubPc' = StubPc /\ OnTrack
      BY <1>1, <1>4, <2>6 DEF StubPc, IInv
    <3>2. mem = wanted => mem' = wanted'
      BY <2>1
    <3>3. ASSUME NEW b \in Live PROVE Pending(b)'
      <4>1. Pending(b) /\ \A c \in StubAt(b.pc) : c \notin a .. a + n - 1
        BY <3>1, <3>3 DEF OverStub, OnTrack
      <4>2. \A c \in StubAt(b.pc) : c \in Text =>
                mem'[c] = mem[c] /\ wanted'[c] = wanted[c]
        BY <2>2, <4>1
      <4>3. \A c \in Text \ StubAt(b.pc) : mem'[c] = wanted'[c]
        BY <2>2, <2>3, <4>1 DEF Pending
      <4> QED
        BY <1>1, <3>1, <4>1, <4>2, <4>3 DEF Pending
    <3> QED
      BY <1>1, <1>2, <3>1, <3>2, <3>3 DEF OnTrack
  <2> QED
    BY <1>1, <2>4, <2>5, <2>6 DEF IInv
<1> QED
  BY <1>3, <1>4

\* Stopping and resuming between two instructions disturbs nothing.
LEMMA StopIInv == IInv /\ (Interrupt \/ Continue) => IInv'
<1> SUFFICES ASSUME IInv, Interrupt \/ Continue PROVE IInv'
  OBVIOUS
<1>1. UNCHANGED <<mem, wanted, pc, sig, bps, saves, grants, commands, astray, nested>>
      /\ run' \in {"stopped", "resumed"} /\ Live' = Live
  BY DEF Interrupt, Continue, Live
<1>2. StubPc' = StubPc
  BY <1>1 DEF StubPc
<1>3. TypeOK'
  BY <1>1 DEF IInv, TypeOK
<1>4. ASSUME ~astray' PROVE OnTrack'
  <2>1. ~astray /\ OnTrack
    BY <1>1, <1>4 DEF IInv
  <2>2. ASSUME NEW b \in Live PROVE Pending(b)'
    <3>1. Pending(b)
      BY <2>1, <2>2 DEF OnTrack
    <3>2. StubPc # b.loc
      <4>1. CASE Continue
        BY <3>1, <4>1 DEF Continue, Pending
      <4>2. CASE Interrupt
        <5>1. CASE sig = NoSignal
          BY <2>1, <4>2, <5>1, InStub DEF Interrupt, StubPc
        <5>2. CASE sig # NoSignal
          BY <3>1, <5>2 DEF Pending
        <5> QED
          BY <5>1, <5>2
      <4> QED
        BY <4>1, <4>2
    <3> QED
      BY <1>1, <1>2, <3>1, <3>2 DEF Pending
  <2> QED
    BY <1>1, <2>1, <2>2 DEF OnTrack
<1> QED
  BY <1>1, <1>3, <1>4, CoverUntouched DEF IInv

\* A breakpoint that is left behind is the same one, and not the new program's.
LEMMA LeftBehindSame ==
    ASSUME NEW b \in Breakpoints, NEW d, d = [b EXCEPT !.live = FALSE]
    PROVE  /\ d \in Breakpoints /\ ~d.live
           /\ d.loc = b.loc /\ d.pc = b.pc /\ d.code = b.code
  BY DEF Breakpoints

\* When the program is gone there is no stub, and no breakpoint is the next one's.
LEMMA DiesIInv == IInv /\ Dies => IInv'
<1> SUFFICES ASSUME IInv, Dies PROVE IInv'
  OBVIOUS
<1>1. ASSUME NEW d \in bps'
      PROVE  /\ d \in Breakpoints /\ ~d.live
             /\ \E b \in bps : d.loc = b.loc /\ d.pc = b.pc /\ d.code = b.code
  <2> PICK b \in bps : d = [b EXCEPT !.live = FALSE]
    BY DEF Dies, LeftBehind
  <2>1. b \in Breakpoints
    BY DEF IInv, TypeOK
  <2> QED
    BY <2>1, LeftBehindSame
<1>2. Live' = {} /\ bps' \subseteq Breakpoints
  BY <1>1 DEF Live
<1>3. mem' = [a \in Text |-> Own] /\ wanted' = mem' /\ saves' = 0 /\ pc' = 0
      /\ run' = "dead" /\ sig' = NoSignal /\ astray' = FALSE /\ grants' = grants
      /\ commands' = commands /\ nested' = nested
  BY DEF Dies
<1>4. ~nested' => CleanCode'
  <2> SUFFICES ASSUME ~nested, NEW d \in bps', NEW a \in Text
               PROVE  d.code[a] \in {Own, Patch}
    BY <1>3 DEF CleanCode
  <2> QED
    BY <1>1 DEF IInv, CleanCode
<1>5. ASSUME NEW d \in bps' PROVE d.loc = d.pc + StubLen
  BY <1>1 DEF IInv
<1>6. mem' \in [Text -> Cells] /\ wanted' \in [Text -> {Own, Patch}] /\ 0 \in Text
  BY <1>3, SetPermissionAssumption DEF Cells, Text
<1>7. TypeOK'
  BY <1>2, <1>3, <1>6 DEF IInv, TypeOK
<1>8. StubsInLive'
  BY <1>3, NoStubCell DEF StubsInLive
<1>9. OnTrack'
  BY <1>2, <1>3 DEF OnTrack
<1> QED
  BY <1>2, <1>3, <1>4, <1>5, <1>7, <1>8, <1>9 DEF IInv

\* The program starts as it is in its file.
LEMMA StartsIInv == IInv /\ Starts => IInv'
<1> SUFFICES ASSUME IInv, Starts PROVE IInv'
  OBVIOUS
<1>1. UNCHANGED <<mem, wanted, sig, bps, saves, grants, commands, astray, nested>>
      /\ run = "dead" /\ run' = "stopped" /\ pc' \in Text /\ Live' = Live
  BY DEF Starts, Live
<1>2. Live = {} /\ ~astray /\ OnTrack
  BY <1>1 DEF IInv
<1>3. TypeOK' /\ OnTrack'
  BY <1>1, <1>2 DEF IInv, TypeOK, OnTrack
<1> QED
  BY <1>1, <1>3, CoverUntouched DEF IInv

\* Every step preserves the invariant.
LEMMA NextIInv == IInv /\ [Next]_vars => IInv'
<1> SUFFICES ASSUME IInv, [Next]_vars PROVE IInv'
  OBVIOUS
<1>1. CASE \E fits \in BOOLEAN, n \in 0..StubLen : SetPermissionCmd(fits, n)
  BY <1>1, CommandIInv
<1>2. CASE OwnStep \/ StubStep \/ Signal \/ AstrayStep
  BY <1>2, OwnStepIInv, StubStepIInv, SignalIInv, AstrayStepIInv
<1>3. CASE Restore \/ Interrupt \/ Continue
  BY <1>3, RestoreIInv, StopIInv
<1>4. CASE \E a \in Text, n \in 1..MaxInsns, good \in 0..MaxInsns :
               Overwrite(a, n, good)
  <2> PICK a \in Text, n \in 1..MaxInsns, good \in 0..MaxInsns : Overwrite(a, n, good)
    BY <1>4
  <2>1. n \in Nat /\ good \in Nat
    BY SetPermissionAssumption
  <2> QED
    BY <2>1, OverwriteIInv
<1>5. CASE Dies \/ Starts
  BY <1>5, DiesIInv, StartsIInv
<1>6. CASE UNCHANGED vars
  <2>1. UNCHANGED <<mem, wanted, pc, run, sig, bps, saves, grants, commands, astray,
                    nested>>
    BY <1>6 DEF vars
  <2>2. Live' = Live /\ StubPc' = StubPc
    BY <2>1 DEF Live, StubPc
  <2>3. \A b : Pending(b)' <=> Pending(b)
    BY <2>1, <2>2 DEF Pending
  <2>4. TypeOK' /\ (OnTrack => OnTrack')
    BY <2>1, <2>2, <2>3 DEF IInv, TypeOK, OnTrack
  <2> QED
    BY <2>1, <2>2, <2>4, CoverUntouched DEF IInv
<1> QED
  BY <1>1, <1>2, <1>3, <1>4, <1>5, <1>6 DEF Next

\* The invariant holds always.
LEMMA Invariance == Spec => []IInv
  BY InitIInv, NextIInv, PTL DEF Spec

-----------------------------------------------------------------------------
(* The whole of assemble.py behaves, towards the program, as SetPermission *)
(* does: what the engine and the session decide is when and whether.       *)

\* A list of instructions is a sequence of at most MaxInsns.
LEMMA ListLength == ASSUME NEW insns \in Programs PROVE Len(insns) \in 1..MaxInsns
<1>1. insns \in Seq(Insns) /\ insns # << >> /\ Len(insns) <= MaxInsns
  BY KeystoneAssumption, AssembleAssumption
<1>2. Len(insns) \in Nat /\ Len(insns) # 0
  BY <1>1
<1> QED
  BY <1>1, <1>2, SetPermissionAssumption

\* Every step of AssembleSession is one of SetPermission or none.
LEMMA AssembleStep == [AssembleNext]_assembleVars => [Next]_vars
<1> SUFFICES ASSUME [AssembleNext]_assembleVars PROVE [Next]_vars
  OBVIOUS
<1>1. ASSUME NEW insns \in Programs, NEW options \in Options,
             NEW at \in Text \cup {Nowhere}, Assemble(insns, options, at)
      PROVE  [Next]_vars
  <2>1. CASE UNCHANGED vars
    BY <2>1
  <2>2. CASE ~ UNCHANGED vars
    <3>1. at \in Text
      BY <1>1, <2>2 DEF Assemble, Nowhere
    <3> PICK n \in 0..Len(insns) : Overwrite(at, Len(insns), n)
      BY <1>1, <2>2 DEF Assemble
    <3>2. Len(insns) \in 1..MaxInsns /\ n \in 0..MaxInsns
      BY ListLength, SetPermissionAssumption
    <3> QED
      BY <3>1, <3>2 DEF Next
  <2> QED
    BY <2>1, <2>2
<1>2. CASE ChangePermission
  <2> DEFINE fit == <<Engine(session), session>> \in Fits
  <2>1. UNCHANGED vars \/ \E n \in 0..StubLen : SetPermissionCmd(fit, n)
    BY <1>2 DEF ChangePermission
  <2>2. fit \in BOOLEAN
    OBVIOUS
  <2> HIDE DEF fit
  <2> QED
    BY <2>1, <2>2 DEF Next
<1>3. CASE ProgramSteps \/ GdbStops \/ ProgramEnds \/ ProgramStarts
  <2>1. \/ OwnStep \/ AstrayStep \/ StubStep \/ Signal
        \/ Restore \/ Interrupt \/ Continue \/ Dies \/ Starts
    BY <1>3 DEF ProgramSteps, GdbStops, ProgramEnds, ProgramStarts
  <2> QED
    BY <2>1 DEF Next
<1>4. CASE UNCHANGED assembleVars
  BY <1>4 DEF assembleVars
<1> QED
  BY <1>1, <1>2, <1>3, <1>4 DEF AssembleNext

\* AssembleSession implements SetPermission, whatever engine there is.
THEOREM AssembleImplements == AssembleSpec => Spec
<1>1. AssembleInit => Init
  BY DEF AssembleInit
<1>2. [AssembleNext]_assembleVars => [Next]_vars
  BY AssembleStep
<1> QED
  BY <1>1, <1>2, PTL DEF AssembleSpec, Spec

\* Type correctness of the engine and the session.
LEMMA SessionTypes ==
    AssembleSpec => [](/\ session \in Sessions \cup {Dead}
                       /\ ks \in Keystone \cup {Closed} /\ asAsked \in BOOLEAN)
<1> DEFINE T == /\ session \in Sessions \cup {Dead}
                /\ ks \in Keystone \cup {Closed} /\ asAsked \in BOOLEAN
<1>1. AssembleInit => T
  BY DEF AssembleInit
<1>2. T /\ [AssembleNext]_assembleVars => T'
  <2> SUFFICES ASSUME T, [AssembleNext]_assembleVars PROVE T'
    OBVIOUS
  <2>1. \A t : KeptOpen(t) \in Keystone \cup {Closed}
    BY DEF KeptOpen, Opens
  <2>2. ASSUME NEW insns \in Programs, NEW options \in Options,
               NEW at \in Text \cup {Nowhere}, Assemble(insns, options, at)
        PROVE  T'
    BY <2>1, <2>2 DEF Assemble
  <2>3. CASE ChangePermission
    BY <2>1, <2>3 DEF ChangePermission
  <2>4. CASE ProgramSteps
    BY <2>4 DEF ProgramSteps
  <2>5. CASE GdbStops \/ ProgramEnds \/ ProgramStarts \/ UNCHANGED assembleVars
    BY <2>5 DEF GdbStops, ProgramEnds, ProgramStarts, assembleVars
  <2> QED
    BY <2>2, <2>3, <2>4, <2>5 DEF AssembleNext
<1> QED
  BY <1>1, <1>2, PTL DEF AssembleSpec

\* Type correctness; in particular no stub restores registers it did not save,
\* and the engine is one that Keystone could open.
THEOREM TypeCorrect == AssembleSpec => []AssembleTypeOK
<1>1. IInv => TypeOK
  BY DEF IInv
<1>2. TypeOK /\ session \in Sessions \cup {Dead}
      /\ ks \in Keystone \cup {Closed} /\ asAsked \in BOOLEAN => AssembleTypeOK
  BY DEF AssembleTypeOK
<1> QED
  BY <1>1, <1>2, Invariance, AssembleImplements, SessionTypes, PTL

\* No stub outlives its breakpoint unless commands were nested, and to a program
\* that is not astray what is overwritten comes back.
THEOREM CodeAlwaysComesBack == AssembleSpec => []CodeComesBack
<1>1. IInv => CodeComesBack
  <2> SUFFICES ASSUME IInv PROVE CodeComesBack
    OBVIOUS
  <2>1. ~nested => StubsCovered
    BY DEF IInv, StubsInLive, CleanCode, StubsCovered, Live
  <2>2. ASSUME ~astray, NEW a \in Text, mem[a] # wanted[a]
        PROVE  \E b \in Live : a \in StubAt(b.pc) /\ b.code[a] = wanted[a]
    <3> PICK b \in Live : Pending(b)
      BY <2>2 DEF IInv, OnTrack
    <3> QED
      BY <2>2 DEF Pending
  <2> QED
    BY <2>1, <2>2 DEF CodeComesBack
<1> QED
  BY <1>1, Invariance, AssembleImplements, PTL

\* The program's own instructions run with the program's own registers.
THEOREM OwnRegisters == AssembleSpec => []OwnCodeOwnRegisters
<1>1. IInv => OwnCodeOwnRegisters
  <2> SUFFICES ASSUME IInv, ~astray, sig = NoSignal, mem[pc] \in {Own, Patch},
                      saves # 0
               PROVE  FALSE
    BY DEF OwnCodeOwnRegisters
  <2> USE SetPermissionAssumption
  <2> PICK b \in Live : Pending(b)
    BY DEF IInv, OnTrack
  <2>1. b.pc \in Int /\ pc \in Int /\ pc \in Text /\ StubPc = pc
    BY DEF IInv, TypeOK, Breakpoints, Text, Live, StubPc
  <2>2. b.pc < pc /\ pc < b.loc
    BY <2>1 DEF Pending
  <2>3. pc \in StubAt(b.pc)
    BY <2>1, <2>2 DEF StubAt, Pending
  <2>4. mem[pc] = pc - b.pc + 1
    BY <2>1, <2>3 DEF Pending
  <2> QED
    BY <2>1, <2>2, <2>4 DEF Own, Patch
<1> QED
  BY <1>1, Invariance, AssembleImplements, PTL

-----------------------------------------------------------------------------
(* The refinement.                                                         *)

\* What the user is shown of a program that is not astray.
View ==
    ~astray =>
        /\ UserCode = wanted /\ UserPc \in Text
        /\ Due \in BOOLEAN
        /\ Live = {} \/ sig # NoSignal => UserPc = pc
        /\ \A b \in Live : sig = NoSignal => UserPc = b.pc
        /\ Live = {} => ~Due
        /\ \A b \in Live : Due <=> StubPc < b.pc + 2

\* The code without the stub is the code the program is meant to have.
LEMMA CodeView ==
    ASSUME IInv, ~astray PROVE UserCode = wanted
<1>1. wanted = [a \in Text |-> wanted[a]]
  BY DEF IInv, TypeOK
<1>2. ASSUME NEW a \in Text PROVE UserCode[a] = wanted[a]
  <2>1. CASE \E b \in Live : a \in StubAt(b.pc)
    <3> PICK b \in Live : a \in StubAt(b.pc)
      BY <2>1
    <3>1. (CHOOSE c \in Live : a \in StubAt(c.pc)) = b
      BY DEF IInv, OnTrack
    <3>2. b.code[a] = wanted[a]
      BY DEF IInv, OnTrack, Pending
    <3> QED
      BY <2>1, <3>1, <3>2 DEF UserCode
  <2>2. CASE ~\E b \in Live : a \in StubAt(b.pc)
    <3>1. mem[a] = wanted[a]
      BY <2>2 DEF IInv, OnTrack, Pending
    <3> QED
      BY <2>2, <3>1 DEF UserCode
  <2> QED
    BY <2>1, <2>2
<1>3. UserCode = [a \in Text |-> UserCode[a]]
  BY DEF UserCode
<1> QED
  BY <1>1, <1>2, <1>3

\* Every state with the invariant shows that.
LEMMA ViewHolds == IInv => View
<1> SUFFICES ASSUME IInv, ~astray
             PROVE  /\ UserCode = wanted /\ UserPc \in Text
                    /\ Due \in BOOLEAN
                    /\ Live = {} \/ sig # NoSignal => UserPc = pc
                    /\ \A b \in Live : sig = NoSignal => UserPc = b.pc
                    /\ Live = {} => ~Due
                    /\ \A b \in Live : Due <=> StubPc < b.pc + 2
  BY DEF View
<1>1. ASSUME NEW b \in Live
      PROVE  /\ (CHOOSE c \in Live : TRUE) = b /\ b.pc \in Text
             /\ Due <=> StubPc < b.pc + 2
  <2>1. \A c \in Live : c = b
    BY DEF IInv, OnTrack
  <2> QED
    BY <2>1 DEF IInv, TypeOK, Breakpoints, Live, Due
<1>2. pc \in Text
  BY DEF IInv, TypeOK
<1>3. UserPc \in Text
  BY <1>1, <1>2 DEF UserPc
<1>4. Due \in BOOLEAN /\ (Live = {} => ~Due)
  BY DEF Due
<1>5. /\ Live = {} \/ sig # NoSignal => UserPc = pc
      /\ \A b \in Live : sig = NoSignal => UserPc = b.pc
  BY <1>1 DEF UserPc
<1> QED
  BY <1>1, <1>3, <1>4, <1>5, CodeView

\* And so does every next state.
LEMMA ViewNext == IInv' => View'
  BY ViewHolds, PTL

\* A step after which nothing is promised forfeits the promise.
LEMMA ForfeitStep == IInv /\ Next /\ astray' => Promise!ForfeitA
<1> SUFFICES ASSUME IInv, Next, astray' PROVE Promise!ForfeitA
  OBVIOUS
<1>1. grants' = grants
  <2>1. ~StubStep
    BY DEF StubStep
  <2> QED
    BY <2>1 DEF Next, SetPermissionCmd, OwnStep, Signal, AstrayStep, Restore, Interrupt,
                Continue, Overwrite, Dies, Starts
<1>2. run # "dead"
  <2>1. ~Starts
    BY DEF Starts, IInv
  <2> QED
    BY <2>1 DEF Next, SetPermissionCmd, OwnStep, StubStep, Signal, AstrayStep, Restore,
                Interrupt, Continue, Overwrite, Dies, Free
<1>3. (~astray') = FALSE
  OBVIOUS
<1> QED
  BY <1>1, <1>2, <1>3 DEF Promise!ForfeitA

\* A step of a program that stays on its track is one of Mprotect's.
LEMMA TrackStep ==
    IInv /\ IInv' /\ Next /\ ~astray /\ ~astray' => [Promise!NextA]_(Promise!varsA)
<1> SUFFICES ASSUME IInv, IInv', Next, ~astray, ~astray'
             PROVE  [Promise!NextA]_(Promise!varsA)
  OBVIOUS
<1> USE SetPermissionAssumption
<1>1. UserCode = wanted /\ UserPc \in Text /\ Due \in BOOLEAN
  BY ViewHolds DEF View
<1>2. UserCode' = wanted' /\ UserPc' \in Text /\ Due' \in BOOLEAN
  BY ViewNext DEF View
<1>pc. /\ Live = {} \/ sig # NoSignal => UserPc = pc
       /\ \A b \in Live : sig = NoSignal => UserPc = b.pc
  BY ViewHolds DEF View
<1>pcn. /\ Live' = {} \/ sig' # NoSignal => UserPc' = pc'
        /\ \A b \in Live' : sig' = NoSignal => UserPc' = b.pc
  BY ViewNext DEF View
<1>due. (Live = {} => ~Due) /\ \A b \in Live : Due <=> StubPc < b.pc + 2
  BY ViewHolds DEF View
<1>duen. (Live' = {} => ~Due') /\ \A b \in Live' : Due' <=> StubPc' < b.pc + 2
  BY ViewNext DEF View
<1>3. (~astray') = (~astray)
  OBVIOUS
<1>4. CASE \E fits \in BOOLEAN, n \in 0..StubLen : SetPermissionCmd(fits, n)
  <2> PICK fits \in BOOLEAN, n \in 0..StubLen : SetPermissionCmd(fits, n)
    BY <1>4
  <2>1. n < StubLen \/ n = StubLen
    OBVIOUS
  <2>2. astray' = (astray \/ ~fits \/ n < StubLen \/ Live # {})
    BY DEF SetPermissionCmd
  <2>3. ~(n < StubLen) /\ Live = {}
    BY <2>2, Zenon
  <2>4. /\ run = "stopped" /\ run' = "resumed" /\ UNCHANGED <<wanted, pc, grants>>
        /\ sig' = NoSignal
    BY <2>1, <2>3 DEF SetPermissionCmd
  <2> PICK b : b = RestoreBp
    OBVIOUS
  <2>5. b \in Live' /\ b.pc = pc /\ StubPc' = pc /\ pc \in Int
    BY <2>4 DEF RestoreBp, SetPermissionCmd, Live, StubPc, IInv, TypeOK, Text
  <2>6. UserPc' = UserPc /\ Due' /\ ~Due
    BY <1>pc, <1>pcn, <1>due, <1>duen, <2>3, <2>4, <2>5
  <2>7. Due' = TRUE
    BY <1>2, <2>6
  <2>8. UserCode' = UserCode
    BY <1>1, <1>2, <2>4
  <2> QED
    BY <1>3, <2>4, <2>6, <2>7, <2>8 DEF Promise!NextA, Promise!CommandA
<1>5. ASSUME Free, UNCHANGED <<wanted, grants>>, run' = "running", Due' <=> Due
      PROVE  Promise!RunA
  <2>1. Due' = Due /\ UserCode' = UserCode
    BY <1>1, <1>2, <1>5
  <2>2. run \in {"resumed", "running"}
    BY <1>5 DEF Free
  <2> QED
    BY <1>2, <1>3, <1>5, <2>1, <2>2 DEF Promise!RunA, Promise!Going
<1>6. CASE OwnStep \/ Signal
  <2>1. /\ Free /\ UNCHANGED <<wanted, bps, grants>> /\ run' = "running"
        /\ Live' = Live
    BY <1>6 DEF OwnStep, Signal, Live
  <2>2. \A b \in Live : StubPc' = StubPc
    <3>1. CASE OwnStep
      <4>1. CASE sig = NoSignal
        <5>1. mem[pc] \notin 1..StubLen
          BY <3>1, NoStubCell DEF OwnStep
        <5> QED
          BY <2>1, <4>1, <5>1, InStub
      <4>2. CASE sig # NoSignal
        BY <3>1, <4>2 DEF OwnStep, StubPc
      <4> QED
        BY <4>1, <4>2
    <3>2. CASE Signal
      <4>1. pc # NoSignal
        BY DEF IInv, TypeOK, Text, NoSignal
      <4> QED
        BY <3>2, <4>1 DEF Signal, StubPc
    <3> QED
      BY <1>6, <3>1, <3>2
  <2>3. Due' <=> Due
    BY <1>due, <1>duen, <2>1, <2>2
  <2> QED
    BY <1>5, <2>1, <2>3 DEF Promise!NextA
<1>7. CASE StubStep
  <2>1. /\ Free /\ wanted' = wanted /\ bps' = bps /\ run' = "running" /\ Live' = Live
        /\ sig = NoSignal /\ sig' = NoSignal /\ mem[pc] \in 1..StubLen /\ pc' = pc + 1
        /\ grants' = IF mem[pc] = 2 THEN grants + 1 ELSE grants
    BY <1>7 DEF StubStep, Live
  <2>2. Live # {}
    BY <2>1, NoStubCell DEF IInv, OnTrack, TypeOK
  <2> PICK b \in Live : TRUE
    BY <2>2
  <2>3. b.pc \in Int /\ pc \in StubAt(b.pc) /\ mem[pc] = pc - b.pc + 1
    BY <2>1, InStub
  <2>4. UserPc' = UserPc /\ UserCode' = UserCode
    BY <1>1, <1>2, <1>pc, <1>pcn, <2>1
  <2>5. StubPc = pc /\ StubPc' = pc + 1 /\ pc \in Int /\ b.pc <= pc
    BY <2>1, <2>3 DEF StubPc, StubAt, IInv, TypeOK, Text
  <2>6. (Due <=> pc < b.pc + 2) /\ (Due' <=> pc + 1 < b.pc + 2)
    BY <1>due, <1>duen, <2>1, <2>5
  <2>7. CASE mem[pc] = 2
    <3>1. pc = b.pc + 1
      BY <2>3, <2>5, <2>7
    <3>2. Due /\ ~Due'
      BY <2>3, <2>6, <3>1
    <3>3. Due' = FALSE /\ grants' = grants + 1
      BY <1>2, <2>1, <2>7, <3>2
    <3>4. run \in {"resumed", "running"}
      BY <2>1 DEF Free
    <3> QED
      BY <1>3, <2>1, <2>4, <3>2, <3>3, <3>4 DEF Promise!NextA, Promise!GrantA, Promise!Going
  <2>8. CASE mem[pc] # 2
    <3>1. pc # b.pc + 1
      BY <2>3, <2>5, <2>8
    <3>2. Due' <=> Due
      BY <2>3, <2>5, <2>6, <3>1
    <3> QED
      BY <1>5, <2>1, <2>8, <3>2 DEF Promise!NextA
  <2> QED
    BY <2>7, <2>8
<1>8. CASE AstrayStep
  BY <1>8 DEF AstrayStep
<1>9. CASE Restore
  <2> PICK b \in bps : b.loc = pc /\ pc' = b.pc
                       /\ astray' = (astray \/ ~b.live \/ sig # NoSignal)
    BY <1>9 DEF Restore
  <2>1. /\ run = "running" /\ run' = "stopped" /\ UNCHANGED <<wanted, grants>>
        /\ bps' = {c \in bps : c.loc # pc}
    BY <1>9 DEF Restore
  <2>2. b \in Live /\ sig = NoSignal
    BY DEF Live, IInv, TypeOK, Breakpoints
  <2>3. Live' = {}
    BY <2>1, <2>2 DEF Live, IInv, OnTrack
  <2>4. b.pc \in Int /\ pc = b.pc + StubLen /\ StubPc = pc
    BY <2>2 DEF IInv, TypeOK, Breakpoints, Text, StubPc
  <2>5. ~Due /\ ~Due' /\ UserPc' = UserPc
    BY <1>pc, <1>pcn, <1>due, <1>duen, <2>2, <2>3, <2>4
  <2>6. Due' = Due /\ UserCode' = UserCode
    BY <1>1, <1>2, <2>1, <2>5
  <2> QED
    BY <1>3, <2>1, <2>5, <2>6 DEF Promise!NextA, Promise!StopA, Promise!Going
<1>10. CASE Interrupt \/ Continue
  <2>1. /\ UNCHANGED <<wanted, grants>> /\ UserPc' = UserPc /\ Due' = Due
        /\ \/ run \in {"resumed", "running"} /\ run' = "stopped"
           \/ run = "stopped" /\ run' = "resumed"
    <3>1. UNCHANGED <<pc, sig, bps, astray, wanted, grants>>
      BY <1>10 DEF Interrupt, Continue
    <3>2. UserPc' = UserPc /\ Due' = Due
      BY <3>1 DEF UserPc, Due, Live, StubPc
    <3> QED
      BY <1>10, <3>1, <3>2 DEF Interrupt, Continue, Free
  <2>2. UserCode' = UserCode
    BY <1>1, <1>2, <2>1
  <2> QED
    BY <1>3, <2>1, <2>2
    DEF Promise!NextA, Promise!StopA, Promise!ContinueA, Promise!Going
<1>11. CASE \E a \in Text, n \in 1..MaxInsns, good \in 0..MaxInsns :
                Overwrite(a, n, good)
  <2> PICK a \in Text, n \in 1..MaxInsns, good \in 0..MaxInsns : Overwrite(a, n, good)
    BY <1>11
  <2>1. /\ run = "stopped" /\ UNCHANGED <<pc, run, bps, grants>> /\ sig' = sig
        /\ wanted' = IF good = n THEN Patches(wanted, a, n) ELSE wanted
    BY DEF Overwrite
  <2>2. UserPc' = UserPc /\ Due' = Due
    BY <2>1 DEF UserPc, Due, Live, StubPc
  <2>3. CASE good = n
    <3> DEFINE at == Text \cap (a .. a + n - 1)
    <3>1. UserCode' = [c \in Text |-> IF c \in at THEN Patch ELSE UserCode[c]]
      BY <1>1, <1>2, <2>1, <2>3 DEF Patches
    <3>2. at \in SUBSET Text
      OBVIOUS
    <3> HIDE DEF at
    <3>3. Promise!PatchA
      BY <1>3, <2>1, <2>2, <3>1, <3>2 DEF Promise!PatchA
    <3> QED
      BY <3>3 DEF Promise!NextA
  <2>4. CASE good # n
    <3>1. UserCode' = UserCode
      BY <1>1, <1>2, <2>1, <2>4
    <3> QED
      BY <1>3, <2>1, <2>2, <3>1 DEF Promise!varsA
  <2> QED
    BY <2>3, <2>4
<1>12. CASE Dies
  <2>1. /\ run # "dead" /\ run' = "dead" /\ wanted' = [a \in Text |-> Own]
        /\ grants' = grants
    BY <1>12 DEF Dies
  <2>2. Live' = {}
    BY <2>1 DEF IInv
  <2>3. Due' = FALSE /\ (~astray') = TRUE /\ UserCode' = [a \in Text |-> Own]
    BY <1>2, <1>duen, <2>1, <2>2
  <2> QED
    BY <1>2, <2>1, <2>3 DEF Promise!NextA, Promise!DieA, Promise!File
<1>13. CASE Starts
  <2>1. /\ run = "dead" /\ run' = "stopped" /\ UNCHANGED <<wanted, grants, bps>>
    BY <1>13 DEF Starts
  <2>2. Live = {} /\ Live' = {}
    BY <2>1 DEF IInv, Live
  <2>3. Due' = Due /\ UserCode' = UserCode
    BY <1>1, <1>2, <1>due, <1>duen, <2>1, <2>2
  <2> QED
    BY <1>2, <1>3, <2>1, <2>3 DEF Promise!NextA, Promise!StartA
<1> QED
  BY <1>4, <1>6, <1>7, <1>8, <1>9, <1>10, <1>11, <1>12, <1>13 DEF Next

\* A program to which nothing was promised is only promised something again when
\* it is gone.
LEMMA BackOnTrack == IInv /\ IInv' /\ Next /\ astray /\ ~astray' => Promise!DieA
<1> SUFFICES ASSUME IInv, IInv', Next, astray, ~astray' PROVE Promise!DieA
  OBVIOUS
<1>1. Dies
  BY DEF Next, SetPermissionCmd, OwnStep, StubStep, Signal, AstrayStep, Restore,
         Interrupt, Continue, Overwrite, Starts
<1>2. /\ run # "dead" /\ run' = "dead" /\ wanted' = [a \in Text |-> Own]
      /\ grants' = grants
  BY <1>1 DEF Dies
<1>3. Live' = {}
  BY <1>2 DEF IInv
<1>4. /\ UserCode' = wanted' /\ UserPc' \in Text /\ Due' \in BOOLEAN /\ ~Due'
  BY <1>3, ViewNext DEF View
<1>5. Due' = FALSE /\ (~astray') = TRUE /\ UserCode' = [a \in Text |-> Own]
  BY <1>2, <1>4
<1> QED
  BY <1>2, <1>4, <1>5 DEF Promise!DieA, Promise!File

\* Every step is a step of Mprotect or changes nothing the user sees.
LEMMA StepSimulates ==
    IInv /\ IInv' /\ [Next]_vars => [Promise!NextA]_(Promise!varsA)
<1> SUFFICES ASSUME IInv, IInv', [Next]_vars PROVE [Promise!NextA]_(Promise!varsA)
  OBVIOUS
<1>1. CASE Next
  BY <1>1, ForfeitStep, TrackStep, BackOnTrack DEF Promise!NextA
<1>2. CASE UNCHANGED vars
  <2>1. Live' = Live /\ StubPc' = StubPc /\ UNCHANGED <<mem, pc, sig, run, grants, astray>>
    BY <1>2 DEF vars, Live, StubPc
  <2> QED
    BY <2>1 DEF Promise!varsA, UserPc, UserCode, Due
<1> QED
  BY <1>1, <1>2

\* set-permission implements Mprotect: only the permission changes, once, for a
\* program that is not astray.
THEOREM ImplementsMprotect == AssembleSpec => KeepsPromise
<1>1. Init => Promise!InitA
  <2> SUFFICES ASSUME Init PROVE Promise!InitA
    OBVIOUS
  <2>1. IInv /\ ~astray /\ Live = {}
    BY InitIInv DEF Init, Live
  <2>2. UserCode = wanted /\ UserPc \in Text /\ Due \in BOOLEAN /\ ~Due
    BY <2>1, ViewHolds DEF View
  <2>3. Due = FALSE /\ (~astray) = TRUE
    BY <2>1, <2>2
  <2> QED
    BY <2>2, <2>3 DEF Init, Promise!InitA, Promise!File
<1>2. IInv /\ IInv' /\ [Next]_vars => [Promise!NextA]_(Promise!varsA)
  BY StepSimulates
<1> QED
  BY <1>1, <1>2, Invariance, AssembleImplements, PTL
  DEF Spec, KeepsPromise, Promise!SpecA
=============================================================================
