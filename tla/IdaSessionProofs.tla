-------------------------- MODULE IdaSessionProofs --------------------------
(***************************************************************************)
(* Theorems about IdaSession for every binary layout, address set and      *)
(* palette: type correctness, the registration of the event hooks, the     *)
(* ledger of saved colours, and the cursor that leaves no trail.           *)
(***************************************************************************)
EXTENDS IdaSession, TLAPS

\* An address of a run names a line number IDA may be given.
LEMMA EaInEas == \A a \in Addr, b \in Bases : EaOf(a, b) \in Eas
  BY DEF Eas

\* The first step of a synchronisation is a well-formed command.
LEMMA FirstStepIsCommand ==
    ASSUME TypeOK, NEW a \in Addr, NEW b \in Bases
    PROVE  FirstStep(a, b) \in Commands
<1>1. lastHl >= 0 => lastHl \in Addr
  BY DEF TypeOK, NoAddr
<1>2. QED
  BY <1>1, EaInEas DEF FirstStep, Commands, Op

\* A hook leaves a well-formed command and a synchronised address behind.
LEMMA HookSyncIsTyped ==
    ASSUME TypeOK, NEW a \in Addr, NEW b \in Bases, NEW h, HookSync(h, a, b)
    PROVE  cmd' \in Commands /\ syncPc' \in Addr \cup {NoAddr}
  BY FirstStepIsCommand DEF HookSync, TypeOK

\* Starting the body of a command keeps the session variables in range.
LEMMA StartBodyIsTyped ==
    ASSUME TypeOK, NEW c, StartBody(c)
    PROVE  /\ cmd' = c
           /\ sock' \in {"none", "live", "dead"}
           /\ stopHooks' \in Nat /\ contHooks' \in Nat
  BY DEF StartBody, Disconnected, TypeOK, sessVars

\* Returning from a nested command leaves a well-formed command behind.
LEMMA ReturnIsTyped ==
    ASSUME TypeOK, IdaAssumption, NEW n \in {"jump", "save", "done"}, Return(n)
    PROVE  cmd' \in Commands /\ syncPc' \in Addr \cup {NoAddr}
           /\ lastHl' \in Addr \cup {NoAddr}
<1>1. CASE syncPc = NoAddr \/ n = "done"
  BY <1>1 DEF Return, TypeOK, Commands
<1>2. CASE ~(syncPc = NoAddr \/ n = "done")
  <2>1. EaOf(syncPc, base) \in Eas
    BY <1>2, EaInEas DEF TypeOK
  <2>2. Green \in Colors
    BY DEF IdaAssumption
  <2>3. QED
    BY <1>2, <2>1, <2>2 DEF Return, TypeOK, Commands, Op
<1>3. QED
  BY <1>1, <1>2

\* A command in progress names a line; the ones that carry a colour carry one
\* of the palette.
LEMMA StepIsTyped ==
    ASSUME TypeOK, cmd.op \in {"del", "jump", "restore", "save", "paint"}
    PROVE  /\ cmd.ea \in Eas
           /\ cmd.op \in {"restore", "save", "paint"} => cmd.color \in Colors
           /\ cmd = Op(cmd.op, cmd.ea, cmd.color)
  BY DEF TypeOK, Commands, Idle, Op

-----------------------------------------------------------------------------
\* Every variable stays in its range: in particular the bookkeeping of a
\* synchronisation never leaves a half-built command behind.
LEMMA TypeStep ==
    ASSUME IdaAssumption, TypeOK, [Next]_vars
    PROVE  TypeOK'
<1> USE IdaAssumption, TypeOK
<1>1. CASE DelPop
  <2>1. cmd.op = "del" /\ cmd.ea \in Eas
    BY <1>1, StepIsTyped DEF DelPop
  <2>2. CASE oldColors[cmd.ea] = NoColor
    BY <1>1, <2>2, ReturnIsTyped DEF DelPop, TypeOK, sessVars, gdbVars
  <2>3. CASE oldColors[cmd.ea] # NoColor
    <3>1. cmd' \in Commands
      BY <1>1, <2>1, <2>3 DEF DelPop, TypeOK, Commands, Op
    <3>2. QED
      BY <1>1, <2>3, <3>1 DEF DelPop, TypeOK, sessVars, gdbVars
  <2>4. QED
    BY <2>2, <2>3
<1>2. CASE DelRestore
  <2>1. cmd.ea \in Eas /\ cmd.color \in Colors
    BY <1>2, StepIsTyped DEF DelRestore
  <2>2. color' \in [Lines -> Colors] /\ lost' \subseteq Eas
    BY <1>2, <2>1 DEF DelRestore, TypeOK
  <2>3. QED
    BY <1>2, <2>2, ReturnIsTyped DEF DelRestore, TypeOK, sessVars, gdbVars
<1>3. CASE JumpTo
  BY <1>3, ReturnIsTyped DEF JumpTo, TypeOK, sessVars, gdbVars, history
<1>4. CASE AddSave
  <2>1. cmd.ea \in Eas /\ cmd.color \in Colors
    BY <1>4, StepIsTyped DEF AddSave
  <2>2. CASE sock = "live"
    <3>1. cmd' \in Commands
      BY <1>4, <2>1, <2>2 DEF AddSave, Commands, Op
    <3>2. oldColors' \in [Eas -> Colors \cup {NoColor}]
      BY <1>4, <2>2 DEF AddSave, ColorOf, TypeOK, IdaAssumption
    <3>3. QED
      BY <1>4, <2>1, <2>2, <3>1, <3>2
      DEF AddSave, TypeOK, sessVars, gdbVars
  <2>3. CASE sock # "live"
    BY <1>4, <2>3, ReturnIsTyped DEF AddSave, TypeOK, sessVars, gdbVars
  <2>4. QED
    BY <2>2, <2>3
<1>5. CASE AddPaint
  <2>1. cmd.ea \in Eas /\ cmd.color \in Colors
    BY <1>5, StepIsTyped DEF AddPaint
  <2>2. color' \in [Lines -> Colors]
    BY <1>5, <2>1 DEF AddPaint, TypeOK
  <2>3. QED
    BY <1>5, <2>2, ReturnIsTyped
    DEF AddPaint, TypeOK, sessVars, gdbVars, history
<1>6. CASE Refused
  BY <1>6 DEF Refused, Unhook, TypeOK, gdbVars, history
<1>7. CASE SetSyncCursor
  BY <1>7 DEF SetSyncCursor, TypeOK, sessVars, gdbVars, history
<1>20. CASE PlainCommand
  BY <1>20, StartBodyIsTyped
  DEF PlainCommand, TypeOK, Commands, gdbVars, history
<1>8. ASSUME NEW a \in Addr, HighlightDel(a)
      PROVE  TypeOK'
  <2>1. Op("del", EaOf(a, base), NoColor) \in Commands
    BY EaInEas DEF TypeOK, Commands, Op
  <2>2. QED
    BY <1>8, <2>1, StartBodyIsTyped DEF HighlightDel, TypeOK, gdbVars, history
<1>9. ASSUME NEW a \in Addr, NEW c \in UserColors, HighlightAdd(a, c)
      PROVE  TypeOK'
  <2>1. Op("save", EaOf(a, base), c) \in Commands
    BY EaInEas DEF TypeOK, Commands, Op, IdaAssumption
  <2>2. QED
    BY <1>9, <2>1, StartBodyIsTyped DEF HighlightAdd, TypeOK, gdbVars, history
<1>10. ASSUME NEW arg, RootCommand(arg)
       PROVE  TypeOK'
  <2>1. FirstStep(pc, base) \in Commands /\ Idle \in Commands
    BY FirstStepIsCommand DEF TypeOK, Commands
  <2>2. cmd' \in Commands /\ syncPc' \in Addr \cup {NoAddr}
        /\ sock' \in {"none", "live", "dead"}
        /\ stopHooks' \in Nat /\ contHooks' \in Nat
    BY <1>10, <2>1, StartBodyIsTyped DEF RootCommand, TypeOK
  <2>3. QED
    BY <1>10, <2>2 DEF RootCommand, TypeOK, gdbVars, history
<1>11. ASSUME NEW b \in Bases, NEW a \in Addr, Start(b, a)
       PROVE  TypeOK'
  <2>1. lastHl # NoAddr => EaOf(lastHl, base) \in Eas
    BY EaInEas DEF TypeOK
  <2>2. cmd' \in Commands /\ syncPc' \in Addr \cup {NoAddr}
    BY <1>11, HookSyncIsTyped DEF Start
  <2>3. QED
    BY <1>11, <2>1, <2>2 DEF Start, TypeOK, sessVars
<1>12. ASSUME NEW a \in Addr, Stop(a)
       PROVE  TypeOK'
  <2>1. cmd' \in Commands /\ syncPc' \in Addr \cup {NoAddr}
    BY <1>12, HookSyncIsTyped DEF Stop, TypeOK
  <2>2. QED
    BY <1>12, <2>1 DEF Stop, TypeOK, sessVars, history
<1>13. CASE Resume
  <2>1. cmd' \in Commands /\ syncPc' \in Addr \cup {NoAddr}
    BY <1>13, HookSyncIsTyped DEF Resume, TypeOK
  <2>2. QED
    BY <1>13, <2>1 DEF Resume, TypeOK, sessVars, history
<1>14. CASE Exit
  BY <1>14 DEF Exit, TypeOK, sessVars, history
<1>15. CASE IdaQuit
  BY <1>15 DEF IdaQuit, TypeOK, IdaAssumption, gdbVars, history
<1>16. CASE IdaStart
  BY <1>16 DEF IdaStart, TypeOK, sessVars, gdbVars, history
<1>17. CASE LinkDrop
  BY <1>17 DEF LinkDrop, TypeOK, gdbVars, history
<1>18. CASE UNCHANGED vars
  BY <1>18 DEF vars, TypeOK
<1>19. QED
  BY <1>1, <1>2, <1>3, <1>4, <1>5, <1>6, <1>7, <1>8, <1>9, <1>10, <1>11,
     <1>12, <1>13, <1>14, <1>15, <1>16, <1>17, <1>18, <1>20
  DEF Next, Body, User, Inferior, Ida

\* Every variable stays in its range: in particular a synchronisation never
\* leaves a half-built command or a foreign address behind.
THEOREM TypeCorrect == Spec => []TypeOK
<1>1. Init => TypeOK
  BY IdaAssumption DEF Init, TypeOK, Commands, IdaAssumption
<1>2. TypeOK /\ [Next]_vars => TypeOK'
  BY IdaAssumption, TypeStep
<1>3. QED
  BY <1>1, <1>2, PTL DEF Spec

-----------------------------------------------------------------------------
(* Hooks.                                                                  *)

\* ida_rpyc_resync is connected once to either event exactly while there is a
\* session: sock never goes back to None, so no command connects it again, and
\* a refused connection finds nothing to disconnect.
THEOREM HooksMatch == Spec => []HooksMatchSession
<1>1. Init => HooksMatchSession
  BY DEF Init, HooksMatchSession
<1>2. TypeOK /\ HooksMatchSession /\ [Next]_vars => HooksMatchSession'
  <2> SUFFICES ASSUME TypeOK, HooksMatchSession, [Next]_vars
               PROVE  HooksMatchSession'
    OBVIOUS
  <2>1. CASE UNCHANGED sessVars
    BY <2>1 DEF HooksMatchSession, sessVars
  <2>2. ASSUME NEW c, StartBody(c)
        PROVE  HooksMatchSession'
    BY <2>2 DEF StartBody, Disconnected, HooksMatchSession, sessVars, TypeOK
  <2>3. CASE Refused
    <3>1. sock = "none" /\ sock' = "none"
      BY <2>3 DEF Refused, Disconnected
    <3>2. stopHooks = 0 /\ contHooks = 0
      BY <3>1 DEF HooksMatchSession
    <3>3. stopHooks' = 0 /\ contHooks' = 0
      BY <2>3, <3>2 DEF Refused, Unhook
    <3>4. QED
      BY <3>1, <3>3 DEF HooksMatchSession
  <2>4. CASE User
    BY <2>4, <2>1, <2>2, <2>3
    DEF User, SetSyncCursor, PlainCommand, HighlightDel, HighlightAdd, RootCommand
  <2>5. CASE Body
    BY <2>5, <2>1
    DEF Body, DelPop, DelRestore, JumpTo, AddSave, AddPaint
  <2>6. CASE Inferior
    BY <2>6, <2>1 DEF Inferior, Start, Stop, Resume, Exit
  <2>7. CASE IdaStart
    BY <2>7, <2>1 DEF IdaStart
  <2>8. CASE IdaQuit \/ LinkDrop
    BY <2>8 DEF IdaQuit, LinkDrop, HooksMatchSession
  <2>9. CASE UNCHANGED vars
    BY <2>9, <2>1 DEF vars, sessVars
  <2>10. QED
    BY <2>4, <2>5, <2>6, <2>7, <2>8, <2>9 DEF Next, Ida
<1>3. QED
  BY <1>1, <1>2, TypeCorrect, PTL DEF Spec

-----------------------------------------------------------------------------
(* The ledger of saved colours.                                            *)

\* LedgerExact is not inductive by itself: `highlight add` paints in a step of
\* its own, and only a line whose colour is saved may be painted ...
PaintsSavedLine == cmd.op = "paint" => oldColors[cmd.ea] # NoColor

\* ... and `highlight del` restores in a step of its own, with the colour the
\* line had.
RestoresOwnColor ==
    cmd.op = "restore" /\ cmd.ea \in Lines /\ cmd.ea \notin overlaid \cup lost
        => cmd.color = Orig[cmd.ea]

LedgerInv == LedgerExact /\ PaintsSavedLine /\ RestoresOwnColor

\* A step that leaves the colours, the saved colours and the history alone
\* keeps the ledger, if it starts no painting and restores no line.
LEMMA LedgerFrame ==
    ASSUME LedgerInv, UNCHANGED <<oldColors, color, overlaid, lost>>,
           cmd.op # "restore" \/ cmd' = cmd,
           cmd'.op \notin {"paint", "restore"} \/ cmd' = cmd
    PROVE  LedgerInv'
  BY DEF LedgerInv, LedgerExact, PaintsSavedLine, RestoresOwnColor, Op

\* The commands that start or go on with a synchronisation are neither the
\* painting of a line nor its restoration.
LEMMA NextCommandIsPlain ==
    /\ \A n \in {"jump", "save", "done"} :
          Return(n) => cmd'.op \in {"idle", "jump", "save"}
    /\ \A a, b : FirstStep(a, b).op \in {"del", "jump"}
  BY DEF Return, FirstStep, Op, Idle

LEMMA LedgerStep ==
    ASSUME IdaAssumption, TypeOK, LedgerInv, [Next]_vars
    PROVE  LedgerInv'
<1> USE TypeOK, LedgerInv
<1>1. CASE DelPop
  <2>1. cmd.op = "del" /\ cmd.ea \in Eas
    BY <1>1, StepIsTyped DEF DelPop
  <2>2. CASE oldColors[cmd.ea] = NoColor
    BY <1>1, <2>1, <2>2, LedgerFrame, NextCommandIsPlain DEF DelPop
  <2>3. CASE oldColors[cmd.ea] # NoColor
    <3>1. /\ cmd' = Op("restore", cmd.ea, oldColors[cmd.ea])
          /\ oldColors' = [oldColors EXCEPT ![cmd.ea] = NoColor]
          /\ UNCHANGED <<color, overlaid, lost>>
      BY <1>1, <2>3 DEF DelPop
    <3>2. LedgerExact'
      BY <2>1, <3>1 DEF LedgerInv, LedgerExact, TypeOK, Op
    <3>3. PaintsSavedLine'
      BY <3>1 DEF PaintsSavedLine, Op
    <3>4. RestoresOwnColor'
      BY <2>1, <2>3, <3>1 DEF RestoresOwnColor, LedgerInv, LedgerExact, Op
    <3>5. QED
      BY <3>2, <3>3, <3>4 DEF LedgerInv
  <2>4. QED
    BY <2>2, <2>3
<1>2. CASE DelRestore
  <2>1. /\ cmd.op = "restore" /\ cmd.ea \in Eas
        /\ cmd = Op("restore", cmd.ea, cmd.color)
    BY <1>2, StepIsTyped DEF DelRestore
  <2>2. PaintsSavedLine' /\ RestoresOwnColor'
    BY <1>2, NextCommandIsPlain
    DEF DelRestore, PaintsSavedLine, RestoresOwnColor
  <2>3. LedgerExact'
    <3> SUFFICES ASSUME NEW ea \in Lines \cap Eas,
                        ea \notin overlaid' \cup lost',
                        oldColors'[ea] # Orig[ea]
                 PROVE  oldColors'[ea] = NoColor /\ color'[ea] = Orig[ea]
      BY DEF LedgerExact
    <3>1. /\ oldColors' = oldColors /\ overlaid' = overlaid
          /\ lost \subseteq lost'
      BY <1>2 DEF DelRestore
    <3>2. /\ oldColors[ea] = NoColor
          /\ color[ea] = Orig[ea] \/ cmd = Op("restore", ea, Orig[ea])
      BY <3>1 DEF LedgerInv, LedgerExact
    <3>3. CASE ea = cmd.ea
      <4>1. sock = "live" /\ color' = [color EXCEPT ![cmd.ea] = cmd.color]
        BY <1>2, <3>3 DEF DelRestore
      <4>2. cmd.color = Orig[ea]
        BY <2>1, <3>1, <3>3 DEF LedgerInv, RestoresOwnColor
      <4>3. color'[ea] = Orig[ea]
        BY <3>3, <4>1, <4>2 DEF TypeOK
      <4>4. QED
        BY <3>1, <3>2, <4>3
    <3>4. CASE ea # cmd.ea
      BY <1>2, <2>1, <3>1, <3>2, <3>4 DEF DelRestore, TypeOK, Op
    <3>5. QED
      BY <3>3, <3>4
  <2>4. QED
    BY <2>2, <2>3 DEF LedgerInv
<1>3. CASE JumpTo
  BY <1>3, LedgerFrame, NextCommandIsPlain DEF JumpTo, history
<1>4. CASE AddSave
  <2>1. cmd.op = "save" /\ cmd.ea \in Eas
    BY <1>4, StepIsTyped DEF AddSave
  <2>2. CASE sock = "live"
    <3>1. /\ cmd' = Op("paint", cmd.ea, cmd.color)
          /\ oldColors' = [oldColors EXCEPT ![cmd.ea] =
                             IF cmd.ea \in Lines THEN color[cmd.ea] ELSE Blank]
          /\ overlaid' = IF oldColors[cmd.ea] = NoColor
                         THEN overlaid ELSE overlaid \cup {cmd.ea}
          /\ UNCHANGED <<color, lost>>
      BY <1>4, <2>2 DEF AddSave, ColorOf
    <3>2. LedgerExact'
      BY <2>1, <3>1 DEF LedgerInv, LedgerExact, TypeOK, Op
    <3>3. oldColors'[cmd.ea] \in Colors
      BY <2>1, <3>1, IdaAssumption DEF TypeOK, IdaAssumption
    <3>4. PaintsSavedLine' /\ RestoresOwnColor'
      BY <3>1, <3>3, IdaAssumption
      DEF PaintsSavedLine, RestoresOwnColor, Op, IdaAssumption
    <3>5. QED
      BY <3>2, <3>4 DEF LedgerInv
  <2>3. CASE sock # "live"
    BY <1>4, <2>1, <2>3, LedgerFrame, NextCommandIsPlain DEF AddSave
  <2>4. QED
    BY <2>2, <2>3
<1>5. CASE AddPaint
  <2>1. cmd.op = "paint" /\ cmd.ea \in Eas /\ oldColors[cmd.ea] # NoColor
    BY <1>5, StepIsTyped DEF AddPaint, LedgerInv, PaintsSavedLine
  <2>2. /\ UNCHANGED <<oldColors, overlaid, lost>>
        /\ \A ea \in Lines : ea # cmd.ea => color'[ea] = color[ea]
    BY <1>5 DEF AddPaint, history, TypeOK
  <2>3. LedgerExact'
    BY <2>1, <2>2 DEF LedgerInv, LedgerExact, Op
  <2>4. PaintsSavedLine' /\ RestoresOwnColor'
    BY <1>5, NextCommandIsPlain
    DEF AddPaint, PaintsSavedLine, RestoresOwnColor
  <2>5. QED
    BY <2>3, <2>4 DEF LedgerInv
<1>6. CASE Refused \/ SetSyncCursor \/ PlainCommand
  BY <1>6, LedgerFrame
  DEF Refused, SetSyncCursor, PlainCommand, StartBody, AtPrompt, Idle, history
<1>7. ASSUME NEW a \in Addr, HighlightDel(a)
      PROVE  LedgerInv'
  BY <1>7, LedgerFrame DEF HighlightDel, AtPrompt, StartBody, Op, Idle, history
<1>8. ASSUME NEW a \in Addr, NEW c \in UserColors, HighlightAdd(a, c)
      PROVE  LedgerInv'
  BY <1>8, LedgerFrame DEF HighlightAdd, AtPrompt, StartBody, Op, Idle, history
<1>9. ASSUME NEW arg, RootCommand(arg)
      PROVE  LedgerInv'
  <2>1. cmd' = Idle \/ cmd' = FirstStep(pc, base)
    BY <1>9 DEF RootCommand, StartBody
  <2>2. QED
    BY <1>9, <2>1, LedgerFrame, NextCommandIsPlain
    DEF RootCommand, AtPrompt, Idle, history
<1>10. ASSUME NEW h, NEW a, NEW b, HookSync(h, a, b), cmd = Idle,
              UNCHANGED <<oldColors, color, overlaid, lost>>
       PROVE  LedgerInv'
  BY <1>10, LedgerFrame, NextCommandIsPlain DEF HookSync, Idle
<1>11. ASSUME NEW b \in Bases, NEW a \in Addr, Start(b, a)
       PROVE  LedgerInv'
  BY <1>10, <1>11 DEF Start
<1>12. ASSUME NEW a \in Addr, Stop(a)
       PROVE  LedgerInv'
  BY <1>10, <1>12 DEF Stop, history
<1>13. CASE Resume
  BY <1>10, <1>13, LedgerFrame DEF Resume, AtPrompt, history
<1>14. CASE Exit \/ IdaStart \/ LinkDrop
  BY <1>14, LedgerFrame DEF Exit, IdaStart, LinkDrop, history
<1>15. CASE IdaQuit
  <2>1. /\ UNCHANGED <<oldColors, overlaid, lost, cmd>>
        /\ color' = color \/ color' = Orig
    BY <1>15 DEF IdaQuit, history
  <2>2. QED
    BY <2>1 DEF LedgerInv, LedgerExact, PaintsSavedLine, RestoresOwnColor
<1>16. CASE UNCHANGED vars
  BY <1>16, LedgerFrame DEF vars
<1>17. QED
  BY <1>1, <1>2, <1>3, <1>4, <1>5, <1>6, <1>7, <1>8, <1>9, <1>11, <1>12,
     <1>13, <1>14, <1>15, <1>16
  DEF Next, Body, User, Inferior, Ida

\* A line whose own colour cannot be restored was highlighted twice over, or
\* lost its restoration to a dead connection: every other line shows its colour
\* or has it saved, whatever IDA, the program and the user do.
THEOREM LedgerCorrect == Spec => []LedgerExact
<1>1. Init => LedgerInv
  BY DEF Init, LedgerInv, LedgerExact, PaintsSavedLine, RestoresOwnColor,
         Idle
<1>2. TypeOK /\ LedgerInv /\ [Next]_vars => LedgerInv'
  BY IdaAssumption, LedgerStep
<1>3. LedgerInv => LedgerExact
  BY DEF LedgerInv
<1>4. QED
  BY <1>1, <1>2, <1>3, TypeCorrect, PTL DEF Spec

-----------------------------------------------------------------------------
(* The cursor.                                                             *)

\* The saved lines that are neither the user's nor left behind by a rerun.
CursorLines == {ea \in Eas : oldColors[ea] # NoColor} \ (manual \cup stray)

\* A synchronisation deletes the line of the last stop first; from there on the
\* only cursor line is that of the stop it is at.
SyncInOrder ==
    syncPc # NoAddr =>
        /\ cmd.op = "del" => lastHl # NoAddr /\ cmd.ea = EaOf(lastHl, base)
        /\ cmd.op = "save" => cmd.ea = EaOf(syncPc, base)
        /\ cmd.op # "del" => CursorLines \subseteq {EaOf(syncPc, base)}

\* Outside of one, only the line of the last stop is one.
CursorAtRest ==
    CursorLines \subseteq
        {EaOf(a, base) : a \in {b \in {lastHl, syncPc} : b # NoAddr}}

TrailInv == SyncInOrder /\ CursorAtRest /\ (cmd = Idle => syncPc = NoAddr)

\* A step that changes none of what is saved and starts or ends nothing.
LEMMA TrailFrame ==
    ASSUME TrailInv,
           UNCHANGED <<oldColors, manual, stray, lastHl, base, cmd, syncPc>>
    PROVE  TrailInv'
  BY DEF TrailInv, SyncInOrder, CursorAtRest, CursorLines

\* A synchronisation that starts, in a hook or by a command.
LEMMA TrailSync ==
    ASSUME IdaAssumption, TypeOK, TrailInv, cmd = Idle, NEW a \in Addr,
           UNCHANGED <<oldColors, manual, stray, lastHl, base>>,
           cmd' = FirstStep(a, base), syncPc' = a
    PROVE  TrailInv'
<1>1. a # NoAddr /\ syncPc = NoAddr
  BY DEF IdaAssumption, NoAddr, TrailInv
<1>2. CursorLines' = CursorLines
  BY DEF CursorLines
<1>3. lastHl >= 0 <=> lastHl # NoAddr
  BY DEF TypeOK, IdaAssumption, NoAddr
<1>4. CASE lastHl # NoAddr
  BY <1>1, <1>2, <1>3, <1>4
  DEF FirstStep, Op, Idle, TrailInv, SyncInOrder, CursorAtRest
<1>5. CASE lastHl = NoAddr
  BY <1>1, <1>2, <1>3, <1>5
  DEF FirstStep, Op, Idle, TrailInv, SyncInOrder, CursorAtRest
<1> QED
  BY <1>4, <1>5

\* A command of the user that starts, and is no synchronisation.
LEMMA TrailCommand ==
    ASSUME TrailInv, cmd = Idle, syncPc = NoAddr,
           UNCHANGED <<oldColors, manual, stray, lastHl, base, syncPc>>
    PROVE  TrailInv'
  BY DEF TrailInv, SyncInOrder, CursorAtRest, CursorLines

\* The return from a nested command, once the last stop's line is deleted.
LEMMA TrailReturn ==
    ASSUME TypeOK, TrailInv, cmd.op # "idle",
           NEW n \in {"jump", "save", "done"}, Return(n), UNCHANGED base,
           CursorLines' \subseteq CursorLines,
           syncPc # NoAddr => CursorLines' \subseteq {EaOf(syncPc, base)}
    PROVE  TrailInv'
<1>1. CASE syncPc = NoAddr
  BY <1>1 DEF Return, TrailInv, SyncInOrder, CursorAtRest
<1>2. CASE syncPc # NoAddr /\ n = "done"
  BY <1>2 DEF Return, TrailInv, SyncInOrder, CursorAtRest
<1>3. CASE syncPc # NoAddr /\ n # "done"
  <2>1. /\ cmd' = Op(n, EaOf(syncPc, base), IF n = "save" THEN Green ELSE NoColor)
        /\ UNCHANGED <<syncPc, lastHl>>
    BY <1>3 DEF Return
  <2>2. SyncInOrder' /\ cmd' # Idle
    BY <1>3, <2>1 DEF SyncInOrder, Op, Idle
  <2>3. CursorAtRest'
    BY <1>3, <2>1 DEF CursorAtRest
  <2> QED
    BY <2>2, <2>3 DEF TrailInv
<1> QED
  BY <1>1, <1>2, <1>3

LEMMA TrailStep ==
    ASSUME IdaAssumption, TypeOK, TrailInv, [Next]_vars
    PROVE  TrailInv'
<1> USE IdaAssumption, TypeOK, TrailInv
<1>1. CASE DelPop
  <2>1. cmd.op = "del" /\ cmd.ea \in Eas /\ UNCHANGED base
    BY <1>1, StepIsTyped DEF DelPop, gdbVars
  <2>2. CursorLines' \subseteq CursorLines \ {cmd.ea}
    BY <1>1, <2>1 DEF DelPop, CursorLines, TypeOK
  <2>3. syncPc # NoAddr => CursorLines' \subseteq {EaOf(syncPc, base)}
    BY <2>1, <2>2 DEF TrailInv, SyncInOrder, CursorAtRest
  <2>4. CASE oldColors[cmd.ea] = NoColor
    BY <1>1, <2>1, <2>2, <2>3, <2>4, TrailReturn DEF DelPop
  <2>5. CASE oldColors[cmd.ea] # NoColor
    <3>1. cmd' = Op("restore", cmd.ea, oldColors[cmd.ea])
          /\ UNCHANGED <<syncPc, lastHl, base>>
      BY <1>1, <2>1, <2>5 DEF DelPop
    <3> QED
      BY <2>2, <2>3, <3>1
      DEF TrailInv, SyncInOrder, CursorAtRest, Op, Idle
  <2> QED
    BY <2>4, <2>5
<1>2. CASE DelRestore \/ JumpTo \/ AddPaint
  <2>1. /\ cmd.op \in {"restore", "jump", "paint"}
        /\ UNCHANGED <<base, oldColors, manual, stray>>
        /\ Return("jump") \/ Return("save") \/ Return("done")
    BY <1>2 DEF DelRestore, JumpTo, AddPaint, gdbVars, history
  <2>2. CursorLines' = CursorLines
    BY <2>1 DEF CursorLines
  <2>3. syncPc # NoAddr => CursorLines' \subseteq {EaOf(syncPc, base)}
    BY <2>1, <2>2 DEF TrailInv, SyncInOrder
  <2> QED
    BY <2>1, <2>2, <2>3, TrailReturn
<1>3. CASE AddSave
  <2>1. cmd.op = "save" /\ cmd.ea \in Eas /\ UNCHANGED <<base, stray>>
    BY <1>3, StepIsTyped DEF AddSave, gdbVars
  <2>2. CASE sock = "live"
    <3>1. /\ cmd' = Op("paint", cmd.ea, cmd.color)
          /\ UNCHANGED <<syncPc, lastHl, base>>
          /\ oldColors' = [oldColors EXCEPT ![cmd.ea] = ColorOf(cmd.ea)]
          /\ manual' = IF syncPc = NoAddr THEN manual \cup {cmd.ea} ELSE manual
      BY <1>3, <2>1, <2>2 DEF AddSave
    <3>2. CursorLines' \subseteq
              CursorLines \cup (IF syncPc = NoAddr THEN {} ELSE {cmd.ea})
      BY <2>1, <3>1 DEF CursorLines, TypeOK
    <3>3. syncPc # NoAddr => CursorLines' \subseteq {EaOf(syncPc, base)}
      BY <2>1, <3>2 DEF TrailInv, SyncInOrder
    <3>4. SyncInOrder' /\ cmd' # Idle
      BY <3>1, <3>3 DEF SyncInOrder, Op, Idle
    <3>5. CursorAtRest'
      BY <3>1, <3>2, <3>3 DEF TrailInv, CursorAtRest
    <3> QED
      BY <3>4, <3>5 DEF TrailInv
  <2>3. CASE sock # "live"
    <3>1. Return("done") /\ UNCHANGED <<oldColors, manual>>
      BY <1>3, <2>3 DEF AddSave
    <3>2. CursorLines' = CursorLines
      BY <2>1, <3>1 DEF CursorLines
    <3>3. syncPc # NoAddr => CursorLines' \subseteq {EaOf(syncPc, base)}
      BY <2>1, <3>2 DEF TrailInv, SyncInOrder
    <3> QED
      BY <2>1, <3>1, <3>2, <3>3, TrailReturn
  <2> QED
    BY <2>2, <2>3
<1>4. CASE \/ Refused \/ SetSyncCursor \/ Exit \/ Ida \/ UNCHANGED vars
  BY <1>4, TrailFrame
  DEF Refused, SetSyncCursor, Exit, Ida, IdaQuit, IdaStart, LinkDrop,
      gdbVars, history, vars
<1>5. CASE \/ PlainCommand
           \/ \E a \in Addr : HighlightDel(a)
           \/ \E a \in Addr, c \in UserColors : HighlightAdd(a, c)
  BY <1>5, TrailCommand
  DEF PlainCommand, HighlightDel, HighlightAdd, AtPrompt, gdbVars, history
<1>6. ASSUME NEW arg, RootCommand(arg)
      PROVE  TrailInv'
  <2>1. cmd = Idle /\ syncPc = NoAddr
        /\ UNCHANGED <<oldColors, manual, stray, lastHl, base>>
    BY <1>6 DEF RootCommand, AtPrompt, gdbVars, history
  <2>2. \/ cmd' = FirstStep(pc, base) /\ syncPc' = pc
        \/ UNCHANGED syncPc
    BY <1>6 DEF RootCommand, StartBody
  <2>3. pc \in Addr
    BY DEF TypeOK
  <2> QED
    BY <2>1, <2>2, <2>3, TrailSync, TrailCommand
<1>7. ASSUME NEW a \in Addr, Stop(a)
      PROVE  TrailInv'
  <2>1. cmd = Idle /\ UNCHANGED <<oldColors, manual, stray, lastHl, base>>
    BY <1>7 DEF Stop, history
  <2>2. (cmd' = FirstStep(a, base) /\ syncPc' = a) \/ UNCHANGED <<cmd, syncPc>>
    BY <1>7 DEF Stop, HookSync
  <2> QED
    BY <2>1, <2>2, TrailSync, TrailFrame
<1>8. CASE Resume
  <2>1. cmd = Idle /\ UNCHANGED <<oldColors, manual, stray, lastHl, base>>
    BY <1>8 DEF Resume, AtPrompt, history
  <2>2. (cmd' = FirstStep(pc, base) /\ syncPc' = pc) \/ UNCHANGED <<cmd, syncPc>>
    BY <1>8 DEF Resume, HookSync
  <2>3. pc \in Addr
    BY DEF TypeOK
  <2> QED
    BY <2>1, <2>2, <2>3, TrailSync, TrailFrame
<1>9. ASSUME NEW b \in Bases, NEW a \in Addr, Start(b, a)
      PROVE  TrailInv'
  <2>1. /\ cmd = Idle /\ syncPc = NoAddr /\ base' = b
        /\ UNCHANGED <<oldColors, manual, lastHl>>
        /\ stray' = IF b # base /\ lastHl # NoAddr
                    THEN stray \cup {EaOf(lastHl, base)} ELSE stray
    BY <1>9 DEF Start, TrailInv
  <2>2. (cmd' = FirstStep(a, b) /\ syncPc' = a) \/ UNCHANGED <<cmd, syncPc>>
    BY <1>9 DEF Start, HookSync
  <2>3. CursorLines' \subseteq IF lastHl = NoAddr THEN {} ELSE {EaOf(lastHl, b)}
    BY <2>1 DEF CursorLines, TrailInv, CursorAtRest
  <2>4. CASE UNCHANGED <<cmd, syncPc>>
    BY <2>1, <2>3, <2>4 DEF TrailInv, SyncInOrder, CursorAtRest
  <2>5. CASE cmd' = FirstStep(a, b) /\ syncPc' = a
    <3>1. CASE lastHl = NoAddr
      <4>1. cmd' = Op("jump", EaOf(a, b), NoColor) /\ CursorLines' = {}
        BY <2>3, <2>5, <3>1 DEF FirstStep, NoAddr
      <4> QED
        BY <2>1, <2>5, <4>1 DEF TrailInv, SyncInOrder, CursorAtRest, Op, Idle
    <3>2. CASE lastHl # NoAddr
      <4>1. cmd' = Op("del", EaOf(lastHl, b), NoColor)
        BY <2>5, <3>2 DEF FirstStep, TypeOK, IdaAssumption
      <4> QED
        BY <2>1, <2>3, <2>5, <3>2, <4>1
        DEF TrailInv, SyncInOrder, CursorAtRest, Op, Idle
    <3> QED
      BY <3>1, <3>2
  <2> QED
    BY <2>2, <2>4, <2>5
<1> QED
  BY <1>1, <1>2, <1>3, <1>4, <1>5, <1>6, <1>7, <1>8, <1>9
  DEF Next, Body, User, Inferior

\* Following $pc leaves no trail: however the program runs, whatever is typed
\* and whenever IDA goes away, a line stays highlighted only if it is the user's,
\* the cursor's, or of a run at another address.
THEOREM NoTrail == Spec => []CursorLeavesNoTrail
<1>1. Init => TrailInv
  BY DEF Init, TrailInv, SyncInOrder, CursorAtRest, CursorLines
<1>2. TypeOK /\ TrailInv /\ [Next]_vars => TrailInv'
  BY IdaAssumption, TrailStep
<1>3. TrailInv => CursorLeavesNoTrail
  BY DEF TrailInv, CursorAtRest, CursorLines, CursorLeavesNoTrail
<1>4. QED
  BY <1>1, <1>2, <1>3, TypeCorrect, PTL DEF Spec
=============================================================================
