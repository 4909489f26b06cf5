----------------------------- MODULE IdaSession -----------------------------
(***************************************************************************)
(* The IDA session of scripts/ida_interact.py: the global `sess` (RPyC     *)
(* connection, colours saved by `highlight add`), the decorator that       *)
(* connects on demand, the event hooks that follow $pc, and the nested     *)
(* commands `highlight del`, `jump`, `highlight add` a synchronisation     *)
(* executes.                                                               *)
(*                                                                         *)
(* GDB runs one command at a time, but IDA is another process: every RPC   *)
(* is a step of its own, and IDA may go away between any two of them.  A   *)
(* nested gdb.execute of a GEF command never raises (GenericCommand.invoke *)
(* prints the exception), so a failed `highlight del` does not stop the    *)
(* synchronisation that issued it.                                         *)
(***************************************************************************)
EXTENDS Integers

CONSTANTS
    Pie,        \* is the debugged binary position independent?
    Size,       \* number of addresses its mapping spans
    Bases,      \* the load addresses a run may get
    Addr,       \* addresses a command may name and $pc may have
    Colors,     \* RGB values
    UserColors, \* the values commands of the user pass as --color
    Green,      \* 0x00ff00, the default of `highlight add`
    Blank,      \* what get_color answers for a line that is not in the IDB
    NoColor,    \* "not a key of old_colors"
    Orig        \* the colour every line of the IDB has before the session

NoAddr == -1

\* The address handed to IDA for a: relative to the mapping when PIE.
EaOf(a, b) == IF Pie THEN a - b ELSE a

Eas   == {EaOf(a, b) : a \in Addr, b \in Bases}
Lines == DOMAIN Orig

ASSUME IdaAssumption ==
    /\ Pie \in BOOLEAN
    /\ Size \in Nat \ {0}
    /\ Bases \subseteq Nat /\ Bases # {}
    /\ Addr \subseteq Nat
    /\ UserColors \subseteq Colors
    /\ Green \in Colors /\ Blank \in Colors /\ NoColor \notin Colors
    /\ Orig \in [Lines -> Colors]
    /\ ~Pie => \A b, c \in Bases : b = c

VARIABLES
    sock,        \* sess.sock: "none", "live", or "dead" (set, peer gone)
    stopHooks,   \* how often ida_rpyc_resync is connected to events.stop
    contHooks,   \* ... and to events.cont
    oldColors,   \* sess.old_colors
    lastHl,      \* RpycIdaCommand.last_hl_ea, an absolute address
    syncCursor,  \* the setting ida-rpyc.sync_cursor
    idaUp,       \* is the RPyC server of IDA listening?
    color,       \* the item colours of the IDB
    run,         \* the inferior: "exited", "stopped" or "resuming"
    base,        \* page_start of its first mapping
    pc,
    cmd,         \* the step of the running command
    syncPc,      \* the pc being synchronised, or NoAddr
    manual,      \* history: lines highlighted by a command of the user
    stray,       \* history: cursor lines left behind by a change of base
    overlaid,    \* history: lines highlighted while already highlighted
    lost         \* history: lines whose restoration met a dead connection

sessVars == <<sock, stopHooks, contHooks>>
gdbVars  == <<run, base, pc>>
history  == <<manual, stray, overlaid, lost>>
vars == <<sock, stopHooks, contHooks, oldColors, lastHl, syncCursor, idaUp,
          color, run, base, pc, cmd, syncPc, manual, stray, overlaid, lost>>

Idle == [op |-> "idle"]
Op(o, ea, c) == [op |-> o, ea |-> ea, color |-> c]
Commands == {Idle}
            \cup [op : {"del", "jump"}, ea : Eas, color : {NoColor}]
            \cup [op : {"restore", "save", "paint"}, ea : Eas, color : Colors]

Init ==
    /\ sock = "none" /\ stopHooks = 0 /\ contHooks = 0
    /\ oldColors = [ea \in Eas |-> NoColor]
    /\ lastHl = NoAddr
    /\ syncCursor \in BOOLEAN
    /\ idaUp \in BOOLEAN
    /\ color = Orig
    /\ run = "exited" /\ base \in Bases /\ pc \in Addr
    /\ cmd = Idle /\ syncPc = NoAddr
    /\ manual = {} /\ stray = {} /\ overlaid = {} /\ lost = {}

\* A command can be typed.
AtPrompt == run = "stopped" /\ cmd = Idle /\ syncPc = NoAddr

-----------------------------------------------------------------------------
(* The decorator: connect on demand.                                       *)

\* Mutant: a dead connection is opened anew, its hooks still connected.
DisconnectedOrDead == sock # "live"

Disconnected == sock = "none"

\* The wrapped body starts with the step c, on the session there is or on a
\* new one; the stop and continue hooks are connected with a new session.
StartBody(c) ==
    /\ cmd' = c
    /\ \/ /\ ~Disconnected
          /\ UNCHANGED sessVars
       \/ /\ Disconnected /\ idaUp
          /\ sock' = "live"
          /\ stopHooks' = stopHooks + 1
          /\ contHooks' = contHooks + 1

\* Mutant: the hook is counted down whether it is connected or not.
UnhookUnchecked(n) == n - 1

Unhook(n) == IF n > 0 THEN n - 1 ELSE n

\* connect() is refused: sock stays None, and disconnecting a hook that is not
\* connected raises, so nothing after it runs.
Refused ==
    /\ AtPrompt
    /\ Disconnected /\ ~idaUp
    /\ stopHooks' = Unhook(stopHooks)
    /\ contHooks' = IF stopHooks = 0 THEN contHooks ELSE Unhook(contHooks)
    /\ UNCHANGED <<sock, oldColors, lastHl, syncCursor, idaUp, color,
                   gdbVars, cmd, syncPc, history>>

-----------------------------------------------------------------------------
(* Synchronisation: what the hooks and `ida-rpyc synchronize` run.         *)

InModule(a, b) == b <= a /\ a < b + Size

\* Mutant: the cursor of the last stop is not deleted.
FirstStepKeepsCursor(a, b) == Op("jump", EaOf(a, b), NoColor)

\* First step of a synchronisation at a with the mapping at b.
FirstStep(a, b) ==
    IF lastHl >= 0 THEN Op("del", EaOf(lastHl, b), NoColor)
                   ELSE Op("jump", EaOf(a, b), NoColor)

\* The event hook, when one is connected: a registered hook means a session,
\* so the decorator goes straight to the body.
HookSync(hooks, a, b) ==
    IF hooks > 0 /\ InModule(a, b)
    THEN cmd' = FirstStep(a, b) /\ syncPc' = a
    ELSE UNCHANGED <<cmd, syncPc>>

\* The current command is over; a synchronisation goes on to its next one.
Return(next) ==
    IF syncPc = NoAddr \/ next = "done"
    THEN /\ cmd' = Idle
         /\ syncPc' = NoAddr
         /\ lastHl' = IF syncPc = NoAddr THEN lastHl ELSE syncPc
    ELSE /\ cmd' = Op(next, EaOf(syncPc, base),
                      IF next = "save" THEN Green ELSE NoColor)
         /\ UNCHANGED <<syncPc, lastHl>>

\* `highlight del`: the entry is popped first ...
DelPop ==
    /\ cmd.op = "del"
    /\ IF oldColors[cmd.ea] = NoColor
       THEN /\ Return("jump")
            /\ UNCHANGED <<oldColors, manual, stray>>
       ELSE /\ cmd' = Op("restore", cmd.ea, oldColors[cmd.ea])
            /\ oldColors' = [oldColors EXCEPT ![cmd.ea] = NoColor]
            /\ manual' = manual \ {cmd.ea}
            /\ stray' = stray \ {cmd.ea}
            /\ UNCHANGED <<syncPc, lastHl>>
    /\ UNCHANGED <<sessVars, syncCursor, idaUp, color, gdbVars, overlaid, lost>>

\* ... and the colour is set afterwards, if the connection still works.
DelRestore ==
    /\ cmd.op = "restore"
    /\ IF sock = "live"
       THEN /\ color' = IF cmd.ea \in Lines
                        THEN [color EXCEPT ![cmd.ea] = cmd.color] ELSE color
            /\ UNCHANGED lost
       ELSE /\ lost' = lost \cup {cmd.ea}
            /\ UNCHANGED color
    /\ Return("jump")
    /\ UNCHANGED <<sessVars, oldColors, syncCursor, idaUp, gdbVars, manual,
                   stray, overlaid>>

JumpTo ==
    /\ cmd.op = "jump"
    /\ Return("save")
    /\ UNCHANGED <<sessVars, oldColors, syncCursor, idaUp, color, gdbVars,
                   history>>

\* Mutant: the colour is read after the new one is set.
ColorAfterPaint(ea) == cmd.color

ColorOf(ea) == IF ea \in Lines THEN color[ea] ELSE Blank

\* `highlight add`: the colour the line has now is what `del` will put back ...
AddSave ==
    /\ cmd.op = "save"
    /\ IF sock = "live"
       THEN /\ oldColors' = [oldColors EXCEPT ![cmd.ea] =
                                                  ColorOf(cmd.ea)]
            /\ cmd' = Op("paint", cmd.ea, cmd.color)
            /\ overlaid' = IF oldColors[cmd.ea] = NoColor
                           THEN overlaid ELSE overlaid \cup {cmd.ea}
            /\ manual' = IF syncPc = NoAddr THEN manual \cup {cmd.ea}
                                            ELSE manual
            /\ UNCHANGED <<syncPc, lastHl>>
       ELSE /\ Return("done")
            /\ UNCHANGED <<oldColors, overlaid, manual>>
    /\ UNCHANGED <<sessVars, syncCursor, idaUp, color, gdbVars, stray, lost>>

\* ... and the new colour is set.
AddPaint ==
    /\ cmd.op = "paint"
    /\ color' = IF sock = "live" /\ cmd.ea \in Lines
                THEN [color EXCEPT ![cmd.ea] = cmd.color] ELSE color
    /\ Return("done")
    /\ UNCHANGED <<sessVars, oldColors, syncCursor, idaUp, gdbVars, history>>

-----------------------------------------------------------------------------
(* Commands of the user, at the prompt of a stopped program.               *)

HighlightAdd(a, c) ==
    /\ AtPrompt
    /\ StartBody(Op("save", EaOf(a, base), c))
    /\ UNCHANGED <<oldColors, lastHl, syncCursor, idaUp, color, gdbVars,
                   syncPc, history>>

HighlightDel(a) ==
    /\ AtPrompt
    /\ StartBody(Op("del", EaOf(a, base), NoColor))
    /\ UNCHANGED <<oldColors, lastHl, syncCursor, idaUp, color, gdbVars,
                   syncPc, history>>

\* `ida-rpyc synchronize`, or any other argument when sync_cursor is set.
RootCommand(arg) ==
    /\ AtPrompt
    /\ IF (arg = "synchronize" \/ syncCursor) /\ InModule(pc, base)
       THEN StartBody(FirstStep(pc, base)) /\ syncPc' = pc
       ELSE StartBody(Idle) /\ UNCHANGED syncPc
    /\ UNCHANGED <<oldColors, lastHl, syncCursor, idaUp, color, gdbVars,
                   history>>

\* The commands that only talk to IDA (info, jump, comments, breakpoints list)
\* change nothing the session keeps, but connect like the others.
PlainCommand ==
    /\ AtPrompt
    /\ StartBody(Idle)
    /\ UNCHANGED <<oldColors, lastHl, syncCursor, idaUp, color, gdbVars, syncPc,
                   history>>

SetSyncCursor ==
    /\ AtPrompt
    /\ syncCursor' = ~syncCursor
    /\ UNCHANGED <<sessVars, oldColors, lastHl, idaUp, color, gdbVars, cmd,
                   syncPc, history>>

-----------------------------------------------------------------------------
(* The inferior and IDA.                                                   *)

\* A run: the stop at its first breakpoint calls the stop hooks.
Start(b, a) ==
    /\ run = "exited" /\ cmd = Idle
    /\ run' = "stopped" /\ base' = b /\ pc' = a
    /\ HookSync(stopHooks, a, b)
    /\ stray' = IF b # base /\ lastHl # NoAddr
                THEN stray \cup {EaOf(lastHl, base)} ELSE stray
    /\ UNCHANGED <<sessVars, oldColors, lastHl, syncCursor, idaUp, color,
                   manual, overlaid, lost>>

\* `continue` or a step: the continue hooks run while GDB resumes the thread,
\* and read $pc or fail because the thread already runs.
Resume ==
    /\ AtPrompt
    /\ run' = "resuming"
    /\ \/ HookSync(contHooks, pc, base)
       \/ UNCHANGED <<cmd, syncPc>>
    /\ UNCHANGED <<sessVars, oldColors, lastHl, syncCursor, idaUp, color,
                   base, pc, history>>

Stop(a) ==
    /\ run = "resuming" /\ cmd = Idle
    /\ run' = "stopped" /\ pc' = a
    /\ HookSync(stopHooks, a, base)
    /\ UNCHANGED <<sessVars, oldColors, lastHl, syncCursor, idaUp, color,
                   base, history>>

Exit ==
    /\ run # "exited" /\ cmd = Idle
    /\ run' = "exited"
    /\ UNCHANGED <<sessVars, oldColors, lastHl, syncCursor, idaUp, color,
                   base, pc, cmd, syncPc, history>>

\* IDA quits, with its colours saved in the IDB or not.
IdaQuit ==
    /\ idaUp
    /\ idaUp' = FALSE
    /\ sock' = IF sock = "live" THEN "dead" ELSE sock
    /\ color' \in {color, Orig}
    /\ UNCHANGED <<stopHooks, contHooks, oldColors, lastHl, syncCursor,
                   gdbVars, cmd, syncPc, history>>

IdaStart ==
    /\ ~idaUp
    /\ idaUp' = TRUE
    /\ UNCHANGED <<sessVars, oldColors, lastHl, syncCursor, color, gdbVars,
                   cmd, syncPc, history>>

LinkDrop ==
    /\ sock = "live"
    /\ sock' = "dead"
    /\ UNCHANGED <<stopHooks, contHooks, oldColors, lastHl, syncCursor, idaUp,
                   color, gdbVars, cmd, syncPc, history>>

-----------------------------------------------------------------------------
Body == DelPop \/ DelRestore \/ JumpTo \/ AddSave \/ AddPaint
User == \/ Refused
        \/ SetSyncCursor
        \/ PlainCommand
        \/ \E a \in Addr :
              \/ HighlightDel(a)
              \/ \E c \in UserColors : HighlightAdd(a, c)
        \/ \E arg \in {"synchronize", "other"} : RootCommand(arg)
Inferior == \/ \E b \in Bases, a \in Addr : Start(b, a)
            \/ \E a \in Addr : Stop(a)
            \/ Resume
            \/ Exit
Ida == IdaQuit \/ IdaStart \/ LinkDrop

Next == Body \/ User \/ Inferior \/ Ida

Spec == Init /\ [][Next]_vars
-----------------------------------------------------------------------------
(* Properties.                                                             *)

\* The variables stay in their ranges.
TypeOK ==
    /\ sock \in {"none", "live", "dead"}
    /\ stopHooks \in Nat /\ contHooks \in Nat
    /\ oldColors \in [Eas -> Colors \cup {NoColor}]
    /\ lastHl \in Addr \cup {NoAddr}
    /\ syncCursor \in BOOLEAN /\ idaUp \in BOOLEAN
    /\ color \in [Lines -> Colors]
    /\ run \in {"exited", "stopped", "resuming"}
    /\ base \in Bases /\ pc \in Addr
    /\ cmd \in Commands
    /\ syncPc \in Addr \cup {NoAddr}
    /\ manual \subseteq Eas /\ stray \subseteq Eas
    /\ overlaid \subseteq Eas /\ lost \subseteq Eas

\* ida_rpyc_resync is connected to both events exactly once while there is a
\* session and not at all before: however often commands connect, are refused
\* or fail, a stop is synchronised once (reconnect, the decorator).
HooksMatchSession ==
    /\ stopHooks = contHooks
    /\ stopHooks = (IF sock = "none" THEN 0 ELSE 1)

\* Whatever the order of commands, stops and failures of IDA, a line can only
\* lose its own colour in two ways: it was highlighted while it already was,
\* or the connection was gone when its colour had to be put back.  Any other
\* line either shows its colour or has it in old_colors or on its way back
\* (highlight add / highlight del).
LedgerExact ==
    \A ea \in Lines \cap Eas :
        \/ ea \in overlaid \cup lost
        \/ oldColors[ea] = Orig[ea]
        \/ /\ oldColors[ea] = NoColor
           /\ \/ color[ea] = Orig[ea]
              \/ cmd = Op("restore", ea, Orig[ea])

\* Following $pc leaves no trail: a saved line is one the user highlighted,
\* the line of the last stop (or of the synchronisation in progress), or a
\* cursor line whose mapping has moved since (synchronize).
CursorLeavesNoTrail ==
    \A ea \in Eas : oldColors[ea] # NoColor =>
        \/ ea \in manual \cup stray
        \/ lastHl # NoAddr /\ ea = EaOf(lastHl, base)
        \/ syncPc # NoAddr /\ ea = EaOf(syncPc, base)

-----------------------------------------------------------------------------
(* What the source says and the code does not do.                          *)

\* "remove the highlighting of the given line in the IDB": a `highlight del`
\* that reaches IDA gives the line its own colour back.
DeleteRemovesHighlight ==
    [][cmd.op = "restore" /\ cmd' # cmd /\ sock = "live" /\ cmd.ea \in Lines
        => color'[cmd.ea] = Orig[cmd.ea]]_vars
=============================================================================
