--------------------------- MODULE RemoteSession ---------------------------
(***************************************************************************)
(* The commands gef-bmp-remote (archs/arm-blackmagicprobe.py) and          *)
(* gef-openocd-remote (archs/arm-openocd.py): what a connection does to    *)
(* the new_objfile handlers of GEF, to gef.session and to the power of the *)
(* target, when any of the GDB commands it executes may fail.              *)
(*                                                                         *)
(* A failure of gdb.execute is an exception.  connect() catches it only    *)
(* around `file` and `attach`; anywhere else it ends the command where it  *)
(* is.  The session is closed by GEF, when the inferior of a registered    *)
(* session exits.                                                          *)
(***************************************************************************)
EXTENDS Integers

CONSTANT MaxOrphans     \* bound: connections given up in one behaviour

ASSUME MaxOrphansAssumption == MaxOrphans \in Nat

\* The options of one gef-bmp-remote, or a gef-openocd-remote.
Options == SUBSET {"scan", "power", "keep-power"} \cup {{"openocd"}}
LeftBy == {"nobody", "given up", "kept", "failed close"}
Stages == {"idle", "target", "power", "scan", "disconnect", "attach", "setup"}

VARIABLES
    stage,     \* the GDB command the running connection is about to run
    opts,      \* the options of the last connection
    defaults,  \* registrations of GEF's new_objfile_handler
    mine,      \* registrations of the handler of the last connection
    orphans,   \* handlers of connections that were given up
    session,   \* gef.session: "none", "initializing" (the flag) or "remote"
    server,    \* "off", "linked" (GDB talks to it) or "attached"
    power,     \* what the probe does to the target's power: "off" or "on"
    lastEnd,   \* history: how the last connection or session ended
    leftBy     \* history: why the power may be on with no session to own it

hooks == <<defaults, mine, orphans>>
vars == <<stage, opts, defaults, mine, orphans, session, server, power,
          lastEnd, leftBy>>

Init ==
    /\ stage = "idle" /\ opts \in Options
    /\ defaults = 1 /\ mine = 0 /\ orphans = 0
    /\ session = "none" /\ server = "off" /\ power = "off"
    /\ lastEnd = "none" /\ leftBy = "nobody"

-----------------------------------------------------------------------------
\* Mutant: a handler is counted down blindly.
UnhookedBlindly(n) == n - 1

\* A registration less; the SystemError when there is none is ignored.
Unhooked(n) == IF n > 0 THEN n - 1 ELSE 0

\* do_invoke up to the first GDB command of connect().
Invoke(o) ==
    /\ stage = "idle" /\ session # "remote" /\ orphans < MaxOrphans
    /\ stage' = "target" /\ opts' = o
    /\ session' = "initializing"
    /\ defaults' = Unhooked(defaults) /\ mine' = 1
    /\ UNCHANGED <<orphans, server, power, lastEnd, leftBy>>

\* Nobody calls close() on a connection that was given up: its handler stays.
GiveUp ==
    /\ stage' = "idle"
    /\ mine' = 0 /\ orphans' = orphans + mine
    /\ lastEnd' = "abandoned"
    /\ leftBy' = IF power = "on" THEN "given up" ELSE leftBy
    /\ UNCHANGED <<opts, defaults, power>>

\* An exception nothing catches; a missing ELF file raises in setup().
Raise ==
    /\ stage \in {"target", "power", "scan", "disconnect", "setup"}
    /\ GiveUp
    /\ UNCHANGED <<session, server>>

\* connect() returns False.
ReturnFalse == GiveUp /\ session' = "none"

\* `target extended-remote` drops the inferior of an earlier connection.
TargetExtendedRemote ==
    /\ stage = "target"
    /\ \/ /\ "openocd" \in opts
          /\ server' = "attached" /\ stage' = "attach"
       \/ /\ "openocd" \notin opts
          /\ server' = "linked"
          /\ stage' = IF "power" \in opts THEN "power" ELSE "scan"
    /\ UNCHANGED <<opts, hooks, session, power, lastEnd, leftBy>>

PowerOn ==
    /\ stage = "power"
    /\ power' = "on" /\ stage' = "scan"
    /\ UNCHANGED <<opts, hooks, session, server, lastEnd, leftBy>>

SwdpScan ==
    /\ stage = "scan"
    /\ stage' = IF "scan" \in opts THEN "disconnect" ELSE "attach"
    /\ UNCHANGED <<opts, hooks, session, server, power, lastEnd, leftBy>>

Disconnect ==
    /\ stage = "disconnect"
    /\ server' = "off"
    /\ ReturnFalse

\* `file` and `attach`: the one failure connect() catches.
AttachFails ==
    /\ stage = "attach"
    /\ ReturnFalse
    /\ UNCHANGED server

Attach ==
    /\ stage = "attach"
    /\ server' = "attached" /\ stage' = "setup"
    /\ UNCHANGED <<opts, hooks, session, power, lastEnd, leftBy>>

Setup ==
    /\ stage = "setup"
    /\ stage' = "idle" /\ session' = "remote"
    /\ UNCHANGED <<opts, hooks, server, power, lastEnd, leftBy>>

-----------------------------------------------------------------------------
\* Mutant: the test of keep_power is the wrong way round.
KeepsUnlessAsked(o) == "keep-power" \notin o

\* --keep-power is parsed but never handed to the session manager.
Keeps(o) == FALSE

\* Mutant: the default handler is not registered again.
DefaultAfterCloseLost == defaults

DefaultAfterClose == defaults + 1

\* The power after close(): cutting it takes a server that is there, and may
\* fail even so, which close() only warns of.
PowerAfterClose(linked) ==
    IF "power" \in opts /\ ~Keeps(opts)
    THEN {power} \cup (IF linked THEN {"off"} ELSE {})
    ELSE {power}

\* Why the power is on after close(), if it is.
LeftByClose(after) ==
    IF after = "off" THEN "nobody"
    ELSE IF {"power", "keep-power"} \subseteq opts THEN "kept"
    ELSE IF "power" \in opts /\ ~Keeps(opts) THEN "failed close"
    ELSE leftBy

\* close(): hooks first, then the power.
CloseSession ==
    /\ session' = "none"
    /\ mine' = 0 /\ defaults' = DefaultAfterClose
    /\ lastEnd' = "closed"
    /\ power' \in PowerAfterClose(server' = "linked")
    /\ leftBy' = LeftByClose(power')

\* The inferior exits, detaches or loses its server.
InferiorGone ==
    /\ stage = "idle" /\ server = "attached"
    /\ server' \in {"off", "linked"}
    /\ \/ session = "remote" /\ CloseSession
       \/ /\ session # "remote"
          /\ UNCHANGED <<defaults, mine, session, power, lastEnd, leftBy>>
    /\ UNCHANGED <<stage, opts, orphans>>

Next ==
    \/ \E o \in Options : Invoke(o)
    \/ Raise
    \/ TargetExtendedRemote
    \/ PowerOn
    \/ SwdpScan
    \/ Disconnect
    \/ AttachFails
    \/ Attach
    \/ Setup
    \/ InferiorGone

Spec == Init /\ [][Next]_vars
-----------------------------------------------------------------------------
CountsOK == defaults \in Nat /\ mine \in 0..1 /\ orphans \in Nat

\* The variables stay in their ranges.
TypeOK ==
    /\ CountsOK
    /\ stage \in Stages /\ opts \in Options
    /\ session \in {"none", "initializing", "remote"}
    /\ server \in {"off", "linked", "attached"}
    /\ power \in {"off", "on"} /\ leftBy \in LeftBy
    /\ lastEnd \in {"none", "abandoned", "closed"}

\* Whatever fails and is tried again: a connection or session runs with its own
\* handler and without GEF's default one, nothing registers the default handler
\* twice, and new objfiles always have some handler (connect, close).
HandlersExclusive ==
    /\ mine = (IF session = "remote" \/ stage # "idle" THEN 1 ELSE 0)
    /\ mine + defaults <= 1
    /\ mine + defaults + orphans >= 1

\* One session that is closed has GEF's default handler back, exactly once,
\* however many connections were given up before it (close, lines 117 to 121).
DefaultBackAfterSession ==
    mine = 0 /\ lastEnd # "abandoned" => defaults = 1

\* Both, over any number of connections that fail and are tried again.
HandlersInOrder == HandlersExclusive /\ DefaultBackAfterSession

\* The power is on for the session that asked for it, or for one of three named
\* reasons: that session asked to keep it, its close could not cut it, or it
\* never was a session (a scan, or a connection that was given up).
PowerHasAnOwner ==
    power = "on" => leftBy # "nobody" \/ (mine = 1 /\ "power" \in opts)

-----------------------------------------------------------------------------
(* What the source says and the code does not do.                          *)

\* A False return of connect() deletes the hook of the connection (lines 171 and
\* 181, and line 158 of arm-openocd.py).
FailureDeletesHook ==
    [][stage # "idle" /\ stage' = "idle" /\ session' = "none"
        => orphans' = orphans]_vars

\* The power is kept between a scan and an attach if --keep-power is given, and
\* only then (docs/commands/gef-bmp-remote.md, line 33).
ScanCutsPower ==
    [][stage = "disconnect" /\ session' = "none" /\ "keep-power" \notin opts
        => power' = "off"]_vars

\* --keep-power: the end of a session that asked for it leaves the power on.
KeepPowerKeeps ==
    [][session = "remote" /\ session' = "none" /\ "keep-power" \in opts
        => power' = power]_vars
=============================================================================
