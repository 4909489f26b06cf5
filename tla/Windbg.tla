------------------------------- MODULE Windbg -------------------------------
(***************************************************************************)
(* The stateful commands of scripts/windbg.py: `sxe`, which sets and       *)
(* removes breakpoints on dlopen, the five trace commands over             *)
(* windbg_execute_until, and `g`.  A trace steps the program under GEF's   *)
(* context display, which it turns off and on; the program may end, fail   *)
(* to step or load a library in any of these steps.                        *)
(***************************************************************************)
EXTENDS Integers, Sequences

CONSTANTS
    Modules,    \* what `sxe` is given
    Paths,      \* what the program passes to dlopen
    EndsWith,   \* the <<path, module>> pairs of str.endswith
    Counts,     \* the COUNT arguments that are typed
    NoCount,    \* a trace command without COUNT: 2^64 - 1 steps
    MaxSxe      \* bound: breakpoints set by `sxe` while GDB lives

ASSUME WindbgAssumption ==
    /\ EndsWith \subseteq Paths \X Modules
    /\ Counts \subseteq Int /\ NoCount \notin Int
    /\ \E n \in Counts : \A m \in Counts : m <= n
    /\ MaxSxe \in Nat

NoLoad == [path |-> "none", went |-> "none"]
Kinds  == {"call", "ret", "other"}
Traces == {"tc", "pc", "tt", "pt", "ptc"}

VARIABLES
    breakpoints,       \* self.breakpoints of sxe: the modules, in order
    gone,       \* the indices whose breakpoint was deleted
    context,    \* the setting context.enable: "on" or "off"
    alive,      \* is there a program: "alive" or "dead"
    insn,       \* the kind of the instruction at $pc
    trace,      \* the running trace command, or "none"
    cnt,        \* its cnt: steps left
    asked,      \* history: its COUNT
    steps,      \* history: steps it made, up to the largest of Counts
    offBy,      \* history: who turned context.enable off
    wanted,     \* history: the modules of an `ld` after their last `ud`
    load        \* the last library `g` loaded, and what became of it

sxeVars   == <<breakpoints, gone, wanted, load>>
traceVars == <<trace, cnt, asked, steps>>
windbgVars == <<breakpoints, gone, wanted, load, context, alive, insn, trace,
                cnt, asked, steps, offBy>>

WindbgInit ==
    /\ breakpoints = << >> /\ gone = {} /\ wanted = {} /\ load = NoLoad
    /\ context = "on" /\ offBy = "nobody"
    /\ alive = "dead" /\ insn = "other"
    /\ trace = "none" /\ cnt = 0 /\ asked = 0 /\ steps = 0

AtPrompt == trace = "none"

-----------------------------------------------------------------------------
(* sxe.                                                                    *)

SxeLd(m) ==
    /\ AtPrompt /\ Len(breakpoints) < MaxSxe
    /\ breakpoints' = Append(breakpoints, m) /\ wanted' = wanted \cup {m}
    /\ UNCHANGED <<gone, load, context, alive, insn, traceVars, offBy>>

Listed(m) == {i \in 1..Len(breakpoints) : breakpoints[i] = m}

\* Mutant: the first breakpoint of any module is deleted.
UdAny(m) == {i \in 1..Len(breakpoints) : i = 1}

\* Mutant: the same, without looking whether there is one.
UdBlind(m) == {1}

\* Mutant: the breakpoint is taken from the list and not deleted.
UdForgets(m) == {}

\* The first breakpoint of the module.  It is removed from a copy of the list,
\* so a second `ud` finds it again, and touching it raises.
UdDeletes(m) == {i \in Listed(m) : \A j \in Listed(m) : i <= j}

SxeUd(m) ==
    /\ AtPrompt
    /\ gone' = gone \cup UdDeletes(m) /\ wanted' = wanted \ {m}
    /\ UNCHANGED <<breakpoints, load, context, alive, insn, traceVars, offBy>>

\* BreakOnLoadSharedLibrary.stop, of all the breakpoints there are.
StopsAt(path) ==
    \E i \in 1..Len(breakpoints) : i \notin gone /\ <<path, breakpoints[i]>> \in EndsWith

-----------------------------------------------------------------------------
(* The trace commands.                                                     *)

\* stop_condition: gef.arch.is_call, is_ret, or either.
Stops(t, k) ==
    \/ t \in {"tc", "pc", "ptc"} /\ k = "call"
    \/ t \in {"tt", "pt", "ptc"} /\ k = "ret"

TraceCmd(t, n) ==
    /\ AtPrompt /\ alive = "alive"
    /\ trace' = t /\ cnt' = n /\ asked' = n /\ steps' = 0
    /\ UNCHANGED <<sxeVars, context, alive, insn, offBy>>

MaxCount == CHOOSE n \in Counts : \A m \in Counts : m <= n

Counted == IF steps < MaxCount THEN steps + 1 ELSE steps

\* Mutant: the loop ends a step early.
GoesOneLess == cnt \notin {0, 1}

\* `while cnt`: a negative count is counted down, and never gets to 0.
Goes == cnt # 0

Decremented == IF cnt = NoCount \/ cnt < 0 THEN cnt ELSE cnt - 1

\* stop_condition(insn), after the step.
StopsNow(k) == Stops(trace, k)

\* One step that the program survives, a stop for a breakpoint included: the
\* loop does not look why GDB stopped.
TraceStep(k) ==
    /\ trace # "none" /\ Goes
    /\ cnt' = Decremented /\ steps' = Counted
    /\ insn' = k
    /\ IF StopsNow(k)
       THEN trace' = "none" /\ context' = "on" /\ offBy' = "nobody"
       ELSE trace' = trace /\ context' = "off" /\ offBy' = "loop"
    /\ UNCHANGED <<sxeVars, alive, asked>>

\* The step raises, or the program ends and there is no $pc to look at.
TraceRaises ==
    /\ trace # "none" /\ Goes
    /\ trace' = "none"
    /\ context' = "off" /\ offBy' = "raise"
    /\ alive' \in {"alive", "dead"}
    /\ UNCHANGED <<sxeVars, insn, cnt, asked, steps>>

\* Mutant: the setting is only put back by a trace that stopped early.
EndKeeps == context

EndSets == "on"

\* The count is exhausted.
TraceEnds ==
    /\ trace # "none" /\ ~Goes
    /\ trace' = "none"
    /\ context' = EndSets /\ offBy' = "nobody"
    /\ UNCHANGED <<sxeVars, alive, insn, cnt, asked, steps>>

-----------------------------------------------------------------------------
(* g, and the rest of the session.                                         *)

\* A dlopen on the way of a `g`: it stops for a breakpoint of sxe, or goes on.
GoLoads(path) ==
    /\ AtPrompt
    /\ load' = [path |-> path, went |-> IF StopsAt(path) THEN "stopped" ELSE "on"]
    /\ alive' = "alive" /\ insn' \in Kinds
    /\ UNCHANGED <<breakpoints, gone, wanted, context, traceVars, offBy>>

\* `g` runs until some other breakpoint, or to the end.
GoStops(k) ==
    /\ AtPrompt
    /\ alive' = "alive" /\ insn' = k
    /\ UNCHANGED <<sxeVars, context, traceVars, offBy>>

GoExits ==
    /\ AtPrompt
    /\ alive' = "dead"
    /\ UNCHANGED <<sxeVars, context, insn, traceVars, offBy>>

\* The user's `gef config context.enable`.
SetContext(v) ==
    /\ AtPrompt
    /\ context' = v /\ offBy' = IF v = "off" THEN "user" ELSE "nobody"
    /\ UNCHANGED <<sxeVars, alive, insn, traceVars>>

TraceGoesOn ==
    \/ \E k \in Kinds : TraceStep(k)
    \/ TraceRaises
    \/ TraceEnds

WindbgNext ==
    \/ \E m \in Modules : SxeLd(m) \/ SxeUd(m)
    \/ \E t \in Traces, n \in Counts \cup {NoCount} : TraceCmd(t, n)
    \/ TraceGoesOn
    \/ \E path \in Paths : GoLoads(path)
    \/ \E k \in Kinds : GoStops(k)
    \/ GoExits
    \/ \E v \in {"on", "off"} : SetContext(v)

\* No fairness: what is typed at the prompt and what the program does may never
\* happen, and a `stepi` in a blocking system call or a `nexti` over a call that
\* does not return keeps the loop where it is, until the user's ^C.
WindbgSpec == WindbgInit /\ [][WindbgNext]_windbgVars
-----------------------------------------------------------------------------
\* The variables stay in their ranges; in particular only breakpoints that were
\* set are deleted.
WindbgTypeOK ==
    /\ breakpoints \in Seq(Modules) /\ Len(breakpoints) <= MaxSxe
    /\ gone \subseteq 1..Len(breakpoints) /\ wanted \subseteq Modules
    /\ load \in [path : Paths, went : {"stopped", "on"}] \cup {NoLoad}
    /\ context \in {"on", "off"}
    /\ alive \in {"alive", "dead"} /\ insn \in Kinds
    /\ trace \in Traces \cup {"none"}
    /\ cnt \in Int \cup {NoCount} /\ asked \in Int \cup {NoCount}
    /\ steps \in Nat
    /\ offBy \in {"nobody", "loop", "raise", "user"}

\* A library loaded by `g` stops the program if the last word of the user on its
\* name was `ld`, whatever was set and removed for it and for others before.
SxeHolds ==
    [][load' # load /\ load'.went = "on" =>
          \A m \in wanted : <<load'.path, m>> \notin EndsWith]_windbgVars

\* The module was given to `ld` more than once, between which there may be a `ud`.
Again(m) == \E i, j \in Listed(m) : i # j

\* `g` is stopped by a load only for a module whose last word was `ld`, or for
\* one that was given to `ld` again: the `ud` of that one finds the breakpoint
\* of the first `ld` and leaves the second.
StopsAreWanted ==
    [][load' # load /\ load'.went = "stopped" =>
          \E m \in Modules : <<load'.path, m>> \in EndsWith
                             /\ (m \in wanted \/ Again(m))]_windbgVars

\* Without that excuse, which no run checks because the code breaks it: after its
\* `ud` a module stops nothing (`ld`, `ud`, `ld`, `ud` leaves a breakpoint).
UdUndoes ==
    [][load' # load /\ load'.went = "stopped" =>
          \E m \in wanted : <<load'.path, m>> \in EndsWith]_windbgVars

\* The display is only left off at the prompt by a step that raised or by the
\* user: no number of traces, stopped early or exhausted, turns it off.
ContextComesBack == AtPrompt /\ context = "off" => offBy \in {"raise", "user"}

\* A trace that does not raise ends at an instruction it was to stop at or after
\* exactly the steps it was asked for; until then it passes no such instruction
\* and makes no more steps than that.
EndsWhereAsked ==
    [][trace # "none" /\ offBy' # "raise" =>
          IF trace' = "none"
          THEN Stops(trace, insn') \/ (asked \in Nat /\ steps' = asked)
          ELSE ~Stops(trace, insn') /\ (asked \in Nat => steps' <= asked)]_windbgVars
=============================================================================
