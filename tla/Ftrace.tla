------------------------------- MODULE Ftrace -------------------------------
(***************************************************************************)
(* The function tracer of scripts/ftrace.py.  `ftrace` sets a breakpoint   *)
(* on the entry of every function named; when one is hit it reads the      *)
(* argument registers and sets finish breakpoints on the frame, which      *)
(* write a record when the frame returns.  An exit handler deletes what    *)
(* the command set.  The traced functions call themselves and each other,  *)
(* return in any order a stack allows, and may be unwound by longjmp.      *)
(*                                                                         *)
(* External: a finish breakpoint fires for the frame it was made for and   *)
(* is gone afterwards; GDB deletes it when its frame is unwound or the     *)
(* program exits, and touching it, or any deleted breakpoint, raises.      *)
(***************************************************************************)
EXTENDS Integers, Sequences, SequencesExt, FiniteSets

CONSTANTS
    Funcs,
    Params,     \* function_parameters: the number of argument registers
    NbArgs,     \* the <nb_args> that are typed
    Regs,       \* what the argument registers hold at a call
    MaxBps,     \* bound: breakpoints `ftrace` sets while GDB lives
    MaxCalls,   \* bound: calls of functions in Funcs while GDB lives
    MaxHooks,   \* bound: connections of the exit handler
    MaxLost     \* bound: records whose writing raises

ASSUME FtraceAssumption ==
    /\ Params \in Nat /\ NbArgs \subseteq Nat
    /\ \A r \in Regs : r \in [1..Params -> Range(r)]
    /\ MaxBps \in Nat /\ MaxCalls \in Nat /\ MaxHooks \in Nat
    /\ MaxLost \in Nat

Items == [fn : Funcs, nb : NbArgs]

VARIABLES
    entry,      \* FtraceEnterBreakpoint of each id made so far: fn, nb
    set,        \* the ids GDB has
    retbp,      \* for each id, the call its last finish breakpoint was for, or 0
    bkps,       \* self.bkps of the command: ids, in order
    hooks,      \* how often cleanup is connected to events.exited
    calls,      \* history: each call's function, registers, tracers and end
    stack,      \* the calls that have not returned, innermost last
    finish,     \* finish breakpoints GDB has: id, call, the regs of their args
    records,    \* history: the records that were written, as a terminal shows
    lost,       \* history: those whose writing raised
    file        \* the records in ftrace.output, if it is a file

written == <<records, lost, file>>
ftraceVars == <<entry, set, retbp, bkps, hooks, calls, stack, finish, written>>

FtraceInit ==
    /\ entry = << >> /\ set = {} /\ retbp = << >> /\ bkps = << >>
    /\ hooks = 0
    /\ calls = << >> /\ stack = << >>
    /\ finish = {} /\ records = {} /\ lost = {} /\ file = {}

Running == stack # << >>

-----------------------------------------------------------------------------
(* FtraceCommand.do_invoke.                                                *)

\* items: the functions and numbers that were parsed, of all or, if `bad`, of
\* those before the one that raised.  The list of an earlier command is lost.
FtraceCmd(items, bad) ==
    LET n   == Len(entry)
        new == [i \in 1..Len(items) |-> n + i]
    IN  /\ n + Len(items) <= MaxBps /\ hooks < MaxHooks
        /\ entry' = entry \o items
        /\ set' = set \cup ToSet(new)
        /\ retbp' = retbp \o [i \in 1..Len(items) |-> 0]
        /\ bkps' = new
        /\ hooks' = IF bad THEN hooks ELSE hooks + 1
        /\ UNCHANGED <<calls, stack, finish, written>>

-----------------------------------------------------------------------------
(* The breakpoints.                                                        *)

\* How many registers the loop looks at.
NbRegs(id) == IF entry[id].nb < Params THEN entry[id].nb ELSE Params

\* Mutant: the registers of an earlier call of the function are kept.
ArgsOfFirst(id, regs) ==
    LET seen == {b \in finish : b.id = id}
    IN  IF seen = {} THEN SubSeq(regs, 1, NbRegs(id))
                     ELSE (CHOOSE b \in seen : TRUE).regs

ArgsOf(id, regs) == SubSeq(regs, 1, NbRegs(id))

Hit(f) == {id \in set : entry[id].fn = f}

\* A finish breakpoint is made in every turn of the loop over the registers: as
\* many as there are arguments, all with the dictionary the loop fills.
FinishesOf(id, c, regs) ==
    {[id |-> id, call |-> c, nth |-> k, regs |-> ArgsOf(id, regs)] :
        k \in 1..Len(ArgsOf(id, regs))}

\* FtraceEnterBreakpoint.stop, of every breakpoint on f.
Call(f, regs) ==
    LET c   == Len(calls) + 1
        hit == {id \in Hit(f) : ArgsOf(id, regs) # << >>}
    IN  /\ c <= MaxCalls
        /\ calls' = Append(calls, [fn |-> f, regs |-> regs, by |-> Hit(f),
                                   end |-> "open"])
        /\ stack' = Append(stack, c)
        /\ finish' = finish \cup UNION {FinishesOf(id, c, regs) : id \in hit}
        /\ retbp' = [id \in DOMAIN retbp |-> IF id \in hit THEN c ELSE retbp[id]]
        /\ UNCHANGED <<entry, set, bkps, hooks, written>>

\* The calls cs are over.
Ended(cs, how) ==
    [c \in DOMAIN calls |->
        IF c \in cs THEN [calls[c] EXCEPT !.end = how] ELSE calls[c]]

\* Mutant: a finish breakpoint fires at the return address whatever the frame.
FiringAnywhere(c) == finish

Firing(c) == {b \in finish : b.call = c}

\* The output is opened with "w" for each record: of those written, a file has
\* the last, or none if a later open() was followed by something that raised.
FileAfter(wrote, failed) ==
    {{b} : b \in wrote} \cup (IF failed = {} THEN {} ELSE {{}})
        \cup (IF wrote = {} THEN {file} ELSE {})

\* FtraceExitBreakpoint.stop, of every finish breakpoint of the frame. Opening the
\* output, reading memory for it and writing may raise, in any of them.
Return ==
    LET c == Last(stack)
    IN  /\ Running
        /\ stack' = Front(stack)
        /\ \E wrote \in SUBSET Firing(c) :
              /\ records' = records \cup wrote
              /\ lost' = lost \cup (Firing(c) \ wrote)
              /\ Cardinality(lost') <= MaxLost
              /\ file' \in FileAfter(wrote, Firing(c) \ wrote)
        /\ finish' = finish \ Firing(c)
        /\ calls' = Ended({c}, "returned")
        /\ UNCHANGED <<entry, set, retbp, bkps, hooks>>

\* longjmp over the n innermost frames; their breakpoints go unrecorded.
Unwind(n) ==
    /\ n <= Len(stack)
    /\ stack' = SubSeq(stack, 1, Len(stack) - n)
    /\ finish' = {b \in finish : b.call \in ToSet(stack')}
    /\ calls' = Ended(ToSet(stack) \ ToSet(stack'), "unwound")
    /\ UNCHANGED <<entry, set, retbp, bkps, hooks, written>>

-----------------------------------------------------------------------------
(* FtraceCommand.cleanup.                                                  *)

\* Mutant: the handler disconnects itself whether it is connected or not.
HooksAfterBlind(done) == hooks - 1

\* Mutant: the handler disconnects itself before its loop.
HooksAfterEarly(done) == IF hooks = 0 THEN 0 ELSE hooks - 1

\* The handler disconnects itself after its loop.  Another connection of it
\* then raises at the first breakpoint, if there is one.
HooksAfter(done) ==
    IF hooks = 0 \/ ~done THEN hooks
    ELSE IF bkps = << >> THEN 0 ELSE hooks - 1

\* How many of bkps the loop gets through, when the finish breakpoints of the
\* calls in valid still exist: one that is gone raises, and so does a
\* breakpoint an earlier cleanup deleted.
Reached(valid) ==
    LET ok == {n \in 0..Len(bkps) :
                  \A i \in 1..n : /\ bkps[i] \in set
                                  /\ retbp[bkps[i]] \in valid \cup {0}}
    IN  CHOOSE n \in ok : \A k \in ok : k <= n

\* The program exits, in the middle of its calls or not, and the handler runs
\* as often as it is connected: the first time to the end or to what raises,
\* later times only to its first breakpoint.  Which finish breakpoints GDB has
\* deleted by then is its own business.
Exit ==
    /\ hooks > 0 \/ Running
    /\ \E valid \in {{}, ToSet(stack), DOMAIN calls} :
          LET n    == Reached(valid)
              done == n = Len(bkps)
          IN  /\ set' = IF hooks > 0
                        THEN set \ {bkps[i] : i \in 1..n} ELSE set
              /\ hooks' = HooksAfter(done)
    /\ stack' = << >> /\ finish' = {}
    /\ calls' = Ended(ToSet(stack), "unwound")
    /\ UNCHANGED <<entry, retbp, bkps, written>>

FtraceNext ==
    \/ \E items \in UNION {[1..n -> Items] : n \in 0..2}, bad \in BOOLEAN :
          /\ items # << >> \/ bad
          /\ FtraceCmd(items, bad)
    \/ \E f \in Funcs, regs \in Regs : Call(f, regs)
    \/ Return
    \/ \E n \in 1..2 : Unwind(n)
    \/ Exit

FtraceSpec == FtraceInit /\ [][FtraceNext]_ftraceVars
-----------------------------------------------------------------------------
\* The variables stay in their ranges; in particular no breakpoint is known to
\* GDB or to the command that was not made.
FtraceTypeOK ==
    /\ entry \in Seq(Items) /\ Len(entry) <= MaxBps
    /\ set \subseteq DOMAIN entry /\ ToSet(bkps) \subseteq DOMAIN entry
    /\ DOMAIN retbp = DOMAIN entry
    /\ \A id \in DOMAIN retbp : retbp[id] \in {0} \cup DOMAIN calls
    /\ hooks \in 0..MaxHooks
    /\ \A c \in DOMAIN calls :
          /\ calls[c].fn \in Funcs /\ calls[c].regs \in Regs
          /\ calls[c].by \subseteq DOMAIN entry
          /\ calls[c].end \in {"open", "returned", "unwound"}
    /\ ToSet(stack) \subseteq DOMAIN calls
    /\ \A b \in finish \cup records \cup lost :
          /\ b.id \in DOMAIN entry /\ b.call \in DOMAIN calls
          /\ b.nth \in 1..Params /\ b.nth <= Len(b.regs)

\* Under recursion, other traced calls in between and longjmp, every record has
\* the arguments its own call was made with, of the function it names; so has the
\* one a file holds.
RecordsTrue ==
    /\ file \subseteq records
    /\ \A r \in records :
          LET c == calls[r.call]
          IN  /\ c.fn = entry[r.id].fn /\ c.end = "returned"
              /\ r.regs = SubSeq(c.regs, 1, NbRegs(r.id))

\* Of a call that returned, each breakpoint it hit, also one deleted since, writes
\* one record per argument or raises instead; of one that is open or was unwound,
\* nothing is ever written.
RecordedPerArgument ==
    /\ records \cap lost = {}
    /\ \A c \in DOMAIN calls : \A id \in DOMAIN entry :
          Cardinality({r \in records \cup lost : r.id = id /\ r.call = c})
              = IF calls[c].end = "returned" /\ id \in calls[c].by
                THEN NbRegs(id) ELSE 0

\* What the exit handler would delete: as far as its loop gets, if it is connected.
Reachable ==
    IF hooks = 0 THEN {}
    ELSE {bkps[i] : i \in {n \in DOMAIN bkps : \A k \in 1..n : bkps[k] \in set}}

\* A finish breakpoint lives no longer than the frame it waits for. A command that
\* succeeds has all its breakpoints in the handler's reach. One that leaves it and
\* stays in GDB does so under a later command, or because the handler raised when
\* the program ended; and the handler disconnects only when all are deleted.
NothingStray ==
    /\ [](\A b \in finish : b.call \in ToSet(stack))
    /\ [][hooks' > hooks => ToSet(bkps') \subseteq Reachable']_ftraceVars
    /\ [][(Reachable \cap set') \ Reachable' # {} =>
              bkps' # bkps \/ (stack' = << >> /\ hooks' = hooks)]_ftraceVars
    /\ [][hooks' < hooks => set' \cap ToSet(bkps) = {}]_ftraceVars

-----------------------------------------------------------------------------
(* What the source says and the code does not do.                          *)

\* "added '{}()' (with {} args) to tracking list": a call of a function that is
\* on the list, whatever its number of arguments, is recorded when it returns.
TrackedIsRecorded ==
    \A c \in DOMAIN calls : calls[c].end = "returned" =>
        \A id \in calls[c].by : \E r \in records \cup lost : r.id = id /\ r.call = c

\* "Tracks a function given in parameter for arguments and return code" (line 74):
\* what was tracked is in the file of ftrace.output.
FileHasRecords == records \subseteq file

\* All that GDB has can still be deleted: not what a command set before an item
\* raised, while no handler was connected.
AllReachable == set \subseteq Reachable
=============================================================================
