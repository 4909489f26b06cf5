---------------------------- MODULE TracingProofs ----------------------------
(***************************************************************************)
(* Proofs about the two tracers.  Of Windbg, for any modules, paths and    *)
(* counts: what `sxe` holds, where a trace ends, and that the display      *)
(* comes back.  Of Ftrace, for any functions, registers and bounds: the    *)
(* finish breakpoints are those of the open calls and the records those of *)
(* the calls that returned, so a record tells of its own call, and once.   *)
(***************************************************************************)
EXTENDS Windbg, Ftrace, TLAPS, FiniteSetTheorems

-----------------------------------------------------------------------------
(* The trace commands of WinDbg.                                           *)

\* A module the user asked for last has a breakpoint that is not deleted.
WantedHeld ==
    \A m \in wanted : \E i \in 1..Len(breakpoints) : i \notin gone /\ breakpoints[i] = m

\* A breakpoint that is not deleted is of a module asked for last, or of one that
\* was asked for again.
LeftWanted ==
    \A i \in 1..Len(breakpoints) :
        i \notin gone => breakpoints[i] \in wanted \/ Again(breakpoints[i])

\* The steps of a running trace and those left add up to its COUNT.  Without
\* one, or with a negative one, the counter stays what it was.
CountAddsUp ==
    trace # "none" =>
        /\ asked \in Counts \cup {NoCount}
        /\ asked \in Nat => cnt \in Nat /\ steps = asked - cnt
        /\ asked \notin Nat => cnt = asked

\* Inductive.
WindbgIInv ==
    WindbgTypeOK /\ ContextComesBack /\ WantedHeld /\ LeftWanted /\ CountAddsUp

\* What no action of the sxe command changes.
LEMMA SxeUntouched ==
    ASSUME WindbgIInv, UNCHANGED <<breakpoints, gone, wanted>>
    PROVE  WantedHeld' /\ LeftWanted'
<1>1. \A m : Again(m)' = Again(m)
  BY DEF Again, Listed
<1> QED
  BY <1>1 DEF WindbgIInv, WantedHeld, LeftWanted

\* The traces' own steps count, and only while a trace runs.
LEMMA TraceUntouched ==
    ASSUME WindbgIInv, UNCHANGED traceVars PROVE CountAddsUp'
  BY DEF WindbgIInv, CountAddsUp, traceVars

\* The initial states satisfy the invariant.
LEMMA WindbgInitIInv == WindbgInit => WindbgIInv
  BY WindbgAssumption
     DEF WindbgInit, WindbgIInv, WindbgTypeOK, ContextComesBack, AtPrompt,
         WantedHeld, LeftWanted, CountAddsUp, Kinds

-----------------------------------------------------------------------------
\* `sxe ld` adds a breakpoint behind the others.
LEMMA LdIInv == ASSUME NEW m \in Modules, WindbgIInv, SxeLd(m) PROVE WindbgIInv'
<1>1. breakpoints \in Seq(Modules) /\ gone \subseteq 1..Len(breakpoints)
  BY DEF WindbgIInv, WindbgTypeOK
<1>2. /\ breakpoints' = Append(breakpoints, m) /\ wanted' = wanted \cup {m}
      /\ gone' = gone
      /\ UNCHANGED <<load, context, alive, insn, traceVars, offBy>>
      /\ Len(breakpoints) < MaxSxe
  BY DEF SxeLd
<1>3. /\ Len(breakpoints') = Len(breakpoints) + 1 /\ Len(breakpoints) \in Nat
      /\ breakpoints' \in Seq(Modules)
      /\ breakpoints'[Len(breakpoints) + 1] = m
      /\ \A i \in 1..Len(breakpoints) : breakpoints'[i] = breakpoints[i]
  BY <1>1, <1>2
<1>4. WindbgTypeOK'
  BY <1>2, <1>3, WindbgAssumption DEF WindbgIInv, WindbgTypeOK, traceVars
<1>5. WantedHeld'
  <2> SUFFICES ASSUME NEW w \in wanted'
               PROVE  \E i \in 1..Len(breakpoints') :
                         i \notin gone' /\ breakpoints'[i] = w
    BY DEF WantedHeld
  <2>1. CASE w = m
    <3>1. /\ Len(breakpoints) + 1 \in 1..Len(breakpoints')
          /\ Len(breakpoints) + 1 \notin gone'
      BY <1>1, <1>2, <1>3
    <3> QED
      BY <1>3, <2>1, <3>1
  <2>2. CASE w \in wanted
    <3> PICK i \in 1..Len(breakpoints) : i \notin gone /\ breakpoints[i] = w
      BY <2>2 DEF WindbgIInv, WantedHeld
    <3>1. i \in 1..Len(breakpoints') /\ breakpoints'[i] = w
      BY <1>3
    <3> QED
      BY <1>2, <3>1
  <2> QED
    BY <1>2, <2>1, <2>2
<1>6. CountAddsUp'
  BY <1>2, TraceUntouched
<1>7. ContextComesBack'
  BY <1>2 DEF WindbgIInv, ContextComesBack, AtPrompt, traceVars
<1>8. LeftWanted'
  <2>1. \A w : Again(w) => Again(w)'
    BY <1>3 DEF Again, Listed
  <2> SUFFICES ASSUME NEW i \in 1..Len(breakpoints'), i \notin gone'
               PROVE  (breakpoints[i] \in wanted \/ Again(breakpoints[i]))'
    BY DEF LeftWanted
  <2>2. CASE i \in 1..Len(breakpoints)
    <3>1. breakpoints'[i] = breakpoints[i]
      BY <1>3, <2>2
    <3>2. breakpoints[i] \in wanted \/ Again(breakpoints[i])
      BY <1>2, <2>2 DEF WindbgIInv, LeftWanted
    <3> QED
      BY <1>2, <2>1, <3>1, <3>2
  <2>3. CASE i = Len(breakpoints) + 1
    BY <1>2, <1>3, <2>3
  <2> QED
    BY <1>3, <2>2, <2>3
<1> QED
  BY <1>4, <1>5, <1>6, <1>7, <1>8 DEF WindbgIInv

\* `sxe ud` deletes breakpoints of its module only.
LEMMA UdIInv == ASSUME NEW m \in Modules, WindbgIInv, SxeUd(m) PROVE WindbgIInv'
<1>1. /\ gone' = gone \cup UdDeletes(m) /\ wanted' = wanted \ {m}
      /\ breakpoints' = breakpoints
      /\ UNCHANGED <<load, context, alive, insn, traceVars, offBy>>
  BY DEF SxeUd
<1>2. \A i \in UdDeletes(m) : i \in 1..Len(breakpoints) /\ breakpoints[i] = m
  BY DEF UdDeletes, Listed
<1>3. WindbgTypeOK'
  BY <1>1, <1>2 DEF WindbgIInv, WindbgTypeOK, traceVars
<1>4. WantedHeld'
  BY <1>1, <1>2 DEF WindbgIInv, WantedHeld
<1>5. CountAddsUp'
  BY <1>1, TraceUntouched
<1>6. ContextComesBack'
  BY <1>1 DEF WindbgIInv, ContextComesBack, AtPrompt, traceVars
<1>7. LeftWanted'
  <2> SUFFICES ASSUME NEW i \in 1..Len(breakpoints), i \notin gone'
               PROVE  breakpoints[i] \in wanted' \/ Again(breakpoints[i])
    <3>1. \A w : Again(w)' = Again(w)
      BY <1>1 DEF Again, Listed
    <3> QED
      BY <1>1, <3>1 DEF LeftWanted
  <2>1. i \notin gone /\ i \notin UdDeletes(m)
    BY <1>1
  <2>2. breakpoints[i] \in wanted \/ Again(breakpoints[i])
    BY <2>1 DEF WindbgIInv, LeftWanted
  <2>3. CASE breakpoints[i] = m
    <3>1. i \in Listed(m) /\ ~(\A j \in Listed(m) : i <= j)
      BY <2>1, <2>3 DEF UdDeletes, Listed
    <3>2. PICK j \in Listed(m) : ~(i <= j)
      BY <3>1
    <3>3. i # j
      BY <3>2 DEF Listed
    <3> QED
      BY <2>3, <3>1, <3>3 DEF Again
  <2> QED
    BY <1>1, <2>2, <2>3
<1> QED
  BY <1>3, <1>4, <1>5, <1>6, <1>7 DEF WindbgIInv

-----------------------------------------------------------------------------
\* A trace starts with all of its COUNT left.
LEMMA CmdIInv ==
    ASSUME NEW t \in Traces, NEW n \in Counts \cup {NoCount}, WindbgIInv,
           TraceCmd(t, n)
    PROVE  WindbgIInv'
<1>1. /\ trace' = t /\ cnt' = n /\ asked' = n /\ steps' = 0
      /\ UNCHANGED <<breakpoints, gone, wanted, load, context, alive, insn, offBy>>
  BY DEF TraceCmd, sxeVars
<1>2. t # "none" /\ n \in Int \cup {NoCount}
  BY WindbgAssumption DEF Traces
<1>3. WindbgTypeOK'
  BY <1>1, <1>2 DEF WindbgIInv, WindbgTypeOK
<1>4. CountAddsUp'
  BY <1>1, <1>2 DEF CountAddsUp
<1>5. ContextComesBack'
  BY <1>1, <1>2 DEF ContextComesBack, AtPrompt
<1> QED
  BY <1>1, <1>3, <1>4, <1>5, SxeUntouched DEF WindbgIInv

\* A counted step leaves one less, and makes one more.
LEMMA StepCounts ==
    ASSUME WindbgIInv, NEW k \in Kinds, TraceStep(k)
    PROVE  /\ cnt' \in Int \cup {NoCount} /\ steps' \in Nat
           /\ asked \in Nat => cnt' \in Nat /\ steps' = asked - cnt'
           /\ asked \notin Nat => cnt' = asked
<1>1. /\ trace # "none" /\ cnt # 0
      /\ cnt' = (IF cnt = NoCount \/ cnt < 0 THEN cnt ELSE cnt - 1)
      /\ steps' = (IF steps < MaxCount THEN steps + 1 ELSE steps)
  BY DEF TraceStep, Goes, Decremented, Counted
<1>2. cnt \in Int \cup {NoCount} /\ asked \in Int \cup {NoCount} /\ steps \in Nat
  BY DEF WindbgIInv, WindbgTypeOK
<1>3. NoCount \notin Int
  BY WindbgAssumption
<1>4. cnt' \in Int \cup {NoCount} /\ steps' \in Nat
  BY <1>1, <1>2
<1>5. CASE asked \in Nat
  <2>1. cnt \in Nat /\ steps = asked - cnt /\ asked \in Counts
    BY <1>1, <1>3, <1>5 DEF WindbgIInv, CountAddsUp
  <2>2. MaxCount \in Int /\ asked <= MaxCount
    <3>1. MaxCount \in Counts /\ \A m \in Counts : m <= MaxCount
      BY WindbgAssumption DEF MaxCount
    <3> QED
      BY <2>1, <3>1, WindbgAssumption
  <2>3. cnt' = cnt - 1 /\ steps' = steps + 1
    BY <1>1, <1>2, <1>3, <2>1, <2>2, <1>5
  <2> QED
    BY <1>1, <1>4, <1>5, <2>1, <2>3
<1>6. CASE asked \notin Nat
  <2>1. cnt = asked
    BY <1>1, <1>6 DEF WindbgIInv, CountAddsUp
  <2>2. cnt = NoCount \/ cnt < 0
    BY <1>2, <1>6, <2>1
  <2> QED
    BY <1>1, <1>4, <1>6, <2>1, <2>2
<1> QED
  BY <1>5, <1>6

\* A step of a trace.
LEMMA StepIInv == ASSUME NEW k \in Kinds, WindbgIInv, TraceStep(k) PROVE WindbgIInv'
<1>1. /\ trace # "none" /\ insn' = k
      /\ UNCHANGED <<breakpoints, gone, wanted, load, alive, asked>>
      /\ \/ trace' = "none" /\ context' = "on" /\ offBy' = "nobody"
         \/ trace' = trace /\ context' = "off" /\ offBy' = "loop"
  BY DEF TraceStep, sxeVars
<1>2. WindbgTypeOK'
  BY <1>1, StepCounts DEF WindbgIInv, WindbgTypeOK
<1>3. CountAddsUp'
  BY <1>1, StepCounts DEF WindbgIInv, CountAddsUp
<1>4. ContextComesBack'
  BY <1>1 DEF ContextComesBack, AtPrompt
<1> QED
  BY <1>1, <1>2, <1>3, <1>4, SxeUntouched DEF WindbgIInv

\* The two ends of the loop.
LEMMA EndIInv == WindbgIInv /\ (TraceRaises \/ TraceEnds) => WindbgIInv'
<1> SUFFICES ASSUME WindbgIInv, TraceRaises \/ TraceEnds PROVE WindbgIInv'
  OBVIOUS
<1>1. /\ trace' = "none" /\ alive' \in {"alive", "dead"}
      /\ UNCHANGED <<breakpoints, gone, wanted, load, insn, cnt, asked, steps>>
      /\ \/ context' = "off" /\ offBy' = "raise"
         \/ context' = "on" /\ offBy' = "nobody"
  BY DEF TraceRaises, TraceEnds, sxeVars, EndSets, WindbgIInv, WindbgTypeOK
<1>2. WindbgTypeOK'
  BY <1>1 DEF WindbgIInv, WindbgTypeOK
<1>3. CountAddsUp' /\ ContextComesBack'
  BY <1>1 DEF CountAddsUp, ContextComesBack
<1> QED
  BY <1>1, <1>2, <1>3, SxeUntouched DEF WindbgIInv

-----------------------------------------------------------------------------
\* `g`, the end of the program, and the user's setting.
LEMMA OthersIInv ==
    ASSUME WindbgIInv,
           \/ \E path \in Paths : GoLoads(path)
           \/ \E k \in Kinds : GoStops(k)
           \/ GoExits
           \/ \E v \in {"on", "off"} : SetContext(v)
    PROVE  WindbgIInv'
<1>1. /\ UNCHANGED <<breakpoints, gone, wanted>> /\ UNCHANGED traceVars
      /\ alive' \in {"alive", "dead"} /\ insn' \in Kinds
      /\ load' \in [path : Paths, went : {"stopped", "on"}] \cup {NoLoad}
      /\ \/ UNCHANGED <<context, offBy>>
         \/ context' = "on" /\ offBy' = "nobody"
         \/ context' = "off" /\ offBy' = "user"
  <2>1. CASE \E path \in Paths : GoLoads(path)
    BY <2>1 DEF GoLoads
  <2>2. CASE \E k \in Kinds : GoStops(k)
    BY <2>2 DEF GoStops, WindbgIInv, WindbgTypeOK, sxeVars
  <2>3. CASE GoExits
    BY <2>3 DEF GoExits, WindbgIInv, WindbgTypeOK, sxeVars
  <2>4. CASE \E v \in {"on", "off"} : SetContext(v)
    BY <2>4 DEF SetContext, WindbgIInv, WindbgTypeOK, sxeVars
  <2> QED
    BY <2>1, <2>2, <2>3, <2>4
<1>2. WindbgTypeOK'
  BY <1>1 DEF WindbgIInv, WindbgTypeOK, traceVars
<1>3. ContextComesBack'
  BY <1>1 DEF WindbgIInv, ContextComesBack, AtPrompt, traceVars
<1> QED
  BY <1>1, <1>2, <1>3, SxeUntouched, TraceUntouched DEF WindbgIInv

\* Every step preserves the invariant.
LEMMA WindbgNextIInv == WindbgIInv /\ [WindbgNext]_windbgVars => WindbgIInv'
<1> SUFFICES ASSUME WindbgIInv, [WindbgNext]_windbgVars PROVE WindbgIInv'
  OBVIOUS
<1>1. CASE \E m \in Modules : SxeLd(m) \/ SxeUd(m)
  BY <1>1, LdIInv, UdIInv
<1>2. CASE \E t \in Traces, n \in Counts \cup {NoCount} : TraceCmd(t, n)
  BY <1>2, CmdIInv
<1>3. CASE TraceGoesOn
  BY <1>3, StepIInv, EndIInv DEF TraceGoesOn
<1>4. CASE UNCHANGED windbgVars
  <2>1. /\ UNCHANGED <<breakpoints, gone, wanted>> /\ UNCHANGED traceVars
        /\ UNCHANGED <<load, context, alive, insn, offBy>>
    BY <1>4 DEF windbgVars, traceVars
  <2>2. WindbgTypeOK' /\ ContextComesBack'
    BY <2>1 DEF WindbgIInv, WindbgTypeOK, ContextComesBack, AtPrompt, traceVars
  <2> QED
    BY <2>1, <2>2, SxeUntouched, TraceUntouched DEF WindbgIInv
<1> QED
  BY <1>1, <1>2, <1>3, <1>4, OthersIInv DEF WindbgNext

\* The invariant holds in every state.
LEMMA WindbgInductive == WindbgSpec => []WindbgIInv
  BY WindbgInitIInv, WindbgNextIInv, PTL DEF WindbgSpec

-----------------------------------------------------------------------------
\* The variables of the WinDbg commands have their types.
THEOREM WindbgTypeCorrect == WindbgSpec => []WindbgTypeOK
  BY WindbgInductive, PTL DEF WindbgIInv

\* No trace that ended by itself leaves the context display off.
THEOREM ContextAlwaysBack == WindbgSpec => []ContextComesBack
  BY WindbgInductive, PTL DEF WindbgIInv

\* A load that `g` passes without a stop is of no module whose last word was `ld`.
LEMMA LoadsHeld ==
    WindbgIInv /\ [WindbgNext]_windbgVars =>
        [load' # load /\ load'.went = "on" =>
            \A m \in wanted : <<load'.path, m>> \notin EndsWith]_windbgVars
<1> SUFFICES ASSUME WindbgIInv, WindbgNext, load' # load, load'.went = "on",
                    NEW m \in wanted,
                    <<load'.path, m>> \in EndsWith
             PROVE  FALSE
  BY DEF windbgVars
<1>1. PICK path \in Paths : GoLoads(path)
  BY DEF WindbgNext, SxeLd, SxeUd, TraceCmd, TraceGoesOn, TraceStep, TraceRaises,
         TraceEnds, GoStops, GoExits, SetContext, sxeVars
<1>2. load'.path = path /\ ~StopsAt(path)
  BY <1>1 DEF GoLoads
<1>3. PICK i \in 1..Len(breakpoints) : i \notin gone /\ breakpoints[i] = m
  BY DEF WindbgIInv, WantedHeld
<1> QED
  BY <1>2, <1>3 DEF StopsAt

\* `sxe ld` holds until the `ud` of its module, whatever else is set and removed.
THEOREM SxeAlwaysHolds == WindbgSpec => SxeHolds
<1>1. WindbgSpec => []WindbgIInv
  BY WindbgInductive
<1>2. WindbgIInv /\ [WindbgNext]_windbgVars =>
          [load' # load /\ load'.went = "on" =>
              \A m \in wanted : <<load'.path, m>> \notin EndsWith]_windbgVars
  BY LoadsHeld
<1> QED
  BY <1>1, <1>2, PTL DEF WindbgSpec, SxeHolds

\* A load that stopped `g` is of a module with a breakpoint that is not deleted.
LEMMA StopsWanted ==
    WindbgIInv /\ [WindbgNext]_windbgVars =>
        [load' # load /\ load'.went = "stopped" =>
            \E m \in Modules : <<load'.path, m>> \in EndsWith
                               /\ (m \in wanted \/ Again(m))]_windbgVars
<1> SUFFICES ASSUME WindbgIInv, WindbgNext, load' # load, load'.went = "stopped"
             PROVE  \E m \in Modules : <<load'.path, m>> \in EndsWith
                                       /\ (m \in wanted \/ Again(m))
  BY DEF windbgVars
<1>1. PICK path \in Paths : GoLoads(path)
  BY DEF WindbgNext, SxeLd, SxeUd, TraceCmd, TraceGoesOn, TraceStep, TraceRaises,
         TraceEnds, GoStops, GoExits, SetContext, sxeVars
<1>2. load'.path = path /\ StopsAt(path)
  BY <1>1 DEF GoLoads
<1>3. PICK i \in 1..Len(breakpoints) :
          i \notin gone /\ <<path, breakpoints[i]>> \in EndsWith
  BY <1>2 DEF StopsAt
<1>4. breakpoints[i] \in Modules
  BY DEF WindbgIInv, WindbgTypeOK
<1> QED
  BY <1>2, <1>3, <1>4 DEF WindbgIInv, LeftWanted

\* What stops `g` was asked for last, or asked for more than once.
THEOREM StopsWereWanted == WindbgSpec => StopsAreWanted
<1>1. WindbgSpec => []WindbgIInv
  BY WindbgInductive
<1>2. WindbgIInv /\ [WindbgNext]_windbgVars =>
          [load' # load /\ load'.went = "stopped" =>
              \E m \in Modules : <<load'.path, m>> \in EndsWith
                                 /\ (m \in wanted \/ Again(m))]_windbgVars
  BY StopsWanted
<1> QED
  BY <1>1, <1>2, PTL DEF WindbgSpec, StopsAreWanted

\* One step of the loop passes no instruction it was to stop at, and its end is
\* where it was asked to be.
LEMMA StepsAsAsked ==
    WindbgIInv /\ [WindbgNext]_windbgVars =>
        [trace # "none" /\ offBy' # "raise" =>
            IF trace' = "none"
            THEN Stops(trace, insn') \/ (asked \in Nat /\ steps' = asked)
            ELSE ~Stops(trace, insn') /\ (asked \in Nat => steps' <= asked)]_windbgVars
<1> SUFFICES ASSUME WindbgIInv, WindbgNext, trace # "none", offBy' # "raise"
             PROVE  IF trace' = "none"
                    THEN Stops(trace, insn') \/ (asked \in Nat /\ steps' = asked)
                    ELSE ~Stops(trace, insn') /\ (asked \in Nat => steps' <= asked)
  BY DEF windbgVars
<1>1. (\E k \in Kinds : TraceStep(k)) \/ TraceEnds
  BY DEF WindbgNext, TraceGoesOn, TraceRaises, SxeLd, SxeUd, TraceCmd, GoLoads, GoStops,
         GoExits, SetContext, AtPrompt
<1>2. CASE \E k \in Kinds : TraceStep(k)
  <2> PICK k \in Kinds : TraceStep(k)
    BY <1>2
  <2>1. insn' = k /\ (IF Stops(trace, k) THEN trace' = "none" ELSE trace' = trace)
    BY DEF TraceStep, StopsNow
  <2>2. asked \in Nat => cnt' \in Nat /\ steps' \in Nat /\ steps' = asked - cnt'
    BY StepCounts
  <2>3. asked \in Nat => steps' <= asked
    BY <2>2
  <2> QED
    BY <2>1, <2>3
<1>3. CASE TraceEnds
  <2>1. trace' = "none" /\ cnt = 0 /\ steps' = steps
    BY <1>3 DEF TraceEnds, Goes
  <2>2. asked \in Int \cup {NoCount} /\ steps \in Nat /\ NoCount \notin Int
    BY WindbgAssumption DEF WindbgIInv, WindbgTypeOK
  <2>3. asked \in Nat
    BY <2>1, <2>2 DEF WindbgIInv, CountAddsUp
  <2>4. steps = asked
    BY <2>1, <2>2, <2>3 DEF WindbgIInv, CountAddsUp
  <2> QED
    BY <2>1, <2>3, <2>4
<1> QED
  BY <1>1, <1>2, <1>3

\* A trace ends at an instruction it was to stop at or after the steps asked for.
THEOREM TracesEndWhereAsked == WindbgSpec => EndsWhereAsked
<1>1. WindbgSpec => []WindbgIInv
  BY WindbgInductive
<1>2. WindbgIInv /\ [WindbgNext]_windbgVars =>
          [trace # "none" /\ offBy' # "raise" =>
              IF trace' = "none"
              THEN Stops(trace, insn') \/ (asked \in Nat /\ steps' = asked)
              ELSE ~Stops(trace, insn') /\ (asked \in Nat => steps' <= asked)]_windbgVars
  BY StepsAsAsked
<1> QED
  BY <1>1, <1>2, PTL DEF WindbgSpec, EndsWhereAsked

\* Each turn of the loop ends a trace with a COUNT or leaves one step less to
\* make, whatever the instructions are: the loop makes finitely many turns.  That
\* each of them is over some time is up to the program it steps.
THEOREM TraceCountsDown ==
    WindbgSpec => [][trace # "none" /\ trace' # "none" /\ asked \in Nat =>
                        cnt \in Nat /\ cnt' \in Nat /\ cnt' < cnt]_windbgVars
<1> DEFINE Down == trace # "none" /\ trace' # "none" /\ asked \in Nat =>
                       cnt \in Nat /\ cnt' \in Nat /\ cnt' < cnt
<1>1. WindbgIInv /\ [WindbgNext]_windbgVars => [Down]_windbgVars
  <2> SUFFICES ASSUME WindbgIInv, WindbgNext, trace # "none", trace' # "none",
                      asked \in Nat
               PROVE  cnt \in Nat /\ cnt' \in Nat /\ cnt' < cnt
    OBVIOUS
  <2>1. PICK k \in Kinds : TraceStep(k)
    BY DEF WindbgNext, TraceGoesOn, TraceRaises, TraceEnds, SxeLd, SxeUd, TraceCmd,
           GoLoads, GoStops, GoExits, SetContext, AtPrompt
  <2>2. cnt \in Nat /\ cnt # 0 /\ NoCount \notin Int
    BY <2>1, WindbgAssumption DEF WindbgIInv, CountAddsUp, TraceStep, Goes
  <2>3. cnt' = cnt - 1
    BY <2>1, <2>2 DEF TraceStep, Decremented
  <2> QED
    BY <2>2, <2>3
<1> QED
  BY <1>1, WindbgInductive, PTL DEF WindbgSpec

-----------------------------------------------------------------------------
(* The function tracer.                                                    *)

OpenCalls == {c \in DOMAIN calls : calls[c].end = "open"}

\* The stack holds the open calls, in the order they were made.
FramesAreOpen ==
    /\ \A i, j \in 1..Len(stack) : i < j => stack[i] < stack[j]
    /\ ToSet(stack) = OpenCalls

\* What the breakpoints hit by the calls that ended like this are to write.
Dues(how) ==
    UNION {UNION {FinishesOf(id, c, calls[c].regs) : id \in calls[c].by} :
              c \in {d \in DOMAIN calls : calls[d].end = how}}

\* GDB has the finish breakpoints of all open calls and of no others, and all
\* those of a call are on record or lost when it returned, and none otherwise.
AllDuesPaid ==
    /\ finish = Dues("open")
    /\ records \cup lost = Dues("returned") /\ records \cap lost = {}
    /\ file \subseteq records

\* A call hits breakpoints of its own function.
HitsTrue ==
    \A c \in DOMAIN calls : \A id \in calls[c].by :
        entry[id].fn = calls[c].fn

CallEnds == {"open", "returned", "unwound"}

FtraceTypes ==
    /\ calls \in Seq([fn : Funcs, regs : Regs, by : SUBSET Nat, end : CallEnds])
    /\ stack \in Seq(Nat) /\ retbp \in Seq(Nat) /\ bkps \in Seq(Nat)

\* Inductive.
FtraceIInv == /\ FtraceTypes /\ FtraceTypeOK /\ FramesAreOpen /\ AllDuesPaid
              /\ HitsTrue

\* As many registers are looked at as were asked for, and as there are.
LEMMA ArgsAreRegs ==
    ASSUME entry \in Seq(Items), NEW id \in DOMAIN entry, NEW regs \in Regs
    PROVE  /\ NbRegs(id) \in 0..Params
           /\ Len(ArgsOf(id, regs)) = NbRegs(id)
           /\ ArgsOf(id, regs) = SubSeq(regs, 1, NbRegs(id))
<1>0. entry[id] \in Items
  OBVIOUS
<1>1. entry[id].nb \in Nat /\ Params \in Nat
  BY <1>0, FtraceAssumption DEF Items
<1>2. NbRegs(id) \in 0..Params
  BY <1>1 DEF NbRegs
<1>3. regs \in Seq(Range(regs)) /\ Len(regs) = Params
  BY <1>1, FtraceAssumption
<1>4. Len(SubSeq(regs, 1, NbRegs(id))) = NbRegs(id)
  BY <1>1, <1>2, <1>3
<1> QED
  BY <1>2, <1>4 DEF ArgsOf

\* What one breakpoint is to write about a call: a record per register.
LEMMA FinishesAre ==
    ASSUME entry \in Seq(Items), NEW id \in DOMAIN entry, NEW regs \in Regs,
           NEW c, NEW b \in FinishesOf(id, c, regs)
    PROVE  /\ b.id = id /\ b.call = c
           /\ b.nth \in 1..Params /\ b.nth <= Len(b.regs)
           /\ b.regs = SubSeq(regs, 1, NbRegs(id))
  BY ArgsAreRegs, FtraceAssumption DEF FinishesOf

\* As many of them as the function has parameters.
LEMMA FinishesCount ==
    ASSUME entry \in Seq(Items), NEW id \in DOMAIN entry, NEW regs \in Regs,
           NEW c
    PROVE  Cardinality(FinishesOf(id, c, regs)) = NbRegs(id)
<1> DEFINE n == Len(ArgsOf(id, regs))
           at == [k \in 1..n |-> [id |-> id, call |-> c, nth |-> k,
                                  regs |-> ArgsOf(id, regs)]]
<1>1. at \in Bijection(1..n, FinishesOf(id, c, regs))
  BY DEF Bijection, Injection, Surjection, IsInjective, FinishesOf
<1>2. ExistsBijection(1..n, FinishesOf(id, c, regs))
  BY <1>1 DEF ExistsBijection
<1>3. n = NbRegs(id) /\ n \in Nat
  BY ArgsAreRegs, FtraceAssumption
<1> QED
  BY <1>2, <1>3, FS_CountingElements

\* The records that are due, by call.
LEMMA DuesAre ==
    ASSUME NEW how, NEW b
    PROVE  b \in Dues(how) <=>
              \E c \in DOMAIN calls : /\ calls[c].end = how
                                      /\ \E id \in calls[c].by :
                                            b \in FinishesOf(id, c, calls[c].regs)
  BY DEF Dues

\* A record that is due is of a call that was made and a breakpoint it hit, and
\* is what that breakpoint was to write.
LEMMA DuesTell ==
    ASSUME FtraceIInv, NEW how, NEW b \in Dues(how)
    PROVE  /\ b.call \in DOMAIN calls /\ calls[b.call].end = how
           /\ b.id \in calls[b.call].by /\ b.id \in DOMAIN entry
           /\ b \in FinishesOf(b.id, b.call, calls[b.call].regs)
           /\ b.nth \in 1..Params /\ b.nth <= Len(b.regs)
           /\ b.regs = SubSeq(calls[b.call].regs, 1, NbRegs(b.id))
<1>0. PICK c \in DOMAIN calls :
              calls[c].end = how
              /\ \E id \in calls[c].by : b \in FinishesOf(id, c, calls[c].regs)
  BY DuesAre
<1>1. PICK id \in calls[c].by : b \in FinishesOf(id, c, calls[c].regs)
  BY <1>0
<1>2. entry \in Seq(Items) /\ id \in DOMAIN entry /\ calls[c].regs \in Regs
  BY DEF FtraceIInv, FtraceTypeOK
<1> QED
  BY <1>0, <1>1, <1>2, FinishesAre

\* The same of the next state, if no breakpoint is made.
LEMMA DuesAreNext ==
    ASSUME entry' = entry, NEW how, NEW b
    PROVE  b \in Dues(how)' <=>
              \E c \in DOMAIN calls' : /\ calls'[c].end = how
                                       /\ \E id \in calls'[c].by :
                                             b \in FinishesOf(id, c, calls'[c].regs)
<1>1. b \in Dues(how)' <=>
         \E c \in DOMAIN calls' :
            /\ calls'[c].end = how
            /\ \E id \in calls'[c].by : b \in FinishesOf(id, c, calls[c].regs)'
  BY DEF Dues
<1>2. ASSUME NEW c, NEW id
      PROVE  b \in FinishesOf(id, c, calls[c].regs)' <=>
                b \in FinishesOf(id, c, calls'[c].regs)
  BY DEF FinishesOf, ArgsOf, NbRegs
<1> QED
  BY <1>1, <1>2

\* When calls end, what is due of the open ones is due of those that returned,
\* or of nobody.
LEMMA EndedDues ==
    ASSUME FtraceIInv, NEW cs \in SUBSET OpenCalls,
           NEW how \in {"returned", "unwound"},
           calls' = Ended(cs, how), entry' = entry
    PROVE  /\ OpenCalls' = OpenCalls \ cs
           /\ Dues("open")' = {b \in Dues("open") : b.call \notin cs}
           /\ Dues("returned")' =
                 Dues("returned") \cup (IF how = "returned"
                                        THEN {b \in Dues("open") : b.call \in cs}
                                        ELSE {})
           /\ calls' \in Seq([fn : Funcs, regs : Regs, by : SUBSET Nat, end : CallEnds])
           /\ DOMAIN calls' = DOMAIN calls
           /\ \A c \in DOMAIN calls : /\ calls'[c].fn = calls[c].fn
                                      /\ calls'[c].regs = calls[c].regs
                                      /\ calls'[c].by = calls[c].by
                                      /\ calls'[c].end \in CallEnds
<1> DEFINE Call0 == [fn : Funcs, regs : Regs, by : SUBSET Nat, end : CallEnds]
<1>1. calls \in Seq(Call0) /\ how \in CallEnds
  BY DEF FtraceIInv, FtraceTypes, CallEnds
<1>2. DOMAIN calls' = DOMAIN calls
  BY DEF Ended
<1>3. ASSUME NEW c \in DOMAIN calls
      PROVE  /\ calls[c] \in Call0
             /\ calls'[c] = IF c \in cs THEN [calls[c] EXCEPT !.end = how] ELSE calls[c]
  <2> HIDE DEF Call0
  <2>1. calls[c] \in Call0
    BY <1>1
  <2> QED
    BY <2>1 DEF Ended
<1>4. ASSUME NEW c \in DOMAIN calls
      PROVE  /\ calls'[c] \in Call0
             /\ calls'[c].fn = calls[c].fn /\ calls'[c].regs = calls[c].regs
             /\ calls'[c].by = calls[c].by
             /\ calls'[c].end = IF c \in cs THEN how ELSE calls[c].end
  BY <1>1, <1>3
<1>5. calls' \in Seq(Call0)
  <2> HIDE DEF Call0
  <2>1. DOMAIN calls = 1..Len(calls) /\ Len(calls) \in Nat
    BY <1>1
  <2>2. calls' = [c \in 1..Len(calls) |-> calls'[c]]
    BY <2>1 DEF Ended
  <2>3. calls' \in [1..Len(calls) -> Call0]
    BY <2>1, <2>2, <1>4
  <2> QED
    BY <2>1, <2>3
<1>6. \A c \in cs : c \in DOMAIN calls /\ calls[c].end = "open"
  BY DEF OpenCalls
<1>7. OpenCalls' = OpenCalls \ cs
  BY <1>2, <1>4, <1>6 DEF OpenCalls
<1>9. ASSUME NEW h, NEW b
      PROVE  b \in Dues(h)' <=>
                \E c \in DOMAIN calls :
                   /\ (IF c \in cs THEN how ELSE calls[c].end) = h
                   /\ \E id \in calls[c].by : b \in FinishesOf(id, c, calls[c].regs)
  BY <1>2, <1>4, DuesAreNext
<1>10. ASSUME NEW id, NEW c, NEW regs, NEW b \in FinishesOf(id, c, regs)
       PROVE  b.call = c
  BY DEF FinishesOf
<1>11. Dues("open")' = {b \in Dues("open") : b.call \notin cs}
  BY <1>9, <1>10, DuesAre
<1>12. ASSUME NEW b
       PROVE  b \in Dues("returned")' <=>
                 \/ b \in Dues("returned")
                 \/ how = "returned" /\ b \in Dues("open") /\ b.call \in cs
  BY <1>6, <1>9, <1>10, DuesAre
<1> QED
  BY <1>2, <1>4, <1>5, <1>7, <1>11, <1>12, <1>1

\* The initial states satisfy the invariant.
LEMMA FtraceInitIInv == FtraceInit => FtraceIInv
<1> SUFFICES ASSUME FtraceInit PROVE FtraceIInv
  OBVIOUS
<1>1. FtraceTypes /\ FtraceTypeOK
  BY FtraceAssumption DEF FtraceInit, FtraceTypes, FtraceTypeOK, ToSet
<1>2. FramesAreOpen /\ HitsTrue
  BY DEF FtraceInit, FramesAreOpen, OpenCalls, HitsTrue, ToSet
<1>3. AllDuesPaid
  BY DEF FtraceInit, AllDuesPaid, Dues
<1> QED
  BY <1>1, <1>2, <1>3 DEF FtraceIInv

\* A command adds breakpoints behind the others, and the calls keep what they
\* are due.
LEMMA FtraceCmdIInv ==
    ASSUME NEW items \in Seq(Items), NEW bad \in BOOLEAN, FtraceIInv,
           FtraceCmd(items, bad)
    PROVE  FtraceIInv'
<1> DEFINE n   == Len(entry)
           k   == Len(items)
           new == [i \in 1..k |-> n + i]
           old == [i \in 1..k |-> 0]
<1>1. /\ entry' = entry \o items /\ retbp' = retbp \o old
      /\ set' = set \cup ToSet(new) /\ bkps' = new
      /\ hooks' = (IF bad THEN hooks ELSE hooks + 1) /\ hooks < MaxHooks
      /\ UNCHANGED <<calls, stack, finish, records, lost, file>>
      /\ n + k <= MaxBps
  BY DEF FtraceCmd, written
<1>2. /\ entry \in Seq(Items) /\ n \in Nat /\ DOMAIN entry = 1..n
      /\ retbp \in Seq(Nat) /\ DOMAIN retbp = 1..n /\ Len(retbp) = n
  BY DEF FtraceIInv, FtraceTypeOK, FtraceTypes
<1>3. /\ k \in Nat /\ new \in Seq(Nat) /\ ToSet(new) \subseteq 1..(n + k)
      /\ old \in Seq(Nat) /\ Len(old) = k /\ \A i \in 1..k : old[i] = 0
  <2>1. k \in Nat
    OBVIOUS
  <2>2. new \in [1..k -> Nat] /\ old \in [1..k -> Nat]
    BY <1>2, <2>1
  <2>3. \A i \in 1..k : new[i] \in 1..(n + k)
    BY <1>2, <2>1
  <2>4. ToSet(new) \subseteq 1..(n + k)
    BY <2>3 DEF ToSet
  <2> QED
    BY <2>1, <2>2, <2>4
<1>4. /\ entry' \in Seq(Items) /\ DOMAIN entry' = 1..(n + k) /\ Len(entry') = n + k
      /\ \A id \in DOMAIN entry : entry'[id] = entry[id] /\ id \in DOMAIN entry'
  BY <1>1, <1>2, <1>3
<1>5. /\ retbp' \in Seq(Nat) /\ DOMAIN retbp' = 1..(n + k)
      /\ \A id \in DOMAIN retbp' :
            retbp'[id] = IF id \in DOMAIN retbp THEN retbp[id] ELSE 0
  <2>1. retbp' \in Seq(Nat) /\ Len(retbp') = n + k
    BY <1>1, <1>2, <1>3
  <2>2. \A id \in 1..(n + k) : retbp'[id] = IF id <= n THEN retbp[id] ELSE old[id - n]
    <3> HIDE DEF old
    <3> QED
      BY <1>1, <1>2, <1>3
  <2> QED
    BY <1>2, <1>3, <2>1, <2>2
<1>6. FtraceTypes'
  BY <1>1, <1>3, <1>5 DEF FtraceIInv, FtraceTypes
<1>7. FtraceTypeOK'
  <2>1. /\ set' \subseteq DOMAIN entry' /\ ToSet(bkps)' \subseteq DOMAIN entry'
    <3>1. /\ set \subseteq 1..(n + k)
          /\ ToSet(bkps) \subseteq 1..(n + k)
      BY <1>2, <1>3 DEF FtraceIInv, FtraceTypeOK
    <3> QED
      BY <1>1, <1>3, <1>4, <3>1
  <2>2. \A id \in DOMAIN retbp' : retbp'[id] \in {0} \cup DOMAIN calls'
    BY <1>1, <1>5 DEF FtraceIInv, FtraceTypeOK
  <2>3. hooks' \in 0..MaxHooks
    BY <1>1, FtraceAssumption DEF FtraceIInv, FtraceTypeOK
  <2>4. \A c \in DOMAIN calls' :
          /\ calls'[c].fn \in Funcs /\ calls'[c].regs \in Regs
          /\ calls'[c].by \subseteq DOMAIN entry'
          /\ calls'[c].end \in {"open", "returned", "unwound"}
    BY <1>1, <1>2, <1>4 DEF FtraceIInv, FtraceTypeOK
  <2>5. \A b \in finish' \cup records' \cup lost' :
          /\ b.id \in DOMAIN entry' /\ b.call \in DOMAIN calls'
          /\ b.nth \in 1..Params /\ b.nth <= Len(b.regs)
    BY <1>1, <1>2, <1>4 DEF FtraceIInv, FtraceTypeOK
  <2>6. ToSet(stack)' \subseteq DOMAIN calls'
    BY <1>1 DEF FtraceIInv, FtraceTypeOK, ToSet
  <2> QED
    BY <1>1, <1>4, <1>5, <2>1, <2>2, <2>3, <2>4, <2>5, <2>6 DEF FtraceTypeOK
<1>8. FramesAreOpen'
  BY <1>1 DEF FtraceIInv, FramesAreOpen, OpenCalls, ToSet
<1>9. AllDuesPaid'
  <2>1. ASSUME NEW how PROVE Dues(how)' = Dues(how)
    <3>1. ASSUME NEW c \in DOMAIN calls, NEW id \in calls[c].by
          PROVE  FinishesOf(id, c, calls[c].regs)' = FinishesOf(id, c, calls[c].regs)
      <4>1. id \in DOMAIN entry
        BY DEF FtraceIInv, FtraceTypeOK
      <4> QED
        BY <1>1, <1>4, <4>1 DEF FinishesOf, ArgsOf, NbRegs
    <3>2. ASSUME NEW b
          PROVE  b \in Dues(how)' <=> b \in Dues(how)
      <4>1. b \in Dues(how)' <=>
               \E c \in DOMAIN calls' :
                  /\ calls'[c].end = how
                  /\ \E id \in calls'[c].by : b \in FinishesOf(id, c, calls[c].regs)'
        BY DEF Dues
      <4> QED
        BY <1>1, <3>1, <4>1, DuesAre
    <3> QED
      BY <3>2
  <2> QED
    BY <1>1, <2>1 DEF FtraceIInv, AllDuesPaid
<1>10. HitsTrue'
  BY <1>1, <1>4 DEF FtraceIInv, FtraceTypeOK, HitsTrue
<1> QED
  BY <1>6, <1>7, <1>8, <1>9, <1>10 DEF FtraceIInv

\* A call is the innermost, and is due what it hit.
LEMMA CallIInv ==
    ASSUME NEW f \in Funcs, NEW regs \in Regs, FtraceIInv, Call(f, regs)
    PROVE  FtraceIInv'
<1> DEFINE c    == Len(calls) + 1
           hit  == {id \in Hit(f) : ArgsOf(id, regs) # << >>}
           made == UNION {FinishesOf(id, c, regs) : id \in hit}
           call == [fn |-> f, regs |-> regs, by |-> Hit(f), end |-> "open"]
<1>1. /\ calls' = Append(calls, call) /\ stack' = Append(stack, c)
      /\ finish' = finish \cup made
      /\ retbp' = [id \in DOMAIN retbp |-> IF id \in hit THEN c ELSE retbp[id]]
      /\ UNCHANGED <<entry, set, bkps, hooks, records, lost, file>>
  BY DEF Call, written
<1>2. /\ calls \in Seq([fn : Funcs, regs : Regs, by : SUBSET Nat, end : CallEnds])
      /\ stack \in Seq(Nat) /\ retbp \in Seq(Nat) /\ bkps \in Seq(Nat)
      /\ entry \in Seq(Items) /\ DOMAIN retbp = DOMAIN entry
      /\ Hit(f) \subseteq DOMAIN entry /\ hit \subseteq DOMAIN entry
  BY DEF FtraceIInv, FtraceTypes, FtraceTypeOK, Hit
<1>3. call \in [fn : Funcs, regs : Regs, by : SUBSET Nat, end : CallEnds]
  <2>1. Hit(f) \in SUBSET Nat
    BY <1>2
  <2> QED
    BY <2>1 DEF CallEnds
<1>4. /\ calls' \in Seq([fn : Funcs, regs : Regs, by : SUBSET Nat, end : CallEnds])
      /\ c \in Nat /\ DOMAIN calls = 1..(c - 1) /\ DOMAIN calls' = 1..c
      /\ calls'[c] = call /\ \A d \in DOMAIN calls : calls'[d] = calls[d]
  <2> HIDE DEF call
  <2> QED
    BY <1>1, <1>2, <1>3
<1>5. /\ stack' \in Seq(Nat) /\ Len(stack') = Len(stack) + 1
      /\ stack'[Len(stack) + 1] = c /\ \A i \in 1..Len(stack) : stack'[i] = stack[i]
  BY <1>1, <1>2, <1>4
<1>6. ToSet(stack') = ToSet(stack) \cup {c}
  <2>1. /\ DOMAIN stack = 1..Len(stack) /\ Len(stack) \in Nat
        /\ DOMAIN stack' = 1..(Len(stack) + 1)
    BY <1>2, <1>5
  <2>2. \A i : i \in DOMAIN stack' <=> i \in DOMAIN stack \/ i = Len(stack) + 1
    BY <2>1
  <2> QED
    BY <1>5, <2>1, <2>2 DEF ToSet
<1>7. FtraceTypes'
  <2>1. retbp' \in Seq(Nat)
    <3>1. /\ DOMAIN retbp = 1..Len(retbp) /\ Len(retbp) \in Nat
          /\ \A id \in DOMAIN retbp : retbp[id] \in Nat
      BY <1>2
    <3> QED
      BY <1>1, <1>4, <3>1
  <2> QED
    BY <1>1, <1>2, <1>4, <1>5, <2>1 DEF FtraceTypes
<1>8. ASSUME NEW b \in made
      PROVE  /\ b.id \in DOMAIN entry /\ b.call = c
             /\ b.nth \in 1..Params /\ b.nth <= Len(b.regs)
  <2>1. PICK id \in hit : b \in FinishesOf(id, c, regs)
    OBVIOUS
  <2> QED
    BY <1>2, <2>1, FinishesAre
<1>9. FtraceTypeOK'
  <2>1. \A id \in DOMAIN retbp' : retbp'[id] \in {0} \cup DOMAIN calls'
    BY <1>1, <1>4 DEF FtraceIInv, FtraceTypeOK
  <2>2. \A d \in DOMAIN calls' :
          /\ calls'[d].fn \in Funcs /\ calls'[d].regs \in Regs
          /\ calls'[d].by \subseteq DOMAIN entry'
          /\ calls'[d].end \in {"open", "returned", "unwound"}
    <3>1. \A d \in DOMAIN calls' : d = c \/ d \in DOMAIN calls
      BY <1>4
    <3> QED
      BY <1>1, <1>2, <1>4, <3>1 DEF FtraceIInv, FtraceTypeOK
  <2>3. \A b \in finish' \cup records' \cup lost' :
          /\ b.id \in DOMAIN entry' /\ b.call \in DOMAIN calls'
          /\ b.nth \in 1..Params /\ b.nth <= Len(b.regs)
    <3> HIDE DEF made
    <3> QED
      BY <1>1, <1>4, <1>8 DEF FtraceIInv, FtraceTypeOK
  <2>4. ToSet(stack') \subseteq DOMAIN calls'
    BY <1>4, <1>6 DEF FtraceIInv, FtraceTypeOK
  <2>5. ToSet(bkps)' \subseteq DOMAIN entry'
    BY <1>1 DEF FtraceIInv, FtraceTypeOK, ToSet
  <2>6. DOMAIN retbp' = DOMAIN entry'
    BY <1>1, <1>2
  <2>7. ToSet(stack)' = ToSet(stack')
    BY DEF ToSet
  <2> QED
    BY <1>1, <2>1, <2>2, <2>3, <2>4, <2>5, <2>6, <2>7 DEF FtraceIInv, FtraceTypeOK
<1>10. FramesAreOpen'
  <2>1. \A i, j \in 1..Len(stack') : i < j => stack'[i] < stack'[j]
    <3>1. \A i \in 1..Len(stack) : stack[i] \in 1..(c - 1)
      BY <1>2, <1>4 DEF FtraceIInv, FtraceTypeOK, ToSet
    <3>2. \A i, j \in 1..Len(stack) : i < j => stack[i] < stack[j]
      BY DEF FtraceIInv, FramesAreOpen
    <3>3. Len(stack) \in Nat /\ c \in Nat /\ Len(stack') = Len(stack) + 1
      BY <1>2, <1>4, <1>5
    <3> SUFFICES ASSUME NEW i \in 1..Len(stack'), NEW j \in 1..Len(stack'), i < j
                 PROVE  stack'[i] < stack'[j]
      OBVIOUS
    <3>4. i \in 1..Len(stack)
      BY <3>3
    <3>5. CASE j \in 1..Len(stack)
      BY <1>5, <3>2, <3>4, <3>5
    <3>6. CASE j = Len(stack) + 1
      BY <1>5, <3>1, <3>3, <3>4, <3>6
    <3> QED
      BY <3>3, <3>5, <3>6
  <2>2. OpenCalls' = OpenCalls \cup {c}
    BY <1>4 DEF OpenCalls
  <2> QED
    BY <1>6, <2>1, <2>2 DEF FtraceIInv, FramesAreOpen, ToSet
<1>11. AllDuesPaid'
  <2>1. ASSUME NEW how, NEW b
        PROVE  b \in Dues(how)' <=> b \in Dues(how) \/ (how = "open" /\ b \in made)
    <3>1. b \in Dues(how)' <=>
             \/ b \in Dues(how)
             \/ how = "open" /\ \E id \in Hit(f) : b \in FinishesOf(id, c, regs)
      <4>1. entry' = entry
        BY <1>1
      <4>2. \A d : d \in DOMAIN calls' <=> d \in DOMAIN calls \/ d = c
        BY <1>4
      <4>3. /\ calls'[c].end = "open" /\ calls'[c].by = Hit(f)
            /\ calls'[c].regs = regs
        BY <1>4
      <4>4. b \in Dues(how)' <=>
              \E d \in DOMAIN calls' : /\ calls'[d].end = how
                                       /\ \E id \in calls'[d].by :
                                             b \in FinishesOf(id, d, calls'[d].regs)
        BY <4>1, DuesAreNext
      <4> HIDE DEF call, c, hit, made
      <4> QED
        BY <1>4, <4>2, <4>3, <4>4, DuesAre
    <3>2. ASSUME NEW id \in Hit(f), b \in FinishesOf(id, c, regs)
          PROVE  id \in hit
      BY <3>2 DEF FinishesOf
    <3> QED
      BY <3>1, <3>2
  <2> HIDE DEF made
  <2>2. Dues("open")' = Dues("open") \cup made /\ Dues("returned")' = Dues("returned")
    BY <2>1
  <2> QED
    BY <1>1, <2>2 DEF FtraceIInv, AllDuesPaid
<1>12. HitsTrue'
  <2>1. \A id \in Hit(f) : entry[id].fn = f
    BY DEF Hit
  <2>2. \A d \in DOMAIN calls' : d = c \/ d \in DOMAIN calls
    BY <1>4
  <2> QED
    BY <1>1, <1>4, <2>1, <2>2 DEF FtraceIInv, HitsTrue
<1> QED
  BY <1>7, <1>9, <1>10, <1>11, <1>12 DEF FtraceIInv

\* When calls end, everything else about the calls and breakpoints stays.
LEMMA EndedKeeps ==
    ASSUME FtraceIInv, NEW cs \in SUBSET OpenCalls,
           NEW how \in {"returned", "unwound"},
           calls' = Ended(cs, how),
           stack' \in Seq(Nat), ToSet(stack') = ToSet(stack) \ cs,
           \A i, j \in 1..Len(stack') : i < j => stack'[i] < stack'[j],
           finish' = {b \in finish : b.call \notin cs},
           NEW wrote \in SUBSET {b \in finish : b.call \in cs},
           how = "unwound" => wrote = {},
           records' = records \cup wrote,
           lost' = lost \cup (IF how = "returned"
                              THEN {b \in finish : b.call \in cs} \ wrote ELSE {}),
           file' \subseteq records',
           set' \subseteq set, hooks' \in 0..MaxHooks,
           UNCHANGED <<entry, retbp, bkps>>
    PROVE  FtraceIInv'
<1>1. entry' = entry
  OBVIOUS
<1>2. /\ OpenCalls' = OpenCalls \ cs
      /\ Dues("open")' = {b \in Dues("open") : b.call \notin cs}
      /\ Dues("returned")' =
            Dues("returned") \cup (IF how = "returned"
                                   THEN {b \in Dues("open") : b.call \in cs} ELSE {})
      /\ calls' \in Seq([fn : Funcs, regs : Regs, by : SUBSET Nat, end : CallEnds])
      /\ DOMAIN calls' = DOMAIN calls
      /\ \A c \in DOMAIN calls : /\ calls'[c].fn = calls[c].fn
                                 /\ calls'[c].regs = calls[c].regs
                                 /\ calls'[c].by = calls[c].by
                                 /\ calls'[c].end \in CallEnds
  BY <1>1, EndedDues
<1>3. FtraceTypes'
  BY <1>2 DEF FtraceIInv, FtraceTypes
<1>4. ToSet(stack)' = ToSet(stack') /\ ToSet(bkps)' = ToSet(bkps)
  BY DEF ToSet
<1>5. FramesAreOpen'
  BY <1>2, <1>4 DEF FtraceIInv, FramesAreOpen
<1>6. AllDuesPaid'
  <2>1. \A b \in finish : b \notin records \cup lost
    <3> SUFFICES ASSUME NEW b \in Dues("open") PROVE b \notin Dues("returned")
      BY DEF FtraceIInv, AllDuesPaid
    <3>1. calls[b.call].end = "open"
      BY DuesTell
    <3>2. b \in Dues("returned") => calls[b.call].end = "returned"
      BY DuesTell
    <3> QED
      BY <3>1, <3>2
  <2>2. /\ finish = Dues("open") /\ records \cup lost = Dues("returned")
        /\ records \cap lost = {}
    BY DEF FtraceIInv, AllDuesPaid
  <2>3. records' \cap lost' = {}
    BY <2>1, <2>2
  <2>4. records' \cup lost' = Dues("returned")'
    BY <1>2, <2>2
  <2> QED
    BY <1>2, <2>2, <2>3, <2>4 DEF AllDuesPaid
<1>7. FtraceTypeOK'
  <2>1. \A c \in DOMAIN calls' :
          /\ calls'[c].fn \in Funcs /\ calls'[c].regs \in Regs
          /\ calls'[c].by \subseteq DOMAIN entry'
          /\ calls'[c].end \in {"open", "returned", "unwound"}
    BY <1>2 DEF FtraceIInv, FtraceTypeOK, CallEnds
  <2>2. \A b \in finish' \cup records' \cup lost' :
          /\ b.id \in DOMAIN entry' /\ b.call \in DOMAIN calls'
          /\ b.nth \in 1..Params /\ b.nth <= Len(b.regs)
    BY <1>2 DEF FtraceIInv, FtraceTypeOK
  <2>3. \A id \in DOMAIN retbp' : retbp'[id] \in {0} \cup DOMAIN calls'
    BY <1>2 DEF FtraceIInv, FtraceTypeOK
  <2> QED
    BY <1>2, <1>4, <2>1, <2>2, <2>3 DEF FtraceIInv, FtraceTypeOK
<1>8. HitsTrue'
  BY <1>2 DEF FtraceIInv, HitsTrue
<1> QED
  BY <1>3, <1>5, <1>6, <1>7, <1>8 DEF FtraceIInv

\* Any frames that stay are still in order, and the others were open.
LEMMA FramesThatStay ==
    ASSUME FtraceIInv, NEW n \in 0..Len(stack), stack' = SubSeq(stack, 1, n)
    PROVE  /\ stack' \in Seq(Nat) /\ ToSet(stack') \subseteq ToSet(stack)
           /\ \A i, j \in 1..Len(stack') : i < j => stack'[i] < stack'[j]
           /\ ToSet(stack) \ ToSet(stack') \in SUBSET OpenCalls
           /\ ToSet(stack') = {stack[i] : i \in 1..n}
<1>1. stack \in Seq(Nat) /\ \A i, j \in 1..Len(stack) : i < j => stack[i] < stack[j]
  BY DEF FtraceIInv, FtraceTypes, FramesAreOpen
<1>2. /\ stack' \in Seq(Nat) /\ Len(stack') = n
      /\ \A i \in 1..n : stack'[i] = stack[i]
  BY <1>1
<1>3. ToSet(stack') = {stack[i] : i \in 1..n} /\ ToSet(stack') \subseteq ToSet(stack)
  <2>1. DOMAIN stack' = 1..n /\ \A i \in 1..n : i \in DOMAIN stack
    BY <1>1, <1>2
  <2>2. ToSet(stack') = {stack'[i] : i \in 1..n}
    BY <2>1 DEF ToSet
  <2>3. ToSet(stack') = {stack[i] : i \in 1..n}
    BY <1>2, <2>2
  <2> QED
    BY <2>1, <2>3 DEF ToSet
<1>4. ToSet(stack) = OpenCalls
  BY DEF FtraceIInv, FramesAreOpen
<1>5. \A i, j \in 1..Len(stack') : i < j => stack'[i] < stack'[j]
  BY <1>1, <1>2
<1> QED
  BY <1>2, <1>3, <1>4, <1>5

\* The finish breakpoints are those of the frames on the stack.
LEMMA FinishOfFrames ==
    ASSUME FtraceIInv, NEW b \in finish
    PROVE  b.call \in ToSet(stack)
<1>1. b \in Dues("open")
  BY DEF FtraceIInv, AllDuesPaid
<1>2. b.call \in DOMAIN calls /\ calls[b.call].end = "open"
  BY <1>1, DuesTell
<1> QED
  BY <1>2 DEF FtraceIInv, FramesAreOpen, OpenCalls

\* The innermost call returns: its finish breakpoints all write, or raise.
LEMMA ReturnIInv == ASSUME FtraceIInv, Return PROVE FtraceIInv'
<1> DEFINE c == Last(stack)
           n == Len(stack)
<1>1. /\ stack # << >> /\ stack' = Front(stack)
      /\ finish' = finish \ Firing(c)
      /\ calls' = Ended({c}, "returned")
      /\ UNCHANGED <<entry, set, retbp, bkps, hooks>>
  BY DEF Return, Running
<1>11. PICK wrote \in SUBSET Firing(c) :
          /\ records' = records \cup wrote
          /\ lost' = lost \cup (Firing(c) \ wrote)
          /\ file' \in FileAfter(wrote, Firing(c) \ wrote)
  BY DEF Return
<1>2. n \in Nat /\ n > 0 /\ c = stack[n] /\ DOMAIN stack = 1..n
  BY <1>1 DEF FtraceIInv, FtraceTypes, Last
<1> HIDE DEF n, c
<1>3. stack' = SubSeq(stack, 1, n - 1) /\ n - 1 \in 0..Len(stack)
  BY <1>1, <1>2 DEF Front, n
<1>4. /\ stack' \in Seq(Nat)
      /\ \A i, j \in 1..Len(stack') : i < j => stack'[i] < stack'[j]
      /\ ToSet(stack') = {stack[i] : i \in 1..(n - 1)}
  BY <1>3, FramesThatStay
<1>5. ToSet(stack') = ToSet(stack) \ {c}
  <2>1. ToSet(stack) = {stack[i] : i \in 1..n}
    BY <1>2 DEF ToSet
  <2>2. \A i \in 1..n : stack[i] = c <=> i = n
    <3>1. \A i \in 1..n : stack[i] \in Nat
      BY <1>2 DEF FtraceIInv, FtraceTypes
    <3>2. \A i \in 1..n : i < n => stack[i] < stack[n]
      BY <1>2 DEF FtraceIInv, FramesAreOpen
    <3>3. n \in 1..n
      BY <1>2
    <3> SUFFICES ASSUME NEW i \in 1..n PROVE stack[i] = c <=> i = n
      OBVIOUS
    <3>4. CASE i < n
      BY <1>2, <3>1, <3>2, <3>3, <3>4
    <3> QED
      BY <1>2, <3>4
  <2>3. \A i \in 1..n : i # n => i \in 1..(n - 1)
    BY <1>2
  <2>4. \A i \in 1..(n - 1) : i \in 1..n /\ i # n
    BY <1>2
  <2> QED
    BY <1>4, <2>1, <2>2, <2>3, <2>4
<1>6. {c} \in SUBSET OpenCalls
  BY <1>2 DEF FtraceIInv, FramesAreOpen, ToSet
<1>7. /\ finish' = {b \in finish : b.call \notin {c}}
      /\ wrote \in SUBSET {b \in finish : b.call \in {c}}
      /\ lost' = lost \cup ({b \in finish : b.call \in {c}} \ wrote)
  BY <1>1, <1>11 DEF Firing
<1>71. file' \subseteq records'
  <2>1. file \subseteq records
    BY DEF FtraceIInv, AllDuesPaid
  <2> QED
    BY <1>11, <2>1 DEF FileAfter
<1>8. hooks' \in 0..MaxHooks
  BY <1>1 DEF FtraceIInv, FtraceTypeOK
<1> QED
  BY <1>1, <1>11, <1>4, <1>5, <1>6, <1>7, <1>71, <1>8, EndedKeeps

\* Frames are unwound, and their finish breakpoints are gone.
LEMMA UnwindIInv == ASSUME NEW n \in Nat, FtraceIInv, Unwind(n) PROVE FtraceIInv'
<1> DEFINE cs == ToSet(stack) \ ToSet(stack')
<1>1. /\ n <= Len(stack) /\ stack' = SubSeq(stack, 1, Len(stack) - n)
      /\ finish' = {b \in finish : b.call \in ToSet(stack')}
      /\ calls' = Ended(cs, "unwound")
      /\ UNCHANGED <<entry, set, retbp, bkps, hooks, records, lost, file>>
  BY DEF Unwind, written
<1>2. Len(stack) - n \in 0..Len(stack)
  BY <1>1 DEF FtraceIInv, FtraceTypes
<1>3. /\ stack' \in Seq(Nat) /\ ToSet(stack') \subseteq ToSet(stack)
      /\ \A i, j \in 1..Len(stack') : i < j => stack'[i] < stack'[j]
      /\ cs \in SUBSET OpenCalls
  BY <1>1, <1>2, FramesThatStay
<1>4. ToSet(stack') = ToSet(stack) \ cs
  BY <1>3
<1>5. finish' = {b \in finish : b.call \notin cs}
  BY <1>1, FinishOfFrames
<1>6. hooks' \in 0..MaxHooks
  BY <1>1 DEF FtraceIInv, FtraceTypeOK
<1>7. file \subseteq records /\ {} \in SUBSET {b \in finish : b.call \in cs}
  BY DEF FtraceIInv, AllDuesPaid
<1>8. /\ records' = records \cup {} /\ lost' = lost \cup {}
      /\ file' \subseteq records'
  BY <1>1, <1>7
<1> HIDE DEF cs
<1> QED
  BY <1>1, <1>3, <1>4, <1>5, <1>6, <1>7, <1>8, EndedKeeps

\* The program exits: its calls end, and the handler deletes what it gets to.
LEMMA ExitIInv == ASSUME FtraceIInv, Exit PROVE FtraceIInv'
<1>1. /\ stack' = << >> /\ finish' = {}
      /\ calls' = Ended(ToSet(stack), "unwound")
      /\ UNCHANGED <<entry, retbp, bkps, records, lost, file>>
  BY DEF Exit, written
<1>2. set' \subseteq set
  BY DEF Exit
<1>3. hooks' \in 0..MaxHooks
  <2>1. \E done \in BOOLEAN : hooks' = HooksAfter(done)
    BY DEF Exit
  <2>2. hooks \in 0..MaxHooks /\ MaxHooks \in Nat
    BY FtraceAssumption DEF FtraceIInv, FtraceTypeOK
  <2>3. ASSUME NEW done \in BOOLEAN PROVE HooksAfter(done) \in {hooks, 0, hooks - 1}
                                         /\ (HooksAfter(done) = hooks - 1 => hooks # 0)
    BY <2>2 DEF HooksAfter
  <2> QED
    BY <2>1, <2>2, <2>3
<1>4. ToSet(stack) \in SUBSET OpenCalls
  BY DEF FtraceIInv, FramesAreOpen
<1>5. /\ stack' \in Seq(Nat) /\ ToSet(stack') = ToSet(stack) \ ToSet(stack)
      /\ \A i, j \in 1..Len(stack') : i < j => stack'[i] < stack'[j]
  BY <1>1 DEF ToSet
<1>6. finish' = {b \in finish : b.call \notin ToSet(stack)}
  BY <1>1, FinishOfFrames
<1>7. file \subseteq records /\ {} \in SUBSET {b \in finish : b.call \in ToSet(stack)}
  BY DEF FtraceIInv, AllDuesPaid
<1>8. /\ records' = records \cup {} /\ lost' = lost \cup {}
      /\ file' \subseteq records'
  BY <1>1, <1>7
<1> QED
  BY <1>1, <1>2, <1>3, <1>4, <1>5, <1>6, <1>7, <1>8, EndedKeeps

\* Every step keeps the invariant.
LEMMA FtraceNextIInv == FtraceIInv /\ [FtraceNext]_ftraceVars => FtraceIInv'
<1> SUFFICES ASSUME FtraceIInv, [FtraceNext]_ftraceVars PROVE FtraceIInv'
  OBVIOUS
<1>1. ASSUME NEW n \in 0..2, NEW items \in [1..n -> Items], NEW bad \in BOOLEAN,
             FtraceCmd(items, bad)
      PROVE  FtraceIInv'
  <2>1. items \in Seq(Items)
    OBVIOUS
  <2> QED
    BY <1>1, <2>1, FtraceCmdIInv
<1>2. CASE UNCHANGED ftraceVars
  <2>1. FtraceTypes' /\ FtraceTypeOK' /\ HitsTrue'
    BY <1>2
    DEF FtraceIInv, FtraceTypes, FtraceTypeOK, HitsTrue, ToSet,
        ftraceVars, written
  <2>2. FramesAreOpen'
    BY <1>2 DEF FtraceIInv, FramesAreOpen, OpenCalls, ToSet, ftraceVars
  <2>3. AllDuesPaid'
    <3>1. entry' = entry /\ calls' = calls
      BY <1>2 DEF ftraceVars
    <3>2. \A how, b : b \in Dues(how)' <=> b \in Dues(how)
      BY <3>1, DuesAre, DuesAreNext
    <3> QED
      BY <1>2, <3>2 DEF FtraceIInv, AllDuesPaid, ftraceVars, written
  <2> QED
    BY <2>1, <2>2, <2>3 DEF FtraceIInv
<1>3. ASSUME \E items \in UNION {[1..n -> Items] : n \in 0..2}, bad \in BOOLEAN :
                /\ items # << >> \/ bad
                /\ FtraceCmd(items, bad)
      PROVE  FtraceIInv'
  BY <1>1, <1>3
<1> QED
  BY <1>2, <1>3, CallIInv, ReturnIInv, UnwindIInv, ExitIInv DEF FtraceNext

\* The invariant holds of every reachable state.
LEMMA FtraceInductive == FtraceSpec => []FtraceIInv
  BY FtraceInitIInv, FtraceNextIInv, PTL DEF FtraceSpec

\* The tracer's variables stay in their ranges, for any functions, registers and
\* bounds: nothing is known to GDB or to the command that was not made.
THEOREM FtraceTypeCorrect == FtraceSpec => []FtraceTypeOK
  BY FtraceInductive, PTL DEF FtraceIInv

\* Every record has the arguments of its own call and names its function,
\* however deep the recursion.
THEOREM RecordsAreTrue == FtraceSpec => []RecordsTrue
<1>1. FtraceIInv => RecordsTrue
  <2> SUFFICES ASSUME FtraceIInv, NEW r \in records
               PROVE  /\ calls[r.call].fn = entry[r.id].fn
                      /\ calls[r.call].end = "returned"
                      /\ r.regs = SubSeq(calls[r.call].regs, 1, NbRegs(r.id))
    BY DEF RecordsTrue, FtraceIInv, AllDuesPaid
  <2>1. r \in Dues("returned")
    BY DEF FtraceIInv, AllDuesPaid
  <2> QED
    BY <2>1, DuesTell DEF FtraceIInv, HitsTrue
<1> QED
  BY <1>1, FtraceInductive, PTL

\* A call that returned is recorded once per argument by every breakpoint it
\* hit, unless that raises, and no other call is, however many registers and
\* breakpoints there are.
THEOREM RecordedOncePerArgument == FtraceSpec => []RecordedPerArgument
<1>1. FtraceIInv => RecordedPerArgument
  <2> SUFFICES ASSUME FtraceIInv, NEW c \in DOMAIN calls, NEW id \in DOMAIN entry
               PROVE  Cardinality({r \in records \cup lost : r.id = id /\ r.call = c})
                         = IF calls[c].end = "returned" /\ id \in calls[c].by
                           THEN NbRegs(id) ELSE 0
    BY DEF RecordedPerArgument, FtraceIInv, AllDuesPaid
  <2> DEFINE R == {r \in records \cup lost : r.id = id /\ r.call = c}
  <2>1. records \cup lost = Dues("returned") /\ entry \in Seq(Items) /\ calls[c].regs \in Regs
    BY DEF FtraceIInv, AllDuesPaid, FtraceTypeOK
  <2>2. CASE calls[c].end = "returned" /\ id \in calls[c].by
    <3>1. ASSUME NEW r \in FinishesOf(id, c, calls[c].regs)
          PROVE  r \in R
      BY <2>1, <2>2, <3>1, FinishesAre, DuesAre
    <3>2. ASSUME NEW r \in R
          PROVE  r \in FinishesOf(id, c, calls[c].regs)
      BY <2>1, DuesTell
    <3>3. R = FinishesOf(id, c, calls[c].regs)
      BY <3>1, <3>2
    <3> QED
      BY <2>1, <2>2, <3>3, FinishesCount
  <2>3. CASE ~(calls[c].end = "returned" /\ id \in calls[c].by)
    <3>1. R = {}
      BY <2>1, <2>3, DuesTell
    <3> QED
      BY <2>3, <3>1, FS_EmptySet
  <2> QED
    BY <2>2, <2>3
<1> QED
  BY <1>1, FtraceInductive, PTL

\* A step that disconnects the handler deletes all that its command set.
LEMMA LeavesNothing ==
    FtraceIInv /\ [FtraceNext]_ftraceVars
        => (hooks' < hooks => set' \cap ToSet(bkps) = {})
<1> SUFFICES ASSUME FtraceIInv, [FtraceNext]_ftraceVars, hooks' < hooks
             PROVE  set' \cap ToSet(bkps) = {}
  OBVIOUS
<1>1. hooks \in Nat
  BY FtraceAssumption DEF FtraceIInv, FtraceTypeOK
<1>2. Exit
  <2>0. hooks' \notin {hooks, hooks + 1}
    BY <1>1
  <2>1. ~\E items \in UNION {[1..n -> Items] : n \in 0..2}, bad \in BOOLEAN :
            (items # << >> \/ bad) /\ FtraceCmd(items, bad)
    BY <2>0, Zenon DEF FtraceCmd
  <2>2. ~\E f \in Funcs, regs \in Regs : Call(f, regs)
    BY <2>0, Zenon DEF Call
  <2>3. ~Return /\ ~(\E n \in 1..2 : Unwind(n)) /\ ~UNCHANGED ftraceVars
    BY <2>0, Zenon DEF Return, Unwind, ftraceVars
  <2> QED
    BY <2>1, <2>2, <2>3 DEF FtraceNext
<1>3. PICK valid \in {{}, ToSet(stack), DOMAIN calls} :
         /\ set' = IF hooks > 0
                   THEN set \ {bkps[i] : i \in 1..Reached(valid)} ELSE set
         /\ hooks' = HooksAfter(Reached(valid) = Len(bkps))
  BY <1>2 DEF Exit
<1>4. hooks > 0 /\ Reached(valid) = Len(bkps)
  <2> DEFINE done == Reached(valid) = Len(bkps)
  <2>1. HooksAfter(done) # hooks
    BY <1>1, <1>3
  <2>2. done \in BOOLEAN
    OBVIOUS
  <2> HIDE DEF done
  <2>3. ~(hooks = 0 \/ ~done)
    <3>1. ASSUME hooks = 0 \/ ~done PROVE HooksAfter(done) = hooks
      BY <3>1, Zenon DEF HooksAfter
    <3> QED
      BY <2>1, <3>1
  <2>4. done
    BY <2>3
  <2> QED
    BY <1>1, <2>3, <2>4 DEF done
<1>5. set' = set \ {bkps[i] : i \in 1..Len(bkps)}
  BY <1>3, <1>4
<1>6. DOMAIN bkps = 1..Len(bkps)
  BY DEF FtraceIInv, FtraceTypes
<1> QED
  BY <1>5, <1>6 DEF ToSet

\* A step that connects the handler has set what the command asked for.
LEMMA ConnectsInReach ==
    FtraceIInv /\ [FtraceNext]_ftraceVars
        => (hooks' > hooks => ToSet(bkps') \subseteq Reachable')
<1> SUFFICES ASSUME FtraceIInv, [FtraceNext]_ftraceVars, hooks' > hooks
             PROVE  ToSet(bkps') \subseteq Reachable'
  OBVIOUS
<1>1. hooks \in Nat
  BY FtraceAssumption DEF FtraceIInv, FtraceTypeOK
<1>2. \E items \in UNION {[1..n -> Items] : n \in 0..2}, bad \in BOOLEAN :
         FtraceCmd(items, bad)
  <2>1. hooks' # hooks /\ ~Exit
    <3>1. Exit => \E done \in BOOLEAN : hooks' = HooksAfter(done)
      BY DEF Exit
    <3>2. ASSUME NEW done \in BOOLEAN PROVE HooksAfter(done) <= hooks
      BY <1>1 DEF HooksAfter
    <3>3. \A done \in BOOLEAN : HooksAfter(done) \in Int
      BY <1>1 DEF HooksAfter
    <3> QED
      BY <1>1, <3>1, <3>2, <3>3
  <2>2. ~\E f \in Funcs, regs \in Regs : Call(f, regs)
    BY <2>1, Zenon DEF Call
  <2>3. ~Return /\ ~(\E n \in 1..2 : Unwind(n)) /\ ~UNCHANGED ftraceVars
    BY <2>1, Zenon DEF Return, Unwind, ftraceVars
  <2> QED
    BY <2>1, <2>2, <2>3 DEF FtraceNext
<1>3. ToSet(bkps') \subseteq set' /\ hooks' # 0
  <2>1. \A items, bad : FtraceCmd(items, bad) => ToSet(bkps') \subseteq set'
    BY DEF FtraceCmd
  <2> QED
    BY <1>1, <1>2, <2>1
<1>4. bkps' \in Seq(Nat)
  BY FtraceNextIInv DEF FtraceIInv, FtraceTypes
<1>5. /\ DOMAIN bkps' = 1..Len(bkps') /\ Len(bkps') \in Nat
      /\ \A i \in DOMAIN bkps' : bkps'[i] \in set'
  BY <1>3, <1>4 DEF ToSet
<1>6. \A i \in DOMAIN bkps' : \A k \in 1..i : bkps'[k] \in set'
  BY <1>5
<1> QED
  BY <1>3, <1>6 DEF Reachable, ToSet

\* What leaves the handler's reach and stays does so under a command, or because
\* the handler raised.
LEMMA LeavesReach ==
    FtraceIInv /\ [FtraceNext]_ftraceVars
        => ((Reachable \cap set') \ Reachable' # {} =>
              bkps' # bkps \/ (stack' = << >> /\ hooks' = hooks))
<1> SUFFICES ASSUME FtraceIInv, [FtraceNext]_ftraceVars,
                    NEW id \in Reachable, id \in set', id \notin Reachable',
                    bkps' = bkps, ~(stack' = << >> /\ hooks' = hooks)
             PROVE  FALSE
  OBVIOUS
<1>1. bkps \in Seq(Nat) /\ id \in ToSet(bkps) /\ hooks # 0
  BY DEF FtraceIInv, FtraceTypes, Reachable, ToSet
<1>2. ~\E items \in UNION {[1..n -> Items] : n \in 0..2}, bad \in BOOLEAN :
          FtraceCmd(items, bad)
  <2> SUFFICES ASSUME NEW items \in UNION {[1..n -> Items] : n \in 0..2},
                      NEW bad \in BOOLEAN, FtraceCmd(items, bad)
               PROVE  FALSE
    OBVIOUS
  <2>1. bkps' = [i \in 1..Len(items) |-> Len(entry) + i]
    BY DEF FtraceCmd
  <2>2. 1 \in DOMAIN bkps /\ bkps[1] \in DOMAIN entry
    BY <1>1 DEF FtraceIInv, FtraceTypeOK, ToSet
  <2>3. entry \in Seq(Items) /\ Len(items) \in Nat
    BY DEF FtraceIInv, FtraceTypeOK
  <2> QED
    BY <2>1, <2>2, <2>3
<1>3. ASSUME UNCHANGED <<set, bkps, hooks>> PROVE FALSE
  BY <1>3 DEF Reachable
<1>4. ~\E f \in Funcs, regs \in Regs : Call(f, regs)
  BY <1>3, Zenon DEF Call
<1>5. ~Return /\ ~(\E n \in 1..2 : Unwind(n)) /\ ~UNCHANGED ftraceVars
  BY <1>3, Zenon DEF Return, Unwind, ftraceVars
<1>6. Exit
  BY <1>2, <1>4, <1>5 DEF FtraceNext
<1>7. stack' = << >> /\ hooks' # hooks
  BY <1>6 DEF Exit
<1>8. hooks' < hooks
  <2>1. hooks \in Nat
    BY FtraceAssumption DEF FtraceIInv, FtraceTypeOK
  <2> QED
    BY <1>1, <1>6, <1>7, <2>1 DEF Exit, HooksAfter
<1> QED
  BY <1>1, <1>8, LeavesNothing

\* Finish breakpoints live no longer than their frames; what a command that
\* succeeds has set can be deleted, until another is typed or the handler raises;
\* and the handler leaves when it has deleted all of its command, whatever GDB
\* does to finish breakpoints on exit.
THEOREM NothingGoesStray == FtraceSpec => NothingStray
<1>1. FtraceIInv => \A b \in finish : b.call \in ToSet(stack)
  BY FinishOfFrames
<1>2. FtraceIInv /\ [FtraceNext]_ftraceVars
         => [hooks' > hooks => ToSet(bkps') \subseteq Reachable']_ftraceVars
  BY ConnectsInReach
<1>3. FtraceIInv /\ [FtraceNext]_ftraceVars
         => [(Reachable \cap set') \ Reachable' # {} =>
               bkps' # bkps \/ (stack' = << >> /\ hooks' = hooks)]_ftraceVars
  BY LeavesReach
<1>4. FtraceIInv /\ [FtraceNext]_ftraceVars
         => [hooks' < hooks => set' \cap ToSet(bkps) = {}]_ftraceVars
  BY LeavesNothing
<1> QED
  BY <1>1, <1>2, <1>3, <1>4, FtraceInductive, PTL DEF FtraceSpec, NothingStray
=============================================================================
