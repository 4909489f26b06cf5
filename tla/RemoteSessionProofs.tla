------------------------ MODULE RemoteSessionProofs ------------------------
(***************************************************************************)
(* The handlers and the power of a remote session, for any number of       *)
(* connections that are given up.                                          *)
(***************************************************************************)
EXTENDS RemoteSession, TLAPS

\* Giving a connection up turns its handler into an orphan ...
LEMMA GiveUpHandlers ==
    GiveUp => /\ mine' = 0 /\ orphans' = orphans + mine /\ defaults' = defaults
              /\ stage' = "idle" /\ lastEnd' = "abandoned"
  BY DEF GiveUp

\* ... and closing a session brings the default handler back.
LEMMA CloseHandlers ==
    CloseSession => /\ mine' = 0 /\ defaults' = defaults + 1
                    /\ session' = "none" /\ lastEnd' = "closed"
  BY DEF CloseSession, DefaultAfterClose

\* The counts of handlers stay in range ...
LEMMA CountsStep == CountsOK /\ [Next]_vars => CountsOK'
<1> SUFFICES ASSUME CountsOK, [Next]_vars
             PROVE  CountsOK'
  OBVIOUS
<1> USE DEF CountsOK, hooks
<1>1. ASSUME NEW o \in Options, Invoke(o)
      PROVE  CountsOK'
  BY <1>1 DEF Invoke, Unhooked
<1>2. CASE Raise \/ Disconnect \/ AttachFails
  <2>1. GiveUp
    BY <1>2 DEF Raise, Disconnect, AttachFails, ReturnFalse
  <2>2. QED
    BY <2>1, GiveUpHandlers
<1>3. CASE TargetExtendedRemote \/ PowerOn \/ SwdpScan \/ Attach \/ Setup
  BY <1>3 DEF TargetExtendedRemote, PowerOn, SwdpScan, Attach, Setup
<1>4. CASE InferiorGone
  <2>1. orphans' = orphans
        /\ (CloseSession \/ (mine' = mine /\ defaults' = defaults))
    BY <1>4 DEF InferiorGone
  <2>2. QED
    BY <2>1, CloseHandlers
<1>5. CASE UNCHANGED vars
  BY <1>5 DEF vars
<1>6. QED
  BY <1>1, <1>2, <1>3, <1>4, <1>5 DEF Next

\* ... and so does every other variable.
THEOREM TypeCorrect == Spec => []TypeOK
<1>1. Init => TypeOK
  BY DEF Init, TypeOK, CountsOK, Stages, LeftBy
<1>2. TypeOK /\ [Next]_vars => TypeOK'
  <2> SUFFICES ASSUME TypeOK, [Next]_vars
               PROVE  TypeOK'
    OBVIOUS
  <2> USE DEF TypeOK, Stages, LeftBy
  <2>1. CountsOK'
    BY CountsStep
  <2>2. ASSUME NEW o \in Options, Invoke(o)
        PROVE  TypeOK'
    BY <2>1, <2>2 DEF Invoke
  <2>3. CASE Raise
    BY <2>1, <2>3 DEF Raise, GiveUp
  <2>4. CASE TargetExtendedRemote
    BY <2>1, <2>4 DEF TargetExtendedRemote
  <2>5. CASE PowerOn \/ SwdpScan \/ Attach \/ Setup
    BY <2>1, <2>5 DEF PowerOn, SwdpScan, Attach, Setup
  <2>6. CASE Disconnect \/ AttachFails
    BY <2>1, <2>6 DEF Disconnect, AttachFails, ReturnFalse, GiveUp
  <2>7. CASE InferiorGone
    BY <2>1, <2>7 DEF InferiorGone, CloseSession, PowerAfterClose, LeftByClose
  <2>8. CASE UNCHANGED vars
    BY <2>1, <2>8 DEF vars
  <2>9. QED
    BY <2>2, <2>3, <2>4, <2>5, <2>6, <2>7, <2>8 DEF Next
<1>3. QED
  BY <1>1, <1>2, PTL DEF Spec

-----------------------------------------------------------------------------
\* The inductive invariant adds to the handlers the two facts the steps rely
\* on: a connection in progress is not yet a session, and a connection that was
\* given up left its handler behind.
HandlersInv ==
    /\ HandlersExclusive
    /\ DefaultBackAfterSession
    /\ stage # "idle" => session # "remote"
    /\ lastEnd = "abandoned" => orphans > 0

\* No matter how many connections fail and are tried again, a connection runs
\* without the default handler, the default handler is never registered twice,
\* and new objfiles always have a handler.
THEOREM HandlersCorrect == Spec => []HandlersInv
<1>1. Init => HandlersInv
  BY DEF Init, HandlersInv, HandlersExclusive, DefaultBackAfterSession
<1>2. CountsOK /\ HandlersInv /\ [Next]_vars => HandlersInv'
  <2> SUFFICES ASSUME CountsOK, HandlersInv, [Next]_vars
               PROVE  HandlersInv'
    OBVIOUS
  <2> USE DEF CountsOK, HandlersInv, HandlersExclusive, DefaultBackAfterSession,
              hooks
  <2>1. ASSUME NEW o \in Options, Invoke(o)
        PROVE  HandlersInv'
    BY <2>1 DEF Invoke, Unhooked
  <2>2. CASE Raise
    <3>1. GiveUp /\ stage # "idle" /\ session' = session
      BY <2>2 DEF Raise
    <3>2. mine = 1 /\ session # "remote"
      BY <3>1
    <3>3. QED
      BY <3>1, <3>2, GiveUpHandlers
  <2>3. CASE TargetExtendedRemote
    BY <2>3 DEF TargetExtendedRemote
  <2>4. CASE PowerOn \/ SwdpScan \/ Attach
    BY <2>4 DEF PowerOn, SwdpScan, Attach
  <2>5. CASE Disconnect \/ AttachFails
    <3>1. GiveUp /\ stage # "idle" /\ session' = "none"
      BY <2>5 DEF Disconnect, AttachFails, ReturnFalse
    <3>2. mine = 1
      BY <3>1
    <3>3. QED
      BY <3>1, <3>2, GiveUpHandlers
  <2>6. CASE Setup
    BY <2>6 DEF Setup
  <2>7. CASE InferiorGone
    <3>1. /\ stage = "idle" /\ stage' = "idle" /\ orphans' = orphans
          /\ \/ session = "remote" /\ CloseSession
             \/ session # "remote" /\ UNCHANGED <<defaults, mine, session, lastEnd>>
      BY <2>7 DEF InferiorGone
    <3>2. CASE session = "remote" /\ CloseSession
      <4>1. mine = 1 /\ defaults = 0
        BY <3>2
      <4>2. QED
        BY <3>1, <3>2, <4>1, CloseHandlers
    <3>3. CASE session # "remote" /\ UNCHANGED <<defaults, mine, session, lastEnd>>
      BY <3>1, <3>3
    <3>4. QED
      BY <3>1, <3>2, <3>3
  <2>8. CASE UNCHANGED vars
    BY <2>8 DEF vars
  <2>9. QED
    BY <2>1, <2>2, <2>3, <2>4, <2>5, <2>6, <2>7, <2>8 DEF Next
<1>3. QED
  <2>1. TypeOK => CountsOK
    BY DEF TypeOK
  <2>2. QED
    BY <1>1, <1>2, <2>1, TypeCorrect, PTL DEF Spec

\* The handlers of a session are exclusive, and one session that is closed brings
\* the default handler back, however many connections were given up before it.
THEOREM HandlersStayInOrder == Spec => []HandlersInOrder
<1>1. HandlersInv => HandlersInOrder
  BY DEF HandlersInv, HandlersInOrder
<1>2. QED
  BY <1>1, HandlersCorrect, PTL

-----------------------------------------------------------------------------
\* The target is powered for the session that asked for it, or one of the named
\* reasons has left it powered.
THEOREM PowerIsOwned == Spec => []PowerHasAnOwner
<1> DEFINE PowerInv == PowerHasAnOwner /\ (stage = "power" => "power" \in opts)
<1>1. Init => PowerInv
  BY DEF Init, PowerHasAnOwner
<1>2. HandlersInv /\ PowerInv /\ [Next]_vars => PowerInv'
  <2> SUFFICES ASSUME HandlersInv, PowerInv, [Next]_vars
               PROVE  PowerInv'
    OBVIOUS
  <2>1. mine = (IF session = "remote" \/ stage # "idle" THEN 1 ELSE 0)
    BY DEF HandlersInv, HandlersExclusive
  <2> USE <2>1 DEF PowerHasAnOwner, hooks
  <2>2. ASSUME NEW o \in Options, Invoke(o)
        PROVE  PowerInv'
    BY <2>2 DEF Invoke
  <2>3. CASE Raise \/ Disconnect \/ AttachFails
    BY <2>3 DEF Raise, Disconnect, AttachFails, ReturnFalse, GiveUp
  <2>4. CASE TargetExtendedRemote
    BY <2>4 DEF TargetExtendedRemote
  <2>5. CASE PowerOn \/ SwdpScan
    BY <2>5 DEF PowerOn, SwdpScan
  <2>6. CASE Attach \/ Setup
    BY <2>6 DEF Attach, Setup
  <2>7. CASE InferiorGone
    BY <2>7 DEF InferiorGone, CloseSession, PowerAfterClose, LeftByClose, Keeps
  <2>8. CASE UNCHANGED vars
    BY <2>8 DEF vars
  <2>9. QED
    BY <2>2, <2>3, <2>4, <2>5, <2>6, <2>7, <2>8 DEF Next
<1>3. QED
  BY <1>1, <1>2, HandlersCorrect, PTL DEF Spec
=============================================================================
