------------------------- MODULE OnvifBridgeProofs -------------------------
(***************************************************************************)
(* Proofs of the safety properties of the ONVIF bridge's movement control  *)
(* (OnvifBridge, OnvifBridgeProps) for any sets of calls.                  *)
(***************************************************************************)
EXTENDS OnvifBridgeProps, TLAPS

USE DEF Calls, Moves, Goto, Run

\* Whoever waits for a mover, or has waited for it, holds moveMu, and nobody is
\* the current mover meanwhile: the next mover replaces no other.
NobodyReplaced ==
    \A c \in Calls : pc[c] \in {"waiting", "locked"} => mu = c /\ current = NoOne

\* A relative move that goes on has a leg to go.
LegsLeft == \A m \in Relative : gpc[m] \in {"loop", "sending"} => legs[m] \in 1..2

IInv == TypeOK /\ LegsLeft /\ NobodyReplaced /\ NoOrphanMover /\ MovingHasOwner

-----------------------------------------------------------------------------
\* Every state is type correct; only the legs of a relative move need an
\* argument, since each is counted down when it has gone well.
LEMMA TypeStep == TypeOK /\ LegsLeft /\ [Next]_vars => TypeOK' /\ LegsLeft'
<1> SUFFICES ASSUME TypeOK, LegsLeft, [Next]_vars PROVE TypeOK' /\ LegsLeft'
  OBVIOUS
<1> USE CallAssumption DEF TypeOK, LegsLeft
<1>1. ASSUME NEW c \in Calls, Arrive(c) PROVE TypeOK' /\ LegsLeft'
  BY <1>1 DEF Arrive, proxyVars, moverVars, apiVars
<1>2. ASSUME NEW c \in Calls, CallStep(c) PROVE TypeOK' /\ LegsLeft'
  <2>1. ASSUME StopMoveLocked(c) PROVE TypeOK' /\ LegsLeft'
    BY <2>1 DEF StopMoveLocked, moverVars, apiVars
  <2>2. ASSUME PriorEnds(c) \/ PriorTimeout(c) PROVE TypeOK' /\ LegsLeft'
    BY <2>2 DEF PriorEnds, PriorTimeout, proxyVars, moverVars, apiVars
  <2>3. ASSUME c \in Moves, Install(c) PROVE TypeOK' /\ LegsLeft'
    BY <2>3 DEF Install, moverVars, apiVars
  <2>4. ASSUME c \in Moves, Begin(c) PROVE TypeOK' /\ LegsLeft'
    BY <2>4 DEF Begin, BeginMoveStatus, apiVars
  <2>5. ASSUME c \in Stops \cup Presets, Unlock(c) \/ ForceIdleStatus(c)
        PROVE TypeOK' /\ LegsLeft'
    BY <2>5 DEF Unlock, ForceIdleStatus, moverVars, apiVars
  <2>6. ASSUME c \in Stops, PostStop(c) \/ StopAnswered(c) PROVE TypeOK' /\ LegsLeft'
    BY <2>6 DEF PostStop, StopAnswered, proxyVars, moverVars, apiVars
  <2>7. ASSUME c \in Presets, PostPreset(c) PROVE TypeOK' /\ LegsLeft'
    BY <2>7 DEF PostPreset, BeginMoveStatus, apiVars
  <2> QED
    BY <1>2, <2>1, <2>2, <2>3, <2>4, <2>5, <2>6, <2>7 DEF CallStep
<1>3. ASSUME NEW m \in Moves, MoverStep(m) PROVE TypeOK' /\ LegsLeft'
  BY <1>3 DEF MoverStep, Loop, Abandon, CloseDone, proxyVars, callVars, apiVars
<1>4. ASSUME NEW m \in Moves, ApiStep(m) PROVE TypeOK' /\ LegsLeft'
  <2>1. ASSUME Registers(m) \/ Notices(m) \/ Drives(m) PROVE TypeOK' /\ LegsLeft'
    BY <2>1 DEF Registers, Notices, Drives, proxyVars, callVars, moverVars
  <2>2. ASSUME NEW ok \in BOOLEAN, Ends(m, ok) PROVE TypeOK' /\ LegsLeft'
    <3>1. /\ legs' \in [Moves -> 0..2]
          /\ gpc' \in [Moves \cup Presets -> {"none", "loop", "sending", "settle",
                                              "finish", "closing", "ended"}]
          /\ LegsLeft'
      <4>1. CASE Answer(m, ok)
        <5>1. CASE m \in Relative /\ ok
          <6>1. legs[m] \in 1..2
            BY <4>1, <5>1 DEF Answer
          <6> QED
            BY <4>1, <5>1, <6>1 DEF Answer
        <5>2. CASE ~(m \in Relative /\ ok)
          BY <4>1, <5>2 DEF Answer
        <5> QED
          BY <5>1, <5>2
      <4>2. CASE UNCHANGED <<gpc, legs>>
        BY <4>2
      <4> QED
        BY <2>2, <4>1, <4>2 DEF Ends
    <3> QED
      BY <2>2, <3>1 DEF Ends, proxyVars, callVars
  <2> QED
    BY <1>4, <2>1, <2>2 DEF ApiStep
<1>5. ASSUME NEW c \in Moves \cup Presets, TimerStep(c) PROVE TypeOK' /\ LegsLeft'
  BY <1>5 DEF TimerStep, Settled, FinishMoveStatus, proxyVars, callVars, apiVars
<1>6. CASE UNCHANGED vars
  BY <1>6 DEF vars, proxyVars, callVars, moverVars, apiVars
<1> QED
  BY <1>1, <1>2, <1>3, <1>4, <1>5, <1>6 DEF Next

\* The mutex is handed from call to call, and only its holder installs a mover.
LEMMA HolderStep == TypeOK /\ NobodyReplaced /\ [Next]_vars => NobodyReplaced'
<1> SUFFICES ASSUME TypeOK, NobodyReplaced, [Next]_vars PROVE NobodyReplaced'
  OBVIOUS
<1> USE CallAssumption DEF TypeOK, NobodyReplaced
<1>1. ASSUME NEW c \in Calls, Arrive(c) PROVE NobodyReplaced'
  BY <1>1 DEF Arrive, proxyVars
<1>2. ASSUME NEW c \in Calls, CallStep(c) PROVE NobodyReplaced'
  <2>1. ASSUME StopMoveLocked(c) PROVE NobodyReplaced'
    BY <2>1 DEF StopMoveLocked
  <2>2. ASSUME PriorEnds(c) \/ PriorTimeout(c) PROVE NobodyReplaced'
    BY <2>2 DEF PriorEnds, PriorTimeout, proxyVars
  <2>3. ASSUME Install(c) PROVE NobodyReplaced'
    BY <2>3 DEF Install
  <2>4. ASSUME c \in Stops \cup Presets, Unlock(c) PROVE NobodyReplaced'
    BY <2>4 DEF Unlock
  <2>5. ASSUME Begin(c) \/ ForceIdleStatus(c) \/ PostStop(c) \/ StopAnswered(c)
               \/ PostPreset(c)
        PROVE NobodyReplaced'
    BY <2>5 DEF Begin, ForceIdleStatus, PostStop, StopAnswered, PostPreset, proxyVars
  <2> QED
    BY <1>2, <2>1, <2>2, <2>3, <2>4, <2>5 DEF CallStep
<1>3. ASSUME NEW m \in Moves, MoverStep(m) PROVE NobodyReplaced'
  BY <1>3 DEF MoverStep, Loop, Abandon, CloseDone, proxyVars, callVars
<1>4. ASSUME NEW m \in Moves, ApiStep(m) PROVE NobodyReplaced'
  BY <1>4 DEF ApiStep, Registers, Notices, Drives, Ends, proxyVars, callVars
<1>5. ASSUME NEW c \in Moves \cup Presets, TimerStep(c) PROVE NobodyReplaced'
  BY <1>5 DEF TimerStep, Settled, FinishMoveStatus, proxyVars, callVars
<1>6. CASE UNCHANGED vars
  BY <1>6 DEF vars, proxyVars, callVars
<1> QED
  BY <1>1, <1>2, <1>3, <1>4, <1>5, <1>6 DEF Next

\* The one step that gives moveCancel another owner finds none there.
LEMMA MoverReachable ==
    TypeOK /\ NobodyReplaced /\ NoOrphanMover /\ [Next]_vars => NoOrphanMover'
<1> SUFFICES ASSUME TypeOK, NobodyReplaced, NoOrphanMover, [Next]_vars
             PROVE NoOrphanMover'
  OBVIOUS
<1> USE CallAssumption DEF TypeOK, NoOrphanMover, Alive
<1>1. ASSUME NEW c \in Calls, Arrive(c) PROVE NoOrphanMover'
  BY <1>1 DEF Arrive, proxyVars, moverVars
<1>2. ASSUME NEW c \in Calls, CallStep(c) PROVE NoOrphanMover'
  <2>1. ASSUME StopMoveLocked(c) PROVE NoOrphanMover'
    BY <2>1 DEF StopMoveLocked, moverVars
  <2>2. ASSUME PriorEnds(c) \/ PriorTimeout(c) PROVE NoOrphanMover'
    BY <2>2 DEF PriorEnds, PriorTimeout, proxyVars, moverVars
  <2>3. ASSUME c \in Moves, Install(c) PROVE NoOrphanMover'
    <3>1. current = NoOne
      BY <2>3 DEF Install, NobodyReplaced
    <3> QED
      BY <2>3, <3>1 DEF Install, moverVars
  <2>4. ASSUME c \in Moves, Begin(c) PROVE NoOrphanMover'
    BY <2>4 DEF Begin
  <2>5. ASSUME c \in Stops \cup Presets,
               Unlock(c) \/ ForceIdleStatus(c) \/ PostStop(c) \/ StopAnswered(c)
        PROVE NoOrphanMover'
    BY <2>5 DEF Unlock, ForceIdleStatus, PostStop, StopAnswered, proxyVars, moverVars
  <2>6. ASSUME c \in Presets, PostPreset(c) PROVE NoOrphanMover'
    BY <2>6 DEF PostPreset
  <2> QED
    BY <1>2, <2>1, <2>2, <2>3, <2>4, <2>5, <2>6 DEF CallStep
<1>3. ASSUME NEW m \in Moves, MoverStep(m) PROVE NoOrphanMover'
  BY <1>3 DEF MoverStep, Loop, Abandon, CloseDone, proxyVars, callVars
<1>4. ASSUME NEW m \in Moves, ApiStep(m) PROVE NoOrphanMover'
  BY <1>4 DEF ApiStep, Registers, Notices, Drives, Ends, Answer, proxyVars, callVars,
              moverVars
<1>5. ASSUME NEW c \in Moves \cup Presets, TimerStep(c) PROVE NoOrphanMover'
  BY <1>5 DEF TimerStep, Settled, FinishMoveStatus, proxyVars, callVars
<1>6. CASE UNCHANGED vars
  BY <1>6 DEF vars, proxyVars, callVars, moverVars
<1> QED
  BY <1>1, <1>2, <1>3, <1>4, <1>5, <1>6 DEF Next

\* A goroutine gives its status up only by comparing it, and a number that was
\* drawn later has an owner of its own.
Owns(c) == moveID[c] = statusID /\ gpc[c] \in {"loop", "sending", "settle", "finish"}

LEMMA StatusOwned == TypeOK /\ MovingHasOwner /\ [Next]_vars => MovingHasOwner'
<1> SUFFICES ASSUME TypeOK, MovingHasOwner, [Next]_vars, status' = "MOVING"
             PROVE \E c \in Moves \cup Presets : Owns(c)'
  BY DEF MovingHasOwner, Owns
<1> USE CallAssumption DEF TypeOK, Owns
<1>1. ASSUME NEW c \in Calls, CallStep(c), UNCHANGED <<status, statusID>>
      PROVE UNCHANGED <<moveID, gpc>>
  BY <1>1 DEF CallStep, StopMoveLocked, PriorEnds, PriorTimeout, Install, Begin,
              BeginMoveStatus, Unlock, ForceIdleStatus, PostStop, StopAnswered,
              PostPreset, proxyVars, moverVars
<1>2. ASSUME NEW c \in Calls, CallStep(c), ~UNCHANGED <<status, statusID>>
      PROVE c \in Moves \cup Presets /\ Owns(c)'
  BY <1>2 DEF CallStep, StopMoveLocked, PriorEnds, PriorTimeout, Install, Begin,
              BeginMoveStatus, Unlock, ForceIdleStatus, PostStop, StopAnswered,
              PostPreset, proxyVars, moverVars
<1>3. ASSUME NEW c \in Calls, Arrive(c) PROVE UNCHANGED <<status, statusID, moveID, gpc>>
  BY <1>3 DEF Arrive, proxyVars, moverVars
<1>4. ASSUME NEW m \in Moves, MoverStep(m) \/ ApiStep(m), NEW c \in Moves \cup Presets,
             status = "MOVING", Owns(c)
      PROVE UNCHANGED <<status, statusID>> /\ Owns(c)'
  BY <1>4 DEF MoverStep, Loop, Abandon, CloseDone, ApiStep, Registers, Notices, Drives,
              Ends, Answer, proxyVars, callVars, moverVars
<1>5. ASSUME NEW m \in Moves, MoverStep(m) \/ ApiStep(m) PROVE UNCHANGED status
  BY <1>5 DEF MoverStep, Loop, Abandon, CloseDone, ApiStep, Registers, Notices, Drives,
              Ends, Answer, proxyVars, callVars, moverVars
<1>6. ASSUME NEW d \in Moves \cup Presets, TimerStep(d), NEW c \in Moves \cup Presets,
             Owns(c)
      PROVE status = "MOVING" /\ Owns(c)'
  BY <1>6 DEF TimerStep, Settled, FinishMoveStatus, proxyVars, callVars
<1>7. ASSUME NEW d \in Moves \cup Presets, TimerStep(d) PROVE status = "MOVING"
  BY <1>7 DEF TimerStep, Settled, FinishMoveStatus, proxyVars, callVars
<1>8. CASE UNCHANGED vars
  BY <1>8 DEF vars, proxyVars, callVars, moverVars, MovingHasOwner
<1> QED
  BY <1>1, <1>2, <1>3, <1>4, <1>5, <1>6, <1>7, <1>8 DEF Next, MovingHasOwner

-----------------------------------------------------------------------------
\* The inductive invariant holds in every state.
LEMMA Invariance == Spec => []IInv
<1>1. Init => IInv
  BY CallAssumption
     DEF Init, IInv, TypeOK, LegsLeft, NobodyReplaced, NoOrphanMover, Alive,
         MovingHasOwner
<1>2. IInv /\ [Next]_vars => IInv'
  BY TypeStep, HolderStep, MoverReachable, StatusOwned DEF IInv
<1> QED
  BY <1>1, <1>2, PTL DEF Spec

\* Every reachable state is type correct, for any sets of calls.
THEOREM TypeCorrect == Spec => []TypeOK
<1>1. IInv => TypeOK
  BY DEF IInv
<1> QED
  BY <1>1, Invariance, PTL

\* No mover is ever out of reach of the next stop or move, whatever calls overlap
\* and although waiting for the previous mover may time out.
THEOREM NoMoverIsOrphaned == Spec => []NoOrphanMover
<1>1. IInv => NoOrphanMover
  BY DEF IInv
<1> QED
  BY <1>1, Invariance, PTL

\* A camera that is reported as moving has a goroutine that will take it back.
THEOREM MovingIsOwned == Spec => []MovingHasOwner
<1>1. IInv => MovingHasOwner
  BY DEF IInv
<1> QED
  BY <1>1, Invariance, PTL
=============================================================================
