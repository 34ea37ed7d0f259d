-------------------------- MODULE PtzCameraProofs --------------------------
(***************************************************************************)
(* Proofs of the safety properties of the PTZ control path (PtzCamera,     *)
(* PtzCameraProps) for any finite set of movement requests and any set of  *)
(* stop requests, and that it implements the safety part of its promise    *)
(* (PtzPromise).                                                           *)
(***************************************************************************)
EXTENDS PtzCameraProps, FiniteSetTheorems, TLAPS

USE DEF Requests, CountUser, NoDial, GateFree, CloseReady, NobodyWaits

-----------------------------------------------------------------------------
(* The inductive invariants.                                               *)

\* What the gate protects.  A swept movement is canceled, so it cannot pass the
\* next context check; a movement that gives the gate back has stopped the
\* motor or has an error.
SweptCanceled == \A s \in Stops : swept[s] \subseteq canceled
StoppedOrFailed == \A r \in Moves : pc[r] = "unlock" /\ motor = r => r \in failed

GateInv ==
    /\ GateExclusive /\ SweptCanceled /\ StopIsFinal
    /\ NoSilentRunaway /\ StoppedOrFailed

\* The dials that were started and have not published their result.
Pending == dialing \cup {l[1] : l \in landed}
Leased  == Holding \ {"waiting", "resolving", "resolved"}

\* Dials are numbered from 1 and there is one at a time.
DialsNumbered == Pending \cup closed \subseteq 1..dials /\ ready \in 0..dials
OneDial ==
    /\ \A k, l \in landed : k = l
    /\ landed # {} => dialing = {}
    /\ \A d \in Pending : d = ready /\ ready \notin closed
    /\ \A l \in landed : l[2] => l[1] \in open

\* c.ready in its three phases: nil, pending, closed.
ReadyPhases ==
    /\ users # 0 => ready # 0
    /\ ready \notin closed => lease = 0 /\ ~err
    /\ ready # 0 /\ ready \notin closed => ready \in Pending
    /\ ready \in closed /\ err => lease = 0 /\ users > 0
    /\ ready \in closed /\ ~err => lease \in open

\* What a movement inside acquire and after it may rely on.
HolderPhases ==
    \A r \in Moves :
        /\ pc[r] = "waiting" => waitOn[r] = ready
        /\ pc[r] \in Holding \ {"waiting"} => ready \in closed
        /\ pc[r] = "resolved" /\ ctl[r] # "none" => ~err
        /\ pc[r] \in Leased => ~err

\* The timer of the current idle period does not run while a dial is pending.
TimersOfThePast ==
    /\ \A e \in armed \cup fired : e <= epoch
    /\ epoch \in armed \cup fired => ready = 0 \/ ready \in closed

LeaseInv ==
    /\ UsersCounted /\ DialsNumbered /\ OneDial /\ ReadyPhases /\ HolderPhases
    /\ TimersOfThePast

\* Idle periods: the timer of the current one is armed once, by the release that
\* began it, and the current number belongs to no timer while there are users.
IdlePeriods ==
    /\ users > 0 => epoch > 0 /\ epoch \notin armed \cup fired
    /\ armed \cap fired = {} /\ 0 \notin armed
    /\ timer \in armed => timer = epoch

IdleInv == NoLeakedLease /\ 0 \notin open /\ IdlePeriods

-----------------------------------------------------------------------------
(* Type correctness.                                                       *)

\* The variables start in their types.
LEMMA TypeInit == Init => TypeOK
<1> SUFFICES ASSUME Init PROVE TypeOK
  OBVIOUS
<1>1. pc \in [Requests -> MovePcs \cup StopPcs]
  BY DEF Init, MovePcs
<1>2. landed \in SUBSET (Nat \X BOOLEAN)
  BY DEF Init
<1>3. /\ waitOn \in [Moves -> Nat]
      /\ ctl \in [Moves -> {"none", "live", "stale"}]
      /\ swept \in [Stops -> SUBSET Moves]
  BY DEF Init
<1> QED
  BY <1>1, <1>2, <1>3 DEF Init, TypeOK

\* What release does to the lease is typed, whoever calls it.
LEMMA ReleaseTyped ==
    ASSUME TypeOK, users > 0, NEW keep \in BOOLEAN, Release(keep)
    PROVE  /\ users' \in Nat /\ epoch' \in Nat /\ ready' \in Nat /\ lease' \in Nat
           /\ err' \in BOOLEAN /\ timer' \in Nat
           /\ dials' \in Nat
           /\ closed' \in SUBSET Nat /\ dialing' \in SUBSET Nat
           /\ landed' \in SUBSET (Nat \X BOOLEAN)
           /\ armed' \in SUBSET Nat /\ fired' \in SUBSET Nat
           /\ open' \in SUBSET Nat
           /\ conn' \in {"none", "up", "down"}
<1>1. users' \in Nat
  BY DEF TypeOK, Release
<1>2. /\ epoch' \in Nat /\ dials' \in Nat
      /\ closed' \in SUBSET Nat /\ dialing' \in SUBSET Nat
      /\ landed' \in SUBSET (Nat \X BOOLEAN) /\ fired' \in SUBSET Nat
  BY DEF TypeOK, Release
<1>3. CASE KeepLease
  BY <1>1, <1>2, <1>3 DEF TypeOK, Release, KeepLease, ClearLocked, AfterDetach
<1>4. CASE ClearLocked(lease)
  BY <1>1, <1>2, <1>4 DEF TypeOK, Release, KeepLease, ClearLocked, AfterDetach
<1> QED
  BY <1>3, <1>4 DEF Release

\* A movement between acquire and release is counted, so the count is not zero.
LEMMA HolderCounts ==
    ASSUME TypeOK, UsersCounted, NEW r \in Moves, pc[r] \in Holding
    PROVE  users > 0
<1>1. IsFiniteSet(Holders)
  BY RequestAssumption, FS_Subset DEF Holders
<1>2. r \in Holders
  BY DEF Holders
<1> QED
  BY <1>1, <1>2, FS_EmptySet, FS_CardinalityType DEF UsersCounted, TypeOK

\* Every step keeps the variables in their types.
LEMMA TypeStep == TypeOK /\ UsersCounted /\ [Next]_vars => TypeOK'
<1> SUFFICES ASSUME TypeOK, UsersCounted, [Next]_vars PROVE TypeOK'
  OBVIOUS
<1> USE DEF Goto, vars, leaseVars, dialVars, ownVars, envVars
<1>1. ASSUME NEW r \in Moves, Command(r) PROVE TypeOK'
  BY <1>1 DEF Command, TypeOK, MovePcs, StopPcs, Holding
<1>2. ASSUME NEW r \in Moves, AcquireCheck(r) PROVE TypeOK'
  BY <1>2 DEF AcquireCheck, TypeOK, MovePcs, StopPcs, Holding
<1>3. ASSUME NEW r \in Moves, Acquire(r) PROVE TypeOK'
  <2>1. ready = 0 => dials' \in Nat /\ ready' \in Nat /\ dialing' \in SUBSET Nat
    <3>1. ready = 0 => dials' = dials + 1 /\ ready' = dials'
                       /\ dialing' = dialing \cup {dials'}
      BY <1>3 DEF Acquire
    <3>2. dials + 1 \in Nat /\ dialing \in SUBSET Nat
      BY DEF TypeOK
    <3> QED
      BY <3>1, <3>2
  <2>2. ready # 0 => dials' \in Nat /\ ready' \in Nat /\ dialing' \in SUBSET Nat
    BY <1>3 DEF Acquire, TypeOK
  <2>3. waitOn' \in [Moves -> Nat]
    BY <1>3, <2>1, <2>2 DEF Acquire, TypeOK
  <2> QED
    BY <1>3, <2>1, <2>2, <2>3 DEF Acquire, TypeOK, MovePcs, StopPcs, Holding
<1>4. ASSUME NEW r \in Moves, AcquireCanceled(r) PROVE TypeOK'
  <2>1. users > 0
    BY <1>4, HolderCounts DEF AcquireCanceled, Holding
  <2>2. Release(FALSE)
    BY <1>4 DEF AcquireCanceled
  <2> QED
    BY <1>4, <2>1, <2>2, ReleaseTyped DEF AcquireCanceled, TypeOK, MovePcs, StopPcs, Holding
<1>5. ASSUME NEW r \in Moves, AcquireReady(r) PROVE TypeOK'
  BY <1>5 DEF AcquireReady, TypeOK, MovePcs, StopPcs, Holding
<1>6. ASSUME NEW r \in Moves, Resolve(r) PROVE TypeOK'
  <2>1. ctl' \in [Moves -> {"none", "live", "stale"}]
    BY <1>6 DEF Resolve, Lookup, TypeOK
  <2> QED
    BY <1>6, <2>1 DEF Resolve, TypeOK, MovePcs, StopPcs, Holding
<1>7. ASSUME NEW r \in Moves, AcquireReturn(r) PROVE TypeOK'
  <2>1. users > 0
    BY <1>7, HolderCounts DEF AcquireReturn, Holding
  <2>2. CASE Release(FALSE)
    BY <1>7, <2>1, <2>2, ReleaseTyped
       DEF AcquireReturn, TypeOK, MovePcs, StopPcs, Holding
  <2>3. CASE UNCHANGED <<leaseVars, dialVars, conn>>
    BY <1>7, <2>3 DEF AcquireReturn, TypeOK, MovePcs, StopPcs, Holding
  <2> QED
    BY <1>7, <2>2, <2>3 DEF AcquireReturn
<1>8. ASSUME NEW r \in Moves, LoopCheck(r) PROVE TypeOK'
  BY <1>8 DEF LoopCheck, TypeOK, MovePcs, StopPcs, Holding
<1>9. ASSUME NEW r \in Moves, SendMove(r) PROVE TypeOK'
  <2>1. motor' \in Moves \cup {NoOne}
    BY <1>9 DEF SendMove, SetDirection, TypeOK
  <2>2. pc' \in [Requests -> MovePcs \cup StopPcs]
    BY <1>9 DEF SendMove, TypeOK, MovePcs, StopPcs, Holding
  <2> QED
    BY <1>9, <2>1, <2>2 DEF SendMove, TypeOK
<1>10. ASSUME NEW r \in Moves, Expire(r) PROVE TypeOK'
  BY <1>10 DEF Expire, TypeOK, MovePcs, StopPcs, Holding
<1>11. ASSUME NEW r \in Moves, Repeat(r) PROVE TypeOK'
  BY <1>11 DEF Repeat, TypeOK, MovePcs, StopPcs, Holding
<1>12. ASSUME NEW r \in Moves, TickCanceled(r) PROVE TypeOK'
  BY <1>12 DEF TickCanceled, TypeOK, MovePcs, StopPcs, Holding
<1>13. ASSUME NEW r \in Moves, StopMotor(r) PROVE TypeOK'
  <2>1. motor' \in Moves \cup {NoOne}
    BY <1>13 DEF StopMotor, SetDirection, TypeOK
  <2>2. pc' \in [Requests -> MovePcs \cup StopPcs]
    BY <1>13 DEF StopMotor, TypeOK, MovePcs, StopPcs, Holding
  <2> QED
    BY <1>13, <2>1, <2>2 DEF StopMotor, TypeOK
<1>14. ASSUME NEW r \in Moves, ReleaseLease(r) PROVE TypeOK'
  <2>1. users > 0
    BY <1>14, HolderCounts DEF ReleaseLease, Holding
  <2>2. Release(TRUE)
    BY <1>14 DEF ReleaseLease
  <2> QED
    BY <1>14, <2>1, <2>2, ReleaseTyped DEF ReleaseLease, TypeOK, MovePcs, StopPcs, Holding
<1>15. ASSUME NEW r \in Moves, Finish(r) PROVE TypeOK'
  BY <1>15 DEF Finish, TypeOK, MovePcs, StopPcs, Holding
<1>16. ASSUME NEW q \in Requests, TakeGate(q) PROVE TypeOK'
  BY <1>16 DEF TakeGate, TypeOK, MovePcs, StopPcs, Holding
<1>17. ASSUME NEW q \in Requests, GiveUpGate(q) PROVE TypeOK'
  BY <1>17 DEF GiveUpGate, TypeOK, MovePcs, StopPcs, Holding
<1>18. ASSUME NEW q \in Requests, GateCheck(q) PROVE TypeOK'
  BY <1>18 DEF GateCheck, TypeOK, MovePcs, StopPcs, Holding
<1>19. ASSUME NEW q \in Requests, Unlock(q) PROVE TypeOK'
  BY <1>19 DEF Unlock, TypeOK, MovePcs, StopPcs, Holding
<1>20. ASSUME NEW s \in Stops, CancelCommands(s) PROVE TypeOK'
  BY <1>20 DEF CancelCommands, TypeOK, MovePcs, StopPcs, Holding
<1>21. ASSUME NEW s \in Stops, SendStop(s) PROVE TypeOK'
  <2>1. motor' \in Moves \cup {NoOne}
    BY <1>21 DEF SendStop, SetDirection, TypeOK
  <2>2. pc' \in [Requests -> MovePcs \cup StopPcs]
    BY <1>21 DEF SendStop, TypeOK, MovePcs, StopPcs, Holding
  <2> QED
    BY <1>21, <2>1, <2>2 DEF SendStop, TypeOK
<1>22. ASSUME NEW d \in dialing, DialLands(d) PROVE TypeOK'
  <2>1. d \in Nat
    BY DEF TypeOK
  <2>2. landed' \in SUBSET (Nat \X BOOLEAN)
    <3>1. <<d, TRUE>> \in Nat \X BOOLEAN /\ <<d, FALSE>> \in Nat \X BOOLEAN
      BY <2>1
    <3>2. PICK l \in {<<d, TRUE>>, <<d, FALSE>>} : landed' = landed \cup {l}
      BY <1>22 DEF DialLands
    <3> QED
      BY <3>1, <3>2 DEF TypeOK
  <2>3. open' \in SUBSET Nat /\ conn' \in {"none", "up", "down"}
    BY <1>22, <2>1 DEF DialLands, TypeOK
  <2> QED
    BY <1>22, <2>2, <2>3 DEF DialLands, TypeOK
<1>23. ASSUME NEW d, NEW ok, DialDone(d, ok) PROVE TypeOK'
  <2>1. d \in Nat /\ ok \in BOOLEAN
    BY <1>23 DEF DialDone, TypeOK
  <2>2. lease' \in Nat /\ ready' \in Nat /\ timer' \in Nat
    BY <1>23, <2>1 DEF DialDone, ClearLocked, TypeOK
  <2>3. err' \in BOOLEAN
    BY <1>23, <2>1, Zenon DEF DialDone, ClearLocked, TypeOK
  <2>4. open' \in SUBSET Nat /\ conn' \in {"none", "up", "down"}
    BY <1>23, <2>1 DEF DialDone, ClearLocked, AfterDetach, TypeOK
  <2>5. landed' \in SUBSET (Nat \X BOOLEAN) /\ closed' \in SUBSET Nat
    BY <1>23 DEF DialDone, TypeOK
  <2> QED
    BY <1>23, <2>2, <2>3, <2>4, <2>5 DEF DialDone, TypeOK
<1>24. ASSUME NEW e \in armed, TimerFires(e) PROVE TypeOK'
  BY <1>24 DEF TimerFires, TypeOK, MovePcs, StopPcs, Holding
<1>25. ASSUME NEW e \in fired, TimerCallback(e) PROVE TypeOK'
  <2>1. lease' \in Nat /\ ready' \in Nat /\ timer' \in Nat
    BY <1>25 DEF TimerCallback, ClearLocked, KeepLease, TypeOK
  <2>2. err' \in BOOLEAN
    BY <1>25, Zenon DEF TimerCallback, ClearLocked, KeepLease, TypeOK
  <2>3. open' \in SUBSET Nat /\ conn' \in {"none", "up", "down"}
    BY <1>25 DEF TimerCallback, ClearLocked, KeepLease, AfterDetach, TypeOK
  <2> QED
    BY <1>25, <2>1, <2>2, <2>3 DEF TimerCallback, TypeOK
<1>26. ASSUME NEW q \in Requests, ContextDone(q) PROVE TypeOK'
  BY <1>26 DEF ContextDone, TypeOK, MovePcs, StopPcs, Holding
<1>27. CASE ViewerJoins
  BY <1>27 DEF ViewerJoins, TypeOK, MovePcs, StopPcs, Holding
<1>28. CASE ViewerLeaves
  BY <1>28 DEF ViewerLeaves, TypeOK, MovePcs, StopPcs, Holding
<1>29. CASE ConnectionLost
  BY <1>29 DEF ConnectionLost, TypeOK, MovePcs, StopPcs, Holding
<1>30. CASE Reconnected
  BY <1>30 DEF Reconnected, TypeOK, MovePcs, StopPcs, Holding
<1>31. CASE UNCHANGED vars
  BY <1>31 DEF TypeOK
<1> QED
  BY <1>1, <1>2, <1>3, <1>4, <1>5, <1>6, <1>7, <1>8, <1>9, <1>10, <1>11, <1>12, <1>13, <1>14,
     <1>15, <1>16,
     <1>17, <1>18, <1>19, <1>20, <1>21, <1>22, <1>23, <1>24, <1>25, <1>26, <1>27, <1>28,
     <1>29, <1>30, <1>31
     DEF Next, MoveStep, GateStep, StopStep, DialStep, TimerStep, Environment

-----------------------------------------------------------------------------
(* The gate.                                                               *)

\* A step that leaves gate, motor and program counters alone, or only moves a
\* movement between control points where it neither sends nor gives the gate
\* back, keeps what the gate protects.
LEMMA GateFrame ==
    ASSUME TypeOK, GateInv,
           UNCHANGED <<gate, motor, swept>>,
           canceled \subseteq canceled', failed \subseteq failed',
           \/ UNCHANGED pc
           \/ \E r \in Moves :
                 /\ \A q \in Requests \ {r} : pc'[q] = pc[q]
                 /\ pc'[r] \notin {"send", "unlock"}
                 /\ pc'[r] \in AtGate => pc[r] \in AtGate
    PROVE  GateInv'
<1>1. \A q \in Requests : pc'[q] \in AtGate => pc[q] \in AtGate
  OBVIOUS
<1>2. \A r \in Moves : /\ pc'[r] = "send" => pc[r] = "send"
                       /\ pc'[r] = "unlock" => pc[r] = "unlock"
  OBVIOUS
<1>3. \A s \in Stops : pc'[s] = pc[s]
  BY RequestAssumption
<1>4. GateExclusive'
  BY <1>1 DEF GateInv, GateExclusive, Gated
<1>5. SweptCanceled'
  BY DEF GateInv, SweptCanceled
<1>6. StopIsFinal'
  <2>1. ASSUME NEW s \in Stops, TookGate(s)' PROVE TookGate(s)
    BY <1>3, <2>1 DEF TookGate
  <2>2. \A s \in Stops : swept'[s] \subseteq Moves
    BY DEF TypeOK
  <2> QED
    BY <1>2, <2>1, <2>2 DEF GateInv, StopIsFinal
<1>7. NoSilentRunaway' /\ StoppedOrFailed'
  BY <1>2 DEF GateInv, NoSilentRunaway, StoppedOrFailed
<1> QED
  BY <1>4, <1>5, <1>6, <1>7 DEF GateInv

\* No two requests are at the gate: whoever gives it back was alone there.
LEMMA AloneAtGate ==
    ASSUME TypeOK, GateInv, NEW q \in Requests, pc[q] \in AtGate
    PROVE  gate = q /\ \A p \in Requests \ {q} : pc[p] \notin AtGate
BY DEF GateInv, GateExclusive, Gated

\* Every step keeps what the gate protects.
LEMMA GateInvStep == TypeOK /\ GateInv /\ [Next]_vars => GateInv'
<1> SUFFICES ASSUME TypeOK, GateInv, [Next]_vars PROVE GateInv'
  OBVIOUS
<1> USE DEF vars, leaseVars, dialVars, ownVars, envVars
<1>1. ASSUME NEW r \in Moves,
             \/ Command(r) \/ AcquireCheck(r) \/ Acquire(r) \/ AcquireCanceled(r)
             \/ AcquireReady(r) \/ Resolve(r) \/ AcquireReturn(r)
             \/ Expire(r) \/ Repeat(r) \/ TickCanceled(r)
             \/ ReleaseLease(r) \/ Finish(r)
      PROVE  GateInv'
  <2>1. /\ UNCHANGED <<gate, motor, swept>>
        /\ canceled \subseteq canceled' /\ failed \subseteq failed'
    BY <1>1 DEF Command, AcquireCheck, Acquire, AcquireCanceled, AcquireReady,
                Resolve, AcquireReturn, Expire, Repeat, TickCanceled,
                ReleaseLease, Finish
  <2>2. /\ \A q \in Requests \ {r} : pc'[q] = pc[q]
        /\ pc'[r] \notin {"send", "unlock"}
        /\ pc'[r] \in AtGate => pc[r] \in AtGate
    BY <1>1 DEF Command, AcquireCheck, Acquire, AcquireCanceled, AcquireReady,
                Resolve, AcquireReturn, Expire, Repeat, TickCanceled,
                ReleaseLease, Finish, AtGate, Goto, TypeOK
  <2> QED
    BY <2>1, <2>2, GateFrame
<1>2. ASSUME DialStep \/ TimerStep \/ Environment PROVE GateInv'
  <2>1. /\ UNCHANGED <<gate, motor, swept, pc>>
        /\ canceled \subseteq canceled' /\ failed \subseteq failed'
    BY <1>2 DEF DialStep, TimerStep, Environment, DialLands, DialDone, TimerFires,
                TimerCallback, ContextDone, ViewerJoins, ViewerLeaves,
                ConnectionLost, Reconnected
  <2> QED
    BY <2>1, GateFrame
<1>3. ASSUME NEW q \in Requests, TakeGate(q) PROVE GateInv'
  <2>1. \A p \in Requests : pc[p] \notin AtGate
    BY <1>3, RequestAssumption DEF TakeGate, GateInv, GateExclusive, Gated
  <2>2. \A p \in Requests \ {q} : pc'[p] = pc[p]
    BY <1>3 DEF TakeGate, Goto, TypeOK
  <2>3. pc'[q] = "gated" /\ gate' = q
    BY <1>3 DEF TakeGate, Goto, TypeOK
  <2>4. GateExclusive'
    BY <2>1, <2>2, <2>3 DEF GateExclusive, Gated
  <2>5. SweptCanceled'
    BY <1>3 DEF TakeGate, GateInv, SweptCanceled
  <2>6. StopIsFinal'
    <3>1. \A r \in Moves : pc'[r] # "send"
      BY <2>1, <2>2, <2>3 DEF AtGate
    <3> QED
      BY <1>3, <3>1 DEF StopIsFinal, TakeGate, TypeOK
  <2>7. NoSilentRunaway' /\ StoppedOrFailed'
    BY <1>3, <2>1, <2>2, <2>3 DEF TakeGate, GateInv, NoSilentRunaway,
                                  StoppedOrFailed, TypeOK, AtGate
  <2> QED
    BY <2>4, <2>5, <2>6, <2>7 DEF GateInv
<1>4. ASSUME NEW q \in Requests, GiveUpGate(q) PROVE GateInv'
  <2>1. CASE q \in Moves
    <3>1. /\ \A p \in Requests \ {q} : pc'[p] = pc[p]
          /\ pc'[q] = "releasing"
      BY <1>4, <2>1 DEF GiveUpGate, Goto, TypeOK
    <3> QED
      BY <1>4, <2>1, <3>1, GateFrame DEF GiveUpGate, AtGate
  <2>2. CASE q \in Stops
    <3>1. /\ q \in canceled /\ pc[q] = "leased" /\ pc'[q] = "done"
          /\ \A p \in Requests \ {q} : pc'[p] = pc[p]
      BY <1>4, <2>2, RequestAssumption DEF GiveUpGate, Goto, TypeOK
    <3>2. \A s \in Stops : TookGate(s)' => TookGate(s)
      BY <1>4, <3>1 DEF GiveUpGate, TookGate
    <3>3. \A r \in Moves : pc'[r] = pc[r]
      BY <2>2, <3>1, RequestAssumption
    <3>4. StopIsFinal'
      BY <1>4, <3>2, <3>3 DEF GiveUpGate, GateInv, StopIsFinal, TypeOK
    <3>5. GateExclusive' /\ SweptCanceled'
      BY <1>4, <3>1 DEF GiveUpGate, GateInv, GateExclusive, Gated, SweptCanceled,
                        AtGate
    <3>6. NoSilentRunaway' /\ StoppedOrFailed'
      BY <1>4, <3>3 DEF GiveUpGate, GateInv, NoSilentRunaway, StoppedOrFailed
    <3> QED
      BY <3>4, <3>5, <3>6 DEF GateInv
  <2> QED
    BY <2>1, <2>2
<1>5. ASSUME NEW q \in Requests, GateCheck(q) \/ Unlock(q) PROVE GateInv'
  <2>1. pc[q] \in {"gated", "unlock"}
    BY <1>5 DEF GateCheck, Unlock, Goto
  <2>2. gate = q /\ \A p \in Requests \ {q} : pc[p] \notin AtGate
    BY <2>1, AloneAtGate DEF AtGate
  <2>3. \A p \in Requests \ {q} : pc'[p] = pc[p]
    BY <1>5 DEF GateCheck, Unlock, Goto, TypeOK
  <2>4. \/ pc'[q] = "loop" /\ UNCHANGED <<gate, failed>> /\ q \in Moves
        \/ /\ pc'[q] = IF q \in Moves THEN "releasing" ELSE "done"
           /\ gate' = NoOne
           /\ failed \subseteq failed'
           /\ q \in Moves /\ motor = q => q \in failed'
           /\ pc[q] = "gated" => q \in canceled
    BY <1>5 DEF GateCheck, Unlock, Goto, TypeOK, GateInv, StoppedOrFailed
  <2>5. UNCHANGED <<motor, swept, canceled>>
    BY <1>5 DEF GateCheck, Unlock
  <2>6. GateExclusive' /\ SweptCanceled'
    BY <2>2, <2>3, <2>4, <2>5 DEF GateInv, GateExclusive, Gated, SweptCanceled, AtGate
  <2>7. StopIsFinal'
    <3>1. \A s \in Stops : TookGate(s)' => TookGate(s)
      BY <2>1, <2>3, <2>4, <2>5, RequestAssumption DEF TookGate
    <3>2. \A r \in Moves : pc'[r] = "send" => pc[r] = "send"
      BY <2>3, <2>4
    <3> QED
      BY <2>5, <3>1, <3>2 DEF GateInv, StopIsFinal, TypeOK
  <2>8. NoSilentRunaway'
    BY <2>2, <2>4, <2>5, RequestAssumption DEF GateInv, NoSilentRunaway, TypeOK
  <2>9. StoppedOrFailed'
    BY <2>3, <2>4, <2>5 DEF GateInv, StoppedOrFailed
  <2> QED
    BY <2>6, <2>7, <2>8, <2>9 DEF GateInv
<1>6. ASSUME NEW r \in Moves, LoopCheck(r) \/ SendMove(r) \/ StopMotor(r)
      PROVE  GateInv'
  <2>1. pc[r] \in {"loop", "send", "stopping"}
    BY <1>6 DEF LoopCheck, SendMove, StopMotor, Goto
  <2>2. gate = r /\ \A p \in Requests \ {r} : pc[p] \notin AtGate
    BY <2>1, AloneAtGate DEF AtGate
  <2>3. \A p \in Requests \ {r} : pc'[p] = pc[p]
    BY <1>6 DEF LoopCheck, SendMove, StopMotor, Goto, TypeOK
  <2>4. UNCHANGED <<gate, swept, canceled>> /\ failed \subseteq failed'
    BY <1>6 DEF LoopCheck, SendMove, StopMotor
  <2>5. /\ pc'[r] \in {"send", "tick", "stopping", "unlock"}
        /\ pc'[r] = "send" => r \notin canceled
    BY <1>6 DEF LoopCheck, SendMove, StopMotor, Goto, TypeOK
  <2>6. GateExclusive' /\ SweptCanceled'
    BY <2>2, <2>3, <2>4 DEF GateInv, GateExclusive, Gated, SweptCanceled
  <2>7. StopIsFinal'
    <3>1. \A s \in Stops : TookGate(s)' => TookGate(s)
      BY <2>3, <2>4, RequestAssumption DEF TookGate
    <3>2. \A s \in Stops : r \in swept[s] => r \in canceled
      BY DEF GateInv, SweptCanceled
    <3> QED
      BY <2>3, <2>4, <2>5, <3>1, <3>2 DEF GateInv, StopIsFinal, TypeOK
  <2>8. NoSilentRunaway'
    BY <1>6, <2>2, <2>4 DEF LoopCheck, SendMove, StopMotor, SetDirection,
                            GateInv, NoSilentRunaway
  <2>9. StoppedOrFailed'
    <3>1. \A m \in Moves \ {r} : pc'[m] # "unlock"
      BY <2>2, <2>3 DEF AtGate
    <3>2. pc'[r] = "unlock" /\ motor' = r => r \in failed'
      BY <1>6, RequestAssumption DEF LoopCheck, SendMove, StopMotor, SetDirection,
                                     Goto, TypeOK
    <3> QED
      BY <3>1, <3>2 DEF StoppedOrFailed
  <2> QED
    BY <2>6, <2>7, <2>8, <2>9 DEF GateInv
<1>7. ASSUME NEW s \in Stops, CancelCommands(s) \/ SendStop(s) PROVE GateInv'
  <2>1. \A p \in Requests \ {s} : pc'[p] = pc[p]
    BY <1>7 DEF CancelCommands, SendStop, Goto, TypeOK
  <2>2. /\ pc'[s] \in AtGate => pc[s] \in AtGate
        /\ TookGate(s)' => TookGate(s) /\ swept'[s] = swept[s]
    BY <1>7 DEF CancelCommands, SendStop, Goto, TypeOK, TookGate, AtGate
  <2>3. /\ UNCHANGED <<gate, failed>> /\ canceled \subseteq canceled'
        /\ \A t \in Stops \ {s} : swept'[t] = swept[t]
        /\ motor' \in {motor, NoOne}
    BY <1>7 DEF CancelCommands, SendStop, SetDirection, TypeOK
  <2>4. \A r \in Moves : pc'[r] = pc[r]
    BY <2>1, RequestAssumption
  <2>5. GateExclusive'
    BY <2>1, <2>2, <2>3 DEF GateInv, GateExclusive, Gated
  <2>6. SweptCanceled'
    BY <1>7, <2>3 DEF CancelCommands, SendStop, GateInv, SweptCanceled, TypeOK
  <2>7. StopIsFinal'
    <3>1. \A t \in Stops : TookGate(t)' => TookGate(t) /\ swept'[t] = swept[t]
      BY <2>1, <2>2, <2>3 DEF TookGate
    <3> QED
      BY <2>4, <3>1 DEF GateInv, StopIsFinal, TypeOK
  <2>8. NoSilentRunaway' /\ StoppedOrFailed'
    BY <2>3, <2>4, RequestAssumption DEF GateInv, NoSilentRunaway, StoppedOrFailed
  <2> QED
    BY <2>5, <2>6, <2>7, <2>8 DEF GateInv
<1>8. CASE UNCHANGED vars
  BY <1>8, GateFrame
<1> QED
  BY <1>1, <1>2, <1>3, <1>4, <1>5, <1>6, <1>7, <1>8
     DEF Next, MoveStep, GateStep, StopStep

\* The gate is free and nobody moves at the start.
LEMMA GateInvInit == Init => GateInv
BY RequestAssumption
   DEF Init, GateInv, GateExclusive, Gated, AtGate, SweptCanceled, StopIsFinal,
       TookGate, NoSilentRunaway, StoppedOrFailed

-----------------------------------------------------------------------------
(* The lease.                                                              *)

\* The set of the movements inside acquire and after it is finite, and the count
\* is its size: with no user there is no holder.
LEMMA HoldersFinite ==
    /\ IsFiniteSet(Holders)
    /\ UsersCounted /\ users = 0 => \A r \in Moves : pc[r] \notin Holding
<1>1. IsFiniteSet(Holders)
  BY RequestAssumption, FS_Subset DEF Holders
<1> QED
  BY <1>1, FS_EmptySet DEF UsersCounted, Holders

\* A step that enters or leaves no critical section of c.mu, and moves a movement
\* (if any) to a control point whose promise holds, keeps the lease.
LEMMA LeaseFrame ==
    ASSUME TypeOK, LeaseInv,
           UNCHANGED <<leaseVars, dialVars, waitOn>>,
           \A r \in Moves : ctl'[r] # "none" => ctl[r] # "none" \/ ~err,
           \A r \in Moves :
              /\ pc'[r] \in Holding <=> pc[r] \in Holding
              /\ pc'[r] = "waiting" => pc[r] = "waiting"
              /\ pc'[r] \in Holding \ {"waiting"} => ready \in closed
              /\ pc'[r] = "resolved" /\ ctl'[r] # "none" => ~err
              /\ pc'[r] \in Leased => ~err
    PROVE  LeaseInv'
<1> USE DEF leaseVars, dialVars
<1>1. UsersCounted'
  <2>1. Holders' = Holders
    BY DEF Holders
  <2> QED
    BY <2>1 DEF LeaseInv, UsersCounted
<1>2. DialsNumbered' /\ OneDial' /\ ReadyPhases' /\ TimersOfThePast'
  BY DEF LeaseInv, DialsNumbered, OneDial, ReadyPhases, TimersOfThePast, Pending
<1>3. HolderPhases'
  BY DEF LeaseInv, HolderPhases
<1> QED
  BY <1>1, <1>2, <1>3 DEF LeaseInv

\* acquire's first critical section keeps the lease: it starts a dial only when
\* there is no lease, no other user and no pending dial.
LEMMA AcquireKeeps ==
    ASSUME TypeOK, LeaseInv, NEW r \in Moves, Acquire(r)
    PROVE  LeaseInv'
<1>1. /\ pc[r] = "acquiring" /\ pc'[r] = "waiting"
      /\ \A m \in Moves \ {r} : pc'[m] = pc[m] /\ waitOn'[m] = waitOn[m]
      /\ waitOn'[r] = ready'
  BY DEF Acquire, Goto, TypeOK
<1>2. users' = users + 1 /\ epoch' = epoch + 1
  BY DEF Acquire
<1>3. UNCHANGED <<lease, err, closed, landed, fired, open, ctl>>
      /\ armed' \subseteq armed
  BY DEF Acquire
<1>4. UsersCounted'
  <2>1. Holders' = Holders \cup {r} /\ r \notin Holders
    BY <1>1 DEF Holders, Holding
  <2> QED
    BY <1>2, <2>1, HoldersFinite, FS_AddElement DEF LeaseInv, UsersCounted
<1>5. TimersOfThePast'
  BY <1>2, <1>3 DEF LeaseInv, TimersOfThePast, TypeOK
<1>6. CASE ready = 0
  <2>1. dials' = dials + 1 /\ ready' = dials' /\ dialing' = dialing \cup {dials'}
    BY <1>6 DEF Acquire
  <2>2. dials \in Nat /\ users = 0
    BY <1>6 DEF TypeOK, LeaseInv, ReadyPhases
  <2>3. \A m \in Moves : pc[m] \notin Holding
    BY <2>2, HoldersFinite DEF LeaseInv
  <2>4. Pending = {} /\ dialing = {} /\ landed = {}
    <3>1. \A d \in Pending : FALSE
      BY <1>6, <2>2 DEF LeaseInv, OneDial, DialsNumbered
    <3> QED
      BY <3>1 DEF Pending
  <2>5. Pending' = {dials'}
    BY <1>3, <2>1, <2>4 DEF Pending
  <2>6. 0 \notin closed /\ dials' \notin closed
    BY <2>1, <2>2 DEF LeaseInv, DialsNumbered
  <2>7. DialsNumbered'
    BY <1>3, <2>1, <2>2, <2>5 DEF LeaseInv, DialsNumbered
  <2>8. OneDial'
    BY <1>3, <2>1, <2>4, <2>5, <2>6 DEF OneDial
  <2>9. ReadyPhases'
    BY <1>2, <1>3, <1>6, <2>1, <2>2, <2>5, <2>6 DEF LeaseInv, ReadyPhases
  <2>10. HolderPhases'
    BY <1>1, <2>3 DEF HolderPhases, Holding, Leased
  <2> QED
    BY <1>4, <1>5, <2>7, <2>8, <2>9, <2>10 DEF LeaseInv
<1>7. CASE ready # 0
  <2>1. UNCHANGED <<ready, dials, dialing>>
    BY <1>7 DEF Acquire
  <2>2. DialsNumbered' /\ OneDial'
    BY <1>3, <2>1 DEF LeaseInv, DialsNumbered, OneDial, Pending
  <2>3. ReadyPhases'
    BY <1>2, <1>3, <1>7, <2>1 DEF LeaseInv, ReadyPhases, Pending, TypeOK
  <2>4. HolderPhases'
    BY <1>1, <1>3, <2>1 DEF LeaseInv, HolderPhases, Holding, Leased
  <2> QED
    BY <1>4, <1>5, <2>2, <2>3, <2>4 DEF LeaseInv
<1> QED
  BY <1>6, <1>7

\* clearLocked, when nobody uses the lease and no dial is pending.
LEMMA ClearKeeps ==
    ASSUME TypeOK, DialsNumbered, ready = 0 \/ ready \in closed, OneDial,
           ClearLocked(lease),
           UNCHANGED <<dials, closed, dialing, landed>>, users' = 0
    PROVE  DialsNumbered' /\ OneDial' /\ ReadyPhases'
<1>1. ready' = 0 /\ lease' = 0 /\ err' = FALSE
  BY DEF ClearLocked
<1>2. Pending = {} /\ dialing = {} /\ landed = {}
  <2>1. \A d \in Pending : FALSE
    BY DEF OneDial, DialsNumbered, TypeOK
  <2> QED
    BY <2>1 DEF Pending
<1>3. 0 \notin closed
  BY DEF DialsNumbered, TypeOK
<1>4. Pending' = {}
  BY <1>2 DEF Pending
<1>5. DialsNumbered' /\ OneDial'
  BY <1>1, <1>2, <1>4 DEF DialsNumbered, OneDial, TypeOK
<1>6. ReadyPhases'
  BY <1>1, <1>3 DEF ReadyPhases
<1> QED
  BY <1>5, <1>6

\* release keeps the lease, from whatever control point outside of the wait it is
\* called: the one that leaves was counted, and only the last one clears.
LEMMA ReleaseKeeps ==
    ASSUME TypeOK, LeaseInv, NEW r \in Moves, NEW keep \in BOOLEAN, Release(keep),
           pc[r] \in Holding, pc'[r] \notin Holding,
           \A m \in Moves \ {r} : pc'[m] = pc[m],
           UNCHANGED <<waitOn, ctl>>
    PROVE  LeaseInv'
<1>1. /\ users' = users - 1
      /\ UNCHANGED <<epoch, dials, closed, dialing, landed, fired>>
  BY DEF Release
<1>2. UsersCounted'
  <2>1. Holders' = Holders \ {r} /\ r \in Holders
    BY DEF Holders
  <2> QED
    BY <1>1, <2>1, HoldersFinite, FS_RemoveElement DEF LeaseInv, UsersCounted
<1>3. users > 0
  BY HolderCounts DEF LeaseInv
<1>4. TimersOfThePast'
  <2>1. ready' \in {ready, 0}
    BY DEF Release, KeepLease, ClearLocked
  <2>2. armed' \subseteq armed \/ (armed' = armed \cup {epoch} /\ ready \in closed)
    BY DEF Release
  <2>3. \A e \in armed' \cup fired' : e <= epoch'
    <3>1. \A e \in armed \cup fired : e <= epoch
      BY DEF LeaseInv, TimersOfThePast
    <3>2. epoch <= epoch
      BY DEF TypeOK
    <3> QED
      BY <1>1, <2>2, <3>1, <3>2
  <2>4. epoch' \in armed' \cup fired' => ready' = 0 \/ ready' \in closed'
    BY <1>1, <2>1, <2>2 DEF LeaseInv, TimersOfThePast
  <2> QED
    BY <2>3, <2>4 DEF TimersOfThePast
<1>5. CASE users' # 0 \/ KeepLease
  <2>1. KeepLease /\ (users' = 0 /\ ready \in closed => ~err)
    BY <1>5 DEF Release, KeepLease, ClearLocked
  <2>2. DialsNumbered' /\ OneDial'
    BY <1>1, <2>1 DEF LeaseInv, DialsNumbered, OneDial, Pending, KeepLease
  <2>3. ReadyPhases'
    BY <1>1, <1>3, <2>1 DEF LeaseInv, ReadyPhases, Pending, KeepLease, TypeOK
  <2>4. HolderPhases'
    BY <1>1, <2>1 DEF LeaseInv, HolderPhases, KeepLease, Leased, Holding
  <2> QED
    BY <1>2, <1>4, <2>2, <2>3, <2>4 DEF LeaseInv
<1>6. CASE users' = 0 /\ ~KeepLease
  <2>1. ClearLocked(lease) /\ ready \in closed
    BY <1>6 DEF Release
  <2>2. DialsNumbered' /\ OneDial' /\ ReadyPhases'
    BY <1>1, <1>6, <2>1, ClearKeeps DEF LeaseInv
  <2>3. HolderPhases'
    <3>1. \A m \in Moves : pc'[m] \notin Holding
      <4>1. Holders' = {}
        BY <1>2, <1>6, FS_EmptySet, FS_Subset, RequestAssumption
           DEF UsersCounted, Holders
      <4> QED
        BY <4>1 DEF Holders
    <3> QED
      BY <3>1 DEF HolderPhases, Holding, Leased
  <2> QED
    BY <1>2, <1>4, <2>2, <2>3 DEF LeaseInv
<1> QED
  BY <1>5, <1>6

\* connect() returns: its consumer is attached before the result is published.
LEMMA DialLandsKeeps ==
    ASSUME TypeOK, LeaseInv, NEW d \in dialing, DialLands(d)
    PROVE  LeaseInv'
<1> USE DEF leaseVars, dialVars, ownVars
<1>1. /\ dialing' = dialing \ {d} /\ open \subseteq open'
      /\ UNCHANGED <<users, epoch, ready, lease, err, dials, closed, armed, fired,
                     pc, waitOn, ctl>>
  BY DEF DialLands
<1>2. d \in Pending /\ landed = {} /\ Pending = {d} /\ ready = d
  BY DEF LeaseInv, OneDial, Pending
<1>3. PICK ok \in BOOLEAN : landed' = {<<d, ok>>} /\ (ok => d \in open')
  BY <1>2 DEF DialLands
<1>4. Pending' = Pending
  BY <1>1, <1>2, <1>3 DEF Pending
<1>5. OneDial'
  <2>1. dialing' = {}
    BY <1>1, <1>2 DEF Pending
  <2> QED
    BY <1>1, <1>3, <1>4, <2>1 DEF LeaseInv, OneDial
<1>6. DialsNumbered' /\ ReadyPhases' /\ HolderPhases' /\ TimersOfThePast'
  BY <1>1, <1>4 DEF LeaseInv, DialsNumbered, ReadyPhases, HolderPhases,
                    TimersOfThePast
<1>7. UsersCounted'
  BY <1>1 DEF LeaseInv, UsersCounted, Holders
<1> QED
  BY <1>5, <1>6, <1>7 DEF LeaseInv

\* The dial publishes its result: no movement is past the wait yet, and those in
\* it find either the lease or the error.
LEMMA DialDoneKeeps ==
    ASSUME TypeOK, LeaseInv, NEW d, NEW ok, DialDone(d, ok)
    PROVE  LeaseInv'
<1>1. /\ <<d, ok>> \in landed
      /\ UNCHANGED <<users, epoch, dials, dialing, armed, fired, pc, waitOn, ctl>>
      /\ closed' = closed \cup {ready}
  BY DEF DialDone, ownVars
<1>2. d \in Nat /\ ok \in BOOLEAN
  BY <1>1 DEF TypeOK
<1>3. d \in Pending /\ d = ready /\ ready \notin closed /\ dialing = {}
  <2>1. d \in Pending
    <3>1. <<d, ok>>[1] = d
      OBVIOUS
    <3> QED
      BY <1>1, <3>1 DEF Pending
  <2> QED
    BY <1>1, <2>1 DEF LeaseInv, OneDial
<1>4. landed' = {} /\ Pending' = {}
  <2>1. landed' = {}
    BY <1>1 DEF DialDone, LeaseInv, OneDial
  <2> QED
    BY <1>1, <1>3, <2>1 DEF Pending
<1>5. ok => d \in open
  <2>1. <<d, ok>>[1] = d /\ <<d, ok>>[2] = ok
    OBVIOUS
  <2> QED
    BY <1>1, <2>1 DEF LeaseInv, OneDial
<1>6. ready \in 1..dials
  BY <1>3 DEF LeaseInv, DialsNumbered
<1>7. UsersCounted'
  BY <1>1 DEF LeaseInv, UsersCounted, Holders
<1>8. ready' = 0 \/ (ready' = ready /\ users # 0)
  BY DEF DialDone, ClearLocked
<1>9. DialsNumbered' /\ OneDial'
  BY <1>1, <1>4, <1>6, <1>8 DEF LeaseInv, DialsNumbered, OneDial, TypeOK
<1>10. TimersOfThePast'
  BY <1>1, <1>8 DEF LeaseInv, TimersOfThePast
<1>11. CASE users = 0
  <2>1. ready' = 0 /\ lease' = 0 /\ err' = FALSE
    BY <1>11 DEF DialDone, ClearLocked
  <2>2. 0 \notin closed'
    BY <1>1, <1>6 DEF LeaseInv, DialsNumbered, TypeOK
  <2>3. ReadyPhases'
    BY <1>1, <1>11, <2>1, <2>2 DEF ReadyPhases
  <2>4. HolderPhases'
    <3>1. \A r \in Moves : pc'[r] \notin Holding
      BY <1>1, <1>11, HoldersFinite DEF LeaseInv
    <3> QED
      BY <3>1 DEF HolderPhases, Holding, Leased
  <2> QED
    BY <1>7, <1>9, <1>10, <2>3, <2>4 DEF LeaseInv
<1>12. CASE users # 0
  <2>1. /\ lease' = IF ok THEN d ELSE 0
        /\ err' = ~ok
        /\ UNCHANGED <<open, ready>>
    BY <1>12 DEF DialDone
  <2>2. CASE ok
    <3>1. lease' = d /\ ~err' /\ d \in open'
      BY <1>5, <2>1, <2>2
    <3> QED
      BY <1>1, <1>3, <1>6, <1>7, <1>9, <1>10, <1>12, <2>1, <3>1
         DEF LeaseInv, ReadyPhases, HolderPhases, Holding, Leased
  <2>3. CASE ~ok
    <3>1. lease' = 0 /\ err'
      BY <2>1, <2>3
    <3>2. ReadyPhases'
      BY <1>1, <1>3, <1>6, <1>12, <2>1, <3>1 DEF ReadyPhases, TypeOK
    <3>3. HolderPhases'
      BY <1>1, <1>3, <2>1 DEF LeaseInv, HolderPhases, Holding, Leased
    <3> QED
      BY <1>7, <1>9, <1>10, <3>2, <3>3 DEF LeaseInv
  <2> QED
    BY <1>2, <2>2, <2>3
<1> QED
  BY <1>11, <1>12

\* The keepalive timer closes the lease of the idle period it belongs to only:
\* then nobody uses it and no dial is pending.
LEMMA TimerKeeps ==
    ASSUME TypeOK, LeaseInv, TimerStep
    PROVE  LeaseInv'
<1> USE DEF leaseVars, dialVars, ownVars
<1>1. ASSUME NEW e \in armed, TimerFires(e) PROVE LeaseInv'
  <2>1. UsersCounted'
    BY <1>1 DEF TimerFires, LeaseInv, UsersCounted, Holders
  <2>2. DialsNumbered' /\ OneDial' /\ ReadyPhases' /\ HolderPhases'
    BY <1>1 DEF TimerFires, LeaseInv, DialsNumbered, OneDial, ReadyPhases,
                HolderPhases, Pending
  <2>3. TimersOfThePast'
    <3>1. armed' \cup fired' = armed \cup fired
      BY <1>1 DEF TimerFires
    <3> QED
      BY <1>1, <3>1 DEF TimerFires, LeaseInv, TimersOfThePast
  <2> QED
    BY <2>1, <2>2, <2>3 DEF LeaseInv
<1>2. ASSUME NEW e \in fired, TimerCallback(e) PROVE LeaseInv'
  <2>1. /\ UNCHANGED <<users, epoch, dials, closed, dialing, landed, armed, pc,
                       waitOn, ctl>>
        /\ fired' = fired \ {e}
    BY <1>2 DEF TimerCallback
  <2>2. UsersCounted'
    BY <2>1 DEF LeaseInv, UsersCounted, Holders
  <2>3. CASE IdleSince(e)
    <3>1. ClearLocked(lease) /\ users = 0 /\ epoch = e
      BY <1>2, <2>3 DEF TimerCallback, IdleSince
    <3>2. ready = 0 \/ ready \in closed
      BY <3>1 DEF LeaseInv, TimersOfThePast
    <3>3. DialsNumbered' /\ OneDial' /\ ReadyPhases'
      BY <2>1, <3>1, <3>2, ClearKeeps DEF LeaseInv
    <3>4. HolderPhases'
      <4>1. \A r \in Moves : pc'[r] \notin Holding
        BY <2>1, <3>1, HoldersFinite DEF LeaseInv
      <4> QED
        BY <4>1 DEF HolderPhases, Holding, Leased
    <3>5. TimersOfThePast'
      BY <2>1, <3>1 DEF LeaseInv, TimersOfThePast, ClearLocked
    <3> QED
      BY <2>2, <3>3, <3>4, <3>5 DEF LeaseInv
  <2>4. CASE ~IdleSince(e)
    <3>1. KeepLease
      BY <1>2, <2>4 DEF TimerCallback
    <3> QED
      BY <2>1, <2>2, <3>1 DEF KeepLease, LeaseInv, DialsNumbered, OneDial,
                              ReadyPhases, HolderPhases, TimersOfThePast, Pending
  <2> QED
    BY <2>3, <2>4
<1> QED
  BY <1>1, <1>2 DEF TimerStep

\* Every step keeps the lease.
LEMMA LeaseInvStep == TypeOK /\ LeaseInv /\ [Next]_vars => LeaseInv'
<1> SUFFICES ASSUME TypeOK, LeaseInv, [Next]_vars PROVE LeaseInv'
  OBVIOUS
<1> USE DEF vars, leaseVars, dialVars, ownVars, envVars
<1>1. ASSUME NEW r \in Moves,
             \/ Command(r) \/ AcquireCheck(r) \/ AcquireReady(r) \/ Resolve(r)
             \/ LoopCheck(r) \/ SendMove(r) \/ Expire(r) \/ Repeat(r)
             \/ TickCanceled(r) \/ StopMotor(r) \/ Finish(r)
      PROVE  LeaseInv'
  <2>1. UNCHANGED <<leaseVars, dialVars, waitOn>>
    BY <1>1 DEF Command, AcquireCheck, AcquireReady, Resolve, LoopCheck, SendMove,
                Expire, Repeat, TickCanceled, StopMotor, Finish
  <2>2. \A m \in Moves : ctl'[m] # "none" => ctl[m] # "none" \/ ~err
    BY <1>1 DEF Command, AcquireCheck, AcquireReady, Resolve, LoopCheck, SendMove,
                Expire, Repeat, TickCanceled, StopMotor, Finish, TypeOK
  <2>3. /\ \A m \in Moves \ {r} : pc'[m] = pc[m]
        /\ pc'[r] \in Holding <=> pc[r] \in Holding
        /\ pc'[r] # "waiting"
        /\ pc'[r] \in Holding \ {"waiting"} => ready \in closed
        /\ pc'[r] = "resolved" /\ ctl'[r] # "none" => ~err
        /\ pc'[r] \in Leased => ~err
    <3>1. CASE AcquireReady(r)
      BY <3>1 DEF AcquireReady, Goto, TypeOK, Holding, Leased, LeaseInv, HolderPhases
    <3>2. CASE Resolve(r)
      BY <3>2 DEF Resolve, Goto, TypeOK, Holding, Leased, LeaseInv, HolderPhases
    <3>3. CASE Command(r) \/ AcquireCheck(r) \/ Finish(r)
      BY <3>3 DEF Command, AcquireCheck, Finish, Goto, TypeOK, Holding, Leased
    <3>4. CASE \/ LoopCheck(r) \/ SendMove(r) \/ Expire(r) \/ Repeat(r)
               \/ TickCanceled(r) \/ StopMotor(r)
      BY <3>4 DEF LoopCheck, SendMove, Expire, Repeat, TickCanceled, StopMotor, Goto,
                  TypeOK, Holding, Leased, LeaseInv, HolderPhases
    <3> QED
      BY <1>1, <3>1, <3>2, <3>3, <3>4
  <2>4. \A m \in Moves \ {r} :
           ctl'[m] = ctl[m]
    BY <1>1 DEF Command, AcquireCheck, AcquireReady, Resolve, LoopCheck, SendMove,
                Expire, Repeat, TickCanceled, StopMotor, Finish, TypeOK
  <2>5. \A m \in Moves \ {r} :
           /\ pc[m] \in Holding \ {"waiting"} => ready \in closed
           /\ pc[m] = "resolved" /\ ctl[m] # "none" => ~err
           /\ pc[m] \in Leased => ~err
    BY DEF LeaseInv, HolderPhases
  <2> QED
    BY <2>1, <2>2, <2>3, <2>4, <2>5, LeaseFrame
<1>2. ASSUME NEW q \in Requests, GateStep(q) PROVE LeaseInv'
  <2>1. UNCHANGED <<leaseVars, dialVars, waitOn, ctl>>
    BY <1>2 DEF GateStep, TakeGate, GiveUpGate, GateCheck, Unlock
  <2>2. \A m \in Moves \ {q} : pc'[m] = pc[m]
    BY <1>2 DEF GateStep, TakeGate, GiveUpGate, GateCheck, Unlock, Goto, TypeOK
  <2>3. q \in Moves => pc[q] \in Leased /\ pc'[q] \in Leased
    BY <1>2 DEF GateStep, TakeGate, GiveUpGate, GateCheck, Unlock, Goto, TypeOK,
                Leased, Holding
  <2> QED
    BY <2>1, <2>2, <2>3, LeaseFrame DEF LeaseInv, HolderPhases, Leased, Holding
<1>3. ASSUME \/ \E s \in Stops : StopStep(s)
             \/ Environment
      PROVE  LeaseInv'
  <2>1. UNCHANGED <<leaseVars, dialVars, waitOn>>
    BY <1>3 DEF StopStep, CancelCommands, SendStop, Environment, ContextDone,
                ViewerJoins, ViewerLeaves, ConnectionLost, Reconnected
  <2>2. \A m \in Moves : pc'[m] = pc[m]
    BY <1>3, RequestAssumption
       DEF StopStep, CancelCommands, SendStop, Environment, ContextDone,
           ViewerJoins, ViewerLeaves, ConnectionLost, Reconnected, Goto, TypeOK
  <2>3. \A m \in Moves : ctl'[m] # "none" => ctl[m] # "none"
    BY <1>3 DEF StopStep, CancelCommands, SendStop, Environment, ContextDone,
                ViewerJoins, ViewerLeaves, ConnectionLost, Reconnected
  <2> QED
    BY <2>1, <2>2, <2>3, LeaseFrame DEF LeaseInv, HolderPhases
<1>4. ASSUME NEW r \in Moves, AcquireCanceled(r) \/ ReleaseLease(r) PROVE LeaseInv'
  <2>1. /\ pc[r] \in Holding /\ pc'[r] \notin Holding
        /\ \A m \in Moves \ {r} : pc'[m] = pc[m]
        /\ UNCHANGED <<waitOn, ctl>>
    BY <1>4 DEF AcquireCanceled, ReleaseLease, Goto, TypeOK, Holding
  <2>2. \E keep \in BOOLEAN : Release(keep)
    BY <1>4 DEF AcquireCanceled, ReleaseLease
  <2> QED
    BY <2>1, <2>2, ReleaseKeeps
<1>5. ASSUME NEW r \in Moves, AcquireReturn(r) PROVE LeaseInv'
  <2>1. /\ pc[r] = "resolved"
        /\ \A m \in Moves \ {r} : pc'[m] = pc[m]
        /\ UNCHANGED <<waitOn, ctl>>
    BY <1>5 DEF AcquireReturn, Goto, TypeOK
  <2>2. CASE Release(FALSE) /\ pc'[r] = "finish"
    BY <2>1, <2>2, ReleaseKeeps DEF Holding
  <2>3. CASE ctl[r] # "none" /\ pc'[r] = "leased" /\ UNCHANGED <<leaseVars, dialVars>>
    BY <2>1, <2>3, LeaseFrame DEF LeaseInv, HolderPhases, Leased, Holding
  <2> QED
    BY <1>5, <2>2, <2>3 DEF AcquireReturn, Goto, TypeOK
<1>6. CASE UNCHANGED vars
  BY <1>6, LeaseFrame DEF LeaseInv, HolderPhases
<1> QED
  BY <1>1, <1>2, <1>3, <1>4, <1>5, <1>6, AcquireKeeps, DialLandsKeeps, DialDoneKeeps,
     TimerKeeps
     DEF Next, MoveStep, DialStep

\* release keeps the idle periods: the last user clears the lease, arms its timer,
\* or leaves both to a pending dial, which has no lease yet.
LEMMA ReleaseKeepsIdle ==
    ASSUME TypeOK, LeaseInv, IdleInv, NEW keep \in BOOLEAN, Release(keep), users > 0
    PROVE  IdleInv' /\ timer \notin armed
<1>1. /\ users' = users - 1
      /\ UNCHANGED <<epoch, dials, closed, dialing, landed, fired>>
  BY DEF Release
<1>2. timer \notin armed
  BY DEF IdleInv, IdlePeriods
<1>3. CASE users' # 0
  <2>1. KeepLease /\ UNCHANGED <<timer, armed>> /\ users' > 0
    BY <1>1, <1>3 DEF Release, TypeOK
  <2> QED
    BY <1>1, <1>2, <2>1 DEF KeepLease, IdleInv, IdlePeriods, NoLeakedLease
<1>4. CASE users' = 0 /\ ready \in closed /\ ClearLocked(lease) /\ UNCHANGED armed
  <2>1. open' = open \ {lease} /\ timer' = 0
    BY <1>4 DEF ClearLocked
  <2> QED
    BY <1>1, <1>2, <1>4, <2>1 DEF IdleInv, IdlePeriods, NoLeakedLease
<1>5. CASE /\ users' = 0 /\ timer' = epoch /\ armed' = armed \cup {epoch}
           /\ KeepLease
  <2>1. epoch \notin armed \cup fired /\ epoch # 0
    BY DEF IdleInv, IdlePeriods, TypeOK
  <2>2. IdlePeriods'
    BY <1>1, <1>5, <2>1 DEF IdleInv, IdlePeriods
  <2>3. NoLeakedLease'
    <3>1. epoch' \in armed' \cup fired' /\ UNCHANGED <<open, lease, landed>>
      BY <1>1, <1>5 DEF KeepLease
    <3>2. \A d \in open : <<d, TRUE>> \in landed \/ d = lease
      BY DEF IdleInv, NoLeakedLease
    <3> QED
      BY <3>1, <3>2 DEF NoLeakedLease
  <2>4. 0 \notin open'
    BY <1>5 DEF KeepLease, IdleInv
  <2> QED
    BY <1>2, <2>2, <2>3, <2>4 DEF IdleInv
<1>6. CASE /\ users' = 0 /\ ready \notin closed /\ KeepLease
           /\ UNCHANGED <<timer, armed>>
  <2>1. lease = 0
    BY <1>6 DEF LeaseInv, ReadyPhases
  <2> QED
    BY <1>1, <1>2, <1>6, <2>1 DEF KeepLease, IdleInv, IdlePeriods, NoLeakedLease
<1> QED
  BY <1>2, <1>3, <1>4, <1>5, <1>6 DEF Release

\* acquire ends an idle period: the new number belongs to no timer.
LEMMA AcquireKeepsIdle ==
    ASSUME TypeOK, LeaseInv, IdleInv, NEW r \in Moves, Acquire(r)
    PROVE  IdleInv' /\ lease' = lease
<1>1. /\ users' = users + 1 /\ epoch' = epoch + 1 /\ timer' = 0
      /\ armed' \subseteq armed
      /\ UNCHANGED <<lease, landed, fired, open>>
  BY DEF Acquire
<1>2. users' > 0 /\ epoch' > 0 /\ epoch' \notin armed' \cup fired'
  BY <1>1 DEF TypeOK, LeaseInv, TimersOfThePast
<1> QED
  BY <1>1, <1>2 DEF IdleInv, IdlePeriods, NoLeakedLease

\* The dial goroutine: an attached consumer goes from it to the lease, or is
\* closed when nobody waits any more.
LEMMA DialKeepsIdle ==
    ASSUME TypeOK, LeaseInv, IdleInv, DialStep
    PROVE  IdleInv' /\ (timer \in armed => lease' = lease)
<1>1. ASSUME NEW d \in dialing, DialLands(d)
      PROVE  IdleInv' /\ lease' = lease
  <2>1. /\ UNCHANGED <<leaseVars, armed, fired>>
        /\ landed \subseteq landed'
        /\ open' = open \/ (open' = open \cup {d} /\ <<d, TRUE>> \in landed')
    BY <1>1 DEF DialLands
  <2>2. d # 0
    BY DEF LeaseInv, DialsNumbered, Pending, TypeOK
  <2> QED
    BY <2>1, <2>2 DEF leaseVars, IdleInv, IdlePeriods, NoLeakedLease
<1>2. ASSUME NEW d, NEW ok, DialDone(d, ok)
      PROVE  IdleInv' /\ timer \notin armed
  <2>1. /\ <<d, ok>> \in landed
        /\ UNCHANGED <<users, epoch, armed, fired>>
    BY <1>2 DEF DialDone
  <2>2. ready = d /\ ready \in Pending /\ ready \notin closed /\ ok \in BOOLEAN
    <3>1. <<d, ok>>[1] = d
      OBVIOUS
    <3>2. d \in Pending
      BY <2>1, <3>1 DEF Pending
    <3> QED
      BY <2>1, <3>2 DEF LeaseInv, OneDial, TypeOK
  <2>3. ready # 0 /\ lease = 0
    BY <2>2 DEF LeaseInv, DialsNumbered, ReadyPhases, TypeOK
  <2>4. epoch \notin armed \cup fired /\ timer \notin armed
    BY <2>2, <2>3 DEF LeaseInv, TimersOfThePast, IdleInv, IdlePeriods
  <2>5. \A c \in open : c = d /\ ok
    <3> SUFFICES ASSUME NEW c \in open PROVE c = d /\ ok
      OBVIOUS
    <3>1. <<c, TRUE>> \in landed
      BY <2>3 DEF IdleInv, NoLeakedLease
    <3>2. <<c, TRUE>> = <<d, ok>>
      BY <2>1, <3>1 DEF LeaseInv, OneDial
    <3> QED
      BY <3>2
  <2>6. CASE users = 0
    <3>1. open' = open \ {IF ok THEN d ELSE 0} /\ timer' = 0
      BY <1>2, <2>6 DEF DialDone, ClearLocked
    <3>2. open' = {}
      BY <2>5, <3>1
    <3> QED
      BY <2>1, <2>4, <2>6, <3>1, <3>2 DEF IdleInv, IdlePeriods, NoLeakedLease
  <2>7. CASE users # 0
    <3>1. lease' = (IF ok THEN d ELSE 0) /\ UNCHANGED <<open, timer>>
      BY <1>2, <2>7 DEF DialDone
    <3>2. users' > 0
      BY <2>1, <2>7 DEF TypeOK
    <3> QED
      BY <2>1, <2>4, <2>5, <3>1, <3>2 DEF IdleInv, IdlePeriods, NoLeakedLease
  <2> QED
    BY <2>4, <2>6, <2>7
<1> QED
  BY <1>1, <1>2 DEF DialStep

\* A callback clears the lease only if its idle period is the current one, whose
\* timer is then no longer armed.
LEMMA TimerKeepsIdle ==
    ASSUME TypeOK, LeaseInv, IdleInv, TimerStep
    PROVE  IdleInv' /\ (timer \in armed => lease' = lease)
<1>1. ASSUME NEW e \in armed, TimerFires(e)
      PROVE  IdleInv' /\ lease' = lease
  BY <1>1 DEF TimerFires, leaseVars, IdleInv, IdlePeriods, NoLeakedLease
<1>2. ASSUME NEW e \in fired, TimerCallback(e)
      PROVE  IdleInv' /\ (timer \in armed => lease' = lease)
  <2>1. UNCHANGED <<users, epoch, landed, armed>> /\ fired' = fired \ {e}
    BY <1>2 DEF TimerCallback
  <2>2. CASE IdleSince(e)
    <3>1. /\ open' = open \ {lease} /\ timer' = 0 /\ users = 0 /\ epoch = e
      BY <1>2, <2>2 DEF TimerCallback, ClearLocked, IdleSince
    <3>2. timer \notin armed
      BY <3>1 DEF IdleInv, IdlePeriods
    <3> QED
      BY <2>1, <3>1, <3>2 DEF IdleInv, IdlePeriods, NoLeakedLease
  <2>3. CASE ~IdleSince(e)
    <3>1. KeepLease /\ UNCHANGED timer /\ (users > 0 \/ epoch # e)
      BY <1>2, <2>3 DEF TimerCallback, IdleSince, TypeOK
    <3> QED
      BY <2>1, <3>1 DEF KeepLease, IdleInv, IdlePeriods, NoLeakedLease
  <2> QED
    BY <2>2, <2>3
<1> QED
  BY <1>1, <1>2 DEF TimerStep

\* Every step keeps the idle periods, and the lease while the timer of the
\* current one runs.
LEMMA IdleInvStep ==
    TypeOK /\ LeaseInv /\ IdleInv /\ [Next]_vars
        => IdleInv' /\ (timer \in armed => lease' = lease)
<1> SUFFICES ASSUME TypeOK, LeaseInv, IdleInv, [Next]_vars
             PROVE  IdleInv' /\ (timer \in armed => lease' = lease)
  OBVIOUS
<1>1. CASE UNCHANGED <<leaseVars, dialVars>>
  BY <1>1 DEF leaseVars, dialVars, IdleInv, IdlePeriods, NoLeakedLease
<1>2. ASSUME NEW r \in Moves, MoveStep(r)
      PROVE  IdleInv' /\ (timer \in armed => lease' = lease)
  <2>1. CASE Acquire(r)
    BY <2>1, AcquireKeepsIdle
  <2>2. ASSUME NEW keep \in BOOLEAN, Release(keep), pc[r] \in Holding
        PROVE  IdleInv' /\ timer \notin armed
    BY <2>2, HolderCounts, ReleaseKeepsIdle DEF LeaseInv
  <2>3. CASE AcquireCanceled(r) \/ ReleaseLease(r)
    BY <2>2, <2>3 DEF AcquireCanceled, ReleaseLease, Goto, Holding
  <2>4. CASE AcquireReturn(r)
    BY <1>1, <2>2, <2>4 DEF AcquireReturn, Goto, Holding
  <2>5. CASE \/ Command(r) \/ AcquireCheck(r) \/ AcquireReady(r) \/ Resolve(r)
             \/ LoopCheck(r) \/ SendMove(r) \/ Expire(r) \/ Repeat(r)
             \/ TickCanceled(r) \/ StopMotor(r) \/ Finish(r)
    BY <1>1, <2>5 DEF Command, AcquireCheck, AcquireReady, Resolve, LoopCheck,
                      SendMove, Expire, Repeat, TickCanceled, StopMotor, Finish
  <2> QED
    BY <1>2, <2>1, <2>3, <2>4, <2>5 DEF MoveStep
<1>3. ASSUME \/ \E q \in Requests : GateStep(q)
             \/ \E s \in Stops : StopStep(s)
             \/ Environment
      PROVE  UNCHANGED <<leaseVars, dialVars>>
  BY <1>3 DEF GateStep, TakeGate, GiveUpGate, GateCheck, Unlock, StopStep,
              CancelCommands, SendStop, Environment, ContextDone, ViewerJoins,
              ViewerLeaves, ConnectionLost, Reconnected
<1>4. CASE UNCHANGED vars
  BY <1>1, <1>4 DEF vars
<1> QED
  BY <1>1, <1>2, <1>3, <1>4, DialKeepsIdle, TimerKeepsIdle DEF Next

\* There is no lease, no dial and no user at the start.
LEMMA LeaseInvInit == Init => LeaseInv
<1> SUFFICES ASSUME Init PROVE LeaseInv
  OBVIOUS
<1>1. \A r \in Moves : pc[r] = "idle"
  BY DEF Init
<1>2. Holders = {} /\ Pending = {}
  BY <1>1 DEF Init, Holders, Holding, Pending
<1>3. UsersCounted
  BY <1>2, FS_EmptySet DEF Init, UsersCounted
<1> QED
  BY <1>1, <1>2, <1>3
     DEF Init, LeaseInv, DialsNumbered, OneDial, ReadyPhases, HolderPhases,
         TimersOfThePast, Holding, Leased

-----------------------------------------------------------------------------
(* The theorems.                                                           *)

\* The inductive invariant holds in every reachable state.
LEMMA Invariance == Spec => [](TypeOK /\ GateInv /\ LeaseInv)
<1>1. Init => TypeOK /\ GateInv /\ LeaseInv
  BY TypeInit, GateInvInit, LeaseInvInit
<1>2. TypeOK /\ GateInv /\ LeaseInv /\ [Next]_vars
         => (TypeOK /\ GateInv /\ LeaseInv)'
  BY TypeStep, GateInvStep, LeaseInvStep DEF LeaseInv
<1> QED
  BY <1>1, <1>2, PTL DEF Spec

\* The lease is accounted for in every idle period.
LEMMA IdleInvariance == Spec => []IdleInv
<1>1. Init => IdleInv
  BY DEF Init, IdleInv, IdlePeriods, NoLeakedLease
<1>2. TypeOK /\ LeaseInv /\ IdleInv /\ [Next]_vars => IdleInv'
  BY IdleInvStep
<1> QED
  BY <1>1, <1>2, Invariance, PTL DEF Spec

\* The variables of the control path keep their types.
THEOREM TypeCorrect == Spec => []TypeOK
BY Invariance, PTL

\* Commands to the camera are serialized: whoever may send holds the gate.
THEOREM GateIsExclusive == Spec => []GateExclusive
<1>1. GateInv => GateExclusive
  BY DEF GateInv
<1> QED
  BY <1>1, Invariance, PTL

\* A movement canceled by a stop request never sends a direction once that stop
\* has held the gate.
THEOREM StopsAreFinal == Spec => []StopIsFinal
<1>1. GateInv => StopIsFinal
  BY DEF GateInv
<1> QED
  BY <1>1, Invariance, PTL

\* A camera left moving has a movement at the gate or a movement with an error.
THEOREM NoRunawayIsSilent == Spec => []NoSilentRunaway
<1>1. GateInv => NoSilentRunaway
  BY DEF GateInv
<1> QED
  BY <1>1, Invariance, PTL

\* The user count of the lease is exact.
THEOREM UsersAreCounted == Spec => []UsersCounted
<1>1. LeaseInv => UsersCounted
  BY DEF LeaseInv
<1> QED
  BY <1>1, Invariance, PTL

\* Nothing closes the lease under a movement that was handed a controller.
THEOREM LeaseIsPinned == Spec => []LeasePinned
<1>1. LeaseInv => LeasePinned
  BY DEF LeaseInv, ReadyPhases, HolderPhases, LeasePinned, Leased
<1> QED
  BY <1>1, Invariance, PTL

\* At most one dial is pending, and it is the one c.ready belongs to.
THEOREM DialIsShared == Spec => []SharedDial
<1>1. LeaseInv => SharedDial
  BY DEF LeaseInv, OneDial, SharedDial, Pending
<1> QED
  BY <1>1, Invariance, PTL

\* Every waiting movement waits on the channel that will be closed.
THEOREM WakeUpsCome == Spec => []WakeUpComing
<1>1. TypeOK /\ LeaseInv => WakeUpComing
  <2> SUFFICES ASSUME TypeOK, LeaseInv, NEW r \in Moves, pc[r] = "waiting"
               PROVE  /\ waitOn[r] = ready
                      /\ ready \in closed \cup dialing \cup {l[1] : l \in landed}
    BY DEF WakeUpComing
  <2>1. users > 0
    BY HolderCounts DEF Holding, LeaseInv
  <2> QED
    BY <2>1 DEF LeaseInv, ReadyPhases, HolderPhases, Pending
<1> QED
  BY <1>1, Invariance, PTL

\* A dial error does not outlive the requests that shared the dial.
THEOREM ErrorsAreForgotten == Spec => []ErrorForgotten
<1>1. LeaseInv => ErrorForgotten
  BY DEF LeaseInv, ReadyPhases, ErrorForgotten
<1> QED
  BY <1>1, Invariance, PTL

\* No attached consumer is forgotten: it is the lease of somebody, or a timer or
\* a dial that is under way will close it.
THEOREM NoLeaseIsLeaked == Spec => []NoLeakedLease
<1>1. IdleInv => NoLeakedLease
  BY DEF IdleInv
<1> QED
  BY <1>1, IdleInvariance, PTL

\* While the timer of the current idle period runs, nothing closes the lease.
THEOREM KeepaliveIsHonoured == Spec => KeepaliveHonoured
<1>1. TypeOK /\ LeaseInv /\ IdleInv /\ [Next]_vars
         => [(timer \in armed) => lease' = lease]_vars
  BY IdleInvStep
<1> QED
  BY <1>1, Invariance, IdleInvariance, PTL DEF Spec, KeepaliveHonoured

\* The users of the shared lease are counted, it is pinned while it is used,
\* and it is given back.
THEOREM LeaseIsDisciplined == Spec => []LeaseDiscipline
  BY UsersAreCounted, LeaseIsPinned, NoLeaseIsLeaked, PTL DEF LeaseDiscipline

\* The dial they share wakes all who wait for it and leaves no error behind.
THEOREM DialIsDisciplined == Spec => []DialDiscipline
  BY DialIsShared, WakeUpsCome, ErrorsAreForgotten, PTL DEF DialDiscipline

-----------------------------------------------------------------------------
(* The promise: initial states map to initial states, and every step maps  *)
(* to a step of the promise or leaves it as it is.                         *)

\* What the promise shows of a state (the refinement mapping of PtzCameraProps).
Using   == Holders
Pinned  == open # {}
Driving == IF \E r \in Moves : pc[r] \in Running
           THEN CHOOSE r \in Moves : pc[r] \in Running ELSE NoOne
Barred  == {r \in Moves : r \in canceled /\ pc[r] \notin Running}

\* Everything the steps may rely on.
AllInv == TypeOK /\ GateInv /\ LeaseInv /\ IdleInv

\* The steps of the promise under the mapping.
EnterStep(r) == Using' = Using \cup {r} /\ UNCHANGED <<Pinned, Driving, Barred>>
PinStep      == ~Pinned /\ Pinned' /\ UNCHANGED <<Using, Driving, Barred>>
LeaveStep(r) ==
    /\ r \in Using /\ Driving # r
    /\ Using' = Using \ {r}
    /\ UNCHANGED Pinned \/ (Using' = {} /\ ~Pinned')
    /\ UNCHANGED <<Driving, Barred>>
UnpinStep    == Pinned /\ Using = {} /\ ~Pinned' /\ UNCHANGED <<Using, Driving, Barred>>
BeginStep(r) ==
    /\ Driving = NoOne /\ r \in Using /\ Pinned /\ r \notin Barred
    /\ Driving' = r /\ UNCHANGED <<Using, Pinned, Barred>>
EndStep(S) ==
    /\ Driving # NoOne /\ Driving' = NoOne
    /\ Barred' = Barred \cup S /\ UNCHANGED <<Using, Pinned>>
BarStep(S) ==
    /\ Driving \notin S
    /\ Barred' = Barred \cup S /\ UNCHANGED <<Using, Pinned, Driving>>

PromiseStep ==
    \/ \E r \in Moves : EnterStep(r) \/ LeaveStep(r) \/ BeginStep(r)
    \/ PinStep \/ UnpinStep
    \/ \E S \in SUBSET Moves : EndStep(S) \/ BarStep(S)
    \/ UNCHANGED <<Using, Pinned, Driving, Barred>>

-----------------------------------------------------------------------------
\* The steps above are those of PtzPromise.
LEMMA StepsAreThePromise == PromiseStep => [Promise!Next]_(Promise!vars)
<1> USE DEF Using, Pinned, Driving, Barred
<1>1. ASSUME NEW r \in Moves, EnterStep(r) PROVE Promise!Enter(r)
  BY <1>1 DEF EnterStep, Promise!Enter
<1>2. ASSUME NEW r \in Moves, LeaveStep(r) PROVE Promise!Leave(r)
  BY <1>2 DEF LeaveStep, Promise!Leave
<1>3. ASSUME NEW r \in Moves, BeginStep(r) PROVE Promise!Begin(r)
  BY <1>3 DEF BeginStep, Promise!Begin
<1>4. ASSUME PinStep PROVE Promise!Pin
  BY <1>4 DEF PinStep, Promise!Pin
<1>5. ASSUME UnpinStep PROVE Promise!Unpin
  BY <1>5 DEF UnpinStep, Promise!Unpin
<1>6. ASSUME NEW S \in SUBSET Moves, EndStep(S) PROVE Promise!End(S)
  BY <1>6 DEF EndStep, Promise!End
<1>7. ASSUME NEW S \in SUBSET Moves, BarStep(S) PROVE Promise!Bar(S)
  BY <1>7 DEF BarStep, Promise!Bar
<1>8. ASSUME UNCHANGED <<Using, Pinned, Driving, Barred>>
      PROVE  UNCHANGED Promise!vars
  BY <1>8 DEF Promise!vars
<1> QED
  BY <1>1, <1>2, <1>3, <1>4, <1>5, <1>6, <1>7, <1>8 DEF PromiseStep, Promise!Next

\* The gate makes the driving movement the only one, before and after a step.
LEMMA DrivingIsUnique ==
    ASSUME TypeOK, GateExclusive
    PROVE  /\ \A r \in Moves : pc[r] \in Running => Driving = r
           /\ (\A r \in Moves : pc[r] \notin Running) => Driving = NoOne
           /\ \A r \in Moves : Driving = r => pc[r] \in Running
<1>1. \A r, m \in Moves : pc[r] \in Running /\ pc[m] \in Running => r = m
  BY DEF GateExclusive, Gated, AtGate, Running, Requests
<1>2. ASSUME NEW r \in Moves, pc[r] \in Running PROVE Driving = r
  <2>1. Driving = CHOOSE m \in Moves : pc[m] \in Running
    BY <1>2 DEF Driving
  <2>2. Driving \in Moves /\ pc[Driving] \in Running
    BY <1>2, <2>1
  <2> QED
    BY <1>1, <1>2, <2>2
<1>3. (\A r \in Moves : pc[r] \notin Running) => Driving = NoOne
  BY DEF Driving
<1>4. ASSUME NEW r \in Moves, Driving = r PROVE pc[r] \in Running
  <2>1. \E m \in Moves : pc[m] \in Running
    BY <1>3, <1>4, RequestAssumption
  <2> QED
    BY <1>2, <1>4, <2>1
<1> QED
  BY <1>2, <1>3, <1>4

\* The same of the state after a step.
LEMMA DrivingIsUniqueNext ==
    ASSUME GateExclusive'
    PROVE  /\ \A r \in Moves : pc'[r] \in Running => Driving' = r
           /\ (\A r \in Moves : pc'[r] \notin Running) => Driving' = NoOne
<1>1. \A r, m \in Moves : pc'[r] \in Running /\ pc'[m] \in Running => r = m
  BY DEF GateExclusive, Gated, AtGate, Running, Requests
<1>2. ASSUME NEW r \in Moves, pc'[r] \in Running PROVE Driving' = r
  <2>1. Driving' = CHOOSE m \in Moves : pc'[m] \in Running
    BY <1>2 DEF Driving
  <2>2. Driving' \in Moves /\ pc'[Driving'] \in Running
    BY <1>2, <2>1
  <2> QED
    BY <1>1, <1>2, <2>2
<1> QED
  BY <1>2 DEF Driving

\* A step after which the same movements are running drives as before.
LEMMA DrivingFrame ==
    ASSUME TypeOK, GateExclusive, GateExclusive',
           \A r \in Moves : pc'[r] \in Running <=> pc[r] \in Running
    PROVE  Driving' = Driving
<1>1. ASSUME NEW r \in Moves, pc[r] \in Running PROVE Driving' = Driving
  BY <1>1, DrivingIsUnique, DrivingIsUniqueNext
<1>2. CASE \A r \in Moves : pc[r] \notin Running
  BY <1>2, DrivingIsUnique, DrivingIsUniqueNext
<1> QED
  BY <1>1, <1>2

-----------------------------------------------------------------------------
(* Every step of PtzCamera is a step of the promise.                       *)

\* Steps that neither take a user nor the lease, nor cancel anything that is not
\* running, and leave the same movements running.
LEMMA Stutters ==
    ASSUME TypeOK, GateExclusive, GateExclusive',
           \A r \in Moves : pc'[r] \in Running <=> pc[r] \in Running,
           \A r \in Moves : pc'[r] \in Holding <=> pc[r] \in Holding,
           \A r \in Moves : r \in canceled' /\ pc[r] \notin Running => r \in canceled,
           canceled \subseteq canceled', UNCHANGED open
    PROVE  UNCHANGED <<Using, Pinned, Driving, Barred>>
<1>1. Driving' = Driving
  BY DrivingFrame
<1>2. Using' = Using
  BY DEF Using, Holders
<1>3. Pinned' = Pinned
  BY DEF Pinned
<1>4. Barred' = Barred
  BY DEF Barred
<1> QED
  BY <1>1, <1>2, <1>3, <1>4

\* No consumer but the lease is attached unless a dial is pending.
LEMMA OnlyTheLease ==
    ASSUME TypeOK, LeaseInv, IdleInv, ready = 0 \/ ready \in closed
    PROVE  open \subseteq {lease}
<1>1. landed = {}
  <2>1. \A l \in landed : l[1] = ready /\ ready \notin closed
    BY DEF LeaseInv, OneDial, Pending
  <2>2. \A l \in landed : l[1] # 0
    BY DEF LeaseInv, DialsNumbered, Pending, TypeOK
  <2> QED
    BY <2>1, <2>2
<1> QED
  BY <1>1 DEF IdleInv, NoLeakedLease

\* Every release, with its movement, is a departure.
LEMMA ReleaseLeaves ==
    ASSUME AllInv, LeaseInv', GateExclusive', NEW r \in Moves, NEW keep \in BOOLEAN,
           Release(keep), pc[r] \in Holding \ Running, pc'[r] = "finish",
           \A m \in Moves \ {r} : pc'[m] = pc[m], UNCHANGED canceled
    PROVE  LeaveStep(r)
<1> USE DEF AllInv
<1>1. \A m \in Moves : pc'[m] \in Running <=> pc[m] \in Running
  BY DEF Running
<1>2. Driving' = Driving
  BY <1>1, DrivingFrame DEF GateInv
<1>3. Driving # r
  BY DrivingIsUnique DEF GateInv
<1>4. Using' = Using \ {r} /\ r \in Using
  BY DEF Using, Holders, Holding
<1>5. Barred' = Barred
  BY <1>1 DEF Barred
<1>6. UNCHANGED Pinned \/ (Using' = {} /\ ~Pinned')
  <2>1. CASE KeepLease
    BY <2>1 DEF KeepLease, Pinned
  <2>2. CASE users' = 0 /\ ready \in closed /\ ClearLocked(lease)
    <3>1. open' = {}
      BY <2>2, OnlyTheLease DEF ClearLocked
    <3>2. Using' = {}
      BY <2>2, <1>4, FS_EmptySet, FS_Subset, RequestAssumption
         DEF LeaseInv, UsersCounted, Holders, Using
    <3> QED
      BY <3>1, <3>2 DEF Pinned
  <2> QED
    BY <2>1, <2>2 DEF Release
<1> QED
  BY <1>2, <1>3, <1>4, <1>5, <1>6 DEF LeaveStep

\* The steps of a movement.
LEMMA MoveStepsImplement ==
    ASSUME AllInv, LeaseInv', GateExclusive', NEW r \in Moves, MoveStep(r)
    PROVE  PromiseStep
<1> USE DEF AllInv, GateInv, Requests, leaseVars, dialVars, ownVars, envVars
<1>1. CASE \/ Command(r) \/ AcquireCheck(r) \/ AcquireReady(r) \/ Resolve(r)
           \/ LoopCheck(r) \/ SendMove(r) \/ Expire(r) \/ Repeat(r)
           \/ TickCanceled(r)
  <2> USE <1>1 DEF Command, AcquireCheck, AcquireReady, Resolve, LoopCheck, SendMove,
                   Expire, Repeat, TickCanceled, Goto
  <2>1. UNCHANGED <<open, canceled>>
    OBVIOUS
  <2>2. \A m \in Moves \ {r} : pc'[m] = pc[m]
    BY DEF TypeOK
  <2>3. /\ pc'[r] \in Running <=> pc[r] \in Running
        /\ pc'[r] \in Holding <=> pc[r] \in Holding
    BY DEF TypeOK, Running, Holding
  <2> QED
    BY <2>1, <2>2, <2>3, Stutters DEF PromiseStep
<1>2. CASE Acquire(r)
  <2>1. /\ pc[r] = "acquiring" /\ pc'[r] = "waiting"
        /\ \A m \in Moves \ {r} : pc'[m] = pc[m]
        /\ UNCHANGED <<open, canceled>>
    BY <1>2 DEF Acquire, Goto, TypeOK
  <2>2. \A m \in Moves : pc'[m] \in Running <=> pc[m] \in Running
    BY <2>1 DEF Running
  <2>3. Using' = Using \cup {r}
    BY <2>1 DEF Using, Holders, Holding
  <2>4. UNCHANGED <<Pinned, Driving, Barred>>
    BY <2>1, <2>2, DrivingFrame DEF Pinned, Barred
  <2> QED
    BY <2>3, <2>4 DEF PromiseStep, EnterStep
<1>3. CASE AcquireCanceled(r) \/ ReleaseLease(r)
  <2>1. /\ pc[r] \in Holding \ Running /\ pc'[r] = "finish"
        /\ \A m \in Moves \ {r} : pc'[m] = pc[m]
    BY <1>3 DEF AcquireCanceled, ReleaseLease, Goto, TypeOK, Holding, Running
  <2>2. UNCHANGED canceled
    BY <1>3 DEF AcquireCanceled, ReleaseLease
  <2>3. \E keep \in BOOLEAN : Release(keep)
    BY <1>3 DEF AcquireCanceled, ReleaseLease
  <2> QED
    BY <2>1, <2>2, <2>3, ReleaseLeaves DEF PromiseStep
<1>4. CASE AcquireReturn(r)
  <2>1. /\ pc[r] = "resolved" /\ UNCHANGED canceled
        /\ \A m \in Moves \ {r} : pc'[m] = pc[m]
    BY <1>4 DEF AcquireReturn, Goto, TypeOK
  <2>2. CASE Release(FALSE) /\ pc'[r] = "finish"
    BY <2>1, <2>2, ReleaseLeaves DEF PromiseStep, Holding, Running
  <2>3. CASE pc'[r] = "leased" /\ UNCHANGED open
    BY <2>1, <2>3, Stutters DEF PromiseStep, Holding, Running
  <2> QED
    BY <1>4, <2>2, <2>3 DEF AcquireReturn, Goto, TypeOK
<1>5. CASE StopMotor(r)
  <2>1. /\ pc[r] = "stopping" /\ pc'[r] = "unlock"
        /\ \A m \in Moves \ {r} : pc'[m] = pc[m]
        /\ UNCHANGED <<open, canceled>>
    BY <1>5 DEF StopMotor, Goto, TypeOK
  <2>2. Driving = r
    BY <2>1, DrivingIsUnique DEF Running
  <2>3. \A m \in Moves : pc'[m] \notin Running
    BY <2>1, <2>2, DrivingIsUnique, RequestAssumption DEF Running
  <2>4. Driving' = NoOne /\ Driving # NoOne
    BY <2>2, <2>3, DrivingIsUniqueNext, RequestAssumption
  <2>5. Barred' = Barred \cup ({r} \cap canceled)
    BY <2>1, <2>3, <2>2, DrivingIsUnique DEF Barred, Running
  <2>6. UNCHANGED <<Using, Pinned>>
    BY <2>1 DEF Using, Pinned, Holders, Holding
  <2>7. {r} \cap canceled \in SUBSET Moves
    OBVIOUS
  <2> QED
    BY <2>4, <2>5, <2>6, <2>7 DEF PromiseStep, EndStep
<1>6. CASE Finish(r)
  <2>1. /\ pc[r] = "finish" /\ pc'[r] = "done"
        /\ \A m \in Moves \ {r} : pc'[m] = pc[m]
        /\ UNCHANGED open /\ canceled' = canceled \cup {r}
    BY <1>6 DEF Finish, Goto, TypeOK
  <2>2. \A m \in Moves : pc'[m] \in Running <=> pc[m] \in Running
    BY <2>1 DEF Running
  <2>3. Barred' = Barred \cup {r} /\ UNCHANGED <<Using, Pinned>>
    BY <2>1, <2>2 DEF Barred, Using, Pinned, Holders, Holding, Running
  <2>4. UNCHANGED Driving /\ Driving \notin {r}
    BY <2>1, <2>2, DrivingFrame, DrivingIsUnique DEF Running
  <2>5. {r} \in SUBSET Moves
    OBVIOUS
  <2> QED
    BY <2>3, <2>4, <2>5 DEF PromiseStep, BarStep
<1> QED
  BY <1>1, <1>2, <1>3, <1>4, <1>5, <1>6 DEF MoveStep

\* The gate: the one whose context is not done begins.
LEMMA GateStepsImplement ==
    ASSUME AllInv, GateExclusive', NEW q \in Requests, GateStep(q)
    PROVE  PromiseStep
<1> USE DEF AllInv, GateInv, Requests, leaseVars, dialVars, ownVars, envVars
<1>1. /\ \A m \in Moves \ {q} : pc'[m] = pc[m]
      /\ UNCHANGED <<open, canceled>>
  BY DEF GateStep, TakeGate, GiveUpGate, GateCheck, Unlock, Goto, TypeOK
<1>2. CASE q \in Stops
  <2>1. \A m \in Moves : pc'[m] = pc[m]
    BY <1>1, <1>2, RequestAssumption
  <2> QED
    BY <1>1, <2>1, Stutters DEF PromiseStep
<1>3. CASE q \in Moves /\ (TakeGate(q) \/ GiveUpGate(q) \/ Unlock(q) \/ q \in canceled)
  <2>1. /\ pc[q] \in Holding \ Running
        /\ pc'[q] \in Holding \ Running
    BY <1>3 DEF GateStep, TakeGate, GiveUpGate, GateCheck, Unlock, Goto, TypeOK,
                Holding, Running
  <2> QED
    BY <1>1, <1>3, <2>1, Stutters DEF PromiseStep
<1>4. CASE q \in Moves /\ q \notin canceled /\ GateCheck(q)
  <2>1. pc[q] = "gated" /\ pc'[q] = "loop"
    BY <1>4 DEF GateCheck, Goto, TypeOK
  <2>2. \A m \in Moves : pc[m] \notin Running
    BY <1>4, <2>1 DEF GateExclusive, Gated, AtGate, Running
  <2>3. Driving = NoOne /\ Driving' = q
    BY <1>4, <2>1, <2>2, DrivingIsUnique, DrivingIsUniqueNext DEF Running
  <2>4. q \in Using /\ UNCHANGED <<Using, Pinned>>
    BY <1>1, <1>4, <2>1 DEF Using, Pinned, Holders, Holding
  <2>5. Pinned
    <3>1. ~err /\ ready \in closed
      BY <1>4, <2>1 DEF LeaseInv, HolderPhases, Leased, Holding
    <3> QED
      BY <3>1 DEF LeaseInv, ReadyPhases, Pinned
  <2>6. q \notin Barred /\ UNCHANGED Barred
    BY <1>1, <1>4 DEF Barred
  <2> QED
    BY <1>4, <2>3, <2>4, <2>5, <2>6 DEF PromiseStep, BeginStep
<1> QED
  BY <1>2, <1>3, <1>4 DEF GateStep, Requests

\* Stop requests bar what they cancel before it runs.
LEMMA StopStepsImplement ==
    ASSUME AllInv, GateExclusive', NEW s \in Stops, StopStep(s)
    PROVE  PromiseStep
<1> USE DEF AllInv, GateInv, Requests, leaseVars, dialVars, ownVars, envVars
<1>1. (\A m \in Moves : pc'[m] = pc[m]) /\ UNCHANGED open
  BY RequestAssumption DEF StopStep, CancelCommands, SendStop, Goto, TypeOK
<1>2. CASE CancelCommands(s)
  <2> DEFINE B == {m \in commands : pc[m] \notin Running}
  <2>1. canceled' = canceled \cup commands /\ commands \subseteq Moves
    BY <1>2 DEF CancelCommands, TypeOK
  <2>2. Barred' = Barred \cup B
    BY <1>1, <2>1 DEF Barred
  <2>3. UNCHANGED <<Using, Pinned, Driving>>
    BY <1>1, DrivingFrame DEF Using, Pinned, Holders
  <2>4. Driving \notin B /\ B \in SUBSET Moves
    BY <2>1, DrivingIsUnique
  <2> QED
    BY <2>2, <2>3, <2>4 DEF PromiseStep, BarStep
<1>3. CASE SendStop(s)
  <2>1. UNCHANGED canceled
    BY <1>3 DEF SendStop
  <2> QED
    BY <1>1, <2>1, Stutters DEF PromiseStep
<1> QED
  BY <1>2, <1>3 DEF StopStep

\* A dial pins the camera, and unpins it if everybody has gone.
LEMMA DialStepsImplement ==
    ASSUME AllInv, IdleInv', GateExclusive', DialStep
    PROVE  PromiseStep
<1> USE DEF AllInv, GateInv, leaseVars, dialVars, ownVars, envVars
<1>1. UNCHANGED <<pc, canceled, users>>
  BY DEF DialStep, DialLands, DialDone
<1>2. UNCHANGED <<Using, Driving, Barred>>
  BY <1>1 DEF Using, Driving, Barred, Holders
<1>3. ASSUME NEW d \in dialing, DialLands(d) PROVE PromiseStep
  <2>1. Pinned => Pinned'
    BY <1>3 DEF DialLands, Pinned
  <2> QED
    BY <1>2, <2>1 DEF PromiseStep, PinStep, Pinned
<1>4. ASSUME NEW d, NEW ok, DialDone(d, ok) PROVE PromiseStep
  <2>1. CASE users = 0
    <3>1. Using = {}
      BY <2>1, HoldersFinite DEF Using, Holders, LeaseInv
    <3>2. ~Pinned' \/ UNCHANGED Pinned
      BY <1>4, <2>1 DEF DialDone, ClearLocked, Pinned
    <3> QED
      BY <1>2, <3>1, <3>2 DEF PromiseStep, UnpinStep, Pinned
  <2>2. CASE users # 0
    BY <1>2, <1>4, <2>2 DEF DialDone, NobodyWaits, PromiseStep, Pinned
  <2> QED
    BY <2>1, <2>2
<1> QED
  BY <1>3, <1>4 DEF DialStep

\* The keepalive timer unpins an idle camera.
LEMMA TimerStepsImplement ==
    ASSUME AllInv, TimerStep
    PROVE  PromiseStep
<1> USE DEF AllInv, leaseVars, dialVars, ownVars, envVars
<1>1. UNCHANGED <<pc, canceled>>
  BY DEF TimerStep, TimerFires, TimerCallback
<1>2. UNCHANGED <<Using, Driving, Barred>>
  BY <1>1 DEF Using, Driving, Barred, Holders
<1>3. ASSUME NEW e \in armed, TimerFires(e) PROVE PromiseStep
  BY <1>2, <1>3 DEF TimerFires, PromiseStep, Pinned
<1>4. ASSUME NEW e \in fired, TimerCallback(e) PROVE PromiseStep
  <2>1. CASE IdleSince(e)
    <3>1. Using = {}
      BY <2>1, HoldersFinite DEF IdleSince, Using, Holders, LeaseInv
    <3>2. ready = 0 \/ ready \in closed
      BY <1>4, <2>1 DEF IdleSince, LeaseInv, TimersOfThePast
    <3>3. ~Pinned'
      BY <1>4, <2>1, <3>2, OnlyTheLease DEF TimerCallback, ClearLocked, Pinned
    <3> QED
      BY <1>2, <3>1, <3>3 DEF PromiseStep, UnpinStep, Pinned
  <2>2. CASE ~IdleSince(e)
    BY <1>2, <1>4, <2>2 DEF TimerCallback, KeepLease, PromiseStep, Pinned
  <2> QED
    BY <2>1, <2>2
<1> QED
  BY <1>3, <1>4 DEF TimerStep

\* Clients that disconnect bar their movement; viewers, failures and reconnects
\* of the producer are not seen.
LEMMA EnvironmentImplements ==
    ASSUME AllInv, GateExclusive', Environment
    PROVE  PromiseStep
<1> USE DEF AllInv, GateInv, Requests, leaseVars, dialVars, ownVars, envVars
<1>1. UNCHANGED <<pc, open>>
  BY DEF Environment, ContextDone, ViewerJoins, ViewerLeaves, ConnectionLost,
         Reconnected
<1>2. UNCHANGED <<Using, Pinned, Driving>>
  BY <1>1 DEF Using, Pinned, Driving, Holders
<1>3. ASSUME NEW q \in Requests, ContextDone(q) PROVE PromiseStep
  <2> DEFINE B == {m \in Moves : m = q /\ pc[m] \notin Running}
  <2>1. canceled' = canceled \cup {q}
    BY <1>3 DEF ContextDone
  <2>2. Barred' = Barred \cup B
    BY <1>1, <2>1 DEF Barred
  <2>3. Driving \notin B /\ B \in SUBSET Moves
    BY DrivingIsUnique
  <2> QED
    BY <1>2, <2>2, <2>3 DEF PromiseStep, BarStep
<1>4. CASE ViewerJoins \/ ViewerLeaves \/ ConnectionLost \/ Reconnected
  <2>1. UNCHANGED canceled
    BY <1>4 DEF ViewerJoins, ViewerLeaves, ConnectionLost, Reconnected
  <2>2. UNCHANGED Barred
    BY <1>1, <2>1 DEF Barred
  <2> QED
    BY <1>2, <2>2 DEF PromiseStep
<1> QED
  BY <1>3, <1>4 DEF Environment

-----------------------------------------------------------------------------
\* Every behaviour of the control path is one the promise allows: one movement
\* drives at a time, on a pinned camera and only if it was not canceled first,
\* and the pin goes away only when nobody uses it.  (That it does go away is the
\* liveness part of KeepsPromise.)
THEOREM SafePromise == Spec => Promise!Spec
<1>1. Init => Promise!Init
  <2> SUFFICES ASSUME Init PROVE Promise!Init
    OBVIOUS
  <2>1. \A r \in Moves : pc[r] = "idle"
    BY DEF Init, Requests
  <2>2. Holders = {} /\ canceled = {} /\ open = {}
    BY <2>1 DEF Init, Holders, Holding
  <2>3. \A r \in Moves : pc[r] \notin Running
    BY <2>1 DEF Running
  <2> QED
    BY <2>2, <2>3 DEF Promise!Init
<1>2. AllInv /\ AllInv' /\ [Next]_vars => [Promise!Next]_(Promise!vars)
  <2> SUFFICES ASSUME AllInv, AllInv', [Next]_vars PROVE PromiseStep
    BY StepsAreThePromise
  <2>1. GateExclusive' /\ LeaseInv' /\ IdleInv'
    BY DEF AllInv, GateInv
  <2>2. CASE Next
    BY <2>1, <2>2, MoveStepsImplement, GateStepsImplement, StopStepsImplement,
       DialStepsImplement, TimerStepsImplement, EnvironmentImplements DEF Next
  <2>3. CASE UNCHANGED vars
    BY <2>3 DEF vars, ownVars, dialVars, PromiseStep, Using, Pinned, Driving, Barred,
                Holders
  <2> QED
    BY <2>2, <2>3
<1>3. Spec => []AllInv
  BY Invariance, IdleInvariance, PTL DEF AllInv
<1> QED
  BY <1>1, <1>2, <1>3, PTL DEF Spec, Promise!Spec
=============================================================================
