----------------------- MODULE AddonSupervisorProofs -----------------------
(***************************************************************************)
(* Proofs of the safety properties of the add-on's launcher                *)
(* (AddonSupervisor, AddonSupervisorProps).                                *)
(***************************************************************************)
EXTENDS AddonSupervisorProps, TLAPS

USE DEF Up, Lives, Frame, Stay, Leave

\* What the finally clause has behind it: the bridge, then go2rtc.
EndedInTurn ==
    /\ pc \in {"end go2rtc", "exited"} => ~Lives(Bridge)
    /\ pc = "exited" => ~Lives(Go2rtc)
    /\ child[Go2rtc] = "terminated" => pc = "end go2rtc"

\* The flag of the event is set by the handler of a signal only.
StopsAreAsked == (stopped => asked) /\ TruthfulCode

IInv == TypeOK /\ EndedInTurn /\ StopsAreAsked

-----------------------------------------------------------------------------
LEMMA TwoPrograms == Go2rtc \in Programs /\ Bridge \in Programs /\ Go2rtc # Bridge
                     /\ \A p \in Programs : p = Go2rtc \/ p = Bridge
BY ProgramAssumption DEF Programs, ProgramAssumption

States == {"none", "running", "serving", "terminated", "dead"}

Flags == onvif \in BOOLEAN /\ stopped \in BOOLEAN /\ stuck \in BOOLEAN /\ asked \in BOOLEAN

Places ==
    /\ pc \in {"start", "api", "bridge", "both", "verdict", "watch", "polls",
               "end bridge", "end go2rtc", "exited"}
    /\ event \in {"out", "locked", "asleep", "woken"}
    /\ probed \subseteq Programs
    /\ event # "out" => pc \in {"api", "both", "watch"}

LEMMA TypeParts == TypeOK <=> Flags /\ Places /\ code \in 0..2 /\ child \in [Programs -> States]
BY Zenon DEF TypeOK, Flags, Places, States

LEMMA FlagStep == Flags /\ [Next]_vars => Flags'
<1> SUFFICES ASSUME Flags, [Next]_vars PROVE Flags'
  OBVIOUS
<1>1. CASE UNCHANGED <<onvif, stopped, stuck, asked>>
  BY <1>1, Zenon DEF Flags
<1>2. CASE Signal
  BY <1>2, Zenon DEF Flags, Signal, mainVars
<1>3. CASE Main
  BY <1>1, <1>3 DEF Main, StartGo2rtc, StartBridge, Starts, Probe, GivesUp, Verdict, Wait, Poll,
              Finally, FinallyEnds
<1>4. ASSUME NEW p \in Programs, Turns(p) PROVE UNCHANGED <<onvif, stopped, stuck, asked>>
  BY <1>4 DEF Turns, mainVars
<1> QED
  BY <1>1, <1>2, <1>3, <1>4 DEF Next, vars, mainVars

LEMMA PlaceStep == Places /\ [Next]_vars => Places'
<1> SUFFICES ASSUME Places, [Next]_vars PROVE Places'
  OBVIOUS
<1> USE TwoPrograms DEF Places
<1>1. CASE StartGo2rtc \/ StartBridge
  BY <1>1 DEF StartGo2rtc, StartBridge, Starts
<1>2. ASSUME NEW p \in Programs, Probe(p) PROVE Places'
  <2>1. probed' \subseteq Programs /\ pc' \in {"api", "both", "bridge", "watch"}
    BY <1>2 DEF Probe
  <2> QED
    BY <1>2, <2>1 DEF Probe
<1>3. CASE GivesUp \/ Verdict
  BY <1>3 DEF GivesUp, Verdict
<1>4. CASE Wait
  BY <1>4 DEF Wait
<1>5. CASE Poll
  BY <1>5 DEF Poll
<1>6. CASE Finally
  BY <1>6 DEF Finally, FinallyEnds
<1>7. CASE Signal \/ (\E p \in Programs : Turns(p)) \/ UNCHANGED vars
  BY <1>7 DEF Signal, Turns, vars, mainVars
<1> QED
  BY <1>1, <1>2, <1>3, <1>4, <1>5, <1>6, <1>7 DEF Next, Main

LEMMA ChildStep ==
    child \in [Programs -> States] /\ [Next]_vars => child' \in [Programs -> States]
<1>1. [Next]_vars =>
         child' = child
         \/ \E p \in Programs, is \in States : child' = [child EXCEPT ![p] = is]
  BY TwoPrograms DEF Next, Main, StartGo2rtc, StartBridge, Starts, Probe, GivesUp, Verdict,
         Wait, Poll, Finally, FinallyEnds, Signal, Turns, vars, mainVars, States
<1> QED
  BY <1>1

\* The exit code is chosen when supervise returns.
LEMMA CodeStep == [Next]_vars => code' = code \/ code' = 1 \/ (code' = 0 /\ stopped)
BY DEF Next, Main, StartGo2rtc, StartBridge, Starts, Probe, GivesUp, Verdict, Wait, Poll, Finally,
       FinallyEnds, Signal, Turns, vars, mainVars

LEMMA TypeStep == TypeOK /\ [Next]_vars => TypeOK'
<1> SUFFICES ASSUME TypeOK, [Next]_vars PROVE TypeOK'
  OBVIOUS
<1>1. Flags' /\ Places' /\ child' \in [Programs -> States]
  BY TypeParts, FlagStep, PlaceStep, ChildStep
<1>2. code' \in 0..2
  BY TypeParts, CodeStep
<1> QED
  BY <1>1, <1>2, Zenon DEF TypeOK, Flags, Places, States

\* A program is told to end in its turn, and one that has ended stays so.
LEMMA EndStep == TypeOK /\ EndedInTurn /\ [Next]_vars => EndedInTurn'
<1> SUFFICES ASSUME TypeOK, EndedInTurn, [Next]_vars PROVE EndedInTurn'
  OBVIOUS
<1> USE TwoPrograms DEF TypeOK, EndedInTurn
<1>1. CASE StartGo2rtc \/ StartBridge
  BY <1>1 DEF StartGo2rtc, StartBridge, Starts
<1>2. ASSUME NEW p \in Programs, Probe(p) PROVE EndedInTurn'
  BY <1>2 DEF Probe
<1>3. CASE GivesUp \/ Verdict \/ Wait \/ Poll
  BY <1>3 DEF GivesUp, Verdict, Wait, Poll
<1>4. CASE Finally
  <2>1. CASE FinallyEnds(Bridge, "end bridge", "end go2rtc")
    BY <2>1 DEF FinallyEnds
  <2>2. CASE FinallyEnds(Go2rtc, "end go2rtc", "exited")
    BY <2>2 DEF FinallyEnds
  <2> QED
    BY <1>4, <2>1, <2>2 DEF Finally
<1>5. CASE Signal
  BY <1>5 DEF Signal, mainVars
<1>6. ASSUME NEW p \in Programs, Turns(p) PROVE EndedInTurn'
  BY <1>6 DEF Turns, mainVars
<1>7. CASE UNCHANGED vars
  BY <1>7 DEF vars, mainVars
<1> QED
  BY <1>1, <1>2, <1>3, <1>4, <1>5, <1>6, <1>7 DEF Next, Main

LEMMA AskedStep == TypeOK /\ StopsAreAsked /\ [Next]_vars => StopsAreAsked'
<1> SUFFICES ASSUME TypeOK, StopsAreAsked, [Next]_vars PROVE StopsAreAsked'
  OBVIOUS
<1> USE DEF StopsAreAsked, TruthfulCode
<1>1. CASE Main
  <2>1. UNCHANGED <<stopped, asked>>
    BY <1>1 DEF Main, StartGo2rtc, StartBridge, Starts, Probe, GivesUp, Verdict, Wait, Poll,
                Finally, FinallyEnds
  <2> QED
    BY <2>1, CodeStep
<1>2. CASE Signal
  BY <1>2, Zenon DEF Signal, mainVars
<1>3. ASSUME NEW p \in Programs, Turns(p) PROVE StopsAreAsked'
  BY <1>3 DEF Turns, mainVars
<1>4. CASE UNCHANGED vars
  BY <1>4 DEF vars, mainVars
<1> QED
  BY <1>1, <1>2, <1>3, <1>4 DEF Next

\* The inductive invariant holds in every state.
LEMMA Invariance == Spec => []IInv
<1>1. Init => IInv
  <2> SUFFICES ASSUME Init PROVE IInv
    OBVIOUS
  <2>1. stopped \in BOOLEAN /\ stuck \in BOOLEAN /\ asked \in BOOLEAN
    BY Zenon DEF Init
  <2>2. TypeOK
    BY <2>1 DEF Init, TypeOK
  <2> QED
    BY <2>2, TwoPrograms DEF Init, IInv, EndedInTurn, StopsAreAsked, TruthfulCode
<1>2. IInv /\ [Next]_vars => IInv'
  BY TypeStep, EndStep, AskedStep DEF IInv
<1> QED
  BY <1>1, <1>2, PTL DEF Spec

-----------------------------------------------------------------------------
\* Every reachable state is type correct: the main thread is inside Event.wait only
\* where supervise or wait_ready calls it.
THEOREM TypeCorrect == Spec => []TypeOK
<1>1. IInv => TypeOK
  BY DEF IInv
<1> QED
  BY <1>1, Invariance, PTL

\* However supervise returns, no program outlives it, and go2rtc is told to end only
\* when the bridge is gone.
THEOREM EndIsOrderly == Spec => []OrderlyEnd
<1>1. IInv => OrderlyEnd
  BY TwoPrograms DEF IInv, EndedInTurn, OrderlyEnd
<1> QED
  BY <1>1, Invariance, PTL

\* The exit code is 0 only when a stop was asked for.
THEOREM CodeIsTruthful == Spec => []TruthfulCode
<1>1. IInv => TruthfulCode
  BY DEF IInv, StopsAreAsked
<1> QED
  BY <1>1, Invariance, PTL
=============================================================================
