---------------------------- MODULE OnvifBridge ----------------------------
(***************************************************************************)
(* Movement control of one camera in the ONVIF bridge: the type proxy of   *)
(* src/cmd/xiaomi-onvif/main.go with startMove, startRelativeMove,         *)
(* stopMove, gotoPreset and the synthetic move status.                     *)
(*                                                                         *)
(* ONVIF calls arrive concurrently.  A move replaces the mover goroutine   *)
(* of the previous one under moveMu; a mover sends timed movements to the  *)
(* PTZ API of go2rtc, which is reduced here to what PtzCamera guarantees:  *)
(* one movement drives at a time, a stop cancels those that are            *)
(* registered, and the movement of a client that is gone is canceled some  *)
(* time later.                                                             *)
(***************************************************************************)
EXTENDS Naturals, FiniteSets

CONSTANTS
    Continuous,  \* ContinuousMove calls
    Relative,    \* RelativeMove calls
    Stops,       \* Stop calls (and moves within the deadband)
    Presets,     \* GotoPreset calls
    NoOne,       \* no call: the free mutex, no mover
    MaxCalls     \* bound: how many of the calls are ever made

Moves == Continuous \cup Relative
Calls == Moves \cup Stops \cup Presets

ASSUME CallAssumption ==
    /\ Continuous \cap Relative = {} /\ Stops \cap Presets = {}
    /\ Moves \cap (Stops \cup Presets) = {}
    /\ NoOne \notin Calls
    /\ MaxCalls \in Nat

VARIABLES
    \* --- proxy ---
    mu,         \* the holder of moveMu
    current,    \* the mover moveCancel and moveDone belong to
    status,     \* "MOVING" or "IDLE"
    statusID,
    \* --- the calls and the goroutines they start ---
    pc,         \* where each call is
    prior,      \* the mover a call waits for in stopMoveLocked
    canceled,   \* movers whose context is canceled
    finished,   \* movers whose done channel is closed
    gpc,        \* where the goroutine of a move or a preset is
    moveID,     \* the status it set
    legs,       \* movements a relative move has still to send
    \* --- requests to go2rtc ---
    request,    \* the request of each mover: none, flying, waiting, driving
    barred      \* requests go2rtc canceled

proxyVars == <<mu, current, status, statusID>>
callVars  == <<pc, prior>>
moverVars == <<gpc, moveID, legs>>
apiVars   == <<request, barred>>
vars == <<proxyVars, callVars, canceled, finished, moverVars, apiVars>>

TypeOK ==
    /\ mu \in Calls \cup {NoOne} /\ current \in Moves \cup {NoOne}
    /\ status \in {"MOVING", "IDLE"} /\ statusID \in Nat
    /\ pc \in [Calls -> {"idle", "locking", "waiting", "locked", "begin", "reset",
                         "post", "answer", "force", "returned"}]
    /\ prior \in [Calls -> Moves \cup {NoOne}]
    /\ canceled \in SUBSET Moves /\ finished \in SUBSET Moves
    /\ gpc \in [Moves \cup Presets -> {"none", "loop", "sending", "settle", "finish",
                                       "closing", "ended"}]
    /\ moveID \in [Moves \cup Presets -> Nat]
    /\ legs \in [Moves -> 0..2]
    /\ request \in [Moves -> {"none", "flying", "waiting", "driving"}]
    /\ barred \in SUBSET Moves

Init ==
    /\ mu = NoOne /\ current = NoOne /\ status = "IDLE" /\ statusID = 0
    /\ pc = [c \in Calls |-> "idle"] /\ prior = [c \in Calls |-> NoOne]
    /\ canceled = {} /\ finished = {}
    /\ gpc = [c \in Moves \cup Presets |-> "none"]
    /\ moveID = [c \in Moves \cup Presets |-> 0] /\ legs = [m \in Moves |-> 0]
    /\ request = [m \in Moves |-> "none"] /\ barred = {}

Goto(c, from, to) == pc[c] = from /\ pc' = [pc EXCEPT ![c] = to]
Run(c, from, to)  == gpc[c] = from /\ gpc' = [gpc EXCEPT ![c] = to]

-----------------------------------------------------------------------------
(* The calls.                                                              *)

Arrive(c) ==
    /\ Cardinality({d \in Calls : pc[d] # "idle"}) < MaxCalls
    /\ Goto(c, "idle", "locking")
    /\ UNCHANGED <<proxyVars, prior, canceled, finished, moverVars, apiVars>>

\* Mutant: stopMoveLocked waits without moveMu.
StopMoveLocked_Unlocked(c) ==
    /\ mu = NoOne
    /\ Goto(c, "locking", IF current = NoOne THEN "locked" ELSE "waiting")
    /\ canceled' = canceled \cup ({current} \ {NoOne})
    /\ prior' = [prior EXCEPT ![c] = current]
    /\ current' = NoOne
    /\ UNCHANGED <<mu, status, statusID, finished, moverVars, apiVars>>

\* moveMu.Lock and stopMoveLocked: cancel the mover there is and wait for it.
StopMoveLocked(c) ==
    /\ mu = NoOne /\ mu' = c
    /\ Goto(c, "locking", IF current = NoOne THEN "locked" ELSE "waiting")
    /\ canceled' = canceled \cup ({current} \ {NoOne})
    /\ prior' = [prior EXCEPT ![c] = current]
    /\ current' = NoOne
    /\ UNCHANGED <<status, statusID, finished, moverVars, apiVars>>

\* The prior mover closed its done channel, or two seconds are over.
PriorEnds(c) ==
    /\ prior[c] \in finished
    /\ Goto(c, "waiting", "locked")
    /\ UNCHANGED <<proxyVars, prior, canceled, finished, moverVars, apiVars>>

PriorTimeout(c) ==
    /\ Goto(c, "waiting", "locked")
    /\ UNCHANGED <<proxyVars, prior, canceled, finished, moverVars, apiVars>>

\* startMove, startRelativeMove: the new mover becomes the one to stop.
Install(m) ==
    /\ Goto(m, "locked", "begin")
    /\ mu' = NoOne /\ current' = m
    /\ UNCHANGED <<status, statusID, prior, canceled, finished, moverVars, apiVars>>

\* beginMoveStatus, outside of moveMu.
BeginMoveStatus(c) ==
    /\ statusID' = statusID + 1
    /\ status' = "MOVING"
    /\ moveID' = [moveID EXCEPT ![c] = statusID']

\* ... and the goroutine; a relative move pans, tilts, or does both in turn.
Begin(m) ==
    /\ Goto(m, "begin", "returned")
    /\ BeginMoveStatus(m)
    /\ Run(m, "none", "loop")
    /\ \E n \in IF m \in Relative THEN 1..2 ELSE {1} : legs' = [legs EXCEPT ![m] = n]
    /\ UNCHANGED <<mu, current, prior, canceled, finished, apiVars>>

\* Mutant: a preset returns with moveMu.
Unlock_Never(c) ==
    /\ Goto(c, "locked", IF c \in Stops THEN "post" ELSE "reset")
    /\ UNCHANGED <<proxyVars, prior, canceled, finished, moverVars, apiVars>>

\* stopMove and gotoPreset go on without moveMu.
Unlock(c) ==
    /\ Goto(c, "locked", IF c \in Stops THEN "post" ELSE "reset")
    /\ mu' = NoOne
    /\ UNCHANGED <<current, status, statusID, prior, canceled, finished, moverVars,
                   apiVars>>

\* stopMove sends its stop, which cancels what go2rtc has registered.
PostStop(s) ==
    /\ Goto(s, "post", "answer")
    /\ \/ barred' = barred \cup {m \in Moves : request[m] \in {"waiting", "driving"}}
       \/ UNCHANGED barred    \* go2rtc cannot be reached
    /\ UNCHANGED <<proxyVars, prior, canceled, finished, moverVars, request>>

\* sendPTZ returns: with the answer, an error, or after its timeout.
StopAnswered(s) ==
    /\ Goto(s, "answer", "force")
    /\ UNCHANGED <<proxyVars, prior, canceled, finished, moverVars, apiVars>>

ForceIdleStatus(c) ==
    /\ \/ c \in Stops /\ Goto(c, "force", "returned")
       \/ c \in Presets /\ Goto(c, "reset", "post")
    /\ statusID' = statusID + 1
    /\ status' = "IDLE"
    /\ UNCHANGED <<mu, current, prior, canceled, finished, moverVars, apiVars>>

\* Mutant: the status is begun before the cloud answers.
PostPreset_Early(p) ==
    /\ Goto(p, "post", "returned")
    /\ BeginMoveStatus(p)
    /\ Run(p, "none", "settle") \/ UNCHANGED gpc
    /\ UNCHANGED <<mu, current, prior, canceled, finished, legs, apiVars>>

\* gotoPreset: the cloud accepts the preset, which settles in a while, or not.
PostPreset(p) ==
    /\ Goto(p, "post", "returned")
    /\ \/ /\ BeginMoveStatus(p)
          /\ Run(p, "none", "settle")
       \/ UNCHANGED <<status, statusID, moveID, gpc>>
    /\ UNCHANGED <<mu, current, prior, canceled, finished, legs, apiVars>>

-----------------------------------------------------------------------------
(* The mover goroutines.                                                   *)

\* Mutant: the context is not checked between two movements.
Loop_Unchecked(m) ==
    /\ request[m] = "none"
    /\ Run(m, "loop", "sending")
    /\ request' = [request EXCEPT ![m] = "flying"]
    /\ UNCHANGED <<proxyVars, callVars, canceled, finished, moveID, legs, barred>>

\* A canceled mover ends; net/http does not send for a context that is done.
Loop(m) ==
    /\ \/ /\ m \in canceled
          /\ Run(m, "loop", "finish")
          /\ UNCHANGED request
       \/ /\ m \notin canceled /\ request[m] = "none"
          /\ Run(m, "loop", "sending")
          /\ request' = [request EXCEPT ![m] = "flying"]
    /\ UNCHANGED <<proxyVars, callVars, canceled, finished, moveID, legs, barred>>

\* Mutant: a failed leg is counted, and those of a continuous move.
Answer_CountsAll(m, ok) ==
    /\ gpc[m] = "sending"
    /\ legs' = [legs EXCEPT ![m] = @ - 1]
    /\ Run(m, "sending",
           IF m \in Continuous \/ (ok /\ legs'[m] > 0) THEN "loop"
           ELSE IF m \in canceled THEN "finish" ELSE "settle")

\* The answer: a continuous mover goes on whatever it says, a relative one goes
\* on to its next leg, settles when it was the last one, or when it failed.
Answer(m, ok) ==
    /\ gpc[m] = "sending"
    /\ legs' = IF m \in Relative /\ ok THEN [legs EXCEPT ![m] = @ - 1] ELSE legs
    /\ Run(m, "sending",
           IF m \in Continuous \/ (ok /\ legs'[m] > 0) THEN "loop"
           ELSE IF m \in canceled THEN "finish" ELSE "settle")

\* The mover's context is canceled: sendPTZ returns and leaves the request.
Abandon(m) ==
    /\ m \in canceled
    /\ Run(m, "sending", "finish")
    /\ UNCHANGED <<proxyVars, callVars, canceled, finished, moveID, legs, apiVars>>

\* The settle time of a relative move (or its cancellation) or of a preset.
Settled(c) ==
    /\ Run(c, "settle", "finish")
    /\ UNCHANGED <<proxyVars, callVars, canceled, finished, moveID, legs, apiVars>>

FinishMoveStatus(c) ==
    /\ Run(c, "finish", IF c \in Moves THEN "closing" ELSE "ended")
    /\ status' = IF statusID = moveID[c] THEN "IDLE" ELSE status
    /\ UNCHANGED <<mu, current, statusID, callVars, canceled, finished, moveID, legs,
                   apiVars>>

CloseDone(m) ==
    /\ Run(m, "closing", "ended")
    /\ finished' = finished \cup {m}
    /\ UNCHANGED <<proxyVars, callVars, canceled, moveID, legs, apiVars>>

-----------------------------------------------------------------------------
(* go2rtc (apiPTZ, see PtzCamera).                                         *)

Registers(m) ==
    /\ request[m] = "flying"
    /\ request' = [request EXCEPT ![m] = "waiting"]
    /\ UNCHANGED <<proxyVars, callVars, canceled, finished, moverVars, barred>>

\* The client of a request is gone.
Notices(m) ==
    /\ request[m] \in {"waiting", "driving"} /\ gpc[m] # "sending" /\ m \notin barred
    /\ barred' = barred \cup {m}
    /\ UNCHANGED <<proxyVars, callVars, canceled, finished, moverVars, request>>

Drives(m) ==
    /\ request[m] = "waiting" /\ m \notin barred
    /\ \A o \in Moves : request[o] # "driving"
    /\ request' = [request EXCEPT ![m] = "driving"]
    /\ UNCHANGED <<proxyVars, callVars, canceled, finished, moverVars, barred>>

\* A movement is over, or it was canceled, failed or never got here.
Ends(m, ok) ==
    /\ request[m] # "none"
    /\ ok => request[m] = "driving" /\ m \notin barred
    /\ request' = [request EXCEPT ![m] = "none"]
    /\ barred' = barred \ {m}
    /\ \/ Answer(m, ok)
       \/ gpc[m] # "sending" /\ UNCHANGED <<gpc, legs>>
    /\ UNCHANGED <<proxyVars, callVars, canceled, finished, moveID>>

-----------------------------------------------------------------------------
CallStep(c) ==
    \/ StopMoveLocked(c) \/ PriorEnds(c) \/ PriorTimeout(c)
    \/ c \in Moves /\ (Install(c) \/ Begin(c))
    \/ c \in Stops \cup Presets /\ (Unlock(c) \/ ForceIdleStatus(c))
    \/ c \in Stops /\ (PostStop(c) \/ StopAnswered(c))
    \/ c \in Presets /\ PostPreset(c)

MoverStep(m) == Loop(m) \/ Abandon(m) \/ CloseDone(m)
TimerStep(c) == Settled(c) \/ FinishMoveStatus(c)
ApiStep(m) ==
    \/ Registers(m) \/ Notices(m) \/ Drives(m)
    \/ \E ok \in BOOLEAN : Ends(m, ok)

Next ==
    \/ \E c \in Calls : Arrive(c) \/ CallStep(c)
    \/ \E m \in Moves : MoverStep(m) \/ ApiStep(m)
    \/ \E c \in Moves \cup Presets : TimerStep(c)

Spec == Init /\ [][Next]_vars

\* Calls, movers and timers run (moveMu is free in the end, as a call takes it
\* once: that it goes round need not be assumed); go2rtc answers
\* every request within its 25-second budget and the client's 30 seconds.
Fairness ==
    /\ \A c \in Calls : WF_vars(CallStep(c))
    /\ \A m \in Moves : /\ WF_vars(MoverStep(m))
                        /\ WF_vars(\E ok \in BOOLEAN : Ends(m, ok))
    /\ \A c \in Moves \cup Presets : WF_vars(TimerStep(c))

FairSpec == Spec /\ Fairness
=============================================================================
