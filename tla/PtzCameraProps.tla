--------------------------- MODULE PtzCameraProps ---------------------------
(***************************************************************************)
(* The properties of the PTZ control path (PtzCamera) and its refinement   *)
(* of the promise made to clients (PtzPromise).                            *)
(***************************************************************************)
EXTENDS PtzCamera

\* c.users is the number of requests between acquire and release, on every
\* path out of acquire (ptz_connection.go:97, 121, 138, 141): a miscount would
\* keep the camera streaming for ever or close the lease under a movement.
UsersCounted == users = Cardinality(Holders)

\* From the moment acquire hands out a controller until the deferred release,
\* the lease is there and its consumer is attached: no timer, cancelled
\* waiter or failing neighbour closes it under a movement.
LeasePinned ==
    \A r \in Moves :
        pc[r] \in Holding \ {"waiting", "resolving", "resolved"}
            => lease \in open /\ ~err

\* An attached consumer is either the lease somebody uses or somebody will
\* close: the callback of the keepalive timer armed by the last release, or
\* the completion of a dial that everybody gave up on.
NoLeakedLease ==
    \A d \in open :
        \/ <<d, TRUE>> \in landed
        \/ d = lease /\ (users > 0 \/ epoch \in armed \cup fired)

\* What a lease is worth: who uses it is counted, it stays while it is used, and
\* it is closed in the end.
LeaseDiscipline == UsersCounted /\ LeasePinned /\ NoLeakedLease

\* Concurrent commands share one pending dial, and it is the one c.ready
\* belongs to, not closed yet: close(c.ready) neither panics nor wakes the
\* waiters of another dial.
SharedDial ==
    \A d \in dialing \cup {l[1] : l \in landed} :
        /\ d = ready /\ ready \notin closed
        /\ dialing \cup {l[1] : l \in landed} = {d}

\* A waiting movement waits on the channel the pending dial will close: its
\* wake-up cannot be lost although c.ready is forgotten by clearLocked.
WakeUpComing ==
    \A r \in Moves : pc[r] = "waiting" =>
        /\ waitOn[r] = ready
        /\ ready \in closed \cup dialing \cup {l[1] : l \in landed}

\* A dial error is shared by the requests that overlapped the dial and by
\* nobody who comes after them: it is forgotten with the last of them.
ErrorForgotten == err => users > 0 /\ lease = 0

\* What sharing a dial is worth: there is one, everybody who waits for it is
\* woken, and its failure concerns nobody else.
DialDiscipline == SharedDial /\ WakeUpComing /\ ErrorForgotten

\* Commands to the camera are serialized: whoever may send holds the gate.
GateExclusive == \A q \in Gated : gate = q

\* A stop request that has the gate, or had it and was not given up.
TookGate(s) ==
    \/ pc[s] \in {"gated", "unlock"}
    \/ pc[s] = "done" /\ s \notin canceled

\* Once a stop request has held the gate, no movement it canceled is about to
\* send a direction, now or later, although every context check and the
\* command that follows it are separate steps.
StopIsFinal ==
    \A s \in Stops : TookGate(s) => \A r \in swept[s] : pc[r] # "send"

\* A camera left moving is never reported as success: the movement it obeys
\* still holds the gate (its deferred stop is to come) or has an error.
NoSilentRunaway == motor # NoOne => gate = motor \/ motor \in failed

\* An idle lease stays for its whole keepalive: while the timer of the
\* current idle period runs, no older timer, and nothing else, closes it.
KeepaliveHonoured == [][(timer \in armed) => lease' = lease]_vars

\* Every registered request is answered, whatever the dial, the camera and
\* the other requests do: nobody is left behind the gate or a closed channel.
RequestsFinish == \A q \in Requests : pc[q] # "idle" ~> pc[q] = "done"

\* The refinement: contexts, channels, timers and the gate are hidden.
Promise == INSTANCE PtzPromise WITH
    using   <- Holders,
    pinned  <- open # {},
    driving <- IF \E r \in Moves : pc[r] \in Running
               THEN CHOOSE r \in Moves : pc[r] \in Running ELSE NoOne,
    barred  <- {r \in Moves : r \in canceled /\ pc[r] \notin Running}

\* Clients see one movement at a time, only on a pinned connection, never one
\* that was canceled before it began; and the pin of an idle camera goes away.
KeepsPromise == Promise!FairSpec

\* README.md:100-101, "Timed movements always send a stop command on
\* completion or cancellation": the deferred stop of a movement goes to the
\* connection its camera has, if it has one.
StopReachesCamera ==
    [][\A r \in Moves :
          pc[r] = "stopping" /\ pc'[r] = "unlock" /\ conn = "up"
              => ctl[r] = "live"]_vars
=============================================================================
