-------------------------- MODULE OnvifBridgeProps --------------------------
(***************************************************************************)
(* The properties of the ONVIF bridge's movement control (OnvifBridge).    *)
(***************************************************************************)
EXTENDS OnvifBridge

\* Movers whose goroutine still sends, or will once their call spawns it.
Alive == {m \in Moves : pc[m] = "begin" \/ gpc[m] \in {"loop", "sending"}}

\* A mover that nobody can stop would turn the camera for ever (a continuous
\* move has no end of its own): every mover is the one moveCancel belongs to, or
\* canceled, whatever calls overlap and even if waiting for it timed out.
NoOrphanMover == Alive \subseteq canceled \cup {current}

\* A status of MOVING has an owner that will take it back: the status number is
\* that of a goroutine which has not compared it yet.
MovingHasOwner ==
    status = "MOVING" =>
        \E c \in Moves \cup Presets :
            moveID[c] = statusID /\ gpc[c] \in {"loop", "sending", "settle", "finish"}

\* Every call returns: moveMu is held for a bounded time although its holder
\* waits for a mover that waits for the camera.
CallsReturn == \A c \in Calls : pc[c] = "locking" ~> pc[c] = "returned"

\* A status of MOVING ends unless a continuous move goes on.
MovingEnds ==
    status = "MOVING" ~> status = "IDLE" \/ \E m \in Continuous : m \in Alive \ canceled

\* Once every mover is canceled for good (a Stop, and no move after it) the motor
\* rests: the requests the canceled movers left behind at go2rtc end too.
MotorRests ==
    <>[](Alive \subseteq canceled) => <>[](\A m \in Moves : request[m] = "none")

\* The camera, and what clients are told about it, come to rest.
ComesToRest == MovingEnds /\ MotorRests
=============================================================================
