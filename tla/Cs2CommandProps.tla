-------------------------- MODULE Cs2CommandProps --------------------------
(***************************************************************************)
(* The properties of commands over CS2 and UDP (Cs2Command).               *)
(***************************************************************************)
EXTENDS Cs2Command

\* A command is written at most five times, and reported as unsent only when
\* all of them were made: no acknowledgement, however late or stale, costs a
\* command one of its attempts (conn.go:253-274).
AttemptsKept ==
    \A c \in Commands :
        /\ sends[c] <= Attempts
        /\ outcome[c] = "unsent" => sends[c] = Attempts

\* A callback that ran before the last attempt was given up is never answered
\* by "can't send command", although the counter is set and decremented by two
\* goroutines and the ticker is reset in a step of its own.
ConfirmedIsSent ==
    \A c \in Commands : outcome[c] = "unsent" => by[c] = {}

\* A command that is reported as unsent had all its attempts and no answer.
AttemptsRespected == AttemptsKept /\ ConfirmedIsSent

\* A command reported as sent was received, unless the late acknowledgement of a
\* command whose call had returned before confirmed it: this is how far the PTZ
\* control path may rely on SetDirection.
SentIsReceived ==
    \A c \in Commands : outcome[c] = "sent" =>
        \/ c \in received
        \/ \E a \in by[c] : a # c /\ pc[a] = "returned"

\* Every call returns, from a camera that is silent and behind one that was.
CallsReturn == \A c \in Commands : pc[c] = "locking" ~> pc[c] = "returned"
=============================================================================
