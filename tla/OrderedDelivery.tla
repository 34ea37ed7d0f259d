-------------------------- MODULE OrderedDelivery --------------------------
(***************************************************************************)
(* What the CS2 transport promises its reader: the packets the camera sent *)
(* come out once each, in the order they were sent, in bursts of any size, *)
(* for as long as the connection lives.  Cs2Reorder implements it.         *)
(***************************************************************************)
EXTENDS Naturals, Sequences

VARIABLES sent, out, broken

vars == <<sent, out, broken>>

Init == sent = 0 /\ out = <<>> /\ broken = FALSE

Send == /\ sent' = sent + 1
        /\ UNCHANGED <<out, broken>>

\* A burst of the next packets, numbered from 0.
Deliver ==
    /\ ~broken
    /\ \E n \in (Len(out) + 1)..sent : out' = [k \in 1..n |-> k - 1]
    /\ UNCHANGED <<sent, broken>>

\* The connection breaks, possibly after the first packets of a burst.
Break ==
    /\ ~broken /\ broken' = TRUE
    /\ \E n \in Len(out)..sent : out' = [k \in 1..n |-> k - 1]
    /\ UNCHANGED sent

Next == Send \/ Deliver \/ Break

Spec == Init /\ [][Next]_vars

\* A connection that lives does not withhold what was sent.
FairSpec == Spec /\ WF_vars(Deliver)
=============================================================================
