----------------------------- MODULE PtzPromise -----------------------------
(***************************************************************************)
(* What the PTZ control API promises its clients, without contexts, locks, *)
(* timers or dials (src/internal/xiaomi/README.md, "PTZ API in this        *)
(* distribution"): one movement drives the motor at a time, only while the *)
(* camera connection is pinned for it and only if it was not canceled      *)
(* first; an idle pin goes away.  PtzCamera is shown to implement it.      *)
(***************************************************************************)
CONSTANTS Moves, NoOne

VARIABLES
    using,    \* movements that asked for the connection and have not let go
    pinned,   \* the temporary video consumer is attached
    driving,  \* the movement that sends directions, or NoOne
    barred    \* movements that will never drive (canceled or finished)

vars == <<using, pinned, driving, barred>>

Init ==
    /\ using = {} /\ pinned = FALSE /\ driving = NoOne /\ barred = {}

\* A movement asks for the connection, or lets go of it.
Enter(r) ==
    /\ using' = using \cup {r}
    /\ UNCHANGED <<pinned, driving, barred>>

Pin ==
    /\ ~pinned /\ pinned' = TRUE
    /\ UNCHANGED <<using, driving, barred>>

\* Nothing is driving without the pin; the last user may take it along.
Leave(r) ==
    /\ r \in using /\ driving # r
    /\ using' = using \ {r}
    /\ \/ UNCHANGED pinned
       \/ using' = {} /\ pinned' = FALSE
    /\ UNCHANGED <<driving, barred>>

Unpin ==
    /\ pinned /\ using = {}
    /\ pinned' = FALSE
    /\ UNCHANGED <<using, driving, barred>>

Begin(r) ==
    /\ driving = NoOne /\ r \in using /\ pinned /\ r \notin barred
    /\ driving' = r
    /\ UNCHANGED <<using, pinned, barred>>

\* The end of a movement; from now on it may be barred (it was canceled).
End(S) ==
    /\ driving # NoOne /\ driving' = NoOne
    /\ barred' = barred \cup S
    /\ UNCHANGED <<using, pinned>>

\* Cancellation: a movement that is driving is not barred before it ends.
Bar(S) ==
    /\ driving \notin S
    /\ barred' = barred \cup S
    /\ UNCHANGED <<using, pinned, driving>>

Next ==
    \/ \E r \in Moves : Enter(r) \/ Leave(r) \/ Begin(r)
    \/ Pin \/ Unpin
    \/ \E S \in SUBSET Moves : End(S) \/ Bar(S)

Spec == Init /\ [][Next]_vars

\* The pin of an idle camera is dropped.
FairSpec == Spec /\ WF_vars(Unpin)
=============================================================================
