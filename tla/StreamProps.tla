---------------------------- MODULE StreamProps ----------------------------
(***************************************************************************)
(* The properties of a stream's producer and consumers (StreamLifecycle).  *)
(***************************************************************************)
EXTENDS StreamLifecycle

\* s.pending counts the AddConsumer calls between their first line and the
\* decision to sweep; an error path that missed it would switch stopProducers
\* off for ever (add_consumer.go:12, 101).
PendingCounted == pending = Cardinality({c \in Consumers : pc[c] \in Joining})

\* A started producer has exactly one goroutine that reads or reconnects it,
\* on the connection it has; goroutines and retry timers of its earlier lives
\* carry another number (producer.go:155, 163, 180, 257).
OneWorker ==
    LET current == {w \in workers : w.id = workerID}
    IN  /\ state = "start" => Cardinality(current) = 1
        /\ state # "start" => current = {}
        /\ \A w \in current : w.at = "reading" => w.conn = conn

\* No connection outlives its place in the producer ("fix ghost exec/ffmpeg",
\* producer.go:237): what is open is p.conn, or about to replace it.
NoGhostConnection ==
    open = ({conn} \ {0})
           \cup (IF \E w \in workers : w.at = "moving" THEN {dialed} ELSE {})

\* The state of the producer says what it has: no connection and no track in
\* state none, and a track of its own connection once it counts as tracked.
StateMatchesConn ==
    /\ state = "none" <=> conn = 0
    /\ recv # 0 => recv = conn
    /\ state \in {"tracks", "start"} => recv # 0

\* The producer has what its state says, and nothing of it runs or stays open
\* without being owned.
ConnectionOwned == OneWorker /\ NoGhostConnection /\ StateMatchesConn

\* When every consumer came and went, the sweeps they owed each other (the one
\* skipped for pending > 0 is the pending one's) stopped the producer, unless a
\* sender that closed in the middle of a reconnect (MoveNode) stayed a child.
IdleProducerStopped ==
    (\A c \in Consumers : pc[c] \in {"idle", "failed", "gone"})
        => conn = 0 \/ HasReaders \/ moving # {}

\* The sweeps are owed, and given: the calls in progress are counted, and the last
\* one to end leaves no producer without a reader.
SweepsOwed == PendingCounted /\ IdleProducerStopped

\* Only the Dial of a consumer brings a stopped producer back: no worker, no
\* reconnect in flight and no retry timer of its earlier life does.
NoResurrection ==
    [][conn = 0 => open' = {} \/ \E c \in Consumers : pc[c] = "dialing"]_vars

\* Joining, leaving and looking up never hang: the two mutexes are taken in
\* one order, and whoever holds one of them gives it back.
CallsReturn ==
    /\ \A c \in Consumers :
          pc[c] \notin {"idle", "viewing"} ~> pc[c] \in {"viewing", "failed", "gone"}
    /\ \A l \in Lookups : pc[l] = "want" ~> pc[l] = "done"

-----------------------------------------------------------------------------
(* What the documentation says and the code does not do.                   *)

\* src/internal/xiaomi/README.md:94-95, "Removing this consumer does not stop
\* other viewers or recordings": the sweep of a consumer that leaves does not
\* stop the producer while another consumer is attached to it and viewing.
StopSparesViewers ==
    [][\A c, v \in Consumers :
          pc[c] = "sweepStop" /\ pc'[c] = "gone" /\ pc[v] = "viewing" /\ recv # 0
              => v \notin childs[recv]]_vars
=============================================================================
