-------------------------- MODULE StreamLifecycle --------------------------
(***************************************************************************)
(* The life of a stream's producer: src/internal/streams/stream.go,        *)
(* add_consumer.go and producer.go, with the node graph of                 *)
(* src/pkg/core (track.go, node.go, connection.go).                        *)
(*                                                                         *)
(* Consumers join (AddConsumer) and leave (RemoveConsumer) concurrently;   *)
(* the first one dials, the last one stops the producer; a worker          *)
(* goroutine reads the connection and reconnects it when it fails, moving  *)
(* the consumers to the new connection.  Control lookups (GetConnections)  *)
(* look at the connection meanwhile.  One producer with one track; every   *)
(* connection of it offers the same codec.  A step is what happens between *)
(* two acquisitions of Stream.mu, Producer.mu or a node's mutex.           *)
(***************************************************************************)
EXTENDS Naturals, FiniteSets

CONSTANTS
    Consumers,  \* the consumers, each joins and leaves once
    Lookups,    \* the calls of GetConnections
    MaxConns    \* bound: how many connections the source ever accepts

ASSUME StreamAssumption ==
    /\ MaxConns \in Nat
    /\ IsFiniteSet(Consumers)
    /\ Consumers \cap Lookups = {}
    /\ {"free", "worker"} \cap (Consumers \cup Lookups) = {}

Conns == 1..MaxConns

VARIABLES
    \* --- Stream ---
    pending,    \* AddConsumer calls that may still want the producer
    consumers,  \* s.consumers
    smu,        \* who holds Stream.mu across steps, or "free"
    \* --- Producer ---
    state,      \* none, medias, tracks, start
    conn,       \* p.conn, 0 for nil
    recv,       \* the connection whose receiver p.receivers holds, 0 for none
    workerID,
    pmu,        \* who holds Producer.mu across steps, or "free"
    workers,    \* goroutines of worker and reconnect: [conn, id, at]
    \* --- node graph and connections ---
    childs,     \* children of the receiver of each connection
    moving,     \* children MoveNode has in hand
    open,       \* connections dialed and not stopped
    dialed,     \* how many connections were ever dialed
    \* --- the calls ---
    pc,         \* where each call is
    matched,    \* consumers that got a track
    leaving,    \* consumers in RemoveConsumer, past its list
    got,        \* the connection whose receiver GetTrack returned
    result      \* what a lookup found, 0 for nothing

streamVars == <<pending, consumers, smu>>
prodVars   == <<state, conn, recv, workerID>>
netVars    == <<open, dialed>>
callVars   == <<matched, leaving, got, result>>
vars == <<streamVars, prodVars, pmu, workers, childs, moving, netVars, pc, callVars>>

Joining == {"dial", "dialing", "medias", "gettrack", "addtrack", "settle"}
Sweeps  == {"sweep", "sweepLock", "sweepStop"}
Pcs     == {"idle", "join", "start", "viewing", "unlist", "failed", "gone",
            "want", "done"} \cup Joining \cup Sweeps

Workers == [conn : Conns, id : Nat, at : {"reading", "retry", "dialing", "moving"}]

TypeOK ==
    /\ pending \in 0..Cardinality(Consumers)
    /\ consumers \in SUBSET Consumers
    /\ smu \in Consumers \cup {"free"}
    /\ state \in {"none", "medias", "tracks", "start"}
    /\ conn \in Conns \cup {0} /\ recv \in Conns \cup {0}
    /\ workerID \in Nat
    /\ pmu \in Consumers \cup {"free", "worker"}
    /\ workers \in SUBSET Workers
    /\ childs \in [Conns -> SUBSET Consumers]
    /\ moving \in SUBSET Consumers
    /\ open \in SUBSET Conns /\ dialed \in 0..MaxConns
    /\ pc \in [Consumers \cup Lookups -> Pcs]
    /\ matched \in SUBSET Consumers /\ leaving \in SUBSET Consumers
    /\ got \in [Consumers -> Conns \cup {0}]
    /\ result \in [Lookups -> Conns \cup {0}]

Init ==
    /\ pending = 0 /\ consumers = {} /\ smu = "free"
    /\ state = "none" /\ conn = 0 /\ recv = 0 /\ workerID = 0
    /\ pmu = "free" /\ workers = {}
    /\ childs = [k \in Conns |-> {}] /\ moving = {}
    /\ open = {} /\ dialed = 0
    /\ pc = [c \in Consumers \cup Lookups |-> "idle"]
    /\ matched = {} /\ leaving = {} /\ got = [c \in Consumers |-> 0]
    /\ result = [l \in Lookups |-> 0]

Goto(c, from, to) ==
    /\ pc[c] = from
    /\ pc' = [pc EXCEPT ![c] = to]

-----------------------------------------------------------------------------
(* AddConsumer.                                                            *)

\* Mutant: the call is counted out, not in.
AddConsumer_Uncounted(c) ==
    /\ Goto(c, "idle", "dial")
    /\ UNCHANGED <<streamVars, prodVars, pmu, workers, childs, moving, netVars,
                   callVars>>

AddConsumer(c) ==
    /\ Goto(c, "idle", "dial")
    /\ pending' = pending + 1
    /\ UNCHANGED <<consumers, smu, prodVars, pmu, workers, childs, moving, netVars,
                   callVars>>

\* Producer.Dial: nothing to do unless the state is none; otherwise Producer.mu
\* is held during the network I/O.
Dial(c) ==
    /\ pmu = "free"
    /\ \/ /\ state # "none"
          /\ Goto(c, "dial", "medias")
          /\ UNCHANGED pmu
       \/ /\ state = "none"
          /\ Goto(c, "dial", "dialing")
          /\ pmu' = c
    /\ UNCHANGED <<streamVars, prodVars, workers, childs, moving, netVars, callVars>>

DialSucceeds(c) ==
    /\ dialed < MaxConns
    /\ Goto(c, "dialing", "medias")
    /\ dialed' = dialed + 1
    /\ open' = open \cup {dialed'}
    /\ conn' = dialed'
    /\ state' = "medias"
    /\ pmu' = "free"
    /\ UNCHANGED <<streamVars, recv, workerID, workers, childs, moving, callVars>>

\* Mutant: a failed dial returns without settling.
DialFails_Unsettled(c) ==
    /\ Goto(c, "dialing", "join")
    /\ pmu' = "free"
    /\ UNCHANGED <<streamVars, prodVars, workers, childs, moving, netVars, callVars>>

DialFails(c) ==
    /\ Goto(c, "dialing", "settle")
    /\ pmu' = "free"
    /\ UNCHANGED <<streamVars, prodVars, workers, childs, moving, netVars, callVars>>

\* GetMedias and the codec match: no connection, or no common codec.
GetMedias(c) ==
    /\ pmu = "free"
    /\ \/ /\ conn # 0
          /\ Goto(c, "medias", "gettrack")
       \/ Goto(c, "medias", "settle")
    /\ UNCHANGED <<streamVars, prodVars, pmu, workers, childs, moving, netVars,
                   callVars>>

\* Producer.GetTrack: the receiver of the connection there is now.
GetTrack(c) ==
    /\ pmu = "free"
    /\ \/ /\ state = "none"
          /\ Goto(c, "gettrack", "settle")
          /\ UNCHANGED <<got, recv, state>>
       \/ /\ state # "none"
          /\ Goto(c, "gettrack", "addtrack")
          /\ got' = [got EXCEPT ![c] = conn]
          /\ recv' = conn
          /\ state' = IF state = "medias" THEN "tracks" ELSE state
    /\ UNCHANGED <<streamVars, conn, workerID, pmu, workers, childs, moving, netVars,
                   matched, leaving, result>>

\* cons.AddTrack: the sender becomes a child of the receiver GetTrack returned.
AddTrack(c) ==
    /\ Goto(c, "addtrack", "settle")
    /\ childs' = [childs EXCEPT ![got[c]] = @ \cup {c}]
    /\ matched' = matched \cup {c}
    /\ UNCHANGED <<streamVars, prodVars, pmu, workers, moving, netVars, leaving, got,
                   result>>

\* The last pending AddConsumer stops producers that got no reader.
Settle(c) ==
    /\ Goto(c, "settle", IF pending = 1 THEN "sweep" ELSE "join")
    /\ pending' = pending - 1
    /\ UNCHANGED <<consumers, smu, prodVars, pmu, workers, childs, moving, netVars,
                   callVars>>

Join(c) ==
    /\ \/ /\ c \notin matched
          /\ Goto(c, "join", "failed")
          /\ UNCHANGED consumers
       \/ /\ c \in matched /\ smu = "free"
          /\ Goto(c, "join", "start")
          /\ consumers' = consumers \cup {c}
    /\ UNCHANGED <<pending, smu, prodVars, pmu, workers, childs, moving, netVars,
                   callVars>>

\* Producer.start.
Start(c) ==
    /\ pmu = "free"
    /\ Goto(c, "start", "viewing")
    /\ \/ /\ state = "tracks"
          /\ state' = "start"
          /\ workerID' = workerID + 1
          /\ workers' = workers \cup {[conn |-> conn, id |-> workerID', at |-> "reading"]}
       \/ /\ state # "tracks"
          /\ UNCHANGED <<state, workerID, workers>>
    /\ UNCHANGED <<streamVars, conn, recv, pmu, childs, moving, netVars, callVars>>

-----------------------------------------------------------------------------
(* RemoveConsumer and stopProducers.                                       *)

\* cons.Stop: Sender.Close leaves the receiver it has for a parent.  MoveNode
\* changes that parent last, so a sender in its hands leaves the old receiver.
Leave(c) ==
    /\ Goto(c, "viewing", "unlist")
    /\ childs' = [k \in Conns |-> childs[k] \ {c}]
    /\ UNCHANGED <<streamVars, prodVars, pmu, workers, moving, netVars, callVars>>

Unlist(c) ==
    /\ smu = "free"
    /\ Goto(c, "unlist", "sweep")
    /\ consumers' = consumers \ {c}
    /\ leaving' = leaving \cup {c}
    /\ UNCHANGED <<pending, smu, prodVars, pmu, workers, childs, moving, netVars,
                   matched, got, result>>

\* After stopProducers: AddConsumer goes on to Join, RemoveConsumer is over.
Swept(c) == IF c \in leaving THEN "gone" ELSE "join"

\* stopProducers, first line.
Sweep(c) ==
    /\ Goto(c, "sweep", IF pending > 0 THEN Swept(c) ELSE "sweepLock")
    /\ UNCHANGED <<streamVars, prodVars, pmu, workers, childs, moving, netVars,
                   callVars>>

\* stopProducers, with Stream.mu: a receiver with children keeps the producer.
\* The receivers are read without Producer.mu.
HasReaders == recv # 0 /\ childs[recv] # {}

SweepLock(c) ==
    /\ smu = "free"
    /\ \/ /\ HasReaders
          /\ Goto(c, "sweepLock", Swept(c))
          /\ UNCHANGED smu
       \/ /\ ~HasReaders
          /\ Goto(c, "sweepLock", "sweepStop")
          /\ smu' = c
    /\ UNCHANGED <<pending, consumers, prodVars, pmu, workers, childs, moving, netVars,
                   callVars>>

\* Mutant: the receivers are closed, the connection is not.
Stopped_LeftOpen(k) ==
    /\ childs' = [j \in Conns |-> IF j = k THEN {} ELSE childs[j]]
    /\ UNCHANGED open

\* Connection.Stop closes the receivers, which lets go of their children.
Stopped(k) == /\ open' = open \ {k}
              /\ childs' = [j \in Conns |-> IF j = k THEN {} ELSE childs[j]]

\* stop gives a started producer another number; its workers are then stale.
NextLife == IF state = "start" THEN workerID + 1 ELSE workerID

\* Producer.stop, still with Stream.mu.
SweepStop(c) ==
    /\ pmu = "free"
    /\ Goto(c, "sweepStop", Swept(c))
    /\ smu' = "free"
    /\ \/ /\ state = "none"
          /\ UNCHANGED <<prodVars, open, childs>>
       \/ /\ state # "none"
          /\ workerID' = NextLife
          /\ Stopped(conn)
          /\ conn' = 0 /\ state' = "none" /\ recv' = 0
    /\ UNCHANGED <<pending, consumers, pmu, workers, moving, dialed, callVars>>

-----------------------------------------------------------------------------
(* worker and reconnect.                                                   *)

Advance(w, at) == workers' = (workers \ {w}) \cup {[w EXCEPT !.at = at]}
Exit(w)        == workers' = workers \ {w}

\* A worker of an earlier life of the producer.
Stale_Never(w) == w \notin workers    \* mutant: nobody is
Stale(w)       == w.id # workerID

\* conn.Start returns: the camera dropped the connection, or stop() closed it.
WorkerReturns(w) ==
    /\ w.at = "reading" /\ pmu = "free"
    /\ \/ Stale(w) /\ Exit(w)
       \/ ~Stale(w) /\ Advance(w, "retry")
    /\ UNCHANGED <<streamVars, prodVars, pmu, childs, moving, netVars, pc, callVars>>

\* reconnect, at once or from its retry timer: a worker of an earlier life of
\* the producer ends here, the current one dials with Producer.mu held.
Reconnect(w) ==
    /\ w.at = "retry" /\ pmu = "free"
    /\ \/ /\ Stale(w)
          /\ Exit(w)
          /\ UNCHANGED pmu
       \/ /\ ~Stale(w)
          /\ Advance(w, "dialing")
          /\ pmu' = "worker"
    /\ UNCHANGED <<streamVars, prodVars, childs, moving, netVars, pc, callVars>>

\* Mutant: a failed attempt keeps Producer.mu until the next one.
ReconnectFails_Keeps(w) ==
    /\ w.at = "dialing"
    /\ Advance(w, "retry")
    /\ UNCHANGED <<streamVars, prodVars, pmu, childs, moving, netVars, pc, callVars>>

ReconnectFails(w) ==
    /\ w.at = "dialing"
    /\ Advance(w, "retry")
    /\ pmu' = "free"
    /\ UNCHANGED <<streamVars, prodVars, childs, moving, netVars, pc, callVars>>

\* receiver.Replace -> MoveNode, first half: the children leave the old node.
MoveTake(w) ==
    /\ w.at = "dialing" /\ dialed < MaxConns
    /\ Advance(w, "moving")
    /\ dialed' = dialed + 1
    /\ open' = open \cup {dialed'}
    /\ moving' = IF recv = 0 THEN {} ELSE childs[recv]
    /\ childs' = [k \in Conns |-> IF k = recv THEN {} ELSE childs[k]]
    /\ UNCHANGED <<streamVars, prodVars, pmu, pc, callVars>>

\* p.receivers holds the receiver of the new connection from now on.
Replaced == IF recv = 0 THEN 0 ELSE dialed

\* MoveNode, second half, and the rest of reconnect: the previous connection
\* is stopped, the new one takes its place and gets a worker.
MoveGive(w) ==
    /\ w.at = "moving"
    /\ open' = open \ {conn}
    /\ childs' = [k \in Conns |-> IF k = dialed THEN moving
                                  ELSE IF k = conn THEN {} ELSE childs[k]]
    /\ moving' = {}
    /\ recv' = Replaced
    /\ conn' = dialed
    /\ workers' = (workers \ {w}) \cup {[conn |-> dialed, id |-> w.id, at |-> "reading"]}
    /\ pmu' = "free"
    /\ UNCHANGED <<streamVars, state, workerID, dialed, pc, callVars>>

-----------------------------------------------------------------------------
(* GetConnections, from connectedPTZ.                                      *)

LookupBegin(l) ==
    /\ Goto(l, "idle", "want")
    /\ UNCHANGED <<streamVars, prodVars, pmu, workers, childs, moving, netVars,
                   callVars>>

\* Stream.mu is needed; a producer whose mutex is taken is skipped.
Lookup(l) ==
    /\ smu = "free"
    /\ Goto(l, "want", "done")
    /\ result' = [result EXCEPT ![l] = IF pmu = "free" THEN conn ELSE 0]
    /\ UNCHANGED <<streamVars, prodVars, pmu, workers, childs, moving, netVars,
                   matched, leaving, got>>

-----------------------------------------------------------------------------
ConsumerStep(c) ==
    \/ AddConsumer(c) \/ Dial(c) \/ DialSucceeds(c) \/ DialFails(c)
    \/ GetMedias(c) \/ GetTrack(c) \/ AddTrack(c) \/ Settle(c)
    \/ Join(c) \/ Start(c) \/ Leave(c) \/ Unlist(c)
    \/ Sweep(c) \/ SweepLock(c) \/ SweepStop(c)

WorkerStep(w) ==
    \/ WorkerReturns(w) \/ Reconnect(w) \/ ReconnectFails(w)
    \/ MoveTake(w) \/ MoveGive(w)

Next ==
    \/ \E c \in Consumers : ConsumerStep(c)
    \/ \E w \in workers : WorkerStep(w)
    \/ \E l \in Lookups : LookupBegin(l) \/ Lookup(l)

Spec == Init /\ [][Next]_vars

\* Handlers and workers that can run do run.  A Go mutex that is released again
\* and again is not withheld from a waiter for ever (starvation mode), hence
\* strong fairness; when a consumer joins or leaves is its own affair, and a
\* connection need never fail, but an attempt to dial always ends.
ConsumerRuns(c) == pc[c] \notin {"idle", "viewing"} /\ ConsumerStep(c)

Fairness ==
    /\ \A c \in Consumers : SF_vars(ConsumerRuns(c))
    /\ \A l \in Lookups : SF_vars(Lookup(l))
    /\ WF_vars(\E w \in workers : w.at \in {"dialing", "moving"} /\ WorkerStep(w))

FairSpec == Spec /\ Fairness
=============================================================================
