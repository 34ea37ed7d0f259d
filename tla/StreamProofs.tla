---------------------------- MODULE StreamProofs ----------------------------
(***************************************************************************)
(* Proofs of the safety properties of a stream's producer (StreamLifecycle, *)
(* StreamProps) for any finite set of consumers, any set of lookups and any *)
(* number of connections.                                                  *)
(***************************************************************************)
EXTENDS StreamProps, FiniteSetTheorems, TLAPS

Busy(w) == w.at \in {"dialing", "moving"}

\* Producer.mu is held across steps by a consumer that dials a producer that
\* has nothing, or by the one worker that reconnects a started one.
PmuHeld ==
    /\ \A c \in Consumers : pc[c] = "dialing" <=> pmu = c
    /\ \A w \in workers : Busy(w) => pmu = "worker" /\ w.id = workerID
    /\ \A v, w \in workers : Busy(v) /\ Busy(w) => v = w
    /\ pmu = "worker" => state = "start"
    /\ pmu \in Consumers => state = "none"

\* The goroutine of a started producer is the only one that carries its number,
\* and every other one carries a smaller number.
WorkersNumbered ==
    /\ \A w \in workers : w.id <= workerID
    /\ state # "start" => \A w \in workers : w.id # workerID
    /\ state = "start" => \E w \in workers : w.id = workerID
    /\ \A v, w \in workers : v.id = workerID /\ w.id = workerID => v = w
    /\ \A w \in workers : w.id = workerID /\ w.at = "reading" => w.conn = conn

\* Connections are numbered by their dials; the one that is about to replace
\* another is the last one, and the only thing MoveNode has children for.
ConnsNumbered ==
    /\ conn <= dialed
    /\ \A w \in workers : w.at = "moving" => conn < dialed
    /\ moving # {} => \E w \in workers : w.at = "moving"

\* A consumer whose sender was added and that has not left.
Attached(c) ==
    /\ c \in matched /\ c \notin leaving
    /\ pc[c] \in {"settle", "join", "start", "viewing"} \cup Sweeps

\* Whoever joins a receiver that MoveNode has emptied is still attached when the
\* reconnect stops that receiver's connection.
LateComers ==
    /\ \A c \in leaving : pc[c] \in Sweeps \cup {"gone"}
    /\ (\E w \in workers : w.at = "moving") => \A c \in childs[conn] : Attached(c)

\* A call that has yet to decide on a sweep, or whose leaving will bring one.
Owes(c) ==
    \/ pc[c] \in {"start", "viewing", "unlist"} \cup Joining \cup Sweeps
    \/ pc[c] = "join" /\ c \in matched

\* A connection has a reader, or some call owes it a sweep.
SweepOwed ==
    conn = 0 \/ HasReaders \/ moving # {} \/ \E c \in Consumers : Owes(c)

OwnInv == PmuHeld /\ WorkersNumbered /\ ConnsNumbered /\ NoGhostConnection
          /\ StateMatchesConn

IInv == TypeOK /\ PendingCounted /\ OwnInv /\ LateComers /\ SweepOwed

USE DEF Conns, Goto, Joining, Sweeps, Pcs, Workers, Swept, Stale, Advance, Exit

-----------------------------------------------------------------------------
\* Every state is type correct: pending needs that it counts calls, and a worker
\* or a connection that it is started or replaced only when there is one.
LEMMA CountedCalls ==
    ASSUME NEW S, S \subseteq Consumers
    PROVE  /\ IsFiniteSet(S)
           /\ Cardinality(S) \in 0..Cardinality(Consumers)
BY StreamAssumption, FS_Subset, FS_CardinalityType

LEMMA TypeStep == TypeOK /\ PendingCounted /\ OwnInv /\ [Next]_vars /\ PendingCounted'
              => TypeOK'
<1> SUFFICES ASSUME TypeOK, PendingCounted, OwnInv, [Next]_vars, PendingCounted' PROVE TypeOK'
  OBVIOUS
<1> USE StreamAssumption DEF TypeOK
<1>1. pending' \in 0..Cardinality(Consumers)
  BY CountedCalls DEF PendingCounted
<1>2. ASSUME NEW c \in Consumers, ConsumerStep(c) PROVE TypeOK'
  <2>1. ASSUME AddConsumer(c) \/ Dial(c) \/ DialFails(c) PROVE TypeOK'
    BY <1>1, <2>1 DEF AddConsumer, Dial, DialFails, streamVars, prodVars, netVars, callVars
  <2>2. ASSUME GetMedias(c) \/ Settle(c) PROVE TypeOK'
    BY <1>1, <2>2 DEF GetMedias, Settle, streamVars, prodVars, netVars, callVars
  <2>3. ASSUME DialSucceeds(c) PROVE TypeOK'
    BY <2>3 DEF DialSucceeds, streamVars, callVars
  <2>4. ASSUME GetTrack(c) PROVE TypeOK'
    <3>1. CASE state = "none"
      BY <2>4, <3>1 DEF GetTrack, streamVars, netVars
    <3>2. CASE state # "none"
      <4>1. got' \in [Consumers -> Conns \cup {0}]
        BY <2>4, <3>2 DEF GetTrack
      <4> QED
        BY <2>4, <3>2, <4>1 DEF GetTrack, streamVars, netVars
    <3> QED
      BY <3>1, <3>2
  <2>5. ASSUME AddTrack(c) PROVE TypeOK'
    BY <2>5 DEF AddTrack, streamVars, prodVars, netVars
  <2>6. ASSUME Join(c) \/ Sweep(c) \/ SweepLock(c) PROVE TypeOK'
    BY <2>6 DEF Join, Sweep, SweepLock, streamVars, prodVars, netVars, callVars
  <2>7. ASSUME Start(c) PROVE TypeOK'
    BY <2>7 DEF Start, streamVars, netVars, callVars, OwnInv, StateMatchesConn
  <2>8. ASSUME Leave(c) \/ Unlist(c) PROVE TypeOK'
    <3>1. childs' \in [Conns -> SUBSET Consumers]
      BY <2>8 DEF Leave, Unlist
    <3>2. CASE Leave(c)
      BY <3>1, <3>2 DEF Leave, streamVars, prodVars, netVars, callVars
    <3>3. CASE Unlist(c)
      BY <3>1, <3>3 DEF Unlist, streamVars, prodVars, netVars, callVars
    <3> QED
      BY <2>8, <3>2, <3>3
  <2>9. ASSUME SweepStop(c) PROVE TypeOK'
    <3>1. childs' \in [Conns -> SUBSET Consumers] /\ open' \in SUBSET Conns
      BY <2>9 DEF SweepStop, Stopped
    <3>2. workerID' \in Nat /\ conn' \in Conns \cup {0} /\ recv' \in Conns \cup {0}
          /\ state' \in {"none", "medias", "tracks", "start"}
      BY <2>9 DEF SweepStop, NextLife, prodVars
    <3> QED
      BY <2>9, <3>1, <3>2 DEF SweepStop, callVars
  <2> QED
    BY <1>2, <2>1, <2>2, <2>3, <2>4, <2>5, <2>6, <2>7, <2>8, <2>9 DEF ConsumerStep
<1>3. ASSUME NEW w \in workers, WorkerStep(w) PROVE TypeOK'
  <2>1. ASSUME WorkerReturns(w) \/ Reconnect(w) \/ ReconnectFails(w) PROVE TypeOK'
    BY <2>1 DEF WorkerReturns, Reconnect, ReconnectFails, streamVars, prodVars, netVars, callVars
  <2>2. ASSUME MoveTake(w) PROVE TypeOK'
    <3>1. childs' \in [Conns -> SUBSET Consumers] /\ moving' \in SUBSET Consumers
      BY <2>2 DEF MoveTake
    <3>2. workers' \in SUBSET Workers
      BY <2>2 DEF MoveTake
    <3> QED
      BY <2>2, <3>1, <3>2 DEF MoveTake, streamVars, prodVars, callVars
  <2>3. ASSUME MoveGive(w) PROVE TypeOK'
    <3>1. dialed \in Conns
      BY <2>3 DEF MoveGive, OwnInv, ConnsNumbered, Conns
    <3>2. /\ childs' \in [Conns -> SUBSET Consumers] /\ moving' \in SUBSET Consumers
          /\ recv' \in Conns \cup {0} /\ conn' \in Conns \cup {0}
      BY <2>3, <3>1 DEF MoveGive, Replaced
    <3>3. workers' \in SUBSET Workers
      BY <2>3, <3>1 DEF MoveGive, Workers
    <3>4. open' \in SUBSET Conns /\ pmu' = "free"
      BY <2>3 DEF MoveGive
    <3> QED
      BY <2>3, <3>2, <3>3, <3>4 DEF MoveGive, streamVars, callVars
  <2> QED
    BY <1>3, <2>1, <2>2, <2>3 DEF WorkerStep
<1>4. ASSUME NEW l \in Lookups, LookupBegin(l) \/ Lookup(l) PROVE TypeOK'
  <2>1. CASE LookupBegin(l)
    BY <2>1 DEF LookupBegin, streamVars, prodVars, netVars, callVars
  <2>2. CASE Lookup(l)
    BY <2>2 DEF Lookup, streamVars, prodVars, netVars, callVars
  <2> QED
    BY <1>4, <2>1, <2>2
<1>5. CASE UNCHANGED vars
  BY <1>5 DEF vars, streamVars, prodVars, netVars, callVars
<1> QED
  BY <1>2, <1>3, <1>4, <1>5 DEF Next

\* A call is counted in by its first line and out by Settle, on every path between.
LEMMA CountStep == TypeOK /\ PendingCounted /\ [Next]_vars => PendingCounted'
<1> DEFINE Calling == {c \in Consumers : pc[c] \in Joining}
<1> SUFFICES ASSUME TypeOK, PendingCounted, [Next]_vars
             PROVE pending' = Cardinality(Calling')
  BY DEF PendingCounted
<1> USE StreamAssumption DEF TypeOK
<1>1. IsFiniteSet(Calling) /\ pending = Cardinality(Calling)
  BY CountedCalls DEF PendingCounted
<1>2. ASSUME NEW c \in Consumers, AddConsumer(c) PROVE pending' = Cardinality(Calling')
  <2>1. Calling' = Calling \cup {c} /\ c \notin Calling /\ pending' = pending + 1
    BY <1>2 DEF AddConsumer
  <2> HIDE DEF Calling
  <2> QED
    BY <1>1, <2>1, FS_AddElement
<1>3. ASSUME NEW c \in Consumers, Settle(c) PROVE pending' = Cardinality(Calling')
  <2>1. Calling' = Calling \ {c} /\ c \in Calling /\ pending' = pending - 1
    BY <1>3 DEF Settle
  <2> HIDE DEF Calling
  <2> QED
    BY <1>1, <2>1, FS_RemoveElement
<1>4. ASSUME NEW c \in Consumers, ConsumerStep(c), ~AddConsumer(c), ~Settle(c)
      PROVE pending' = pending /\ Calling' = Calling
  BY <1>4 DEF ConsumerStep, Dial, DialSucceeds, DialFails, GetMedias, GetTrack, AddTrack,
              Join, Start, Leave, Unlist, Sweep, SweepLock, SweepStop, streamVars
<1>5. ASSUME NEW w \in workers, WorkerStep(w) PROVE pending' = pending /\ Calling' = Calling
  BY <1>5 DEF WorkerStep, WorkerReturns, Reconnect, ReconnectFails, MoveTake, MoveGive,
              streamVars
<1>6. ASSUME NEW l \in Lookups, LookupBegin(l) \/ Lookup(l)
      PROVE pending' = pending /\ Calling' = Calling
  BY <1>6 DEF LookupBegin, Lookup, streamVars
<1>7. CASE UNCHANGED vars
  BY <1>1, <1>7 DEF vars, streamVars
<1> HIDE DEF Calling
<1> QED
  BY <1>1, <1>2, <1>3, <1>4, <1>5, <1>6, <1>7 DEF Next

-----------------------------------------------------------------------------
\* Who holds Producer.mu keeps everyone else from dialing, starting and stopping.
LEMMA MutexStep == TypeOK /\ OwnInv /\ [Next]_vars => PmuHeld'
<1> SUFFICES ASSUME TypeOK, OwnInv, [Next]_vars PROVE PmuHeld'
  OBVIOUS
<1> USE StreamAssumption DEF TypeOK, OwnInv, PmuHeld, Busy
<1>1. ASSUME NEW c \in Consumers, ConsumerStep(c) PROVE PmuHeld'
  <2>1. ASSUME AddConsumer(c) \/ GetMedias(c) \/ AddTrack(c) \/ Settle(c) \/ Join(c)
               \/ Leave(c) \/ Unlist(c) \/ Sweep(c) \/ SweepLock(c)
        PROVE PmuHeld'
    BY <2>1 DEF AddConsumer, GetMedias, AddTrack, Settle, Join, Leave, Unlist, Sweep,
                SweepLock, prodVars
  <2>2. ASSUME Dial(c) \/ DialSucceeds(c) \/ DialFails(c) PROVE PmuHeld'
    BY <2>2 DEF Dial, DialSucceeds, DialFails, prodVars
  <2>3. ASSUME GetTrack(c) PROVE PmuHeld'
    BY <2>3 DEF GetTrack
  <2>4. ASSUME Start(c) PROVE PmuHeld'
    BY <2>4 DEF Start
  <2>5. ASSUME SweepStop(c) PROVE PmuHeld'
    BY <2>5 DEF SweepStop, prodVars
  <2> QED
    BY <1>1, <2>1, <2>2, <2>3, <2>4, <2>5 DEF ConsumerStep
<1>2. ASSUME NEW w \in workers, WorkerStep(w) PROVE PmuHeld'
  <2>1. ASSUME WorkerReturns(w) PROVE PmuHeld'
    BY <2>1 DEF WorkerReturns, prodVars
  <2>2. ASSUME Reconnect(w) PROVE PmuHeld'
    BY <2>2 DEF Reconnect, prodVars, WorkersNumbered
  <2>3. ASSUME ReconnectFails(w) PROVE PmuHeld'
    BY <2>3 DEF ReconnectFails, prodVars
  <2>4. ASSUME MoveTake(w) PROVE PmuHeld'
    BY <2>4 DEF MoveTake, prodVars
  <2>5. ASSUME MoveGive(w) PROVE PmuHeld'
    BY <2>5 DEF MoveGive
  <2> QED
    BY <1>2, <2>1, <2>2, <2>3, <2>4, <2>5 DEF WorkerStep
<1>3. ASSUME NEW l \in Lookups, LookupBegin(l) \/ Lookup(l) PROVE PmuHeld'
  BY <1>3 DEF LookupBegin, Lookup, prodVars
<1>4. CASE UNCHANGED vars
  BY <1>4 DEF vars, prodVars
<1> QED
  BY <1>1, <1>2, <1>3, <1>4 DEF Next

\* A producer that is stopped leaves its number behind, and one that starts takes
\* a number no goroutine ever had.
LEMMA NumberStep == TypeOK /\ OwnInv /\ [Next]_vars => WorkersNumbered'
<1> SUFFICES ASSUME TypeOK, OwnInv, [Next]_vars PROVE WorkersNumbered'
  OBVIOUS
<1> USE StreamAssumption DEF TypeOK, OwnInv, PmuHeld, WorkersNumbered, Busy
<1>1. ASSUME NEW c \in Consumers, ConsumerStep(c) PROVE WorkersNumbered'
  <2>1. ASSUME AddConsumer(c) \/ Dial(c) \/ DialFails(c) \/ GetMedias(c) \/ AddTrack(c)
               \/ Settle(c) \/ Join(c) \/ Leave(c) \/ Unlist(c) \/ Sweep(c) \/ SweepLock(c)
        PROVE WorkersNumbered'
    BY <2>1 DEF AddConsumer, Dial, DialFails, GetMedias, AddTrack, Settle, Join, Leave,
                Unlist, Sweep, SweepLock, prodVars
  <2>2. ASSUME DialSucceeds(c) PROVE WorkersNumbered'
    BY <2>2 DEF DialSucceeds
  <2>3. ASSUME GetTrack(c) PROVE WorkersNumbered'
    BY <2>3 DEF GetTrack
  <2>4. ASSUME Start(c) PROVE WorkersNumbered'
    <3>1. CASE state = "tracks"
      <4> DEFINE new == [conn |-> conn, id |-> workerID + 1, at |-> "reading"]
      <4>1. /\ workers' = workers \cup {new} /\ workerID' = workerID + 1
            /\ state' = "start" /\ conn' = conn
        BY <2>4, <3>1 DEF Start
      <4>2. new.id = workerID + 1 /\ new.conn = conn
        OBVIOUS
      <4>3. \A w \in workers : w.id \in Nat
        OBVIOUS
      <4> HIDE DEF new
      <4> QED
        BY <4>1, <4>2, <4>3
    <3>2. CASE state # "tracks"
      BY <2>4, <3>2 DEF Start
    <3> QED
      BY <3>1, <3>2
  <2>5. ASSUME SweepStop(c) PROVE WorkersNumbered'
    BY <2>5 DEF SweepStop, NextLife, prodVars
  <2> QED
    BY <1>1, <2>1, <2>2, <2>3, <2>4, <2>5 DEF ConsumerStep
<1>2. ASSUME NEW w \in workers, WorkerStep(w) PROVE WorkersNumbered'
  <2>1. UNCHANGED <<state, workerID>>
    BY <1>2 DEF WorkerStep, WorkerReturns, Reconnect, ReconnectFails, MoveTake, MoveGive,
                prodVars
  <2>2. CASE Exit(w) /\ Stale(w) /\ conn' = conn
    BY <2>1, <2>2
  <2>3. ASSUME NEW at \in {"retry", "dialing", "moving"}, Advance(w, at), conn' = conn
        PROVE WorkersNumbered'
    <3> DEFINE new == [w EXCEPT !.at = at]
    <3>1. workers' = (workers \ {w}) \cup {new}
      BY <2>3
    <3>2. new.id = w.id /\ new.at # "reading"
      OBVIOUS
    <3> HIDE DEF new
    <3> QED
      BY <2>1, <2>3, <3>1, <3>2
  <2>4. ASSUME MoveGive(w) PROVE WorkersNumbered'
    <3> DEFINE new == [conn |-> dialed, id |-> w.id, at |-> "reading"]
    <3>1. workers' = (workers \ {w}) \cup {new} /\ conn' = dialed
      BY <2>4 DEF MoveGive
    <3>2. new.id = w.id /\ new.conn = dialed /\ w.id = workerID
      BY <2>4 DEF MoveGive
    <3> HIDE DEF new
    <3> QED
      BY <2>1, <3>1, <3>2
  <2> QED
    BY <1>2, <2>2, <2>3, <2>4 DEF WorkerStep, WorkerReturns, Reconnect, ReconnectFails,
                                  MoveTake, prodVars
<1>3. ASSUME NEW l \in Lookups, LookupBegin(l) \/ Lookup(l) PROVE WorkersNumbered'
  BY <1>3 DEF LookupBegin, Lookup, prodVars
<1>4. CASE UNCHANGED vars
  BY <1>4 DEF vars, prodVars
<1> QED
  BY <1>1, <1>2, <1>3, <1>4 DEF Next

\* Connections are opened, replaced and closed with the producer's own.
ConnInv == ConnsNumbered /\ NoGhostConnection /\ StateMatchesConn

LEMMA ConnStep == TypeOK /\ OwnInv /\ [Next]_vars => ConnInv'
<1> SUFFICES ASSUME TypeOK, OwnInv, [Next]_vars PROVE ConnInv'
  OBVIOUS
<1> USE StreamAssumption DEF TypeOK, OwnInv, PmuHeld, Busy, ConnInv, ConnsNumbered,
        NoGhostConnection, StateMatchesConn
<1>1. ASSUME NEW c \in Consumers, ConsumerStep(c) PROVE ConnInv'
  <2>1. ASSUME AddConsumer(c) \/ Dial(c) \/ DialFails(c) \/ GetMedias(c) \/ AddTrack(c)
               \/ Settle(c) \/ Join(c) \/ Leave(c) \/ Unlist(c) \/ Sweep(c) \/ SweepLock(c)
        PROVE ConnInv'
    BY <2>1 DEF AddConsumer, Dial, DialFails, GetMedias, AddTrack, Settle, Join, Leave,
                Unlist, Sweep, SweepLock, prodVars, netVars
  <2>2. ASSUME DialSucceeds(c) PROVE ConnInv'
    BY <2>2 DEF DialSucceeds
  <2>3. ASSUME GetTrack(c) PROVE ConnInv'
    BY <2>3 DEF GetTrack, netVars
  <2>4. ASSUME Start(c) PROVE ConnInv'
    BY <2>4 DEF Start, netVars
  <2>5. ASSUME SweepStop(c) PROVE ConnInv'
    BY <2>5 DEF SweepStop, Stopped, prodVars
  <2> QED
    BY <1>1, <2>1, <2>2, <2>3, <2>4, <2>5 DEF ConsumerStep
<1>2. ASSUME NEW w \in workers, WorkerStep(w) PROVE ConnInv'
  <2>1. ASSUME WorkerReturns(w) \/ Reconnect(w) \/ ReconnectFails(w) PROVE ConnInv'
    <3>1. ASSUME NEW v \in workers PROVE v.at = "moving" => v \in workers' /\ v # w
      BY <2>1 DEF WorkerReturns, Reconnect, ReconnectFails
    <3>2. ASSUME NEW v \in workers' PROVE v.at = "moving" => v \in workers
      BY <2>1 DEF WorkerReturns, Reconnect, ReconnectFails
    <3> QED
      BY <2>1, <3>1, <3>2 DEF WorkerReturns, Reconnect, ReconnectFails, prodVars, netVars
  <2>2. ASSUME MoveTake(w) PROVE ConnInv'
    <3> DEFINE new == [w EXCEPT !.at = "moving"]
    <3>1. workers' = (workers \ {w}) \cup {new} /\ new.at = "moving"
      BY <2>2 DEF MoveTake
    <3>2. \A v \in workers : v.at # "moving"
      BY <2>2 DEF MoveTake
    <3> HIDE DEF new
    <3> QED
      BY <2>2, <3>1, <3>2 DEF MoveTake, prodVars
  <2>3. ASSUME MoveGive(w) PROVE ConnInv'
    <3>1. \A v \in workers' : v.at # "moving"
      BY <2>3 DEF MoveGive
    <3>2. conn < dialed /\ state = "start" /\ open = ({conn} \ {0}) \cup {dialed}
      BY <2>3 DEF MoveGive
    <3> QED
      BY <2>3, <3>1, <3>2 DEF MoveGive, Replaced
  <2> QED
    BY <1>2, <2>1, <2>2, <2>3 DEF WorkerStep
<1>3. ASSUME NEW l \in Lookups, LookupBegin(l) \/ Lookup(l) PROVE ConnInv'
  BY <1>3 DEF LookupBegin, Lookup, prodVars, netVars
<1>4. CASE UNCHANGED vars
  BY <1>4 DEF vars, prodVars, netVars
<1> QED
  BY <1>1, <1>2, <1>3, <1>4 DEF Next

-----------------------------------------------------------------------------
\* While MoveNode has the children in hand, a consumer may still attach to the old
\* receiver; it cannot be detached from it but by leaving.
LEMMA LateStep == TypeOK /\ OwnInv /\ LateComers /\ [Next]_vars => LateComers'
<1> SUFFICES ASSUME TypeOK, OwnInv, LateComers, [Next]_vars PROVE LateComers'
  OBVIOUS
<1> USE StreamAssumption DEF TypeOK, OwnInv, PmuHeld, Busy, LateComers, Attached
<1>1. ASSUME NEW c \in Consumers, ConsumerStep(c) PROVE LateComers'
  <2>1. ASSUME AddConsumer(c) \/ Dial(c) \/ DialFails(c) \/ GetMedias(c) \/ GetTrack(c)
               \/ Settle(c) \/ Join(c) \/ Start(c) \/ Sweep(c) \/ SweepLock(c)
        PROVE LateComers'
    BY <2>1 DEF AddConsumer, Dial, DialFails, GetMedias, GetTrack, Settle, Join, Start,
                Sweep, SweepLock, prodVars, callVars
  <2>2. ASSUME DialSucceeds(c) PROVE LateComers'
    <3>1. ~ \E w \in workers : w.at = "moving"
      BY <2>2 DEF DialSucceeds
    <3> QED
      BY <2>2, <3>1 DEF DialSucceeds, callVars
  <2>3. ASSUME AddTrack(c) PROVE LateComers'
    <3>1. c \notin leaving
      BY <2>3 DEF AddTrack
    <3> QED
      BY <2>3, <3>1 DEF AddTrack, prodVars
  <2>4. ASSUME Leave(c) PROVE LateComers'
    <3>1. (\E w \in workers : w.at = "moving") => conn \in Conns
      BY DEF StateMatchesConn
    <3>2. \A d \in leaving' : d # c
      BY <2>4 DEF Leave, callVars
    <3>3. conn \in Conns => \A d \in childs'[conn] : d \in childs[conn] /\ d # c
      BY <2>4 DEF Leave
    <3> QED
      BY <2>4, <3>1, <3>2, <3>3 DEF Leave, prodVars, callVars
  <2>5. ASSUME Unlist(c) PROVE LateComers'
    <3>1. UNCHANGED <<childs, workers, conn, matched>> /\ leaving' = leaving \cup {c}
      BY <2>5 DEF Unlist, prodVars
    <3>2. pc[c] = "unlist" /\ pc' = [pc EXCEPT ![c] = "sweep"]
      BY <2>5 DEF Unlist
    <3> QED
      BY <3>1, <3>2
  <2>6. ASSUME SweepStop(c) PROVE LateComers'
    <3>1. ~ \E w \in workers' : w.at = "moving"
      BY <2>6 DEF SweepStop
    <3> QED
      BY <2>6, <3>1 DEF SweepStop, callVars
  <2> QED
    BY <1>1, <2>1, <2>2, <2>3, <2>4, <2>5, <2>6 DEF ConsumerStep
<1>2. ASSUME NEW w \in workers, WorkerStep(w) PROVE LateComers'
  <2>1. ASSUME WorkerReturns(w) \/ Reconnect(w) \/ ReconnectFails(w) PROVE LateComers'
    <3>1. ASSUME NEW v \in workers' PROVE v.at = "moving" => v \in workers
      BY <2>1 DEF WorkerReturns, Reconnect, ReconnectFails
    <3> QED
      BY <2>1, <3>1 DEF WorkerReturns, Reconnect, ReconnectFails, prodVars, callVars
  <2>2. ASSUME MoveTake(w) PROVE LateComers'
    <3>1. recv = conn /\ conn \in Conns
      BY <2>2 DEF MoveTake, StateMatchesConn
    <3>2. childs'[conn] = {} /\ conn' = conn
      BY <2>2, <3>1 DEF MoveTake, prodVars
    <3> QED
      BY <2>2, <3>2 DEF MoveTake, callVars
  <2>3. ASSUME MoveGive(w) PROVE LateComers'
    <3>1. \A v \in workers' : v.at # "moving"
      BY <2>3 DEF MoveGive
    <3> QED
      BY <2>3, <3>1 DEF MoveGive, callVars
  <2> QED
    BY <1>2, <2>1, <2>2, <2>3 DEF WorkerStep
<1>3. ASSUME NEW l \in Lookups, LookupBegin(l) \/ Lookup(l) PROVE LateComers'
  BY <1>3 DEF LookupBegin, Lookup, prodVars, callVars
<1>4. CASE UNCHANGED vars
  BY <1>4 DEF vars, prodVars, callVars
<1> QED
  BY <1>1, <1>2, <1>3, <1>4 DEF Next

\* A call that counts itself out while others are counted leaves the sweep to one of them.
LEMMA AnotherCounted ==
    ASSUME TypeOK, PendingCounted, NEW c \in Consumers,
           pending > 1 \/ (pending > 0 /\ pc[c] \notin Joining)
    PROVE  \E d \in Consumers \ {c} : pc[d] \in Joining
<1> DEFINE Calling == {d \in Consumers : pc[d] \in Joining}
<1>1. IsFiniteSet(Calling) /\ pending = Cardinality(Calling)
  BY CountedCalls DEF PendingCounted
<1>2. SUFFICES ASSUME Calling \subseteq {c} PROVE FALSE
  OBVIOUS
<1>3. CASE Calling = {}
  <2> HIDE DEF Calling
  <2> QED
    BY <1>1, <1>3, FS_EmptySet
<1>4. CASE Calling = {c}
  <2>1. pc[c] \in Joining
    BY <1>4
  <2> HIDE DEF Calling
  <2> QED
    BY <1>1, <1>4, <2>1, FS_Singleton
<1> QED
  BY <1>2, <1>3, <1>4

\* No connection is left without a reader and without a call that will sweep it.
LEMMA SweepStep ==
    TypeOK /\ PendingCounted /\ OwnInv /\ LateComers /\ SweepOwed /\ [Next]_vars => SweepOwed'
<1> SUFFICES ASSUME TypeOK, PendingCounted, OwnInv, LateComers, SweepOwed, [Next]_vars
             PROVE SweepOwed'
  OBVIOUS
<1> USE StreamAssumption DEF TypeOK, SweepOwed, Owes, HasReaders
<1>1. ASSUME NEW c \in Consumers, ConsumerStep(c) PROVE SweepOwed'
  <2>1. ASSUME AddConsumer(c) \/ Dial(c) \/ DialSucceeds(c) \/ DialFails(c) \/ GetMedias(c)
               \/ GetTrack(c) \/ AddTrack(c)
        PROVE SweepOwed'
    <3>1. pc'[c] \in Joining
      BY <2>1 DEF AddConsumer, Dial, DialSucceeds, DialFails, GetMedias, GetTrack, AddTrack
    <3> QED
      BY <3>1
  <2>2. ASSUME Settle(c) PROVE SweepOwed'
    <3>1. CASE pending = 1
      BY <2>2, <3>1 DEF Settle
    <3>2. CASE pending > 1
      <4>1. PICK d \in Consumers \ {c} : pc[d] \in Joining
        BY <3>2, AnotherCounted
      <4> QED
        BY <2>2, <4>1 DEF Settle
    <3>3. pc[c] \in Joining /\ pending # 0
      <4>1. PICK J \in SUBSET Consumers :
               c \in J /\ J = {d \in Consumers : pc[d] \in Joining}
        BY <2>2 DEF Settle
      <4>2. IsFiniteSet(J) /\ pending = Cardinality(J) /\ c \in J
        BY <4>1, CountedCalls DEF PendingCounted
      <4>3. pending # 0
        BY <4>2, FS_EmptySet
      <4> QED
        BY <2>2, <4>3 DEF Settle
    <3>4. pending \in Nat
      BY FS_CardinalityType
    <3> QED
      BY <3>1, <3>2, <3>3, <3>4
  <2>3. ASSUME Join(c) \/ Start(c) \/ Leave(c) \/ Unlist(c) PROVE SweepOwed'
    BY <2>3 DEF Join, Start, Leave, Unlist, prodVars, callVars
  <2>4. ASSUME Sweep(c) PROVE SweepOwed'
    <3>1. CASE pending > 0
      <4>1. PICK d \in Consumers \ {c} : pc[d] \in Joining
        BY <2>4, <3>1, AnotherCounted DEF Sweep
      <4> QED
        BY <2>4, <4>1 DEF Sweep
    <3>2. CASE ~(pending > 0)
      BY <2>4, <3>2 DEF Sweep
    <3> QED
      BY <3>1, <3>2
  <2>5. ASSUME SweepLock(c) PROVE SweepOwed'
    <3>1. CASE HasReaders
      BY <2>5, <3>1 DEF SweepLock, prodVars
    <3>2. CASE ~HasReaders
      <4>1. pc'[c] = "sweepStop"
        BY <2>5, <3>2 DEF SweepLock
      <4> QED
        BY <4>1
    <3> QED
      BY <3>1, <3>2
  <2>6. ASSUME SweepStop(c) PROVE SweepOwed'
    <3>1. conn' = 0
      <4>1. CASE state = "none"
        BY <2>6, <4>1 DEF SweepStop, prodVars, OwnInv, StateMatchesConn
      <4>2. CASE state # "none"
        BY <2>6, <4>2 DEF SweepStop
      <4> QED
        BY <4>1, <4>2
    <3> QED
      BY <3>1
  <2> QED
    BY <1>1, <2>1, <2>2, <2>3, <2>4, <2>5, <2>6 DEF ConsumerStep
<1>2. ASSUME NEW w \in workers, WorkerStep(w) PROVE SweepOwed'
  <2>1. ASSUME WorkerReturns(w) \/ Reconnect(w) \/ ReconnectFails(w) PROVE SweepOwed'
    BY <2>1 DEF WorkerReturns, Reconnect, ReconnectFails, prodVars, callVars
  <2>2. ASSUME MoveTake(w) PROVE SweepOwed'
    <3>1. moving = {} /\ recv # 0
      BY <2>2 DEF MoveTake, OwnInv, PmuHeld, Busy, ConnsNumbered, StateMatchesConn
    <3> QED
      BY <2>2, <3>1 DEF MoveTake, prodVars, callVars
  <2>3. ASSUME MoveGive(w) PROVE SweepOwed'
    <3>1. recv # 0 /\ recv = conn /\ dialed # 0 /\ dialed \in Conns
      BY <2>3 DEF MoveGive, OwnInv, PmuHeld, Busy, ConnsNumbered, StateMatchesConn
    <3>2. CASE moving # {}
      BY <2>3, <3>1, <3>2 DEF MoveGive, Replaced
    <3>3. CASE moving = {} /\ HasReaders
      <4>1. PICK c \in childs[conn] : TRUE
        BY <3>1, <3>3
      <4>2. c \in Consumers /\ Attached(c)
        BY <2>3, <3>1, <4>1 DEF MoveGive, LateComers
      <4>3. Owes(c)'
        BY <2>3, <4>2 DEF MoveGive, Attached, callVars
      <4> QED
        BY <4>2, <4>3
    <3>4. CASE moving = {} /\ ~HasReaders
      <4>1. PICK c \in Consumers : Owes(c)
        BY <3>4, <3>1
      <4>2. Owes(c)'
        BY <2>3, <4>1 DEF MoveGive, callVars
      <4> QED
        BY <4>2
    <3> QED
      BY <3>2, <3>3, <3>4
  <2> QED
    BY <1>2, <2>1, <2>2, <2>3 DEF WorkerStep
<1>3. ASSUME NEW l \in Lookups, LookupBegin(l) \/ Lookup(l) PROVE SweepOwed'
  BY <1>3 DEF LookupBegin, Lookup, prodVars, callVars
<1>4. CASE UNCHANGED vars
  BY <1>4 DEF vars, prodVars, callVars
<1> QED
  BY <1>1, <1>2, <1>3, <1>4 DEF Next

-----------------------------------------------------------------------------
\* The inductive invariant holds in every state.
LEMMA Invariance == Spec => []IInv
<1>1. Init => IInv
  <2> SUFFICES ASSUME Init PROVE IInv
    OBVIOUS
  <2> USE StreamAssumption DEF Init
  <2>1. {c \in Consumers : pc[c] \in Joining} = {}
    OBVIOUS
  <2>2. PendingCounted
    BY <2>1, FS_EmptySet DEF PendingCounted
  <2>3. TypeOK
    BY FS_CardinalityType DEF TypeOK
  <2>4. OwnInv
    BY DEF OwnInv, PmuHeld, WorkersNumbered, ConnsNumbered, NoGhostConnection,
           StateMatchesConn
  <2>5. LateComers /\ SweepOwed
    BY DEF LateComers, SweepOwed
  <2> QED
    BY <2>2, <2>3, <2>4, <2>5 DEF IInv
<1>2. IInv /\ [Next]_vars => IInv'
  BY TypeStep, CountStep, MutexStep, NumberStep, ConnStep, LateStep, SweepStep
     DEF IInv, OwnInv, ConnInv
<1> QED
  BY <1>1, <1>2, PTL DEF Spec

\* Every reachable state is type correct, for any finite set of consumers.
THEOREM TypeCorrect == Spec => []TypeOK
<1>1. IInv => TypeOK
  BY DEF IInv
<1> QED
  BY <1>1, Invariance, PTL

\* Whatever joins, leaves, fails and reconnects, a started producer has exactly one
\* goroutine, on its own connection, and nothing else stays open.
THEOREM ProducerOwnsItsConnection == Spec => []ConnectionOwned
<1>1. IInv => ConnectionOwned
  <2> SUFFICES ASSUME IInv PROVE OneWorker
    BY DEF IInv, OwnInv, ConnectionOwned
  <2> DEFINE Current == {w \in workers : w.id = workerID}
  <2> USE DEF IInv, OwnInv, WorkersNumbered
  <2>1. state = "start" => Cardinality(Current) = 1
    <3> SUFFICES ASSUME state = "start" PROVE Cardinality(Current) = 1
      OBVIOUS
    <3>1. PICK w \in workers : Current = {w}
      OBVIOUS
    <3> HIDE DEF Current
    <3> QED
      BY <3>1, FS_Singleton
  <2>2. state # "start" => Current = {}
    OBVIOUS
  <2>3. \A w \in Current : w.at = "reading" => w.conn = conn
    OBVIOUS
  <2> QED
    BY <2>1, <2>2, <2>3 DEF OneWorker
<1> QED
  BY <1>1, Invariance, PTL

\* The calls in progress are counted on every path, and when the last consumer is
\* gone its sweep, or the one of the call it was left to, has stopped the producer.
THEOREM SweepsAreOwed == Spec => []SweepsOwed
<1>1. IInv => SweepsOwed
  BY DEF IInv, SweepsOwed, IdleProducerStopped, SweepOwed, Owes
<1> QED
  BY <1>1, Invariance, PTL

\* No goroutine and no timer of an earlier life opens a connection for a producer
\* that was stopped.
THEOREM NothingResurrects == Spec => NoResurrection
<1>1. IInv /\ [Next]_vars
        => [conn = 0 => open' = {} \/ \E c \in Consumers : pc[c] = "dialing"]_vars
  <2> SUFFICES ASSUME IInv, Next, conn = 0, \A c \in Consumers : pc[c] # "dialing"
               PROVE open' = {}
    OBVIOUS
  <2> USE DEF IInv, OwnInv, PmuHeld, Busy, StateMatchesConn
  <2>1. open = {} /\ state = "none" /\ \A w \in workers : w.at \notin {"dialing", "moving"}
    BY DEF NoGhostConnection
  <2>2. ASSUME NEW c \in Consumers, ConsumerStep(c) PROVE open' = open
    BY <2>1, <2>2 DEF ConsumerStep, AddConsumer, Dial, DialSucceeds, DialFails, GetMedias,
          GetTrack, AddTrack, Settle, Join, Start, Leave, Unlist, Sweep, SweepLock,
          SweepStop, netVars
  <2>3. ASSUME NEW w \in workers, WorkerStep(w) PROVE open' = open
    BY <2>1, <2>3 DEF WorkerStep, WorkerReturns, Reconnect, ReconnectFails, MoveTake,
          MoveGive, netVars
  <2>4. ASSUME NEW l \in Lookups, LookupBegin(l) \/ Lookup(l) PROVE open' = open
    BY <2>4 DEF LookupBegin, Lookup, netVars
  <2> QED
    BY <2>1, <2>2, <2>3, <2>4 DEF Next
<1> QED
  BY <1>1, Invariance, PTL DEF Spec, NoResurrection
=============================================================================
