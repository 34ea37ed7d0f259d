----------------------------- MODULE PtzCamera -----------------------------
(***************************************************************************)
(* The control path of one Xiaomi camera: src/internal/xiaomi/             *)
(* ptz_connection.go and the handler apiPTZ of ptz.go.                     *)
(*                                                                         *)
(* A movement request registers a cancellable context, shares one lease on *)
(* the camera connection with the other requests, takes the one-slot gate  *)
(* and repeats its direction until its duration ends; a stop request       *)
(* cancels every registered movement, takes the gate and sends direction   *)
(* 0.  Each critical section of c.mu is one action; what a goroutine does  *)
(* between two of them is an action of its own, so requests, the dial      *)
(* goroutine, the keepalive timer, disconnecting clients and the           *)
(* reconnecting producer interleave as they do in the program.             *)
(***************************************************************************)
EXTENDS Naturals, FiniteSets

CONSTANTS
    Moves,   \* the movement requests (direction left, right, up, down)
    Stops,   \* the stop requests
    NoOne,   \* nobody: the free gate, the motor at rest
    MaxRequests  \* bound: how many of the requests are ever made

ASSUME RequestAssumption ==
    /\ IsFiniteSet(Moves)
    /\ Moves \cap Stops = {}
    /\ NoOne \notin Moves \cup Stops
    /\ MaxRequests \in Nat

Requests == Moves \cup Stops

VARIABLES
    \* --- the fields of ptzCamera ---
    users,      \* requests between acquire and release
    epoch,      \* incremented by every acquire; a timer remembers its value
    ready,      \* the dial whose channel c.ready is, 0 for nil
    lease,      \* the dial whose lease c.lease is, 0 for nil
    err,        \* c.err # nil: the shared dial failed
    timer,      \* the epoch of the timer c.timer points to, 0 for nil
    commands,   \* movements whose cancel function is registered
    gate,       \* who filled the one-slot channel c.gate
    \* --- channels, goroutines and timers around it ---
    dials,      \* how many dials were started: the name of the last one
    closed,     \* dials whose ready channel is closed
    dialing,    \* dials inside connect()
    landed,     \* <<dial, succeeded>>: connect() returned, c.mu not yet taken
    armed,      \* epochs of running keepalive timers
    fired,      \* epochs of timers whose callback has not taken c.mu yet
    open,       \* dials whose ptzConsumer is attached to the stream
    \* --- the requests ---
    pc,         \* where each request is
    canceled,   \* requests whose context is done
    waitOn,     \* the ready channel a movement captured
    ctl,        \* the controller a movement was handed
    failed,     \* movements whose handler has an error to report
    swept,      \* the movements a stop request canceled
    \* --- the stream's producer and the camera ---
    conn,       \* the producer's connection: "none", "up", or "down"
    viewer,     \* another consumer keeps the producer alive
    motor       \* the movement the camera last obeyed, NoOne after a stop

leaseVars == <<users, epoch, ready, lease, err, timer>>
dialVars  == <<dials, closed, dialing, landed, armed, fired, open>>
ownVars   == <<waitOn, ctl, failed>>
envVars   == <<conn, viewer, motor>>
vars == <<leaseVars, commands, gate, dialVars, pc, canceled, ownVars, swept, envVars>>

-----------------------------------------------------------------------------
\* Control points of apiPTZ and acquire, in program order.
Holding == {"waiting", "resolving", "resolved", "leased", "gated", "loop",
            "send", "tick", "stopping", "unlock", "releasing"}
AtGate  == {"gated", "loop", "send", "tick", "stopping", "unlock"}
Running == {"loop", "send", "tick", "stopping"}
MovePcs == {"idle", "registered", "acquiring", "finish", "done"} \cup Holding
StopPcs == {"idle", "leased", "gated", "unlock", "done"}

\* The movements counted in c.users, and the requests that hold the gate.
Holders == {r \in Moves : pc[r] \in Holding}
Gated   == {q \in Requests : pc[q] \in AtGate}

TypeOK ==
    /\ users \in Nat /\ epoch \in Nat /\ ready \in Nat /\ lease \in Nat
    /\ err \in BOOLEAN /\ timer \in Nat
    /\ commands \in SUBSET Moves
    /\ gate \in Requests \cup {NoOne}
    /\ dials \in Nat
    /\ closed \in SUBSET Nat /\ dialing \in SUBSET Nat
    /\ landed \in SUBSET (Nat \X BOOLEAN)
    /\ armed \in SUBSET Nat /\ fired \in SUBSET Nat /\ open \in SUBSET Nat
    /\ pc \in [Requests -> MovePcs \cup StopPcs]
    /\ canceled \in SUBSET Requests
    /\ waitOn \in [Moves -> Nat]
    /\ ctl \in [Moves -> {"none", "live", "stale"}]
    /\ failed \in SUBSET Moves
    /\ swept \in [Stops -> SUBSET Moves]
    /\ conn \in {"none", "up", "down"}
    /\ viewer \in BOOLEAN
    /\ motor \in Moves \cup {NoOne}

Init ==
    /\ users = 0 /\ epoch = 0 /\ ready = 0 /\ lease = 0
    /\ err = FALSE /\ timer = 0
    /\ commands = {} /\ gate = NoOne
    /\ dials = 0 /\ closed = {} /\ dialing = {} /\ landed = {}
    /\ armed = {} /\ fired = {} /\ open = {}
    /\ pc = [q \in Requests |-> "idle"]
    /\ canceled = {}
    /\ waitOn = [r \in Moves |-> 0]
    /\ ctl = [r \in Moves |-> "none"]
    /\ failed = {}
    /\ swept = [s \in Stops |-> {}]
    /\ conn = "none" /\ viewer = FALSE /\ motor = NoOne

Goto(q, from, to) ==
    /\ pc[q] = from
    /\ pc' = [pc EXCEPT ![q] = to]

-----------------------------------------------------------------------------
\* Detaching the consumer stops a producer that nobody else uses
\* (Stream.RemoveConsumer -> stopProducers).
AfterDetach(remaining) ==
    IF remaining = {} /\ ~viewer THEN "none" ELSE conn

\* clearLocked: close the lease that is there, forget everything.  The timer
\* is forgotten, not stopped.
ClearLocked(there) ==
    /\ open' = open \ {there}
    /\ conn' = AfterDetach(open \ {there})
    /\ lease' = 0 /\ err' = FALSE /\ ready' = 0 /\ timer' = 0

KeepLease == UNCHANGED <<open, conn, lease, err, ready>>

-----------------------------------------------------------------------------
MayStart == Cardinality({q \in Requests : pc[q] # "idle"}) < MaxRequests

\* apiPTZ -> command: the movement's cancel function becomes visible to stops.
Command(r) ==
    /\ MayStart /\ Goto(r, "idle", "registered")
    /\ commands' = commands \cup {r}
    /\ UNCHANGED <<leaseVars, gate, dialVars, canceled, ownVars, swept, envVars>>

\* acquire, first line: a context that is already done never dials.
AcquireCheck(r) ==
    /\ \/ /\ r \in canceled
          /\ Goto(r, "registered", "finish")
          /\ failed' = failed \cup {r}
       \/ /\ r \notin canceled
          /\ Goto(r, "registered", "acquiring")
          /\ UNCHANGED failed
    /\ UNCHANGED <<leaseVars, commands, gate, dialVars, canceled, waitOn, ctl,
                   swept, envVars>>

\* c.users++
CountUser_Forgets == UNCHANGED users

CountUser == users' = users + 1

\* Is there a dial to share, pending or done?
NoDial_NoLease == lease = 0

NoDial == ready = 0

\* acquire, first critical section: count the user, disarm the keepalive
\* timer and share the pending dial or start the only one.
Acquire(r) ==
    /\ Goto(r, "acquiring", "waiting")
    /\ CountUser
    /\ epoch' = epoch + 1
    /\ armed' = IF timer # 0 THEN armed \ {timer} ELSE armed
    /\ timer' = 0
    /\ \/ /\ NoDial
          /\ dials' = dials + 1
          /\ ready' = dials'
          /\ dialing' = dialing \cup {dials'}
       \/ /\ ~NoDial
          /\ UNCHANGED <<ready, dials, dialing>>
    /\ waitOn' = [waitOn EXCEPT ![r] = ready']
    /\ UNCHANGED <<lease, err, commands, gate, closed, landed, fired, open,
                   canceled, ctl, failed, swept, envVars>>

\* release(keep): the last user clears the lease or arms its keepalive timer;
\* while the dial is pending its completion cleans up instead.
Release(keep) ==
    /\ users' = users - 1
    /\ \/ /\ users' # 0
          /\ KeepLease /\ UNCHANGED <<timer, armed>>
       \/ /\ users' = 0
          /\ ready \in closed
          /\ ~keep \/ err
          /\ ClearLocked(lease) /\ UNCHANGED armed
       \/ /\ users' = 0
          /\ ready \in closed
          /\ keep /\ ~err
          /\ timer' = epoch
          /\ armed' = armed \cup {epoch}
          /\ KeepLease
       \/ /\ users' = 0
          /\ ready \notin closed
          /\ KeepLease /\ UNCHANGED <<timer, armed>>
    /\ UNCHANGED <<epoch, dials, closed, dialing, landed, fired>>

\* acquire, the select: the context ended while the dial was pending (or has
\* just completed: Go chooses among ready cases at random).
AcquireCanceled(r) ==
    /\ r \in canceled
    /\ Goto(r, "waiting", "finish")
    /\ Release(FALSE)
    /\ failed' = failed \cup {r}
    /\ UNCHANGED <<commands, gate, canceled, waitOn, ctl, swept, viewer, motor>>

\* acquire, the select: the captured ready channel is closed.
AcquireReady(r) ==
    /\ waitOn[r] \in closed
    /\ Goto(r, "waiting", "resolving")
    /\ UNCHANGED <<leaseVars, commands, gate, dialVars, canceled, ownVars,
                   swept, envVars>>

\* connectedPTZ: the lookup never waits for Producer.mu, so it also misses a
\* connection whose producer another goroutine has locked (a reconnect does so
\* for as long as it dials).
Lookup == IF conn = "none" THEN {"none"} ELSE {"none", "live"}

\* acquire, second critical section: the controller is whatever connection
\* the leased stream has at this moment.
Resolve(r) ==
    /\ Goto(r, "resolving", "resolved")
    /\ \E found \in Lookup :
          ctl' = [ctl EXCEPT ![r] = IF err THEN "none" ELSE found]
    /\ UNCHANGED <<leaseVars, commands, gate, dialVars, canceled, waitOn, failed,
                   swept, envVars>>

\* acquire, its end: a failed dial, a vanished connection or a context that
\* ended meanwhile gives the lease back at once.
AcquireReturn(r) ==
    /\ \/ /\ ctl[r] = "none" \/ r \in canceled
          /\ Goto(r, "resolved", "finish")
          /\ Release(FALSE)
          /\ failed' = failed \cup {r}
       \/ /\ ctl[r] # "none" /\ r \notin canceled
          /\ Goto(r, "resolved", "leased")
          /\ UNCHANGED <<leaseVars, dialVars, conn, failed>>
    /\ UNCHANGED <<commands, gate, canceled, waitOn, ctl, swept, viewer, motor>>

-----------------------------------------------------------------------------
\* The channel has one slot.
GateFree == gate = NoOne

\* lock: fill the channel, or give up when the context is done.
TakeGate(q) ==
    /\ GateFree
    /\ Goto(q, "leased", "gated")
    /\ gate' = q
    /\ UNCHANGED <<leaseVars, commands, dialVars, canceled, ownVars, swept, envVars>>

GiveUpGate(q) ==
    /\ q \in canceled
    /\ Goto(q, "leased", IF q \in Moves THEN "releasing" ELSE "done")
    /\ failed' = failed \cup ({q} \cap Moves)
    /\ UNCHANGED <<leaseVars, commands, gate, dialVars, canceled, waitOn, ctl,
                   swept, envVars>>

GateCheck_KeepsGate(q) ==
    /\ \/ /\ q \in canceled
          /\ Goto(q, "gated", IF q \in Moves THEN "releasing" ELSE "done")
          /\ failed' = failed \cup ({q} \cap Moves)
       \/ /\ q \in Moves \ canceled
          /\ Goto(q, "gated", "loop")
          /\ UNCHANGED failed
    /\ UNCHANGED <<leaseVars, commands, gate, dialVars, canceled, waitOn, ctl, swept,
                   envVars>>

\* lock: the context is checked again with the gate in hand (runPTZ repeats
\* the check on entry): a movement canceled in the queue never starts.
GateCheck(q) ==
    /\ \/ /\ q \in canceled
          /\ Goto(q, "gated", IF q \in Moves THEN "releasing" ELSE "done")
          /\ gate' = NoOne
          /\ failed' = failed \cup ({q} \cap Moves)
       \/ /\ q \in Moves \ canceled
          /\ Goto(q, "gated", "loop")
          /\ UNCHANGED <<gate, failed>>
    /\ UNCHANGED <<leaseVars, commands, dialVars, canceled, waitOn, ctl, swept,
                   envVars>>

\* SetDirection on a handle: a command reaches the camera only through the
\* live connection, may be lost with every retransmission, and may be obeyed
\* although its acknowledgement is lost.  That a command reported as sent was
\* obeyed is an assumption about the transport.
SetDirection(handle, direction, ok) ==
    /\ ok => handle = "live" /\ conn = "up"
    /\ \/ /\ handle = "live" /\ conn = "up"
          /\ motor' = direction
       \/ /\ ~ok
          /\ UNCHANGED motor

\* runPTZ, the top of the loop.
LoopCheck(r) ==
    /\ \/ /\ r \in canceled
          /\ Goto(r, "loop", "stopping")
          /\ failed' = failed \cup {r}
       \/ /\ r \notin canceled
          /\ Goto(r, "loop", "send")
          /\ UNCHANGED failed
    /\ UNCHANGED <<leaseVars, commands, gate, dialVars, canceled, waitOn, ctl,
                   swept, envVars>>

\* runPTZ: the (repeated) direction; an error ends the loop.
SendMove(r) ==
    /\ \E ok \in BOOLEAN :
          /\ SetDirection(ctl[r], r, ok)
          /\ Goto(r, "send", IF ok THEN "tick" ELSE "stopping")
          /\ failed' = IF ok THEN failed ELSE failed \cup {r}
    /\ UNCHANGED <<leaseVars, commands, gate, dialVars, canceled, waitOn, ctl,
                   swept, conn, viewer>>

\* runPTZ, the select: duration over, next repetition, or context done.
Expire(r) ==
    /\ Goto(r, "tick", "stopping")
    /\ UNCHANGED <<leaseVars, commands, gate, dialVars, canceled, ownVars, swept,
                   envVars>>

Repeat(r) ==
    /\ Goto(r, "tick", "loop")
    /\ UNCHANGED <<leaseVars, commands, gate, dialVars, canceled, ownVars, swept,
                   envVars>>

TickCanceled(r) ==
    /\ r \in canceled
    /\ Goto(r, "tick", "stopping")
    /\ failed' = failed \cup {r}
    /\ UNCHANGED <<leaseVars, commands, gate, dialVars, canceled, waitOn, ctl,
                   swept, envVars>>

StopMotor_Unreported(r) ==
    /\ Goto(r, "stopping", "unlock")
    /\ \E ok \in BOOLEAN : SetDirection(ctl[r], NoOne, ok)
    /\ UNCHANGED <<leaseVars, commands, gate, dialVars, canceled, waitOn, ctl,
                   failed, swept, conn, viewer>>

\* runPTZ, the deferred stop, through the same controller as the movement.
StopMotor(r) ==
    /\ Goto(r, "stopping", "unlock")
    /\ \E ok \in BOOLEAN :
          /\ SetDirection(ctl[r], NoOne, ok)
          /\ failed' = IF ok THEN failed ELSE failed \cup {r}
    /\ UNCHANGED <<leaseVars, commands, gate, dialVars, canceled, waitOn, ctl,
                   swept, conn, viewer>>

Unlock(q) ==
    /\ Goto(q, "unlock", IF q \in Moves THEN "releasing" ELSE "done")
    /\ gate' = NoOne
    /\ UNCHANGED <<leaseVars, commands, dialVars, canceled, ownVars, swept, envVars>>

\* The deferred release(true) and the deferred done() of apiPTZ.
ReleaseLease(r) ==
    /\ Goto(r, "releasing", "finish")
    /\ Release(TRUE)
    /\ UNCHANGED <<commands, gate, canceled, ownVars, swept, viewer, motor>>

Finish(r) ==
    /\ Goto(r, "finish", "done")
    /\ canceled' = canceled \cup {r}
    /\ commands' = commands \ {r}
    /\ ctl' = [ctl EXCEPT ![r] = "none"]
    /\ UNCHANGED <<leaseVars, gate, dialVars, waitOn, failed, swept, envVars>>

-----------------------------------------------------------------------------
CancelCommands_Connected(s) ==
    /\ MayStart /\ Goto(s, "idle", "leased")
    /\ canceled' = canceled \cup {r \in commands : pc[r] \in AtGate}
    /\ swept' = [swept EXCEPT ![s] = commands]
    /\ UNCHANGED <<leaseVars, commands, gate, dialVars, ownVars, envVars>>

\* apiPTZ with operation 0: cancelCommands, then lock (TakeGate, GiveUpGate,
\* GateCheck), then direction 0 on the connection the stream has now, if any.
CancelCommands(s) ==
    /\ MayStart /\ Goto(s, "idle", "leased")
    /\ canceled' = canceled \cup commands
    /\ swept' = [swept EXCEPT ![s] = commands]
    /\ UNCHANGED <<leaseVars, commands, gate, dialVars, ownVars, envVars>>

SendStop(s) ==
    /\ s \notin canceled
    /\ Goto(s, "gated", "unlock")
    /\ \/ /\ "none" \in Lookup
          /\ UNCHANGED motor
       \/ /\ "live" \in Lookup
          /\ \E ok \in BOOLEAN : SetDirection("live", NoOne, ok)
    /\ UNCHANGED <<leaseVars, commands, gate, dialVars, canceled, ownVars, swept,
                   conn, viewer>>

-----------------------------------------------------------------------------
\* The dial goroutine: connectPTZ attaches a consumer to the stream (the
\* producer dials unless it is already running), or leaves nothing behind.
DialLands(d) ==
    /\ d \in dialing
    /\ dialing' = dialing \ {d}
    /\ \/ /\ landed' = landed \cup {<<d, TRUE>>}
          /\ open' = open \cup {d}
          /\ conn' = IF conn = "none" THEN "up" ELSE conn
       \/ /\ landed' = landed \cup {<<d, FALSE>>}
          /\ UNCHANGED <<open, conn>>
    /\ UNCHANGED <<leaseVars, commands, gate, dials, closed, armed, fired, pc,
                   canceled, ownVars, swept, viewer, motor>>

\* close(c.ready) on every path.
CloseReady(ok) == closed' = closed \cup {ready}

\* Everybody who waited for the dial has given up.
NobodyWaits == users = 0

\* ... and its critical section: publish the result, wake the waiters, and
\* close a lease that nobody waits for any more.
DialDone(d, ok) ==
    /\ <<d, ok>> \in landed
    /\ landed' = landed \ {<<d, ok>>}
    /\ CloseReady(ok)
    /\ \/ /\ NobodyWaits
          /\ ClearLocked(IF ok THEN d ELSE 0)
       \/ /\ ~NobodyWaits
          /\ lease' = IF ok THEN d ELSE 0
          /\ err' = ~ok
          /\ UNCHANGED <<open, conn, ready, timer>>
    /\ UNCHANGED <<users, epoch, commands, gate, dials, dialing, armed, fired, pc,
                   canceled, ownVars, swept, viewer, motor>>

\* The keepalive timer runs out; its callback then waits for c.mu.
TimerFires(e) ==
    /\ e \in armed
    /\ armed' = armed \ {e}
    /\ fired' = fired \cup {e}
    /\ UNCHANGED <<leaseVars, commands, gate, dials, closed, dialing, landed, open,
                   pc, canceled, ownVars, swept, envVars>>

IdleSince_Unchecked(e) == TRUE
IdleSince_NoEpoch(e)   == users = 0
IdleSince_Never(e)     == FALSE

\* No acquire came between the release that armed timer e and now.
IdleSince(e) == users = 0 /\ epoch = e

\* The callback: a timer of an earlier idle period does nothing.
TimerCallback(e) ==
    /\ e \in fired
    /\ fired' = fired \ {e}
    /\ \/ /\ IdleSince(e)
          /\ ClearLocked(lease)
       \/ /\ ~IdleSince(e)
          /\ KeepLease /\ UNCHANGED timer
    /\ UNCHANGED <<users, epoch, commands, gate, dials, closed, dialing, landed,
                   armed, pc, canceled, ownVars, swept, viewer, motor>>

-----------------------------------------------------------------------------
\* A client disconnects, or the 25-second budget of a movement ends.
ContextDone(q) ==
    /\ q \notin canceled
    /\ pc[q] \notin {"idle", "finish", "done"}
    /\ canceled' = canceled \cup {q}
    /\ UNCHANGED <<leaseVars, commands, gate, dialVars, pc, ownVars, swept, envVars>>

\* Other consumers of the stream come and go.
ViewerJoins ==
    /\ ~viewer /\ viewer' = TRUE
    /\ conn' = IF conn = "none" THEN "up" ELSE conn
    /\ UNCHANGED <<leaseVars, commands, gate, dialVars, pc, canceled, ownVars,
                   swept, motor>>

ViewerLeaves ==
    /\ viewer /\ viewer' = FALSE
    /\ conn' = IF open = {} THEN "none" ELSE conn
    /\ UNCHANGED <<leaseVars, commands, gate, dialVars, pc, canceled, ownVars,
                   swept, motor>>

\* The camera drops the connection; Producer.reconnect replaces it, and the
\* controllers handed out before go on naming the old one.
ConnectionLost ==
    /\ conn = "up" /\ conn' = "down"
    /\ UNCHANGED <<leaseVars, commands, gate, dialVars, pc, canceled, ownVars,
                   swept, viewer, motor>>

Reconnected ==
    /\ conn = "down" /\ conn' = "up"
    /\ ctl' = [r \in Moves |-> IF ctl[r] = "live" THEN "stale" ELSE ctl[r]]
    /\ UNCHANGED <<leaseVars, commands, gate, dialVars, pc, canceled, waitOn,
                   failed, swept, viewer, motor>>

-----------------------------------------------------------------------------
MoveStep(r) ==
    \/ Command(r) \/ AcquireCheck(r) \/ Acquire(r) \/ AcquireCanceled(r)
    \/ AcquireReady(r) \/ Resolve(r) \/ AcquireReturn(r)
    \/ LoopCheck(r) \/ SendMove(r) \/ Expire(r) \/ Repeat(r) \/ TickCanceled(r)
    \/ StopMotor(r) \/ ReleaseLease(r) \/ Finish(r)

GateStep(q) == TakeGate(q) \/ GiveUpGate(q) \/ GateCheck(q) \/ Unlock(q)

StopStep(s) == CancelCommands(s) \/ SendStop(s)

DialStep  == \/ \E d \in dialing : DialLands(d)
             \/ \E l \in landed : DialDone(l[1], l[2])

TimerStep == \/ \E e \in armed : TimerFires(e)
             \/ \E e \in fired : TimerCallback(e)

Environment ==
    \/ \E q \in Requests : ContextDone(q)
    \/ ViewerJoins \/ ViewerLeaves \/ ConnectionLost \/ Reconnected

Next ==
    \/ \E r \in Moves : MoveStep(r)
    \/ \E q \in Requests : GateStep(q)
    \/ \E s \in Stops : StopStep(s)
    \/ DialStep \/ TimerStep \/ Environment

Spec == Init /\ [][Next]_vars

\* Goroutines that can run do run; connect() returns (its handshake is timed);
\* a movement's timer runs out after at most ptzMaxDuration whatever the ticker
\* does.  Go's channel queue is FIFO, so nobody overtakes at the gate for ever;
\* requests being one-shot here, weak fairness says no less.
Fairness ==
    /\ \A r \in Moves :
          /\ WF_vars(pc[r] # "idle" /\ MoveStep(r))
          /\ SF_vars(Expire(r))
    /\ \A q \in Requests : WF_vars(GateStep(q))
    /\ \A s \in Stops : WF_vars(SendStop(s))
    /\ WF_vars(DialStep) /\ WF_vars(TimerStep)

FairSpec == Spec /\ Fairness
=============================================================================
