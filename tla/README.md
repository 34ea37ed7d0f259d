# Verification of xiaomi-onvif

This directory holds TLA+ specifications of the parts of this repository that
coordinate goroutines, connections and retries, the TLC configurations that
model-check them, and TLAPS proofs of the safety properties of all of them. The
repository is go2rtc with an added Xiaomi control path and an ONVIF bridge; the
specifications cover what is specific to it and the core of go2rtc it rests on.

    tlc -workers 4 -config Ptz.cfg MCPtzCamera.tla            # one run
    for m in *Proofs.tla; do tlapm $m; done                   # the proofs

## The system

    ONVIF client -> cmd/xiaomi-onvif (proxy) --HTTP--> internal/xiaomi (apiPTZ)
                                                          |  ptzCamera: lease, gate
                                                          v
    viewers, recordings -----> internal/streams: Stream -> Producer (dial, reconnect)
                                                          |
                                                          v
                              pkg/xiaomi/miss (MISS) -> miss/cs2 (CS2 over UDP or TCP)
                                                          |
                                                        camera
    internal/xiaomi (dial, presets, device list) -> cloudRequest -> Xiaomi cloud
    browser -> apiAuth -> pkg/xiaomi Cloud (login) -> tokens, configuration file
    cameras of the older kind -> pkg/tutk (Session16, Session25, DTLS frames)
    add-on: xiaomi-addon.py starts and ends go2rtc and cmd/xiaomi-onvif

| Component | State | Operations | Hard behaviour |
|---|---|---|---|
| ONVIF bridge, `cmd/xiaomi-onvif/main.go` | `moveMu`, the current mover, `status`/`statusID` | `startMove`, `startRelativeMove`, `stopMove`, `gotoPreset`, movers | calls overlap; a mover may outlive its replacement; statuses are set outside of the mutex |
| Compatibility proxy, same file | `movingUntil` | `markMoving`, `clearMoving`, `forward` | concurrent calls overwrite the deadline |
| PTZ control path, `internal/xiaomi/ptz.go`, `ptz_connection.go` | `users`, `epoch`, `ready`, `lease`, `err`, `timer`, `commands`, `gate` | `apiPTZ`, `acquire`, `release`, `command`, `cancelCommands`, `lock`, `runPTZ` | a shared dial nobody may wait for any more; a keepalive timer racing the next request; stops racing movements; reconnects under a movement |
| Streams, `internal/streams`, `pkg/core` | consumers, `pending`, producer state, worker number, node graph | `AddConsumer`, `RemoveConsumer`, `Dial`, `start`, `worker`, `reconnect`, `stop`, `GetConnections` | joining and leaving while the producer dials or reconnects; timers of an earlier life |
| CS2 transport, `pkg/xiaomi/miss/cs2` | `waitSeq`, `pushBuf`, reassembly, byte budget, queue, command in flight | `worker`, `PushSeq`, `push`, `reserve`, `deliver`, `Pop`, `Close`, `WriteCommand` | loss, repetition and reordering; numbers that wrap; an atomic budget; stalled readers |
| MISS client | key, media parser | login, `SetDirection`, media | sits on CS2; timestamps |
| Cloud sessions and logins, `internal/xiaomi/xiaomi.go`, `pkg/xiaomi/cloud.go` | `clouds`, `tokens`, `cloudsMu`; the global `auth`, a Cloud's `auth` map | `getCloud`, `cloudRequest`, `apiAuth`, `Login`, `LoginWithCaptcha`, `LoginWithVerify` | sessions that expire while others replace them; a login over several requests that panics out of turn; pages that share one global |
| Stream registry, play, preload, publish | global map, internal producers | API calls | maps changed by concurrent requests |
| TUTK media, `pkg/tutk` | `waitFSeq`, `waitCSeq`, `waitData`; `ReorderBuffer`; a frame per channel, clocks | `SessionRead`, `handleChunk`, `Push`, `Pop`, `FrameHandler.Handle` | packets lost, late or repeated in the middle of a frame; a clock that wraps |
| Add-on launcher, `xiaomi-addon.py` | two programs, the event `stopped`, the exit code | `supervise`, `wait_ready`, signal handler | a signal between any two steps; one of two programs ends |
| Other go2rtc protocols | per protocol | - | not specific to this repository |

What makes each component correct:

* **PTZ**: one movement drives at a time; a stop is final for what it canceled;
  the shared connection is counted, pinned while used and given back when idle;
  nobody waits for ever; a camera left moving is reported.
* **Streams**: a started producer has exactly one worker, no connection is left
  without an owner, an idle producer is stopped, a stopped one stays so.
* **CS2**: packets come out once and in order; what is acknowledged is kept; the
  budget is exact; a stalled reader cannot block the worker.
* **Cloud**: the repeat after a 401 has a newer session; a login that ends well is
  remembered; what a page is asked it can answer; nobody keeps `cloudsMu`.
* **TUTK**: a frame is one frame, in order; nothing that arrived is lost; the media
  clock goes on over the wrap.
* **Add-on**: no program outlives the launcher; its exit code tells the truth; a
  stop ends it.
* **Bridge**: no mover is out of reach of the next stop; the status `MOVING` has
  an owner and ends.

## Modules

| Module | Models | Kind |
|---|---|---|
| `PtzCamera` | `ptz_connection.go`, `apiPTZ`, `runPTZ` | specification |
| `PtzPromise` | what the PTZ API promises its clients | abstract specification |
| `PtzCameraProps`, `MCPtzCamera` | its properties and the refinement; symmetry for TLC | properties |
| `PtzCameraProofs` | safety properties, for any set of requests; `PtzCamera` implements the safety of `PtzPromise` | theorems |
| `StreamLifecycle` | `stream.go`, `add_consumer.go`, `producer.go`, `node.go` | specification |
| `StreamProps` | its properties | properties |
| `StreamProofs` | its safety properties, for any consumers and connections | theorems |
| `Cs2Reorder` | `PushSeq` and its acknowledgements, a lossy network | specification |
| `OrderedDelivery` | an ordered pipe | abstract specification |
| `Cs2ReorderProps` | properties of `Cs2Reorder` and the refinement | properties |
| `Cs2ReorderProofs` | `Cs2Reorder` implements `OrderedDelivery`, for any sizes | theorems |
| `Cs2Frames` | `push`, `reserve`, `deliver`, `Pop`, `Close` | specification |
| `Cs2FramesProps` | its properties | properties |
| `Cs2Command` | `WriteCommand` and its acknowledgements over UDP | specification |
| `Cs2CommandProps` | its properties | properties |
| `Cs2ConnProofs` | safety of `Cs2Frames` and `Cs2Command`, for any frame sizes and limits, commands and attempts | theorems |
| `OnvifBridge` | movement control of `main.go` | specification |
| `OnvifBridgeProps` | its properties | properties |
| `OnvifBridgeProofs` | its safety properties, for any sets of calls | theorems |
| `XiaomiCloud` | `getCloud`, `cloudRequest`, `apiAuth`, the login steps of `cloud.go` | specification |
| `XiaomiCloudProps`, `MCCloud` | its properties; two accounts for TLC | properties |
| `XiaomiCloudProofs` | its safety properties, for any calls, pages and accounts | theorems |
| `TutkMedia` | `session16.go`, `session25.go`, `frame.go`, the queue of `conn.go` | specification |
| `TutkMediaProps`, `MCTutk` | its properties; the frames of the instance | properties |
| `TutkMediaProofs` | its safety properties, for any frames, buffer, queue and clock | theorems |
| `AddonSupervisor` | `supervise` and `wait_ready` of `xiaomi-addon.py` | specification |
| `AddonSupervisorProps` | its properties | properties |
| `AddonSupervisorProofs` | its safety properties | theorems |

Definitions with an underscore in their name (`Stopped_LeftOpen`, `TakeMutex_Never`)
are mutants: no specification uses them. Each stands before the definition it
differs from and shows a bug that one of the properties would catch.

### PtzCamera

A critical section of `ptzCamera.mu` is one action; so is everything a goroutine
does between two of them that another goroutine can see. `pc` names the point of
`apiPTZ` or `acquire` a request is at:

| `pc` | in the code |
|---|---|
| `registered` | `command` has stored the cancel function |
| `acquiring`, `waiting` | before and after the first section of `acquire` |
| `resolving`, `resolved` | before and after the second |
| `leased` | `acquire` returned; at `lock` |
| `gated` | the gate's slot is filled, the context not yet checked |
| `loop`, `send`, `tick` | `runPTZ`: the check, `SetDirection`, the `select` |
| `stopping`, `unlock`, `releasing`, `finish` | the deferred calls |

Dials are numbered, so that a channel `ready` that was forgotten and the one of a
later dial differ. `armed` and `fired` separate a timer that runs from a callback
that waits for the mutex, because `Timer.Stop` cannot recall the latter. `Lookup`
may miss a connection: `GetConnections` skips a producer whose mutex is taken.
`SetDirection` is the transport's part: a command reaches the camera only through
a live handle, may be lost, and may be obeyed although an error is reported. The
converse, that a command reported as sent was obeyed, is an assumption:
`cs2.Conn` takes any acknowledgement for the current command, and `SentIsReceived`
of `Cs2Command` shows when that is wrong.
`NoSilentRunaway` holds under this assumption.

### StreamLifecycle

One producer with one track, whose connections all offer the same codec;
connections are numbered in the order they are dialed. `pmu` and `smu` show who
holds `Producer.mu` and `Stream.mu` when they are held across steps (network I/O,
`MoveNode`, `producer.stop` called by `stopProducers`); sections that release
them again are single actions. `MoveNode` takes two steps because
`Sender.Close` may come between them. With two consumers at most two children
are closed at the same time, for which `Node.Close` works as modelled.

### Cs2Reorder and Cs2Frames

`Cs2Reorder` numbers packets without bound; the program's variables hold the
number modulo `SeqSpace`, and `Diff` is the signed 16-bit difference of
`PushSeq`. The camera and the network are external: the camera's window and the
greatest age of a datagram are assumptions (half the number space), without which
no receiver could tell two packets with one number apart. `Cs2Frames` starts where
the packets are in order. A frame is its size, and the worker, the reader and
whoever closes the connection interleave around the atomic counter `bufferedSize`.

### Cs2Command

A caller of `WriteCommand` and the worker meet in two places without a lock: the
atomic counter `repeat` and the plain variable `c.cmdAck`, so `HandleAck` runs any
callback that was ever stored there (the race). The callback has two steps,
because the caller may take a tick between them. `by` and `received` are history:
whose acknowledgements ran a callback before the call decided, and what the
camera got. Any acknowledgement confirms the current command; what is left of
"sent" is that it was received, or that a late acknowledgement of a call that had
already returned confirmed it. The command mutex is what excludes the
acknowledgement of a concurrent call. The names of the specification begin with
`Command` because `Cs2ConnProofs` extends this module and `Cs2Frames`.

### OnvifBridge

The calls and the mover goroutines of one `proxy`. `request` is the HTTP request a
mover left at go2rtc, which may still be driving after the mover gave up on it;
`barred` are requests go2rtc has canceled. go2rtc is reduced to what `PtzCamera`
shows of it: one movement drives at a time, a stop cancels those registered.

### XiaomiCloud

A session is named by its number: a later login has a larger one. A call
(`getCameraURL`, a preset, the device list) goes from `get` to `send`, after a 401 to
`drop` and back, and, for a camera that has to be woken or has no vendor, on to its
next request (`api`); `mu` shows who logs in while it holds `cloudsMu`, the other
sections of `cloudsMu` are single actions. The service forgets a session whenever it
likes (`Expires`). The error of a request is taken for a 401 if its text contains
"401"; that another error happens to contain it is not modelled.

A browser's handler reads the global `auth` anew for each method and for `UserToken`,
without a lock, so it may work on one Cloud (`recv`) and store another one's user and
token (`pair`). Clouds are reused as soon as nothing points to them: there are as many
as pages, and `XiaomiCloudProofs` shows that a page which posts a password always finds
one. `flow` keeps of a
Cloud's `auth` map what the next step asks for: `ick` (a captcha is open), `flag` (a
second factor is), and the name. `asked` and `error` are a page between two POSTs,
`panicked` one whose request was aborted by "wrong login step". `astray` and
`answered` are history: a login that another one overlapped, a page that answers a form
again when another login came after its own, and a form that was
answered more than once, are out of the scope of the promises, because the code has
nothing to keep them apart; that such a login can be stored under the wrong account,
or panic, is what the model shows without them.

### TutkMedia

One of three receivers (`kind`) gets the packets of the same frames. The packets are
numbered through all frames, and `First` names the first packet of each frame, so a
frame's size is the difference of two of its values. The loop of
`Session25.SessionRead` that empties the reorder buffer takes a step per chunk, and
the reader may take a frame between two. `Session25` and `Session16` hand a frame to
`rawPkt`, or fail when it is full; `FrameHandler` drops the oldest one. What the
code does with packets of the past decided how the properties are stated:

* A packet whose turn is over stays in the buffer, as nothing removes it. When five of
  them fill it, `Pop` finds no free slot, runs through all 65536 numbers and replays
  them: frames are then corrupted and out of order. `FramesIntact` is stated for the
  states before that (`Sound`; `flooded` remembers the moment). A single one that stays
  is replayed when its number comes round, which the instance does not reach: with seven
  numbers instead of 16 TLC finds `FramesIntact` violated. `FramesAreIntact` therefore
  assumes `OneRound`: of a longer connection only `InTimeIsIntact` holds, where no packet
  stays behind.
* A full `rawPkt` in the middle of that loop is reported only if it happens for the last
  chunk: the result of the loop is that of its last round (`session25.go:79-83`). The
  frame is lost, the connection goes on.
* `Session16` and `FrameHandler` take packets as they come: a frame of one packet that
  is late is handed on late, and to `tsTracker` it looks like a clock that wrapped, so
  every later time is one turn too large (`ClockAgrees` says: up to whole turns).

### AddonSupervisor

A signal's handler runs in the main thread, between two of its steps. `event` follows
the main thread through `Event.wait`: it holds the lock of the event's condition when
it enters and when it leaves (`locked`, `woken`), and not while it sleeps. A handler
that calls `Event.set` at such a moment waits for its own thread: `stuck`.

## Runs

| Run | Question | Instance | Result |
|---|---|---|---|
| `ptz` | lease, dial, gate, stop, keepalive; requests finish; `PtzPromise` implemented | 2 of 2 movements and 1 stop; 63,187 states | holds |
| `ptz_stale_stop` | does the deferred stop reach the camera? | 1 movement | violated |
| `stream` | workers, connections, sweeps; calls end | 2 consumers, 1 lookup, 3 connections; 69,652 states | holds |
| `stream_spares` | does a leaving consumer spare viewers? | 2 consumers | violated |
| `cs2_reorder` | order, acknowledgements, buffer; `OrderedDelivery` implemented, with progress | 6 numbers, buffer 1, window 3, 7 packets; 722,405 states | holds |
| `cs2_frames` | byte budget; a stalled reader | sizes 1,2,3,5, limits 4 and 7, queue 2, 5 frames; 4,369 states | holds |
| `cs2_command` | attempts, confirmations, calls end | 2 commands, 2 attempts; 421,492 states | holds |
| `bridge` | movers and status; calls, status and motor come to rest | 3 of 4 calls, one of each kind; 114,750 states | holds |
| `cloud` | sessions, logins; calls and POSTs end | 2 of 2 calls and 2 pages, 2 accounts, 3 sessions, 2 passwords; 299,896 states | holds |
| `addon` | the end of the programs, the exit code | the whole system; 535 states | holds |
| `addon_stop` | does a stop end the launcher? | the whole system | violated |
| `tutk` | frames, order, completeness, clock | 5 frames of 1-3 packets, 1 lost, 3 repeated, displacement 3; 3,724,593 states | holds |

Why the bounds are enough. Requests, consumers and calls are one-shot, and the
hazards need at most a request that goes, one that comes and a third party (a
stop, a lookup, a preset): two or three of each kind give every such triple.
`MaxRequests`, `MaxCalls` and `MaxActors` say how many of them are made in one
behaviour, of whatever kind, so that all pairs (all triples of the bridge's calls) of
kinds are explored together with the liveness properties. For larger numbers, and every
other value of the constants, the safety properties of all passing runs are
proved. `ptz` allows any
number of dials, keepalive periods, reconnects and
viewers; the counters are bounded because a request acquires once. `MaxConns = 3`
is the first dial, a reconnect, and a dial of a second life. Seven packets
over six numbers pass the wrap with a packet of the previous round still in the
network; a buffer of one is full as soon as it is used. The frame sizes contain
one below the minimum, one above the frame limit and, with a budget of seven, a
sum that does not fit. Two attempts of a command are the last one and one before
it, which is all that a confirmation can come between. Three sessions are one that is
refused, one that replaces it, and one more for the other call; two passwords are two
pages, or a page that begins again. The reorder buffer of three instead of five is
filled by the three repeated packets; 16 numbers for nine packets are not used twice
(see above); the clock wraps after 5 and a frame takes 2. `CHECK_DEADLOCK FALSE` is
said because one-shot requests end, and so does the system.

Fairness. A goroutine that can run does run (weak fairness of its steps). Go's
mutexes pass to a waiter after a millisecond (starvation mode), hence strong
fairness for the steps of `StreamLifecycle` that need one; elsewhere a call takes its
mutex a few times only, and weak fairness is enough. Dials end: handshakes have deadlines. Timers
fire: `Expire`, `Stalled`. Nothing is assumed of clients, viewers, or of a
connection failing. In `Cs2Reorder` the camera repeats the packet the channel waits
for, and that packet, if it is sent again and again, arrives; other packets and
all acknowledgements may be lost for ever. In `Cs2Command` tickers tick, and
neither the camera nor the network owes anything. In `Cs2Frames` a read of a
closed socket returns; nobody has to read the queue. In `OnvifBridge` go2rtc answers every request (its budget is 25 seconds,
the client's 30). In `XiaomiCloud` the HTTP client gives up after 15 seconds;
pages owe nothing. In `AddonSupervisor` the main thread runs
unless it waits for itself, and `wait_ready` looks at its deadline in the end.

### Disagreements with the documentation

* `StopReachesCamera`: the deferred stop of a movement (`ptz.go:156-160`) uses the
  controller the movement began with. After a reconnect that is the stopped
  connection; the stop fails, and is reported, although the camera could be
  reached. `internal/xiaomi/README.md:100-101` promises a stop command always.
* `StopSparesViewers`: `stopProducers` decides on `producer.receivers` before it
  takes `Producer.mu`. A viewer in the hands of `MoveNode`, or one that attaches
  after the check, loses its producer (`internal/xiaomi/README.md:94-95`).
* `StopEnds`: the signal handler of the launcher may wait for the lock its own thread
  holds inside of `Event.wait` (`xiaomi-addon.py:266-267`, entered five times a second);
  the launcher and both programs then go on until they are killed. `DOCS.md:194-195`
  promises that a normal stop terminates both processes.

Two more were met while modelling; `StreamLifecycle` contains them, and no run is kept
for them:

* `GetConnections` avoids `Producer.mu` but needs `Stream.mu`, which `stopProducers`
  holds while it waits for a producer that is dialing, although "Control lookups must
  remain cancellable instead of blocking behind a pending connection"
  (`stream.go:65-66`).
* A sender that closes between the halves of `MoveNode` stays a child of the new
  receiver and keeps the producer alive (`node.go:85`), although `stopProducers` is
  there to "stop producers if they don't have readers" (`add_consumer.go:100`).

And some that no document contradicts: `LoginWithVerify` sends `"_flag" + flag` without
an equals sign (`cloud.go:153`); the page keeps its form after an error, and a second
answer may then panic (`www/add.html:515-546`); `AddConsumer` sizes `prodErrors` before
`s.producers` may grow (`add_consumer.go:14`); a `ContinuousMove` has no timeout of its
own although the device configuration advertises one (`main.go:733`).

## Proofs

`PtzCameraProofs` proves, for every finite set of movements and every set of stop
requests, the safety properties `ptz` checks on a small instance (`LeaseDiscipline` and
`DialDiscipline` part by part), and that whoever may send a command holds the gate (`GateExclusive`). The only assumption on the constants is `RequestAssumption`: the sets are disjoint, do not contain
`NoOne`, and `Moves` is finite (`users` is compared with a cardinality).

* `TypeOK` is inductive by itself (`TypeCorrect`).
* `GateInv` is the inductive invariant of commands: the gate's holder
  (`GateExclusive`), every movement a stop has swept is canceled (`SweptCanceled`),
  which makes `StopIsFinal` inductive - a canceled movement cannot pass the check
  in `loop`, and whoever is at `send` holds the gate the stop needs - and a
  movement the motor obeys is stopped or failed once it has left the loop
  (`StoppedOrFailed`), which makes `NoSilentRunaway` inductive.
* `LeaseInv` is that of the lease: users are counted, dials are numbered upwards
  (`DialsNumbered`), at most one is pending (`OneDial`), `ready` is pending or
  closed and a lease or an error exists only when it is closed (`ReadyPhases`),
  every holder waits for that dial or has its result (`HolderPhases`), and every
  timer belongs to an earlier idle period, or nobody uses the lease
  (`TimersOfThePast`). `LeasePinned`, `SharedDial`, `WakeUpComing` and
  `ErrorForgotten` follow from it.

* `IdleInv` rests on `LeaseInv`: while there are users the current idle period has
  no timer, armed timers are not fired ones, and a timer that runs is that of the
  current period (`IdlePeriods`); every attached consumer is accounted for
  (`NoLeakedLease`). `KeepaliveHonoured` is an action property of this invariant:
  whatever clears a lease finds its timer gone.

`SafePromise` uses all of them to map every step to the promise. `acquire` is
`Enter`, every release is `Leave`, `DialLands` is `Pin`, the timer and an abandoned
dial are `Unpin`, the context check under the gate is `Begin`, the deferred stop is
`End`, and cancellations are `Bar`; the rest is not seen. `GateExclusive` makes the
driving movement unique, `LeasePinned`'s invariant shows that it begins on a pinned
camera, and `NoLeakedLease` that the last release leaves nothing attached.

`OnvifBridgeProofs` proves `TypeOK`, `NoOrphanMover` and `MovingHasOwner` for any sets
of calls, from `CallAssumption` alone (the kinds of calls are disjoint). `TypeOK` needs
that a relative move that goes on has a leg to go (`LegsLeft`), or the count of legs
would leave its type. `NoOrphanMover` is not inductive: `Install` gives `moveCancel` a
new owner and would lose the old one. `NobodyReplaced` closes the gap: between
`stopMoveLocked` and `Install` the call holds `moveMu` and there is no current mover,
whatever the wait for the previous one came to. `MovingHasOwner` is inductive given the
types: a new number has an owner of its own, and an owner gives up only by comparing.

`StreamProofs` proves the types, `ConnectionOwned`, `SweepsOwed` and `NoResurrection` for
any lookups, any number of connections and any finite set of consumers (`pending` is
compared with a cardinality, hence `IsFiniteSet` in `StreamAssumption`). The invariant:

* `Producer.mu` is held across steps by one consumer that dials a producer that has
  nothing, or by the one worker that reconnects a started one (`PmuHeld`); the worker of
  a started producer is the only one with the current number and all others have smaller
  ones (`WorkersNumbered`), which is why a timer of an earlier life finds a number
  that is not its own. These two and `ConnsNumbered` give `ConnectionOwned` and
  `NoResurrection`.
* `SweepsOwed` is about the end of the last departure and says nothing about what leads
  there. `SweepOwed` does: an open connection has a reader, or some call has yet to
  decide on a sweep. It needs `LateComers`: whoever joined the receiver `MoveNode` has
  just emptied is still there when the reconnect stops that connection.

`Cs2ReorderProofs` proves, for every even number space, every buffer smaller than half
of it, every window of at most half of it and any number of packets, `BufferSound` and
`ImplementsOrdered`, the safety part of the refinement of `OrderedDelivery`. With the
code's 2^16 numbers the run's six say little about the arithmetic; the proof does.
The invariant: what was handed on is `0, 1, 2, ...` and `waitSeq` is the number of the
next (`Sequenced`), nothing travels that was not sent (`InFlight`), the camera's
window (`WindowKept`) and `BufferSound`. Two lemmas carry it. `Distance`: for a packet
at most half a round away from the expected one, the signed 16-bit difference of
`PushSeq` is the true distance; the window and the age of datagrams make every packet
such a one. `GapAfterRun`: the buffer is smaller than half the number space, so the run of
saved packets that is drained ends before the numbers come round (by counting).
The remainders are proved from `%`'s definition, because the solver knows no
modular arithmetic over a variable modulus.

`Cs2ConnProofs` proves `BudgetKept` for any sizes, limits and queue from
`FrameAssumption`. That the queued frames add up to the counter is said by their running
totals (`IsTotal`), not by a recursive sum: a frame that is queued appends one total, one
that is popped removes the first and shifts the others, and no induction is needed.
`Rising` adds that totals never fall, so no part is larger than the limit. `Assembling`,
`ClosedLast` and `Drained` say what is left when the worker has closed the queue.

The same module, in its second part, which shares no state with the first, proves
`AttemptsRespected` and `SentIsReceived` for any commands and attempts. `Counted` ties the counter `repeat` to the writes made and to whether an
acknowledgement ran the callback: it counts down, or it is zero until the next tick makes
it negative. `MutexHeld` shows that there is nothing of a command in the network before
its turn, so (`Answered`) a foreign acknowledgement comes from a call that has returned.

`XiaomiCloudProofs` proves all safety properties of `cloud` from `CloudAssumption`.

* `RetryIsFresh`: sessions are numbered upwards (`SessionsNamed`), and while a call that
  was refused is on its way to its next session, the cache of its account is empty or
  younger than what was refused (`CacheIsYounger`), because a drop empties it and only a
  login fills it. A call begins with nothing refused (`NothingRefusedYet`).
* `OkIsRemembered` and `AskedIsAnswerable`: a handler works on a Cloud exactly while it
  runs (`HandlersHold`), a page with a login of its own is the only busy one (`Alone`),
  and then the global `auth` is its Cloud and holds what the next step needs
  (`OwnFlow`). A new login finds a Cloud nobody refers to, by counting the
  pages (`CloudIsFree`; hence `IsFiniteSet(Browsers)`).

The attempt to prove `OkIsRemembered` showed that it was wrong as first stated, with three
pages where the run has two: a page whose login was over could answer its form again
while two others logged in, and was not yet in `astray`. TLC confirmed it with three
pages. Such an answer works on somebody else's login, which is the case the property
leaves out; `Overlap` now says so.

`TutkMediaProofs` proves the properties of `tutk` from `MediaAssumption`, which says that
frames have packets, that a frame of audio is one packet, and that a clock's step is
shorter than its turn. That packet numbers rise with the frames is an assumption on
`First` and not an induction over sizes.

* `TypeOK` needs `AtRest`: when nothing is being handled the reorder buffer has a free
  slot, and the packet it waits for is not in it. So the push that follows always fits,
  and the loop does not rest before it has made room for the next one.
* Whole frames: `Assembling` says that what `Session16` and each channel of
  `FrameHandler` have is the beginning of one frame (`Piece`). `PieceGrows` and
  `PieceIsWhole` are the two things that happen to a piece. This is inductive without
  any assumption on the numbers (`AssembledIsIntact`).
* `Session25`: `InSequence` says that, until the buffer is flooded, `seq` only goes
  forward, `waitCSeq` is never beyond it and equal to it only if a frame goes on,
  everything handed on is behind it, and there are fewer packets of the past in the
  buffer than it has slots. Then `Pop`, which looks for the next number that is
  there, finds the nearest one ahead before it finds one of the past (`NextIsNearest`,
  `PopForward`); this is where `OneRound` is needed: no number is used twice. On a
  longer connection the claim is false (see `TutkMedia` above), so `FramesAreIntact`,
  which allows any loss, delay and repetition, is about the first 65535 packets.
* `NothingLost`: either `t` packets have had their turn and none was skipped, and the
  buffer holds exactly what arrived since (`InTurn(t)`), or a packet is missing that as
  many later ones have overtaken as the buffer holds (`Skipped`), and it will be late if
  it comes. `Kept` is their disjunction; it becomes `Skipped` only when `Pop` skips with
  a full buffer, and stays so. `InTurn` speaks of the packet and not of its number: what
  has arrived is less than a round ahead of the turn (`WithinRound`), and numbers of
  packets that close are as far apart as the packets (`Apart`), so the next number is the
  next packet in any round. `NothingIsLost` therefore assumes only `Roomy`: no packet
  overtakes another one by 65536, or there are no more than one round of them.
* `InTimeIsIntact` is the other half of `InTurn`: where nothing was lost, repeated or too
  late for the buffer (`InTime`), what was handed on is whole, once and in order, however
  often the numbers come round: a camera that streams for an hour uses each of them many
  times. `ChunkPiece` and `HandInOrder` say for `InSequence` and `InTurn` what
  `handleChunk` does with a chunk whose turn it is.
* `ClockAgrees`: a clock knows the last frame handed on for its media (`ClockOfLast`).
  `ElapsedFacts` is the arithmetic: what `tsTracker` counts between two readings is the
  camera's time between the frames up to whole turns, and less than a turn. `NextTime`
  adds it to the time of the last frame, exactly if the frames are less than a turn
  apart. It does not need `OneRound`. As in `Cs2ReorderProofs`, remainders are proved
  from the definition of `%` (`DivMod`, `ModUnique`).

`AddonSupervisorProofs` proves `OrderlyEnd` and `TruthfulCode`. What the `finally` clause
has behind it at each point (`EndedInTurn`) and that only a signal sets the event
(`StopsAreAsked`) make them inductive; the types say where the main thread may be inside
of `Event.wait`.

Each step of the proofs has one lemma or one step per action, and under it one step
per conjunct that the action disturbs. Each inductive invariant was checked by TLC on an
instance before it was proved.

Model-checked only are the liveness properties (`RequestsFinish`, `CallsReturn`,
`ComesToRest`, `ReaderHarmless`, `Ends`) and the fairness of `PtzPromise` and
`OrderedDelivery` (`KeepsPromise` and `KeepsOrder` beyond their safety parts): liveness
under fairness is beyond the proof system.

## Not modelled

Payloads, codecs, SOAP documents, logging, and the protocols inherited from
go2rtc: their state is per protocol and shared with nothing modelled here. Time: a
duration is "some time later". The handshakes of CS2, MISS and TUTK, DTLS, TCP framing,
TUTK commands and acknowledgements, the compatibility proxy, the array of a node's
children, streams with several producers or tracks, and the streams API (see the plan).

## Plan

1. (done) `PtzCamera` with `PtzPromise` and its proofs; `StreamLifecycle`;
   `Cs2Reorder` with `OrderedDelivery`; `Cs2Frames`; `Cs2Command`; `OnvifBridge`.
2. (done) `XiaomiCloud`, `TutkMedia`, `AddonSupervisor`; proofs of `OnvifBridge` and of
   `RetryIsFresh`.
3. (done) Proofs of the safety properties of `StreamLifecycle`, `Cs2Reorder` (with the
   safety of its refinement), `Cs2Frames`, `Cs2Command`, `XiaomiCloud` and
   `AddonSupervisor`.
4. (done) Proofs of `TutkMedia`: `FramesIntact`, `NothingLost` and `ClockAgrees` for any
   frames.
5. `CompatProxy`: `movingUntil`. `NodeGraph`: the arrays of `node.go` with any number of
   children; several tracks and producers in `StreamLifecycle` (`AddProducer`, `Play`,
   `preload`). Composition of `OnvifBridge` with `PtzCamera` instead of its reduction.
