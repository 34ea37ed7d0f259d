----------------------------- MODULE Cs2Frames -----------------------------
(***************************************************************************)
(* Reassembly and buffering of one CS2 channel: dataChannel.push, reserve, *)
(* deliver, Pop and Close (src/pkg/xiaomi/miss/cs2/conn.go) with the parts *)
(* of Conn.worker and Conn.Close that call them.                           *)
(*                                                                         *)
(* The worker goroutine reassembles frames from the network and queues     *)
(* them; a reader goroutine takes them out; anybody closes the connection. *)
(* The byte budget bufferedSize is an atomic counter both goroutines       *)
(* change without a lock.  A frame is its size; bytes are not modelled.    *)
(***************************************************************************)
EXTENDS Integers, Sequences

CONSTANTS
    Sizes,        \* the frame sizes the camera announces
    MinFrame,     \* minFrameSize
    FrameLimit,   \* frameLimit
    BufferLimit,  \* bufferLimit
    QueueSize,    \* capacity of popBuf
    Blocking,     \* TRUE for media over TCP: push gets the done channel
    MaxFrames     \* bound: how many frames the camera sends

ASSUME FrameAssumption ==
    /\ Sizes \subseteq Nat
    /\ MinFrame \in Nat \ {0} /\ FrameLimit \in Nat /\ BufferLimit \in Nat
    /\ QueueSize \in Nat \ {0}
    /\ Blocking \in BOOLEAN /\ MaxFrames \in Nat

VARIABLES
    wpc,       \* where the worker is
    size,      \* the size push is reserving
    loaded,    \* reserve: the value it loaded
    waitSize,  \* the frame under assembly, 0 for none
    buffered,  \* bufferedSize
    popBuf,    \* the queued frames
    popOpen,   \* popBuf is not closed
    done,      \* c.done is closed
    hand,      \* the frame Pop received and has not subtracted yet, 0 for none
    rpc,       \* the reader: reading, ended
    accepted,  \* how many frames were queued
    taken      \* how many of them the reader got

workerVars == <<wpc, size, loaded, waitSize>>
readerVars == <<hand, rpc, taken>>
vars == <<workerVars, buffered, popBuf, popOpen, done, readerVars, accepted>>

TypeOK ==
    /\ wpc \in {"read", "reserve", "deliver", "blocked", "undo", "failed",
                "closing", "closed"}
    /\ size \in Nat /\ loaded \in Int /\ waitSize \in Nat /\ buffered \in Int
    /\ popBuf \in Seq(Nat) /\ Len(popBuf) <= QueueSize
    /\ popOpen \in BOOLEAN /\ done \in BOOLEAN
    /\ hand \in Nat /\ rpc \in {"reading", "ended"}
    /\ accepted \in 0..MaxFrames /\ taken \in 0..accepted

Init ==
    /\ wpc = "read" /\ size = 0 /\ loaded = 0 /\ waitSize = 0 /\ buffered = 0
    /\ popBuf = <<>> /\ popOpen = TRUE /\ done = FALSE
    /\ hand = 0 /\ rpc = "reading"
    /\ accepted = 0 /\ taken = 0

Go(from, to) == wpc = from /\ wpc' = to

-----------------------------------------------------------------------------
(* The worker: push and deliver.                                           *)

Valid(n) == n >= MinFrame /\ n <= FrameLimit

\* push: the four bytes of a frame's length are there; an invalid length ends
\* the connection, otherwise reserve loads the counter.
Header ==
    /\ waitSize = 0 /\ accepted < MaxFrames
    /\ \E n \in Sizes :
          /\ size' = n
          /\ Go("read", IF Valid(n) THEN "reserve" ELSE "failed")
    /\ loaded' = buffered
    /\ UNCHANGED <<waitSize, buffered, popBuf, popOpen, done, readerVars, accepted>>

\* reserve: no room, or the compare-and-swap, which fails when Pop subtracted
\* meanwhile and then loads again.
Fits == size <= BufferLimit - loaded

Reserve ==
    /\ \/ /\ ~Fits
          /\ Go("reserve", "failed")
          /\ UNCHANGED <<loaded, waitSize, buffered>>
       \/ /\ Fits /\ buffered = loaded
          /\ Go("reserve", "read")
          /\ buffered' = buffered + size /\ waitSize' = size
          /\ UNCHANGED loaded
       \/ /\ Fits /\ buffered # loaded
          /\ Go("reserve", "reserve")
          /\ loaded' = buffered
          /\ UNCHANGED <<waitSize, buffered>>
    /\ UNCHANGED <<size, popBuf, popOpen, done, readerVars, accepted>>

\* The last bytes of the frame arrive (earlier ones change nothing else).
Complete ==
    /\ waitSize > 0
    /\ Go("read", "deliver")
    /\ UNCHANGED <<size, loaded, waitSize, buffered, popBuf, popOpen, done,
                   readerVars, accepted>>

\* Go's channel send, ready while the buffered channel is not full.
HasRoom_Always == popOpen    \* mutant
HasRoom        == Len(popBuf) < QueueSize

Enqueue ==
    /\ HasRoom
    /\ popBuf' = Append(popBuf, waitSize)
    /\ accepted' = accepted + 1
    /\ waitSize' = 0
    /\ wpc' = "read"

\* deliver: queue the frame if there is room; otherwise fail, or wait for room.
Deliver ==
    /\ wpc = "deliver"
    /\ \/ Enqueue
       \/ /\ ~HasRoom
          /\ wpc' = IF Blocking THEN "blocked" ELSE "undo"
          /\ UNCHANGED <<popBuf, accepted, waitSize>>
    /\ UNCHANGED <<size, loaded, buffered, popOpen, done, readerVars>>

\* deliver, the second select: room, the end of the connection, ten seconds.
Unblock ==
    /\ wpc = "blocked"
    /\ Enqueue
    /\ UNCHANGED <<size, loaded, buffered, popOpen, done, readerVars>>

GiveUp ==
    /\ Go("blocked", "undo")
    /\ UNCHANGED <<size, loaded, waitSize, buffered, popBuf, popOpen, done,
                   readerVars, accepted>>

NoticeDone == done /\ GiveUp
Stalled == GiveUp

\* Mutant: the failure path leaves the frame in the budget.
Undo_Leaks ==
    /\ Go("undo", "failed")
    /\ waitSize' = 0
    /\ UNCHANGED <<size, loaded, buffered, popBuf, popOpen, done, readerVars, accepted>>

\* push returns the error of deliver; the frame's bytes go back to the budget.
Undo ==
    /\ Go("undo", "failed")
    /\ buffered' = buffered - waitSize
    /\ waitSize' = 0
    /\ UNCHANGED <<size, loaded, popBuf, popOpen, done, readerVars, accepted>>

-----------------------------------------------------------------------------
(* The end of the connection.                                              *)

\* c.Conn.Read fails: the camera went away or Close closed the socket.
ReadFails ==
    /\ Go("read", "failed")
    /\ UNCHANGED <<size, loaded, waitSize, buffered, popBuf, popOpen, done,
                   readerVars, accepted>>

\* The worker's deferred calls: Conn.Close, then Close of its channels, which
\* gives a half-assembled frame back and closes the queue.
WorkerCloses ==
    /\ Go("failed", "closing")
    /\ done' = TRUE
    /\ UNCHANGED <<size, loaded, waitSize, buffered, popBuf, popOpen, readerVars,
                   accepted>>

\* Mutant: the queue stays open.
ChannelClose_LeftOpen ==
    /\ Go("closing", "closed")
    /\ buffered' = buffered - waitSize
    /\ waitSize' = 0
    /\ UNCHANGED <<size, loaded, popBuf, popOpen, done, readerVars, accepted>>

ChannelClose ==
    /\ Go("closing", "closed")
    /\ buffered' = buffered - waitSize
    /\ waitSize' = 0
    /\ popOpen' = FALSE
    /\ UNCHANGED <<size, loaded, popBuf, done, readerVars, accepted>>

\* Conn.Close from outside, at any moment.
Close ==
    /\ ~done /\ done' = TRUE
    /\ UNCHANGED <<workerVars, buffered, popBuf, popOpen, readerVars, accepted>>

-----------------------------------------------------------------------------
(* Pop: receive, then subtract; a closed queue is drained first.           *)

Receive ==
    /\ rpc = "reading" /\ hand = 0 /\ popBuf # <<>>
    /\ hand' = Head(popBuf)
    /\ popBuf' = Tail(popBuf)
    /\ taken' = taken + 1
    /\ UNCHANGED <<workerVars, buffered, popOpen, done, rpc, accepted>>

Subtract ==
    /\ hand > 0
    /\ buffered' = buffered - hand
    /\ hand' = 0
    /\ UNCHANGED <<workerVars, popBuf, popOpen, done, rpc, taken, accepted>>

EndOfQueue ==
    /\ rpc = "reading" /\ hand = 0 /\ popBuf = <<>> /\ ~popOpen
    /\ rpc' = "ended"
    /\ UNCHANGED <<workerVars, buffered, popBuf, popOpen, done, hand, taken, accepted>>

-----------------------------------------------------------------------------
WorkerRuns ==
    \/ Reserve \/ Deliver \/ Unblock \/ NoticeDone \/ Undo
    \/ WorkerCloses \/ ChannelClose

Reader == Receive \/ Subtract \/ EndOfQueue

Next ==
    \/ Header \/ Complete \/ WorkerRuns \/ Stalled \/ ReadFails \/ Close
    \/ Reader

Spec == Init /\ [][Next]_vars

\* The worker runs, the ten-second timer of deliver fires, and a read on a
\* closed socket returns; nobody has to read what is queued.
Fairness ==
    /\ WF_vars(WorkerRuns)
    /\ WF_vars(Stalled)
    /\ SF_vars(done /\ ReadFails)

FairSpec == Spec /\ Fairness
=============================================================================
