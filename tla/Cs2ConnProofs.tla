----------------------------- MODULE Cs2ConnProofs -----------------------------
(***************************************************************************)
(* Proofs of the safety properties of a CS2 connection: the frame buffer   *)
(* of a channel (Cs2Frames, Cs2FramesProps) for any frame sizes, limits and*)
(* queue, and the commands over UDP (Cs2Command, Cs2CommandProps) for any  *)
(* set of commands and any number of attempts.  The two parts share no     *)
(* state: each has its own variables, specification and invariant.         *)
(***************************************************************************)
EXTENDS Cs2FramesProps, Cs2CommandProps, TLAPS

\* The running totals of frames never fall.  (IsTotal implies it, but only by an
\* induction on the length of s.)
Rising(s, t) ==
    \E sum \in [0..Len(s) -> 0..BufferLimit] :
        /\ sum[0] = 0 /\ sum[Len(s)] = t
        /\ \A i \in 1..Len(s) : sum[i] = sum[i - 1] + s[i]
        /\ \A i \in 0..Len(s) : \A j \in i..Len(s) : sum[i] <= sum[j]

\* The counter is what the worker, the queue and the reader have of it.
Charged ==
    /\ Rising(popBuf, buffered - waitSize - hand)
    /\ buffered <= BufferLimit

\* A frame is under assembly from the moment its bytes are reserved, and only a
\* frame the camera may still send is.
Assembling ==
    /\ wpc = "reserve" => waitSize = 0 /\ size > 0
    /\ wpc \in {"deliver", "blocked", "undo"} => waitSize > 0
    /\ wpc = "reserve" \/ waitSize > 0 => accepted < MaxFrames

\* The queue is closed by the worker, once the connection is and when nothing is
\* under assembly any more.
ClosedLast ==
    /\ wpc \in {"closing", "closed"} => done
    /\ ~popOpen => wpc = "closed"
    /\ wpc = "closed" => waitSize = 0

\* A frame that was accepted is queued or taken, and the reader ends behind the
\* last one.
Drained ==
    /\ accepted = taken + Len(popBuf)
    /\ rpc = "ended" => popBuf = <<>> /\ hand = 0 /\ ~popOpen

IInv == TypeOK /\ Charged /\ Assembling /\ ClosedLast /\ Drained

USE DEF Go, Valid, HasRoom, Fits

-----------------------------------------------------------------------------
(* Running totals of an empty, a longer and a shorter queue.               *)

LEMMA RisingEmpty == FrameAssumption => Rising(<<>>, 0)
<1> SUFFICES ASSUME FrameAssumption PROVE Rising(<<>>, 0)
  OBVIOUS
<1> DEFINE sum == [i \in 0..0 |-> 0]
<1>1. sum \in [0..Len(<<>>) -> 0..BufferLimit] /\ sum[0] = 0
  BY DEF FrameAssumption
<1>2. \A i \in 0..Len(<<>>) : \A j \in i..Len(<<>>) : sum[i] <= sum[j]
  OBVIOUS
<1> HIDE DEF sum
<1> QED
  BY <1>1, <1>2 DEF Rising

LEMMA EmptyTotal ==
    ASSUME NEW t, Rising(<<>>, t)
    PROVE  t = 0
BY DEF Rising

\* A frame behind the others adds to the total of all of them.
LEMMA RisingAppend ==
    ASSUME FrameAssumption, NEW s \in Seq(Nat), NEW n \in Nat, NEW t \in Int, Rising(s, t),
           t + n <= BufferLimit
    PROVE  Rising(Append(s, n), t + n)
<1>1. PICK sum \in [0..Len(s) -> 0..BufferLimit] :
         /\ sum[0] = 0 /\ sum[Len(s)] = t
         /\ \A i \in 1..Len(s) : sum[i] = sum[i - 1] + s[i]
         /\ \A i \in 0..Len(s) : \A j \in i..Len(s) : sum[i] <= sum[j]
  BY DEF Rising
<1> DEFINE r == Append(s, n)
           longer == [i \in 0..(Len(s) + 1) |-> IF i = Len(s) + 1 THEN t + n ELSE sum[i]]
<1>2. /\ Len(s) \in Nat /\ Len(r) = Len(s) + 1
      /\ r[Len(s) + 1] = n /\ \A i \in 1..Len(s) : r[i] = s[i]
  OBVIOUS
<1>3. t \in 0..BufferLimit /\ BufferLimit \in Nat
  BY <1>1, <1>2 DEF FrameAssumption
<1>4. longer \in [0..Len(r) -> 0..BufferLimit]
  BY <1>1, <1>2, <1>3
<1>5. longer[Len(s) + 1] = t + n /\ \A i \in 0..Len(s) : longer[i] = sum[i]
  BY <1>2
<1> HIDE DEF longer, r
<1>6. \A i \in 1..Len(r) : longer[i] = longer[i - 1] + r[i]
  <2> SUFFICES ASSUME NEW i \in 1..Len(r) PROVE longer[i] = longer[i - 1] + r[i]
    OBVIOUS
  <2>1. CASE i = Len(s) + 1
    BY <1>1, <1>2, <1>3, <1>5, <2>1
  <2>2. CASE i \in 1..Len(s)
    BY <1>1, <1>2, <1>5, <2>2
  <2> QED
    BY <1>2, <2>1, <2>2
<1>7. \A i \in 0..Len(r) : \A j \in i..Len(r) : longer[i] <= longer[j]
  <2> SUFFICES ASSUME NEW i \in 0..Len(r), NEW j \in i..Len(r)
               PROVE longer[i] <= longer[j]
    OBVIOUS
  <2>1. CASE j \in 0..Len(s)
    <3>1. i \in 0..Len(s) /\ j \in i..Len(s)
      BY <1>2, <2>1
    <3>2. sum[i] <= sum[j]
      BY <1>1, <3>1
    <3> QED
      BY <1>5, <2>1, <3>1, <3>2
  <2>2. CASE j = Len(s) + 1 /\ i \in 0..Len(s)
    <3>1. sum[i] <= sum[Len(s)]
      BY <1>1, <1>2, <2>2
    <3>2. sum[i] \in 0..BufferLimit
      BY <1>1, <2>2
    <3> QED
      BY <1>1, <1>2, <1>3, <1>5, <2>2, <3>1, <3>2
  <2>3. CASE i = Len(s) + 1 /\ j = Len(s) + 1
    BY <1>3, <1>5, <2>3
  <2> QED
    BY <1>2, <2>1, <2>2, <2>3
<1>8. longer[0] = 0 /\ longer[Len(r)] = t + n
  BY <1>1, <1>2, <1>5
<1> QED
  BY <1>4, <1>6, <1>7, <1>8 DEF Rising, r

\* Without the first frame the total is smaller by it.
LEMMA RisingTail ==
    ASSUME FrameAssumption, NEW s \in Seq(Nat), s # <<>>, NEW t \in Int, Rising(s, t)
    PROVE  Rising(Tail(s), t - Head(s))
<1>1. PICK sum \in [0..Len(s) -> 0..BufferLimit] :
         /\ sum[0] = 0 /\ sum[Len(s)] = t
         /\ \A i \in 1..Len(s) : sum[i] = sum[i - 1] + s[i]
         /\ \A i \in 0..Len(s) : \A j \in i..Len(s) : sum[i] <= sum[j]
  BY DEF Rising
<1> DEFINE r == Tail(s)
           shorter == [i \in 0..(Len(s) - 1) |-> sum[i + 1] - Head(s)]
<1>2. /\ Len(s) \in Nat \ {0} /\ Len(r) = Len(s) - 1 /\ Head(s) = s[1] /\ Head(s) \in Nat
      /\ \A i \in 1..Len(r) : r[i] = s[i + 1]
  OBVIOUS
<1>3. sum[1] = Head(s)
  BY <1>1, <1>2
<1>4. \A i \in 1..Len(s) : sum[i] - Head(s) \in 0..BufferLimit
  <2> SUFFICES ASSUME NEW i \in 1..Len(s) PROVE sum[i] - Head(s) \in 0..BufferLimit
    OBVIOUS
  <2>1. 1 \in 0..Len(s) /\ i \in 0..Len(s) /\ i \in 1..Len(s)
    BY <1>2
  <2>2. sum[1] <= sum[i]
    BY <1>1, <2>1
  <2>3. sum[i] \in 0..BufferLimit
    BY <1>1, <2>1
  <2> QED
    BY <1>2, <1>3, <2>2, <2>3 DEF FrameAssumption
<1>5. shorter \in [0..Len(r) -> 0..BufferLimit]
  BY <1>2, <1>4
<1>6. \A i \in 0..Len(r) : shorter[i] = sum[i + 1] - Head(s)
  BY <1>2
<1> HIDE DEF shorter, r
<1>7. \A i \in 1..Len(r) : shorter[i] = shorter[i - 1] + r[i]
  <2> SUFFICES ASSUME NEW i \in 1..Len(r) PROVE shorter[i] = shorter[i - 1] + r[i]
    OBVIOUS
  <2>1. i + 1 \in 1..Len(s) /\ i \in 0..Len(s) /\ (i + 1) - 1 = i
    BY <1>2
  <2>2. sum[i + 1] = sum[i] + s[i + 1] /\ r[i] = s[i + 1]
    BY <1>1, <1>2, <2>1
  <2>3. sum[i] \in 0..BufferLimit
    BY <1>1, <2>1
  <2>4. s[i + 1] \in Nat
    BY <2>1
  <2>5. shorter[i] = sum[i + 1] - Head(s) /\ shorter[i - 1] = sum[i] - Head(s)
    BY <1>2, <1>6
  <2> QED
    BY <1>2, <2>2, <2>3, <2>4, <2>5
<1>8. \A i \in 0..Len(r) : \A j \in i..Len(r) : shorter[i] <= shorter[j]
  <2> SUFFICES ASSUME NEW i \in 0..Len(r), NEW j \in i..Len(r)
               PROVE shorter[i] <= shorter[j]
    OBVIOUS
  <2>1. i + 1 \in 0..Len(s) /\ j + 1 \in (i + 1)..Len(s) /\ j + 1 \in 0..Len(s)
    BY <1>2
  <2>2. /\ sum[i + 1] <= sum[j + 1]
        /\ sum[i + 1] \in 0..BufferLimit /\ sum[j + 1] \in 0..BufferLimit
    BY <1>1, <2>1
  <2> QED
    BY <1>2, <1>6, <2>2
<1>9. shorter[0] = 0 /\ shorter[Len(r)] = t - Head(s)
  <2>1. shorter[0] = sum[1] - Head(s)
    BY <1>2, <1>6
  <2>2. shorter[Len(r)] = sum[Len(s)] - Head(s)
    <3>1. Len(r) \in 0..Len(r) /\ Len(r) + 1 = Len(s)
      BY <1>2
    <3> QED
      BY <1>6, <3>1
  <2> QED
    BY <1>1, <1>2, <1>3, <2>1, <2>2
<1> QED
  BY <1>5, <1>7, <1>8, <1>9 DEF Rising, r

-----------------------------------------------------------------------------
\* Every state is type correct: a frame is only accepted if the camera may still
\* send it.
LEMMA TypeStep == TypeOK /\ Assembling /\ Drained /\ [Next]_vars => TypeOK'
<1> SUFFICES ASSUME TypeOK, Assembling, Drained, [Next]_vars PROVE TypeOK'
  OBVIOUS
<1> USE FrameAssumption DEF TypeOK, Assembling
<1>1. CASE Header \/ Complete \/ Reserve
  BY <1>1 DEF FrameAssumption, Header, Complete, Reserve, readerVars
<1>2. CASE Deliver \/ Unblock
  <2>1. CASE Enqueue
    <3>1. waitSize > 0
      BY <1>2 DEF Deliver, Unblock
    <3>2. popBuf' \in Seq(Nat) /\ Len(popBuf') <= QueueSize
      BY <2>1 DEF FrameAssumption, Enqueue
    <3> QED
      BY <1>2, <2>1, <3>1, <3>2 DEF FrameAssumption, Deliver, Unblock, Enqueue, readerVars
  <2>2. CASE ~Enqueue
    BY <1>2, <2>2 DEF Deliver, Unblock, readerVars
  <2> QED
    BY <2>1, <2>2
<1>3. CASE GiveUp \/ Undo \/ ReadFails
  BY <1>3 DEF GiveUp, Undo, ReadFails, readerVars
<1>4. CASE WorkerCloses \/ Close
  BY <1>4 DEF WorkerCloses, Close, readerVars, workerVars
<1>5. CASE ChannelClose
  <2>1. popOpen' \in BOOLEAN
    BY <1>5, Zenon DEF ChannelClose
  <2> QED
    BY <1>5, <2>1 DEF ChannelClose, readerVars
<1>6. CASE Receive
  <2>1. Head(popBuf) \in Nat /\ Tail(popBuf) \in Seq(Nat) /\ Len(Tail(popBuf)) = Len(popBuf) - 1
        /\ Len(popBuf) \in Nat \ {0}
    BY <1>6 DEF Receive
  <2> QED
    BY <1>6, <2>1 DEF FrameAssumption, Receive, workerVars, Drained
<1>7. CASE Subtract \/ EndOfQueue
  BY <1>7 DEF Subtract, EndOfQueue, workerVars
<1>8. CASE UNCHANGED vars
  BY <1>8 DEF vars, workerVars, readerVars
<1> QED
  BY <1>1, <1>2, <1>3, <1>4, <1>5, <1>6, <1>7, <1>8
     DEF Next, WorkerRuns, NoticeDone, Stalled, Reader

\* What each step of the worker and the reader takes from one place of the budget
\* it adds to another, or to the counter.
LEMMA ChargeStep == TypeOK /\ Charged /\ Assembling /\ [Next]_vars => Charged'
<1> SUFFICES ASSUME TypeOK, Charged, Assembling, [Next]_vars PROVE Charged'
  OBVIOUS
<1> USE FrameAssumption DEF TypeOK, Charged
<1>1. CASE /\ UNCHANGED popBuf
           /\ buffered' <= buffered
           /\ buffered' - waitSize' - hand' = buffered - waitSize - hand
           /\ buffered' \in Int
  BY <1>1 DEF FrameAssumption
<1>2. CASE Header \/ Complete \/ GiveUp \/ ReadFails \/ WorkerCloses \/ Close \/ EndOfQueue
  BY <1>1, <1>2 DEF Header, Complete, GiveUp, ReadFails, WorkerCloses, Close, EndOfQueue,
                    workerVars, readerVars
<1>3. CASE Reserve
  BY <1>3 DEF FrameAssumption, Reserve, readerVars, Assembling
<1>4. CASE Deliver \/ Unblock
  <2>1. CASE Enqueue
    <3>1. buffered - 0 - hand = (buffered - waitSize - hand) + waitSize
      OBVIOUS
    <3>2. buffered - 0 - hand <= BufferLimit
      BY DEF FrameAssumption
    <3>3. Rising(Append(popBuf, waitSize), (buffered - waitSize - hand) + waitSize)
      BY <3>1, <3>2, RisingAppend
    <3> QED
      BY <1>4, <2>1, <3>1, <3>3 DEF Deliver, Unblock, Enqueue, readerVars
  <2>2. CASE ~Enqueue
    BY <1>4, <2>2 DEF Deliver, Unblock, readerVars
  <2> QED
    BY <2>1, <2>2
<1>5. CASE Undo \/ ChannelClose
  BY <1>1, <1>5 DEF Undo, ChannelClose, readerVars
<1>6. CASE Receive
  <2>1. Rising(Tail(popBuf), (buffered - waitSize - hand) - Head(popBuf))
    BY <1>6, RisingTail DEF Receive
  <2>2. Head(popBuf) \in Nat
    BY <1>6 DEF Receive
  <2>3. (buffered - waitSize - hand) - Head(popBuf) = buffered - waitSize - Head(popBuf)
    BY <1>6, <2>2 DEF Receive
  <2> QED
    BY <1>6, <2>1, <2>3 DEF Receive, workerVars
<1>7. CASE Subtract
  BY <1>1, <1>7 DEF Subtract, workerVars
<1>8. CASE UNCHANGED vars
  BY <1>8 DEF vars, workerVars, readerVars
<1> QED
  BY <1>2, <1>3, <1>4, <1>5, <1>6, <1>7, <1>8
     DEF Next, WorkerRuns, NoticeDone, Stalled, Reader

\* The worker's own steps: it reserves, assembles and closes in this order.
LEMMA WorkerStep ==
    TypeOK /\ Assembling /\ ClosedLast /\ [Next]_vars => Assembling' /\ ClosedLast'
<1> SUFFICES ASSUME TypeOK, Assembling, ClosedLast, [Next]_vars
             PROVE Assembling' /\ ClosedLast'
  OBVIOUS
<1> USE FrameAssumption DEF TypeOK, Assembling, ClosedLast
<1>1. CASE Header \/ Complete \/ Reserve
  BY <1>1 DEF FrameAssumption, Header, Complete, Reserve
<1>2. CASE Deliver \/ Unblock
  BY <1>2 DEF Deliver, Unblock, Enqueue
<1>3. CASE GiveUp \/ Undo \/ ReadFails \/ WorkerCloses \/ ChannelClose
  BY <1>3 DEF GiveUp, Undo, ReadFails, WorkerCloses, ChannelClose
<1>4. CASE Close \/ Receive \/ Subtract \/ EndOfQueue
  BY <1>4 DEF Close, Receive, Subtract, EndOfQueue, workerVars
<1>5. CASE UNCHANGED vars
  BY <1>5 DEF vars, workerVars
<1> QED
  BY <1>1, <1>2, <1>3, <1>4, <1>5 DEF Next, WorkerRuns, NoticeDone, Stalled, Reader

\* Nothing is queued behind the reader's back once the queue is closed.
LEMMA DrainStep == TypeOK /\ ClosedLast /\ Drained /\ [Next]_vars => Drained'
<1> SUFFICES ASSUME TypeOK, ClosedLast, Drained, [Next]_vars PROVE Drained'
  OBVIOUS
<1> USE DEF TypeOK, Drained
<1>1. CASE Header \/ Complete \/ Reserve \/ GiveUp \/ Undo \/ ReadFails \/ WorkerCloses
           \/ ChannelClose \/ Close
  BY <1>1 DEF Header, Complete, Reserve, GiveUp, Undo, ReadFails, WorkerCloses,
              ChannelClose, Close, readerVars, workerVars
<1>2. CASE Deliver \/ Unblock
  <2>1. wpc # "closed"
    BY <1>2 DEF Deliver, Unblock
  <2>2. Len(Append(popBuf, waitSize)) = Len(popBuf) + 1 /\ Len(popBuf) \in Nat
    OBVIOUS
  <2> QED
    BY <1>2, <2>1, <2>2 DEF Deliver, Unblock, Enqueue, readerVars, ClosedLast
<1>3. CASE Receive
  <2>1. Len(Tail(popBuf)) = Len(popBuf) - 1 /\ Len(popBuf) \in Nat
    BY <1>3 DEF Receive
  <2> QED
    BY <1>3, <2>1 DEF Receive, workerVars
<1>4. CASE Subtract \/ EndOfQueue
  BY <1>4 DEF Subtract, EndOfQueue, workerVars
<1>5. CASE UNCHANGED vars
  BY <1>5 DEF vars, workerVars, readerVars
<1> QED
  BY <1>1, <1>2, <1>3, <1>4, <1>5 DEF Next, WorkerRuns, NoticeDone, Stalled, Reader

-----------------------------------------------------------------------------
\* The inductive invariant holds in every state.
LEMMA Invariance == Spec => []IInv
<1>1. Init => IInv
  <2> SUFFICES ASSUME Init PROVE IInv
    OBVIOUS
  <2>1. Rising(popBuf, buffered - waitSize - hand)
    BY FrameAssumption, RisingEmpty DEF Init
  <2> USE FrameAssumption DEF FrameAssumption, Init
  <2>2. popBuf \in Seq(Nat) /\ Len(popBuf) = 0
    OBVIOUS
  <2>3. TypeOK
    <3>1. popOpen \in BOOLEAN /\ done \in BOOLEAN
      BY Zenon
    <3> QED
      BY <2>2, <3>1 DEF TypeOK
  <2>4. Charged
    BY <2>1 DEF Charged
  <2>5. Assembling /\ ClosedLast
    BY DEF Assembling, ClosedLast
  <2>6. Drained
    BY <2>2 DEF Drained
  <2> QED
    BY <2>3, <2>4, <2>5, <2>6 DEF IInv
<1>2. IInv /\ [Next]_vars => IInv'
  BY TypeStep, ChargeStep, WorkerStep, DrainStep DEF IInv
<1> QED
  BY <1>1, <1>2, PTL DEF Spec

\* Every reachable state is type correct; the queue never exceeds its capacity.
THEOREM TypeCorrect == Spec => []TypeOK
<1>1. IInv => TypeOK
  BY DEF IInv
<1> QED
  BY <1>1, Invariance, PTL

\* The byte budget is exact and below its limit at every moment, and when the reader
\* learns of the end it has every frame and nothing is charged any more.
THEOREM BudgetIsKept == Spec => []BudgetKept
<1>1. IInv => BudgetKept
  <2> SUFFICES ASSUME IInv PROVE BudgetKept
    OBVIOUS
  <2>1. BudgetExact
    BY DEF IInv, Charged, Rising, BudgetExact, IsTotal
  <2>2. ASSUME rpc = "ended" PROVE taken = accepted /\ buffered = 0 /\ done
    <3>1. popBuf = <<>> /\ hand = 0 /\ ~popOpen /\ accepted = taken + Len(popBuf)
      BY <2>2 DEF IInv, Drained
    <3>2. done /\ waitSize = 0
      BY <3>1 DEF IInv, ClosedLast
    <3>3. buffered - waitSize - hand = 0
      BY <3>1, EmptyTotal DEF IInv, Charged
    <3> QED
      BY <3>1, <3>2, <3>3 DEF IInv, TypeOK
  <2> QED
    BY <2>1, <2>2 DEF BudgetKept, EndAfterDrain
<1> QED
  BY <1>1, Invariance, PTL

-----------------------------------------------------------------------------
(* Commands over UDP.                                                      *)

\* The command mutex is held from the callback's registration to the return, and
\* nothing is on its way to or from the camera for a command before that.
MutexHeld ==
    /\ \A c \in Commands : pc[c] \in {"write", "wait", "leave"} <=> cmdMu = c
    /\ \A c \in assigned \cup net \cup acks : pc[c] \notin {"idle", "locking"}

\* What the counter says of the attempts: as long as no acknowledgement ran the
\* callback it counts the writes down, and once one did it is zero until the next
\* tick makes it negative.
Counted ==
    \A c \in Commands :
        /\ outcome[c] = "none" <=> pc[c] \notin {"leave", "returned"}
        /\ pc[c] \in {"idle", "locking"} => sends[c] = 0 /\ by[c] = {}
        /\ pc[c] = "write" /\ by[c] = {} => repeat[c] > 0 /\ sends[c] = Attempts - repeat[c]
        /\ pc[c] = "wait" /\ by[c] = {} => repeat[c] > 0 /\ sends[c] = Attempts - repeat[c] + 1
        /\ pc[c] = "write" /\ by[c] # {} => repeat[c] = 0 /\ sends[c] < Attempts
        /\ pc[c] = "wait" /\ by[c] # {} => repeat[c] = 0
        /\ outcome[c] = "unsent" => by[c] = {} /\ sends[c] = Attempts
        /\ outcome[c] = "sent" => by[c] # {}

\* A callback runs for the command of its own call, which the camera has, or for
\* one whose call had returned.
Answered ==
    /\ acks \subseteq received
    /\ \A c \in Commands : \A a \in by[c] :
          IF a = c THEN c \in received ELSE pc[a] = "returned"

CommandInv == CommandTypeOK /\ MutexHeld /\ Counted /\ Answered

USE DEF Goto, TakeMutex, Confirmed

-----------------------------------------------------------------------------
\* Every state is type correct: the counter goes below zero once, and no command
\* is written more often than it may be.
LEMMA CommandTypeStep == CommandTypeOK /\ Counted /\ [CommandNext]_commandVars => CommandTypeOK'
<1> SUFFICES ASSUME CommandTypeOK, Counted, [CommandNext]_commandVars PROVE CommandTypeOK'
  OBVIOUS
<1> USE CommandAssumption DEF CommandTypeOK
<1>1. ASSUME NEW c \in Commands, Call(c) \/ Register(c) PROVE CommandTypeOK'
  BY <1>1 DEF Call, Register, ackVars, netVars
<1>2. ASSUME NEW c \in Commands, Write(c) PROVE CommandTypeOK'
  <2>1. pc[c] = "write" => sends[c] + 1 \in 0..Attempts
    BY DEF Counted
  <2> QED
    BY <1>2, <2>1 DEF Write, ackVars
<1>3. ASSUME NEW c \in Commands, TakeTick(c) PROVE CommandTypeOK'
  <2>1. repeat[c] \in 0..Attempts
    BY <1>3 DEF TakeTick, Decide, Counted
  <2>2. repeat' = [repeat EXCEPT ![c] = repeat[c] - 1] /\ repeat[c] - 1 \in -1..Attempts
    BY <1>3, <2>1 DEF TakeTick
  <2> QED
    BY <1>3, <2>2 DEF TakeTick, Decide, ackVars, netVars
<1>4. ASSUME NEW c \in Commands, Tick(c) \/ Leave(c) PROVE CommandTypeOK'
  BY <1>4 DEF Tick, Leave, callVars, ackVars, netVars
<1>5. ASSUME NEW a \in Commands, HandleAck(a) PROVE CommandTypeOK'
  BY <1>5 DEF HandleAck, callVars
<1>6. ASSUME NEW c \in Commands, CameraGets(c) PROVE CommandTypeOK'
  BY <1>6 DEF CameraGets, callVars, ackVars
<1>7. CASE ResetTicker \/ Lose
  BY <1>7 DEF ResetTicker, Lose, callVars, ackVars, netVars
<1>8. CASE UNCHANGED commandVars
  BY <1>8 DEF commandVars, callVars, ackVars, netVars
<1> QED
  BY <1>1, <1>2, <1>3, <1>4, <1>5, <1>6, <1>7, <1>8 DEF CommandNext, CallStep

\* One call at a time is between its registration and its return.
LEMMA MutexStep == CommandTypeOK /\ MutexHeld /\ [CommandNext]_commandVars => MutexHeld'
<1> SUFFICES ASSUME CommandTypeOK, MutexHeld, [CommandNext]_commandVars PROVE MutexHeld'
  OBVIOUS
<1> USE CommandAssumption DEF CommandTypeOK, MutexHeld
<1>1. ASSUME NEW c \in Commands, Call(c) \/ Register(c) PROVE MutexHeld'
  BY <1>1 DEF Call, Register, netVars
<1>2. ASSUME NEW c \in Commands, Write(c) PROVE MutexHeld'
  BY <1>2 DEF Write
<1>3. ASSUME NEW c \in Commands, TakeTick(c) \/ Tick(c) \/ Leave(c) PROVE MutexHeld'
  BY <1>3 DEF TakeTick, Decide, Tick, Leave, callVars, netVars
<1>4. ASSUME NEW c \in Commands, HandleAck(c) \/ CameraGets(c) PROVE MutexHeld'
  BY <1>4 DEF HandleAck, CameraGets, callVars
<1>5. CASE ResetTicker \/ Lose
  BY <1>5 DEF ResetTicker, Lose, callVars, netVars
<1>6. CASE UNCHANGED commandVars
  BY <1>6 DEF commandVars, callVars, netVars
<1> QED
  BY <1>1, <1>2, <1>3, <1>4, <1>5, <1>6 DEF CommandNext, CallStep

\* A tick takes an attempt; an acknowledgement takes all of them at once, and makes
\* the next tick the last.
LEMMA CountStep == CommandTypeOK /\ MutexHeld /\ Counted /\ [CommandNext]_commandVars => Counted'
<1> SUFFICES ASSUME CommandTypeOK, MutexHeld, Counted, [CommandNext]_commandVars PROVE Counted'
  OBVIOUS
<1> USE CommandAssumption DEF CommandTypeOK, Counted
<1>1. ASSUME NEW c \in Commands, Call(c) \/ Register(c) PROVE Counted'
  BY <1>1 DEF Call, Register, ackVars
<1>2. ASSUME NEW c \in Commands, Write(c) PROVE Counted'
  BY <1>2 DEF Write, ackVars
<1>3. ASSUME NEW c \in Commands, TakeTick(c) PROVE Counted'
  <2>1. repeat' = [repeat EXCEPT ![c] = repeat[c] - 1]
    BY <1>3 DEF TakeTick
  <2>2. repeat'[c] = repeat[c] - 1 /\ \A d \in Commands \ {c} : repeat'[d] = repeat[d]
    BY <2>1
  <2> QED
    BY <1>3, <2>2 DEF TakeTick, Decide, ackVars
<1>4. ASSUME NEW c \in Commands, Tick(c) \/ Leave(c) \/ CameraGets(c) PROVE Counted'
  BY <1>4 DEF Tick, Leave, CameraGets, callVars, ackVars
<1>5. ASSUME NEW a \in Commands, HandleAck(a) PROVE Counted'
  <2>1. PICK k \in assigned :
           /\ repeat' = [repeat EXCEPT ![k] = 0]
           /\ by' = IF outcome[k] = "none" THEN [by EXCEPT ![k] = @ \cup {a}] ELSE by
    BY <1>5 DEF HandleAck
  <2>2. pc[k] \notin {"idle", "locking"} /\ k \in Commands
    BY DEF MutexHeld
  <2>3. \A c \in Commands \ {k} : repeat'[c] = repeat[c] /\ by'[c] = by[c]
    BY <2>1
  <2>4. repeat'[k] = 0 /\ (outcome[k] = "none" => by'[k] # {})
                       /\ (outcome[k] # "none" => by'[k] = by[k])
    BY <2>1, <2>2
  <2>5. UNCHANGED <<pc, sends, outcome>>
    BY <1>5 DEF HandleAck, callVars
  <2>6. pc[k] = "write" => sends[k] < Attempts
    OBVIOUS
  <2> QED
    BY <2>2, <2>3, <2>4, <2>5, <2>6
<1>6. CASE ResetTicker \/ Lose
  BY <1>6 DEF ResetTicker, Lose, callVars, ackVars
<1>7. CASE UNCHANGED commandVars
  BY <1>7 DEF commandVars, callVars, ackVars
<1> QED
  BY <1>1, <1>2, <1>3, <1>4, <1>5, <1>6, <1>7 DEF CommandNext, CallStep

\* The mutex excludes the acknowledgement of a concurrent call: what runs a callback
\* before its call has decided is for its own command or for a call that is over.
LEMMA AnswerStep ==
    CommandTypeOK /\ MutexHeld /\ Counted /\ Answered /\ [CommandNext]_commandVars => Answered'
<1> SUFFICES ASSUME CommandTypeOK, MutexHeld, Counted, Answered, [CommandNext]_commandVars
             PROVE  Answered'
  OBVIOUS
<1> USE CommandAssumption DEF CommandTypeOK, Answered
<1>1. ASSUME NEW c \in Commands, Call(c) \/ Register(c) PROVE Answered'
  BY <1>1 DEF Call, Register, ackVars, netVars
<1>2. ASSUME NEW c \in Commands, Write(c) PROVE Answered'
  BY <1>2 DEF Write, ackVars
<1>3. ASSUME NEW c \in Commands, TakeTick(c) \/ Tick(c) \/ Leave(c) PROVE Answered'
  BY <1>3 DEF TakeTick, Decide, Tick, Leave, callVars, ackVars, netVars
<1>4. ASSUME NEW c \in Commands, CameraGets(c) PROVE Answered'
  BY <1>4 DEF CameraGets, callVars, ackVars
<1>5. ASSUME NEW a \in Commands, HandleAck(a) PROVE Answered'
  <2>1. PICK k \in assigned :
           by' = IF outcome[k] = "none" THEN [by EXCEPT ![k] = @ \cup {a}] ELSE by
    BY <1>5 DEF HandleAck
  <2>2. a \in received /\ pc[a] \notin {"idle", "locking"}
    BY <1>5 DEF HandleAck, MutexHeld
  <2>3. outcome[k] = "none" /\ a # k => pc[a] = "returned"
    BY <2>2 DEF MutexHeld, Counted
  <2>4. \A c \in Commands :
           by'[c] \subseteq by[c] \cup (IF c = k /\ outcome[k] = "none" THEN {a} ELSE {})
    BY <2>1
  <2> QED
    BY <1>5, <2>2, <2>3, <2>4 DEF HandleAck, callVars
<1>6. CASE ResetTicker \/ Lose
  BY <1>6 DEF ResetTicker, Lose, callVars, ackVars, netVars
<1>7. CASE UNCHANGED commandVars
  BY <1>7 DEF commandVars, callVars, ackVars, netVars
<1> QED
  BY <1>1, <1>2, <1>3, <1>4, <1>5, <1>6, <1>7 DEF CommandNext, CallStep

-----------------------------------------------------------------------------
\* The inductive invariant holds in every state.
LEMMA CommandInvariance == CommandSpec => []CommandInv
<1>1. CommandInit => CommandInv
  BY CommandAssumption DEF CommandInit, CommandInv, CommandTypeOK, MutexHeld, Counted, Answered
<1>2. CommandInv /\ [CommandNext]_commandVars => CommandInv'
  BY CommandTypeStep, MutexStep, CountStep, AnswerStep DEF CommandInv
<1> QED
  BY <1>1, <1>2, PTL DEF CommandSpec

\* Every reachable state is type correct, for any commands and attempts.
THEOREM CommandTypeCorrect == CommandSpec => []CommandTypeOK
<1>1. CommandInv => CommandTypeOK
  BY DEF CommandInv
<1> QED
  BY <1>1, CommandInvariance, PTL

\* No acknowledgement costs a command an attempt, and none that came in time is
\* answered by "can't send command".
THEOREM EveryAttemptIsMade == CommandSpec => []AttemptsRespected
<1>1. CommandInv => AttemptsRespected
  BY DEF CommandInv, CommandTypeOK, Counted, AttemptsRespected, AttemptsKept, ConfirmedIsSent
<1> QED
  BY <1>1, CommandInvariance, PTL

\* A command that is reported as sent was received, or a call that was over confirmed it.
THEOREM SentWasReceived == CommandSpec => []SentIsReceived
<1>1. CommandInv => SentIsReceived
  BY DEF CommandInv, CommandTypeOK, Counted, Answered, SentIsReceived
<1> QED
  BY <1>1, CommandInvariance, PTL
=============================================================================
