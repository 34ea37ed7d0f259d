------------------------------- MODULE TutkMedia -------------------------------
(***************************************************************************)
(* How the TUTK transports put media frames together from UDP packets      *)
(* (src/pkg/tutk): Session16 follows frame and chunk numbers, Session25    *)
(* puts the packets in order first (ReorderBuffer), FrameHandler assembles *)
(* each video channel of a DTLS connection by itself and keeps the media   *)
(* clocks.  One of the three runs, over a network that loses, reorders and *)
(* repeats packets (DTLS drops the repeated ones), with a reader that      *)
(* takes what is handed on when it likes.                                  *)
(*                                                                         *)
(* The camera's packets are numbered 1, 2, ... through all its frames.     *)
(***************************************************************************)
EXTENDS Integers, Sequences, FiniteSets, FiniteSetsExt

CONSTANTS
    First,         \* first packet of each frame, and of the one after all (a bound, too)
    ChannelOf,     \* channel of each frame: "I", "P" (video) or "A" (audio)
    SeqSpace,      \* number of packet sequence numbers (2^16)
    BufferSize,    \* size of the reorder buffer (5)
    QueueSize,     \* frames the reader may leave waiting (100, 128)
    Step, Wrap,    \* camera clock: time between frames; where it wraps (1 s)
    Displacement,  \* bound: how far a packet overtakes the oldest one in flight
    MaxLost,       \* bound: packets lost
    MaxDups        \* bound: packets repeated

Frames      == 1..(Len(First) - 1)
FrameSizes  == [k \in Frames |-> First[k + 1] - First[k]]
Packets     == 1..(First[Len(First)] - 1)
Frame(p)    == CHOOSE k \in Frames : First[k] <= p /\ p < First[k + 1]
Chunk(p)    == p - First[Frame(p)]
IsLast(p)   == Chunk(p) = FrameSizes[Frame(p)] - 1
SeqOf(p)    == (p - 1) % SeqSpace
Channel(p)  == ChannelOf[Frame(p)]

ASSUME MediaAssumption ==
    /\ First \in Seq(Nat) /\ Len(First) > 0 /\ First[1] = 1
    /\ \A j, k \in DOMAIN First : j < k => First[j] < First[k]
    /\ ChannelOf \in [Frames -> {"I", "P", "A"}]
    /\ \A k \in Frames : ChannelOf[k] = "A" => FrameSizes[k] = 1
    /\ {SeqSpace, BufferSize, QueueSize, Step, Wrap} \subseteq Nat \ {0}
    /\ Step < Wrap /\ {Displacement, MaxLost, MaxDups} \subseteq Nat

VARIABLES
    kind,       \* which of the three puts the frames together
    \* --- the network ---
    arrived, lost, dups,
    late,       \* history: a packet came after BufferSize or more later ones
    \* --- Session16, Session25 ---
    waitFSeq, waitCSeq, waitData,
    \* --- Session25: the reorder buffer and the loop that empties it ---
    buf,        \* sequence number -> packet
    seq,        \* the sequence number it waits for
    loop,       \* "idle", or the result of the last chunk of the running loop
    flooded,    \* history: packets of the past filled the buffer
    \* --- FrameHandler ---
    chan,       \* video channel -> the frame it assembles
    clock,      \* media -> tsTracker
    \* --- what is handed on ---
    out,        \* every frame handed on: its packets and its time
    waiting,    \* which of them the reader has not taken yet (indices, in order)
    dropped,    \* frames that found the queue full
    closed      \* the worker gave up, or the connection was closed

netVars  == <<arrived, lost, dups, late>>
waitVars == <<waitFSeq, waitCSeq, waitData>>
bufVars  == <<buf, seq, loop, flooded>>
dtlsVars == <<chan, clock>>
outVars  == <<out, waiting, dropped>>
vars     == <<kind, netVars, waitVars, bufVars, dtlsVars, outVars, closed>>

Idle      == [frameNo |-> 0, pktTotal |-> 0, waitSeq |-> 0, data |-> <<>>, info |-> FALSE]
NewClock  == [first |-> FALSE, last |-> 0, accum |-> 0]
Results   == {"chunk", "frame", "reorder", "lost", "error"}

TypeOK ==
    /\ kind \in {"session16", "session25", "frames"}
    /\ arrived \subseteq Packets /\ lost \subseteq Packets \ arrived
    /\ dups \in 0..MaxDups /\ late \in BOOLEAN
    /\ waitFSeq \in {0} \cup Frames /\ waitCSeq \in Nat
    /\ waitData \in Seq(Packets)
    /\ DOMAIN buf \subseteq 0..(SeqSpace - 1) /\ Cardinality(DOMAIN buf) <= BufferSize
    /\ buf \in [DOMAIN buf -> Packets] /\ \A s \in DOMAIN buf : SeqOf(buf[s]) = s
    /\ seq \in 0..(SeqSpace - 1)
    /\ loop \in {"idle"} \cup Results /\ flooded \in BOOLEAN
    /\ chan \in [{"I", "P"} -> [frameNo : {0} \cup Frames, pktTotal : Nat, waitSeq : Nat,
                               data : Seq(Packets), info : BOOLEAN]]
    /\ clock \in [{"video", "audio"} -> [first : BOOLEAN, last : 0..(Wrap - 1), accum : Nat]]
    /\ out \in Seq([data : Seq(Packets), time : Nat])
    /\ waiting \in Seq(DOMAIN out) /\ Len(waiting) <= QueueSize
    /\ dropped \in Nat /\ closed \in BOOLEAN

Init ==
    /\ kind \in {"session16", "session25", "frames"}
    /\ arrived = {} /\ lost = {} /\ dups = 0 /\ late = FALSE
    /\ waitFSeq = 0 /\ waitCSeq = 0 /\ waitData = <<>>
    /\ buf = [s \in {} |-> 0] /\ seq = 0 /\ loop = "idle" /\ flooded = FALSE
    /\ chan = [c \in {"I", "P"} |-> Idle]
    /\ clock = [m \in {"video", "audio"} |-> NewClock]
    /\ out = <<>> /\ waiting = <<>> /\ dropped = 0 /\ closed = FALSE

-----------------------------------------------------------------------------
(* Handing a frame on.                                                     *)

Item(data, time) == [data |-> data, time |-> time]

\* Sessions: rawPkt, or msgError when it is full.
Hand(data) ==
    \/ /\ Len(waiting) < QueueSize
       /\ out' = Append(out, Item(data, 0))
       /\ waiting' = Append(waiting, Len(out) + 1)
       /\ UNCHANGED dropped
    \/ /\ Len(waiting) = QueueSize
       /\ dropped' = dropped + 1 /\ UNCHANGED <<out, waiting>>

HandResult == IF Len(waiting) < QueueSize THEN "frame" ELSE "error"

\* FrameHandler.queue: a full queue loses its oldest frame.
Queue(data, time) ==
    /\ out' = Append(out, Item(data, time))
    /\ waiting' = (IF Len(waiting) < QueueSize THEN waiting ELSE Tail(waiting))
                     \o <<Len(out) + 1>>
    /\ dropped' = IF Len(waiting) < QueueSize THEN dropped ELSE dropped + 1

-----------------------------------------------------------------------------
(* Session16.SessionRead.                                                  *)

\* Mutant: only the chunk number is compared.
Follows16_ChunkOnly(p) == Chunk(p) = waitCSeq
Follows16(p)           == Frame(p) = waitFSeq /\ Chunk(p) = waitCSeq

Start16(p) == Chunk(p) = 0

Read16(p) ==
    LET first == Start16(p)
        data  == IF first THEN <<p>> ELSE Append(waitData, p)
        frame == IF first THEN Frame(p) ELSE waitFSeq
        next  == IF first THEN 1 ELSE waitCSeq + 1
    IN  \/ /\ ~first /\ ~Follows16(p)
           /\ waitCSeq' = 0
           /\ UNCHANGED <<waitFSeq, waitData, outVars, closed>>
        \/ /\ first \/ Follows16(p)
           /\ waitFSeq' = frame /\ waitData' = data
           /\ \/ /\ Len(data) < FrameSizes[frame]
                 /\ waitCSeq' = next /\ UNCHANGED <<outVars, closed>>
              \/ /\ Len(data) >= FrameSizes[frame]
                 /\ waitCSeq' = 0 /\ Hand(data)
                 /\ closed' = (HandResult = "error")

Receive16(p) ==
    /\ kind = "session16" /\ Read16(p)
    /\ UNCHANGED <<bufVars, dtlsVars>>

-----------------------------------------------------------------------------
(* Session25: handleChunk, the reorder buffer, the loop of SessionRead.    *)

Follows25(p) == SeqOf(p) = waitCSeq

\* A chunk whose turn has come.
HandleChunk(p) ==
    LET first == Chunk(p) = 0
        at    == IF first THEN SeqOf(p) ELSE waitCSeq
    IN  \/ /\ ~first /\ ~Follows25(p)
           /\ loop' = "lost" /\ UNCHANGED <<waitCSeq, waitData, outVars>>
        \/ /\ first \/ Follows25(p)
           /\ waitData' = IF first THEN <<p>> ELSE Append(waitData, p)
           /\ \/ /\ ~IsLast(p)
                 /\ waitCSeq' = (at + 1) % SeqSpace
                 /\ loop' = "chunk" /\ UNCHANGED outVars
              \/ /\ IsLast(p)
                 /\ waitCSeq' = at
                 /\ Hand(waitData') /\ loop' = HandResult

\* ReorderBuffer.Check, .Push, .Available
Check(p) == seq = SeqOf(p)

Push(p) == buf' = [s \in DOMAIN buf \cup {SeqOf(p)} |->
                     IF s = SeqOf(p) THEN p ELSE buf[s]]

Room_Always   == TRUE                                        \* mutants
Room_OffByOne == Cardinality(DOMAIN buf) < BufferSize - 1
Room          == Cardinality(DOMAIN buf) < BufferSize

\* A packet of the past: its turn is over.
Past(p) == seq > SeqOf(p)

Receive25(p) ==
    /\ kind = "session25"
    /\ \/ /\ Check(p)
          /\ seq' = (seq + 1) % SeqSpace
          /\ HandleChunk(p) /\ UNCHANGED <<buf, flooded>>
       \/ /\ ~Check(p)
          /\ Push(p) /\ loop' = "reorder"
          /\ flooded' = (flooded \/ BufferSize <= Cardinality(
                           {q \in {buf[s] : s \in DOMAIN buf} \cup {p} : Past(q)}))
          /\ UNCHANGED <<seq, waitCSeq, waitData, outVars>>
    /\ UNCHANGED <<waitFSeq, dtlsVars, closed>>

\* Pop: the packet whose turn it is or, if the buffer is full, the next one there.
Next25 == CHOOSE s \in DOMAIN buf :
             \A t \in DOMAIN buf : (s - seq) % SeqSpace <= (t - seq) % SeqSpace

Pop ==
    /\ loop # "idle" /\ ~closed
    /\ seq \in DOMAIN buf \/ ~Room
    /\ LET s == Next25
       IN  /\ buf' = [t \in DOMAIN buf \ {s} |-> buf[t]]
           /\ seq' = (s + 1) % SeqSpace
           /\ HandleChunk(buf[s])
    /\ UNCHANGED <<kind, netVars, waitFSeq, flooded, dtlsVars, closed>>

\* Nothing to pop: the worker learns the result of the last chunk only.
Popped ==
    /\ loop # "idle" /\ ~closed
    /\ seq \notin DOMAIN buf /\ Room
    /\ loop' = "idle" /\ closed' = (loop = "error")
    /\ UNCHANGED <<kind, netVars, waitVars, buf, seq, flooded, dtlsVars, outVars>>

-----------------------------------------------------------------------------
(* FrameHandler.Handle and tsTracker.update.                               *)

RawTS(k) == (k * Step) % Wrap

\* Mutant: a clock that wrapped counts from zero.
Elapsed_NoWrap(last, raw) == IF raw >= last THEN raw - last ELSE raw
Elapsed(last, raw)        == IF raw >= last THEN raw - last ELSE (Wrap - last) + raw

Update(t, raw) ==
    [first |-> TRUE, last |-> raw,
     accum |-> IF t.first THEN t.accum + Elapsed(t.last, raw) ELSE 0]

Complete(c) == c.waitSeq = c.pktTotal /\ c.info

HandleVideo(p) ==
    LET ch   == Channel(p)
        old  == chan[ch]
        cs   == IF Frame(p) = old.frameNo THEN old
                ELSE [Idle EXCEPT !.frameNo = Frame(p), !.pktTotal = FrameSizes[Frame(p)]]
        more == [cs EXCEPT !.data = Append(@, p), !.waitSeq = @ + 1, !.info = @ \/ IsLast(p)]
        time == Update(clock["video"], RawTS(Frame(p)))
    IN  /\ Channel(p) \in {"I", "P"}
        /\ \/ /\ Chunk(p) # cs.waitSeq
              /\ chan' = [chan EXCEPT ![ch] = Idle] /\ UNCHANGED <<clock, outVars>>
           \/ /\ Chunk(p) = cs.waitSeq /\ ~Complete(more)
              /\ chan' = [chan EXCEPT ![ch] = more] /\ UNCHANGED <<clock, outVars>>
           \/ /\ Chunk(p) = cs.waitSeq /\ Complete(more)
              /\ chan' = [chan EXCEPT ![ch] = Idle]
              /\ clock' = [clock EXCEPT !["video"] = time]
              /\ Queue(more.data, time.accum)

HandleAudio(p) ==
    LET time == Update(clock["audio"], RawTS(Frame(p)))
    IN  /\ Channel(p) = "A"
        /\ clock' = [clock EXCEPT !["audio"] = time]
        /\ Queue(<<p>>, time.accum) /\ UNCHANGED chan

Handle(p) ==
    /\ kind = "frames" /\ (HandleVideo(p) \/ HandleAudio(p))
    /\ UNCHANGED <<waitVars, bufVars, closed>>

-----------------------------------------------------------------------------
(* The network, the reader, the end of the connection.                     *)

InFlight == Packets \ (arrived \cup lost)

Take(p) == ~closed /\ loop = "idle" /\ (Receive16(p) \/ Receive25(p) \/ Handle(p))

Arrive(p) ==
    /\ p \in InFlight /\ p <= Min(InFlight) + Displacement
    /\ arrived' = arrived \cup {p}
    /\ late' = (late \/ Cardinality({q \in arrived : q > p}) >= BufferSize)
    /\ UNCHANGED <<kind, lost, dups>> /\ Take(p)

\* A packet arrives again; DTLS lets none through twice.
Repeat(p) ==
    /\ p \in arrived /\ dups < MaxDups /\ kind # "frames"
    /\ dups' = dups + 1
    /\ UNCHANGED <<kind, arrived, lost, late>> /\ Take(p)

Lose(p) ==
    /\ p \in InFlight /\ Cardinality(lost) < MaxLost
    /\ lost' = lost \cup {p}
    /\ UNCHANGED <<kind, arrived, dups, late, waitVars, bufVars, dtlsVars, outVars, closed>>

\* RecvFrameData, or the receiver of FrameHandler.Recv.
ReadPacket ==
    /\ waiting # <<>> /\ waiting' = Tail(waiting)
    /\ UNCHANGED <<kind, netVars, waitVars, bufVars, dtlsVars, out, dropped, closed>>

\* The connection is closed; a frame that is complete then is not queued.
Close ==
    /\ ~closed /\ loop = "idle" /\ closed' = TRUE
    /\ UNCHANGED <<kind, netVars, waitVars, bufVars, dtlsVars, outVars>>

Next ==
    \/ \E p \in Packets : Arrive(p) \/ Repeat(p) \/ Lose(p)
    \/ Pop \/ Popped \/ ReadPacket \/ Close

Spec == Init /\ [][Next]_vars
=============================================================================
