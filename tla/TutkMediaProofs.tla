--------------------------- MODULE TutkMediaProofs ---------------------------
(***************************************************************************)
(* Proofs of what the readers of a TUTK connection rely on (TutkMedia,     *)
(* TutkMediaProps), for any frames of the camera, buffer, queue and clock. *)
(***************************************************************************)
EXTENDS TutkMediaProps, FiniteSetTheorems, SequenceTheorems, TLAPS

\* No sequence number is used twice.  (A packet that stays in the reorder buffer
\* is replayed when its number comes round.)
OneRound == Packets \subseteq 1..(SeqSpace - 1)

\* While nothing is being handled the reorder buffer has a free slot and not the
\* packet it waits for, and a connection is closed only then.
AtRest ==
    /\ loop = "idle" => Cardinality(DOMAIN buf) < BufferSize /\ seq \notin DOMAIN buf
    /\ closed => loop = "idle"

\* d is the beginning of frame k.
Piece(d, k) ==
    /\ k \in Frames /\ Len(d) <= FrameSizes[k]
    /\ \A i \in 1..Len(d) : d[i] = First[k] + i - 1

IsWhole(item) == \E k \in Frames : item.data = WholeFrame(k)

\* What Session16 and the channels of FrameHandler have put together.
Assembling ==
    /\ kind = "session16" /\ waitCSeq > 0 =>
           Len(waitData) = waitCSeq /\ Piece(waitData, waitFSeq)
    /\ \A c \in {"I", "P"} :
           /\ chan[c].waitSeq = Len(chan[c].data)
           /\ \/ chan[c].frameNo = 0 /\ chan[c].waitSeq = 0
              \/ Piece(chan[c].data, chan[c].frameNo)
                 /\ chan[c].pktTotal = FrameSizes[chan[c].frameNo]
    /\ kind # "session25" => loop = "idle" /\ \A i \in DOMAIN out : IsWhole(out[i])

Buffered == {buf[s] : s \in DOMAIN buf}

\* Session25, until packets of the past fill the buffer: seq is the last packet whose
\* turn has been, everything handed on is behind it, and waitCSeq is never beyond it;
\* only if it is there is a frame that goes on.
InSequence ==
    /\ seq \in {0} \cup Packets
    /\ kind = "session25" /\ ~flooded =>
        /\ Cardinality({q \in Buffered : Past(q)}) < BufferSize
        /\ waitCSeq <= seq
        /\ waitCSeq = seq /\ seq > 0 =>
               Piece(waitData, Frame(seq)) /\ Len(waitData) = Chunk(seq) + 1 /\ ~IsLast(seq)
        /\ \A i \in DOMAIN out : IsWhole(out[i]) /\ First[FrameOf(out[i]) + 1] - 1 <= seq
        /\ InOrder

HandedOn(k) == \E i \in DOMAIN out : FrameOf(out[i]) = k

\* No packet overtakes another one by a whole round of sequence numbers.
Roomy == OneRound \/ Displacement < SeqSpace

\* Whole frames that end with packet t or before, in order.
HandedUpTo(t) ==
    /\ \A i \in DOMAIN out : IsWhole(out[i]) /\ First[FrameOf(out[i]) + 1] - 1 <= t
    /\ \A i, j \in DOMAIN out : i < j => FrameOf(out[i]) < FrameOf(out[j])

\* Session25 after t packets of which it has skipped none, in whatever round of the
\* sequence numbers: the buffer holds what has arrived since.
InTurn(t) ==
    /\ t \in {0} \cup Packets /\ seq = t % SeqSpace /\ 1..t \subseteq arrived
    /\ Buffered = {p \in arrived : p > t} /\ \A q \in Buffered : q <= t + SeqSpace
    /\ t > 0 => \/ IsLast(t)
                \/ waitCSeq = seq /\ Piece(waitData, Frame(t)) /\ Len(waitData) = Chunk(t) + 1
    /\ HandedUpTo(t)
    /\ dropped = 0 => \A k \in Frames : First[k + 1] - 1 <= t => HandedOn(k)

\* It has skipped something: then a packet is missing that will come late.
Skipped ==
    \E g \in Packets \ arrived :
        /\ Cardinality({q \in arrived : q > g}) >= BufferSize
        /\ dropped = 0 => \A k \in Frames : First[k + 1] - 1 < g => HandedOn(k)

Punctual == kind = "session25" /\ lost = {} /\ dups = 0 /\ ~late
Kept     == Punctual => (\E t : InTurn(t)) \/ Skipped

\* No packet is lost or repeated, or as many later ones have overtaken it as the buffer
\* holds.
InTime ==
    /\ Punctual
    /\ \A g \in InFlight : Cardinality({q \in arrived : q > g}) < BufferSize

\* The frames handed on for video, or for audio.
Items(m) == {i \in DOMAIN out : Video(out[i]) <=> m = "video"}

\* A clock knows the last frame that was handed on for its media.
ClockOfLast ==
    kind = "frames" =>
        \A m \in {"video", "audio"} :
            IF clock[m].first
            THEN \E i \in Items(m) :
                    /\ \A j \in Items(m) : j <= i
                    /\ clock[m].last = RawTS(FrameOf(out[i])) /\ clock[m].accum = out[i].time
            ELSE Items(m) = {}

FrameInv == TypeOK /\ AtRest /\ Assembling
SequenceInv == FrameInv /\ InSequence
ClockInv == FrameInv /\ ClockOfLast /\ ClockAgrees

-----------------------------------------------------------------------------
(* Remainders; the least and the greatest of a set of numbers.             *)

LEMMA DivMod ==
    ASSUME NEW N \in Nat, N > 0, NEW a \in Int
    PROVE  a % N \in 0..(N - 1) /\ a \div N \in Int /\ a = N * (a \div N) + (a % N)
<1>1. a = N * (a \div N) + (a % N)
  BY SMT
<1>2. a % N \in 0..(N - 1) /\ a \div N \in Int
  BY SMT
<1> QED
  BY <1>1, <1>2

\* Multiples of N that differ by less than N are the same.
LEMMA SameMultiple ==
    ASSUME NEW N \in Nat, N > 0, NEW p \in Int, NEW q \in Int,
           N * p - N * q < N, N * q - N * p < N
    PROVE  p = q
<1>1. N * p - N * q = N * (p - q) /\ N * q - N * p = N * (q - p)
  OBVIOUS
<1>2. ASSUME NEW d \in Int, d >= 1 PROVE N * d >= N
  BY <1>2
<1>3. ~(p - q >= 1)
  BY <1>1, <1>2
<1>4. ~(q - p >= 1)
  BY <1>1, <1>2
<1> QED
  BY <1>3, <1>4

\* The remainder is the only number below N that is left of a after multiples of N.
LEMMA ModUnique ==
    ASSUME NEW N \in Nat, N > 0, NEW a \in Int, NEW q \in Int, NEW r \in 0..(N - 1),
           a = N * q + r
    PROVE  a % N = r
<1> DEFINE p == a \div N
           m == a % N
<1>1. m \in 0..(N - 1) /\ p \in Int /\ a = N * p + m
  BY DivMod
<1> HIDE DEF p, m
<1>2. N * p \in Int /\ N * q \in Int
  BY <1>1
<1>3. N * p - N * q < N /\ N * q - N * p < N
  BY <1>1, <1>2
<1>4. p = q
  BY <1>1, <1>3, SameMultiple
<1>5. m = r
  BY <1>1, <1>2, <1>4
<1> QED
  BY <1>5 DEF m

LEMMA LeastNat ==
    ASSUME NEW S \in SUBSET Nat, S # {}
    PROVE  \E x \in S : \A y \in S : x <= y
<1> DEFINE R == OpToRel(<, Nat)
<1>1. PICK x \in S : \A y \in S : ~ (<<y, x>> \in R)
  <2>1. IsWellFoundedOn(R, Nat)
    BY NatLessThanWellFounded
  <2> HIDE DEF R
  <2> QED
    BY <2>1, WFMin
<1>2. \A y \in S : ~(y < x)
  BY <1>1 DEF OpToRel
<1> QED
  BY <1>2

LEMMA MinIsLeast ==
    ASSUME NEW S \in SUBSET Nat, S # {}
    PROVE  Min(S) \in S /\ \A y \in S : Min(S) <= y
BY LeastNat DEF Min

LEMMA MaxIsGreatest ==
    ASSUME NEW b \in Nat, NEW S \in SUBSET (0..b), S # {}
    PROVE  Max(S) \in S /\ \A y \in S : Max(S) >= y
<1> DEFINE T == {b - x : x \in S}
<1>1. T \in SUBSET Nat /\ T # {}
  <2>1. \A x \in S : b - x \in Nat
    OBVIOUS
  <2>2. PICK x \in S : TRUE
    OBVIOUS
  <2>3. b - x \in T
    BY <2>2
  <2> QED
    BY <2>1, <2>3
<1>2. PICK t \in T : \A y \in T : t <= y
  <2> HIDE DEF T
  <2> QED
    BY <1>1, LeastNat
<1>3. PICK x \in S : t = b - x
  BY <1>2
<1>4. \A y \in S : x >= y
  <2> SUFFICES ASSUME NEW y \in S PROVE x >= y
    OBVIOUS
  <2>1. b - x <= b - y
    BY <1>2, <1>3
  <2> QED
    BY <2>1
<1> QED
  BY <1>4 DEF Max

-----------------------------------------------------------------------------
(* Frames and packets.                                                     *)

LEMMA Constants ==
    /\ Len(First) \in Nat \ {0} /\ First \in [1..Len(First) -> Nat] /\ First[1] = 1
    /\ \A j, k \in 1..Len(First) : j < k => First[j] < First[k]
    /\ SeqSpace \in Nat \ {0} /\ BufferSize \in Nat \ {0} /\ QueueSize \in Nat \ {0}
    /\ Step \in Nat \ {0} /\ Wrap \in Nat \ {0} /\ MaxDups \in Nat
    /\ ChannelOf \in [Frames -> {"I", "P", "A"}]
BY MediaAssumption DEF MediaAssumption

\* A frame's packets are numbered from its first one up to the next frame's.
LEMMA FrameFacts ==
    ASSUME NEW k \in Frames
    PROVE  /\ k \in Nat /\ k \in 1..Len(First) /\ k + 1 \in 1..Len(First)
           /\ First[k] \in Nat \ {0} /\ First[k + 1] \in Nat /\ First[k] < First[k + 1]
           /\ FrameSizes[k] = First[k + 1] - First[k] /\ FrameSizes[k] \in Nat \ {0}
           /\ First[k + 1] <= First[Len(First)]
<1>1. k \in Nat /\ k \in 1..Len(First) /\ k + 1 \in 1..Len(First) /\ k < k + 1
  BY Constants DEF Frames
<1>2. First[k] \in Nat /\ First[k + 1] \in Nat /\ First[k] < First[k + 1]
  BY <1>1, Constants
<1>3. First[k] # 0
  <2>1. CASE k = 1
    BY <2>1, Constants
  <2>2. CASE 1 < k
    <3>1. First[1] < First[k]
      BY <1>1, <2>2, Constants
    <3> QED
      BY <1>2, <3>1, Constants
  <2> QED
    BY <1>1, <2>1, <2>2
<1>4. FrameSizes[k] = First[k + 1] - First[k]
  BY DEF FrameSizes
<1>5. First[k + 1] <= First[Len(First)]
  <2>1. CASE k + 1 = Len(First)
    BY <1>2, <2>1
  <2>2. CASE k + 1 < Len(First)
    <3>1. First[k + 1] < First[Len(First)] /\ First[Len(First)] \in Nat
      BY <1>1, <2>2, Constants
    <3> QED
      BY <1>2, <3>1
  <2>3. Len(First) \in Nat /\ k + 1 <= Len(First)
    BY <1>1, Constants
  <2> QED
    BY <1>1, <2>1, <2>2, <2>3
<1> QED
  BY <1>1, <1>2, <1>3, <1>4, <1>5

\* Frames do not overlap.
LEMMA FramesApart ==
    ASSUME NEW j \in Frames, NEW k \in Frames, j < k
    PROVE  First[j + 1] <= First[k]
<1>1. /\ j \in Nat /\ k \in Nat /\ j + 1 \in 1..Len(First) /\ k \in 1..Len(First)
      /\ First[j + 1] \in Nat /\ First[k] \in Nat
  BY FrameFacts
<1>2. CASE j + 1 = k
  BY <1>1, <1>2
<1>3. CASE j + 1 < k
  <2>1. First[j + 1] < First[k]
    BY <1>1, <1>3, Constants
  <2> QED
    BY <1>1, <2>1
<1> QED
  BY <1>1, <1>2, <1>3

\* Every packet belongs to a frame: the one before the first that begins behind it.
LEMMA PacketFacts ==
    ASSUME NEW p \in Packets
    PROVE  /\ p \in Nat \ {0} /\ Frame(p) \in Frames
           /\ First[Frame(p)] <= p /\ p < First[Frame(p) + 1]
           /\ Chunk(p) = p - First[Frame(p)] /\ Chunk(p) \in 0..(FrameSizes[Frame(p)] - 1)
<1> DEFINE S == {k \in 1..Len(First) : First[k] > p}
<1>1. p \in Nat \ {0} /\ First[Len(First)] > p /\ Len(First) \in 1..Len(First)
  BY Constants DEF Packets
<1>2. S \in SUBSET Nat /\ S # {}
  BY <1>1
<1>3. PICK n \in S : \A k \in S : n <= k
  <2> HIDE DEF S
  <2> QED
    BY <1>2, LeastNat
<1>4. n \in 1..Len(First) /\ First[n] > p /\ n # 1 /\ n \in Nat
  BY <1>1, <1>3, Constants
<1>5. n - 1 \in Frames /\ n - 1 \in 1..Len(First) /\ n - 1 \notin S /\ (n - 1) + 1 = n
  <2>1. n - 1 \in 1..(Len(First) - 1) /\ n - 1 \in 1..Len(First) /\ (n - 1) + 1 = n
    BY <1>4, Constants
  <2>2. n - 1 \notin S
    <3> SUFFICES ASSUME n - 1 \in S PROVE FALSE
      OBVIOUS
    <3>1. n <= n - 1
      BY <1>3
    <3> QED
      BY <1>4, <3>1
  <2> QED
    BY <2>1, <2>2 DEF Frames
<1>6. First[n - 1] <= p
  BY <1>1, <1>5, Constants
<1>7. \E k \in Frames : First[k] <= p /\ p < First[k + 1]
  BY <1>1, <1>4, <1>5, <1>6, Constants
<1>8. Frame(p) \in Frames /\ First[Frame(p)] <= p /\ p < First[Frame(p) + 1]
  BY <1>7 DEF Frame
<1> HIDE DEF S
<1>9. Chunk(p) = p - First[Frame(p)]
  BY DEF Chunk
<1> QED
  BY <1>1, <1>8, <1>9, FrameFacts

\* The i-th packet of a frame is a packet of that frame.
LEMMA FrameOfPacket ==
    ASSUME NEW k \in Frames, NEW p \in Int, First[k] <= p, p < First[k + 1]
    PROVE  p \in Packets /\ Frame(p) = k
<1>1. p \in Packets
  BY FrameFacts, Constants DEF Packets
<1>2. Frame(p) \in Frames /\ First[Frame(p)] <= p /\ p < First[Frame(p) + 1]
  BY <1>1, PacketFacts
<1>3. ~(Frame(p) < k)
  <2> SUFFICES ASSUME Frame(p) < k PROVE FALSE
    OBVIOUS
  <2>1. First[Frame(p) + 1] <= First[k]
    BY <1>2, FramesApart
  <2> QED
    BY <1>2, <2>1, FrameFacts
<1>4. ~(k < Frame(p))
  <2> SUFFICES ASSUME k < Frame(p) PROVE FALSE
    OBVIOUS
  <2>1. First[k + 1] <= First[Frame(p)]
    BY <1>2, FramesApart
  <2> QED
    BY <1>2, <2>1, FrameFacts
<1> QED
  BY <1>1, <1>2, <1>3, <1>4, FrameFacts

LEMMA LastChunk ==
    ASSUME NEW p \in Packets
    PROVE  /\ IsLast(p) <=> p = First[Frame(p) + 1] - 1
           /\ IsLast(p) <=> Chunk(p) + 1 = FrameSizes[Frame(p)]
<1>1. /\ p \in Nat /\ First[Frame(p)] \in Nat /\ First[Frame(p) + 1] \in Nat
      /\ FrameSizes[Frame(p)] = First[Frame(p) + 1] - First[Frame(p)]
      /\ Chunk(p) = p - First[Frame(p)]
  BY PacketFacts, FrameFacts
<1>2. IsLast(p) <=> Chunk(p) = FrameSizes[Frame(p)] - 1
  BY DEF IsLast
<1> QED
  BY <1>1, <1>2

LEMMA WholeFacts ==
    ASSUME NEW k \in Frames, NEW item, item.data = WholeFrame(k)
    PROVE  FrameOf(item) = k
<1>1. 1 \in 1..FrameSizes[k] /\ First[k] \in Nat
  BY FrameFacts
<1>2. WholeFrame(k)[1] = First[k]
  BY <1>1 DEF WholeFrame
<1>3. Frame(First[k]) = k
  BY FrameFacts, FrameOfPacket
<1> QED
  BY <1>2, <1>3 DEF FrameOf

\* The beginning of a frame that is as long as the frame is the frame.
LEMMA PieceIsWhole ==
    ASSUME NEW d \in Seq(Packets), NEW k, Piece(d, k), Len(d) >= FrameSizes[k]
    PROVE  d = WholeFrame(k)
<1>1. k \in Frames /\ Len(d) <= FrameSizes[k] /\ \A i \in 1..Len(d) : d[i] = First[k] + i - 1
  BY DEF Piece
<1>2. Len(d) = FrameSizes[k]
  BY <1>1, FrameFacts
<1>3. d = [i \in 1..Len(d) |-> d[i]]
  OBVIOUS
<1> QED
  BY <1>1, <1>2, <1>3 DEF WholeFrame

LEMMA PieceStart ==
    ASSUME NEW p \in Packets, Chunk(p) = 0
    PROVE  Piece(<<p>>, Frame(p)) /\ Len(<<p>>) = Chunk(p) + 1
<1>1. p = First[Frame(p)] /\ Frame(p) \in Frames /\ FrameSizes[Frame(p)] \in Nat \ {0} /\ p \in Nat
  BY PacketFacts, FrameFacts
<1>2. Len(<<p>>) = 1 /\ <<p>>[1] = p
  OBVIOUS
<1> HIDE DEF Chunk
<1> QED
  BY <1>1, <1>2 DEF Piece

LEMMA PieceGrows ==
    ASSUME NEW p \in Packets, NEW d \in Seq(Packets), Piece(d, Frame(p)), Chunk(p) = Len(d)
    PROVE  Piece(Append(d, p), Frame(p)) /\ Len(Append(d, p)) = Chunk(p) + 1
<1> DEFINE e == Append(d, p)
<1>1. /\ Frame(p) \in Frames /\ First[Frame(p)] \in Nat /\ p = First[Frame(p)] + Len(d)
      /\ Chunk(p) + 1 <= FrameSizes[Frame(p)]
  BY PacketFacts, FrameFacts
<1>2. /\ Len(e) = Len(d) + 1 /\ e[Len(d) + 1] = p /\ Len(d) \in Nat
      /\ \A i \in 1..Len(d) : e[i] = d[i]
  OBVIOUS
<1> HIDE DEF e
<1>3. \A i \in 1..Len(e) : e[i] = First[Frame(p)] + i - 1
  <2> SUFFICES ASSUME NEW i \in 1..Len(e) PROVE e[i] = First[Frame(p)] + i - 1
    OBVIOUS
  <2>1. CASE i = Len(d) + 1
    BY <1>1, <1>2, <2>1
  <2>2. CASE i \in 1..Len(d)
    BY <1>2, <2>2 DEF Piece
  <2> QED
    BY <1>2, <2>1, <2>2
<1> QED
  BY <1>1, <1>2, <1>3 DEF Piece, e

-----------------------------------------------------------------------------
(* Types.                                                                  *)

Clock == [first : BOOLEAN, last : 0..(Wrap - 1), accum : Nat]
Channels == [frameNo : {0} \cup Frames, pktTotal : Nat, waitSeq : Nat, data : Seq(Packets),
             info : BOOLEAN]
OutItem == [data : Seq(Packets), time : Nat]

LEMMA SeqOfType ==
    ASSUME NEW p \in Packets
    PROVE  SeqOf(p) \in 0..(SeqSpace - 1)
BY PacketFacts, Constants, DivMod DEF SeqOf

LEMMA NextNumber ==
    ASSUME NEW s \in 0..(SeqSpace - 1)
    PROVE  (s + 1) % SeqSpace \in 0..(SeqSpace - 1)
BY Constants, DivMod

LEMMA Longer ==
    ASSUME NEW S, NEW T, S \subseteq T, NEW s \in Seq(S)
    PROVE  s \in Seq(T)
OBVIOUS

\* A frame that is handed on is the last one of out, or it is counted as dropped.
LEMMA HandTyped ==
    ASSUME TypeOK, NEW d \in Seq(Packets), Hand(d)
    PROVE  /\ out' \in Seq(OutItem) /\ dropped' \in Nat
           /\ waiting' \in Seq(DOMAIN out') /\ Len(waiting') <= QueueSize
           /\ \/ out' = Append(out, Item(d, 0)) /\ dropped' = dropped
              \/ out' = out /\ dropped' = dropped + 1
<1>1. out \in Seq(OutItem) /\ waiting \in Seq(DOMAIN out) /\ Item(d, 0) \in OutItem
      /\ dropped \in Nat /\ Len(waiting) <= QueueSize
  BY DEF TypeOK, OutItem, Item
<1>2. CASE /\ Len(waiting) < QueueSize /\ out' = Append(out, Item(d, 0))
           /\ waiting' = Append(waiting, Len(out) + 1) /\ UNCHANGED dropped
  <2>1. out' \in Seq(OutItem) /\ DOMAIN out \subseteq DOMAIN out' /\ Len(out) + 1 \in DOMAIN out'
    BY <1>1, <1>2
  <2>2. waiting \in Seq(DOMAIN out')
    BY <1>1, <2>1, Longer
  <2>3. waiting' \in Seq(DOMAIN out') /\ Len(waiting') = Len(waiting) + 1
    BY <1>2, <2>1, <2>2
  <2> QED
    BY <1>1, <1>2, <2>1, <2>3, Constants
<1>3. CASE /\ Len(waiting) = QueueSize /\ dropped' = dropped + 1 /\ UNCHANGED <<out, waiting>>
  BY <1>1, <1>3
<1> QED
  BY <1>2, <1>3 DEF Hand

LEMMA QueueTyped ==
    ASSUME TypeOK, NEW d \in Seq(Packets), NEW t \in Nat, Queue(d, t)
    PROVE  /\ out' \in Seq(OutItem) /\ dropped' \in Nat
           /\ waiting' \in Seq(DOMAIN out') /\ Len(waiting') <= QueueSize
           /\ out' = Append(out, Item(d, t))
<1> DEFINE w == IF Len(waiting) < QueueSize THEN waiting ELSE Tail(waiting)
<1>1. out \in Seq(OutItem) /\ waiting \in Seq(DOMAIN out) /\ Item(d, t) \in OutItem
      /\ dropped \in Nat /\ Len(waiting) <= QueueSize
  BY DEF TypeOK, OutItem, Item
<1>2. out' = Append(out, Item(d, t)) /\ waiting' = w \o <<Len(out) + 1>>
  BY DEF Queue
<1>3. w \in Seq(DOMAIN out) /\ Len(w) < QueueSize
  <2>1. CASE Len(waiting) < QueueSize
    BY <1>1, <2>1
  <2>2. CASE Len(waiting) = QueueSize
    <3>1. QueueSize \in Nat \ {0} /\ waiting # <<>>
      BY <1>1, <2>2, Constants
    <3>2. Tail(waiting) \in Seq(DOMAIN out) /\ Len(Tail(waiting)) = Len(waiting) - 1
      BY <1>1, <3>1
    <3>3. w = Tail(waiting)
      BY <2>2, <3>1
    <3> HIDE DEF w
    <3> QED
      BY <1>1, <2>2, <3>1, <3>2, <3>3
  <2> QED
    BY <1>1, <2>1, <2>2, Constants
<1> HIDE DEF w
<1>4. out' \in Seq(OutItem) /\ DOMAIN out \subseteq DOMAIN out' /\ Len(out) + 1 \in DOMAIN out'
  BY <1>1, <1>2
<1>5. w \in Seq(DOMAIN out')
  BY <1>3, <1>4, Longer
<1>6. waiting' \in Seq(DOMAIN out') /\ Len(waiting') = Len(w) + 1
  BY <1>2, <1>4, <1>5
<1>7. dropped' \in Nat
  BY <1>1 DEF Queue
<1> QED
  BY <1>2, <1>3, <1>4, <1>6, <1>7, Constants

\* What the three receivers and the reader change, and what the network does.
MediaTyped ==
    /\ waitFSeq \in {0} \cup Frames /\ waitCSeq \in Nat /\ waitData \in Seq(Packets)
    /\ DOMAIN buf \subseteq 0..(SeqSpace - 1) /\ Cardinality(DOMAIN buf) <= BufferSize
    /\ buf \in [DOMAIN buf -> Packets] /\ \A s \in DOMAIN buf : SeqOf(buf[s]) = s
    /\ seq \in 0..(SeqSpace - 1)
    /\ loop \in {"idle"} \cup Results /\ flooded \in BOOLEAN
    /\ chan \in [{"I", "P"} -> Channels]
    /\ clock \in [{"video", "audio"} -> Clock]
    /\ out \in Seq(OutItem)
    /\ waiting \in Seq(DOMAIN out) /\ Len(waiting) <= QueueSize
    /\ dropped \in Nat /\ closed \in BOOLEAN

NetTyped ==
    /\ kind \in {"session16", "session25", "frames"}
    /\ arrived \subseteq Packets /\ lost \subseteq Packets \ arrived
    /\ dups \in 0..MaxDups /\ late \in BOOLEAN

LEMMA TwoSides == TypeOK <=> NetTyped /\ MediaTyped
BY Zenon DEF TypeOK, NetTyped, MediaTyped, Channels, Clock, OutItem

LEMMA BufferFinite ==
    ASSUME MediaTyped
    PROVE  IsFiniteSet(DOMAIN buf) /\ Cardinality(DOMAIN buf) \in Nat
<1>1. IsFiniteSet(0..(SeqSpace - 1))
  BY Constants, FS_Interval
<1>2. IsFiniteSet(DOMAIN buf)
  BY <1>1, FS_Subset DEF MediaTyped
<1> QED
  BY <1>2, FS_CardinalityType

LEMMA Typed16 ==
    ASSUME TypeOK, NEW p \in Packets, Receive16(p)
    PROVE  MediaTyped' /\ UNCHANGED bufVars
<1>1. MediaTyped
  BY TwoSides
<1>2. UNCHANGED <<buf, seq, loop, flooded, chan, clock>>
  BY DEF Receive16, bufVars, dtlsVars
<1>3. waitFSeq' \in {0} \cup Frames /\ waitCSeq' \in Nat /\ waitData' \in Seq(Packets)
  <2>1. Frame(p) \in Frames
    BY PacketFacts
  <2>2. Append(waitData, p) \in Seq(Packets) /\ <<p>> \in Seq(Packets)
    BY <1>1 DEF MediaTyped
  <2>3. waitFSeq \in {0} \cup Frames /\ waitCSeq \in Nat /\ waitData \in Seq(Packets)
    BY <1>1 DEF MediaTyped
  <2>4. waitFSeq' \in {0} \cup Frames
    BY <2>1, <2>3 DEF Receive16, Read16
  <2>5. waitCSeq' \in Nat
    BY <2>3 DEF Receive16, Read16
  <2>6. waitData' \in Seq(Packets)
    BY <2>2, <2>3 DEF Receive16, Read16
  <2> QED
    BY <2>4, <2>5, <2>6
<1>4. /\ out' \in Seq(OutItem) /\ dropped' \in Nat /\ closed' \in BOOLEAN
      /\ waiting' \in Seq(DOMAIN out') /\ Len(waiting') <= QueueSize
  <2>1. CASE UNCHANGED <<outVars, closed>>
    BY <1>1, <2>1 DEF MediaTyped, outVars
  <2>2. CASE /\ \E d \in Seq(Packets) : Hand(d)
             /\ closed' = (HandResult = "error")
    BY <2>2, HandTyped
  <2>3. Append(waitData, p) \in Seq(Packets) /\ <<p>> \in Seq(Packets)
    BY <1>1 DEF MediaTyped
  <2> QED
    BY <2>1, <2>2, <2>3 DEF Receive16, Read16
<1> QED
  BY <1>1, <1>2, <1>3, <1>4 DEF MediaTyped, bufVars

\* A chunk leaves the loop with a result, never at rest.
LEMMA TypedChunk ==
    ASSUME TypeOK, NEW p \in Packets, HandleChunk(p)
    PROVE  /\ waitCSeq' \in Nat /\ waitData' \in Seq(Packets) /\ loop' \in Results
           /\ out' \in Seq(OutItem) /\ dropped' \in Nat
           /\ waiting' \in Seq(DOMAIN out') /\ Len(waiting') <= QueueSize
<1>1. MediaTyped
  BY TwoSides
<1>2. SeqOf(p) \in 0..(SeqSpace - 1) /\ waitCSeq \in Nat
  BY <1>1, SeqOfType DEF MediaTyped
<1>3. (SeqOf(p) + 1) % SeqSpace \in Nat /\ (waitCSeq + 1) % SeqSpace \in Nat
  BY <1>2, Constants, DivMod
<1>4. Append(waitData, p) \in Seq(Packets) /\ <<p>> \in Seq(Packets) /\ SeqOf(p) \in Nat
  BY <1>1, <1>2, Constants DEF MediaTyped
<1>5. waitCSeq' \in Nat /\ waitData' \in Seq(Packets)
  BY <1>1, <1>2, <1>3, <1>4 DEF HandleChunk, MediaTyped
<1>6. loop' \in Results
  BY DEF HandleChunk, Results, HandResult
<1>7. /\ out' \in Seq(OutItem) /\ dropped' \in Nat
      /\ waiting' \in Seq(DOMAIN out') /\ Len(waiting') <= QueueSize
  <2>1. CASE UNCHANGED outVars
    BY <1>1, <2>1 DEF MediaTyped, outVars
  <2>2. CASE Hand(waitData')
    BY <1>5, <2>2, HandTyped
  <2> QED
    BY <2>1, <2>2 DEF HandleChunk
<1> QED
  BY <1>5, <1>6, <1>7

LEMMA PushTyped ==
    ASSUME MediaTyped, NEW p \in Packets, Push(p)
    PROVE  /\ DOMAIN buf' = DOMAIN buf \cup {SeqOf(p)} /\ DOMAIN buf' \subseteq 0..(SeqSpace - 1)
           /\ buf' \in [DOMAIN buf' -> Packets] /\ \A s \in DOMAIN buf' : SeqOf(buf'[s]) = s
           /\ Cardinality(DOMAIN buf') <= Cardinality(DOMAIN buf) + 1
<1>1. DOMAIN buf' = DOMAIN buf \cup {SeqOf(p)}
  BY DEF Push
<1>2. DOMAIN buf' \subseteq 0..(SeqSpace - 1)
  BY <1>1, SeqOfType DEF MediaTyped
<1>3. \A s \in DOMAIN buf' : buf'[s] = IF s = SeqOf(p) THEN p ELSE buf[s]
  BY DEF Push
<1>4. buf' \in [DOMAIN buf' -> Packets]
  BY <1>1, <1>3 DEF Push, MediaTyped
<1>5. \A s \in DOMAIN buf' : SeqOf(buf'[s]) = s
  BY <1>1, <1>3 DEF MediaTyped
<1>6. Cardinality(DOMAIN buf') <= Cardinality(DOMAIN buf) + 1
  <2> DEFINE D == DOMAIN buf
  <2>1. IsFiniteSet(D) /\ Cardinality(D) \in Nat
    BY BufferFinite
  <2> HIDE DEF D
  <2>2. Cardinality(D \cup {SeqOf(p)}) =
          IF SeqOf(p) \in D THEN Cardinality(D) ELSE Cardinality(D) + 1
    BY <2>1, FS_AddElement
  <2>3. Cardinality(D \cup {SeqOf(p)}) <= Cardinality(D) + 1
    BY <2>1, <2>2
  <2> QED
    BY <1>1, <2>3 DEF D
<1> QED
  BY <1>1, <1>2, <1>4, <1>5, <1>6

LEMMA Typed25 ==
    ASSUME TypeOK, AtRest, loop = "idle", NEW p \in Packets, Receive25(p)
    PROVE  MediaTyped' /\ loop' \in Results /\ UNCHANGED closed
<1>1. MediaTyped
  BY TwoSides
<1>2. UNCHANGED <<waitFSeq, chan, clock, closed>>
  BY DEF Receive25, dtlsVars
<1>3. CASE /\ Check(p) /\ seq' = (seq + 1) % SeqSpace
           /\ HandleChunk(p) /\ UNCHANGED <<buf, flooded>>
  <2>1. seq' \in 0..(SeqSpace - 1)
    BY <1>1, <1>3, NextNumber DEF MediaTyped
  <2> QED
    BY <1>1, <1>2, <1>3, <2>1, TypedChunk DEF MediaTyped
<1>4. CASE /\ Push(p) /\ loop' = "reorder" /\ flooded' \in BOOLEAN
           /\ UNCHANGED <<seq, waitCSeq, waitData, outVars>>
  <2>1. Cardinality(DOMAIN buf') <= BufferSize
    <3>1. Cardinality(DOMAIN buf) < BufferSize
      BY DEF AtRest
    <3>2. Cardinality(DOMAIN buf') <= Cardinality(DOMAIN buf) + 1
      BY <1>1, <1>4, PushTyped
    <3>3. IsFiniteSet(DOMAIN buf') /\ Cardinality(DOMAIN buf') \in Nat
      <4>1. DOMAIN buf' = DOMAIN buf \cup {SeqOf(p)}
        BY <1>1, <1>4, PushTyped
      <4>2. IsFiniteSet(DOMAIN buf')
        BY <1>1, <4>1, BufferFinite, FS_AddElement
      <4> QED
        BY <4>2, FS_CardinalityType
    <3> QED
      BY <1>1, <3>1, <3>2, <3>3, BufferFinite, Constants
  <2>2. "reorder" \in Results
    BY DEF Results
  <2> QED
    BY <1>1, <1>2, <1>4, <2>1, <2>2, PushTyped DEF MediaTyped, outVars
<1>5. flooded' \in BOOLEAN
  BY <1>1 DEF Receive25, MediaTyped
<1> QED
  BY <1>3, <1>4, <1>5 DEF Receive25

\* Pop takes the number that is the next one after seq.
LEMMA NextIsNearest ==
    ASSUME MediaTyped, DOMAIN buf # {}
    PROVE  /\ Next25 \in DOMAIN buf
           /\ \A t \in DOMAIN buf : (Next25 - seq) % SeqSpace <= (t - seq) % SeqSpace
<1> DEFINE D == {(s - seq) % SeqSpace : s \in DOMAIN buf}
<1>1. \A s \in DOMAIN buf : (s - seq) % SeqSpace \in Nat
  <2> SUFFICES ASSUME NEW s \in DOMAIN buf PROVE (s - seq) % SeqSpace \in Nat
    OBVIOUS
  <2>1. s - seq \in Int
    BY Constants DEF MediaTyped
  <2> QED
    BY <2>1, Constants, DivMod
<1>2. D \in SUBSET Nat /\ D # {}
  BY <1>1
<1>3. PICK d \in D : \A e \in D : d <= e
  <2> HIDE DEF D
  <2> QED
    BY <1>2, LeastNat
<1>4. PICK s \in DOMAIN buf : d = (s - seq) % SeqSpace
  BY <1>3
<1>5. \A t \in DOMAIN buf : (s - seq) % SeqSpace <= (t - seq) % SeqSpace
  BY <1>3, <1>4
<1> QED
  BY <1>5 DEF Next25

\* How far a number is ahead of another one.
LEMMA Ahead ==
    ASSUME NEW a \in 0..(SeqSpace - 1), NEW b \in 0..(SeqSpace - 1)
    PROVE  (a - b) % SeqSpace = IF a >= b THEN a - b ELSE SeqSpace + (a - b)
<1> DEFINE d == a - b
<1>1. d \in Int /\ SeqSpace \in Nat /\ SeqSpace > 0
  BY Constants
<1>2. CASE a >= b
  <2>1. d \in 0..(SeqSpace - 1) /\ a >= b
    BY <1>2, Constants
  <2> HIDE DEF d
  <2>2. d = SeqSpace * 0 + d
    BY <1>1
  <2>3. d % SeqSpace = d
    BY <1>1, <2>1, <2>2, ModUnique
  <2> QED
    BY <2>1, <2>3 DEF d
<1>3. CASE ~(a >= b)
  <2> DEFINE r == SeqSpace + d
  <2>1. r \in 0..(SeqSpace - 1) /\ ~(a >= b)
    BY <1>3, Constants
  <2>2. d = SeqSpace * (-1) + r
    BY <1>1
  <2> HIDE DEF d, r
  <2>3. d % SeqSpace = r
    BY <1>1, <2>1, <2>2, ModUnique
  <2> QED
    BY <2>1, <2>3 DEF d, r
<1> QED
  BY <1>2, <1>3

\* If the packet whose turn it is has come, it is that one.
LEMMA NextIsTurn ==
    ASSUME MediaTyped, seq \in DOMAIN buf
    PROVE  Next25 = seq
<1>1. Next25 \in DOMAIN buf /\ (Next25 - seq) % SeqSpace <= (seq - seq) % SeqSpace
  BY NextIsNearest
<1>2. Next25 \in 0..(SeqSpace - 1) /\ seq \in 0..(SeqSpace - 1)
  BY <1>1 DEF MediaTyped
<1>3. (seq - seq) % SeqSpace = 0
  <2>1. (seq - seq) % SeqSpace = IF seq >= seq THEN seq - seq ELSE SeqSpace + (seq - seq)
    BY <1>2, Ahead
  <2>2. seq >= seq /\ seq - seq = 0
    BY <1>2
  <2> QED
    BY <2>1, <2>2
<1>4. (Next25 - seq) % SeqSpace =
         IF Next25 >= seq THEN Next25 - seq ELSE SeqSpace + (Next25 - seq)
  BY <1>2, Ahead
<1> QED
  BY <1>1, <1>2, <1>3, <1>4, Constants

\* What Pop leaves in the buffer.
LEMMA Taken ==
    ASSUME MediaTyped, NEW s \in DOMAIN buf, buf' = [t \in DOMAIN buf \ {s} |-> buf[t]]
    PROVE  /\ DOMAIN buf' = DOMAIN buf \ {s} /\ \A t \in DOMAIN buf' : buf'[t] = buf[t]
           /\ DOMAIN buf' \subseteq 0..(SeqSpace - 1)
           /\ Cardinality(DOMAIN buf') <= BufferSize
           /\ buf' \in [DOMAIN buf' -> Packets] /\ \A t \in DOMAIN buf' : SeqOf(buf'[t]) = t
<1>1. DOMAIN buf' = DOMAIN buf \ {s} /\ \A t \in DOMAIN buf' : buf'[t] = buf[t]
  OBVIOUS
<1>2. DOMAIN buf' \subseteq 0..(SeqSpace - 1)
  BY <1>1 DEF MediaTyped
<1>3. buf' \in [DOMAIN buf' -> Packets]
  BY <1>1 DEF MediaTyped
<1>4. \A t \in DOMAIN buf' : SeqOf(buf'[t]) = t
  BY <1>1 DEF MediaTyped
<1>5. Cardinality(DOMAIN buf') <= BufferSize
  <2> DEFINE D == DOMAIN buf
             E == DOMAIN buf'
  <2>1. IsFiniteSet(D) /\ Cardinality(D) \in Nat /\ Cardinality(D) <= BufferSize
    BY BufferFinite DEF MediaTyped
  <2>2. E \in SUBSET D
    BY <1>1
  <2> HIDE DEF D, E
  <2>3. IsFiniteSet(E) /\ Cardinality(E) <= Cardinality(D)
    BY <2>1, <2>2, FS_Subset
  <2>4. Cardinality(E) \in Nat
    BY <2>3, FS_CardinalityType
  <2> QED
    BY <2>1, <2>3, <2>4, Constants DEF E
<1> QED
  BY <1>1, <1>2, <1>3, <1>4, <1>5

LEMMA TypedPop ==
    ASSUME TypeOK, AtRest, Pop
    PROVE  /\ MediaTyped' /\ loop' \in Results /\ ~closed'
           /\ Next25 \in DOMAIN buf /\ buf[Next25] \in Packets /\ SeqOf(buf[Next25]) = Next25
<1>1. MediaTyped
  BY TwoSides
<1>2. DOMAIN buf # {}
  <2>1. CASE seq \in DOMAIN buf
    BY <2>1
  <2>2. CASE ~Room
    <3> SUFFICES ASSUME DOMAIN buf = {} PROVE FALSE
      OBVIOUS
    <3>1. Cardinality(DOMAIN buf) = 0
      BY FS_EmptySet
    <3> QED
      BY <2>2, <3>1, Constants DEF Room
  <2> QED
    BY <2>1, <2>2 DEF Pop
<1>3. Next25 \in DOMAIN buf
  BY <1>1, <1>2, NextIsNearest
<1>4. buf[Next25] \in Packets /\ SeqOf(buf[Next25]) = Next25 /\ Next25 \in 0..(SeqSpace - 1)
  BY <1>1, <1>3 DEF MediaTyped
<1>5. /\ buf' = [t \in DOMAIN buf \ {Next25} |-> buf[t]]
      /\ seq' = (Next25 + 1) % SeqSpace /\ HandleChunk(buf[Next25])
      /\ UNCHANGED <<waitFSeq, flooded, chan, clock, closed>> /\ ~closed
  BY DEF Pop, dtlsVars
<1>6. seq' \in 0..(SeqSpace - 1)
  BY <1>4, <1>5, NextNumber
<1>7. /\ waitCSeq' \in Nat /\ waitData' \in Seq(Packets) /\ loop' \in Results
      /\ out' \in Seq(OutItem) /\ dropped' \in Nat
      /\ waiting' \in Seq(DOMAIN out') /\ Len(waiting') <= QueueSize
  BY <1>4, <1>5, TypedChunk
<1>8. /\ DOMAIN buf' \subseteq 0..(SeqSpace - 1) /\ Cardinality(DOMAIN buf') <= BufferSize
      /\ buf' \in [DOMAIN buf' -> Packets] /\ \A t \in DOMAIN buf' : SeqOf(buf'[t]) = t
  BY <1>1, <1>3, <1>5, Taken
<1> QED
  BY <1>1, <1>3, <1>4, <1>5, <1>6, <1>7, <1>8 DEF MediaTyped

LEMMA RawTSType ==
    ASSUME NEW k \in Frames
    PROVE  RawTS(k) \in 0..(Wrap - 1)
<1>1. k * Step \in Int
  BY FrameFacts, Constants
<1> QED
  BY <1>1, Constants, DivMod DEF RawTS

LEMMA UpdateTyped ==
    ASSUME NEW t \in Clock, NEW raw \in 0..(Wrap - 1)
    PROVE  /\ Update(t, raw) \in Clock
           /\ Update(t, raw).first /\ Update(t, raw).last = raw
           /\ Update(t, raw).accum = IF t.first THEN t.accum + Elapsed(t.last, raw) ELSE 0
<1>1. Elapsed(t.last, raw) \in Nat
  BY Constants DEF Clock, Elapsed
<1>2. t.accum \in Nat /\ t.first \in BOOLEAN
  BY DEF Clock
<1> HIDE DEF Elapsed
<1> QED
  BY <1>1, <1>2 DEF Update, Clock

\* A channel after a packet: cs is what it was or a new frame, more has the packet.
StartOf(p) == [Idle EXCEPT !.frameNo = Frame(p), !.pktTotal = FrameSizes[Frame(p)]]
Before(p) == IF Frame(p) = chan[Channel(p)].frameNo THEN chan[Channel(p)] ELSE StartOf(p)
After(p) == [Before(p) EXCEPT !.data = Append(@, p), !.waitSeq = @ + 1, !.info = @ \/ IsLast(p)]

LEMMA ChannelTyped ==
    ASSUME MediaTyped, NEW p \in Packets, Channel(p) \in {"I", "P"}
    PROVE  /\ Idle \in Channels /\ Before(p) \in Channels /\ After(p) \in Channels
           /\ Before(p).frameNo = Frame(p)
           /\ After(p).data = Append(Before(p).data, p)
           /\ After(p).waitSeq = Before(p).waitSeq + 1
           /\ After(p).frameNo = Frame(p) /\ After(p).pktTotal = Before(p).pktTotal
<1>1. Idle \in Channels /\ Frame(p) \in Frames /\ FrameSizes[Frame(p)] \in Nat
  <2>1. <<>> \in Seq(Packets)
    OBVIOUS
  <2> QED
    BY <2>1, PacketFacts, FrameFacts DEF Idle, Channels
<1>2. StartOf(p) \in Channels /\ StartOf(p).frameNo = Frame(p)
  BY <1>1 DEF StartOf, Channels, Idle
<1>3. chan[Channel(p)] \in Channels
  BY DEF MediaTyped
<1>4. Before(p) \in Channels /\ Before(p).frameNo = Frame(p)
  BY <1>2, <1>3 DEF Before
<1>5. IsLast(p) \in BOOLEAN
  BY DEF IsLast
<1>6. Append(Before(p).data, p) \in Seq(Packets)
  BY <1>4 DEF Channels
<1> DEFINE b == Before(p)
           more == [frameNo |-> b.frameNo, pktTotal |-> b.pktTotal, waitSeq |-> b.waitSeq + 1,
                    data |-> Append(b.data, p), info |-> b.info \/ IsLast(p)]
<1>7. After(p) = [b EXCEPT !.data = Append(b.data, p), !.waitSeq = b.waitSeq + 1,
                           !.info = b.info \/ IsLast(p)]
  BY DEF After
<1>8. b \in Channels /\ Append(b.data, p) \in Seq(Packets) /\ b.frameNo = Frame(p)
  BY <1>4, <1>6
<1> HIDE DEF b
<1>9. After(p) = more
  BY <1>7, <1>8 DEF Channels
<1>10. b.waitSeq + 1 \in Nat /\ (b.info \/ IsLast(p)) \in BOOLEAN
  BY <1>5, <1>8 DEF Channels
<1>11. more \in Channels
  BY <1>8, <1>10 DEF Channels
<1> QED
  BY <1>1, <1>8, <1>9, <1>11 DEF b

LEMMA TypedHandle ==
    ASSUME MediaTyped, TypeOK, NEW p \in Packets, Handle(p)
    PROVE  MediaTyped' /\ UNCHANGED <<waitVars, bufVars, closed>>
<1>1. UNCHANGED <<waitVars, bufVars, closed>>
  BY DEF Handle
<1>2. Frame(p) \in Frames /\ RawTS(Frame(p)) \in 0..(Wrap - 1)
  BY PacketFacts, RawTSType
<1>3. CASE HandleVideo(p)
  <2> DEFINE time == Update(clock["video"], RawTS(Frame(p)))
  <2>1. Channel(p) \in {"I", "P"} /\ chan \in [{"I", "P"} -> Channels]
    BY <1>3 DEF HandleVideo, MediaTyped
  <2>2. Idle \in Channels /\ After(p) \in Channels
    BY <2>1, ChannelTyped
  <2>3. clock["video"] \in Clock /\ time \in Clock /\ time.accum \in Nat
    <3>1. clock["video"] \in Clock
      BY DEF MediaTyped
    <3>2. time \in Clock
      BY <1>2, <3>1, UpdateTyped
    <3> HIDE DEF time
    <3> QED
      BY <3>1, <3>2 DEF Clock
  <2>4. After(p).data \in Seq(Packets)
    BY <2>2 DEF Channels
  <2>5. \/ chan' = [chan EXCEPT ![Channel(p)] = Idle] /\ UNCHANGED <<clock, outVars>>
        \/ chan' = [chan EXCEPT ![Channel(p)] = After(p)] /\ UNCHANGED <<clock, outVars>>
        \/ /\ chan' = [chan EXCEPT ![Channel(p)] = Idle]
           /\ clock' = [clock EXCEPT !["video"] = time]
           /\ Queue(After(p).data, time.accum)
    BY <1>3 DEF HandleVideo, After, Before, StartOf
  <2> HIDE DEF time
  <2>6. chan' \in [{"I", "P"} -> Channels]
    BY <2>1, <2>2, <2>5
  <2>7. clock' \in [{"video", "audio"} -> Clock]
    BY <2>3, <2>5 DEF MediaTyped
  <2>8. /\ out' \in Seq(OutItem) /\ dropped' \in Nat
        /\ waiting' \in Seq(DOMAIN out') /\ Len(waiting') <= QueueSize
    <3>1. CASE UNCHANGED outVars
      BY <3>1 DEF MediaTyped, outVars
    <3>2. CASE Queue(After(p).data, time.accum)
      BY <2>3, <2>4, <3>2, QueueTyped
    <3> QED
      BY <2>5, <3>1, <3>2
  <2> QED
    BY <1>1, <2>6, <2>7, <2>8 DEF MediaTyped, waitVars, bufVars
<1>4. CASE HandleAudio(p)
  <2> DEFINE time == Update(clock["audio"], RawTS(Frame(p)))
  <2>1. clock["audio"] \in Clock
    BY DEF MediaTyped
  <2>2. time \in Clock
    BY <1>2, <2>1, UpdateTyped
  <2>3. /\ clock' = [clock EXCEPT !["audio"] = time] /\ Queue(<<p>>, time.accum)
        /\ UNCHANGED chan
    BY <1>4 DEF HandleAudio
  <2> HIDE DEF time
  <2>4. <<p>> \in Seq(Packets) /\ time.accum \in Nat
    BY <2>2 DEF Clock
  <2>5. /\ out' \in Seq(OutItem) /\ dropped' \in Nat
        /\ waiting' \in Seq(DOMAIN out') /\ Len(waiting') <= QueueSize
    BY <2>3, <2>4, QueueTyped
  <2>6. clock' \in [{"video", "audio"} -> Clock]
    BY <2>2, <2>3 DEF MediaTyped
  <2> QED
    BY <1>1, <2>3, <2>5, <2>6 DEF MediaTyped, waitVars, bufVars
<1> QED
  BY <1>3, <1>4 DEF Handle

\* A packet is handled: the receiver's variables.
LEMMA TypedTake ==
    ASSUME TypeOK, AtRest, NEW p \in Packets, Take(p)
    PROVE  MediaTyped' /\ AtRest'
<1>1. MediaTyped /\ ~closed /\ loop = "idle"
  BY TwoSides DEF Take
<1>2. CASE Receive25(p)
  <2>1. MediaTyped' /\ loop' \in Results /\ UNCHANGED closed
    BY <1>1, <1>2, Typed25
  <2> QED
    BY <1>1, <2>1 DEF Results, AtRest
<1>3. CASE Receive16(p)
  <2>1. MediaTyped' /\ UNCHANGED bufVars
    BY <1>3, Typed16
  <2> QED
    BY <1>1, <2>1 DEF AtRest, bufVars
<1>4. CASE Handle(p)
  <2>1. MediaTyped' /\ UNCHANGED <<waitVars, bufVars, closed>>
    BY <1>1, <1>4, TypedHandle
  <2> QED
    BY <1>1, <2>1 DEF AtRest, bufVars
<1> QED
  BY <1>2, <1>3, <1>4 DEF Take

LEMMA NetStep ==
    ASSUME TypeOK, NEW p \in Packets, Arrive(p) \/ Repeat(p) \/ Lose(p)
    PROVE  NetTyped'
<1>1. NetTyped
  BY TwoSides
<1>2. CASE Arrive(p)
  <2>1. /\ p \in InFlight /\ arrived' = arrived \cup {p} /\ late' \in BOOLEAN
        /\ UNCHANGED <<kind, lost, dups>>
    BY <1>1, <1>2 DEF Arrive, NetTyped
  <2> QED
    BY <1>1, <2>1 DEF NetTyped, InFlight
<1>3. CASE Repeat(p)
  <2>1. dups' = dups + 1 /\ dups < MaxDups /\ UNCHANGED <<kind, arrived, lost, late>>
    BY <1>3 DEF Repeat
  <2>2. dups' \in 0..MaxDups
    BY <1>1, <2>1, Constants DEF NetTyped
  <2> QED
    BY <1>1, <2>1, <2>2 DEF NetTyped
<1>4. CASE Lose(p)
  <2>1. p \in InFlight /\ lost' = lost \cup {p} /\ UNCHANGED <<kind, arrived, dups, late>>
    BY <1>4 DEF Lose
  <2> QED
    BY <1>1, <2>1 DEF NetTyped, InFlight
<1> QED
  BY <1>2, <1>3, <1>4

LEMMA TypeInit == Init => TypeOK /\ AtRest
<1> SUFFICES ASSUME Init PROVE TypeOK /\ AtRest
  OBVIOUS
<1>1. DOMAIN buf = {} /\ Cardinality(DOMAIN buf) = 0
  BY FS_EmptySet DEF Init
<1>2. NetTyped
  <2>1. 0 \in 0..MaxDups
    BY Constants
  <2> QED
    BY <2>1, Zenon DEF Init, NetTyped
<1>3. Idle \in Channels /\ NewClock \in Clock
  <2>1. <<>> \in Seq(Packets)
    OBVIOUS
  <2> QED
    BY <2>1, Constants DEF Idle, Channels, NewClock, Clock
<1>4. 0 \in 0..(SeqSpace - 1) /\ 0 < BufferSize /\ 0 <= BufferSize /\ 0 <= QueueSize
  BY Constants
<1>5. /\ out \in Seq(OutItem) /\ waiting \in Seq(DOMAIN out) /\ Len(waiting) = 0
      /\ waitData \in Seq(Packets)
  BY DEF Init
<1>6. chan \in [{"I", "P"} -> Channels] /\ clock \in [{"video", "audio"} -> Clock]
  BY <1>3 DEF Init
<1>7. buf \in [DOMAIN buf -> Packets] /\ \A s \in DOMAIN buf : SeqOf(buf[s]) = s
  BY <1>1 DEF Init
<1>8. MediaTyped
  BY <1>1, <1>4, <1>5, <1>6, <1>7 DEF Init, MediaTyped
<1> QED
  BY <1>1, <1>2, <1>4, <1>8, TwoSides DEF AtRest, Init

LEMMA TypeStep ==
    ASSUME TypeOK, AtRest, [Next]_vars
    PROVE  TypeOK' /\ AtRest'
<1>1. NetTyped /\ MediaTyped
  BY TwoSides
<1>2. NetTyped' /\ MediaTyped' => TypeOK'
  BY Zenon DEF TypeOK, NetTyped, MediaTyped, Channels, Clock, OutItem
<1> SUFFICES NetTyped' /\ MediaTyped' /\ AtRest'
  BY <1>2
<1>3. ASSUME NEW p \in Packets, Arrive(p) \/ Repeat(p) PROVE NetTyped' /\ MediaTyped' /\ AtRest'
  <2>1. Take(p)
    BY <1>3 DEF Arrive, Repeat
  <2> QED
    BY <1>3, <2>1, TypedTake, NetStep
<1>4. ASSUME NEW p \in Packets, Lose(p) PROVE NetTyped' /\ MediaTyped' /\ AtRest'
  <2>1. NetTyped'
    BY <1>4, NetStep
  <2>2. UNCHANGED <<waitVars, bufVars, dtlsVars, outVars, closed>>
    BY <1>4 DEF Lose
  <2> QED
    BY <1>1, <2>1, <2>2 DEF MediaTyped, AtRest, waitVars, bufVars, dtlsVars, outVars
<1>5. CASE Pop
  <2>1. MediaTyped' /\ loop' \in Results /\ ~closed' /\ UNCHANGED <<kind, netVars>>
    BY <1>5, TypedPop DEF Pop
  <2> QED
    BY <1>1, <2>1 DEF NetTyped, netVars, AtRest, Results
<1>6. CASE Popped
  <2>1. /\ seq \notin DOMAIN buf /\ Room /\ loop' = "idle" /\ closed' \in BOOLEAN
        /\ UNCHANGED <<kind, netVars, waitVars, buf, seq, flooded, dtlsVars, outVars>>
    BY <1>6 DEF Popped
  <2> QED
    BY <1>1, <2>1 DEF MediaTyped, NetTyped, AtRest, Room, netVars, waitVars, dtlsVars, outVars
<1>7. CASE ReadPacket
  <2>1. /\ waiting # <<>> /\ waiting' = Tail(waiting)
        /\ UNCHANGED <<kind, netVars, waitVars, bufVars, dtlsVars, out, dropped, closed>>
    BY <1>7 DEF ReadPacket
  <2>2. waiting \in Seq(DOMAIN out) /\ Len(waiting) <= QueueSize
    BY <1>1 DEF MediaTyped
  <2>3. Tail(waiting) \in Seq(DOMAIN out) /\ Len(Tail(waiting)) = Len(waiting) - 1
    BY <2>1, <2>2
  <2>4. waiting' \in Seq(DOMAIN out') /\ Len(waiting') <= QueueSize
    BY <2>1, <2>2, <2>3, Constants
  <2> QED
    BY <1>1, <2>1, <2>4 DEF MediaTyped, NetTyped, AtRest, netVars, waitVars, bufVars, dtlsVars
<1>8. CASE Close
  <2>1. /\ closed' = TRUE /\ loop = "idle"
        /\ UNCHANGED <<kind, netVars, waitVars, bufVars, dtlsVars, outVars>>
    BY <1>8 DEF Close
  <2> QED
    BY <1>1, <2>1 DEF MediaTyped, NetTyped, AtRest, netVars, waitVars, bufVars, dtlsVars, outVars
<1>9. CASE UNCHANGED vars
  BY <1>1, <1>9 DEF MediaTyped, NetTyped, AtRest, vars, netVars, waitVars, bufVars, dtlsVars,
                    outVars
<1> QED
  BY <1>3, <1>4, <1>5, <1>6, <1>7, <1>8, <1>9 DEF Next

\* Packets, buffer, queues and clocks are what they should be in every state: the
\* reorder buffer and the queue of the reader never grow beyond their size, and every
\* packet in the buffer is under its own number (TutkMedia's type invariant).
THEOREM TypeCorrect == Spec => []TypeOK
<1>1. Init => TypeOK /\ AtRest
  BY TypeInit
<1>2. TypeOK /\ AtRest /\ [Next]_vars => (TypeOK /\ AtRest)'
  BY TypeStep
<1> QED
  BY <1>1, <1>2, PTL DEF Spec

-----------------------------------------------------------------------------
(* Session16 and FrameHandler hand on whole frames.                        *)

LEMMA OneMore ==
    ASSUME out \in Seq(OutItem), NEW item, item \in OutItem, out' = Append(out, item)
    PROVE  /\ DOMAIN out' = DOMAIN out \cup {Len(out) + 1} /\ Len(out) + 1 \notin DOMAIN out
           /\ \A i \in DOMAIN out : out'[i] = out[i] /\ i < Len(out) + 1
           /\ out'[Len(out) + 1] = item /\ DOMAIN out \subseteq Nat /\ Len(out) + 1 \in Nat
<1>1. Len(out) \in Nat /\ DOMAIN out = 1..Len(out) /\ DOMAIN out' = 1..(Len(out) + 1)
  OBVIOUS
<1>2. \A i \in 1..Len(out) : out'[i] = out[i]
  BY <1>1
<1>3. out'[Len(out) + 1] = item
  BY <1>1
<1> QED
  BY <1>1, <1>2, <1>3

LEMMA AnotherWhole ==
    ASSUME out \in Seq(OutItem), \A i \in DOMAIN out : IsWhole(out[i]),
           NEW item, item \in OutItem, IsWhole(item), out' = Append(out, item)
    PROVE  \A i \in DOMAIN out' : IsWhole(out'[i])
<1>1. /\ DOMAIN out' = DOMAIN out \cup {Len(out) + 1}
      /\ \A i \in DOMAIN out : out'[i] = out[i]
      /\ out'[Len(out) + 1] = item
  BY OneMore
<1> QED
  BY <1>1, Zenon

LEMMA ItemFacts ==
    ASSUME NEW d \in Seq(Packets), NEW t \in Nat
    PROVE  Item(d, t) \in OutItem /\ Item(d, t).data = d /\ Item(d, t).time = t
BY DEF Item, OutItem

LEMMA HandWhole ==
    ASSUME TypeOK, \A i \in DOMAIN out : IsWhole(out[i]),
           NEW k \in Frames, NEW d \in Seq(Packets), d = WholeFrame(k), Hand(d)
    PROVE  \A i \in DOMAIN out' : IsWhole(out'[i])
<1>1. out \in Seq(OutItem)
  BY DEF TypeOK, OutItem
<1>2. Item(d, 0) \in OutItem /\ IsWhole(Item(d, 0))
  BY ItemFacts DEF IsWhole
<1>3. out' = Append(out, Item(d, 0)) \/ out' = out
  BY HandTyped
<1> QED
  BY <1>1, <1>2, <1>3, AnotherWhole

\* A frame as far as it has come, with the next packet.
LEMMA Grown16 ==
    ASSUME TypeOK, Assembling, kind = "session16", NEW p \in Packets,
           Start16(p) \/ Follows16(p),
           NEW d, d = IF Start16(p) THEN <<p>> ELSE Append(waitData, p)
    PROVE  /\ d \in Seq(Packets) /\ Piece(d, Frame(p)) /\ Len(d) = Chunk(p) + 1
           /\ Frame(p) = IF Start16(p) THEN Frame(p) ELSE waitFSeq
           /\ Chunk(p) + 1 = IF Start16(p) THEN 1 ELSE waitCSeq + 1
<1>1. waitData \in Seq(Packets) /\ waitCSeq \in Nat /\ Chunk(p) \in Nat
  BY PacketFacts, FrameFacts DEF TypeOK
<1>2. CASE Start16(p)
  <2>1. d = <<p>> /\ Chunk(p) = 0
    BY <1>2 DEF Start16
  <2>2. Piece(<<p>>, Frame(p)) /\ Len(<<p>>) = Chunk(p) + 1
    BY <2>1, PieceStart
  <2> QED
    BY <1>2, <2>1, <2>2
<1>3. CASE ~Start16(p)
  <2>1. d = Append(waitData, p) /\ Frame(p) = waitFSeq /\ Chunk(p) = waitCSeq /\ waitCSeq > 0
    BY <1>1, <1>3 DEF Start16, Follows16
  <2>2. Len(waitData) = waitCSeq /\ Piece(waitData, waitFSeq)
    BY <2>1 DEF Assembling
  <2>3. Piece(Append(waitData, p), Frame(p)) /\ Len(Append(waitData, p)) = Chunk(p) + 1
    BY <1>1, <2>1, <2>2, PieceGrows
  <2>4. Append(waitData, p) \in Seq(Packets)
    BY <1>1
  <2> QED
    BY <1>3, <2>1, <2>3, <2>4
<1> QED
  BY <1>2, <1>3

LEMMA Assembled16 ==
    ASSUME FrameInv, NEW p \in Packets, Receive16(p), UNCHANGED kind
    PROVE  Assembling'
<1>1. TypeOK /\ Assembling /\ kind = "session16"
  BY DEF FrameInv, Receive16
<1>2. UNCHANGED <<chan, loop, kind>>
  BY DEF Receive16, bufVars, dtlsVars
<1>3. \A i \in DOMAIN out : IsWhole(out[i])
  BY <1>1 DEF Assembling
<1>4. CASE waitCSeq' = 0 /\ UNCHANGED <<waitFSeq, waitData, outVars, closed>>
  BY <1>1, <1>2, <1>3, <1>4 DEF Assembling, outVars
<1>5. CASE Start16(p) \/ Follows16(p)
  <2> DEFINE d == IF Start16(p) THEN <<p>> ELSE Append(waitData, p)
             f == IF Start16(p) THEN Frame(p) ELSE waitFSeq
             n == IF Start16(p) THEN 1 ELSE waitCSeq + 1
  <2>1. /\ d \in Seq(Packets) /\ Piece(d, Frame(p)) /\ Len(d) = Chunk(p) + 1
        /\ Frame(p) = f /\ Chunk(p) + 1 = n
    BY <1>1, <1>5, Grown16
  <2>2. \/ waitCSeq' = 0 /\ UNCHANGED <<waitFSeq, waitData, outVars, closed>>
        \/ /\ waitFSeq' = f /\ waitData' = d
           /\ \/ waitCSeq' = n /\ UNCHANGED <<outVars, closed>>
              \/ Len(d) >= FrameSizes[f] /\ waitCSeq' = 0 /\ Hand(d)
    BY DEF Receive16, Read16
  <2> HIDE DEF d, f, n
  <2>3. CASE waitFSeq' = f /\ waitData' = d /\ waitCSeq' = n /\ UNCHANGED <<outVars, closed>>
    <3>1. Len(waitData') = waitCSeq' /\ Piece(waitData, waitFSeq)'
      BY <2>1, <2>3 DEF Piece
    <3>2. \A i \in DOMAIN out' : IsWhole(out'[i])
      BY <1>3, <2>3 DEF outVars
    <3> QED
      BY <1>1, <1>2, <3>1, <3>2 DEF Assembling
  <2>4. CASE Len(d) >= FrameSizes[f] /\ waitCSeq' = 0 /\ Hand(d)
    <3>1. d = WholeFrame(Frame(p)) /\ Frame(p) \in Frames
      BY <2>1, <2>4, PieceIsWhole, PacketFacts
    <3>2. \A i \in DOMAIN out' : IsWhole(out'[i])
      BY <1>1, <1>3, <2>1, <2>4, <3>1, HandWhole
    <3> QED
      BY <1>1, <1>2, <2>4, <3>2 DEF Assembling
  <2> QED
    BY <1>4, <2>2, <2>3, <2>4
<1> QED
  BY <1>4, <1>5 DEF Receive16, Read16

\* A channel after a packet whose turn it was.
LEMMA ChannelGrows ==
    ASSUME FrameInv, NEW p \in Packets, Channel(p) \in {"I", "P"},
           Chunk(p) = Before(p).waitSeq
    PROVE  /\ After(p).waitSeq = Len(After(p).data) /\ Piece(After(p).data, Frame(p))
           /\ After(p).pktTotal = FrameSizes[Frame(p)]
<1>1. MediaTyped
  BY TwoSides DEF FrameInv
<1>2. /\ Before(p) \in Channels /\ Before(p).frameNo = Frame(p)
      /\ After(p).data = Append(Before(p).data, p) /\ After(p).waitSeq = Before(p).waitSeq + 1
      /\ After(p).pktTotal = Before(p).pktTotal
  BY <1>1, ChannelTyped
<1>3. Frame(p) \in Frames /\ Frame(p) # 0 /\ FrameSizes[Frame(p)] \in Nat
  BY PacketFacts, FrameFacts
<1>4. /\ Before(p).waitSeq = Len(Before(p).data) /\ Piece(Before(p).data, Frame(p))
      /\ Before(p).pktTotal = FrameSizes[Frame(p)]
  <2>1. CASE Frame(p) = chan[Channel(p)].frameNo
    <3>1. Before(p) = chan[Channel(p)]
      BY <2>1 DEF Before
    <3> QED
      BY <1>3, <2>1, <3>1 DEF FrameInv, Assembling
  <2>2. CASE Frame(p) # chan[Channel(p)].frameNo
    <3>1. /\ Before(p).data = <<>> /\ Before(p).waitSeq = 0
          /\ Before(p).pktTotal = FrameSizes[Frame(p)]
      BY <2>2 DEF Before, StartOf, Idle
    <3>2. Len(<<>>) = 0
      OBVIOUS
    <3>3. Piece(<<>>, Frame(p))
      BY <1>3, <3>2 DEF Piece
    <3> QED
      BY <3>1, <3>2, <3>3
  <2> QED
    BY <2>1, <2>2
<1>5. Before(p).data \in Seq(Packets)
  BY <1>2 DEF Channels
<1>6. /\ Piece(Append(Before(p).data, p), Frame(p))
      /\ Len(Append(Before(p).data, p)) = Chunk(p) + 1
  BY <1>4, <1>5, PieceGrows
<1> QED
  BY <1>2, <1>4, <1>6

\* What a channel is left with, and what it hands on.
LEMMA VideoStep ==
    ASSUME FrameInv, NEW p \in Packets, HandleVideo(p)
    PROVE  \/ chan' = [chan EXCEPT ![Channel(p)] = Idle] /\ UNCHANGED <<clock, outVars>>
           \/ /\ Chunk(p) = Before(p).waitSeq
              /\ chan' = [chan EXCEPT ![Channel(p)] = After(p)] /\ UNCHANGED <<clock, outVars>>
           \/ /\ Chunk(p) = Before(p).waitSeq /\ After(p).data = WholeFrame(Frame(p))
              /\ chan' = [chan EXCEPT ![Channel(p)] = Idle]
              /\ clock' = [clock EXCEPT !["video"] = Update(clock["video"], RawTS(Frame(p)))]
              /\ Queue(After(p).data, Update(clock["video"], RawTS(Frame(p))).accum)
<1>1. MediaTyped /\ Channel(p) \in {"I", "P"}
  BY TwoSides DEF FrameInv, HandleVideo
<1>2. After(p) \in Channels
  BY <1>1, ChannelTyped
<1>3. ASSUME Chunk(p) = Before(p).waitSeq, Complete(After(p))
      PROVE  After(p).data = WholeFrame(Frame(p))
  <2>1. /\ After(p).waitSeq = Len(After(p).data) /\ Piece(After(p).data, Frame(p))
        /\ After(p).pktTotal = FrameSizes[Frame(p)]
    BY <1>1, <1>3, ChannelGrows
  <2>2. Len(After(p).data) = FrameSizes[Frame(p)] /\ After(p).data \in Seq(Packets)
    BY <1>2, <1>3, <2>1 DEF Complete, Channels
  <2>3. Len(After(p).data) >= FrameSizes[Frame(p)]
    BY <2>2
  <2> QED
    BY <2>1, <2>2, <2>3, PieceIsWhole
<1>4. \/ chan' = [chan EXCEPT ![Channel(p)] = Idle] /\ UNCHANGED <<clock, outVars>>
      \/ /\ Chunk(p) = Before(p).waitSeq
         /\ chan' = [chan EXCEPT ![Channel(p)] = After(p)] /\ UNCHANGED <<clock, outVars>>
      \/ /\ Chunk(p) = Before(p).waitSeq /\ Complete(After(p))
         /\ chan' = [chan EXCEPT ![Channel(p)] = Idle]
         /\ clock' = [clock EXCEPT !["video"] = Update(clock["video"], RawTS(Frame(p)))]
         /\ Queue(After(p).data, Update(clock["video"], RawTS(Frame(p))).accum)
  BY Zenon DEF HandleVideo, After, Before, StartOf
<1> QED
  BY <1>3, <1>4

LEMMA AudioWhole ==
    ASSUME NEW p \in Packets, Channel(p) = "A"
    PROVE  <<p>> = WholeFrame(Frame(p)) /\ <<p>> \in Seq(Packets)
<1>1. Frame(p) \in Frames /\ FrameSizes[Frame(p)] = 1
  BY PacketFacts, MediaAssumption DEF Channel, MediaAssumption
<1>2. Chunk(p) = 0
  BY <1>1, PacketFacts
<1>3. <<p>> \in Seq(Packets) /\ Piece(<<p>>, Frame(p)) /\ Len(<<p>>) >= FrameSizes[Frame(p)]
  BY <1>1, <1>2, PieceStart
<1> QED
  BY <1>3, PieceIsWhole

LEMMA AssembledFrames ==
    ASSUME FrameInv, NEW p \in Packets, Handle(p), UNCHANGED kind
    PROVE  Assembling'
<1>1. /\ TypeOK /\ Assembling /\ MediaTyped /\ kind = "frames" /\ out \in Seq(OutItem)
      /\ \A i \in DOMAIN out : IsWhole(out[i])
  BY TwoSides DEF FrameInv, Handle, Assembling, MediaTyped
<1>2. UNCHANGED <<waitCSeq, waitData, waitFSeq, loop, kind>> /\ loop = "idle"
  BY <1>1 DEF Handle, waitVars, bufVars, Assembling
<1>3. Frame(p) \in Frames
  BY PacketFacts
<1> DEFINE Fits(c) ==
             /\ c.waitSeq = Len(c.data)
             /\ \/ c.frameNo = 0 /\ c.waitSeq = 0
                \/ Piece(c.data, c.frameNo) /\ c.pktTotal = FrameSizes[c.frameNo]
<1>4. SUFFICES (\A c \in {"I", "P"} : Fits(chan'[c])) /\ \A i \in DOMAIN out' : IsWhole(out'[i])
  BY <1>1, <1>2 DEF Assembling, Piece
<1>5. CASE HandleVideo(p)
  <2>1. /\ Channel(p) \in {"I", "P"} /\ chan \in [{"I", "P"} -> Channels]
        /\ \A c \in {"I", "P"} : Fits(chan[c])
    BY <1>1, <1>5 DEF HandleVideo, MediaTyped, Assembling
  <2>2. Fits(Idle)
    <3>1. Len(<<>>) = 0
      OBVIOUS
    <3> QED
      BY <3>1 DEF Idle
  <2>3. Chunk(p) = Before(p).waitSeq => Fits(After(p)) /\ After(p) \in Channels
    <3>1. After(p) \in Channels /\ After(p).frameNo = Frame(p)
      BY <1>1, <2>1, ChannelTyped
    <3> QED
      BY <2>1, <3>1, ChannelGrows
  <2> HIDE DEF Fits
  <2>4. \A c \in {"I", "P"} : Fits(chan'[c])
    <3>1. \/ chan' = [chan EXCEPT ![Channel(p)] = Idle]
          \/ Chunk(p) = Before(p).waitSeq /\ chan' = [chan EXCEPT ![Channel(p)] = After(p)]
      BY <1>5, VideoStep
    <3> QED
      BY <2>1, <2>2, <2>3, <3>1
  <2>5. \A i \in DOMAIN out' : IsWhole(out'[i])
    <3>1. CASE UNCHANGED outVars
      BY <1>1, <3>1 DEF outVars
    <3>2. CASE /\ After(p).data = WholeFrame(Frame(p))
               /\ Queue(After(p).data, Update(clock["video"], RawTS(Frame(p))).accum)
      <4> DEFINE t == Update(clock["video"], RawTS(Frame(p))).accum
      <4>1. After(p).data \in Seq(Packets)
        BY <1>1, <2>1, ChannelTyped DEF Channels
      <4>2. t \in Nat
        <5>1. clock["video"] \in Clock
          BY <1>1 DEF MediaTyped
        <5> QED
          BY <1>3, <5>1, RawTSType, UpdateTyped DEF Clock
      <4> HIDE DEF t
      <4>3. out' = Append(out, Item(After(p).data, t))
        BY <3>2 DEF Queue, t
      <4>4. Item(After(p).data, t) \in OutItem /\ IsWhole(Item(After(p).data, t))
        BY <1>3, <3>2, <4>1, <4>2, ItemFacts DEF IsWhole
      <4> QED
        BY <1>1, <4>3, <4>4, AnotherWhole
    <3> QED
      BY <1>5, <3>1, <3>2, VideoStep
  <2> QED
    BY <2>4, <2>5
<1>6. CASE HandleAudio(p)
  <2> DEFINE t == Update(clock["audio"], RawTS(Frame(p))).accum
  <2>1. UNCHANGED chan /\ Queue(<<p>>, t) /\ Channel(p) = "A"
    BY <1>6 DEF HandleAudio
  <2>2. t \in Nat
    <3>1. clock["audio"] \in Clock
      BY <1>1 DEF MediaTyped
    <3> QED
      BY <1>3, <3>1, RawTSType, UpdateTyped DEF Clock
  <2> HIDE DEF t
  <2>3. out' = Append(out, Item(<<p>>, t))
    BY <2>1 DEF Queue
  <2>4. Item(<<p>>, t) \in OutItem /\ IsWhole(Item(<<p>>, t))
    BY <1>3, <2>1, <2>2, AudioWhole, ItemFacts DEF IsWhole
  <2>5. \A i \in DOMAIN out' : IsWhole(out'[i])
    BY <1>1, <2>3, <2>4, AnotherWhole
  <2> QED
    BY <1>1, <2>1, <2>5 DEF Assembling
<1> QED
  BY <1>5, <1>6 DEF Handle

LEMMA FrameStep ==
    ASSUME FrameInv, [Next]_vars
    PROVE  FrameInv'
<1>1. TypeOK /\ AtRest /\ Assembling
  BY DEF FrameInv
<1>2. TypeOK' /\ AtRest'
  BY <1>1, TypeStep
<1>3. SUFFICES Assembling'
  BY <1>2 DEF FrameInv
<1>4. ASSUME UNCHANGED <<kind, waitCSeq, waitData, waitFSeq, chan, loop, out>> PROVE Assembling'
  BY <1>1, <1>4 DEF Assembling, Piece
<1>5. ASSUME kind = "session25", UNCHANGED <<kind, chan>> PROVE Assembling'
  BY <1>1, <1>5 DEF Assembling
<1>6. ASSUME NEW p \in Packets, Arrive(p) \/ Repeat(p) PROVE Assembling'
  <2>1. Take(p) /\ UNCHANGED kind
    BY <1>6 DEF Arrive, Repeat
  <2>2. CASE Receive25(p)
    BY <1>5, <2>1, <2>2 DEF Receive25, dtlsVars
  <2> QED
    BY <2>1, <2>2, Assembled16, AssembledFrames DEF Take
<1>7. ASSUME NEW p \in Packets, Lose(p) PROVE Assembling'
  BY <1>4, <1>7 DEF Lose, waitVars, bufVars, dtlsVars, outVars
<1>8. CASE Pop
  <2>1. loop # "idle" /\ UNCHANGED <<kind, chan>>
    BY <1>8 DEF Pop, dtlsVars
  <2>2. kind = "session25"
    BY <1>1, <2>1 DEF Assembling
  <2> QED
    BY <1>5, <2>1, <2>2
<1>9. CASE Popped
  <2>1. loop # "idle" /\ UNCHANGED <<kind, chan>>
    BY <1>9 DEF Popped, dtlsVars
  <2>2. kind = "session25"
    BY <1>1, <2>1 DEF Assembling
  <2> QED
    BY <1>5, <2>1, <2>2
<1>10. CASE ReadPacket
  BY <1>4, <1>10 DEF ReadPacket, waitVars, bufVars, dtlsVars
<1>11. CASE Close
  BY <1>4, <1>11 DEF Close, waitVars, bufVars, dtlsVars, outVars
<1>12. CASE UNCHANGED vars
  BY <1>4, <1>12 DEF vars, waitVars, bufVars, dtlsVars, outVars
<1> QED
  BY <1>6, <1>7, <1>8, <1>9, <1>10, <1>11, <1>12 DEF Next

LEMMA FrameInit == Init => FrameInv
<1> SUFFICES ASSUME Init PROVE FrameInv
  OBVIOUS
<1>1. TypeOK /\ AtRest
  BY TypeInit
<1>2. Len(<<>>) = 0 /\ DOMAIN <<>> = {}
  OBVIOUS
<1>3. Assembling
  BY <1>2 DEF Init, Assembling, Idle
<1> QED
  BY <1>1, <1>3 DEF FrameInv

-----------------------------------------------------------------------------
(* A chunk whose turn it is.                                               *)

\* Ends in sequence: a frame that ends before another one is an earlier frame.
LEMMA EndsBefore ==
    ASSUME NEW j \in Frames, NEW k \in Frames, First[j + 1] < First[k + 1]
    PROVE  j < k
<1>1. /\ j \in Nat /\ k \in Nat /\ First[j] \in Nat /\ First[j + 1] \in Nat
      /\ First[k + 1] \in Nat /\ First[j] < First[j + 1]
  BY FrameFacts
<1>2. CASE k < j
  <2>1. First[k + 1] <= First[j]
    BY <1>2, FramesApart
  <2> QED
    BY <1>1, <2>1
<1> QED
  BY <1>1, <1>2

\* The frame of a packet that is not its first one has the packet before, too.
LEMMA PacketBefore ==
    ASSUME NEW p \in Packets, Chunk(p) # 0
    PROVE  /\ p - 1 \in Packets /\ Frame(p - 1) = Frame(p) /\ Chunk(p - 1) + 1 = Chunk(p)
           /\ ~IsLast(p - 1)
<1>1. /\ p \in Nat /\ Frame(p) \in Frames /\ First[Frame(p)] <= p /\ p < First[Frame(p) + 1]
      /\ Chunk(p) = p - First[Frame(p)] /\ First[Frame(p)] \in Nat /\ First[Frame(p) + 1] \in Nat
  BY PacketFacts, FrameFacts
<1>2. p - 1 \in Int /\ First[Frame(p)] <= p - 1 /\ p - 1 < First[Frame(p) + 1]
  BY <1>1
<1>3. p - 1 \in Packets /\ Frame(p - 1) = Frame(p)
  BY <1>1, <1>2, FrameOfPacket
<1>4. Chunk(p - 1) = (p - 1) - First[Frame(p)]
  BY <1>3 DEF Chunk
<1>5. IsLast(p - 1) <=> p - 1 = First[Frame(p) + 1] - 1
  BY <1>3, LastChunk
<1> QED
  BY <1>1, <1>3, <1>4, <1>5

\* What a chunk does that goes on with the frame, or begins one.
LEMMA ChunkPiece ==
    ASSUME TypeOK, NEW p \in Packets, HandleChunk(p),
           \/ Chunk(p) = 0
           \/ Follows25(p) /\ Piece(waitData, Frame(p)) /\ Len(waitData) = Chunk(p)
    PROVE  /\ Piece(waitData', Frame(p)) /\ Len(waitData') = Chunk(p) + 1
           /\ waitData' \in Seq(Packets)
           /\ \/ ~IsLast(p) /\ waitCSeq' = (SeqOf(p) + 1) % SeqSpace /\ UNCHANGED outVars
              \/ /\ IsLast(p) /\ waitCSeq' = SeqOf(p)
                 /\ Hand(waitData') /\ waitData' = WholeFrame(Frame(p))
<1>1. waitData \in Seq(Packets)
  BY TwoSides DEF MediaTyped
<1> DEFINE at == IF Chunk(p) = 0 THEN SeqOf(p) ELSE waitCSeq
<1>2. at = SeqOf(p)
  BY DEF Follows25
<1>3. /\ waitData' = IF Chunk(p) = 0 THEN <<p>> ELSE Append(waitData, p)
      /\ \/ ~IsLast(p) /\ waitCSeq' = (at + 1) % SeqSpace /\ UNCHANGED outVars
         \/ IsLast(p) /\ waitCSeq' = at /\ Hand(waitData')
  BY DEF HandleChunk
<1>4. Piece(waitData', Frame(p)) /\ Len(waitData') = Chunk(p) + 1 /\ waitData' \in Seq(Packets)
  <2>1. CASE Chunk(p) = 0
    <3>1. waitData' = <<p>> /\ <<p>> \in Seq(Packets)
      BY <1>3, <2>1
    <3> QED
      BY <2>1, <3>1, PieceStart
  <2>2. CASE Chunk(p) # 0
    <3>1. Piece(waitData, Frame(p)) /\ Chunk(p) = Len(waitData)
      BY <2>2
    <3>2. waitData' = Append(waitData, p) /\ Append(waitData, p) \in Seq(Packets)
      BY <1>1, <1>3, <2>2
    <3> QED
      BY <1>1, <3>1, <3>2, PieceGrows
  <2> QED
    BY <2>1, <2>2
<1>5. ASSUME IsLast(p) PROVE waitData' = WholeFrame(Frame(p))
  <2>1. Chunk(p) + 1 = FrameSizes[Frame(p)] /\ FrameSizes[Frame(p)] \in Nat
    BY <1>5, LastChunk, PacketFacts, FrameFacts
  <2>2. Len(waitData') >= FrameSizes[Frame(p)]
    BY <1>4, <2>1
  <2> QED
    BY <1>4, <2>2, PieceIsWhole
<1> HIDE DEF at
<1> QED
  BY <1>2, <1>3, <1>4, <1>5

\* The frame that p completes is handed on after all the others.
LEMMA HandInOrder ==
    ASSUME TypeOK, NEW t \in Nat, HandedUpTo(t), NEW p \in Packets, p > t, IsLast(p),
           NEW d \in Seq(Packets), d = WholeFrame(Frame(p)), Hand(d)
    PROVE  HandedUpTo(p)'
<1>1. /\ out \in Seq(OutItem) /\ p \in Nat
      /\ \A i \in DOMAIN out : IsWhole(out[i]) /\ First[FrameOf(out[i]) + 1] - 1 <= t
      /\ \A i, j \in DOMAIN out : i < j => FrameOf(out[i]) < FrameOf(out[j])
  BY TwoSides, PacketFacts DEF MediaTyped, HandedUpTo
<1>2. \A i \in DOMAIN out : FrameOf(out[i]) \in Frames /\ First[FrameOf(out[i]) + 1] \in Nat
  <2> SUFFICES ASSUME NEW i \in DOMAIN out
               PROVE  FrameOf(out[i]) \in Frames /\ First[FrameOf(out[i]) + 1] \in Nat
    OBVIOUS
  <2>1. PICK k \in Frames : out[i].data = WholeFrame(k)
    BY <1>1 DEF IsWhole
  <2>2. FrameOf(out[i]) = k
    BY <2>1, WholeFacts
  <2> QED
    BY <2>2, FrameFacts
<1>3. Frame(p) \in Frames /\ p = First[Frame(p) + 1] - 1 /\ First[Frame(p) + 1] \in Nat
  BY PacketFacts, LastChunk, FrameFacts
<1>4. CASE out' = out
  <2>1. \A i \in DOMAIN out : First[FrameOf(out[i]) + 1] - 1 <= p
    BY <1>1, <1>2
  <2> QED
    BY <1>1, <1>4, <2>1 DEF HandedUpTo, FrameOf
<1>5. CASE out' = Append(out, Item(d, 0))
  <2> DEFINE n == Len(out) + 1
  <2>1. /\ DOMAIN out' = DOMAIN out \cup {n} /\ n \notin DOMAIN out
        /\ \A i \in DOMAIN out : out'[i] = out[i] /\ i < n
        /\ out'[n] = Item(d, 0) /\ DOMAIN out \subseteq Nat /\ n \in Nat
    BY <1>1, <1>5, ItemFacts, OneMore
  <2>2. IsWhole(Item(d, 0)) /\ FrameOf(Item(d, 0)) = Frame(p)
    <3>1. Item(d, 0).data = WholeFrame(Frame(p))
      BY ItemFacts
    <3> QED
      BY <1>3, <3>1, WholeFacts DEF IsWhole
  <2> HIDE DEF n
  <2>3. \A i \in DOMAIN out : FrameOf(out[i]) < Frame(p)
    <3> SUFFICES ASSUME NEW i \in DOMAIN out PROVE FrameOf(out[i]) < Frame(p)
      OBVIOUS
    <3>1. FrameOf(out[i]) \in Frames /\ First[FrameOf(out[i]) + 1] < First[Frame(p) + 1]
      BY <1>1, <1>2, <1>3
    <3> QED
      BY <1>3, <3>1, EndsBefore
  <2>4. ASSUME NEW i \in DOMAIN out'
        PROVE  IsWhole(out'[i]) /\ First[FrameOf(out'[i]) + 1] - 1 <= p
    <3>1. CASE i \in DOMAIN out
      BY <1>1, <1>2, <2>1, <3>1
    <3>2. CASE i = n
      <4>1. out'[i] = Item(d, 0)
        BY <2>1, <3>2
      <4> QED
        BY <1>1, <1>3, <2>2, <4>1
    <3> QED
      BY <2>1, <3>1, <3>2
  <2>5. ASSUME NEW i \in DOMAIN out', NEW j \in DOMAIN out', i < j
        PROVE  FrameOf(out'[i]) < FrameOf(out'[j])
    <3>1. i \in DOMAIN out
      BY <2>1, <2>5
    <3>2. CASE j \in DOMAIN out
      BY <1>1, <2>1, <2>5, <3>1, <3>2
    <3>3. CASE j = n
      BY <2>1, <2>2, <2>3, <3>1, <3>3
    <3> QED
      BY <2>1, <3>2, <3>3
  <2> QED
    BY <2>4, <2>5 DEF HandedUpTo, FrameOf
<1> QED
  BY <1>1, <1>4, <1>5, HandTyped

LEMMA PacketsFinite == IsFiniteSet(Packets)
<1>1. Len(First) \in 1..Len(First) /\ Len(First) \in Nat
  BY Constants
<1>2. First[Len(First)] - 1 \in Int
  BY <1>1, Constants
<1>3. IsFiniteSet(1..(First[Len(First)] - 1))
  BY <1>2, FS_Interval
<1> QED
  BY <1>3 DEF Packets

\* There are as many packets in the buffer as numbers.
LEMMA BufferedCount ==
    ASSUME MediaTyped
    PROVE  Cardinality(DOMAIN buf) <= Cardinality(Buffered) /\ Cardinality(Buffered) \in Nat
<1> DEFINE B == Buffered
           D == DOMAIN buf
           f == [q \in B |-> SeqOf(q)]
<1>1. IsFiniteSet(B)
  <2>1. B \subseteq Packets
    BY DEF Buffered, MediaTyped
  <2> HIDE DEF B
  <2> QED
    BY <2>1, PacketsFinite, FS_Subset
<1>2. \A s \in D : buf[s] \in B /\ SeqOf(buf[s]) = s
  BY DEF Buffered, MediaTyped
<1>3. \A q \in B : SeqOf(q) \in D
  BY <1>2 DEF Buffered
<1> HIDE DEF B, D
<1>4. f \in [B -> D] /\ \A s \in D : \E q \in B : f[q] = s
  BY <1>2, <1>3
<1>5. f \in Surjection(B, D)
  <2> HIDE DEF f
  <2> QED
    BY <1>4 DEF Surjection
<1>6. Cardinality(D) <= Cardinality(B) /\ Cardinality(B) \in Nat
  BY <1>1, <1>5, FS_Surjection, FS_CardinalityType
<1> QED
  BY <1>6 DEF B, D

-----------------------------------------------------------------------------
(* Session25 in the first round of sequence numbers.                       *)

LEMMA Numbers ==
    ASSUME OneRound, NEW p \in Packets
    PROVE  SeqOf(p) = p - 1 /\ (SeqOf(p) + 1) % SeqSpace = p /\ p \in 1..(SeqSpace - 1)
<1> DEFINE s == p - 1
<1>1. p \in 1..(SeqSpace - 1) /\ s \in 0..(SeqSpace - 1) /\ SeqSpace > 0 /\ SeqSpace \in Nat
  BY Constants DEF OneRound
<1>2. s = SeqSpace * 0 + s /\ s \in Int
  BY <1>1
<1>3. s % SeqSpace = s
  <2> HIDE DEF s
  <2> QED
    BY <1>1, <1>2, ModUnique
<1>4. SeqOf(p) = p - 1
  BY <1>3 DEF SeqOf
<1>5. p = SeqSpace * 0 + p /\ p \in Int /\ p \in 0..(SeqSpace - 1)
  BY <1>1
<1>6. p % SeqSpace = p
  BY <1>1, <1>5, ModUnique
<1>7. SeqOf(p) + 1 = p
  BY <1>1, <1>4
<1> QED
  BY <1>1, <1>4, <1>6, <1>7

\* What is in the buffer, by number.
LEMMA InBuffer ==
    ASSUME OneRound, MediaTyped
    PROVE  /\ \A s \in DOMAIN buf : buf[s] = s + 1 /\ buf[s] \in Packets /\ s \in Nat
           /\ \A q : q \in Buffered <=> q \in Packets /\ q - 1 \in DOMAIN buf
           /\ IsFiniteSet(Buffered) /\ Cardinality(Buffered) \in Nat
           /\ Cardinality(DOMAIN buf) <= Cardinality(Buffered)
<1>1. ASSUME NEW s \in DOMAIN buf PROVE buf[s] = s + 1 /\ buf[s] \in Packets /\ s \in Nat
  <2>1. buf[s] \in Packets /\ SeqOf(buf[s]) = s /\ s \in 0..(SeqSpace - 1)
    BY <1>1 DEF MediaTyped
  <2>2. s = buf[s] - 1 /\ buf[s] \in 1..(SeqSpace - 1)
    BY <2>1, Numbers
  <2> QED
    BY <2>1, <2>2, Constants
<1>2. ASSUME NEW q, q \in Buffered PROVE q \in Packets /\ q - 1 \in DOMAIN buf
  <2>1. PICK s \in DOMAIN buf : q = buf[s]
    BY <1>2 DEF Buffered
  <2>2. q = s + 1 /\ q \in Packets /\ s \in Nat
    BY <1>1, <2>1
  <2>3. q - 1 = s
    BY <2>2
  <2> QED
    BY <2>1, <2>2, <2>3
<1>3. ASSUME NEW q, q \in Packets, q - 1 \in DOMAIN buf PROVE q \in Buffered
  <2>1. buf[q - 1] = (q - 1) + 1 /\ q \in Nat
    BY <1>1, <1>3, PacketFacts
  <2>2. buf[q - 1] = q
    BY <2>1
  <2> QED
    BY <1>3, <2>2 DEF Buffered
<1>4. IsFiniteSet(Buffered) /\ Cardinality(Buffered) \in Nat
  <2>1. Buffered \subseteq 1..(SeqSpace - 1)
    BY <1>2, Zenon DEF OneRound
  <2>2. IsFiniteSet(1..(SeqSpace - 1))
    BY Constants, FS_Interval
  <2>3. IsFiniteSet(Buffered)
    BY <2>1, <2>2, FS_Subset
  <2> QED
    BY <2>3, FS_CardinalityType
<1>5. Cardinality(DOMAIN buf) <= Cardinality(Buffered)
  BY BufferedCount
<1> QED
  BY <1>1, <1>2, <1>3, <1>4, <1>5

\* What it does in sequence.
LEMMA ChunkTurn ==
    ASSUME OneRound, FrameInv, InSequence, kind = "session25", ~flooded,
           NEW p \in Packets, p > seq, HandleChunk(p), Chunk(p) = 0 \/ Follows25(p)
    PROVE  /\ Piece(waitData', Frame(p)) /\ Len(waitData') = Chunk(p) + 1
           /\ waitData' \in Seq(Packets)
           /\ \/ ~IsLast(p) /\ waitCSeq' = p /\ UNCHANGED outVars
              \/ /\ IsLast(p) /\ waitCSeq' = p - 1
                 /\ Hand(waitData') /\ waitData' = WholeFrame(Frame(p))
<1>1. /\ TypeOK /\ waitCSeq \in Nat /\ seq \in 0..(SeqSpace - 1) /\ waitCSeq <= seq
      /\ waitCSeq = seq /\ seq > 0 => Piece(waitData, Frame(seq)) /\ Len(waitData) = Chunk(seq) + 1
  BY TwoSides DEF FrameInv, InSequence, MediaTyped
<1>2. SeqOf(p) = p - 1 /\ (SeqOf(p) + 1) % SeqSpace = p /\ p \in Nat
  BY Numbers, PacketFacts
<1>3. ASSUME Chunk(p) # 0
      PROVE  Follows25(p) /\ Piece(waitData, Frame(p)) /\ Len(waitData) = Chunk(p)
  <2>1. waitCSeq = p - 1 /\ seq = p - 1
    BY <1>1, <1>2, <1>3, Constants DEF Follows25
  <2>2. p - 1 \in Packets /\ Frame(p - 1) = Frame(p) /\ Chunk(p - 1) + 1 = Chunk(p)
    BY <1>3, PacketBefore
  <2>3. p - 1 > 0
    BY <2>2, PacketFacts
  <2> QED
    BY <1>1, <1>3, <2>1, <2>2, <2>3
<1> QED
  BY <1>1, <1>2, <1>3, ChunkPiece

LEMMA InSequenceHand ==
    ASSUME FrameInv, InSequence, kind = "session25", ~flooded, UNCHANGED <<kind, flooded>>,
           NEW p \in Packets, p > seq, seq' = p, IsLast(p),
           NEW d \in Seq(Packets), d = WholeFrame(Frame(p)), Hand(d)
    PROVE  /\ \A i \in DOMAIN out' : IsWhole(out'[i]) /\ First[FrameOf(out'[i]) + 1] - 1 <= p
           /\ InOrder'
<1>1. TypeOK /\ seq \in Nat
  BY TwoSides DEF FrameInv, MediaTyped
<1>2. HandedUpTo(seq)
  BY DEF InSequence, InOrder, Sound, HandedUpTo
<1>3. HandedUpTo(p)'
  BY <1>1, <1>2, HandInOrder
<1> QED
  BY <1>3 DEF HandedUpTo, InOrder, FrameOf

LEMMA InSequenceChunk ==
    ASSUME OneRound, FrameInv, InSequence, kind = "session25", ~flooded,
           UNCHANGED <<kind, flooded>>,
           NEW p \in Packets, p > seq, seq' = p, HandleChunk(p)
    PROVE  /\ waitCSeq' <= p
           /\ waitCSeq' = p =>
                  Piece(waitData', Frame(p)) /\ Len(waitData') = Chunk(p) + 1 /\ ~IsLast(p)
           /\ \A i \in DOMAIN out' : IsWhole(out'[i]) /\ First[FrameOf(out'[i]) + 1] - 1 <= p
           /\ InOrder'
<1>1. TypeOK /\ waitCSeq \in Nat /\ seq \in Nat /\ p \in Nat /\ waitCSeq <= seq
  BY TwoSides, PacketFacts DEF FrameInv, MediaTyped, InSequence
<1>2. ASSUME UNCHANGED outVars
      PROVE  /\ \A i \in DOMAIN out' : IsWhole(out'[i]) /\ First[FrameOf(out'[i]) + 1] - 1 <= p
             /\ InOrder'
  <2>1. out' = out
    BY <1>2 DEF outVars
  <2>2. ASSUME NEW i \in DOMAIN out
        PROVE  IsWhole(out[i]) /\ First[FrameOf(out[i]) + 1] - 1 <= p
    <3>1. IsWhole(out[i]) /\ First[FrameOf(out[i]) + 1] - 1 <= seq
      BY DEF InSequence
    <3>2. PICK k \in Frames : out[i].data = WholeFrame(k)
      BY <3>1 DEF IsWhole
    <3>3. First[FrameOf(out[i]) + 1] \in Nat
      BY <3>2, WholeFacts, FrameFacts
    <3> QED
      BY <1>1, <3>1, <3>3
  <2>3. InOrder'
    BY <2>1 DEF InSequence, InOrder, Sound
  <2> QED
    BY <2>1, <2>2, <2>3
<1>3. CASE Chunk(p) = 0 \/ Follows25(p)
  <2>1. /\ Piece(waitData', Frame(p)) /\ Len(waitData') = Chunk(p) + 1
        /\ waitData' \in Seq(Packets)
        /\ \/ ~IsLast(p) /\ waitCSeq' = p /\ UNCHANGED outVars
           \/ /\ IsLast(p) /\ waitCSeq' = p - 1
              /\ Hand(waitData') /\ waitData' = WholeFrame(Frame(p))
    BY <1>3, ChunkTurn
  <2>2. CASE ~IsLast(p) /\ waitCSeq' = p /\ UNCHANGED outVars
    BY <1>1, <1>2, <2>1, <2>2
  <2>3. CASE IsLast(p) /\ waitCSeq' = p - 1 /\ Hand(waitData') /\ waitData' = WholeFrame(Frame(p))
    <3>1. waitData' = WholeFrame(Frame(p))
      BY <2>3
    <3>2. /\ \A i \in DOMAIN out' : IsWhole(out'[i]) /\ First[FrameOf(out'[i]) + 1] - 1 <= p
          /\ InOrder'
      BY <2>1, <2>3, <3>1, InSequenceHand
    <3>3. waitCSeq' <= p /\ waitCSeq' # p
      BY <1>1, <2>3
    <3> QED
      BY <3>2, <3>3
  <2> QED
    BY <2>1, <2>2, <2>3
<1>4. CASE ~(Chunk(p) = 0 \/ Follows25(p))
  <2>1. UNCHANGED <<waitCSeq, outVars>>
    BY <1>4 DEF HandleChunk
  <2>2. waitCSeq' <= p /\ waitCSeq' # p
    BY <1>1, <2>1
  <2> QED
    BY <1>2, <2>1, <2>2
<1> QED
  BY <1>3, <1>4

\* What was past stays past, and nothing else becomes it.
PastBuffered == {q \in Buffered : Past(q)}

LEMMA FewerPast ==
    ASSUME OneRound, MediaTyped, MediaTyped', Cardinality(PastBuffered) < BufferSize,
           PastBuffered' \subseteq PastBuffered
    PROVE  Cardinality(PastBuffered') < BufferSize
<1>1. IsFiniteSet(PastBuffered) /\ Cardinality(PastBuffered) \in Nat
  <2>1. PastBuffered \subseteq Buffered
    BY DEF PastBuffered
  <2>2. IsFiniteSet(PastBuffered)
    BY <2>1, InBuffer, FS_Subset
  <2> QED
    BY <2>2, FS_CardinalityType
<1>2. IsFiniteSet(PastBuffered') /\ Cardinality(PastBuffered') <= Cardinality(PastBuffered)
  BY <1>1, FS_Subset
<1>3. Cardinality(PastBuffered') \in Nat
  BY <1>2, FS_CardinalityType
<1> QED
  BY <1>1, <1>2, <1>3, Constants

LEMMA PastNumbers ==
    ASSUME OneRound, MediaTyped, NEW q \in Packets
    PROVE  Past(q) <=> q <= seq
<1>1. SeqOf(q) = q - 1 /\ q \in Nat /\ seq \in Nat
  BY Numbers, PacketFacts DEF MediaTyped
<1> QED
  BY <1>1 DEF Past

\* Pop goes forward: to the nearest packet whose turn is not over.
LEMMA PopForward ==
    ASSUME OneRound, FrameInv, InSequence, kind = "session25", ~flooded, Pop
    PROVE  /\ Next25 \in DOMAIN buf /\ Next25 + 1 \in Packets /\ Next25 \in Nat
           /\ seq <= Next25 /\ \A t \in DOMAIN buf : seq <= t => Next25 <= t
           /\ seq' = Next25 + 1 /\ HandleChunk(Next25 + 1)
           /\ DOMAIN buf' = DOMAIN buf \ {Next25}
           /\ UNCHANGED <<kind, netVars, flooded>>
<1>1. TypeOK /\ AtRest /\ MediaTyped /\ seq \in 0..(SeqSpace - 1)
  BY TwoSides DEF FrameInv, MediaTyped
<1>2. /\ Next25 \in DOMAIN buf /\ buf[Next25] \in Packets
      /\ buf[Next25] = Next25 + 1 /\ Next25 \in 0..(SeqSpace - 1)
  BY <1>1, TypedPop, InBuffer DEF MediaTyped
<1>3. /\ buf' = [t \in DOMAIN buf \ {Next25} |-> buf[t]]
      /\ seq' = (Next25 + 1) % SeqSpace /\ HandleChunk(buf[Next25])
      /\ UNCHANGED <<kind, netVars, flooded>>
  BY DEF Pop
<1>4. seq' = Next25 + 1
  BY <1>2, <1>3, Numbers
<1>5. PICK t \in DOMAIN buf : seq <= t
  <2>1. CASE seq \in DOMAIN buf
    BY <1>1, <2>1
  <2>2. CASE ~Room
    <3> SUFFICES ASSUME \A t \in DOMAIN buf : ~(seq <= t) PROVE FALSE
      OBVIOUS
    <3>1. \A q \in Buffered : Past(q)
      <4> SUFFICES ASSUME NEW q \in Buffered PROVE Past(q)
        OBVIOUS
      <4>1. q \in Packets /\ q - 1 \in DOMAIN buf /\ q \in Nat
        BY <1>1, InBuffer, PacketFacts
      <4>2. ~(seq <= q - 1)
        BY <4>1
      <4> QED
        BY <1>1, <4>1, <4>2, PastNumbers
    <3>2. PastBuffered = Buffered
      BY <3>1 DEF PastBuffered
    <3>3. Cardinality(Buffered) < BufferSize
      BY <3>2 DEF InSequence, PastBuffered
    <3>4. Cardinality(DOMAIN buf) <= Cardinality(Buffered) /\ Cardinality(Buffered) \in Nat
          /\ Cardinality(DOMAIN buf) \in Nat
      BY <1>1, InBuffer, BufferFinite
    <3> QED
      BY <2>2, <3>3, <3>4, Constants DEF Room
  <2> QED
    BY <2>1, <2>2 DEF Pop
<1>6. ASSUME NEW u \in DOMAIN buf, seq <= u PROVE seq <= Next25 /\ Next25 <= u
  <2>1. u \in 0..(SeqSpace - 1) /\ (Next25 - seq) % SeqSpace <= (u - seq) % SeqSpace
    BY <1>1, <1>6, NextIsNearest DEF MediaTyped
  <2>2. (u - seq) % SeqSpace = u - seq
    <3>1. (u - seq) % SeqSpace = IF u >= seq THEN u - seq ELSE SeqSpace + (u - seq)
      BY <1>1, <2>1, Ahead
    <3> QED
      BY <1>1, <1>6, <2>1, <3>1
  <2>3. (Next25 - seq) % SeqSpace =
           IF Next25 >= seq THEN Next25 - seq ELSE SeqSpace + (Next25 - seq)
    BY <1>1, <1>2, Ahead
  <2> DEFINE n == Next25
             away == (n - seq) % SeqSpace
  <2>4. away <= u - seq /\ away = IF n >= seq THEN n - seq ELSE SeqSpace + (n - seq)
    BY <2>1, <2>2, <2>3
  <2>5. n \in 0..(SeqSpace - 1) /\ seq \in 0..(SeqSpace - 1) /\ SeqSpace \in Nat
    BY <1>1, <1>2, Constants
  <2> HIDE DEF n, away
  <2>6. seq <= n /\ n <= u
    BY <2>1, <2>4, <2>5
  <2> QED
    BY <2>6 DEF n
<1>7. seq <= Next25 /\ \A u \in DOMAIN buf : seq <= u => Next25 <= u
  BY <1>5, <1>6
<1>8. DOMAIN buf' = DOMAIN buf \ {Next25}
  BY <1>3
<1> QED
  BY <1>2, <1>3, <1>4, <1>7, <1>8

\* A packet that comes in its turn.
LEMMA CheckForward ==
    ASSUME OneRound, FrameInv, NEW p \in Packets, Check(p), Receive25(p)
    PROVE  /\ p = seq + 1 /\ seq' = p /\ HandleChunk(p) /\ UNCHANGED <<buf, flooded>>
           /\ seq \in Nat
<1>1. seq \in 0..(SeqSpace - 1)
  BY TwoSides DEF FrameInv, MediaTyped
<1>2. SeqOf(p) = p - 1 /\ (SeqOf(p) + 1) % SeqSpace = p /\ p \in Nat
  BY Numbers, PacketFacts
<1>3. seq = SeqOf(p) /\ seq' = (seq + 1) % SeqSpace /\ HandleChunk(p) /\ UNCHANGED <<buf, flooded>>
  BY DEF Receive25, Check
<1> QED
  BY <1>1, <1>2, <1>3

LEMMA Pushed ==
    ASSUME OneRound, MediaTyped, MediaTyped', NEW p \in Packets, Push(p)
    PROVE  Buffered' = Buffered \cup {p}
<1>1. DOMAIN buf' = DOMAIN buf \cup {SeqOf(p)} /\ SeqOf(p) = p - 1
  BY PushTyped, Numbers
<1>2. \A q : q \in Buffered <=> q \in Packets /\ q - 1 \in DOMAIN buf
  BY InBuffer
<1>3. ASSUME NEW q PROVE q \in Buffered' <=> q \in Packets /\ q - 1 \in DOMAIN buf'
  <2>1. buf' \in [DOMAIN buf' -> Packets] /\ \A s \in DOMAIN buf' : SeqOf(buf'[s]) = s
    BY DEF MediaTyped
  <2>2. ASSUME NEW s \in DOMAIN buf' PROVE buf'[s] \in Packets /\ buf'[s] - 1 = s /\ buf'[s] \in Nat
    <3>1. buf'[s] \in Packets /\ SeqOf(buf'[s]) = s
      BY <2>1
    <3> QED
      BY <3>1, Numbers, PacketFacts
  <2>3. ASSUME q \in Buffered' PROVE q \in Packets /\ q - 1 \in DOMAIN buf'
    <3>1. PICK s \in DOMAIN buf' : q = buf'[s]
      BY <2>3 DEF Buffered
    <3> QED
      BY <2>2, <3>1
  <2>4. ASSUME q \in Packets, q - 1 \in DOMAIN buf' PROVE q \in Buffered'
    <3>1. buf'[q - 1] - 1 = q - 1 /\ buf'[q - 1] \in Nat /\ q \in Nat
      BY <2>2, <2>4, PacketFacts
    <3>2. buf'[q - 1] = q
      BY <3>1
    <3> QED
      BY <2>4, <3>2 DEF Buffered
  <2> QED
    BY <2>3, <2>4
<1>4. ASSUME NEW q \in Packets, q - 1 = p - 1 PROVE q = p
  BY <1>4, PacketFacts
<1>5. ASSUME NEW q PROVE q \in Buffered' <=> q \in Buffered \cup {p}
  BY <1>1, <1>2, <1>3, <1>4
<1> QED
  BY <1>5

LEMMA InSequenceInit == Init => InSequence
<1> SUFFICES ASSUME Init PROVE InSequence
  OBVIOUS
<1>1. Buffered = {} /\ {q \in Buffered : Past(q)} = {}
  BY DEF Init, Buffered
<1>2. Cardinality({q \in Buffered : Past(q)}) = 0 /\ 0 < BufferSize
  BY <1>1, FS_EmptySet, Constants
<1>3. DOMAIN out = {}
  BY DEF Init
<1> QED
  BY <1>2, <1>3 DEF Init, InSequence, InOrder

LEMMA InSequenceStep ==
    ASSUME OneRound, FrameInv, FrameInv', InSequence, [Next]_vars
    PROVE  InSequence'
<1>1. TypeOK /\ AtRest /\ MediaTyped /\ MediaTyped' /\ Assembling
  <2>1. TypeOK' => MediaTyped'
    BY Zenon DEF TypeOK, MediaTyped, Channels, Clock, OutItem
  <2> QED
    BY <2>1, TwoSides DEF FrameInv
<1>2. ASSUME UNCHANGED <<kind, seq, flooded, buf, waitCSeq, waitData, out>> PROVE InSequence'
  BY <1>2 DEF InSequence, Buffered, Past, InOrder, Sound, Piece, IsWhole
<1>3. ASSUME kind # "session25", UNCHANGED <<kind, seq>> PROVE InSequence'
  BY <1>3 DEF InSequence
<1>4. ASSUME kind = "session25", ~flooded, UNCHANGED <<kind, flooded>>,
             NEW p \in Packets, p > seq, seq' = p, HandleChunk(p),
             PastBuffered' \subseteq PastBuffered
      PROVE  InSequence'
  <2>1. Cardinality(PastBuffered') < BufferSize
    BY <1>1, <1>4, FewerPast DEF InSequence, PastBuffered
  <2>2. /\ waitCSeq' <= p
        /\ waitCSeq' = p =>
               Piece(waitData', Frame(p)) /\ Len(waitData') = Chunk(p) + 1 /\ ~IsLast(p)
        /\ \A i \in DOMAIN out' : IsWhole(out'[i]) /\ First[FrameOf(out'[i]) + 1] - 1 <= p
        /\ InOrder'
    BY <1>4, InSequenceChunk
  <2> QED
    BY <1>4, <2>1, <2>2 DEF InSequence, PastBuffered
<1>5. ASSUME NEW p \in Packets, Arrive(p) \/ Repeat(p) PROVE InSequence'
  <2>1. Take(p) /\ UNCHANGED kind /\ loop = "idle"
    BY <1>5 DEF Arrive, Repeat, Take
  <2>2. CASE ~Receive25(p)
    BY <1>3, <2>1, <2>2 DEF Take, Receive16, Handle, bufVars
  <2>3. CASE Receive25(p) /\ Check(p)
    <3>1. /\ p = seq + 1 /\ seq' = p /\ HandleChunk(p) /\ UNCHANGED <<buf, flooded>>
          /\ seq \in Nat /\ kind = "session25"
      BY <2>3, CheckForward DEF Receive25
    <3>2. CASE flooded
      BY <2>1, <3>1, <3>2 DEF InSequence
    <3>3. CASE ~flooded
      <4>1. seq \notin DOMAIN buf
        BY <1>1, <2>1 DEF AtRest
      <4>2. ASSUME NEW q \in PastBuffered' PROVE q \in PastBuffered
        <5>1. q \in Buffered /\ seq' > SeqOf(q)
          BY <3>1 DEF PastBuffered, Past, Buffered
        <5>2. q \in Packets /\ q - 1 \in DOMAIN buf /\ SeqOf(q) = q - 1 /\ q \in Nat
          BY <1>1, <5>1, InBuffer, Numbers, PacketFacts
        <5>3. q - 1 # seq
          BY <4>1, <5>2
        <5> QED
          BY <3>1, <5>1, <5>2, <5>3 DEF PastBuffered, Past
      <4>3. p > seq
        BY <3>1
      <4> QED
        BY <1>4, <2>1, <3>1, <3>3, <4>2, <4>3
    <3> QED
      BY <3>2, <3>3
  <2>4. CASE Receive25(p) /\ ~Check(p)
    <3>1. /\ Push(p) /\ UNCHANGED <<seq, waitCSeq, waitData, out>> /\ kind = "session25"
          /\ flooded' = (flooded \/ BufferSize <= Cardinality(
                           {q \in {buf[s] : s \in DOMAIN buf} \cup {p} : Past(q)}))
      BY <2>4 DEF Receive25, outVars
    <3>2. CASE flooded'
      BY <2>1, <3>1, <3>2 DEF InSequence
    <3>3. CASE ~flooded'
      <4>1. Buffered' = Buffered \cup {p}
        BY <1>1, <3>1, Pushed
      <4>2. ~flooded /\ ~(BufferSize <= Cardinality({q \in Buffered \cup {p} : Past(q)}))
        BY <3>1, <3>3 DEF Buffered
      <4>3. PastBuffered' = {q \in Buffered \cup {p} : Past(q)}
        BY <3>1, <4>1 DEF PastBuffered, Past
      <4>4. Cardinality(PastBuffered') \in Nat
        <5>1. IsFiniteSet(Buffered \cup {p})
          BY <1>1, InBuffer, FS_AddElement
        <5>2. IsFiniteSet(PastBuffered')
          BY <4>3, <5>1, FS_Subset
        <5> QED
          BY <5>2, FS_CardinalityType
      <4>5. Cardinality(PastBuffered') < BufferSize
        BY <4>2, <4>3, <4>4, Constants
      <4> QED
        BY <2>1, <3>1, <4>2, <4>5 DEF InSequence, PastBuffered, InOrder, Sound, Piece, IsWhole
    <3> QED
      BY <3>2, <3>3
  <2> QED
    BY <2>2, <2>3, <2>4
<1>6. ASSUME NEW p \in Packets, Lose(p) PROVE InSequence'
  BY <1>2, <1>6 DEF Lose, waitVars, bufVars, outVars
<1>7. CASE Pop
  <2>1. loop # "idle" /\ UNCHANGED <<kind, flooded>>
    BY <1>7 DEF Pop
  <2>2. kind = "session25"
    BY <1>1, <2>1 DEF Assembling
  <2>3. CASE flooded
    <3>1. Next25 \in DOMAIN buf /\ buf[Next25] \in Packets /\ Next25 \in 0..(SeqSpace - 1)
      BY <1>1, <1>7, TypedPop DEF MediaTyped
    <3>2. buf[Next25] = Next25 + 1
      BY <1>1, <3>1, InBuffer
    <3>3. seq' = (Next25 + 1) % SeqSpace
      BY <1>7 DEF Pop
    <3>4. seq' \in Packets
      BY <3>1, <3>2, <3>3, Numbers
    <3> QED
      BY <2>1, <2>3, <3>4 DEF InSequence
  <2>4. CASE ~flooded
    <3>1. /\ Next25 \in DOMAIN buf /\ Next25 + 1 \in Packets /\ Next25 \in Nat
          /\ seq <= Next25 /\ \A t \in DOMAIN buf : seq <= t => Next25 <= t
          /\ seq' = Next25 + 1 /\ HandleChunk(Next25 + 1)
          /\ DOMAIN buf' = DOMAIN buf \ {Next25}
      BY <1>7, <2>2, <2>4, PopForward
    <3>2. seq \in Nat
      BY <1>1 DEF MediaTyped
    <3>3. ASSUME NEW q \in PastBuffered' PROVE q \in PastBuffered
      <4>1. q \in Buffered' /\ seq' > SeqOf(q)
        BY DEF PastBuffered, Past
      <4>2. PICK t \in DOMAIN buf' : q = buf'[t]
        BY <4>1 DEF Buffered
      <4>3. q \in Packets /\ SeqOf(q) = t /\ t \in Nat
        BY <1>1, <4>2 DEF MediaTyped
      <4>4. t \in DOMAIN buf /\ t # Next25
        BY <3>1, <4>2
      <4>5. buf[t] = q
        BY <1>7, <3>1, <4>2 DEF Pop
      <4>6. t < seq
        BY <3>1, <3>2, <4>1, <4>3, <4>4
      <4> QED
        BY <3>2, <4>3, <4>4, <4>5, <4>6 DEF PastBuffered, Buffered, Past
    <3>4. Next25 + 1 > seq
      BY <3>1, <3>2
    <3> QED
      BY <1>4, <2>1, <2>2, <2>4, <3>1, <3>3, <3>4
  <2> QED
    BY <2>3, <2>4
<1>8. CASE Popped
  BY <1>2, <1>8 DEF Popped, waitVars, outVars
<1>9. CASE ReadPacket
  BY <1>2, <1>9 DEF ReadPacket, waitVars, bufVars
<1>10. CASE Close
  BY <1>2, <1>10 DEF Close, waitVars, bufVars, outVars
<1>11. CASE UNCHANGED vars
  BY <1>2, <1>11 DEF vars, waitVars, bufVars, outVars
<1> QED
  BY <1>5, <1>6, <1>7, <1>8, <1>9, <1>10, <1>11 DEF Next

LEMMA SequenceStep ==
    ASSUME OneRound, SequenceInv, [Next]_vars
    PROVE  SequenceInv'
<1>1. FrameInv /\ InSequence
  BY DEF SequenceInv
<1>2. FrameInv'
  BY <1>1, FrameStep
<1>3. InSequence'
  BY <1>1, <1>2, InSequenceStep
<1> QED
  BY <1>2, <1>3 DEF SequenceInv

LEMMA IntactInSequence == SequenceInv => FramesIntact
<1> SUFFICES ASSUME SequenceInv, Sound PROVE FramesIntact
  BY DEF FramesIntact, WholeFrames, InOrder
<1>1. \A i \in DOMAIN out : IsWhole(out[i])
  BY DEF SequenceInv, FrameInv, Assembling, InSequence, Sound
<1>2. \A i \in DOMAIN out : out[i].data = WholeFrame(FrameOf(out[i]))
  BY <1>1, WholeFacts DEF IsWhole
<1>3. InOrder
  BY DEF SequenceInv, InSequence, InOrder, Sound
<1> QED
  BY <1>2, <1>3 DEF FramesIntact, WholeFrames

\* The two receivers that do not reorder hand on nothing but whole frames however often
\* the sequence numbers come round: a packet that is lost, late or repeated spoils at
\* most the frame it belongs to (SessionRead, handleChunk, handleVideo, handleAudio).
THEOREM AssembledIsIntact == Spec => [](kind # "session25" => FramesIntact)
<1>1. Init => FrameInv
  BY FrameInit
<1>2. FrameInv /\ [Next]_vars => FrameInv'
  BY FrameStep
<1>3. FrameInv => (kind # "session25" => FramesIntact)
  <2> SUFFICES ASSUME FrameInv, kind # "session25" PROVE FramesIntact
    OBVIOUS
  <2>1. \A i \in DOMAIN out : IsWhole(out[i])
    BY DEF FrameInv, Assembling
  <2>2. \A i \in DOMAIN out : out[i].data = WholeFrame(FrameOf(out[i]))
    BY <2>1, WholeFacts DEF IsWhole
  <2> QED
    BY <2>2 DEF FramesIntact, WholeFrames, InOrder
<1> QED
  BY <1>1, <1>2, <1>3, PTL DEF Spec

\* While the sequence numbers have not come round, nothing but whole frames is handed
\* on by any of the three receivers, whatever the network loses, delays or repeats, and
\* Session25 hands them on in order (SessionRead, handleChunk, Pop, handleVideo).
THEOREM FramesAreIntact == OneRound => (Spec => []FramesIntact)
<1> SUFFICES ASSUME OneRound PROVE Spec => []FramesIntact
  OBVIOUS
<1>1. Init => SequenceInv
  BY FrameInit, InSequenceInit DEF SequenceInv
<1>2. SequenceInv /\ [Next]_vars => SequenceInv'
  BY SequenceStep
<1>3. SequenceInv => FramesIntact
  BY IntactInSequence
<1> QED
  BY <1>1, <1>2, <1>3, PTL DEF Spec

-----------------------------------------------------------------------------
(* Session25 loses nothing.                                                *)

LEMMA HandedOnTwice ==
    ASSUME TypeOK, NEW d \in Seq(Packets), Hand(d), NEW k, HandedOn(k)
    PROVE  HandedOn(k)'
<1>1. out \in Seq(OutItem) /\ Item(d, 0) \in OutItem
  BY ItemFacts DEF TypeOK, OutItem
<1>2. PICK i \in DOMAIN out : FrameOf(out[i]) = k
  BY DEF HandedOn
<1>3. i \in DOMAIN out' /\ out'[i] = out[i]
  <2>1. CASE out' = out
    BY <2>1
  <2>2. CASE out' = Append(out, Item(d, 0))
    BY <1>1, <2>2, OneMore
  <2> QED
    BY <2>1, <2>2, HandTyped
<1> QED
  BY <1>2, <1>3 DEF HandedOn, FrameOf

LEMMA ChunkKeepsHanded ==
    ASSUME TypeOK, NEW p \in Packets, HandleChunk(p), NEW k, HandedOn(k)
    PROVE  HandedOn(k)'
<1>1. CASE UNCHANGED outVars
  BY <1>1 DEF HandedOn, outVars, FrameOf
<1>2. CASE Hand(waitData')
  <2>1. waitData' \in Seq(Packets)
    BY TypedChunk
  <2> QED
    BY <1>2, <2>1, HandedOnTwice
<1> QED
  BY <1>1, <1>2 DEF HandleChunk

\* The numbers of a packet and of the turn are as far apart as the packets, as long as
\* it is less than a round.
LEMMA Apart ==
    ASSUME NEW t \in Nat, NEW q \in Packets, t < q, q <= t + SeqSpace
    PROVE  (SeqOf(q) - (t % SeqSpace)) % SeqSpace = q - t - 1
<1> DEFINE S == SeqSpace
           c == t \div S
           m == t % S
           e == (q - 1) \div S
           n == (q - 1) % S
           d == q - t - 1
<1>1. S \in Nat /\ S > 0 /\ q \in Nat /\ q - 1 \in Int /\ d \in 0..(S - 1) /\ d \in Int
  BY Constants, PacketFacts
<1>2. m \in 0..(S - 1) /\ c \in Int /\ t = S * c + m
  BY <1>1, DivMod
<1>3. n \in 0..(S - 1) /\ e \in Int /\ q - 1 = S * e + n
  BY <1>1, DivMod
<1>4. SeqOf(q) = n
  BY DEF SeqOf
<1>5. (q - 1) - t = d
  BY <1>1
<1> HIDE DEF S, c, m, e, n, d
<1>6. S * (c - e) = S * c - S * e /\ S * c \in Int /\ S * e \in Int /\ c - e \in Int
  BY <1>1, <1>2, <1>3
<1>7. n - m = S * (c - e) + d /\ n - m \in Int
  BY <1>1, <1>2, <1>3, <1>5, <1>6
<1>8. (n - m) % S = d
  BY <1>1, <1>6, <1>7, ModUnique
<1>9. (SeqOf(q) - m) % S = d
  BY <1>4, <1>8
<1>10. (SeqOf(q) - (t % S)) % S = d
  BY <1>9 DEF m
<1> QED
  BY <1>1, <1>10 DEF S, d

\* Packets of one round have different numbers.
LEMMA OneNumber ==
    ASSUME NEW t \in Nat, NEW q \in Packets, t < q, q <= t + SeqSpace,
           NEW r \in Packets, t < r, r <= t + SeqSpace, SeqOf(q) = SeqOf(r)
    PROVE  q = r
<1>1. q - t - 1 = r - t - 1
  BY Apart
<1>2. q \in Nat /\ r \in Nat
  BY PacketFacts
<1> QED
  BY <1>1, <1>2

\* The number after a packet's is that of the next one.
LEMMA NumberAfter ==
    ASSUME NEW p \in Packets
    PROVE  (SeqOf(p) + 1) % SeqSpace = p % SeqSpace
<1> DEFINE S == SeqSpace
           e == (p - 1) \div S
           n == (p - 1) % S
<1>1. S \in Nat /\ S > 0 /\ p \in Nat /\ p - 1 \in Int
  BY Constants, PacketFacts
<1>2. n \in 0..(S - 1) /\ e \in Int /\ p - 1 = S * e + n
  BY <1>1, DivMod
<1>3. SeqOf(p) = n
  BY DEF SeqOf
<1> HIDE DEF S, e, n
<1>4. S * e \in Int /\ p = S * e + (n + 1) /\ n + 1 \in Int
  BY <1>1, <1>2
<1>5. CASE n + 1 < S
  <2>1. n + 1 \in 0..(S - 1) /\ n + 1 = S * 0 + (n + 1)
    BY <1>1, <1>2, <1>5
  <2>2. (n + 1) % S = n + 1
    BY <1>1, <1>4, <2>1, ModUnique
  <2>3. p % S = n + 1
    BY <1>1, <1>2, <1>4, <2>1, ModUnique
  <2> QED
    BY <1>3, <2>2, <2>3 DEF S
<1>6. CASE n + 1 = S
  <2>1. 0 \in 0..(S - 1) /\ S * 1 = S /\ n + 1 = S * 1 + 0
    <3>1. 0 \in 0..(S - 1)
      BY <1>1
    <3>2. S * 1 = S
      BY <1>1
    <3> QED
      BY <1>1, <1>6, <3>1, <3>2
  <2>2. (n + 1) % S = 0
    BY <1>1, <1>4, <2>1, ModUnique
  <2>3. S * (e + 1) = S * e + S /\ e + 1 \in Int
    BY <1>1, <1>2
  <2>4. PICK f \in Int : f = e + 1
    BY <2>3
  <2>5. p = S * f + 0
    BY <1>1, <1>4, <1>6, <2>3, <2>4
  <2>6. p % S = 0
    BY <1>1, <2>1, <2>5, ModUnique
  <2> QED
    BY <1>3, <2>2, <2>6 DEF S
<1>7. n + 1 < S \/ n + 1 = S
  BY <1>1, <1>2
<1> QED
  BY <1>5, <1>6, <1>7

\* What InTurn says of the turn and of the buffer.
LEMMA TurnFacts ==
    ASSUME FrameInv, NEW t, InTurn(t)
    PROVE  /\ t \in Nat
           /\ t + 1 \in Packets => SeqOf(t + 1) = seq
           /\ \A q \in Buffered : q \in Packets /\ t < q /\ q <= t + SeqSpace /\ q \in arrived
           /\ \A s \in DOMAIN buf : buf[s] \in Buffered /\ SeqOf(buf[s]) = s
           /\ t + 1 \in Buffered <=> seq \in DOMAIN buf
           /\ seq \in DOMAIN buf => buf[seq] = t + 1
<1>1. /\ MediaTyped /\ arrived \subseteq Packets /\ t \in Nat /\ seq = t % SeqSpace
  BY TwoSides, PacketFacts DEF FrameInv, NetTyped, InTurn
<1>2. t + 1 \in Packets => SeqOf(t + 1) = seq
  <2>1. (t + 1) - 1 = t
    BY <1>1
  <2> QED
    BY <1>1, <2>1 DEF SeqOf
<1>3. \A q \in Buffered : q \in Packets /\ t < q /\ q <= t + SeqSpace /\ q \in arrived
  <2> SUFFICES ASSUME NEW q \in Buffered
               PROVE  q \in Packets /\ t < q /\ q <= t + SeqSpace /\ q \in arrived
    OBVIOUS
  <2>1. q \in arrived /\ q > t /\ q <= t + SeqSpace
    BY DEF InTurn
  <2> QED
    BY <1>1, <2>1, PacketFacts
<1>4. \A s \in DOMAIN buf : buf[s] \in Buffered /\ SeqOf(buf[s]) = s
  BY <1>1 DEF MediaTyped, Buffered
<1>5. ASSUME t + 1 \in Buffered PROVE seq \in DOMAIN buf
  <2>1. PICK s \in DOMAIN buf : buf[s] = t + 1
    BY <1>5 DEF Buffered
  <2>2. SeqOf(t + 1) = s /\ t + 1 \in Packets
    BY <1>3, <1>4, <1>5, <2>1
  <2> QED
    BY <1>2, <2>1, <2>2
<1>6. ASSUME seq \in DOMAIN buf PROVE buf[seq] = t + 1
  <2> DEFINE q == buf[seq]
  <2>1. q \in Packets /\ t < q /\ q <= t + SeqSpace /\ SeqOf(q) = seq /\ q \in Nat
    BY <1>3, <1>4, <1>6, PacketFacts
  <2>2. (SeqOf(q) - (t % SeqSpace)) % SeqSpace = q - t - 1
    <3> HIDE DEF q
    <3> QED
      BY <1>1, <2>1, Apart
  <2>3. (seq - seq) % SeqSpace = 0
    <3>1. 0 = SeqSpace * 0 + 0 /\ 0 \in 0..(SeqSpace - 1)
      BY Constants
    <3>2. 0 % SeqSpace = 0
      BY <3>1, Constants, ModUnique
    <3>3. seq - seq = 0
      BY <1>1 DEF MediaTyped
    <3> QED
      BY <3>2, <3>3
  <2> HIDE DEF q
  <2>4. q - t - 1 = 0
    <3>1. SeqOf(q) = seq /\ t % SeqSpace = seq
      BY <1>1, <2>1
    <3>2. (seq - seq) % SeqSpace = q - t - 1
      BY <2>2, <3>1, Zenon
    <3> QED
      BY <2>3, <3>2, Zenon
  <2>5. q = t + 1
    BY <1>1, <2>1, <2>4
  <2> QED
    BY <2>5 DEF q
<1>7. t + 1 \in Buffered <=> seq \in DOMAIN buf
  BY <1>4, <1>5, <1>6
<1> QED
  BY <1>1, <1>2, <1>3, <1>4, <1>6, <1>7

\* The next packet: its chunk goes on, or its frame is handed on.
LEMMA NextChunk ==
    ASSUME FrameInv, NEW t, InTurn(t), NEW p \in Packets, p = t + 1, HandleChunk(p)
    PROVE  /\ \/ IsLast(p)
              \/ /\ waitCSeq' = p % SeqSpace
                 /\ Piece(waitData', Frame(p)) /\ Len(waitData') = Chunk(p) + 1
           /\ HandedUpTo(p)'
           /\ dropped' = 0 => \A k \in Frames : First[k + 1] - 1 <= p => HandedOn(k)'
<1>1. TypeOK /\ dropped \in Nat /\ out \in Seq(OutItem)
  BY TwoSides DEF FrameInv, MediaTyped
<1>2. t \in Nat /\ p \in Nat /\ SeqOf(p) = seq
  BY TurnFacts, PacketFacts
<1>3. \/ Chunk(p) = 0
      \/ Follows25(p) /\ Piece(waitData, Frame(p)) /\ Len(waitData) = Chunk(p)
  <2> SUFFICES ASSUME Chunk(p) # 0
               PROVE  Follows25(p) /\ Piece(waitData, Frame(p)) /\ Len(waitData) = Chunk(p)
    OBVIOUS
  <2>1. p - 1 = t
    BY <1>2
  <2>2. t \in Packets /\ Frame(t) = Frame(p) /\ Chunk(t) + 1 = Chunk(p) /\ ~IsLast(t) /\ t > 0
    <3>1. t \in Packets /\ Frame(t) = Frame(p) /\ Chunk(t) + 1 = Chunk(p) /\ ~IsLast(t)
      BY <2>1, PacketBefore
    <3> QED
      BY <3>1, PacketFacts
  <2>3. waitCSeq = seq /\ Piece(waitData, Frame(t)) /\ Len(waitData) = Chunk(t) + 1
    BY <2>2 DEF InTurn
  <2> QED
    BY <1>2, <2>2, <2>3 DEF Follows25
<1>4. /\ Piece(waitData', Frame(p)) /\ Len(waitData') = Chunk(p) + 1
      /\ waitData' \in Seq(Packets)
      /\ \/ ~IsLast(p) /\ waitCSeq' = (SeqOf(p) + 1) % SeqSpace /\ UNCHANGED outVars
         \/ /\ IsLast(p) /\ waitCSeq' = SeqOf(p)
            /\ Hand(waitData') /\ waitData' = WholeFrame(Frame(p))
  BY <1>1, <1>3, ChunkPiece
<1>5. IsLast(p) \/ waitCSeq' = p % SeqSpace
  BY <1>4, NumberAfter
<1>6. HandedUpTo(t) /\ p > t
  BY <1>2 DEF InTurn
<1>7. HandedUpTo(p)'
  <2>1. CASE IsLast(p)
    BY <1>1, <1>2, <1>4, <1>6, <2>1, HandInOrder
  <2>2. CASE ~IsLast(p)
    <3>1. out' = out
      BY <1>4, <2>2 DEF outVars
    <3>2. ASSUME NEW i \in DOMAIN out PROVE First[FrameOf(out[i]) + 1] - 1 <= p
      <4>1. IsWhole(out[i]) /\ First[FrameOf(out[i]) + 1] - 1 <= t
        BY <1>6 DEF HandedUpTo
      <4>2. First[FrameOf(out[i]) + 1] \in Nat
        BY <4>1, WholeFacts, FrameFacts DEF IsWhole
      <4> QED
        BY <1>2, <4>1, <4>2
    <3> QED
      BY <1>6, <3>1, <3>2 DEF HandedUpTo, FrameOf
  <2> QED
    BY <2>1, <2>2
<1>8. ASSUME dropped' = 0, NEW k \in Frames, First[k + 1] - 1 <= p PROVE HandedOn(k)'
  <2>1. First[k + 1] \in Nat /\ First[k] \in Nat /\ First[k] < First[k + 1]
    BY FrameFacts
  <2>2. dropped = 0
    <3>1. dropped' = dropped \/ dropped' = dropped + 1
      BY DEF HandleChunk, Hand, outVars
    <3> QED
      BY <1>1, <1>8, <3>1
  <2>3. CASE First[k + 1] - 1 <= t
    <3>1. HandedOn(k)
      BY <2>2, <2>3 DEF InTurn
    <3> QED
      BY <1>1, <3>1, ChunkKeepsHanded
  <2>4. CASE First[k + 1] - 1 = p
    <3>1. Frame(p) = k
      <4>1. First[k] <= p /\ p < First[k + 1] /\ p \in Int
        BY <1>2, <2>1, <2>4
      <4> QED
        BY <4>1, FrameOfPacket
    <3>2. IsLast(p)
      BY <2>4, <3>1, LastChunk
    <3>3. Hand(waitData') /\ waitData' = WholeFrame(k)
      BY <1>4, <3>1, <3>2
    <3>4. out' = Append(out, Item(waitData', 0))
      <4>1. \/ out' = Append(out, Item(waitData', 0)) /\ dropped' = dropped
            \/ out' = out /\ dropped' = dropped + 1
        BY <1>1, <1>4, <3>3, HandTyped
      <4> QED
        BY <1>8, <2>2, <4>1
    <3>5. Item(waitData', 0).data = WholeFrame(k) /\ Item(waitData', 0) \in OutItem
      BY <1>4, <3>3, ItemFacts
    <3>6. FrameOf(Item(waitData', 0)) = k
      BY <3>5, WholeFacts
    <3>7. Len(out) + 1 \in DOMAIN out' /\ out'[Len(out) + 1] = Item(waitData', 0)
      BY <1>1, <3>4, <3>5, OneMore
    <3> QED
      BY <3>6, <3>7 DEF HandedOn, FrameOf
  <2> QED
    BY <1>2, <1>8, <2>1, <2>3, <2>4
<1> QED
  BY <1>4, <1>5, <1>7, <1>8

LEMMA ArrivedFinite ==
    ASSUME NetTyped, NEW g
    PROVE  /\ IsFiniteSet(arrived) /\ IsFiniteSet({q \in arrived : q > g})
           /\ Cardinality({q \in arrived : q > g}) \in Nat
<1>1. IsFiniteSet(Packets)
  BY PacketsFinite
<1>2. IsFiniteSet(arrived)
  BY <1>1, FS_Subset DEF NetTyped
<1>3. IsFiniteSet({q \in arrived : q > g})
  BY <1>2, FS_Subset
<1> QED
  BY <1>2, <1>3, FS_CardinalityType

\* What was skipped stays missing, or comes too late.
LEMMA StillSkipped ==
    ASSUME NetTyped, NetTyped', Skipped, arrived \subseteq arrived', dropped' = 0 => dropped = 0,
           \A k \in Frames : HandedOn(k) => HandedOn(k)',
           \A p \in arrived' \ arrived : Cardinality({q \in arrived : q > p}) < BufferSize
    PROVE  Skipped'
<1>1. PICK g \in Packets \ arrived :
         /\ Cardinality({q \in arrived : q > g}) >= BufferSize
         /\ dropped = 0 => \A k \in Frames : First[k + 1] - 1 < g => HandedOn(k)
  BY DEF Skipped
<1> DEFINE A == {q \in arrived : q > g}
           B == {q \in arrived' : q > g}
<1>2. Cardinality(A) \in Nat
  BY ArrivedFinite
<1>3. g \notin arrived'
  <2> SUFFICES ASSUME g \in arrived' PROVE FALSE
    OBVIOUS
  <2>1. Cardinality(A) < BufferSize
    BY <1>1
  <2> HIDE DEF A
  <2> QED
    BY <1>1, <1>2, <2>1, Constants DEF A
<1>4. Cardinality(B) >= BufferSize
  <2>1. IsFiniteSet(B)
    <3>1. IsFiniteSet(Packets)
      BY PacketsFinite
    <3>2. B \subseteq Packets
      BY DEF NetTyped
    <3> HIDE DEF B
    <3> QED
      BY <3>1, <3>2, FS_Subset
  <2>2. A \in SUBSET B
    OBVIOUS
  <2>3. Cardinality(A) >= BufferSize
    BY <1>1
  <2> HIDE DEF A, B
  <2>4. Cardinality(A) <= Cardinality(B) /\ Cardinality(B) \in Nat
    BY <2>1, <2>2, FS_Subset, FS_CardinalityType
  <2> QED
    BY <1>2, <2>3, <2>4, Constants
<1>5. dropped' = 0 => \A k \in Frames : First[k + 1] - 1 < g => HandedOn(k)'
  BY <1>1
<1>6. g \in Packets
  BY <1>1
<1> QED
  BY <1>3, <1>4, <1>5, <1>6 DEF Skipped

\* The packet whose turn it is comes, or is taken out of the buffer.
LEMMA InTurnNext ==
    ASSUME FrameInv, NEW t, InTurn(t), NEW p \in Packets, p = t + 1, HandleChunk(p),
           seq' = (SeqOf(p) + 1) % SeqSpace,
           arrived' = arrived \cup {p}, Buffered' = Buffered \ {p}
    PROVE  InTurn(p)'
<1>1. t \in Nat /\ p \in Nat /\ p > 0 /\ arrived \subseteq Packets
  BY TurnFacts, PacketFacts, TwoSides DEF FrameInv, NetTyped
<1>2. seq' = p % SeqSpace
  BY NumberAfter
<1>3. 1..p \subseteq arrived'
  <2> SUFFICES ASSUME NEW n \in 1..p PROVE n \in arrived'
    OBVIOUS
  <2>1. n \in 1..t \/ n = p
    BY <1>1
  <2> QED
    BY <2>1 DEF InTurn
<1>4. Buffered' = {q \in arrived' : q > p}
  <2>1. ASSUME NEW q \in Packets PROVE q > t /\ q # p <=> q > p
    BY <1>1, <2>1, PacketFacts
  <2>2. \A q : q \in Buffered <=> q \in arrived /\ q > t
    BY DEF InTurn
  <2>3. ASSUME NEW q PROVE q \in Buffered' <=> q \in arrived' /\ q > p
    <3>1. CASE q \in arrived
      BY <1>1, <2>1, <2>2, <3>1
    <3>2. CASE q = p
      BY <1>1, <3>2
    <3>3. CASE q \notin arrived /\ q # p
      BY <2>2, <3>3
    <3> QED
      BY <3>1, <3>2, <3>3
  <2> QED
    BY <2>3
<1>5. \A q \in Buffered' : q <= p + SeqSpace
  <2> SUFFICES ASSUME NEW q \in Buffered PROVE q <= p + SeqSpace
    OBVIOUS
  <2>1. q \in Nat /\ q <= t + SeqSpace
    BY TurnFacts, PacketFacts
  <2> QED
    BY <1>1, <2>1, Constants
<1>6. /\ \/ IsLast(p)
         \/ /\ waitCSeq' = p % SeqSpace
            /\ Piece(waitData', Frame(p)) /\ Len(waitData') = Chunk(p) + 1
      /\ HandedUpTo(p)'
      /\ dropped' = 0 => \A k \in Frames : First[k + 1] - 1 <= p => HandedOn(k)'
  BY NextChunk
<1>7. /\ p \in {0} \cup Packets
      /\ \/ IsLast(p)
         \/ waitCSeq' = seq' /\ Piece(waitData', Frame(p)) /\ Len(waitData') = Chunk(p) + 1
  BY <1>2, <1>6
<1> QED
  BY <1>2, <1>3, <1>4, <1>5, <1>6, <1>7 DEF InTurn

\* What is common to the steps of the worker: nothing is taken back.
LEMMA NothingTakenBack ==
    ASSUME FrameInv, NEW p \in Packets, HandleChunk(p) \/ UNCHANGED outVars
    PROVE  /\ \A k : HandedOn(k) => HandedOn(k)'
           /\ dropped' = 0 => dropped = 0
<1>1. TypeOK /\ dropped \in Nat
  BY TwoSides DEF FrameInv, MediaTyped
<1>2. CASE UNCHANGED outVars
  BY <1>2 DEF outVars, HandedOn, FrameOf
<1>3. CASE HandleChunk(p)
  <2>1. \A k : HandedOn(k) => HandedOn(k)'
    BY <1>1, <1>3, ChunkKeepsHanded
  <2>2. dropped' = dropped \/ dropped' = dropped + 1
    BY <1>3 DEF HandleChunk, Hand, outVars
  <2> QED
    BY <1>1, <2>1, <2>2
<1> QED
  BY <1>2, <1>3

\* A packet that comes is less than a round ahead: what it overtakes is on its way.
LEMMA WithinRound ==
    ASSUME Roomy, FrameInv, NEW t, InTurn(t), lost = {}, NEW p \in Packets, Arrive(p)
    PROVE  t < p /\ p <= t + SeqSpace
<1>1. /\ p \in InFlight /\ p <= Min(InFlight) + Displacement /\ loop = "idle" /\ p \notin arrived
  BY DEF Arrive, InFlight, Take
<1>2. t \in Nat /\ p \in Nat /\ Displacement \in Nat /\ SeqSpace \in Nat /\ p >= 1
  BY TurnFacts, PacketFacts, Constants, MediaAssumption DEF MediaAssumption
<1>3. t < p
  <2>1. p \notin 1..t
    BY <1>1 DEF InTurn
  <2> QED
    BY <1>2, <2>1
<1>4. t + 1 \in Packets
  <2>1. First[Len(First)] - 1 \in Int /\ t + 1 \in 1..p
    BY <1>2, <1>3, Constants
  <2> QED
    BY <1>2, <2>1 DEF Packets
<1>5. t + 1 \in InFlight
  <2>1. seq \notin DOMAIN buf
    BY <1>1 DEF FrameInv, AtRest
  <2>2. t + 1 \notin Buffered
    BY <2>1, TurnFacts
  <2>3. t + 1 \notin arrived
    BY <1>2, <2>2 DEF InTurn
  <2> QED
    BY <1>4, <2>3 DEF InFlight
<1>6. Min(InFlight) <= t + 1 /\ Min(InFlight) \in Nat
  <2>1. InFlight \in SUBSET Nat /\ InFlight # {}
    BY <1>5, PacketFacts DEF InFlight
  <2>2. Min(InFlight) \in InFlight /\ \A y \in InFlight : Min(InFlight) <= y
    <3> HIDE DEF InFlight
    <3> QED
      BY <2>1, MinIsLeast
  <2> QED
    BY <1>5, <2>1, <2>2
<1>7. CASE OneRound
  <2>1. p \in 1..(SeqSpace - 1)
    BY <1>7 DEF OneRound
  <2> QED
    BY <1>2, <1>3, <2>1
<1>8. CASE Displacement < SeqSpace
  <2>1. p <= (t + 1) + Displacement
    BY <1>1, <1>2, <1>6
  <2> QED
    BY <1>2, <1>3, <1>8, <2>1
<1> QED
  BY <1>7, <1>8 DEF Roomy

\* A packet that comes before its turn is kept under a number nobody else has.
LEMMA InTurnPush ==
    ASSUME FrameInv, NEW t, InTurn(t), NEW p \in Packets, t < p, p <= t + SeqSpace,
           p \notin arrived, arrived' = arrived \cup {p}, Push(p),
           UNCHANGED <<seq, waitCSeq, waitData, outVars>>
    PROVE  InTurn(t)'
<1>1. t \in Nat /\ p \in Nat
  BY TurnFacts, PacketFacts
<1>2. SeqOf(p) \notin DOMAIN buf
  <2> SUFFICES ASSUME SeqOf(p) \in DOMAIN buf PROVE FALSE
    OBVIOUS
  <2> DEFINE q == buf[SeqOf(p)]
  <2>1. q \in Packets /\ t < q /\ q <= t + SeqSpace /\ q \in arrived /\ SeqOf(q) = SeqOf(p)
    BY TurnFacts
  <2> HIDE DEF q
  <2>2. q = p
    BY <1>1, <2>1, OneNumber
  <2> QED
    BY <2>1, <2>2
<1>3. Buffered' = Buffered \cup {p}
  <2> DEFINE n == SeqOf(p)
             D == DOMAIN buf
             new == [s \in D \cup {n} |-> IF s = n THEN p ELSE buf[s]]
  <2>1. buf' = new
    BY DEF Push
  <2>2. Buffered' = {new[s] : s \in D \cup {n}}
    BY <2>1 DEF Buffered
  <2>3. new[n] = p /\ \A s \in D : new[s] = buf[s]
    BY <1>2
  <2>4. Buffered = {buf[s] : s \in D}
    BY DEF Buffered
  <2> HIDE DEF new, D, n
  <2> QED
    BY <2>2, <2>3, <2>4
<1>4. Buffered' = {q \in arrived' : q > t}
  BY <1>1, <1>3 DEF InTurn
<1>5. \A q \in Buffered' : q <= t + SeqSpace
  BY <1>3 DEF InTurn
<1>6. /\ seq' = seq /\ waitCSeq' = waitCSeq /\ waitData' = waitData
      /\ out' = out /\ dropped' = dropped
  BY DEF outVars
<1>7. HandedUpTo(t)' /\ (dropped' = 0 => \A k \in Frames : First[k + 1] - 1 <= t => HandedOn(k)')
  BY <1>6 DEF InTurn, HandedUpTo, HandedOn, FrameOf
<1>8. 1..t \subseteq arrived'
  BY DEF InTurn
<1> QED
  BY <1>4, <1>5, <1>6, <1>7, <1>8 DEF InTurn

LEMMA KeptArrive ==
    ASSUME Roomy, FrameInv, FrameInv', Kept, NEW p \in Packets, Arrive(p), Punctual'
    PROVE  (\E t : InTurn(t)') \/ Skipped'
<1>1. /\ NetTyped /\ NetTyped' /\ p \in Nat
  <2>1. TypeOK' => NetTyped'
    BY Zenon DEF TypeOK, NetTyped
  <2> QED
    BY <2>1, TwoSides, PacketFacts DEF FrameInv
<1>2. /\ kind = "session25" /\ lost = {} /\ dups = 0
      /\ p \notin arrived /\ arrived' = arrived \cup {p} /\ Receive25(p)
      /\ ~late /\ ~(Cardinality({q \in arrived : q > p}) >= BufferSize)
  BY DEF Punctual, Arrive, InFlight, Take, Receive16, Handle
<1>3. \/ /\ Check(p) /\ HandleChunk(p) /\ UNCHANGED buf
         /\ seq' = (seq + 1) % SeqSpace
      \/ ~Check(p) /\ Push(p) /\ UNCHANGED <<seq, waitCSeq, waitData, outVars>>
  BY <1>2 DEF Receive25
<1>4. (\A k : HandedOn(k) => HandedOn(k)') /\ (dropped' = 0 => dropped = 0)
  BY <1>3, NothingTakenBack
<1>5. (\E t : InTurn(t)) \/ Skipped
  BY <1>2 DEF Kept, Punctual
<1>6. CASE Skipped
  <2>1. ASSUME NEW q \in arrived' \ arrived
        PROVE  Cardinality({r \in arrived : r > q}) < BufferSize
    <3>1. q = p
      BY <1>2
    <3>2. Cardinality({r \in arrived : r > p}) \in Nat
      BY <1>1, ArrivedFinite
    <3> QED
      BY <1>2, <3>1, <3>2, Constants
  <2> QED
    BY <1>1, <1>2, <1>4, <1>6, <2>1, StillSkipped
<1>7. ASSUME NEW t, InTurn(t) PROVE \E u : InTurn(u)'
  <2>1. t < p /\ p <= t + SeqSpace /\ t \in Nat
    BY <1>2, <1>7, WithinRound, TurnFacts
  <2>2. CASE Check(p)
    <3>1. SeqOf(p) = seq /\ HandleChunk(p) /\ seq' = (SeqOf(p) + 1) % SeqSpace /\ buf' = buf
      BY <1>3, <2>2 DEF Check
    <3>2. p = t + 1
      <4>1. t + 1 \in Packets
        <5>1. t + 1 \in 1..p /\ First[Len(First)] - 1 \in Int
          BY <1>1, <2>1, Constants
        <5> QED
          BY <1>1, <5>1 DEF Packets
      <4>2. SeqOf(t + 1) = SeqOf(p) /\ t < t + 1 /\ t + 1 <= t + SeqSpace
        BY <1>7, <2>1, <3>1, <4>1, TurnFacts, Constants
      <4> QED
        BY <2>1, <4>1, <4>2, OneNumber
    <3>3. Buffered' = Buffered \ {p}
      <4>1. p \notin Buffered
        BY <1>2, <1>7, TurnFacts
      <4>2. Buffered' = Buffered
        BY <3>1 DEF Buffered
      <4> QED
        BY <4>1, <4>2
    <3>4. InTurn(p)'
      BY <1>2, <1>7, <3>1, <3>2, <3>3, InTurnNext
    <3> QED
      BY <3>4
  <2>3. CASE ~Check(p)
    <3>1. InTurn(t)'
      BY <1>2, <1>3, <1>7, <2>1, <2>3, InTurnPush
    <3> QED
      BY <3>1
  <2> QED
    BY <2>2, <2>3
<1> QED
  BY <1>5, <1>6, <1>7

LEMMA KeptPop ==
    ASSUME FrameInv, FrameInv', Kept, Pop, Punctual'
    PROVE  (\E t : InTurn(t)') \/ Skipped'
<1>1. /\ TypeOK /\ AtRest /\ NetTyped /\ MediaTyped /\ NetTyped'
  <2>1. TypeOK' => NetTyped'
    BY Zenon DEF TypeOK, NetTyped
  <2> QED
    BY <2>1, TwoSides DEF FrameInv
<1>2. /\ Next25 \in DOMAIN buf /\ buf[Next25] \in Packets /\ SeqOf(buf[Next25]) = Next25
      /\ HandleChunk(buf[Next25]) /\ UNCHANGED <<kind, netVars>>
      /\ buf' = [s \in DOMAIN buf \ {Next25} |-> buf[s]]
      /\ seq' = (Next25 + 1) % SeqSpace /\ (seq \in DOMAIN buf \/ ~Room)
  BY <1>1, TypedPop DEF Pop
<1>3. (\A k : HandedOn(k) => HandedOn(k)') /\ (dropped' = 0 => dropped = 0)
  BY <1>2, NothingTakenBack
<1>4. (\E t : InTurn(t)) \/ Skipped
  BY <1>2 DEF Kept, Punctual, netVars
<1>5. arrived' = arrived
  BY <1>2 DEF netVars
<1>6. CASE Skipped
  BY <1>1, <1>3, <1>5, <1>6, StillSkipped
<1>7. ASSUME NEW t, InTurn(t) PROVE (\E u : InTurn(u)') \/ Skipped'
  <2>1. t \in Nat
    BY <1>7, TurnFacts
  <2>2. CASE seq \in DOMAIN buf
    <3>1. Next25 = seq
      BY <1>1, <2>2, NextIsTurn
    <3> PICK p \in Packets : p = buf[Next25]
      BY <1>2
    <3>2. p = t + 1 /\ p \in Packets /\ p \in arrived /\ SeqOf(p) = Next25
      BY <1>2, <1>7, <2>2, <3>1, TurnFacts
    <3>3. HandleChunk(p) /\ seq' = (SeqOf(p) + 1) % SeqSpace
      BY <1>2
    <3>4. Buffered' = Buffered \ {p}
      <4>1. Buffered' = {buf[s] : s \in DOMAIN buf \ {Next25}}
        BY <1>2 DEF Buffered
      <4>2. \A s \in DOMAIN buf : buf[s] = p <=> s = Next25
        BY <1>2, <1>7, TurnFacts
      <4> QED
        BY <4>1, <4>2 DEF Buffered
    <3>5. arrived' = arrived \cup {p}
      BY <1>5, <3>2
    <3>6. InTurn(p)'
      BY <1>7, <3>2, <3>3, <3>4, <3>5, InTurnNext
    <3> QED
      BY <3>6
  <2>3. CASE seq \notin DOMAIN buf
    <3> DEFINE g == t + 1
               A == {q \in arrived : q > g}
    <3>1. g \in Packets
      <4>1. /\ buf[Next25] \in Packets /\ t < buf[Next25] /\ buf[Next25] \in Nat
        BY <1>2, <1>7, TurnFacts, PacketFacts
      <4>2. g \in 1..buf[Next25] /\ First[Len(First)] - 1 \in Int
        BY <2>1, <4>1, Constants
      <4> QED
        BY <4>1, <4>2 DEF Packets
    <3>2. g \notin arrived
      <4>1. g \notin Buffered
        BY <1>7, <2>3, TurnFacts
      <4> QED
        BY <1>7, <2>1, <4>1 DEF InTurn
    <3>3. A = Buffered
      <4>1. ASSUME NEW q \in arrived PROVE q > t <=> q > g
        <5>1. q \in Nat /\ q # g
          BY <1>1, <3>2, <4>1, PacketFacts DEF NetTyped
        <5> QED
          BY <2>1, <5>1
      <4> QED
        BY <1>7, <4>1 DEF InTurn
    <3>4. Cardinality(A) >= BufferSize
      <4>1. ~Room
        BY <1>2, <2>3
      <4>2. /\ Cardinality(DOMAIN buf) <= Cardinality(Buffered)
            /\ Cardinality(Buffered) \in Nat /\ Cardinality(DOMAIN buf) \in Nat
        BY <1>1, BufferedCount, BufferFinite
      <4>3. Cardinality(Buffered) >= BufferSize
        BY <4>1, <4>2, Constants DEF Room
      <4> QED
        BY <3>3, <4>3
    <3>5. dropped' = 0 => \A k \in Frames : First[k + 1] - 1 < g => HandedOn(k)'
      <4> SUFFICES ASSUME dropped' = 0, NEW k \in Frames, First[k + 1] - 1 < g
                   PROVE  HandedOn(k)'
        OBVIOUS
      <4>1. First[k + 1] - 1 <= t
        BY <2>1, FrameFacts
      <4> QED
        BY <1>3, <1>7, <4>1 DEF InTurn
    <3> QED
      BY <1>5, <3>1, <3>2, <3>4, <3>5 DEF Skipped
  <2> QED
    BY <2>2, <2>3
<1> QED
  BY <1>4, <1>6, <1>7

LEMMA KeptStep ==
    ASSUME Roomy, FrameInv, FrameInv', Kept, [Next]_vars
    PROVE  Kept'
<1>1. ASSUME UNCHANGED <<kind, lost, dups, late, dropped, arrived, buf, seq, waitCSeq, waitData,
                         out>>
      PROVE  Kept'
  BY <1>1 DEF Kept, Punctual, InTurn, Skipped, Buffered, HandedOn, HandedUpTo, FrameOf
<1>2. ASSUME NEW p \in Packets, Arrive(p) PROVE Kept'
  BY <1>2, KeptArrive DEF Kept
<1>3. ASSUME NEW p \in Packets, Repeat(p) PROVE Kept'
  <2>1. dups \in 0..MaxDups /\ dups' = dups + 1
    BY <1>3 DEF Repeat, FrameInv, TypeOK
  <2>2. dups' # 0
    BY <2>1, Constants
  <2> QED
    BY <2>2, Zenon DEF Kept, Punctual
<1>4. ASSUME NEW p \in Packets, Lose(p) PROVE Kept'
  <2>1. lost' # {}
    BY <1>4 DEF Lose
  <2> QED
    BY <2>1, Zenon DEF Kept, Punctual
<1>5. CASE Pop
  BY <1>5, KeptPop DEF Kept
<1>6. CASE Popped
  BY <1>1, <1>6 DEF Popped, netVars, waitVars, outVars
<1>7. CASE ReadPacket
  BY <1>1, <1>7 DEF ReadPacket, netVars, waitVars, bufVars
<1>8. CASE Close
  BY <1>1, <1>8 DEF Close, netVars, waitVars, bufVars, outVars
<1>9. CASE UNCHANGED vars
  BY <1>1, <1>9 DEF vars, netVars, waitVars, bufVars, outVars
<1> QED
  BY <1>2, <1>3, <1>4, <1>5, <1>6, <1>7, <1>8, <1>9 DEF Next

LEMMA KeptInit == Init => Kept
<1> SUFFICES ASSUME Init PROVE Kept
  OBVIOUS
<1>1. Buffered = {} /\ seq = 0 /\ arrived = {} /\ DOMAIN out = {} /\ 1..0 = {}
  BY DEF Init, Buffered
<1>2. \A k \in Frames : ~(First[k + 1] - 1 <= 0)
  BY FrameFacts
<1>3. 0 % SeqSpace = 0
  <2>1. 0 = SeqSpace * 0 + 0 /\ 0 \in 0..(SeqSpace - 1)
    BY Constants
  <2> QED
    BY <2>1, Constants, ModUnique
<1>4. HandedUpTo(0)
  BY <1>1 DEF HandedUpTo
<1>5. InTurn(0)
  BY <1>1, <1>2, <1>3, <1>4 DEF InTurn
<1> QED
  BY <1>5 DEF Kept

\* All the packets before the first gap have arrived.
LEMMA PrefixArrived == Prefix \in Nat /\ 1..Prefix \subseteq arrived
<1> DEFINE S == {n \in {0} \cup Packets : 1..n \subseteq arrived}
           b == First[Len(First)] - 1
<1>1. b \in Nat /\ Packets = 1..b
  <2>1. Len(First) \in 1..Len(First) /\ First[Len(First)] \in Nat /\ First[1] \in Nat
    BY Constants
  <2>2. First[Len(First)] >= 1
    <3>1. CASE Len(First) = 1
      BY <3>1, Constants
    <3>2. CASE 1 < Len(First)
      <4>1. First[1] < First[Len(First)]
        BY <2>1, <3>2, Constants
      <4> QED
        BY <2>1, <4>1, Constants
    <3> QED
      BY <2>1, <3>1, <3>2, Constants
  <2> QED
    BY <2>1, <2>2 DEF Packets
<1>2. 1..0 \subseteq arrived
  OBVIOUS
<1> HIDE DEF b
<1>3. S \in SUBSET (0..b) /\ S # {}
  <2>1. 0 \in S
    BY <1>2
  <2>2. \A n \in {0} \cup Packets : n \in 0..b
    BY <1>1
  <2> QED
    BY <2>1, <2>2
<1>4. Max(S) \in S
  <2> HIDE DEF S
  <2> QED
    BY <1>1, <1>3, MaxIsGreatest
<1>5. Prefix = Max(S)
  BY DEF Prefix
<1> HIDE DEF S
<1>6. Prefix \in S
  BY <1>4, <1>5
<1> QED
  BY <1>1, <1>6 DEF S

LEMMA KeptLosesNothing ==
    ASSUME FrameInv, Kept
    PROVE  NothingLost
<1> SUFFICES ASSUME kind = "session25", loop = "idle", lost = {}, dups = 0, ~late, dropped = 0,
                    NEW k \in Frames, First[k + 1] - 1 <= Prefix
             PROVE  HandedOn(k)
  BY DEF NothingLost, HandedOn
<1>1. (\E t : InTurn(t)) \/ Skipped
  BY DEF Kept, Punctual
<1>2. Prefix \in Nat /\ 1..Prefix \subseteq arrived /\ First[k + 1] \in Nat
  BY PrefixArrived, FrameFacts
<1>3. ASSUME NEW t, InTurn(t) PROVE HandedOn(k)
  <2>1. t \in Nat /\ seq \notin DOMAIN buf
    BY <1>3, TurnFacts DEF FrameInv, AtRest
  <2>2. Prefix <= t
    <3> SUFFICES ASSUME Prefix > t PROVE FALSE
      BY <1>2, <2>1
    <3>1. t + 1 \in 1..Prefix /\ t + 1 > t
      BY <1>2, <2>1
    <3>2. t + 1 \in Buffered
      BY <1>2, <1>3, <3>1 DEF InTurn
    <3> QED
      BY <1>3, <2>1, <3>2, TurnFacts
  <2>3. First[k + 1] - 1 <= t
    BY <1>2, <2>1, <2>2
  <2> QED
    BY <1>3, <2>3 DEF InTurn
<1>4. CASE Skipped
  <2>1. PICK g \in Packets \ arrived :
           \A j \in Frames : First[j + 1] - 1 < g => HandedOn(j)
    BY <1>4 DEF Skipped
  <2>2. g \in Nat /\ 1 <= g /\ ~(g <= Prefix)
    BY <1>2, <2>1, PacketFacts
  <2>3. First[k + 1] - 1 < g
    BY <1>2, <2>2
  <2> QED
    BY <2>1, <2>3
<1> QED
  BY <1>1, <1>3, <1>4

LEMMA KeptIntact ==
    ASSUME Kept, NetTyped, InTime
    PROVE  FramesIntact
<1>1. ~Skipped
  <2> SUFFICES ASSUME NEW g \in Packets \ arrived,
                      Cardinality({q \in arrived : q > g}) >= BufferSize
               PROVE  FALSE
    BY DEF Skipped
  <2>1. g \in InFlight
    BY DEF InFlight, InTime, Punctual
  <2>2. Cardinality({q \in arrived : q > g}) < BufferSize
    BY <2>1 DEF InTime
  <2>3. Cardinality({q \in arrived : q > g}) \in Nat
    BY ArrivedFinite
  <2> QED
    BY <2>2, <2>3, Constants
<1>2. PICK t : InTurn(t)
  BY <1>1 DEF Kept, InTime
<1>3. HandedUpTo(t)
  BY <1>2 DEF InTurn
<1>4. \A i \in DOMAIN out : out[i].data = WholeFrame(FrameOf(out[i]))
  BY <1>3, WholeFacts DEF HandedUpTo, IsWhole
<1>5. InOrder
  BY <1>3 DEF HandedUpTo, InOrder
<1> QED
  BY <1>4, <1>5 DEF FramesIntact, WholeFrames

LEMMA KeptAlways == Roomy => (Spec => [](FrameInv /\ Kept))
<1> SUFFICES ASSUME Roomy PROVE Spec => [](FrameInv /\ Kept)
  OBVIOUS
<1>1. Init => FrameInv /\ Kept
  BY FrameInit, KeptInit
<1>2. FrameInv /\ Kept /\ [Next]_vars => (FrameInv /\ Kept)'
  BY FrameStep, KeptStep
<1> QED
  BY <1>1, <1>2, PTL DEF Spec

\* Session25 loses no frame that the network delivered in time, however often the sequence
\* numbers come round: it skips a packet only when BufferSize later ones have come, and
\* then that packet comes late or never (ReorderBuffer.Push and Pop, handleChunk).
THEOREM NothingIsLost == Roomy => (Spec => []NothingLost)
<1>1. FrameInv /\ Kept => NothingLost
  BY KeptLosesNothing
<1> QED
  BY <1>1, KeptAlways, PTL

\* And on a connection without loss whose packets come in time it hands on whole frames,
\* each once and in order, however long it lasts (ReorderBuffer.Check, Push and Pop,
\* whose numbers come round, and handleChunk).
THEOREM InTimeIsIntact == Roomy => (Spec => [](InTime => FramesIntact))
<1>1. FrameInv /\ Kept => (InTime => FramesIntact)
  BY KeptIntact, TwoSides DEF FrameInv
<1> QED
  BY <1>1, KeptAlways, PTL

-----------------------------------------------------------------------------
(* The media clocks of FrameHandler.                                       *)

\* What ClockAgrees says of item i of a sequence o of items.
SameMedia(o, i) == {j \in DOMAIN o : Video(o[j]) = Video(o[i])}
Between(o, i, j) == (FrameOf(o[j]) - FrameOf(o[i])) * Step
UpTo(o, i) == {j \in SameMedia(o, i) : j <= i}
Steady(o, i) ==
    \A j, k \in UpTo(o, i) :
        (j < k /\ ~\E l \in UpTo(o, i) : j < l /\ l < k) => Between(o, j, k) \in 1..(Wrap - 1)
Agrees(o, i) ==
    /\ (o[i].time - Between(o, Min(SameMedia(o, i)), i)) % Wrap = 0
    /\ Steady(o, i) => o[i].time = Between(o, Min(SameMedia(o, i)), i)

LEMMA AgreesAll ==
    /\ ClockAgrees <=> (kind = "frames" => \A i \in DOMAIN out : Agrees(out, i))
    /\ ClockAgrees' <=> (kind' = "frames" => \A i \in DOMAIN out' : Agrees(out', i))
<1>1. ClockAgrees <=> (kind = "frames" => \A i \in DOMAIN out : Agrees(out, i))
  BY Zenon DEF ClockAgrees, Agrees, Steady, UpTo, Between, SameMedia, Media, Since
<1>2. ClockAgrees' <=> (kind' = "frames" => \A i \in DOMAIN out' : Agrees(out', i))
  BY Zenon DEF ClockAgrees, Agrees, Steady, UpTo, Between, SameMedia, Media, Since
<1> QED
  BY <1>1, <1>2

\* The camera's time between two frames, up to whole turns of its clock.
LEMMA ElapsedFacts ==
    ASSUME NEW a \in Frames, NEW b \in Frames
    PROVE  /\ Elapsed(RawTS(a), RawTS(b)) \in 0..(Wrap - 1)
           /\ \E q \in Int : (b - a) * Step = Wrap * q + Elapsed(RawTS(a), RawTS(b))
<1> DEFINE x == a * Step
           y == b * Step
           qx == x \div Wrap
           qy == y \div Wrap
           rx == x % Wrap
           ry == y % Wrap
           e == Elapsed(rx, ry)
<1>1. a \in Nat /\ b \in Nat /\ Step \in Nat /\ Wrap \in Nat /\ Wrap > 0
  BY FrameFacts, Constants
<1>2. x \in Int /\ y \in Int /\ (b - a) * Step = y - x
  BY <1>1
<1> HIDE DEF x, y
<1>3. rx \in 0..(Wrap - 1) /\ qx \in Int /\ x = Wrap * qx + rx
  BY <1>1, <1>2, DivMod
<1>4. ry \in 0..(Wrap - 1) /\ qy \in Int /\ y = Wrap * qy + ry
  BY <1>1, <1>2, DivMod
<1>5. RawTS(a) = rx /\ RawTS(b) = ry
  BY DEF RawTS, x, y
<1> HIDE DEF qx, qy, rx, ry
<1>6. e = IF ry >= rx THEN ry - rx ELSE (Wrap - rx) + ry
  BY DEF Elapsed
<1> HIDE DEF e
<1>7. e \in 0..(Wrap - 1)
  BY <1>1, <1>3, <1>4, <1>6
<1>8. PICK q \in Int : y - x = Wrap * q + e
  <2>1. /\ Wrap * (qy - qx) = Wrap * qy - Wrap * qx
        /\ Wrap * (qy - qx - 1) = Wrap * qy - Wrap * qx - Wrap
        /\ Wrap * qx \in Int /\ Wrap * qy \in Int
    BY <1>1, <1>3, <1>4
  <2>2. CASE ry >= rx
    <3>1. y - x = Wrap * (qy - qx) + e
      BY <1>3, <1>4, <1>6, <2>1, <2>2
    <3>2. qy - qx \in Int
      BY <1>3, <1>4
    <3> QED
      BY <3>1, <3>2
  <2>3. CASE ~(ry >= rx)
    <3>1. y - x = Wrap * (qy - qx - 1) + e
      BY <1>1, <1>3, <1>4, <1>6, <2>1, <2>3
    <3>2. qy - qx - 1 \in Int
      BY <1>3, <1>4
    <3> QED
      BY <3>1, <3>2
  <2> QED
    BY <2>2, <2>3
<1> QED
  BY <1>2, <1>5, <1>7, <1>8 DEF e

LEMMA WholeTurns ==
    ASSUME NEW x \in Int
    PROVE  x % Wrap = 0 <=> \E q \in Int : x = Wrap * q
<1>1. Wrap \in Nat /\ Wrap > 0
  BY Constants
<1>2. ASSUME x % Wrap = 0 PROVE \E q \in Int : x = Wrap * q
  <2>1. x = Wrap * (x \div Wrap) + (x % Wrap) /\ x \div Wrap \in Int
    BY <1>1, DivMod
  <2> DEFINE q == x \div Wrap
             r == x % Wrap
  <2>2. x = Wrap * q + r /\ q \in Int /\ r = 0
    BY <1>2, <2>1
  <2> HIDE DEF q, r
  <2>3. x = Wrap * q
    BY <1>1, <2>2
  <2> QED
    BY <2>2, <2>3
<1>3. ASSUME NEW q \in Int, x = Wrap * q PROVE x % Wrap = 0
  <2>1. x = Wrap * q + 0 /\ 0 \in 0..(Wrap - 1)
    BY <1>1, <1>3
  <2> QED
    BY <1>1, <2>1, ModUnique
<1> QED
  BY <1>2, <1>3

\* One more turn of the clock: the next frame's time agrees when the last one's did.
LEMMA NextTime ==
    ASSUME NEW f \in Frames, NEW a \in Frames, NEW b \in Frames, NEW t \in Nat,
           (t - (a - f) * Step) % Wrap = 0
    PROVE  LET u == t + Elapsed(RawTS(a), RawTS(b))
           IN  /\ (u - (b - f) * Step) % Wrap = 0
               /\ (t = (a - f) * Step /\ (b - a) * Step \in 1..(Wrap - 1)) => u = (b - f) * Step
<1> DEFINE e == Elapsed(RawTS(a), RawTS(b))
           x == (a - f) * Step
           y == (b - a) * Step
           z == (b - f) * Step
<1>1. f \in Int /\ a \in Int /\ b \in Int /\ Step \in Int /\ Wrap \in Nat /\ Wrap > 0
  BY FrameFacts, Constants
<1>2. x \in Int /\ y \in Int /\ z \in Int /\ z = x + y
  BY <1>1
<1>3. e \in 0..(Wrap - 1) /\ \E q \in Int : y = Wrap * q + e
  BY ElapsedFacts
<1>4. (t - x) % Wrap = 0
  OBVIOUS
<1> HIDE DEF e, x, y, z
<1>5. PICK q \in Int : y = Wrap * q + e
  BY <1>3
<1>6. PICK p \in Int : t - x = Wrap * p
  BY <1>2, <1>4, WholeTurns
<1>7. ((t + e) - z) % Wrap = 0
  <2>1. Wrap * (p - q) = Wrap * p - Wrap * q /\ Wrap * p \in Int /\ Wrap * q \in Int
    BY <1>1
  <2>2. (t + e) - z = Wrap * (p - q)
    BY <1>2, <1>3, <1>5, <1>6, <2>1
  <2>3. (t + e) - z \in Int /\ p - q \in Int
    BY <1>2, <1>3
  <2> QED
    BY <2>2, <2>3, WholeTurns
<1>8. ASSUME t = x, y \in 1..(Wrap - 1) PROVE t + e = z
  <2>1. y % Wrap = e
    BY <1>1, <1>3, <1>5, <1>8, ModUnique
  <2>2. y = Wrap * 0 + y /\ y \in 0..(Wrap - 1)
    BY <1>1, <1>8
  <2>3. y % Wrap = y
    BY <1>1, <2>2, ModUnique
  <2> QED
    BY <1>2, <1>8, <2>1, <2>3
<1> QED
  BY <1>7, <1>8 DEF e, x, y, z

LEMMA Appended ==
    ASSUME NEW o \in Seq(OutItem), NEW item \in OutItem, NEW r, r = Append(o, item),
           NEW n, n = Len(o) + 1
    PROVE  /\ n \in Nat /\ DOMAIN r = DOMAIN o \cup {n} /\ n \notin DOMAIN o /\ r[n] = item
           /\ DOMAIN o \subseteq Nat /\ \A i \in DOMAIN o : r[i] = o[i] /\ i < n
<1>1. Len(o) \in Nat /\ DOMAIN o = 1..Len(o) /\ DOMAIN r = 1..(Len(o) + 1)
  OBVIOUS
<1>2. \A i \in 1..Len(o) : r[i] = o[i]
  BY <1>1
<1>3. r[n] = item
  BY <1>1
<1> QED
  BY <1>1, <1>2, <1>3

\* A greater number does not change the least.
LEMMA SameLeast ==
    ASSUME NEW S \in SUBSET Nat, S # {}, NEW n \in Nat, \A s \in S : s < n
    PROVE  Min(S \cup {n}) = Min(S)
<1>1. Min(S) \in S /\ \A s \in S : Min(S) <= s
  BY MinIsLeast
<1>2. S \cup {n} \in SUBSET Nat /\ S \cup {n} # {}
  OBVIOUS
<1>3. Min(S \cup {n}) \in S \cup {n} /\ \A s \in S \cup {n} : Min(S \cup {n}) <= s
  BY <1>2, MinIsLeast
<1> DEFINE a == Min(S)
           b == Min(S \cup {n})
<1>4. a \in S /\ b \in S \cup {n} /\ b <= a /\ \A s \in S : a <= s
  BY <1>1, <1>3
<1> HIDE DEF a, b
<1>5. b # n
  BY <1>4
<1>6. a = b
  BY <1>4, <1>5
<1> QED
  BY <1>6 DEF a, b

\* What was handed on is not changed by what comes after it.
LEMMA OldAgrees ==
    ASSUME NEW o \in Seq(OutItem), NEW item \in OutItem, NEW r, r = Append(o, item),
           NEW i \in DOMAIN o, Agrees(o, i)
    PROVE  Agrees(r, i)
<1> DEFINE n == Len(o) + 1
<1>1. /\ n \in Nat /\ DOMAIN r = DOMAIN o \cup {n} /\ n \notin DOMAIN o
      /\ DOMAIN o \subseteq Nat /\ \A j \in DOMAIN o : r[j] = o[j] /\ j < n
  BY Appended
<1> HIDE DEF n
<1>2. /\ SameMedia(o, i) \subseteq DOMAIN o /\ i \in SameMedia(o, i)
      /\ SameMedia(r, i) = SameMedia(o, i) \/ SameMedia(r, i) = SameMedia(o, i) \cup {n}
  <2>1. SameMedia(o, i) \subseteq DOMAIN o /\ i \in SameMedia(o, i)
    BY DEF SameMedia
  <2>2. r[i] = o[i]
    BY <1>1
  <2>3. \A j \in DOMAIN o : j \in SameMedia(r, i) <=> j \in SameMedia(o, i)
    BY <1>1, <2>2 DEF SameMedia
  <2>4. SameMedia(r, i) \subseteq DOMAIN o \cup {n}
    BY <1>1 DEF SameMedia
  <2> QED
    BY <1>1, <2>1, <2>3, <2>4
<1>3. Min(SameMedia(r, i)) = Min(SameMedia(o, i)) /\ Min(SameMedia(o, i)) \in DOMAIN o
  <2> DEFINE S == SameMedia(o, i)
  <2>1. S \in SUBSET Nat /\ S # {} /\ \A s \in S : s < n
    BY <1>1, <1>2
  <2>2. SameMedia(r, i) = S \/ SameMedia(r, i) = S \cup {n}
    BY <1>2
  <2>3. S \subseteq DOMAIN o
    BY <1>2
  <2> HIDE DEF S
  <2>4. Min(S \cup {n}) = Min(S) /\ Min(S) \in S
    BY <1>1, <2>1, SameLeast, MinIsLeast
  <2> QED
    BY <2>2, <2>3, <2>4 DEF S
<1>4. UpTo(r, i) = UpTo(o, i)
  <2>1. ~(n <= i)
    BY <1>1
  <2> QED
    BY <1>2, <2>1 DEF UpTo
<1>5. UpTo(o, i) \subseteq DOMAIN o
  BY <1>2 DEF UpTo
<1>6. \A j, k \in DOMAIN o : Between(r, j, k) = Between(o, j, k)
  BY <1>1 DEF Between
<1>7. Steady(r, i) <=> Steady(o, i)
  BY <1>4, <1>5, <1>6 DEF Steady
<1>8. r[i].time = o[i].time
  BY <1>1
<1> QED
  BY <1>3, <1>6, <1>7, <1>8 DEF Agrees

\* The first frame of its media starts the clock.
LEMMA FirstAgrees ==
    ASSUME NEW o \in Seq(OutItem), NEW item \in OutItem, NEW r, r = Append(o, item),
           \A j \in DOMAIN o : Video(o[j]) # Video(item),
           FrameOf(item) \in Frames, item.time = 0, NEW n, n = Len(o) + 1
    PROVE  Agrees(r, n)
<1>1. /\ n \in Nat /\ DOMAIN r = DOMAIN o \cup {n} /\ n \notin DOMAIN o /\ r[n] = item
      /\ \A j \in DOMAIN o : r[j] = o[j]
  BY Appended
<1>2. SameMedia(r, n) = {n}
  BY <1>1 DEF SameMedia
<1>3. Min({n}) = n
  <2>1. {n} \in SUBSET Nat /\ {n} # {}
    BY <1>1
  <2>2. Min({n}) \in {n}
    BY <2>1, MinIsLeast
  <2> QED
    BY <2>2
<1>4. Between(r, n, n) = 0
  <2>1. FrameOf(r[n]) \in Int /\ Step \in Int
    BY <1>1, FrameFacts, Constants
  <2>2. FrameOf(r[n]) - FrameOf(r[n]) = 0 /\ 0 * Step = 0
    BY <2>1
  <2> QED
    BY <2>2 DEF Between
<1>5. r[n].time - Between(r, n, n) = 0 /\ r[n].time = Between(r, n, n)
  BY <1>1, <1>4
<1>6. 0 % Wrap = 0
  <2>1. 0 = Wrap * 0
    BY Constants
  <2> QED
    BY <2>1, WholeTurns
<1> QED
  BY <1>2, <1>3, <1>5, <1>6 DEF Agrees

\* Every other one continues from the last.
LEMMA NextAgrees ==
    ASSUME NEW o \in Seq(OutItem), NEW item \in OutItem, NEW r, r = Append(o, item),
           \A j \in DOMAIN o : FrameOf(o[j]) \in Frames, FrameOf(item) \in Frames,
           NEW l \in DOMAIN o, Video(o[l]) = Video(item),
           \A j \in DOMAIN o : Video(o[j]) = Video(item) => j <= l,
           Agrees(o, l), NEW n, n = Len(o) + 1,
           item.time = o[l].time + Elapsed(RawTS(FrameOf(o[l])), RawTS(FrameOf(item)))
    PROVE  Agrees(r, n)
<1>1. /\ n \in Nat /\ DOMAIN r = DOMAIN o \cup {n} /\ n \notin DOMAIN o /\ r[n] = item
      /\ DOMAIN o \subseteq Nat /\ \A j \in DOMAIN o : r[j] = o[j] /\ j < n
  BY Appended
<1> DEFINE S == SameMedia(o, l)
           f == Min(S)
<1>2. S \in SUBSET Nat /\ l \in S /\ S \subseteq DOMAIN o /\ \A s \in S : s < n /\ s <= l
  BY <1>1 DEF SameMedia
<1>3. SameMedia(r, n) = S \cup {n}
  BY <1>1 DEF SameMedia
<1>4. UpTo(o, l) = S
  BY <1>2 DEF UpTo
<1>5. UpTo(r, n) = S \cup {n}
  BY <1>1, <1>2, <1>3 DEF UpTo
<1>6. Min(S \cup {n}) = f /\ f \in S
  <2> HIDE DEF S
  <2> QED
    BY <1>1, <1>2, SameLeast, MinIsLeast
<1>7. /\ (o[l].time - Between(o, f, l)) % Wrap = 0
      /\ Steady(o, l) => o[l].time = Between(o, f, l)
  BY DEF Agrees
<1> HIDE DEF S, f
<1>8. \A j, k \in DOMAIN o : Between(r, j, k) = Between(o, j, k)
  BY <1>1 DEF Between
<1>9. ASSUME Steady(r, n) PROVE Steady(o, l) /\ Between(r, l, n) \in 1..(Wrap - 1)
  <2>1. ASSUME NEW j \in S, NEW k \in S, j < k, ~\E m \in S : j < m /\ m < k
        PROVE  Between(o, j, k) \in 1..(Wrap - 1)
    <3>1. ~\E m \in S \cup {n} : j < m /\ m < k
      BY <1>1, <1>2, <2>1
    <3>2. Between(r, j, k) \in 1..(Wrap - 1)
      BY <1>5, <1>9, <2>1, <3>1 DEF Steady
    <3> QED
      BY <1>2, <1>8, <3>2
  <2>2. Steady(o, l)
    BY <1>4, <2>1 DEF Steady
  <2>3. l < n /\ ~\E m \in S \cup {n} : l < m /\ m < n
    BY <1>1, <1>2
  <2>4. Between(r, l, n) \in 1..(Wrap - 1)
    BY <1>2, <1>5, <1>9, <2>3 DEF Steady
  <2> QED
    BY <2>2, <2>4
<1> DEFINE a == FrameOf(o[l])
           b == FrameOf(item)
           c == FrameOf(o[f])
           t == o[l].time
<1>10. /\ Between(o, f, l) = (a - c) * Step /\ Between(r, l, n) = (b - a) * Step
       /\ Between(r, f, n) = (b - c) * Step
  BY <1>1, <1>2, <1>6 DEF Between
<1>11. a \in Frames /\ b \in Frames /\ c \in Frames /\ t \in Nat
  <2>1. f \in DOMAIN o
    BY <1>2, <1>6
  <2>2. a \in Frames /\ b \in Frames /\ c \in Frames
    BY <2>1
  <2>3. o[l] \in OutItem
    OBVIOUS
  <2>4. t \in Nat
    BY <2>3 DEF OutItem
  <2> QED
    BY <2>2, <2>4
<1>12. (t - (a - c) * Step) % Wrap = 0 /\ (Steady(o, l) => t = (a - c) * Step)
  BY <1>7, <1>10
<1>13. item.time = t + Elapsed(RawTS(a), RawTS(b))
  OBVIOUS
<1> HIDE DEF a, b, c, t
<1>14. /\ (item.time - (b - c) * Step) % Wrap = 0
       /\ (t = (a - c) * Step /\ (b - a) * Step \in 1..(Wrap - 1)) => item.time = (b - c) * Step
  BY <1>11, <1>12, <1>13, NextTime
<1>15. r[n].time = item.time
  BY <1>1
<1>16. /\ (r[n].time - Between(r, f, n)) % Wrap = 0
       /\ Steady(r, n) => r[n].time = Between(r, f, n)
  BY <1>9, <1>10, <1>12, <1>14, <1>15
<1> QED
  BY <1>3, <1>6, <1>16 DEF Agrees


\* A frame is handed on with the time of its media's clock.
LEMMA ClockTick ==
    ASSUME FrameInv, ClockOfLast, ClockAgrees, kind = "frames", UNCHANGED kind,
           NEW k \in Frames, NEW d \in Seq(Packets), d = WholeFrame(k),
           NEW m \in {"video", "audio"}, ChannelOf[k] # "A" <=> m = "video",
           clock' = [clock EXCEPT ![m] = Update(clock[m], RawTS(k))],
           Queue(d, Update(clock[m], RawTS(k)).accum)
    PROVE  ClockOfLast' /\ ClockAgrees'
<1> DEFINE c == Update(clock[m], RawTS(k))
           item == Item(d, c.accum)
           n == Len(out) + 1
<1>1. out \in Seq(OutItem) /\ clock \in [{"video", "audio"} -> Clock]
  BY TwoSides DEF FrameInv, MediaTyped
<1>2. clock[m] \in Clock /\ RawTS(k) \in 0..(Wrap - 1)
  BY <1>1, RawTSType
<1>3. /\ c \in Clock /\ c.first /\ c.last = RawTS(k)
      /\ c.accum = IF clock[m].first THEN clock[m].accum + Elapsed(clock[m].last, RawTS(k)) ELSE 0
  BY <1>2, UpdateTyped
<1>4. c.accum \in Nat
  <2> HIDE DEF c
  <2> QED
    BY <1>3 DEF Clock
<1>5. item \in OutItem /\ item.data = WholeFrame(k) /\ item.time = c.accum
  BY <1>4, ItemFacts
<1>6. out' = Append(out, item) /\ clock' = [clock EXCEPT ![m] = c]
  BY DEF Queue
<1> HIDE DEF c, item
<1>7. FrameOf(item) = k /\ (Video(item) <=> m = "video")
  <2>1. FrameOf(item) = k
    BY <1>5, WholeFacts
  <2> QED
    BY <2>1 DEF Video
<1>8. /\ n \in Nat /\ DOMAIN out' = DOMAIN out \cup {n} /\ n \notin DOMAIN out /\ out'[n] = item
      /\ DOMAIN out \subseteq Nat /\ \A i \in DOMAIN out : out'[i] = out[i] /\ i < n
  BY <1>1, <1>5, <1>6, Appended
<1> HIDE DEF n
<1>9. \A i \in DOMAIN out : FrameOf(out[i]) \in Frames
  <2>1. \A i \in DOMAIN out : IsWhole(out[i])
    BY DEF FrameInv, Assembling
  <2> QED
    BY <2>1, WholeFacts DEF IsWhole
<1>10. \A i \in DOMAIN out : Agrees(out, i)
  BY AgreesAll
<1>11. Agrees(out', n)
  <2>1. CASE clock[m].first
    <3>1. PICK l \in Items(m) :
             /\ \A j \in Items(m) : j <= l
             /\ clock[m].last = RawTS(FrameOf(out[l])) /\ clock[m].accum = out[l].time
      BY <2>1 DEF ClockOfLast
    <3>2. l \in DOMAIN out /\ Video(out[l]) = Video(item)
      BY <1>7, <3>1 DEF Items, Video
    <3>3. \A j \in DOMAIN out : Video(out[j]) = Video(item) => j <= l
      BY <1>7, <3>1 DEF Items
    <3>4. item.time = out[l].time + Elapsed(RawTS(FrameOf(out[l])), RawTS(FrameOf(item)))
      BY <1>3, <1>5, <1>7, <2>1, <3>1
    <3> QED
      <4>1. item \in OutItem /\ FrameOf(item) \in Frames /\ out' = Append(out, item)
        BY <1>5, <1>6, <1>7
      <4>2. Agrees(out, l) /\ n = Len(out) + 1
        BY <1>10, <3>2 DEF n
      <4> HIDE DEF n
      <4> QED
        BY <1>1, <1>9, <3>2, <3>3, <3>4, <4>1, <4>2, NextAgrees
  <2>2. CASE ~clock[m].first
    <3>1. Items(m) = {}
      BY <2>2 DEF ClockOfLast
    <3>2. \A j \in DOMAIN out : Video(out[j]) # Video(item)
      BY <1>7, <3>1 DEF Items, Video
    <3>3. item.time = 0
      BY <1>3, <1>5, <2>2
    <3> QED
      BY <1>1, <1>5, <1>6, <1>7, <3>2, <3>3, FirstAgrees DEF n
  <2> QED
    BY <2>1, <2>2
<1>12. \A i \in DOMAIN out : Agrees(out', i)
  BY <1>1, <1>5, <1>6, <1>10, OldAgrees
<1>13. ClockAgrees'
  BY <1>8, <1>11, <1>12, AgreesAll
<1>14. Items(m)' = Items(m) \cup {n}
  BY <1>7, <1>8 DEF Items, Video, FrameOf
<1>15. ASSUME NEW o \in {"video", "audio"}, o # m PROVE Items(o)' = Items(o)
  BY <1>7, <1>8, <1>15 DEF Items, Video, FrameOf
<1>16. ASSUME NEW o \in {"video", "audio"}
       PROVE  IF clock'[o].first
              THEN \E i \in Items(o)' :
                      /\ \A j \in Items(o)' : j <= i
                      /\ clock'[o].last = RawTS(FrameOf(out'[i]))
                      /\ clock'[o].accum = out'[i].time
              ELSE Items(o)' = {}
  <2>1. CASE o = m
    <3>1. clock'[o] = c
      BY <1>1, <1>6, <2>1
    <3>2. n \in Items(m)' /\ \A j \in Items(m)' : j <= n
      BY <1>8, <1>14 DEF Items
    <3>3. c.last = RawTS(FrameOf(out'[n])) /\ c.accum = out'[n].time
      BY <1>3, <1>5, <1>7, <1>8
    <3> QED
      BY <1>3, <2>1, <3>1, <3>2, <3>3
  <2>2. CASE o # m
    <3>1. clock'[o] = clock[o] /\ Items(o)' = Items(o)
      BY <1>1, <1>6, <1>15, <2>2
    <3>2. \A i \in Items(o) : out'[i] = out[i]
      BY <1>8 DEF Items
    <3> QED
      BY <3>1, <3>2 DEF ClockOfLast
  <2> QED
    BY <2>1, <2>2
<1>17. ClockOfLast'
  BY <1>16 DEF ClockOfLast, FrameOf
<1> QED
  BY <1>13, <1>17

LEMMA ClockStep ==
    ASSUME ClockInv, [Next]_vars
    PROVE  ClockInv'
<1>1. FrameInv /\ ClockOfLast /\ ClockAgrees /\ TypeOK /\ Assembling
  BY DEF ClockInv, FrameInv
<1>2. FrameInv'
  BY <1>1, FrameStep
<1> SUFFICES ClockOfLast' /\ ClockAgrees'
  BY <1>2 DEF ClockInv
<1>3. ASSUME UNCHANGED <<kind, clock, out>> PROVE ClockOfLast' /\ ClockAgrees'
  <2>1. ClockOfLast'
    BY <1>1, <1>3 DEF ClockOfLast, Items, Video, FrameOf
  <2>2. ClockAgrees'
    BY <1>1, <1>3, AgreesAll
  <2> QED
    BY <2>1, <2>2
<1>4. ASSUME kind # "frames", UNCHANGED kind PROVE ClockOfLast' /\ ClockAgrees'
  BY <1>4, AgreesAll DEF ClockOfLast
<1>5. ASSUME NEW p \in Packets, Arrive(p) \/ Repeat(p) PROVE ClockOfLast' /\ ClockAgrees'
  <2>1. Take(p) /\ UNCHANGED kind
    BY <1>5 DEF Arrive, Repeat
  <2>2. Frame(p) \in Frames
    BY PacketFacts
  <2>3. CASE ~Handle(p)
    BY <1>4, <2>1, <2>3 DEF Take, Receive16, Receive25
  <2>4. CASE Handle(p) /\ HandleVideo(p)
    <3>1. \/ UNCHANGED <<clock, outVars>>
          \/ /\ After(p).data = WholeFrame(Frame(p))
             /\ clock' = [clock EXCEPT !["video"] = Update(clock["video"], RawTS(Frame(p)))]
             /\ Queue(After(p).data, Update(clock["video"], RawTS(Frame(p))).accum)
      BY <1>1, <2>4, VideoStep
    <3>2. ChannelOf[Frame(p)] # "A" /\ Channel(p) \in {"I", "P"}
      BY <2>4 DEF HandleVideo, Channel
    <3>3. After(p).data \in Seq(Packets)
      BY <1>1, <3>2, ChannelTyped, TwoSides DEF Channels
    <3>4. CASE UNCHANGED <<clock, outVars>>
      BY <1>3, <2>1, <3>4 DEF outVars
    <3> QED
      BY <1>1, <2>1, <2>2, <2>4, <3>1, <3>2, <3>3, <3>4, ClockTick DEF Handle
  <2>5. CASE Handle(p) /\ HandleAudio(p)
    <3>1. /\ clock' = [clock EXCEPT !["audio"] = Update(clock["audio"], RawTS(Frame(p)))]
          /\ Queue(<<p>>, Update(clock["audio"], RawTS(Frame(p))).accum)
          /\ Channel(p) = "A" /\ ChannelOf[Frame(p)] = "A"
      BY <2>5 DEF HandleAudio, Channel
    <3>2. <<p>> = WholeFrame(Frame(p)) /\ <<p>> \in Seq(Packets)
      BY <3>1, AudioWhole
    <3> QED
      BY <1>1, <2>1, <2>2, <2>5, <3>1, <3>2, ClockTick DEF Handle
  <2> QED
    BY <2>3, <2>4, <2>5 DEF Handle
<1>6. ASSUME NEW p \in Packets, Lose(p) PROVE ClockOfLast' /\ ClockAgrees'
  BY <1>3, <1>6 DEF Lose, dtlsVars, outVars
<1>7. CASE Pop
  <2>1. loop # "idle" /\ UNCHANGED kind
    BY <1>7 DEF Pop
  <2>2. kind # "frames"
    BY <1>1, <2>1 DEF Assembling
  <2> QED
    BY <1>4, <2>1, <2>2
<1>8. CASE Popped
  BY <1>3, <1>8 DEF Popped, dtlsVars, outVars
<1>9. CASE ReadPacket
  BY <1>3, <1>9 DEF ReadPacket, dtlsVars
<1>10. CASE Close
  BY <1>3, <1>10 DEF Close, dtlsVars, outVars
<1>11. CASE UNCHANGED vars
  BY <1>3, <1>11 DEF vars, dtlsVars, outVars
<1> QED
  BY <1>5, <1>6, <1>7, <1>8, <1>9, <1>10, <1>11 DEF Next

\* The media clocks never leave the camera's: a frame's time is the camera's time since
\* the first frame of its media up to whole turns, and exactly that as long as the
\* frames came in order and less than a turn apart (tsTracker.update, handleVideo).
THEOREM ClocksAgree == Spec => []ClockAgrees
<1>1. Init => ClockInv
  <2> SUFFICES ASSUME Init PROVE ClockInv
    OBVIOUS
  <2>1. FrameInv
    BY FrameInit
  <2>2. DOMAIN out = {}
    BY DEF Init
  <2>3. ClockOfLast
    BY <2>2 DEF Init, ClockOfLast, Items, NewClock
  <2>4. ClockAgrees
    BY <2>2 DEF ClockAgrees
  <2> QED
    BY <2>1, <2>3, <2>4 DEF ClockInv
<1>2. ClockInv /\ [Next]_vars => ClockInv'
  BY ClockStep
<1>3. ClockInv => ClockAgrees
  BY DEF ClockInv
<1> QED
  BY <1>1, <1>2, <1>3, PTL DEF Spec
=============================================================================
