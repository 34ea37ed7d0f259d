-------------------------- MODULE Cs2ReorderProofs --------------------------
(***************************************************************************)
(* Proofs of the safety properties of a CS2 channel over UDP (Cs2Reorder,  *)
(* Cs2ReorderProps), and that every step of it is one of OrderedDelivery,  *)
(* for any number space, buffer, window and number of packets.             *)
(***************************************************************************)
EXTENDS Cs2ReorderProps, FiniteSetTheorems, SequenceTheorems, TLAPS

\* What was handed on is what was sent, in order, and the expected number is that of
\* the packet after it.
Sequenced ==
    /\ \A k \in 1..Len(out) : out[k] = k - 1
    /\ Len(out) <= sent
    /\ ~closed => waitSeq = SeqOf(Len(out))

\* Nothing travels or waits that was not sent.
InFlight ==
    /\ \A i \in net \cup acks \cup settled : i < sent
    /\ \A s \in DOMAIN pushBuf : pushBuf[s] < sent

\* The camera is never further ahead of an open packet than its window.
WindowKept == \A i \in Packets : i + Window < sent => i \in settled

IInv == TypeOK /\ Sequenced /\ InFlight /\ WindowKept /\ BufferSound

-----------------------------------------------------------------------------
(* Remainders.                                                             *)

LEMMA DivMod ==
    ASSUME NEW N \in Nat, N > 0, NEW a \in Int
    PROVE  a % N \in 0..(N - 1) /\ a \div N \in Int /\ a = N * (a \div N) + (a % N)
<1>1. a = N * (a \div N) + (a % N)
  BY SMT
<1>2. a % N \in 0..(N - 1) /\ a \div N \in Int
  BY SMT
<1> QED
  BY <1>1, <1>2

\* Multiples of N that differ by less than N are the same.
LEMMA SameMultiple ==
    ASSUME NEW N \in Nat, N > 0, NEW p \in Int, NEW q \in Int,
           N * p - N * q < N, N * q - N * p < N
    PROVE  p = q
<1>1. N * p - N * q = N * (p - q) /\ N * q - N * p = N * (q - p)
  OBVIOUS
<1>2. ASSUME NEW d \in Int, d >= 1 PROVE N * d >= N
  BY <1>2
<1>3. ~(p - q >= 1)
  BY <1>1, <1>2
<1>4. ~(q - p >= 1)
  BY <1>1, <1>2
<1> QED
  BY <1>3, <1>4

\* The remainder is the only number below N that is left of a after multiples of N.
LEMMA ModUnique ==
    ASSUME NEW N \in Nat, N > 0, NEW a \in Int, NEW q \in Int, NEW r \in 0..(N - 1),
           a = N * q + r
    PROVE  a % N = r
<1> DEFINE p == a \div N
           m == a % N
<1>1. m \in 0..(N - 1) /\ p \in Int /\ a = N * p + m
  BY DivMod
<1> HIDE DEF p, m
<1>2. N * p \in Int /\ N * q \in Int
  BY <1>1
<1>3. N * p - N * q < N /\ N * q - N * p < N
  BY <1>1, <1>2
<1>4. p = q
  BY <1>1, <1>3, SameMultiple
<1>5. m = r
  BY <1>1, <1>2, <1>4
<1> QED
  BY <1>5 DEF m

LEMMA Distributes ==
    ASSUME NEW N \in Int, NEW p \in Int, NEW q \in Int
    PROVE  N * (q - p) = N * q - N * p
OBVIOUS

-----------------------------------------------------------------------------
(* Sequence numbers.                                                       *)

\* All that is used of the constants.
LEMMA Constants ==
    /\ SeqSpace \in Nat /\ SeqSpace > 0 /\ SeqSpace = 2 * Half /\ Half \in Nat /\ Half > 0
    /\ PushSize \in Nat /\ PushSize < Half
    /\ Window \in 1..Half /\ MaxPackets \in Nat
<1>1. Half \in Int
  BY SeqAssumption, SMT DEF SeqAssumption, Half
<1> QED
  BY <1>1, SeqAssumption DEF SeqAssumption

LEMMA SeqOfType ==
    ASSUME NEW i \in Int
    PROVE  SeqOf(i) \in 0..(SeqSpace - 1)
BY Constants, DivMod DEF SeqOf

\* Two packets that have the same number are SeqSpace apart.
LEMMA SameNumber ==
    ASSUME NEW i \in Int, NEW j \in Int, SeqOf(i) = SeqOf(j),
           i - j < SeqSpace, j - i < SeqSpace
    PROVE  i = j
<1> DEFINE p == i \div SeqSpace
           q == j \div SeqSpace
           r == i % SeqSpace
<1>1. /\ r \in 0..(SeqSpace - 1) /\ p \in Int /\ q \in Int
      /\ i = SeqSpace * p + r /\ j = SeqSpace * q + r
  BY Constants, DivMod DEF SeqOf
<1> HIDE DEF p, q, r
<1>2. SeqSpace * p \in Int /\ SeqSpace * q \in Int
  BY <1>1, Constants
<1>3. SeqSpace * p - SeqSpace * q < SeqSpace /\ SeqSpace * q - SeqSpace * p < SeqSpace
  BY <1>1, <1>2, Constants
<1>4. p = q
  BY <1>1, <1>3, Constants, SameMultiple
<1> QED
  BY <1>1, <1>4

\* Counting on from a packet's number or from the packet gives the same number.
LEMMA ShiftedNumber ==
    ASSUME NEW l \in Int, NEW k \in Int
    PROVE  SeqOf(SeqOf(l) + k) = SeqOf(l + k)
<1> DEFINE p == l \div SeqSpace
           r == l % SeqSpace
           q == (l + k) \div SeqSpace
           s == (l + k) % SeqSpace
<1>1. /\ r \in 0..(SeqSpace - 1) /\ p \in Int /\ l = SeqSpace * p + r
      /\ s \in 0..(SeqSpace - 1) /\ q \in Int /\ l + k = SeqSpace * q + s
  BY Constants, DivMod
<1> HIDE DEF p, q, r, s
<1> DEFINE u == r + k
           c == q - p
<1>2. u \in Int /\ c \in Int /\ u = SeqSpace * c + s
  <2>1. SeqSpace * c = SeqSpace * q - SeqSpace * p
    BY <1>1, Constants, Distributes
  <2>2. SeqSpace * q \in Int /\ SeqSpace * p \in Int
    BY <1>1, Constants
  <2> HIDE DEF c
  <2>3. u = SeqSpace * c + s
    BY <1>1, <2>1, <2>2, Constants
  <2> QED
    BY <1>1, <2>3 DEF c
<1> HIDE DEF u, c
<1>3. u % SeqSpace = s
  BY <1>1, <1>2, Constants, ModUnique
<1> QED
  BY <1>3 DEF SeqOf, r, s, u

\* int16(seq - waitSeq) tells how far a packet is ahead of the expected one or behind
\* it, although it sees the numbers only: within half of the number space.
LEMMA DiffIsDistance ==
    ASSUME NEW i \in Int, NEW l \in Int, waitSeq = SeqOf(l), l - i <= Half, i - l < Half
    PROVE  Diff(SeqOf(i)) = i - l
<1> DEFINE p == i \div SeqSpace
           s == i % SeqSpace
           q == l \div SeqSpace
           w == l % SeqSpace
           u == s - w
           c == q - p
           d == u % SeqSpace
<1>1. /\ s \in 0..(SeqSpace - 1) /\ p \in Int /\ i = SeqSpace * p + s
      /\ w \in 0..(SeqSpace - 1) /\ q \in Int /\ l = SeqSpace * q + w
  BY Constants, DivMod
<1>2. Diff(SeqOf(i)) = IF d < Half THEN d ELSE d - SeqSpace
  BY DEF Diff, SeqOf
<1> HIDE DEF p, q, s, w, d
<1>3. u \in Int /\ c \in Int /\ u = SeqSpace * c + (i - l)
  <2>1. SeqSpace * c = SeqSpace * q - SeqSpace * p
    BY <1>1, Constants, Distributes
  <2>2. SeqSpace * q \in Int /\ SeqSpace * p \in Int
    BY <1>1, Constants
  <2> HIDE DEF c
  <2>3. u = SeqSpace * c + (i - l)
    BY <1>1, <2>1, <2>2, Constants
  <2> QED
    BY <1>1, <2>3 DEF c
<1> HIDE DEF u, c
<1>4. CASE i >= l
  <2> DEFINE m == i - l
  <2>1. m \in 0..(SeqSpace - 1) /\ m < Half /\ u = SeqSpace * c + m
    BY <1>3, <1>4, Constants
  <2> HIDE DEF m
  <2>2. d = m
    BY <1>3, <2>1, Constants, ModUnique DEF d
  <2> QED
    BY <1>2, <2>1, <2>2 DEF m
<1>5. CASE i < l
  <2> DEFINE m == (i - l) + SeqSpace
             e == c - 1
  <2>1. SeqSpace * e = SeqSpace * c - SeqSpace * 1
    BY <1>3, Constants, Distributes
  <2>2. SeqSpace * e = SeqSpace * c - SeqSpace
    BY <2>1, Constants
  <2>3. SeqSpace * c \in Int /\ e \in Int
    BY <1>3, Constants
  <2> HIDE DEF e
  <2>4. m \in 0..(SeqSpace - 1) /\ m >= Half /\ u = SeqSpace * e + m
    BY <1>3, <1>5, <2>2, <2>3, Constants
  <2> HIDE DEF m
  <2>5. d = m
    BY <1>3, <2>3, <2>4, Constants, ModUnique DEF d
  <2> QED
    BY <1>2, <2>4, <2>5, Constants DEF m
<1> QED
  BY <1>4, <1>5

-----------------------------------------------------------------------------
(* The least and the greatest of a set of numbers.                         *)

LEMMA LeastNat ==
    ASSUME NEW S \in SUBSET Nat, S # {}
    PROVE  \E x \in S : \A y \in S : x <= y
<1> DEFINE R == OpToRel(<, Nat)
<1>1. PICK x \in S : \A y \in S : ~ (<<y, x>> \in R)
  <2>1. IsWellFoundedOn(R, Nat)
    BY NatLessThanWellFounded
  <2> HIDE DEF R
  <2> QED
    BY <2>1, WFMin
<1>2. \A y \in S : ~(y < x)
  BY <1>1 DEF OpToRel
<1> QED
  BY <1>2

LEMMA MinIsLeast ==
    ASSUME NEW S \in SUBSET Nat, S # {}
    PROVE  Min(S) \in S /\ \A y \in S : Min(S) <= y
BY LeastNat DEF Min

LEMMA MaxIsGreatest ==
    ASSUME NEW b \in Nat, NEW S \in SUBSET (0..b), S # {}
    PROVE  Max(S) \in S /\ \A y \in S : Max(S) >= y
<1> DEFINE T == {b - x : x \in S}
<1>1. T \in SUBSET Nat /\ T # {}
  <2>1. \A x \in S : b - x \in Nat
    OBVIOUS
  <2>2. PICK x \in S : TRUE
    OBVIOUS
  <2>3. b - x \in T
    BY <2>2
  <2> QED
    BY <2>1, <2>3
<1>2. PICK t \in T : \A y \in T : t <= y
  <2> HIDE DEF T
  <2> QED
    BY <1>1, LeastNat
<1>3. PICK x \in S : t = b - x
  BY <1>2
<1>4. \A y \in S : x >= y
  <2> SUFFICES ASSUME NEW y \in S PROVE x >= y
    OBVIOUS
  <2>1. b - x <= b - y
    BY <1>2, <1>3
  <2> QED
    BY <2>1
<1> QED
  BY <1>4 DEF Max

-----------------------------------------------------------------------------
(* The camera's window.                                                    *)

LEMMA BaseIsOldest ==
    ASSUME TypeOK
    PROVE  /\ Base \in 0..sent
           /\ Base # sent => Base \in Packets /\ Base \notin settled
           /\ \A i \in Packets : i < Base => i \in settled
<1> DEFINE S == {sent} \cup {i \in Packets : i < sent /\ i \notin settled}
<1>1. S \in SUBSET Nat /\ S # {} /\ sent \in S
  BY Constants DEF TypeOK, Packets
<1>2. Base \in S /\ \A y \in S : Base <= y
  <2> HIDE DEF S
  <2>1. Min(S) \in S /\ \A y \in S : Min(S) <= y
    BY <1>1, MinIsLeast
  <2> QED
    BY <2>1 DEF Base, S
<1>3. Base \in 0..sent
  BY <1>1, <1>2 DEF TypeOK
<1>4. ASSUME NEW i \in Packets, i < Base PROVE i \in settled
  BY <1>2, <1>3, <1>4, Constants DEF TypeOK, Packets
<1> QED
  BY <1>2, <1>3, <1>4

\* No open packet is further back than the window, the oldest one included.
LEMMA BaseInWindow ==
    ASSUME TypeOK, WindowKept
    PROVE  sent <= Base + Window
BY BaseIsOldest, Constants DEF TypeOK, WindowKept

\* The packet that is expected next was not acknowledged, so the camera is not far
\* ahead of it.
LEMMA NextIsOpen ==
    ASSUME IInv, ~closed
    PROVE  sent - Len(out) <= Half
<1> DEFINE l == Len(out)
<1>1. l \in Nat /\ sent \in 0..MaxPackets /\ l <= sent
  BY DEF IInv, TypeOK, Sequenced
<1>2. CASE l = sent
  BY <1>1, <1>2, Constants
<1>3. CASE l < sent
  <2>1. l \in Packets
    BY <1>1, <1>3, Constants DEF Packets
  <2>2. l \notin settled
    BY <1>1, Constants DEF IInv, BufferSound, AckedIsKept, BufferAhead
  <2> QED
    BY <1>1, <2>1, <2>2, Constants DEF IInv, WindowKept
<1> QED
  BY <1>1, <1>2, <1>3

\* So the program sees how far the packet of a fresh datagram is ahead or behind.
LEMMA Distance ==
    ASSUME IInv, ~closed, NEW i \in net, FreshPacket(i)
    PROVE  /\ Diff(SeqOf(i)) = i - Len(out)
           /\ i - Len(out) < Half /\ i \in Nat /\ i < sent
<1> DEFINE l == Len(out)
<1>1. l \in Nat /\ i \in Nat /\ i < sent /\ sent \in Nat
  BY Constants DEF IInv, TypeOK, InFlight, Packets
<1>2. sent - l <= Half /\ l - i <= Half /\ waitSeq = SeqOf(l)
  BY NextIsOpen DEF FreshPacket, IInv, Sequenced
<1> HIDE DEF l
<1>3. i - l < Half
  BY <1>1, <1>2, Constants
<1>4. Diff(SeqOf(i)) = i - l
  BY <1>1, <1>2, <1>3, DiffIsDistance
<1> QED
  BY <1>1, <1>3, <1>4 DEF l

-----------------------------------------------------------------------------
(* The run of saved packets behind the expected one.                       *)

LEMMA BufferFinite ==
    ASSUME TypeOK
    PROVE  IsFiniteSet(DOMAIN pushBuf) /\ Cardinality(DOMAIN pushBuf) \in Nat
<1>1. IsFiniteSet(0..(SeqSpace - 1))
  BY Constants, FS_Interval
<1>2. IsFiniteSet(DOMAIN pushBuf)
  BY <1>1, FS_Subset DEF TypeOK
<1> QED
  BY <1>2, FS_CardinalityType

LEMMA RunIsLongest ==
    ASSUME TypeOK
    PROVE  /\ RunLength \in 0..Cardinality(DOMAIN pushBuf)
           /\ \A k \in 1..RunLength : SeqOf(waitSeq + k) \in DOMAIN pushBuf
           /\ \/ RunLength = Cardinality(DOMAIN pushBuf)
              \/ SeqOf(waitSeq + (RunLength + 1)) \notin DOMAIN pushBuf
<1> DEFINE c == Cardinality(DOMAIN pushBuf)
           S == {n \in 0..c : \A k \in 1..n : SeqOf(waitSeq + k) \in DOMAIN pushBuf}
<1>1. c \in Nat
  BY BufferFinite
<1> HIDE DEF c
<1>2. S \in SUBSET (0..c) /\ 0 \in S
  BY <1>1
<1>3. RunLength \in S /\ \A y \in S : RunLength >= y
  <2>1. RunLength = Max(S)
    BY DEF RunLength, c
  <2> HIDE DEF S
  <2>2. Max(S) \in S /\ \A y \in S : Max(S) >= y
    BY <1>1, <1>2, MaxIsGreatest
  <2> QED
    BY <2>1, <2>2
<1>4. RunLength \in 0..c /\ \A k \in 1..RunLength : SeqOf(waitSeq + k) \in DOMAIN pushBuf
  BY <1>3
<1>5. ASSUME RunLength # c PROVE SeqOf(waitSeq + (RunLength + 1)) \notin DOMAIN pushBuf
  <2> DEFINE m == RunLength + 1
  <2>1. m \in 0..c /\ ~(RunLength >= m) /\ \A k \in 1..m : k \in 1..RunLength \/ k = m
    BY <1>1, <1>4, <1>5
  <2>2. m \notin S
    BY <1>3, <2>1
  <2> HIDE DEF m
  <2>3. SeqOf(waitSeq + m) \notin DOMAIN pushBuf
    BY <1>4, <2>1, <2>2
  <2> QED
    BY <2>3 DEF m
<1> QED
  BY <1>4, <1>5 DEF c

\* What is saved under the number of a packet to come is that packet.
LEMMA EntryIsPacket ==
    ASSUME IInv, ~closed, NEW s \in DOMAIN pushBuf, NEW k \in 1..(Half - 1),
           s = SeqOf(waitSeq + k)
    PROVE  pushBuf[s] = Len(out) + k
<1> DEFINE l == Len(out)
           e == pushBuf[s]
<1>1. l \in Nat /\ waitSeq = SeqOf(l) /\ e \in Nat
  BY Constants DEF IInv, TypeOK, Sequenced, Packets
<1>2. SeqOf(e) = s /\ e - l \in 1..(Half - 1)
  BY DEF IInv, BufferSound, BufferAhead
<1> HIDE DEF l, e
<1> DEFINE m == l + k
<1>3. s = SeqOf(m) /\ m \in Int
  BY <1>1, ShiftedNumber, Constants
<1>4. e - m < SeqSpace /\ m - e < SeqSpace
  BY <1>1, <1>2, Constants
<1> HIDE DEF m
<1>5. e = m
  BY <1>1, <1>2, <1>3, <1>4, SameNumber
<1> QED
  BY <1>5 DEF l, e, m

\* As long as the run may be, it stays within half of the number space.
LEMMA RunIsShort ==
    ASSUME IInv
    PROVE  RunLength \in 0..(Half - 1) /\ RunLength <= PushSize
<1>1. Cardinality(DOMAIN pushBuf) <= PushSize /\ Cardinality(DOMAIN pushBuf) \in Nat
  BY BufferFinite DEF IInv, BufferSound, BufferAhead
<1> QED
  BY <1>1, RunIsLongest, Constants DEF IInv

\* After the whole run there is a gap: the packet behind it is not in the buffer, not
\* even when the run was all of it.
LEMMA GapAfterRun ==
    ASSUME IInv, ~closed
    PROVE  SeqOf(waitSeq + (RunLength + 1)) \notin DOMAIN pushBuf
<1> SUFFICES ASSUME SeqOf(waitSeq + (RunLength + 1)) \in DOMAIN pushBuf PROVE FALSE
  OBVIOUS
<1> DEFINE m == RunLength + 1
           D == DOMAIN pushBuf
           f == [k \in 1..m |-> SeqOf(waitSeq + k)]
<1>1. m \in 1..Half /\ m \in Nat /\ RunLength \in Nat
  BY RunIsShort, Constants
<1>2. \A k \in 1..m : k \in 1..RunLength \/ k = m
  BY <1>1
<1>3. \A k \in 1..m : SeqOf(waitSeq + k) \in D
  BY <1>2, RunIsLongest DEF IInv
<1>4. Cardinality(D) = RunLength /\ IsFiniteSet(D)
  BY RunIsLongest, BufferFinite DEF IInv
<1>5. IsFiniteSet(1..m) /\ Cardinality(1..m) = m
  BY <1>1, FS_Interval
<1>6. f \in [1..m -> D]
  BY <1>3
<1>7. \E x, y \in 1..m : x # y /\ f[x] = f[y]
  <2>1. Cardinality(D) < Cardinality(1..m)
    BY <1>1, <1>4, <1>5
  <2> HIDE DEF f, D, m
  <2> QED
    BY <1>4, <1>5, <1>6, <2>1, FS_PigeonHole
<1>8. PICK x \in 1..m, y \in 1..m : x # y /\ SeqOf(waitSeq + x) = SeqOf(waitSeq + y)
  BY <1>7
<1>9. waitSeq \in Int /\ x \in Int /\ y \in Int /\ x - y < SeqSpace /\ y - x < SeqSpace
  BY <1>1, Constants DEF IInv, TypeOK
<1>10. waitSeq + x = waitSeq + y
  <2> DEFINE a == waitSeq + x
             b == waitSeq + y
  <2>1. a \in Int /\ b \in Int /\ SeqOf(a) = SeqOf(b) /\ a - b < SeqSpace /\ b - a < SeqSpace
    BY <1>8, <1>9
  <2> HIDE DEF a, b
  <2>2. a = b
    BY <2>1, SameNumber
  <2> QED
    BY <2>2 DEF a, b
<1> QED
  BY <1>8, <1>9, <1>10

\* What the whole run leaves in the buffer is behind that gap.
LEMMA LeftIsBehindGap ==
    ASSUME IInv, ~closed, NEW s \in DOMAIN pushBuf,
           s \notin {SeqOf(waitSeq + k) : k \in 1..RunLength}
    PROVE  pushBuf[s] - Len(out) > RunLength + 1
<1> DEFINE l == Len(out)
           d == pushBuf[s] - l
<1>1. l \in Nat /\ waitSeq = SeqOf(l) /\ pushBuf[s] \in Nat
  BY Constants DEF IInv, TypeOK, Sequenced, Packets
<1>2. SeqOf(pushBuf[s]) = s /\ d \in 1..(Half - 1) /\ pushBuf[s] = l + d
  BY <1>1 DEF IInv, BufferSound, BufferAhead
<1> HIDE DEF l, d
<1>3. s = SeqOf(waitSeq + d)
  BY <1>1, <1>2, ShiftedNumber, Constants
<1>4. d \notin 1..RunLength /\ d # RunLength + 1
  BY <1>3, GapAfterRun
<1>5. d > RunLength + 1
  BY <1>2, <1>4, RunIsShort, Constants
<1> QED
  BY <1>5 DEF d, l

-----------------------------------------------------------------------------
(* Process: the expected packet and saved ones, in order.                  *)

LEMMA Processed ==
    ASSUME IInv, ~closed, NEW i \in net, i = Len(out), NEW n \in 0..RunLength, Process(i, n)
    PROVE  /\ out' \in Seq(Packets) /\ Len(out') = Len(out) + 1 + n /\ Len(out') <= sent
           /\ out' = [k \in 1..(Len(out) + 1 + n) |-> k - 1]
           /\ \A k \in 1..Len(out') : out'[k] = k - 1
<1> DEFINE l == Len(out)
           run == [k \in 1..n |-> pushBuf[SeqOf(waitSeq + k)]]
<1>1. n \in Nat /\ n < Half /\ RunLength \in Nat
  BY RunIsShort, Constants
<1>2. \A k \in 1..n : SeqOf(waitSeq + k) \in DOMAIN pushBuf
  BY <1>1, RunIsLongest DEF IInv
<1>3. \A k \in 1..n : run[k] = l + k /\ run[k] \in Packets /\ run[k] < sent
  <2> SUFFICES ASSUME NEW k \in 1..n
               PROVE  run[k] = l + k /\ run[k] \in Packets /\ run[k] < sent
    OBVIOUS
  <2> DEFINE s == SeqOf(waitSeq + k)
  <2>1. s \in DOMAIN pushBuf /\ k \in 1..(Half - 1)
    BY <1>1, <1>2, Constants
  <2>2. pushBuf[s] = l + k
    BY <2>1, EntryIsPacket
  <2>3. pushBuf[s] \in Packets /\ pushBuf[s] < sent
    BY <2>1 DEF IInv, TypeOK, InFlight
  <2> QED
    BY <2>2, <2>3
<1>4. run \in Seq(Packets) /\ Len(run) = n
  BY <1>1, <1>3
<1>5. <<i>> \in Seq(Packets) /\ Len(<<i>>) = 1 /\ <<i>>[1] = l /\ i < sent
  BY DEF IInv, TypeOK, InFlight
<1>6. out \in Seq(Packets) /\ l \in Nat /\ \A k \in 1..l : out[k] = k - 1
  BY DEF IInv, TypeOK, Sequenced
<1>7. out' = (out \o <<i>>) \o run
  BY DEF Process
<1> HIDE DEF run, l
<1>8. /\ out \o <<i>> \in Seq(Packets) /\ Len(out \o <<i>>) = l + 1
      /\ \A k \in 1..(l + 1) : (out \o <<i>>)[k] = k - 1
  BY <1>5, <1>6 DEF l
<1> DEFINE front == out \o <<i>>
<1> HIDE DEF front
<1>9. /\ front \in Seq(Packets) /\ Len(front) = l + 1 /\ out' = front \o run
      /\ \A k \in 1..(l + 1) : front[k] = k - 1
  BY <1>7, <1>8 DEF front
<1>10. /\ out' \in Seq(Packets) /\ Len(out') = l + 1 + n
       /\ \A k \in 1..(l + 1 + n) : out'[k] = IF k <= l + 1 THEN front[k] ELSE run[k - (l + 1)]
  <2>1. /\ front \o run \in Seq(Packets) /\ Len(front \o run) = Len(front) + Len(run)
        /\ \A k \in 1..(Len(front) + Len(run)) :
              (front \o run)[k] = IF k <= Len(front) THEN front[k] ELSE run[k - Len(front)]
    BY <1>4, <1>9, ConcatProperties
  <2>2. Len(front) = l + 1 /\ Len(run) = n /\ out' = front \o run
    BY <1>4, <1>9
  <2> QED
    BY <2>1, <2>2, Zenon
<1>11. \A k \in 1..(l + 1 + n) : out'[k] = k - 1
  <2> SUFFICES ASSUME NEW k \in 1..(l + 1 + n) PROVE out'[k] = k - 1
    OBVIOUS
  <2>1. CASE k <= l + 1
    BY <1>1, <1>6, <1>9, <1>10, <2>1
  <2>2. CASE k > l + 1
    <3>1. k - (l + 1) \in 1..n
      BY <1>1, <1>6, <2>2
    <3> QED
      BY <1>1, <1>3, <1>6, <1>10, <2>2, <3>1
  <2> QED
    BY <1>1, <1>6, <2>1, <2>2
<1>12. out' = [k \in 1..(l + 1 + n) |-> k - 1]
  <2>1. out' = [k \in 1..Len(out') |-> out'[k]]
    BY <1>10
  <2> QED
    BY <1>10, <1>11, <2>1
<1>13. l + 1 + n <= sent
  <2>1. CASE n = 0
    BY <1>5, <1>6, <2>1 DEF IInv, TypeOK, l
  <2>2. CASE n # 0
    <3>1. n \in 1..n
      BY <1>1, <2>2
    <3> QED
      BY <1>1, <1>3, <1>6, <3>1 DEF IInv, TypeOK
  <2> QED
    BY <2>1, <2>2
<1> QED
  BY <1>10, <1>11, <1>12, <1>13 DEF l

\* What is taken from the buffer was its first n saved packets.
LEMMA BufferProcessed ==
    ASSUME IInv, NEW i, NEW n \in 0..RunLength, Process(i, n)
    PROVE  /\ DOMAIN pushBuf' = DOMAIN pushBuf \ {SeqOf(waitSeq + k) : k \in 1..n}
           /\ \A s \in DOMAIN pushBuf' : pushBuf'[s] = pushBuf[s]
           /\ Cardinality(DOMAIN pushBuf') <= PushSize
<1>1. /\ DOMAIN pushBuf' = DOMAIN pushBuf \ {SeqOf(waitSeq + k) : k \in 1..n}
      /\ \A s \in DOMAIN pushBuf' : pushBuf'[s] = pushBuf[s]
  BY DEF Process
<1>2. DOMAIN pushBuf' \in SUBSET DOMAIN pushBuf
  BY <1>1
<1>3. Cardinality(DOMAIN pushBuf') <= Cardinality(DOMAIN pushBuf)
      /\ Cardinality(DOMAIN pushBuf') \in Nat
  BY <1>2, BufferFinite, FS_Subset, FS_CardinalityType DEF IInv
<1> QED
  BY <1>1, <1>3, BufferFinite, Constants DEF IInv, BufferSound, BufferAhead

-----------------------------------------------------------------------------
(* The camera's steps and the network's.                                   *)

LEMMA SendStep == IInv /\ Send => IInv'
<1> SUFFICES ASSUME IInv, Send PROVE IInv'
  OBVIOUS
<1>1. sent \in Packets /\ sent \in Nat
  BY Constants DEF IInv, TypeOK, Send, Packets
<1>2. TypeOK'
  BY <1>1, Constants DEF IInv, TypeOK, Send, chanVars
<1>3. Sequenced' /\ InFlight'
  BY <1>1, Constants DEF IInv, TypeOK, Sequenced, InFlight, Send, chanVars, Packets
<1>4. WindowKept'
  <2> SUFFICES ASSUME NEW i \in Packets, i + Window < sent' PROVE i \in settled
    BY DEF WindowKept, Send
  <2>1. i < Base
    BY <1>1, BaseIsOldest, Constants DEF IInv, TypeOK, Send, Packets
  <2> QED
    BY <2>1, BaseIsOldest DEF IInv
<1>5. BufferSound'
  BY DEF IInv, BufferSound, AckedIsKept, BufferAhead, Send, chanVars
<1> QED
  BY <1>2, <1>3, <1>4, <1>5 DEF IInv

LEMMA ResendStep == ASSUME IInv, NEW i \in Packets, Resend(i) PROVE IInv'
<1>1. TypeOK'
  BY DEF IInv, TypeOK, Resend, chanVars
<1>2. Sequenced' /\ InFlight' /\ WindowKept'
  BY DEF IInv, Sequenced, InFlight, WindowKept, Resend, chanVars
<1>3. BufferSound'
  BY DEF IInv, BufferSound, AckedIsKept, BufferAhead, Resend, chanVars
<1> QED
  BY <1>1, <1>2, <1>3 DEF IInv

LEMMA LoseStep == IInv /\ Lose => IInv'
<1> SUFFICES ASSUME IInv, Lose PROVE IInv'
  OBVIOUS
<1>1. net' \subseteq net /\ acks' \subseteq acks /\ UNCHANGED <<chanVars, sent, settled>>
  BY DEF Lose
<1>2. TypeOK'
  BY <1>1 DEF IInv, TypeOK, chanVars
<1>3. Sequenced' /\ InFlight' /\ WindowKept'
  BY <1>1 DEF IInv, Sequenced, InFlight, WindowKept, chanVars
<1>4. BufferSound'
  BY <1>1 DEF IInv, BufferSound, AckedIsKept, BufferAhead, chanVars
<1> QED
  BY <1>2, <1>3, <1>4 DEF IInv

\* A fresh acknowledgement settles the packet it was sent for and no other.
LEMMA AckStep == ASSUME IInv, NEW a \in Packets, ReceiveAck(a) PROVE IInv'
<1> USE DEF ReceiveAck, Settle
<1>1. settled' \subseteq settled \cup {a}
  <2> SUFFICES ASSUME NEW i \in Base..(sent - 1), SeqOf(i) = SeqOf(a) PROVE i = a
    OBVIOUS
  <2>1. Base \in Nat /\ sent \in Nat /\ sent <= Base + Window
    BY BaseInWindow, BaseIsOldest DEF IInv, TypeOK
  <2>2. a < sent /\ a \in Nat /\ sent <= a + SeqSpace
    BY Constants DEF IInv, InFlight, FreshAck, Packets
  <2>3. i - a < SeqSpace /\ a - i < SeqSpace /\ i \in Int /\ a \in Int
    BY <2>1, <2>2, Constants
  <2> QED
    BY <2>3, SameNumber
<1>2. a \in acks /\ acks' \subseteq acks /\ settled \subseteq settled'
  OBVIOUS
<1>3. TypeOK'
  BY <1>1, <1>2 DEF IInv, TypeOK, chanVars
<1>4. Sequenced' /\ InFlight' /\ WindowKept'
  BY <1>1, <1>2 DEF IInv, Sequenced, InFlight, WindowKept, chanVars
<1>5. BufferSound'
  BY <1>1, <1>2 DEF IInv, BufferSound, AckedIsKept, BufferAhead, chanVars
<1> QED
  BY <1>3, <1>4, <1>5 DEF IInv

-----------------------------------------------------------------------------
(* PushSeq.                                                                *)

\* What every arrival does to the network and leaves of the camera.
LEMMA ArrivalStep ==
    ASSUME IInv, NEW i \in Packets, Receive(i)
    PROVE  /\ ~closed /\ i \in net /\ FreshPacket(i) /\ i < sent
           /\ net' \subseteq net /\ sent' = sent /\ settled' = settled
           /\ acks' \in {acks, acks \cup {i}}
           /\ WindowKept'
<1>1. i < sent /\ net' \subseteq net
  BY DEF IInv, InFlight, Receive
<1>2. acks' \in {acks, acks \cup {i}}
  BY DEF Receive, Discard, Keep, Expected, PushFails, Ack, Refuse
<1> QED
  BY <1>1, <1>2 DEF Receive, IInv, WindowKept

\* A packet of the past was handed on before, so it may be acknowledged again.
LEMMA DiscardStep ==
    ASSUME IInv, NEW i \in Packets, Receive(i), Discard(i) PROVE IInv'
<1>1. i < Len(out)
  BY ArrivalStep, Distance DEF Discard, IInv, TypeOK
<1>2. UNCHANGED chanVars /\ acks' = acks \cup {i}
  BY DEF Discard, Ack
<1>3. TypeOK'
  BY <1>2, ArrivalStep DEF IInv, TypeOK, chanVars
<1>4. Sequenced' /\ InFlight'
  BY <1>2, ArrivalStep DEF IInv, Sequenced, InFlight, chanVars
<1>5. BufferSound'
  BY <1>1, <1>2, ArrivalStep DEF IInv, BufferSound, AckedIsKept, BufferAhead, chanVars
<1> QED
  BY <1>3, <1>4, <1>5, ArrivalStep DEF IInv

\* A packet of the future is saved under its own number, or was, or is not acknowledged.
LEMMA KeepStep ==
    ASSUME IInv, NEW i \in Packets, Receive(i), Keep(i) PROVE IInv'
<1> DEFINE q == SeqOf(i)
<1>1. /\ i - Len(out) \in 1..(Half - 1) /\ UNCHANGED <<waitSeq, out, closed>>
      /\ ~closed /\ i < sent /\ i \in Nat /\ Len(out) \in Nat
  BY ArrivalStep, Distance, Constants DEF Keep, IInv, TypeOK
<1>2. Sequenced'
  BY <1>1, ArrivalStep DEF IInv, Sequenced
<1>3. CASE Saved(q) /\ Ack(i) /\ UNCHANGED pushBuf
  <2>1. q \in DOMAIN pushBuf /\ acks' = acks \cup {i}
    BY <1>3 DEF Saved, Ack
  <2>2. pushBuf[q] = i
    <3> DEFINE e == pushBuf[q]
    <3>1. SeqOf(e) = SeqOf(i) /\ e - Len(out) \in 1..(Half - 1) /\ e \in Nat
      BY <1>1, <2>1, Constants DEF IInv, TypeOK, Packets, BufferSound, BufferAhead
    <3> HIDE DEF e
    <3>2. e - i < SeqSpace /\ i - e < SeqSpace
      BY <1>1, <3>1, Constants
    <3>3. e = i
      BY <1>1, <3>1, <3>2, SameNumber
    <3> QED
      BY <3>3 DEF e
  <2>3. TypeOK'
    BY <1>1, <1>3, <2>1, ArrivalStep DEF IInv, TypeOK
  <2>4. InFlight'
    BY <1>1, <1>3, <2>1, ArrivalStep DEF IInv, InFlight
  <2>5. BufferSound'
    BY <1>1, <1>3, <2>1, <2>2, ArrivalStep DEF IInv, BufferSound, AckedIsKept, BufferAhead
  <2> QED
    BY <1>2, <2>3, <2>4, <2>5, ArrivalStep DEF IInv
<1>4. CASE ~Saved(q) /\ Room /\ Ack(i) /\ Save(q, i)
  <2>1. /\ q \notin DOMAIN pushBuf /\ acks' = acks \cup {i} /\ q \in 0..(SeqSpace - 1)
        /\ DOMAIN pushBuf' = DOMAIN pushBuf \cup {q} /\ pushBuf'[q] = i
        /\ \A s \in DOMAIN pushBuf : pushBuf'[s] = pushBuf[s]
    BY <1>1, <1>4, SeqOfType DEF Saved, Ack, Save
  <2>2. Cardinality(DOMAIN pushBuf') <= PushSize
    <3>1. Cardinality(DOMAIN pushBuf \cup {q}) = Cardinality(DOMAIN pushBuf) + 1
      BY <2>1, BufferFinite, FS_AddElement DEF IInv
    <3> QED
      BY <1>4, <2>1, <3>1, BufferFinite, Constants
         DEF Room, IInv, BufferSound, BufferAhead
  <2> HIDE DEF q
  <2>3. TypeOK'
    BY <1>1, <2>1, ArrivalStep DEF IInv, TypeOK
  <2>4. InFlight'
    BY <1>1, <2>1, ArrivalStep DEF IInv, InFlight
  <2>5. BufferAhead'
    BY <1>1, <2>1, <2>2 DEF IInv, BufferSound, BufferAhead, q
  <2>6. AckedIsKept'
    BY <1>1, <2>1, ArrivalStep DEF IInv, BufferSound, AckedIsKept, q
  <2> QED
    BY <1>2, <2>3, <2>4, <2>5, <2>6, ArrivalStep DEF IInv, BufferSound
<1>5. CASE ~Saved(q) /\ ~Room /\ Refuse(i) /\ UNCHANGED pushBuf
  <2>1. acks' = acks
    BY <1>5 DEF Refuse
  <2>2. TypeOK'
    BY <1>1, <1>5, <2>1, ArrivalStep DEF IInv, TypeOK
  <2>3. InFlight'
    BY <1>1, <1>5, <2>1, ArrivalStep DEF IInv, InFlight
  <2>4. BufferSound'
    BY <1>1, <1>5, <2>1, ArrivalStep DEF IInv, BufferSound, AckedIsKept, BufferAhead
  <2> QED
    BY <1>2, <2>2, <2>3, <2>4, ArrivalStep DEF IInv
<1> QED
  BY <1>3, <1>4, <1>5 DEF Keep

\* The expected packet and the whole run behind it are handed on.
LEMMA ExpectedStep ==
    ASSUME IInv, NEW i \in Packets, Receive(i), Expected(i) PROVE IInv'
<1> DEFINE l == Len(out)
           n == RunLength
<1>1. /\ ~closed /\ i = l /\ l \in Nat /\ n \in 0..(Half - 1) /\ n \in 0..n
      /\ Process(i, n) /\ acks' = acks \cup {i} /\ closed' = closed
  BY ArrivalStep, Distance, RunIsShort, Constants DEF Expected, Ack, IInv, TypeOK
<1>2. /\ out' \in Seq(Packets) /\ Len(out') = l + 1 + n /\ Len(out') <= sent
      /\ \A k \in 1..Len(out') : out'[k] = k - 1
  BY <1>1, ArrivalStep, Processed
<1>3. waitSeq' = SeqOf(Len(out')) /\ waitSeq' \in 0..(SeqSpace - 1)
  <2>1. waitSeq = SeqOf(l)
    BY <1>1 DEF IInv, Sequenced
  <2>2. waitSeq' = SeqOf(waitSeq + (n + 1))
    BY DEF Expected, After
  <2>3. n + 1 \in Int /\ l \in Int /\ l + (n + 1) = l + 1 + n
    BY <1>1
  <2> HIDE DEF l, n
  <2>4. waitSeq' = SeqOf(l + (n + 1))
    BY <2>1, <2>2, <2>3, ShiftedNumber
  <2> QED
    BY <1>1, <1>2, <2>3, <2>4, SeqOfType
<1>4. /\ DOMAIN pushBuf' = DOMAIN pushBuf \ {SeqOf(waitSeq + k) : k \in 1..n}
      /\ \A s \in DOMAIN pushBuf' : pushBuf'[s] = pushBuf[s]
      /\ Cardinality(DOMAIN pushBuf') <= PushSize
  BY <1>1, BufferProcessed
<1>5. \A s \in DOMAIN pushBuf' : pushBuf[s] - l > n + 1
  BY <1>1, <1>4, LeftIsBehindGap
<1>6. \A s \in DOMAIN pushBuf \ DOMAIN pushBuf' : pushBuf[s] < l + 1 + n
  <2> SUFFICES ASSUME NEW k \in 1..n, SeqOf(waitSeq + k) \in DOMAIN pushBuf
               PROVE  pushBuf[SeqOf(waitSeq + k)] < l + 1 + n
    BY <1>4
  <2>1. k \in 1..(Half - 1)
    BY <1>1, Constants
  <2>2. pushBuf[SeqOf(waitSeq + k)] = l + k
    BY <1>1, <2>1, EntryIsPacket
  <2> QED
    BY <1>1, <2>2
<1> HIDE DEF l, n
<1>7. TypeOK'
  BY <1>1, <1>2, <1>3, <1>4, ArrivalStep DEF IInv, TypeOK
<1>8. Sequenced' /\ InFlight'
  BY <1>1, <1>2, <1>3, <1>4, ArrivalStep DEF IInv, Sequenced, InFlight
<1>9. BufferAhead'
  <2>1. \A s \in DOMAIN pushBuf' :
           /\ SeqOf(pushBuf[s]) = s /\ pushBuf[s] - l \in 1..(Half - 1) /\ pushBuf[s] \in Nat
    BY <1>1, <1>4, Constants DEF IInv, TypeOK, Packets, BufferSound, BufferAhead, l
  <2>2. \A s \in DOMAIN pushBuf' : pushBuf[s] - Len(out') \in 1..(Half - 1)
    <3> SUFFICES ASSUME NEW s \in DOMAIN pushBuf'
                 PROVE  pushBuf[s] - Len(out') \in 1..(Half - 1)
      OBVIOUS
    <3> DEFINE e == pushBuf[s]
    <3>1. e \in Nat /\ e - l \in 1..(Half - 1) /\ e - l > n + 1 /\ Len(out') = l + 1 + n
      BY <1>2, <1>5, <2>1
    <3> HIDE DEF e
    <3>2. e - Len(out') \in 1..(Half - 1)
      BY <1>1, <3>1, Constants
    <3> QED
      BY <3>2 DEF e
  <2> QED
    BY <1>4, <2>1, <2>2 DEF BufferAhead
<1>10. AckedIsKept'
  <2> SUFFICES ASSUME NEW j \in acks \cup settled \cup {i}
               PROVE  \/ j < Len(out')
                      \/ SeqOf(j) \in DOMAIN pushBuf' /\ pushBuf'[SeqOf(j)] = j
    BY <1>1, ArrivalStep DEF AckedIsKept
  <2>1. CASE j = i
    BY <1>1, <1>2, <2>1
  <2>2. CASE j # i /\ j < l
    BY <1>1, <1>2, <2>2 DEF IInv, TypeOK, Packets
  <2>3. CASE j # i /\ ~(j < l)
    <3>1. SeqOf(j) \in DOMAIN pushBuf /\ pushBuf[SeqOf(j)] = j
      BY <1>1, <2>3 DEF IInv, BufferSound, AckedIsKept, l
    <3> QED
      BY <1>2, <1>4, <1>6, <3>1
  <2> QED
    BY <2>1, <2>2, <2>3
<1> QED
  BY <1>7, <1>8, <1>9, <1>10, ArrivalStep DEF IInv, BufferSound

\* Push fails on one of the run: what came before it is in order, and nothing follows.
LEMMA PushFailsStep ==
    ASSUME IInv, NEW i \in Packets, Receive(i), PushFails(i) PROVE IInv'
<1>1. PICK n \in 0..RunLength : Process(i, n) /\ waitSeq' = After(n)
  BY DEF PushFails
<1>2. ~closed /\ i = Len(out) /\ acks' = acks \cup {i} /\ closed' = TRUE
  BY ArrivalStep, Distance DEF PushFails, Ack, IInv, TypeOK
<1>3. closed' \in BOOLEAN
  BY <1>2, Zenon
<1>4. /\ out' \in Seq(Packets) /\ Len(out') <= sent
      /\ \A k \in 1..Len(out') : out'[k] = k - 1
  BY <1>1, <1>2, ArrivalStep, Processed
<1>5. /\ DOMAIN pushBuf' \subseteq DOMAIN pushBuf
      /\ \A s \in DOMAIN pushBuf' : pushBuf'[s] = pushBuf[s]
      /\ Cardinality(DOMAIN pushBuf') <= PushSize
  BY <1>1, BufferProcessed
<1>6. waitSeq' \in 0..(SeqSpace - 1)
  <2>1. waitSeq + n \in Int
    BY RunIsShort DEF IInv, TypeOK
  <2> QED
    BY <1>1, <2>1, SeqOfType DEF After
<1>7. TypeOK'
  BY <1>2, <1>3, <1>4, <1>5, <1>6, ArrivalStep DEF IInv, TypeOK
<1>8. Sequenced' /\ InFlight'
  BY <1>2, <1>4, <1>5, ArrivalStep DEF IInv, Sequenced, InFlight
<1>9. BufferSound'
  BY <1>2, <1>5 DEF BufferSound, AckedIsKept, BufferAhead
<1> QED
  BY <1>7, <1>8, <1>9, ArrivalStep DEF IInv

-----------------------------------------------------------------------------
LEMMA InitialInvariant == Init => IInv
<1> SUFFICES ASSUME Init PROVE IInv
  OBVIOUS
<1>1. closed \in BOOLEAN
  BY Zenon DEF Init
<1>2. out \in Seq(Packets) /\ Len(out) = 0 /\ DOMAIN pushBuf = {}
  BY DEF Init
<1>3. TypeOK
  BY <1>1, <1>2, Constants DEF Init, TypeOK
<1>4. SeqOf(0) = 0
  <2>1. 0 \in 0..(SeqSpace - 1) /\ 0 = SeqSpace * 0 + 0
    BY Constants
  <2> QED
    BY <2>1, Constants, ModUnique DEF SeqOf
<1>5. Sequenced /\ InFlight /\ WindowKept
  BY <1>2, <1>4, Constants DEF Init, Sequenced, InFlight, WindowKept, Packets
<1>6. BufferSound
  <2>1. Cardinality(DOMAIN pushBuf) = 0
    BY <1>2, FS_EmptySet
  <2> QED
    BY <1>2, <2>1, Constants DEF Init, BufferSound, AckedIsKept, BufferAhead
<1> QED
  BY <1>3, <1>5, <1>6 DEF IInv

LEMMA Step == IInv /\ [Next]_vars => IInv'
<1> SUFFICES ASSUME IInv, [Next]_vars PROVE IInv'
  OBVIOUS
<1>1. CASE UNCHANGED vars
  <2>1. TypeOK'
    BY <1>1 DEF IInv, TypeOK, vars, chanVars
  <2>2. Sequenced' /\ InFlight' /\ WindowKept'
    BY <1>1 DEF IInv, Sequenced, InFlight, WindowKept, vars, chanVars
  <2>3. BufferSound'
    BY <1>1 DEF IInv, BufferSound, AckedIsKept, BufferAhead, vars, chanVars
  <2> QED
    BY <2>1, <2>2, <2>3 DEF IInv
<1>2. ASSUME NEW i \in Packets, Receive(i) PROVE IInv'
  BY <1>2, DiscardStep, KeepStep, ExpectedStep, PushFailsStep DEF Receive
<1> QED
  BY <1>1, <1>2, SendStep, LoseStep, ResendStep, AckStep DEF Next

\* The inductive invariant holds in every state.
LEMMA Invariance == Spec => []IInv
BY InitialInvariant, Step, PTL DEF Spec

\* Every reachable state is type correct: numbers and saved packets stay in range.
THEOREM TypeCorrect == Spec => []TypeOK
<1>1. IInv => TypeOK
  BY DEF IInv
<1> QED
  BY <1>1, Invariance, PTL

\* An acknowledged packet was handed on or is saved under its own number, and the
\* reorder buffer holds packets of the coming half of the number space only.
THEOREM BufferIsSound == Spec => []BufferSound
<1>1. IInv => BufferSound
  BY DEF IInv
<1> QED
  BY <1>1, Invariance, PTL

\* Whatever is lost, repeated, reordered or saved for later, a step of the channel is
\* one of ordered delivery: PushSeq hands on the next packets, in order, or nothing.
THEOREM ImplementsOrdered == Spec => Ordered!Spec
<1>1. Init => Ordered!Init
  BY DEF Init, Ordered!Init
<1>2. IInv /\ [Next]_vars => [Ordered!Next]_(Ordered!vars)
  <2> SUFFICES ASSUME IInv, [Next]_vars
               PROVE  Ordered!Next \/ UNCHANGED Ordered!vars
    OBVIOUS
  <2>1. CASE Send
    BY <2>1 DEF Send, chanVars, Ordered!Next, Ordered!Send
  <2>2. ASSUME NEW i \in Packets, Receive(i) PROVE Ordered!Next \/ UNCHANGED Ordered!vars
    <3>1. /\ ~closed /\ i \in net /\ sent' = sent /\ Diff(SeqOf(i)) = i - Len(out)
          /\ i \in Nat /\ Len(out) \in Nat /\ RunLength \in Nat
      BY <2>2, ArrivalStep, Distance, RunIsShort DEF IInv, TypeOK
    <3>2. CASE Discard(i) \/ Keep(i)
      BY <3>1, <3>2 DEF Discard, Keep, chanVars, Ordered!vars
    <3>3. CASE Expected(i)
      <4> DEFINE m == Len(out) + 1 + RunLength
      <4>1. i = Len(out) /\ RunLength \in 0..RunLength /\ Process(i, RunLength)
        BY <3>1, <3>3 DEF Expected
      <4>2. Len(out') = m /\ m <= sent /\ out' = [k \in 1..m |-> k - 1]
        BY <3>1, <4>1, Processed
      <4>3. m \in (Len(out) + 1)..sent
        BY <3>1, <4>2 DEF IInv, TypeOK
      <4> QED
        BY <3>1, <3>3, <4>2, <4>3 DEF Expected, Ordered!Next, Ordered!Deliver
    <3>4. CASE PushFails(i)
      <4>1. PICK n \in 0..RunLength : Process(i, n)
        BY <3>4 DEF PushFails
      <4> DEFINE m == Len(out) + 1 + n
      <4>2. i = Len(out)
        BY <3>1, <3>4 DEF PushFails
      <4>3. Len(out') = m /\ m <= sent /\ out' = [k \in 1..m |-> k - 1]
        BY <3>1, <4>1, <4>2, Processed
      <4>4. m \in Len(out)..sent
        BY <3>1, <4>3 DEF IInv, TypeOK
      <4> QED
        BY <3>1, <3>4, <4>3, <4>4 DEF PushFails, Ordered!Next, Ordered!Break
    <3> QED
      BY <2>2, <3>2, <3>3, <3>4 DEF Receive
  <2>3. CASE Lose \/ (\E i \in Packets : Resend(i) \/ ReceiveAck(i)) \/ UNCHANGED vars
    BY <2>3 DEF Lose, Resend, ReceiveAck, Settle, vars, chanVars, Ordered!vars
  <2> QED
    BY <2>1, <2>2, <2>3 DEF Next
<1> QED
  BY <1>1, <1>2, Invariance, PTL DEF Spec, Ordered!Spec
=============================================================================
