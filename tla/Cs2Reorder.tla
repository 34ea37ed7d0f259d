----------------------------- MODULE Cs2Reorder -----------------------------
(***************************************************************************)
(* Sequencing of one CS2 channel over UDP: dataChannel.PushSeq and the     *)
(* acknowledgement the worker sends for it (src/pkg/xiaomi/miss/cs2/       *)
(* conn.go), against a camera that repeats what is not acknowledged and a  *)
(* network that loses, repeats and reorders datagrams.                     *)
(*                                                                         *)
(* Packets are numbered from 0; their sequence number is the number modulo *)
(* SeqSpace (2^16 in the code), and the variables of the Go program hold   *)
(* sequence numbers only.  The camera is external: its window is an        *)
(* assumption, so is the age of the oldest datagram.                       *)
(***************************************************************************)
EXTENDS Integers, Sequences, FiniteSets, FiniteSetsExt

CONSTANTS
    SeqSpace,   \* number of sequence numbers
    PushSize,   \* limit of the reorder buffer (250 for media, 0 for commands)
    Window,     \* how far ahead of its oldest open packet the camera sends
    MaxPackets  \* bound: how many packets the camera sends

Half == SeqSpace \div 2

ASSUME SeqAssumption ==
    /\ SeqSpace \in Nat \ {0} /\ SeqSpace = 2 * Half
    /\ PushSize \in Nat /\ PushSize < Half
    /\ Window \in 1..Half
    /\ MaxPackets \in Nat

Packets == 0..(MaxPackets - 1)
SeqOf(i) == i % SeqSpace

VARIABLES
    \* --- dataChannel ---
    waitSeq,    \* the next sequence number to process
    pushBuf,    \* sequence number -> packet saved for later
    \* --- the program around it ---
    out,        \* the packets handed to Push, in order
    closed,     \* Push failed: the worker closed the connection
    \* --- the camera (external) ---
    sent,       \* how many packets it sent
    settled,    \* packets it saw acknowledged
    \* --- datagrams in flight: packets, and packets acknowledged ---
    net, acks

chanVars == <<waitSeq, pushBuf, out, closed>>
vars == <<chanVars, sent, settled, net, acks>>

TypeOK ==
    /\ waitSeq \in 0..(SeqSpace - 1)
    /\ DOMAIN pushBuf \subseteq 0..(SeqSpace - 1)
    /\ \A s \in DOMAIN pushBuf : pushBuf[s] \in Packets
    /\ out \in Seq(Packets)
    /\ closed \in BOOLEAN
    /\ sent \in 0..MaxPackets
    /\ settled \in SUBSET Packets /\ net \in SUBSET Packets
    /\ acks \in SUBSET Packets

Init ==
    /\ waitSeq = 0 /\ pushBuf = [s \in {} |-> 0] /\ out = <<>> /\ closed = FALSE
    /\ sent = 0 /\ settled = {} /\ net = {} /\ acks = {}

-----------------------------------------------------------------------------
(* The camera.                                                             *)

\* The oldest packet the camera still waits to see acknowledged.
Base == Min({sent} \cup {i \in Packets : i < sent /\ i \notin settled})

Send ==
    /\ sent < MaxPackets /\ sent < Base + Window
    /\ sent' = sent + 1
    /\ net' = net \cup {sent}
    /\ UNCHANGED <<chanVars, settled, acks>>

Resend(i) ==
    /\ i < sent /\ i \notin settled \cup net
    /\ net' = net \cup {i}
    /\ UNCHANGED <<chanVars, sent, settled, acks>>

\* An acknowledgement names a sequence number; the camera takes it for the
\* open packet that has it.
Settle(a) ==
    /\ a \in acks /\ acks' = acks \ {a}
    /\ settled' = settled \cup {i \in Base..(sent - 1) : SeqOf(i) = SeqOf(a)}
    /\ UNCHANGED <<chanVars, sent, net>>

\* A datagram is lost.  (A repeated one is delivered without leaving the net.)
Lose ==
    /\ \/ \E i \in net : net' = net \ {i} /\ UNCHANGED acks
       \/ \E a \in acks : acks' = acks \ {a} /\ UNCHANGED net
    /\ UNCHANGED <<chanVars, sent, settled>>

\* No datagram is so old that its number has come round: packets of the past
\* half of the number space, acknowledgements of numbers not used again yet.
FreshPacket(i) == Len(out) - i <= Half
FreshAck(a)    == sent <= a + SeqSpace

-----------------------------------------------------------------------------
(* PushSeq.                                                                *)

\* int16(seq - waitSeq)
Diff(seq) == LET d == (seq - waitSeq) % SeqSpace
             IN  IF d < Half THEN d ELSE d - SeqSpace

\* A packet from the future is saved once, if there is room for it.
Saved(seq) == seq \in DOMAIN pushBuf
Room       == Cardinality(DOMAIN pushBuf) # PushSize

Save(seq, i) ==
    pushBuf' = [s \in DOMAIN pushBuf \cup {seq} |-> IF s = seq THEN i ELSE pushBuf[s]]

RunLength_None == 0    \* mutant: saved packets wait for the next datagram

\* How many saved packets follow the expected one without a gap.
RunLength == Max({n \in 0..Cardinality(DOMAIN pushBuf) :
                    \A k \in 1..n : SeqOf(waitSeq + k) \in DOMAIN pushBuf})

\* The expected packet and the first n saved ones go to Push; each is removed
\* from the buffer when its turn comes.
Process(i, n) ==
    /\ out' = out \o <<i>> \o [k \in 1..n |-> pushBuf[SeqOf(waitSeq + k)]]
    /\ LET rest == DOMAIN pushBuf \ {SeqOf(waitSeq + k) : k \in 1..n}
       IN  pushBuf' = [s \in rest |-> pushBuf[s]]

\* The worker acknowledges unless the packet could not be saved.
Ack(i) == acks' = acks \cup {i}

\* Mutant: PushSeq does not tell a packet it refused from one it saved.
Refuse_Acked(i) == Ack(i)
Refuse(i)       == UNCHANGED acks

\* waitSeq counts n packets and wraps around.
After_Unbounded(n) == waitSeq + n    \* mutant
After(n)           == SeqOf(waitSeq + n)

Discard(i) == Diff(SeqOf(i)) < 0 /\ Ack(i) /\ UNCHANGED chanVars

Keep(i) ==
    /\ Diff(SeqOf(i)) > 0
    /\ \/ /\ Saved(SeqOf(i))
          /\ Ack(i) /\ UNCHANGED pushBuf
       \/ /\ ~Saved(SeqOf(i)) /\ Room
          /\ Ack(i) /\ Save(SeqOf(i), i)
       \/ /\ ~Saved(SeqOf(i)) /\ ~Room
          /\ Refuse(i) /\ UNCHANGED pushBuf
    /\ UNCHANGED <<waitSeq, out, closed>>

Expected(i) ==
    /\ Diff(SeqOf(i)) = 0
    /\ Ack(i)
    /\ Process(i, RunLength)
    /\ waitSeq' = After(RunLength + 1)
    /\ UNCHANGED closed

\* Push fails (frame too large, budget or queue exceeded) on one packet of the
\* run: the packet is acknowledged all the same, and the worker closes.
PushFails(i) ==
    /\ Diff(SeqOf(i)) = 0
    /\ Ack(i)
    /\ \E n \in 0..RunLength :
          /\ Process(i, n)
          /\ waitSeq' = After(n)
    /\ closed' = TRUE

\* A datagram arrives; the network may keep a copy.
Receive(i) ==
    /\ ~closed /\ i \in net /\ FreshPacket(i)
    /\ net' \in {net, net \ {i}}
    /\ Discard(i) \/ Keep(i) \/ Expected(i) \/ PushFails(i)
    /\ UNCHANGED <<sent, settled>>

ReceiveAck(a) == FreshAck(a) /\ Settle(a)

Next ==
    \/ Send \/ Lose
    \/ \E i \in Packets : Resend(i) \/ Receive(i) \/ ReceiveAck(i)

Spec == Init /\ [][Next]_vars

\* The camera goes on repeating the packet the program waits for, and a datagram
\* that is sent again and again arrives; nobody has to send anything new, and
\* no acknowledgement has to arrive.
Arrives(i) == net' = net \ {i} /\ Receive(i)

Fairness ==
    /\ WF_vars(\E i \in Packets : i = Len(out) /\ Resend(i))
    /\ SF_vars(\E i \in Packets : i = Len(out) /\ Arrives(i))

FairSpec == Spec /\ Fairness
=============================================================================
