-------------------------- MODULE Cs2ReorderProps --------------------------
(***************************************************************************)
(* The properties of a CS2 channel over UDP (Cs2Reorder) and its           *)
(* refinement of ordered delivery (OrderedDelivery).                       *)
(***************************************************************************)
EXTENDS Cs2Reorder

\* The camera forgets what is acknowledged, so an acknowledged packet must have
\* been handed on or saved; a packet that found the buffer full is repeated
\* (PushSeq's -1, conn.go:185).
AckedIsKept ==
    ~closed =>
        \A i \in acks \cup settled :
            \/ i < Len(out)
            \/ SeqOf(i) \in DOMAIN pushBuf /\ pushBuf[SeqOf(i)] = i

\* The buffer holds packets of the future only, each under its own number: an
\* entry left behind by a previous round of the number space would be taken for
\* a packet 65536 later.
BufferAhead ==
    /\ Cardinality(DOMAIN pushBuf) <= PushSize
    /\ ~closed => \A s \in DOMAIN pushBuf :
          /\ SeqOf(pushBuf[s]) = s
          /\ pushBuf[s] - Len(out) \in 1..(Half - 1)

\* The reorder buffer is a promise to the camera and to the reader.
BufferSound == AckedIsKept /\ BufferAhead

\* A failing packet is handed to Push but not counted by waitSeq; nothing is
\* processed after it.
Ordered == INSTANCE OrderedDelivery WITH broken <- closed

\* The channel is an ordered, lossless pipe until it closes: what Push has seen is
\* a prefix of what the camera sent, no packet twice, none skipped, none out of
\* its turn, although the numbers wrap, repeated datagrams of the past arrive and
\* saved packets are consumed in runs.  It goes on delivering as long as the
\* packet it waits for arrives now and then.
KeepsOrder == Ordered!FairSpec
=============================================================================
