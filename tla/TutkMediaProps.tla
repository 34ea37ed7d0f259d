---------------------------- MODULE TutkMediaProps ----------------------------
(***************************************************************************)
(* What the readers of a TUTK connection rely on (TutkMedia).              *)
(***************************************************************************)
EXTENDS TutkMedia

FrameOf(item)  == Frame(item.data[1])
WholeFrame(k)  == [i \in 1..FrameSizes[k] |-> First[k] + i - 1]
Video(item)    == ChannelOf[FrameOf(item)] # "A"

\* Session25's buffer is not full of packets whose turn is over.  They stay there
\* until Pop, with no free slot, runs through all numbers back to them.
Sound == kind = "session25" => ~flooded

\* A frame that is handed on is one frame of the camera, all of it and nothing
\* else, whatever is lost, late or repeated (SessionRead, handleChunk, handleVideo).
WholeFrames ==
    Sound => \A i \in DOMAIN out : out[i].data = WholeFrame(FrameOf(out[i]))

\* Session25 hands on no frame twice or after a newer one, however the packets are
\* mixed up or repeated, and not even when it gave up packets that were late.
\* (Session16 and FrameHandler take packets as they come: a frame of one packet
\* that is late is handed on late.)
InOrder ==
    (kind = "session25" /\ Sound) =>
        \A i, j \in DOMAIN out : i < j => FrameOf(out[i]) < FrameOf(out[j])

\* What the decoder is fed: whole frames and, from Session25, in order.
FramesIntact == WholeFrames /\ InOrder

\* How many packets have arrived without a gap.
Prefix == Max({n \in {0} \cup Packets : 1..n \subseteq arrived})

\* Session25 loses nothing the network delivered: as long as no packet came after
\* BufferSize later ones and the reader kept up, every frame that is complete is
\* handed on as soon as the loop rests, however the packets were mixed up.
NothingLost ==
    (/\ kind = "session25" /\ loop = "idle" /\ lost = {} /\ dups = 0
     /\ ~late /\ dropped = 0) =>
        \A k \in Frames : First[k + 1] - 1 <= Prefix => \E i \in DOMAIN out : FrameOf(out[i]) = k

\* The media clock (tsTracker.update): a frame's time is the camera's time since
\* the first one, up to whole turns of the camera's clock, and exactly that when
\* the frames came in order and less than a turn apart.  A frame of the other
\* channel that overtakes it costs a whole turn.
Media(i) == {j \in DOMAIN out : Video(out[j]) = Video(out[i])}
Since(i, j) == (FrameOf(out[j]) - FrameOf(out[i])) * Step

ClockAgrees ==
    kind = "frames" =>
        \A i \in DOMAIN out :
            LET since == Since(Min(Media(i)), i)
                past  == {j \in Media(i) : j <= i}
                steady == \A j, k \in past :
                            (j < k /\ ~\E l \in past : j < l /\ l < k)
                                => Since(j, k) \in 1..(Wrap - 1)
            IN  /\ (out[i].time - since) % Wrap = 0
                /\ steady => out[i].time = since
=============================================================================
