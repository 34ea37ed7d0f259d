--------------------------- MODULE Cs2FramesProps ---------------------------
(***************************************************************************)
(* The properties of a CS2 channel's frame buffer (Cs2Frames).             *)
(***************************************************************************)
EXTENDS Cs2Frames

\* The sizes in s add up to t: there are running totals from 0 to t.
IsTotal(s, t) ==
    \E sum \in [0..Len(s) -> 0..BufferLimit] :
        /\ sum[0] = 0 /\ sum[Len(s)] = t
        /\ \A i \in 1..Len(s) : sum[i] = sum[i - 1] + s[i]

\* The budget is exact at every moment, whatever Pop, reserve's compare-and-swap
\* and the failure paths do between each other's steps: it is the frame under
\* assembly, the queued frames and the one Pop is about to subtract.  What leaks
\* here would sooner or later refuse every frame of a healthy camera.  And it keeps
\* its limit, although the limit is checked against a value loaded earlier.
BudgetExact ==
    /\ IsTotal(popBuf, buffered - waitSize - hand)
    /\ buffered <= BufferLimit

\* The reader learns of the end only when it has every frame the channel ever
\* accepted and nothing is charged to the budget any more.
EndAfterDrain ==
    rpc = "ended" => taken = accepted /\ buffered = 0 /\ done

\* The budget on the way and at the end.
BudgetKept == BudgetExact /\ EndAfterDrain

\* An idle reader cannot hold a closed connection open: the worker, though it
\* blocks for room in the queue, notices and closes the channel.
CloseIsNoticed == done ~> ~popOpen

\* A consumer that never reads ends the connection instead of blocking its
\* worker (and its keepalive and acknowledgements) for ever.
NeverStuck == wpc = "blocked" ~> wpc # "blocked"

\* A reader that stopped reading harms nobody but itself.
ReaderHarmless == CloseIsNoticed /\ NeverStuck
=============================================================================
