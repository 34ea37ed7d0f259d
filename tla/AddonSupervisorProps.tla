------------------------ MODULE AddonSupervisorProps ------------------------
(* The properties of the add-on's launcher (AddonSupervisor).               *)
EXTENDS AddonSupervisor

\* However supervise returns - a stop, a program that exits, one that cannot be
\* started, a deadline - none of the programs outlives it, and go2rtc is told to
\* end only when the bridge, which stops its cameras through it, is gone
\* (xiaomi-addon.py:288-297).
OrderlyEnd ==
    /\ pc = "exited" => \A p \in Programs : ~Lives(p)
    /\ child[Go2rtc] = "terminated" => ~Lives(Bridge)

\* "an unexpected exit of either required process stops the whole container
\* with an error so Supervisor can restart it" (DOCS.md:192-194): the exit code
\* is 0 only when a stop was asked for, although the reason to return and the
\* flag are read at different times.
TruthfulCode == code = 0 => asked

\* A stop, and the exit of a program, end the launcher, unless the handler of
\* a signal waits for the lock of its own thread.
Ends ==
    (asked \/ \E p \in Programs : child[p] = "dead") ~> (pc = "exited" \/ stuck)

\* "A normal stop terminates both processes" (DOCS.md:194-195).
StopEnds == asked ~> pc = "exited"
=============================================================================
