-------------------------- MODULE AddonSupervisor --------------------------
(***************************************************************************)
(* The launcher of the Home Assistant add-on, supervise() and wait_ready() *)
(* of src/hassio/go2rtc/rootfs/usr/local/bin/xiaomi-addon.py: it starts    *)
(* go2rtc, waits for its API, starts the ONVIF bridge when it is enabled,  *)
(* and ends both when a stop is asked for or one of them exits.            *)
(*                                                                         *)
(* A stop is a signal, whose handler runs in the main thread between two   *)
(* of its steps.  It sets a threading.Event, whose lock the main thread    *)
(* holds itself while it enters and leaves Event.wait.                     *)
(***************************************************************************)
EXTENDS Naturals

CONSTANTS Go2rtc, Bridge   \* the two programs

ASSUME ProgramAssumption == Go2rtc # Bridge

Programs == {Go2rtc, Bridge}

VARIABLES
    onvif,    \* the bridge is enabled
    pc,       \* where the main thread is
    event,    \* and in Event.wait: "out", "locked", "asleep", "woken"
    probed,   \* the services wait_ready has found up in this round
    stopped,  \* the flag of the event
    stuck,    \* the handler waits for the lock its own thread holds
    child,    \* none, running, serving (it answers), terminated (told to end), dead
    code,     \* the exit code, 2 until there is one
    asked     \* history: a stop was asked for

mainVars == <<onvif, pc, event, probed, code>>
vars == <<mainVars, stopped, stuck, child, asked>>

TypeOK ==
    /\ onvif \in BOOLEAN
    /\ pc \in {"start", "api", "bridge", "both", "verdict", "watch", "polls",
               "end bridge", "end go2rtc", "exited"}
    /\ event \in {"out", "locked", "asleep", "woken"}
    /\ probed \subseteq Programs
    /\ stopped \in BOOLEAN /\ stuck \in BOOLEAN /\ asked \in BOOLEAN
    /\ child \in [Programs -> {"none", "running", "serving", "terminated", "dead"}]
    /\ code \in 0..2
    /\ event # "out" => pc \in {"api", "both", "watch"}

Init ==
    /\ onvif \in BOOLEAN /\ pc = "start" /\ event = "out" /\ probed = {}
    /\ stopped = FALSE /\ stuck = FALSE
    /\ child = [p \in Programs |-> "none"]
    /\ code = 2 /\ asked = FALSE

Up(p)    == child[p] \in {"running", "serving"}
Lives(p) == Up(p) \/ child[p] = "terminated"
Waited == IF pc = "api" THEN {Go2rtc} ELSE Programs   \* urls

Frame == UNCHANGED <<onvif, stopped, stuck, asked>>
Stay  == Frame /\ UNCHANGED child

\* return, with the finally clause to come.
Leave(c) == pc' = "end bridge" /\ code' = c

Starts(p, from, to) ==
    /\ pc = from
    /\ \/ /\ child' = [child EXCEPT ![p] = "running"] /\ pc' = to
          /\ UNCHANGED code
       \/ Leave(1) /\ UNCHANGED child    \* OSError, or no usable configuration
    /\ UNCHANGED <<event, probed>> /\ Frame

StartGo2rtc == Starts(Go2rtc, "start", "api")

StartBridge ==
    \/ onvif /\ ~stopped /\ Starts(Bridge, "bridge", "both")
    \/ /\ pc = "bridge" /\ ~(onvif /\ ~stopped) /\ pc' = "watch"
       /\ UNCHANGED <<event, probed, code>> /\ Stay

-----------------------------------------------------------------------------
(* wait_ready: until all answer, a child exits, or time is up.             *)

Probe(p) ==
    /\ pc \in {"api", "both"} /\ event = "out"
    /\ p \in Waited \ probed /\ child[p] = "serving" /\ (p = Bridge => Go2rtc \in probed)
    /\ probed' = IF probed \cup {p} = Waited THEN {} ELSE probed \cup {p}
    /\ pc' = IF probed' # {} THEN pc ELSE IF pc = "api" THEN "bridge" ELSE "watch"
    /\ UNCHANGED <<event, code>> /\ Stay

\* Mutant: only a stop ends the wait.
GivesUp_OnStop ==
    /\ pc \in {"api", "both"} /\ event = "out" /\ probed = {} /\ pc' = "verdict"
    /\ stopped
    /\ UNCHANGED <<event, probed, code>> /\ Stay

\* Stopped, late (at any time), or without a child.
GivesUp ==
    /\ pc \in {"api", "both"} /\ event = "out" /\ probed = {} /\ pc' = "verdict"
    /\ UNCHANGED <<event, probed, code>> /\ Stay

\* Mutant: a launcher that gives up always reports a stop.
Verdict_Zero ==
    /\ pc = "verdict" /\ Leave(0)
    /\ UNCHANGED <<event, probed>> /\ Stay

Verdict ==
    /\ pc = "verdict" /\ Leave(IF stopped THEN 0 ELSE 1)
    /\ UNCHANGED <<event, probed>> /\ Stay

\* stopped.wait(0.2), also that of supervise, with the lock of the event at both
\* ends; a wait_ready that was told a service is not up goes there.
Wait ==
    /\ \/ /\ event = "out"
          /\ pc = "watch" \/ (pc \in {"api", "both"} /\ \E p \in Waited : child[p] # "serving")
          /\ event' = "locked" /\ UNCHANGED pc
       \/ event = "locked" /\ ~stopped /\ event' = "asleep" /\ UNCHANGED pc
       \/ event = "asleep" /\ event' = "woken" /\ UNCHANGED pc
       \/ /\ event = "woken" \/ (event = "locked" /\ stopped)
          /\ event' = "out" /\ pc' = IF pc = "watch" THEN "polls" ELSE pc
    /\ probed' = {} /\ UNCHANGED code /\ Stay

\* After the wait of supervise: a stop, a child that exited, or another round.
Poll ==
    /\ pc = "polls"
    /\ IF stopped THEN Leave(0)
       ELSE IF \E p \in Programs : child[p] = "dead" THEN Leave(1)
       ELSE pc' = "watch" /\ UNCHANGED code
    /\ UNCHANGED <<event, probed>> /\ Stay

-----------------------------------------------------------------------------
(* finally: the children in reverse, terminated, after five seconds killed. *)

\* Mutant: only the program that was started last is ended.
FinallyEnds_Last(p, from, to) ==
    /\ pc = from
    /\ \/ Up(p) /\ child' = [child EXCEPT ![p] = "terminated"] /\ UNCHANGED pc
       \/ child[p] = "terminated" /\ child' = [child EXCEPT ![p] = "dead"] /\ UNCHANGED pc
       \/ ~Lives(p) /\ pc' = "exited" /\ UNCHANGED child
    /\ UNCHANGED <<event, probed, code>> /\ Frame

FinallyEnds(p, from, to) ==
    /\ pc = from
    /\ \/ Up(p) /\ child' = [child EXCEPT ![p] = "terminated"] /\ UNCHANGED pc
       \/ child[p] = "terminated" /\ child' = [child EXCEPT ![p] = "dead"] /\ UNCHANGED pc
       \/ ~Lives(p) /\ pc' = to /\ UNCHANGED child
    /\ UNCHANGED <<event, probed, code>> /\ Frame

Finally ==
    \/ FinallyEnds(Bridge, "end bridge", "end go2rtc")
    \/ FinallyEnds(Go2rtc, "end go2rtc", "exited")

-----------------------------------------------------------------------------
(* Around the launcher.                                                    *)

\* SIGTERM or SIGINT: the handler sets the event, which takes its lock.
Signal ==
    /\ pc # "exited" /\ ~stuck /\ asked' = TRUE
    /\ IF event \in {"locked", "woken"}
       THEN stuck' = TRUE /\ UNCHANGED stopped
       ELSE stopped' = TRUE /\ UNCHANGED stuck
    /\ UNCHANGED <<mainVars, child>>

\* A program answers its probe, no longer does, or exits.
Turns(p) ==
    /\ \/ Up(p) /\ \E is \in {"running", "serving"} : child' = [child EXCEPT ![p] = is]
       \/ Lives(p) /\ child' = [child EXCEPT ![p] = "dead"]
    /\ UNCHANGED <<mainVars, stopped, stuck, asked>>

Main ==
    /\ ~stuck
    /\ \/ StartGo2rtc \/ StartBridge \/ (\E p \in Programs : Probe(p)) \/ GivesUp
       \/ Verdict \/ Wait \/ Poll \/ Finally

Next == Main \/ Signal \/ \E p \in Programs : Turns(p)

Spec == Init /\ [][Next]_vars

\* The main thread runs, and wait_ready has a deadline of 30 seconds.
FairSpec == Spec /\ WF_vars(Main) /\ SF_vars(~stuck /\ GivesUp)
=============================================================================
