----------------------------- MODULE Cs2Command -----------------------------
(***************************************************************************)
(* Commands over CS2 and UDP: Conn.WriteCommand and what the worker does   *)
(* with an acknowledgement (src/pkg/xiaomi/miss/cs2/conn.go).              *)
(*                                                                         *)
(* A caller writes its command every second until the callback it left in  *)
(* c.cmdAck ran or the attempts are used up.  The worker runs that         *)
(* callback for any acknowledgement, whatever it acknowledges.  c.cmdAck   *)
(* is written and read without a lock, so the worker may see an older      *)
(* value.  The camera and the network are external: datagrams are lost,    *)
(* repeated and reordered.                                                 *)
(*                                                                         *)
(* The specification's names begin with Command: a module may extend this  *)
(* one and Cs2Frames, the other half of a connection.                      *)
(***************************************************************************)
EXTENDS Integers

CONSTANTS
    Commands,  \* the calls of WriteCommand, each with a command of its own
    Attempts,  \* the initial value of repeat
    NoOne      \* no call

ASSUME CommandAssumption == Attempts \in Nat \ {0} /\ NoOne \notin Commands

VARIABLES
    \* --- Conn and its callers ---
    cmdMu,      \* the holder of cmdMu
    cmdAck,     \* the call whose callback c.cmdAck is
    pc,         \* where each call is
    repeat,     \* the counter of each call
    ticker,     \* calls whose ticker runs
    ticks,      \* calls whose ticker's channel holds a tick
    sends,      \* how often each command was written
    outcome,    \* what each call returns
    \* --- the worker ---
    resetting,  \* the call whose callback it is in the middle of
    assigned,   \* the callbacks c.cmdAck ever had
    by,         \* the commands whose acknowledgements ran a callback in time
    \* --- camera and network ---
    net, acks,  \* commands and acknowledgements in flight
    received    \* commands the camera got

callVars    == <<cmdMu, pc, sends, outcome>>
ackVars     == <<resetting, by>>
netVars     == <<net, acks, received>>
commandVars == <<callVars, cmdAck, assigned, repeat, ticker, ticks, ackVars, netVars>>

CommandTypeOK ==
    /\ cmdMu \in Commands \cup {NoOne} /\ cmdAck \in Commands \cup {NoOne}
    /\ pc \in [Commands -> {"idle", "locking", "write", "wait", "leave", "returned"}]
    /\ repeat \in [Commands -> -1..Attempts]
    /\ ticker \in SUBSET Commands /\ ticks \in SUBSET Commands
    /\ sends \in [Commands -> 0..Attempts]
    /\ outcome \in [Commands -> {"none", "sent", "unsent", "broken"}]
    /\ resetting \in Commands \cup {NoOne} /\ assigned \in SUBSET Commands
    /\ by \in [Commands -> SUBSET Commands]
    /\ net \in SUBSET Commands /\ acks \in SUBSET Commands
    /\ received \in SUBSET Commands

CommandInit ==
    /\ cmdMu = NoOne /\ cmdAck = NoOne
    /\ pc = [c \in Commands |-> "idle"]
    /\ repeat = [c \in Commands |-> 0]
    /\ ticker = {} /\ ticks = {}
    /\ sends = [c \in Commands |-> 0]
    /\ outcome = [c \in Commands |-> "none"]
    /\ resetting = NoOne /\ assigned = {} /\ by = [c \in Commands |-> {}]
    /\ net = {} /\ acks = {} /\ received = {}

Goto(c, from, to) == pc[c] = from /\ pc' = [pc EXCEPT ![c] = to]

-----------------------------------------------------------------------------
(* WriteCommand.                                                           *)

Call(c) ==
    /\ Goto(c, "idle", "locking")
    /\ UNCHANGED <<cmdMu, sends, outcome, cmdAck, assigned, repeat, ticker, ticks,
                   ackVars, netVars>>

TakeMutex_Never(c) == UNCHANGED cmdMu    \* mutant
TakeMutex(c)       == cmdMu = NoOne /\ cmdMu' = c

\* The counter, the ticker and the callback of a new command.
Register(c) ==
    /\ TakeMutex(c)
    /\ Goto(c, "locking", "write")
    /\ repeat' = [repeat EXCEPT ![c] = Attempts]
    /\ ticker' = ticker \cup {c}
    /\ cmdAck' = c /\ assigned' = assigned \cup {c}
    /\ UNCHANGED <<sends, outcome, ticks, ackVars, netVars>>

\* UDP takes the datagram, or the connection is closed.
Write(c) ==
    /\ \/ /\ Goto(c, "write", "wait")
          /\ sends' = [sends EXCEPT ![c] = @ + 1]
          /\ net' = net \cup {c}
          /\ UNCHANGED outcome
       \/ /\ Goto(c, "write", "leave")
          /\ outcome' = [outcome EXCEPT ![c] = "broken"]
          /\ UNCHANGED <<sends, net>>
    /\ UNCHANGED <<cmdMu, cmdAck, assigned, repeat, ticker, ticks, ackVars, acks,
                   received>>

Tick(c) ==
    /\ c \in ticker \ ticks
    /\ ticks' = ticks \cup {c}
    /\ UNCHANGED <<callVars, cmdAck, assigned, repeat, ticker, ackVars, netVars>>

\* r decides: confirmed, out of attempts, or the next attempt.  Mutant: a confirmed
\* call goes on.
Decide_Deaf(c, r) ==
    IF r = 0 THEN outcome' = [outcome EXCEPT ![c] = "unsent"] /\ Goto(c, "wait", "leave")
             ELSE UNCHANGED outcome /\ Goto(c, "wait", "write")
Decide(c, r) ==
    IF r > 0 THEN UNCHANGED outcome /\ Goto(c, "wait", "write")
    ELSE /\ outcome' = [outcome EXCEPT ![c] = IF r < 0 THEN "sent" ELSE "unsent"]
         /\ Goto(c, "wait", "leave")

TakeTick(c) ==
    /\ c \in ticks /\ ticks' = ticks \ {c}
    /\ repeat' = [repeat EXCEPT ![c] = @ - 1]
    /\ Decide(c, repeat'[c])
    /\ UNCHANGED <<cmdMu, sends, cmdAck, assigned, ticker, ackVars, netVars>>

\* The deferred Stop of the ticker and Unlock; the callback stays in c.cmdAck.
Leave_Locked(c) ==    \* mutant
    /\ Goto(c, "leave", "returned")
    /\ ticker' = ticker \ {c}
    /\ UNCHANGED <<cmdMu, sends, outcome, cmdAck, assigned, repeat, ticks, ackVars,
                   netVars>>

Leave(c) ==
    /\ Goto(c, "leave", "returned")
    /\ ticker' = ticker \ {c} /\ cmdMu' = NoOne
    /\ UNCHANGED <<sends, outcome, cmdAck, assigned, repeat, ticks, ackVars,
                   netVars>>

-----------------------------------------------------------------------------
(* The worker.                                                             *)

Confirmed_One == 1    \* mutant: one more attempt is left
Confirmed     == 0

\* An acknowledgement of command a: the first half of the callback k.
HandleAck(a) ==
    /\ resetting = NoOne
    /\ a \in acks /\ acks' \in {acks, acks \ {a}}
    /\ \E k \in assigned :
          /\ resetting' = k
          /\ repeat' = [repeat EXCEPT ![k] = Confirmed]
          /\ by' = IF outcome[k] = "none" THEN [by EXCEPT ![k] = @ \cup {a}] ELSE by
    /\ UNCHANGED <<callVars, cmdAck, assigned, ticker, ticks, net, received>>

\* timeout.Reset(1), which also starts a ticker that was stopped.
ResetTicker ==
    /\ resetting # NoOne
    /\ ticker' = ticker \cup {resetting}
    /\ resetting' = NoOne
    /\ UNCHANGED <<callVars, cmdAck, assigned, repeat, ticks, by, netVars>>

-----------------------------------------------------------------------------
(* The camera acknowledges every copy of a command; the network.           *)

CameraGets(c) ==
    /\ c \in net /\ net' \in {net, net \ {c}}
    /\ received' = received \cup {c}
    /\ acks' = acks \cup {c}
    /\ UNCHANGED <<callVars, cmdAck, assigned, repeat, ticker, ticks, ackVars>>

Lose ==
    /\ \/ \E c \in net : net' = net \ {c} /\ UNCHANGED acks
       \/ \E a \in acks : acks' = acks \ {a} /\ UNCHANGED net
    /\ UNCHANGED <<callVars, cmdAck, assigned, repeat, ticker, ticks, ackVars,
                   received>>

-----------------------------------------------------------------------------
CallStep(c) == Register(c) \/ Write(c) \/ TakeTick(c) \/ Leave(c)

CommandNext ==
    \/ \E c \in Commands : Call(c) \/ CallStep(c) \/ Tick(c)
    \/ \E c \in Commands : HandleAck(c) \/ CameraGets(c)
    \/ ResetTicker \/ Lose

CommandSpec == CommandInit /\ [][CommandNext]_commandVars

\* Callers run and tickers tick; the camera and the network owe nothing.
CommandFairness == \A c \in Commands : WF_commandVars(CallStep(c)) /\ WF_commandVars(Tick(c))

CommandFairSpec == CommandSpec /\ CommandFairness
=============================================================================
