---------------------------- MODULE XiaomiCloud ----------------------------
(***************************************************************************)
(* The account side of a Xiaomi camera: src/internal/xiaomi/xiaomi.go and  *)
(* the sessions of src/pkg/xiaomi/cloud.go.                                *)
(*                                                                         *)
(* A call (the dial of a camera, a preset, the device list) takes the      *)
(* cached session of its account or logs in with the stored token, all     *)
(* under cloudsMu; a session the service no longer accepts is dropped and  *)
(* the request repeated once.  A browser logs an account in over several   *)
(* POSTs (password, captcha, code) that share the unprotected global auth, *)
(* and leaves the token that later sessions begin with.                    *)
(***************************************************************************)
EXTENDS Naturals, FiniteSets

CONSTANTS
    Calls,        \* calls of cloudRequest's users
    Browsers,     \* web pages that log in
    Accounts,
    AccountOf,    \* the account of each call and browser
    NoOne,        \* no account, "", and the free mutex
    MaxSessions,  \* bound: sessions of calls
    MaxPosts,     \* bound: passwords posted
    MaxActors     \* bound: calls and browsers that ever start

ASSUME CloudAssumption ==
    /\ Calls \cap Browsers = {} /\ IsFiniteSet(Browsers)
    /\ AccountOf \in [Calls \cup Browsers -> Accounts]
    /\ NoOne \notin Calls \cup Accounts
    /\ {MaxSessions, MaxPosts, MaxActors} \subseteq Nat

VARIABLES
    \* --- sessions ---
    mu,        \* the call that logs in while it holds cloudsMu
    clouds,    \* the cached session of each account, 0 for none
    sessions,  \* how many there were: the name of the last one
    live,      \* those the service still accepts
    cpc,       \* where each call is
    api,       \* the request it is about to have answered
    used,      \* the session of the present attempt
    refused,   \* the session that was answered 401 before it, 0 for none
    \* --- logins ---
    auth,      \* the global auth: a flow (its Cloud), 0 for nil
    flow,      \* the Clouds that auth or a handler points to
    posts,     \* passwords posted
    bpc,       \* where the handler of a browser is
    begun,     \* browsers that have posted a password
    form,      \* the form its page shows: "password", "captcha" or "code"
    answered,  \* browsers that have answered what the form asks
    recv,      \* the Cloud a handler works on
    grant,     \* the account its requests to the service are about
    pair,      \* <<user, token>> it is about to store
    tokens,    \* the token of each account in memory ...
    saved,     \* ... and in the configuration file
    astray     \* history: browsers whose login another one's overlapped

sessionVars == <<mu, clouds, sessions, live, cpc, api, used, refused>>
localVars   == <<recv, grant, pair>>
pageVars    == <<begun, form, answered, astray>>
storeVars   == <<tokens, saved>>
loginVars   == <<auth, flow, posts, bpc, localVars, pageVars, storeVars>>
vars == <<sessionVars, loginVars>>

Users == Accounts \cup {NoOne}
Clouds == 1..Cardinality(Browsers)   \* as many as can be in use
Open  == {"asked", "error", "panicked"}   \* between two POSTs of a login
Rest  == Open \cup {"idle", "ok"}
Busy(b) == bpc[b] \notin Rest

TypeOK ==
    /\ mu \in Calls \cup {NoOne}
    /\ clouds \in [Accounts -> 0..sessions] /\ sessions \in 0..MaxSessions
    /\ live \subseteq 1..sessions
    /\ cpc \in [Calls -> {"idle", "get", "login", "send", "drop", "done", "failed",
                          "refused"}]
    /\ api \in [Calls -> {"wakeup", "miss", "last"}]
    /\ used \in [Calls -> 0..sessions] /\ refused \in [Calls -> 0..sessions]
    /\ auth \in Clouds \cup {0}
    /\ posts \in 0..MaxPosts
    /\ flow \in [Clouds -> [pending : BOOLEAN, name : Users, ick : BOOLEAN,
                                 flag : BOOLEAN, user : Users, token : Users]]
    /\ bpc \in [Browsers -> Rest \cup
                  {"call", "login", "captcha", "start", "ticket", "verify", "finish",
                   "token", "return", "clear", "store", "save"}]
    /\ begun \subseteq Browsers /\ form \in [Browsers -> {"password", "captcha", "code"}]
    /\ recv \in [Browsers -> Clouds \cup {0}] /\ grant \in [Browsers -> Users]
    /\ pair \in [Browsers -> Users \X Users]
    /\ tokens \in [Accounts -> Users] /\ saved \in [Accounts -> Users]
    /\ answered \subseteq Browsers /\ astray \subseteq Browsers

NewCloud == [pending |-> FALSE, name |-> NoOne, ick |-> FALSE, flag |-> FALSE,
             user |-> NoOne, token |-> NoOne]

Init ==
    /\ mu = NoOne /\ clouds = [u \in Accounts |-> 0] /\ sessions = 0 /\ live = {}
    /\ cpc = [c \in Calls |-> "idle"]
    /\ api = [c \in Calls |-> "last"]
    /\ used = [c \in Calls |-> 0] /\ refused = [c \in Calls |-> 0]
    /\ auth = 0 /\ flow = [k \in Clouds |-> NewCloud] /\ posts = 0
    /\ bpc = [b \in Browsers |-> "idle"]
    /\ begun = {} /\ form = [b \in Browsers |-> "password"]
    /\ recv = [b \in Browsers |-> 0] /\ grant = [b \in Browsers |-> NoOne]
    /\ pair = [b \in Browsers |-> <<NoOne, NoOne>>]
    /\ saved \in {[u \in Accounts |-> NoOne], [u \in Accounts |-> u]} /\ tokens = saved
    /\ answered = {} /\ astray = {}

Started == {c \in Calls : cpc[c] # "idle"} \cup begun
MayStart == Cardinality(Started) < MaxActors

CallAt(c, from, to) == cpc[c] = from /\ cpc' = [cpc EXCEPT ![c] = to]

-----------------------------------------------------------------------------
(* Calls.                                                                  *)

Begin(c) ==
    /\ MayStart /\ CallAt(c, "idle", "get")
    /\ \E a \in {"wakeup", "miss", "last"} : api' = [api EXCEPT ![c] = a]
    /\ UNCHANGED <<mu, clouds, sessions, live, used, refused, loginVars>>

\* getCloud: the cached session, or a login with the mutex in hand.
GetCloud(c) ==
    /\ cpc[c] = "get" /\ mu = NoOne
    /\ IF clouds[AccountOf[c]] # 0
       THEN /\ CallAt(c, "get", "send")
            /\ used' = [used EXCEPT ![c] = clouds[AccountOf[c]]] /\ UNCHANGED mu
       ELSE CallAt(c, "get", "login") /\ mu' = c /\ UNCHANGED used
    /\ UNCHANGED <<clouds, sessions, live, api, refused, loginVars>>

\* A request is over: the wake-up of a doorbell is followed by getMissURL
\* whatever came of it, else the call ends.
Over(c, at, outcome) ==
    /\ IF api[c] = "wakeup"
       THEN CallAt(c, at, "get") /\ api' = [api EXCEPT ![c] = "miss"]
       ELSE CallAt(c, at, outcome) /\ UNCHANGED api
    /\ refused' = [refused EXCEPT ![c] = 0]

\* Mutant: a failed login returns with the mutex.
FailedLogin_Locked(c) == Over(c, "login", "failed") /\ UNCHANGED mu

FailedLogin(c) == Over(c, "login", "failed") /\ mu' = NoOne

\* Mutant: the Cloud is cached before it has logged in.
LoginWithToken_Early(c) ==
    /\ FailedLogin(c) /\ clouds' = [clouds EXCEPT ![AccountOf[c]] = sessions + 1]
    /\ UNCHANGED <<sessions, live, used, loginVars>>

\* LoginWithToken needs the account's own token; the service or the network may
\* refuse it all the same.
LoginWithToken(c) ==
    /\ \/ FailedLogin(c) /\ UNCHANGED <<sessions, live, clouds, used>>
       \/ /\ CallAt(c, "login", "send") /\ mu' = NoOne /\ UNCHANGED <<api, refused>>
          /\ tokens[AccountOf[c]] = AccountOf[c] /\ sessions < MaxSessions
          /\ sessions' = sessions + 1 /\ live' = live \cup {sessions'}
          /\ clouds' = [clouds EXCEPT ![AccountOf[c]] = sessions']
          /\ used' = [used EXCEPT ![c] = sessions']
    /\ UNCHANGED loginVars

\* Cloud.Request is answered, or fails otherwise; a camera without a vendor is
\* tried with getLegacyURL.
Answer(c) ==
    /\ \/ used[c] \in live /\ Over(c, "send", "done")
       \/ Over(c, "send", "failed")
       \/ /\ api[c] = "miss" /\ CallAt(c, "send", "get")
          /\ api' = [api EXCEPT ![c] = "last"] /\ refused' = [refused EXCEPT ![c] = 0]
    /\ UNCHANGED <<mu, clouds, sessions, live, used, loginVars>>

\* The service does not know the session: once per request there is another try.
Unauthorized(c) ==
    /\ used[c] \notin live
    /\ \/ /\ refused[c] = 0 /\ CallAt(c, "send", "drop") /\ UNCHANGED api
          /\ refused' = [refused EXCEPT ![c] = used[c]]
       \/ refused[c] # 0 /\ Over(c, "send", "refused")
    /\ UNCHANGED <<mu, clouds, sessions, live, used, loginVars>>

\* Mutant: the refused session stays in the cache.
Drop_Kept(c) ==
    /\ CallAt(c, "drop", "get") /\ mu = NoOne
    /\ UNCHANGED <<mu, clouds, sessions, live, api, used, refused, loginVars>>

\* The cached session is dropped, be it this one or one that replaced it.
Drop(c) ==
    /\ CallAt(c, "drop", "get") /\ mu = NoOne
    /\ clouds' = [clouds EXCEPT ![AccountOf[c]] = 0]
    /\ UNCHANGED <<mu, sessions, live, api, used, refused, loginVars>>

\* The service forgets a session.
Expires(s) ==
    /\ live' = live \ {s}
    /\ UNCHANGED <<mu, clouds, sessions, cpc, api, used, refused, loginVars>>

-----------------------------------------------------------------------------
(* Logins (apiAuth).                                                       *)

HandlerAt(b, from, to) == bpc[b] = from /\ bpc' = [bpc EXCEPT ![b] = to]

\* The handler returns, and its locals are gone.
Return(b, to) ==
    /\ bpc' = [bpc EXCEPT ![b] = to]
    /\ recv' = [recv EXCEPT ![b] = 0] /\ grant' = [grant EXCEPT ![b] = NoOne]
    /\ pair' = [pair EXCEPT ![b] = <<NoOne, NoOne>>]

Panic(b) == Return(b, "panicked") /\ UNCHANGED flow

\* History: a POST overlaps the logins that are open and the handlers that run; a
\* page that answers a form again after its login is over has none of its own.
Overlap(b, first) ==
    LET others == Browsers \ {b}
    IN astray' = {o \in others : Busy(o) \/ bpc[o] \in Open \/ o \in astray}
                 \cup {o \in {b} : ~first /\ (o \in astray \/ bpc[o] \notin Open)}
                 \cup {o \in {b} : \E p \in others : Busy(p)}

InUse == {recv[b] : b \in Browsers}

\* A new Cloud for each password; the one before it is garbage unless a handler
\* works on it.
Post(b) ==
    /\ b \in begun \/ MayStart
    /\ posts < MaxPosts /\ posts' = posts + 1
    /\ HandlerAt(b, bpc[b], "call") /\ ~Busy(b)
    /\ auth' = CHOOSE k \in Clouds : k \notin InUse
    /\ flow' = [k \in Clouds |-> IF k \in InUse THEN flow[k] ELSE NewCloud]
    /\ begun' = begun \cup {b} /\ form' = [form EXCEPT ![b] = "password"]
    /\ answered' = answered \ {b} /\ Overlap(b, TRUE)
    /\ UNCHANGED <<sessionVars, localVars, storeVars>>

\* A method of auth, which is read again for it: it works on that Cloud.
Method(b, to) ==
    /\ bpc' = [bpc EXCEPT ![b] = to] /\ recv' = [recv EXCEPT ![b] = auth]
    /\ grant' = [grant EXCEPT ![b] = IF bpc[b] = "call" THEN AccountOf[b] ELSE flow[auth].name]
    /\ UNCHANGED <<pair, flow>>

Login(b) ==
    /\ bpc[b] = "call"
    /\ IF auth = 0 THEN Panic(b) ELSE Method(b, "login")
    /\ UNCHANGED <<sessionVars, posts, auth, pageVars, storeVars>>

\* LoginWithCaptcha: a second factor that was begun goes on, else the password
\* is sent again with the captcha.
LoginWithCaptcha(b) ==
    /\ form[b] = "captcha" /\ ~Busy(b)
    /\ IF auth # 0 /\ flow[auth].pending /\ flow[auth].ick
       THEN Method(b, IF flow[auth].flag THEN "ticket" ELSE "login")
       ELSE Panic(b)
    /\ answered' = answered \cup {b} /\ Overlap(b, FALSE)
    /\ UNCHANGED <<sessionVars, posts, auth, begun, form, storeVars>>

LoginWithVerify(b) ==
    /\ form[b] = "code" /\ ~Busy(b)
    /\ IF auth # 0 /\ flow[auth].pending /\ flow[auth].flag
       THEN Method(b, "verify") ELSE Panic(b)
    /\ answered' = answered \cup {b} /\ Overlap(b, FALSE)
    /\ UNCHANGED <<sessionVars, posts, auth, begun, form, storeVars>>

\* No answer, or one that cannot be read or names no way on.
Fails(b) ==
    /\ bpc[b] \in {"login", "captcha", "start", "ticket", "verify", "finish"}
    /\ Return(b, "error")
    /\ UNCHANGED <<sessionVars, posts, auth, flow, pageVars, storeVars>>

\* The answer to name and password: c.auth begins anew, or is over.
LoginAnswer(b) ==
    /\ \E to \in {"captcha", "start", "error", "finish"} :
          /\ bpc[b] = "login"
          /\ to \in {"start", "finish"} => grant[b] # NoOne
          /\ IF to = "error" THEN Return(b, to)
             ELSE HandlerAt(b, "login", to) /\ UNCHANGED localVars
          /\ flow' = [flow EXCEPT ![recv[b]] =
                        IF to = "finish"
                        THEN [@ EXCEPT !.pending = FALSE, !.token = grant[b]]
                        ELSE [@ EXCEPT !.pending = TRUE, !.name = grant[b],
                                       !.ick = FALSE, !.flag = FALSE]]
    /\ UNCHANGED <<sessionVars, posts, auth, pageVars, storeVars>>

\* A LoginError: the page shows the form for what is asked.
Ask(b, what) ==
    /\ Return(b, "asked")
    /\ form' = [form EXCEPT ![b] = what] /\ answered' = answered \ {b}
    /\ UNCHANGED <<begun, astray>>

\* getCaptcha; a write to a nil map panics.
GetCaptcha(b) ==
    /\ bpc[b] = "captcha"
    /\ IF flow[recv[b]].pending
       THEN flow' = [flow EXCEPT ![recv[b]].ick = TRUE] /\ Ask(b, "captcha")
       ELSE Panic(b) /\ UNCHANGED pageVars
    /\ UNCHANGED <<sessionVars, posts, auth, storeVars>>

\* Mutant: the kind of the second factor is not kept.
AuthStart_NoFlag(b) ==
    /\ HandlerAt(b, "start", "ticket")
    /\ UNCHANGED <<sessionVars, posts, auth, flow, localVars, pageVars, storeVars>>

AuthStart(b) ==
    /\ bpc[b] = "start"
    /\ IF flow[recv[b]].pending
       THEN /\ flow' = [flow EXCEPT ![recv[b]].flag = TRUE]
            /\ HandlerAt(b, "start", "ticket") /\ UNCHANGED localVars
       ELSE Panic(b)
    /\ UNCHANGED <<sessionVars, posts, auth, pageVars, storeVars>>

\* sendTicket: the code is on its way, or a captcha has to be solved before.
SendTicket(b) ==
    /\ bpc[b] = "ticket"
    /\ \/ Ask(b, "code")
       \/ HandlerAt(b, "ticket", "captcha") /\ UNCHANGED <<localVars, pageVars>>
    /\ UNCHANGED <<sessionVars, posts, auth, flow, storeVars>>

VerifyAnswer(b) ==
    /\ HandlerAt(b, "verify", "finish")
    /\ UNCHANGED <<sessionVars, posts, auth, flow, localVars, pageVars, storeVars>>

\* finishAuth takes the user and the token from the cookies one by one.
FinishAuth(b) ==
    /\ \/ /\ HandlerAt(b, "finish", "token")
          /\ flow' = [flow EXCEPT ![recv[b]].user = grant[b]]
       \/ /\ HandlerAt(b, "token", "return")
          /\ flow' = [flow EXCEPT ![recv[b]].token = grant[b]]
    /\ UNCHANGED <<sessionVars, posts, auth, localVars, pageVars, storeVars>>

\* UserToken of whatever auth is by now ...
UserToken(b) ==
    /\ bpc[b] = "return"
    /\ IF auth = 0 THEN Panic(b)
       ELSE /\ HandlerAt(b, "return", "clear")
            /\ pair' = [pair EXCEPT ![b] = <<flow[auth].user, flow[auth].token>>]
            /\ UNCHANGED <<recv, grant, flow>>
    /\ UNCHANGED <<sessionVars, posts, auth, pageVars, storeVars>>

\* ... and auth = nil.
ClearAuth(b) ==
    /\ HandlerAt(b, "clear", "store") /\ auth' = 0
    /\ UNCHANGED <<sessionVars, posts, flow, localVars, pageVars, storeVars>>

\* A token without a user (of a Cloud that is not logged in) is nobody's.
Keep(store, p) == IF p[1] = NoOne THEN store ELSE [store EXCEPT ![p[1]] = p[2]]

Store(b) ==
    /\ mu = NoOne /\ HandlerAt(b, "store", "save")
    /\ tokens' = Keep(tokens, pair[b])
    /\ UNCHANGED <<sessionVars, posts, auth, flow, localVars, pageVars, saved>>

\* Mutant: a file that cannot be written is not reported.
PatchConfig_Ignored(b) ==
    /\ bpc[b] = "save" /\ Return(b, "ok")
    /\ \/ saved' = Keep(saved, pair[b])
       \/ UNCHANGED saved
    /\ UNCHANGED <<sessionVars, posts, auth, flow, pageVars, tokens>>

PatchConfig(b) ==
    /\ bpc[b] = "save"
    /\ \/ /\ Return(b, "ok")
          /\ saved' = Keep(saved, pair[b])
       \/ Return(b, "error") /\ UNCHANGED saved
    /\ UNCHANGED <<sessionVars, posts, auth, flow, pageVars, tokens>>

-----------------------------------------------------------------------------
CallStep(c) ==
    GetCloud(c) \/ LoginWithToken(c) \/ Answer(c) \/ Unauthorized(c) \/ Drop(c)

Submit(b) == LoginWithCaptcha(b) \/ LoginWithVerify(b) \/ Post(b)

HandlerStep(b) ==
    \/ Login(b) \/ Fails(b) \/ LoginAnswer(b) \/ GetCaptcha(b) \/ AuthStart(b)
    \/ SendTicket(b) \/ VerifyAnswer(b) \/ FinishAuth(b) \/ UserToken(b)
    \/ ClearAuth(b) \/ Store(b) \/ PatchConfig(b)

Next ==
    \/ \E c \in Calls : Begin(c) \/ CallStep(c)
    \/ \E b \in Browsers : Submit(b) \/ HandlerStep(b)
    \/ \E s \in live : Expires(s)

Spec == Init /\ [][Next]_vars

\* Goroutines run, and the HTTP client gives up after 15 seconds.
Fairness ==
    /\ \A c \in Calls : WF_vars(CallStep(c))
    /\ \A b \in Browsers : WF_vars(HandlerStep(b))

FairSpec == Spec /\ Fairness
=============================================================================
