------------------------- MODULE XiaomiCloudProofs -------------------------
(***************************************************************************)
(* Proofs about the cloud sessions (XiaomiCloud, XiaomiCloudProps) for any *)
(* calls, accounts and number of sessions.                                 *)
(***************************************************************************)
EXTENDS XiaomiCloudProps, FiniteSetTheorems, TLAPS

USE DEF CallAt

\* Sessions are named in the order they were opened, and the service accepts
\* none that was not.
SessionsNamed ==
    /\ sessions \in Nat
    /\ clouds \in [Accounts -> 0..sessions]
    /\ cpc \in [Calls -> {"idle", "get", "login", "send", "drop", "done", "failed",
                          "refused"}]
    /\ used \in [Calls -> 0..sessions] /\ refused \in [Calls -> 0..sessions]

\* A call begins with nothing refused.
NothingRefusedYet == \A c \in Calls : cpc[c] = "idle" => refused[c] = 0

\* Once a refused session has been dropped, the cache of its account is empty or
\* has a younger one, whoever put it there.
CacheIsYounger ==
    \A c \in Calls : cpc[c] \in {"get", "login"} /\ refused[c] # 0 =>
        clouds[AccountOf[c]] = 0 \/ clouds[AccountOf[c]] > refused[c]

IInv == SessionsNamed /\ NothingRefusedYet /\ CacheIsYounger /\ RetryIsFresh

LEMMA Step == IInv /\ [Next]_vars => IInv'
<1> SUFFICES ASSUME IInv, [Next]_vars PROVE IInv'
  OBVIOUS
<1> USE CloudAssumption
        DEF IInv, SessionsNamed, NothingRefusedYet, CacheIsYounger, RetryIsFresh
<1>1. \A c \in Calls : AccountOf[c] \in Accounts
  OBVIOUS
<1>2. ASSUME NEW c \in Calls, Begin(c) PROVE IInv'
  BY <1>2 DEF Begin
<1>3. ASSUME NEW c \in Calls, GetCloud(c) PROVE IInv'
  <2>1. CASE clouds[AccountOf[c]] # 0
    BY <1>1, <1>3, <2>1 DEF GetCloud
  <2>2. CASE clouds[AccountOf[c]] = 0
    BY <1>3, <2>2 DEF GetCloud
  <2> QED
    BY <2>1, <2>2
<1>4. ASSUME NEW c \in Calls, LoginWithToken(c) PROVE IInv'
  <2>1. CASE FailedLogin(c) /\ UNCHANGED <<sessions, live, clouds, used>>
    BY <2>1 DEF FailedLogin, Over
  <2>2. CASE /\ CallAt(c, "login", "send") /\ UNCHANGED refused
             /\ sessions' = sessions + 1
             /\ clouds' = [clouds EXCEPT ![AccountOf[c]] = sessions']
             /\ used' = [used EXCEPT ![c] = sessions']
    <3>1. /\ clouds' \in [Accounts -> 0..sessions']
          /\ used' \in [Calls -> 0..sessions'] /\ refused' \in [Calls -> 0..sessions']
      BY <2>2
    <3>2. CacheIsYounger'
      BY <1>1, <2>2
    <3>3. RetryIsFresh'
      BY <2>2
    <3> QED
      BY <2>2, <3>1, <3>2, <3>3
  <2> QED
    BY <1>4, <2>1, <2>2 DEF LoginWithToken
<1>5. ASSUME NEW c \in Calls, Answer(c) PROVE IInv'
  BY <1>5 DEF Answer, Over
<1>6. ASSUME NEW c \in Calls, Unauthorized(c) PROVE IInv'
  BY <1>6 DEF Unauthorized, Over
<1>7. ASSUME NEW c \in Calls, Drop(c) PROVE IInv'
  BY <1>1, <1>7 DEF Drop
<1>8. ASSUME NEW s \in live, Expires(s) PROVE IInv'
  BY <1>8 DEF Expires
<1>9. ASSUME NEW b \in Browsers, Submit(b) \/ HandlerStep(b) PROVE IInv'
  BY <1>9 DEF Submit, LoginWithCaptcha, LoginWithVerify, Post, HandlerStep, Login, Fails,
              LoginAnswer, GetCaptcha, AuthStart, SendTicket, VerifyAnswer, FinishAuth,
              UserToken, ClearAuth, Store, PatchConfig, sessionVars
<1>10. CASE UNCHANGED vars
  BY <1>10 DEF vars, sessionVars
<1> QED
  BY <1>2, <1>3, <1>4, <1>5, <1>6, <1>7, <1>8, <1>9, <1>10 DEF Next, CallStep

\* The request that is repeated after a 401 has a session opened after the
\* refused one, for any number of calls that drop and replace it.
THEOREM RetriesAreFresh == Spec => []RetryIsFresh
<1>1. Init => IInv
  BY DEF Init, IInv, SessionsNamed, NothingRefusedYet, CacheIsYounger, RetryIsFresh
<1>2. IInv => RetryIsFresh
  BY DEF IInv
<1> QED
  BY <1>1, <1>2, Step, PTL DEF Spec

-----------------------------------------------------------------------------
(* Logins.                                                                 *)

\* A handler has a Cloud to work on from its first request to its return.
Working == {"login", "captcha", "start", "ticket", "verify", "finish", "token", "return",
            "clear", "store", "save"}

HandlersHold ==
    \A b \in Browsers : IF bpc[b] \in Working THEN recv[b] \in Clouds ELSE recv[b] = 0

\* A page that has a login of its own: it is open, and none overlapped it.
Own(b) == b \notin astray /\ (Busy(b) \/ bpc[b] \in Open)

Alone == \A b \in Browsers : Own(b) => \A o \in Browsers \ {b} : ~Busy(o)

\* The global auth is then the Cloud of this page alone, at whatever point it is: what
\* it knows is about the page's account, and the answer to a form finds what it needs.
OwnFlow(b) ==
    /\ auth \in Clouds /\ flow[auth].pending => flow[auth].name = AccountOf[b]
    /\ bpc[b] = "call" => auth \in Clouds /\ ~flow[auth].pending
    /\ bpc[b] \in Working \ {"store", "save"} => recv[b] = auth /\ grant[b] = AccountOf[b]
    /\ bpc[b] \in {"captcha", "start", "ticket"} => flow[auth].pending
    /\ bpc[b] = "ticket" => flow[auth].flag
    /\ bpc[b] \in {"token", "return"} => flow[auth].user = AccountOf[b]
    /\ bpc[b] = "return" => flow[auth].token = AccountOf[b]
    /\ bpc[b] \in {"clear", "store", "save"} => pair[b] = <<AccountOf[b], AccountOf[b]>>
    /\ bpc[b] = "save" => tokens[AccountOf[b]] = AccountOf[b]
    /\ b \notin answered /\ form[b] # "password" =>
          /\ bpc[b] = "asked" /\ auth \in Clouds /\ flow[auth].pending
          /\ IF form[b] = "captcha" THEN flow[auth].ick ELSE flow[auth].flag

LoginInv ==
    HandlersHold /\ Alone /\ \A b \in Browsers : Own(b) => OwnFlow(b)

\* What is known of a Cloud.
FlowSet == [pending : BOOLEAN, name : Users, ick : BOOLEAN, flag : BOOLEAN, user : Users,
            token : Users]

LEMMA NewCloudTyped == NewCloud \in FlowSet
<1>1. FALSE \in BOOLEAN /\ NoOne \in Users
  BY Zenon DEF Users
<1> QED
  BY <1>1 DEF NewCloud, FlowSet

\* Clouds of handlers are at most as many as there are other browsers: one is free.
LEMMA CloudIsFree ==
    ASSUME HandlersHold, NEW b \in Browsers, ~Busy(b)
    PROVE  \E k \in Clouds : k \notin InUse
<1> SUFFICES ASSUME \A k \in Clouds : k \in InUse PROVE FALSE
  OBVIOUS
<1> DEFINE others == Browsers \ {b}
           f == [k \in Clouds |-> CHOOSE o \in others : recv[o] = k]
<1>1. recv[b] = 0 /\ 0 \notin Clouds
  BY DEF HandlersHold, Busy, Rest, Open, Working, Clouds
<1>2. \A k \in Clouds : \E o \in others : recv[o] = k
  BY <1>1 DEF InUse
<1>3. \A k \in Clouds : f[k] \in others /\ recv[f[k]] = k
  BY <1>2
<1>4. /\ IsFiniteSet(Browsers) /\ Cardinality(Browsers) \in Nat
      /\ IsFiniteSet(others) /\ Cardinality(others) = Cardinality(Browsers) - 1
  BY CloudAssumption, FS_RemoveElement, FS_CardinalityType DEF CloudAssumption
<1>5. IsFiniteSet(Clouds) /\ Cardinality(Clouds) = Cardinality(Browsers)
  BY <1>4, FS_Interval DEF Clouds
<1>6. f \in [Clouds -> others]
  BY <1>3
<1>7. \E x, y \in Clouds : x # y /\ f[x] = f[y]
  <2>1. Cardinality(others) < Cardinality(Clouds)
    BY <1>4, <1>5
  <2> HIDE DEF f, others
  <2> QED
    BY <1>4, <1>5, <1>6, <2>1, FS_PigeonHole
<1> HIDE DEF f
<1> QED
  BY <1>3, <1>7

LEMMA FreshCloud ==
    ASSUME HandlersHold, NEW b \in Browsers, Post(b)
    PROVE  auth' \in Clouds /\ auth' \notin InUse /\ flow'[auth'] = NewCloud
<1>1. \E k \in Clouds : k \notin InUse
  BY CloudIsFree DEF Post
<1>2. auth' = CHOOSE k \in Clouds : k \notin InUse
  BY DEF Post
<1>3. auth' \in Clouds /\ auth' \notin InUse
  BY <1>1, <1>2
<1> QED
  BY <1>3 DEF Post

LEMMA HoldStep ==
    TypeOK /\ HandlersHold /\ [Next]_vars => HandlersHold'
<1> SUFFICES ASSUME TypeOK, HandlersHold, [Next]_vars PROVE HandlersHold'
  OBVIOUS
<1> USE DEF TypeOK, HandlersHold, Working, HandlerAt, Return
<1>1. ASSUME NEW c \in Calls, Begin(c) \/ CallStep(c) PROVE HandlersHold'
  BY <1>1 DEF Begin, CallStep, GetCloud, LoginWithToken, Answer, Unauthorized, Drop,
              FailedLogin, loginVars, localVars
<1>2. ASSUME NEW s \in live, Expires(s) PROVE HandlersHold'
  BY <1>2 DEF Expires, loginVars, localVars
<1>3. CASE UNCHANGED vars
  BY <1>3 DEF vars, loginVars, localVars
<1>4. ASSUME NEW b \in Browsers, Post(b) PROVE HandlersHold'
  BY <1>4 DEF Post, localVars, Busy, Rest, Open
<1>5. ASSUME NEW b \in Browsers, LoginWithCaptcha(b) \/ LoginWithVerify(b) \/ Login(b)
      PROVE HandlersHold'
  <2>1. \/ Panic(b)
        \/ auth # 0 /\ \E to \in {"login", "ticket", "verify"} : Method(b, to)
    BY <1>5 DEF LoginWithCaptcha, LoginWithVerify, Login
  <2>2. CASE Panic(b)
    BY <2>2 DEF Panic
  <2>3. ASSUME NEW to \in {"login", "ticket", "verify"}, Method(b, to), auth # 0
        PROVE HandlersHold'
    BY <2>3 DEF Method
  <2> QED
    BY <2>1, <2>2, <2>3
<1>6. ASSUME NEW b \in Browsers, Fails(b) \/ GetCaptcha(b) \/ AuthStart(b) \/ SendTicket(b)
      PROVE HandlersHold'
  BY <1>6 DEF Fails, GetCaptcha, AuthStart, SendTicket, Ask, Panic, localVars
<1>7. ASSUME NEW b \in Browsers, LoginAnswer(b) PROVE HandlersHold'
  BY <1>7 DEF LoginAnswer, localVars
<1>8. ASSUME NEW b \in Browsers, VerifyAnswer(b) \/ FinishAuth(b) \/ UserToken(b)
      PROVE HandlersHold'
  BY <1>8 DEF VerifyAnswer, FinishAuth, UserToken, Panic, localVars
<1>9. ASSUME NEW b \in Browsers, ClearAuth(b) \/ Store(b) \/ PatchConfig(b)
      PROVE HandlersHold'
  BY <1>9 DEF ClearAuth, Store, PatchConfig, localVars
<1> QED
  BY <1>1, <1>2, <1>3, <1>4, <1>5, <1>6, <1>7, <1>8, <1>9
     DEF Next, Submit, HandlerStep

\* The two sides of the state.
SessionTypes ==
    /\ mu \in Calls \cup {NoOne}
    /\ clouds \in [Accounts -> 0..sessions] /\ sessions \in 0..MaxSessions
    /\ live \subseteq 1..sessions
    /\ cpc \in [Calls -> {"idle", "get", "login", "send", "drop", "done", "failed",
                          "refused"}]
    /\ api \in [Calls -> {"wakeup", "miss", "last"}]
    /\ used \in [Calls -> 0..sessions] /\ refused \in [Calls -> 0..sessions]

LoginTypes ==
    /\ auth \in Clouds \cup {0} /\ posts \in 0..MaxPosts
    /\ flow \in [Clouds -> FlowSet]
    /\ bpc \in [Browsers -> Rest \cup {"call"} \cup Working]
    /\ begun \subseteq Browsers /\ form \in [Browsers -> {"password", "captcha", "code"}]
    /\ recv \in [Browsers -> Clouds \cup {0}] /\ grant \in [Browsers -> Users]
    /\ pair \in [Browsers -> Users \X Users]
    /\ tokens \in [Accounts -> Users] /\ saved \in [Accounts -> Users]
    /\ answered \subseteq Browsers /\ astray \subseteq Browsers

LEMMA TwoSides == TypeOK <=> SessionTypes /\ LoginTypes
<1>1. Rest \cup {"call"} \cup Working =
        Rest \cup {"call", "login", "captcha", "start", "ticket", "verify", "finish", "token",
                   "return", "clear", "store", "save"}
  BY DEF Working
<1> QED
  BY <1>1, Zenon DEF TypeOK, SessionTypes, LoginTypes, FlowSet

LEMMA SessionTypeStep == SessionTypes /\ [Next]_vars => SessionTypes'
<1> SUFFICES ASSUME SessionTypes, [Next]_vars PROVE SessionTypes'
  OBVIOUS
<1> USE CloudAssumption DEF SessionTypes, CloudAssumption
<1>1. ASSUME NEW c \in Calls, Begin(c) \/ GetCloud(c) PROVE SessionTypes'
  <2>1. CASE Begin(c)
    BY <2>1 DEF Begin
  <2>2. CASE GetCloud(c)
    <3>1. cpc' \in [Calls -> {"idle", "get", "login", "send", "drop", "done", "failed",
                              "refused"}]
      BY <2>2 DEF GetCloud
    <3>2. AccountOf[c] \in Accounts /\ clouds[AccountOf[c]] \in 0..sessions
      OBVIOUS
    <3>3. used' \in [Calls -> 0..sessions] /\ mu' \in Calls \cup {NoOne}
      BY <2>2, <3>2 DEF GetCloud
    <3> QED
      BY <2>2, <3>1, <3>3 DEF GetCloud
  <2> QED
    BY <1>1, <2>1, <2>2
<1>2. ASSUME NEW c \in Calls, LoginWithToken(c) PROVE SessionTypes'
  <2>1. CASE FailedLogin(c) /\ UNCHANGED <<sessions, live, clouds, used>>
    BY <2>1 DEF FailedLogin, Over
  <2>2. CASE /\ CallAt(c, "login", "send") /\ mu' = NoOne /\ UNCHANGED <<api, refused>>
             /\ sessions < MaxSessions
             /\ sessions' = sessions + 1 /\ live' = live \cup {sessions'}
             /\ clouds' = [clouds EXCEPT ![AccountOf[c]] = sessions']
             /\ used' = [used EXCEPT ![c] = sessions']
    <3>1. sessions' \in 1..MaxSessions /\ 0..sessions \subseteq 0..sessions'
          /\ 1..sessions \subseteq 1..sessions' /\ sessions' \in 1..sessions'
      BY <2>2
    <3>2. clouds' \in [Accounts -> 0..sessions'] /\ live' \subseteq 1..sessions'
      BY <2>2, <3>1
    <3>3. used' \in [Calls -> 0..sessions'] /\ refused' \in [Calls -> 0..sessions']
      BY <2>2, <3>1
    <3>4. cpc' \in [Calls -> {"idle", "get", "login", "send", "drop", "done", "failed",
                              "refused"}]
      BY <2>2
    <3> QED
      BY <2>2, <3>1, <3>2, <3>3, <3>4
  <2> QED
    BY <1>2, <2>1, <2>2 DEF LoginWithToken
<1>3. ASSUME NEW c \in Calls, Answer(c) \/ Unauthorized(c) PROVE SessionTypes'
  <2>1. UNCHANGED <<mu, clouds, sessions, live, used>>
    BY <1>3 DEF Answer, Unauthorized
  <2>2. /\ cpc' \in [Calls -> {"idle", "get", "login", "send", "drop", "done", "failed",
                                "refused"}]
        /\ api' \in [Calls -> {"wakeup", "miss", "last"}]
    BY <1>3 DEF Answer, Unauthorized, Over
  <2>3. refused' \in [Calls -> 0..sessions']
    BY <1>3 DEF Answer, Unauthorized, Over
  <2> QED
    BY <2>1, <2>2, <2>3
<1>4. ASSUME NEW c \in Calls, Drop(c) PROVE SessionTypes'
  BY <1>4 DEF Drop
<1>5. ASSUME NEW s \in live, Expires(s) PROVE SessionTypes'
  BY <1>5 DEF Expires
<1>6. ASSUME NEW b \in Browsers, Submit(b) \/ HandlerStep(b) PROVE SessionTypes'
  <2>1. UNCHANGED sessionVars
    BY <1>6 DEF Submit, LoginWithCaptcha, LoginWithVerify, Post, HandlerStep, Login, Fails,
                LoginAnswer, GetCaptcha, AuthStart, SendTicket, VerifyAnswer, FinishAuth,
                UserToken, ClearAuth, Store, PatchConfig
  <2> QED
    BY <2>1 DEF sessionVars
<1>7. CASE UNCHANGED vars
  BY <1>7 DEF vars, sessionVars
<1> QED
  BY <1>1, <1>2, <1>3, <1>4, <1>5, <1>6, <1>7 DEF Next, CallStep

\* A handler's local variables are gone when it returns.
LEMMA ReturnTyped ==
    ASSUME LoginTypes, NEW b \in Browsers, NEW to \in Rest, Return(b, to)
    PROVE  /\ bpc' \in [Browsers -> Rest \cup {"call"} \cup Working]
           /\ recv' \in [Browsers -> Clouds \cup {0}] /\ grant' \in [Browsers -> Users]
           /\ pair' \in [Browsers -> Users \X Users]
<1>1. bpc' \in [Browsers -> Rest \cup {"call"} \cup Working]
  BY DEF LoginTypes, Return
<1>2. recv' \in [Browsers -> Clouds \cup {0}] /\ grant' \in [Browsers -> Users]
  BY DEF LoginTypes, Return, Users
<1>3. <<NoOne, NoOne>> \in Users \X Users
  BY DEF Users
<1>4. pair' \in [Browsers -> Users \X Users]
  BY <1>3 DEF LoginTypes, Return
<1> QED
  BY <1>1, <1>2, <1>4

\* One field of one Cloud changes at a time.
LEMMA FlowTyped ==
    ASSUME NEW f \in FlowSet, NEW u \in Users
    PROVE  /\ [f EXCEPT !.ick = TRUE] \in FlowSet /\ [f EXCEPT !.flag = TRUE] \in FlowSet
           /\ [f EXCEPT !.user = u] \in FlowSet /\ [f EXCEPT !.token = u] \in FlowSet
           /\ [f EXCEPT !.pending = FALSE, !.token = u] \in FlowSet
           /\ [f EXCEPT !.pending = TRUE, !.name = u, !.ick = FALSE, !.flag = FALSE] \in FlowSet
BY DEF FlowSet


\* The Cloud a handler works on is the only one it changes, and it stays one.
LEMMA FlowStep ==
    ASSUME LoginTypes, HandlersHold, NEW b \in Browsers,
           \/ LoginAnswer(b) \/ GetCaptcha(b) \/ AuthStart(b) \/ FinishAuth(b)
    PROVE  flow' = flow \/ \E g \in FlowSet : flow' = [flow EXCEPT ![recv[b]] = g]
<1> DEFINE f == flow[recv[b]]
           u == grant[b]
<1>1. bpc[b] \in Working
  BY DEF LoginAnswer, GetCaptcha, AuthStart, FinishAuth, HandlerAt, Working
<1>2. f \in FlowSet /\ u \in Users
  BY <1>1 DEF LoginTypes, HandlersHold
<1>3. CASE LoginAnswer(b)
  BY <1>2, <1>3, FlowTyped DEF LoginAnswer
<1>4. CASE GetCaptcha(b)
  BY <1>2, <1>4, FlowTyped DEF GetCaptcha, Panic
<1>5. CASE AuthStart(b)
  BY <1>2, <1>5, FlowTyped DEF AuthStart, Panic
<1>6. CASE FinishAuth(b)
  BY <1>2, <1>6, FlowTyped DEF FinishAuth
<1> QED
  BY <1>3, <1>4, <1>5, <1>6


LEMMA LoginTypeStep == LoginTypes /\ HandlersHold /\ [Next]_vars => LoginTypes'
<1> SUFFICES ASSUME LoginTypes, HandlersHold, [Next]_vars PROVE LoginTypes'
  OBVIOUS
<1>1. CASE UNCHANGED loginVars
  BY <1>1 DEF LoginTypes, loginVars, localVars, pageVars, storeVars
<1>2. ASSUME NEW b \in Browsers, Post(b) PROVE LoginTypes'
  <2>1. auth' \in Clouds
    BY <1>2, FreshCloud
  <2>2. flow' \in [Clouds -> FlowSet]
    BY <1>2, NewCloudTyped DEF LoginTypes, Post
  <2>3. bpc' \in [Browsers -> Rest \cup {"call"} \cup Working]
    BY <1>2 DEF LoginTypes, Post, HandlerAt
  <2>4. posts' \in 0..MaxPosts /\ begun' \subseteq Browsers
        /\ form' \in [Browsers -> {"password", "captcha", "code"}]
        /\ answered' \subseteq Browsers
    BY <1>2, CloudAssumption DEF LoginTypes, Post, CloudAssumption
  <2>5. astray' \subseteq Browsers
    BY <1>2 DEF LoginTypes, Post, Overlap
  <2> QED
    BY <1>2, <2>1, <2>2, <2>3, <2>4, <2>5 DEF LoginTypes, Post, localVars, storeVars
<1>3. ASSUME NEW b \in Browsers, LoginWithCaptcha(b) \/ LoginWithVerify(b) \/ Login(b)
      PROVE  LoginTypes'
  <2>1. answered' \subseteq Browsers /\ astray' \subseteq Browsers
    BY <1>3 DEF LoginTypes, LoginWithCaptcha, LoginWithVerify, Login, Overlap, pageVars
  <2>2. UNCHANGED <<posts, auth, begun, form, storeVars>>
    BY <1>3 DEF LoginWithCaptcha, LoginWithVerify, Login, pageVars
  <2>3. \/ Panic(b)
        \/ auth # 0 /\ \E to \in {"login", "ticket", "verify"} : Method(b, to)
    BY <1>3 DEF LoginWithCaptcha, LoginWithVerify, Login
  <2>4. CASE Panic(b)
    <3>1. "panicked" \in Rest
      BY DEF Rest, Open
    <3> QED
      BY <2>1, <2>2, <2>4, <3>1, ReturnTyped DEF LoginTypes, Panic, storeVars
  <2>5. ASSUME NEW to \in {"login", "ticket", "verify"}, Method(b, to), auth # 0
        PROVE  LoginTypes'
    <3>1. auth \in Clouds /\ flow[auth].name \in Users
      BY <2>5 DEF LoginTypes, FlowSet
    <3>2. AccountOf[b] \in Users
      BY CloudAssumption DEF CloudAssumption, Users
    <3>3. grant' \in [Browsers -> Users] /\ recv' \in [Browsers -> Clouds \cup {0}]
      BY <2>5, <3>1, <3>2 DEF LoginTypes, Method
    <3>4. bpc' \in [Browsers -> Rest \cup {"call"} \cup Working]
      BY <2>5 DEF LoginTypes, Method, Working
    <3> QED
      BY <2>1, <2>2, <2>5, <3>3, <3>4 DEF LoginTypes, Method, storeVars
  <2> QED
    BY <2>3, <2>4, <2>5
<1>4. ASSUME NEW b \in Browsers,
             LoginAnswer(b) \/ GetCaptcha(b) \/ AuthStart(b) \/ FinishAuth(b)
      PROVE  LoginTypes'
  <2>1. flow' \in [Clouds -> FlowSet]
    BY <1>4, FlowStep DEF LoginTypes
  <2>2. UNCHANGED <<posts, auth, begun, astray, storeVars>>
    BY <1>4 DEF LoginAnswer, GetCaptcha, AuthStart, FinishAuth, Ask, pageVars
  <2>3. /\ form' \in [Browsers -> {"password", "captcha", "code"}]
        /\ answered' \subseteq Browsers
    BY <1>4 DEF LoginTypes, LoginAnswer, GetCaptcha, AuthStart, FinishAuth, Ask, pageVars
  <2>4. \/ \E to \in Rest : Return(b, to)
        \/ UNCHANGED localVars /\ \E from, to \in Working : HandlerAt(b, from, to)
    BY <1>4 DEF LoginAnswer, GetCaptcha, AuthStart, FinishAuth, Ask, Panic, Rest, Open,
                Working, HandlerAt
  <2>5. /\ bpc' \in [Browsers -> Rest \cup {"call"} \cup Working]
        /\ recv' \in [Browsers -> Clouds \cup {0}] /\ grant' \in [Browsers -> Users]
        /\ pair' \in [Browsers -> Users \X Users]
    <3>1. CASE \E to \in Rest : Return(b, to)
      BY <3>1, ReturnTyped
    <3>2. CASE UNCHANGED localVars /\ \E from, to \in Working : HandlerAt(b, from, to)
      BY <3>2 DEF LoginTypes, localVars, HandlerAt
    <3> QED
      BY <2>4, <3>1, <3>2
  <2> QED
    BY <2>1, <2>2, <2>3, <2>5 DEF LoginTypes, storeVars
<1>5. ASSUME NEW b \in Browsers, Fails(b) \/ SendTicket(b) \/ VerifyAnswer(b)
      PROVE  LoginTypes'
  <2>1. UNCHANGED <<posts, auth, flow, begun, astray, storeVars>>
    BY <1>5 DEF Fails, SendTicket, VerifyAnswer, Ask, pageVars
  <2>2. /\ form' \in [Browsers -> {"password", "captcha", "code"}]
        /\ answered' \subseteq Browsers
    BY <1>5 DEF LoginTypes, Fails, SendTicket, VerifyAnswer, Ask, pageVars
  <2>3. \/ \E to \in Rest : Return(b, to)
        \/ UNCHANGED localVars /\ \E from, to \in Working : HandlerAt(b, from, to)
    BY <1>5 DEF Fails, SendTicket, VerifyAnswer, Ask, Rest, Open, Working, HandlerAt
  <2>4. /\ bpc' \in [Browsers -> Rest \cup {"call"} \cup Working]
        /\ recv' \in [Browsers -> Clouds \cup {0}] /\ grant' \in [Browsers -> Users]
        /\ pair' \in [Browsers -> Users \X Users]
    <3>1. CASE \E to \in Rest : Return(b, to)
      BY <3>1, ReturnTyped
    <3>2. CASE UNCHANGED localVars /\ \E from, to \in Working : HandlerAt(b, from, to)
      BY <3>2 DEF LoginTypes, localVars, HandlerAt
    <3> QED
      BY <2>3, <3>1, <3>2
  <2> QED
    BY <2>1, <2>2, <2>4 DEF LoginTypes, storeVars
<1>6. ASSUME NEW b \in Browsers, UserToken(b) PROVE LoginTypes'
  <2>1. CASE auth = 0
    <3>1. "panicked" \in Rest
      BY DEF Rest, Open
    <3> QED
      BY <1>6, <2>1, <3>1, ReturnTyped DEF LoginTypes, UserToken, Panic, pageVars, storeVars
  <2>2. CASE auth # 0
    <3>1. <<flow[auth].user, flow[auth].token>> \in Users \X Users
      BY <2>2 DEF LoginTypes, FlowSet
    <3>2. pair' \in [Browsers -> Users \X Users]
      BY <1>6, <2>2, <3>1 DEF LoginTypes, UserToken
    <3>3. bpc' \in [Browsers -> Rest \cup {"call"} \cup Working]
      BY <1>6, <2>2 DEF LoginTypes, UserToken, HandlerAt, Working
    <3> QED
      BY <1>6, <2>2, <3>2, <3>3 DEF LoginTypes, UserToken, pageVars, storeVars
  <2> QED
    BY <2>1, <2>2
<1>7. ASSUME NEW b \in Browsers, ClearAuth(b) \/ Store(b) \/ PatchConfig(b) PROVE LoginTypes'
  <2>1. /\ UNCHANGED <<posts, flow, pageVars>> /\ auth' \in Clouds \cup {0}
    BY <1>7 DEF LoginTypes, ClearAuth, Store, PatchConfig
  <2>2. ASSUME NEW store \in [Accounts -> Users]
        PROVE  Keep(store, pair[b]) \in [Accounts -> Users]
    <3>1. pair[b][1] \in Users /\ pair[b][2] \in Users
      BY DEF LoginTypes
    <3> QED
      BY <3>1 DEF Keep, Users
  <2>3. tokens' \in [Accounts -> Users] /\ saved' \in [Accounts -> Users]
    BY <1>7, <2>2 DEF LoginTypes, ClearAuth, Store, PatchConfig, storeVars
  <2>4. /\ bpc' \in [Browsers -> Rest \cup {"call"} \cup Working]
        /\ recv' \in [Browsers -> Clouds \cup {0}] /\ grant' \in [Browsers -> Users]
        /\ pair' \in [Browsers -> Users \X Users]
    <3>1. CASE ClearAuth(b) \/ Store(b)
      BY <3>1 DEF LoginTypes, ClearAuth, Store, HandlerAt, localVars, Working
    <3>2. CASE PatchConfig(b)
      <4>1. "ok" \in Rest /\ "error" \in Rest
        BY DEF Rest, Open
      <4> QED
        BY <3>2, <4>1, ReturnTyped DEF PatchConfig
    <3> QED
      BY <1>7, <3>1, <3>2
  <2> QED
    BY <2>1, <2>3, <2>4 DEF LoginTypes, pageVars
<1>8. ASSUME NEW c \in Calls, Begin(c) \/ CallStep(c) PROVE UNCHANGED loginVars
  BY <1>8 DEF Begin, CallStep, GetCloud, LoginWithToken, Answer, Unauthorized, Drop
<1>9. ASSUME NEW s \in live, Expires(s) PROVE UNCHANGED loginVars
  BY <1>9 DEF Expires
<1> QED
  BY <1>1, <1>2, <1>3, <1>4, <1>5, <1>6, <1>7, <1>8, <1>9 DEF Next, Submit, HandlerStep, vars


-----------------------------------------------------------------------------
(* A login that no other overlaps.                                         *)

\* A POST makes a history of the logins it overlaps.
LEMMA SubmitFacts ==
    ASSUME LoginTypes, NEW x \in Browsers, Submit(x)
    PROVE  /\ ~Busy(x)
           /\ \A o \in Browsers \ {x} :
                 bpc'[o] = bpc[o] /\ (Busy(o) \/ bpc[o] \in Open => o \in astray')
           /\ x \notin astray' =>
                 /\ \A o \in Browsers \ {x} : ~Busy(o)
                 /\ Post(x) \/ (x \notin astray /\ bpc[x] \in Open)
<1>1. ~Busy(x)
  BY DEF Submit, LoginWithCaptcha, LoginWithVerify, Post
<1>2. \A o \in Browsers \ {x} : bpc'[o] = bpc[o]
  <2> USE DEF LoginTypes
  <2>1. CASE LoginWithCaptcha(x)
    BY <2>1 DEF LoginWithCaptcha, Method, Panic, Return
  <2>2. CASE LoginWithVerify(x)
    BY <2>2 DEF LoginWithVerify, Method, Panic, Return
  <2>3. CASE Post(x)
    BY <2>3 DEF Post, HandlerAt
  <2> QED
    BY <2>1, <2>2, <2>3 DEF Submit
<1>3. (Post(x) /\ Overlap(x, TRUE)) \/ Overlap(x, FALSE)
  BY DEF Submit, LoginWithCaptcha, LoginWithVerify, Post
<1>4. \A o \in Browsers \ {x} : Busy(o) \/ bpc[o] \in Open => o \in astray'
  BY <1>3 DEF Overlap
<1>5. x \notin astray' =>
         /\ \A o \in Browsers \ {x} : ~Busy(o)
         /\ Post(x) \/ (x \notin astray /\ bpc[x] \in Open)
  BY <1>3 DEF Overlap
<1> QED
  BY <1>1, <1>2, <1>4, <1>5

\* A handler is busy, and leaves the other pages as they are.
LEMMA HandlerFacts ==
    ASSUME LoginTypes, NEW x \in Browsers, HandlerStep(x)
    PROVE  /\ Busy(x) /\ astray' = astray
           /\ \A o \in Browsers \ {x} : bpc'[o] = bpc[o]
<1>1. bpc[x] \in Working \cup {"call"}
  BY DEF HandlerStep, Login, Fails, LoginAnswer, GetCaptcha, AuthStart, SendTicket,
         VerifyAnswer, FinishAuth, UserToken, ClearAuth, Store, PatchConfig, HandlerAt, Working
<1>2. Busy(x)
  BY <1>1 DEF Busy, Rest, Open, Working
<1>3. astray' = astray
  BY DEF HandlerStep, Login, Fails, LoginAnswer, GetCaptcha, AuthStart, SendTicket,
         VerifyAnswer, FinishAuth, UserToken, ClearAuth, Store, PatchConfig, Ask, pageVars
<1>4. \E to : bpc' = [bpc EXCEPT ![x] = to]
  BY DEF HandlerStep, Login, Fails, LoginAnswer, GetCaptcha, AuthStart, SendTicket,
         VerifyAnswer, FinishAuth, UserToken, ClearAuth, Store, PatchConfig, Ask, HandlerAt,
         Method, Panic, Return
<1> QED
  BY <1>2, <1>3, <1>4 DEF LoginTypes

\* So a page that has a login of its own after a step had it before and took the step
\* itself, unless the step begins it or has nothing to do with logins.
LEMMA OwnersStep ==
    ASSUME LoginTypes, Alone, [Next]_vars, NEW b \in Browsers, Own(b)'
    PROVE  \/ UNCHANGED loginVars /\ Own(b)
           \/ Post(b)
           \/ Own(b) /\ (LoginWithCaptcha(b) \/ LoginWithVerify(b)) /\ bpc[b] \in Open
           \/ Own(b) /\ HandlerStep(b)
<1>1. b \notin astray' /\ (bpc'[b] \notin Rest \/ bpc'[b] \in Open)
  BY DEF Own, Busy
<1>2. CASE UNCHANGED loginVars
  BY <1>1, <1>2 DEF Own, Busy, loginVars, pageVars
<1>3. ASSUME NEW x \in Browsers, Submit(x), x # b PROVE FALSE
  BY <1>1, <1>3, SubmitFacts DEF Busy
<1>4. ASSUME NEW x \in Browsers, HandlerStep(x), x # b PROVE FALSE
  <2>1. Own(b)
    BY <1>1, <1>4, HandlerFacts DEF Own, Busy
  <2> QED
    BY <1>4, <2>1, HandlerFacts DEF Alone
<1>5. CASE Submit(b)
  BY <1>1, <1>5, SubmitFacts DEF Submit, Own
<1>6. CASE HandlerStep(b)
  BY <1>1, <1>6, HandlerFacts DEF Own
<1>7. ASSUME NEW c \in Calls, Begin(c) \/ CallStep(c) PROVE UNCHANGED loginVars
  BY <1>7 DEF Begin, CallStep, GetCloud, LoginWithToken, Answer, Unauthorized, Drop
<1>8. ASSUME NEW s \in live, Expires(s) PROVE UNCHANGED loginVars
  BY <1>8 DEF Expires
<1> QED
  BY <1>2, <1>3, <1>4, <1>5, <1>6, <1>7, <1>8 DEF Next, vars

LEMMA AloneStep == LoginTypes /\ Alone /\ [Next]_vars => Alone'
<1> SUFFICES ASSUME LoginTypes, Alone, [Next]_vars, NEW b \in Browsers, Own(b)',
                    NEW o \in Browsers \ {b}
             PROVE  ~Busy(o)'
  BY DEF Alone
<1>1. CASE UNCHANGED loginVars /\ Own(b)
  BY <1>1 DEF Alone, Busy, loginVars
<1>2. CASE Post(b) \/ LoginWithCaptcha(b) \/ LoginWithVerify(b)
  <2>1. Submit(b) /\ b \notin astray'
    BY <1>2 DEF Submit, Own
  <2> QED
    BY <2>1, SubmitFacts DEF Busy
<1>3. CASE Own(b) /\ HandlerStep(b)
  BY <1>3, HandlerFacts DEF Alone, Busy
<1> QED
  BY <1>1, <1>2, <1>3, OwnersStep


\* A password makes a Cloud that knows nothing yet.
LEMMA PostBegins ==
    ASSUME LoginTypes, HandlersHold, NEW b \in Browsers, Post(b) PROVE OwnFlow(b)'
<1>1. auth' \in Clouds /\ flow'[auth'] = NewCloud
  BY FreshCloud
<1>2. flow'[auth'].pending = FALSE
  BY <1>1 DEF NewCloud
<1>3. bpc'[b] = "call" /\ form'[b] = "password"
  BY DEF LoginTypes, Post, HandlerAt
<1> QED
  BY <1>1, <1>2, <1>3 DEF OwnFlow, Working

\* A form is answered with the Cloud it was asked for.
LEMMA AnswerGoesOn ==
    ASSUME LoginTypes, NEW b \in Browsers, Own(b), OwnFlow(b), bpc[b] \in Open,
           LoginWithCaptcha(b) \/ LoginWithVerify(b)
    PROVE  OwnFlow(b)'
<1>1. UNCHANGED <<auth, form, tokens>> /\ answered' = answered \cup {b}
      /\ bpc[b] # "call"
  BY DEF LoginWithCaptcha, LoginWithVerify, storeVars, Open
<1>2. CASE Panic(b)
  BY <1>1, <1>2 DEF LoginTypes, OwnFlow, Panic, Return, Working
<1>3. ASSUME NEW to \in {"login", "ticket", "verify"}, Method(b, to),
             auth # 0, flow[auth].pending, to = "ticket" => flow[auth].flag
      PROVE  OwnFlow(b)'
  <2>1. auth \in Clouds /\ flow[auth].name = AccountOf[b] /\ flow' = flow
    BY <1>3 DEF LoginTypes, OwnFlow, Method
  <2>2. bpc'[b] = to /\ recv'[b] = auth /\ grant'[b] = AccountOf[b]
    BY <1>1, <1>3, <2>1 DEF LoginTypes, Method
  <2> QED
    BY <1>1, <1>3, <2>1, <2>2 DEF OwnFlow
<1> QED
  BY <1>2, <1>3 DEF LoginWithCaptcha, LoginWithVerify

\* The answers of the service are about the account of the page.
LEMMA AnswersAreOwn ==
    ASSUME LoginTypes, HandlersHold, NEW b \in Browsers, Own(b), OwnFlow(b),
           LoginAnswer(b) \/ FinishAuth(b)
    PROVE  OwnFlow(b)' /\ bpc'[b] # "panicked"
<1>1. bpc[b] \in Working \ {"store", "save"}
  BY DEF LoginAnswer, FinishAuth, HandlerAt, Working
<1>2. auth \in Clouds /\ recv[b] = auth /\ grant[b] = AccountOf[b] /\ flow[auth] \in FlowSet
  BY <1>1 DEF LoginTypes, HandlersHold, OwnFlow
<1>3. UNCHANGED <<auth, form, answered, tokens>> /\ (b \in answered \/ form[b] = "password")
  BY <1>1 DEF LoginTypes, OwnFlow, LoginAnswer, FinishAuth, pageVars, storeVars, Working
<1> DEFINE f == flow[auth]
           a == AccountOf[b]
<1>4. CASE LoginAnswer(b)
  <2>1. PICK to \in {"captcha", "start", "error", "finish"} :
           /\ bpc[b] = "login"
           /\ IF to = "error" THEN Return(b, to)
              ELSE HandlerAt(b, "login", to) /\ UNCHANGED localVars
           /\ flow' = [flow EXCEPT ![auth] =
                         IF to = "finish" THEN [f EXCEPT !.pending = FALSE, !.token = a]
                         ELSE [f EXCEPT !.pending = TRUE, !.name = a, !.ick = FALSE,
                                        !.flag = FALSE]]
    BY <1>2, <1>4 DEF LoginAnswer
  <2>2. bpc'[b] = to /\ (to # "error" => recv'[b] = auth /\ grant'[b] = a)
    BY <1>2, <2>1 DEF LoginTypes, HandlerAt, Return, localVars
  <2>3. CASE to = "finish"
    <3>1. flow'[auth] = [f EXCEPT !.pending = FALSE, !.token = a]
      BY <1>2, <2>1, <2>3 DEF LoginTypes
    <3>2. ~flow'[auth].pending
      BY <1>2, <3>1 DEF FlowSet
    <3> QED
      BY <1>2, <1>3, <2>2, <2>3, <3>2 DEF OwnFlow
  <2>4. CASE to # "finish"
    <3>1. flow'[auth] = [f EXCEPT !.pending = TRUE, !.name = a, !.ick = FALSE, !.flag = FALSE]
      BY <1>2, <2>1, <2>4 DEF LoginTypes
    <3>2. flow'[auth].pending /\ flow'[auth].name = a
      BY <1>2, <3>1 DEF FlowSet
    <3>3. to \in Working => to \in {"captcha", "start"}
      BY <2>4 DEF Working
    <3> QED
      BY <1>2, <1>3, <2>2, <3>2, <3>3 DEF OwnFlow
  <2> QED
    BY <2>3, <2>4
<1>5. CASE FinishAuth(b)
  <2>1. UNCHANGED localVars /\ recv'[b] = auth /\ grant'[b] = a
    BY <1>2, <1>5 DEF FinishAuth, localVars
  <2>2. CASE HandlerAt(b, "finish", "token") /\ flow' = [flow EXCEPT ![auth].user = a]
    <3>1. flow'[auth] = [f EXCEPT !.user = a]
      BY <1>2, <2>2 DEF LoginTypes
    <3>2. flow'[auth].user = a /\ flow'[auth].pending = f.pending /\ flow'[auth].name = f.name
      BY <1>2, <3>1 DEF FlowSet
    <3>3. bpc'[b] = "token"
      BY <2>2 DEF LoginTypes, HandlerAt
    <3> QED
      BY <1>2, <1>3, <2>1, <3>2, <3>3 DEF OwnFlow
  <2>3. CASE HandlerAt(b, "token", "return") /\ flow' = [flow EXCEPT ![auth].token = a]
    <3>1. flow'[auth] = [f EXCEPT !.token = a]
      BY <1>2, <2>3 DEF LoginTypes
    <3>2. /\ flow'[auth].user = f.user /\ flow'[auth].token = a
          /\ flow'[auth].pending = f.pending /\ flow'[auth].name = f.name
      BY <1>2, <3>1 DEF FlowSet
    <3>3. bpc'[b] = "return" /\ f.user = a
      BY <2>3 DEF LoginTypes, HandlerAt, OwnFlow
    <3> QED
      BY <1>2, <1>3, <2>1, <3>2, <3>3 DEF OwnFlow
  <2> QED
    BY <1>2, <1>5, <2>2, <2>3 DEF FinishAuth
<1> QED
  BY <1>4, <1>5

\* A form is shown when its answer has what it needs.
LEMMA QuestionsAreOwn ==
    ASSUME LoginTypes, HandlersHold, NEW b \in Browsers, Own(b), OwnFlow(b),
           GetCaptcha(b) \/ AuthStart(b) \/ SendTicket(b)
    PROVE  OwnFlow(b)' /\ bpc'[b] # "panicked"
<1>1. bpc[b] \in {"captcha", "start", "ticket"}
  BY DEF GetCaptcha, AuthStart, SendTicket, HandlerAt, Ask
<1>2. auth \in Clouds /\ recv[b] = auth /\ grant[b] = AccountOf[b] /\ flow[auth] \in FlowSet
  BY <1>1 DEF LoginTypes, HandlersHold, OwnFlow, Working
<1>3. flow[auth].pending /\ flow[auth].name = AccountOf[b]
  BY <1>1, <1>2 DEF OwnFlow
<1>4. UNCHANGED <<auth, tokens>>
  BY DEF GetCaptcha, AuthStart, SendTicket, storeVars
<1> DEFINE f == flow[auth]
<1>5. ASSUME NEW what \in {"captcha", "code"}, Ask(b, what), flow'[auth].pending,
             flow'[auth].name = AccountOf[b],
             what = "captcha" => flow'[auth].ick, what = "code" => flow'[auth].flag
      PROVE  OwnFlow(b)' /\ bpc'[b] # "panicked"
  <2>1. bpc'[b] = "asked" /\ form'[b] = what
    BY <1>5 DEF LoginTypes, Ask, Return
  <2> QED
    BY <1>2, <1>4, <1>5, <2>1 DEF LoginTypes, OwnFlow, Working, Panic, Return
<1>6. CASE GetCaptcha(b)
  <2>1. flow'[auth] = [f EXCEPT !.ick = TRUE] /\ Ask(b, "captcha")
    BY <1>2, <1>3, <1>6 DEF LoginTypes, GetCaptcha
  <2>2. flow'[auth].pending /\ flow'[auth].name = AccountOf[b] /\ flow'[auth].ick
    BY <1>2, <1>3, <2>1 DEF FlowSet
  <2> QED
    BY <1>5, <2>1, <2>2
<1>7. CASE AuthStart(b)
  <2>1. /\ flow'[auth] = [f EXCEPT !.flag = TRUE] /\ HandlerAt(b, "start", "ticket")
        /\ UNCHANGED <<localVars, pageVars>>
    BY <1>2, <1>3, <1>7 DEF LoginTypes, AuthStart
  <2>2. flow'[auth].pending /\ flow'[auth].name = AccountOf[b] /\ flow'[auth].flag
    BY <1>2, <1>3, <2>1 DEF FlowSet
  <2>3. bpc'[b] = "ticket" /\ bpc[b] = "start" /\ recv'[b] = auth /\ grant'[b] = AccountOf[b]
    BY <1>2, <2>1 DEF LoginTypes, HandlerAt, localVars
  <2> QED
    BY <1>2, <1>4, <2>1, <2>2, <2>3 DEF LoginTypes, OwnFlow, pageVars, Panic, Return
<1>8. CASE SendTicket(b)
  <2>1. flow' = flow /\ flow[auth].flag
    BY <1>8 DEF SendTicket, OwnFlow
  <2>2. CASE Ask(b, "code")
    BY <1>3, <1>5, <2>1, <2>2
  <2>3. CASE HandlerAt(b, "ticket", "captcha") /\ UNCHANGED <<localVars, pageVars>>
    <3>1. bpc'[b] = "captcha" /\ bpc[b] = "ticket"
          /\ recv'[b] = auth /\ grant'[b] = AccountOf[b]
      BY <1>2, <2>3 DEF LoginTypes, HandlerAt, localVars
    <3> QED
      BY <1>2, <1>3, <1>4, <2>1, <2>3, <3>1
         DEF LoginTypes, OwnFlow, pageVars, Panic, Return
  <2> QED
    BY <1>8, <2>2, <2>3 DEF SendTicket
<1> QED
  BY <1>6, <1>7, <1>8

\* What is stored is the user and the token of the page's own account.
LEMMA StoresItsOwn ==
    ASSUME LoginTypes, HandlersHold, NEW b \in Browsers, Own(b), OwnFlow(b),
           \/ Login(b) \/ Fails(b) \/ VerifyAnswer(b) \/ UserToken(b) \/ ClearAuth(b)
           \/ Store(b) \/ PatchConfig(b)
    PROVE  OwnFlow(b)' /\ bpc'[b] # "panicked"
<1>1. bpc[b] \in Working \cup {"call"}
  BY DEF Login, Fails, VerifyAnswer, UserToken, ClearAuth, Store, PatchConfig, HandlerAt, Working
<1>2. UNCHANGED <<flow, form, answered>> /\ (b \in answered \/ form[b] = "password")
  BY <1>1 DEF LoginTypes, OwnFlow, Login, Fails, VerifyAnswer, UserToken, ClearAuth, Store,
              PatchConfig, Panic, Method, pageVars, Working
<1>3. CASE Login(b)
  <2>1. bpc[b] = "call" /\ auth \in Clouds /\ auth # 0 /\ Method(b, "login") /\ auth' = auth
    BY <1>3 DEF Login, OwnFlow, Clouds
  <2>2. bpc'[b] = "login" /\ recv'[b] = auth /\ grant'[b] = AccountOf[b]
    BY <2>1 DEF LoginTypes, Method
  <2> QED
    BY <1>2, <2>1, <2>2 DEF LoginTypes, OwnFlow, Panic, Return
<1>4. CASE Fails(b)
  <2>1. bpc'[b] = "error" /\ auth' = auth
    BY <1>4 DEF LoginTypes, Fails, Return
  <2> QED
    BY <1>2, <2>1 DEF LoginTypes, OwnFlow, Working, Panic, Return
<1>5. CASE VerifyAnswer(b)
  <2>1. bpc'[b] = "finish" /\ bpc[b] = "verify" /\ auth' = auth
        /\ recv'[b] = recv[b] /\ grant'[b] = grant[b]
    BY <1>5 DEF LoginTypes, VerifyAnswer, HandlerAt, localVars
  <2> QED
    BY <1>2, <2>1 DEF LoginTypes, OwnFlow, Working, Panic, Return
<1>6. CASE UserToken(b)
  <2>1. bpc[b] = "return" /\ recv[b] = auth /\ auth \in Clouds /\ auth # 0
    BY <1>6 DEF UserToken, OwnFlow, HandlersHold, Working, Clouds
  <2>2. /\ bpc'[b] = "clear" /\ auth' = auth /\ recv'[b] = auth /\ grant'[b] = grant[b]
        /\ pair'[b] = <<AccountOf[b], AccountOf[b]>>
    BY <1>6, <2>1 DEF LoginTypes, UserToken, HandlerAt, OwnFlow
  <2> QED
    BY <1>2, <2>1, <2>2 DEF LoginTypes, OwnFlow, Working, Panic, Return
<1>7. CASE ClearAuth(b)
  <2>1. bpc[b] = "clear" /\ bpc'[b] = "store" /\ pair'[b] = pair[b] /\ auth' = 0
    BY <1>7 DEF LoginTypes, ClearAuth, HandlerAt, localVars
  <2>2. 0 \notin Clouds
    BY DEF Clouds
  <2> QED
    BY <1>2, <2>1, <2>2 DEF LoginTypes, OwnFlow, Panic, Return, Working
<1>8. CASE Store(b)
  <2>1. bpc[b] = "store" /\ bpc'[b] = "save" /\ pair'[b] = pair[b] /\ auth' = auth
        /\ pair[b] = <<AccountOf[b], AccountOf[b]>>
    BY <1>8 DEF LoginTypes, Store, HandlerAt, localVars, OwnFlow
  <2>2. AccountOf[b] \in Accounts /\ AccountOf[b] # NoOne
    BY CloudAssumption DEF CloudAssumption
  <2>3. tokens'[AccountOf[b]] = AccountOf[b]
    BY <1>8, <2>1, <2>2 DEF LoginTypes, Store, Keep
  <2> QED
    BY <1>2, <2>1, <2>3 DEF LoginTypes, OwnFlow, Panic, Return, Working
<1>9. CASE PatchConfig(b)
  <2>1. bpc'[b] \in {"ok", "error"} /\ auth' = auth
    BY <1>9 DEF LoginTypes, PatchConfig, Return
  <2> QED
    BY <1>2, <2>1 DEF LoginTypes, OwnFlow, Panic, Return, Working
<1> QED
  BY <1>3, <1>4, <1>5, <1>6, <1>7, <1>8, <1>9


LEMMA OwnFlowStep ==
    ASSUME LoginTypes, HandlersHold, Alone, [Next]_vars,
           \A b \in Browsers : Own(b) => OwnFlow(b),
           NEW b \in Browsers, Own(b)'
    PROVE  OwnFlow(b)'
<1>1. CASE UNCHANGED loginVars /\ Own(b)
  BY <1>1 DEF OwnFlow, loginVars, localVars, pageVars, storeVars
<1>2. CASE Own(b) /\ HandlerStep(b)
  BY <1>2, AnswersAreOwn, QuestionsAreOwn, StoresItsOwn DEF HandlerStep
<1> QED
  BY <1>1, <1>2, OwnersStep, PostBegins, AnswerGoesOn

-----------------------------------------------------------------------------
AllInv == TypeOK /\ LoginInv

LEMMA AllInvariance == Spec => []AllInv
<1>1. Init => AllInv
  <2> SUFFICES ASSUME Init PROVE AllInv
    OBVIOUS
  <2>1. SessionTypes
    BY CloudAssumption DEF CloudAssumption, Init, SessionTypes
  <2>2. LoginTypes
    <3>1. saved \in [Accounts -> Users] /\ tokens = saved
      BY DEF Init, Users
    <3>2. flow \in [Clouds -> FlowSet]
      BY NewCloudTyped DEF Init
    <3>3. pair \in [Browsers -> Users \X Users] /\ grant \in [Browsers -> Users]
      BY DEF Init, Users
    <3>4. bpc \in [Browsers -> Rest \cup {"call"} \cup Working]
      BY DEF Init, Rest
    <3> QED
      BY <3>1, <3>2, <3>3, <3>4, CloudAssumption DEF CloudAssumption, Init, LoginTypes
  <2>3. HandlersHold
    BY DEF Init, HandlersHold, Working
  <2>4. \A b \in Browsers : ~Busy(b) /\ ~Own(b)
    BY DEF Init, Busy, Own, Rest, Open
  <2> QED
    BY <2>1, <2>2, <2>3, <2>4, TwoSides DEF AllInv, LoginInv, Alone
<1>2. AllInv /\ [Next]_vars => AllInv'
  <2> SUFFICES ASSUME AllInv, [Next]_vars PROVE AllInv'
    OBVIOUS
  <2>1. SessionTypes /\ LoginTypes /\ HandlersHold /\ Alone
        /\ \A b \in Browsers : Own(b) => OwnFlow(b)
    BY TwoSides DEF AllInv, LoginInv
  <2>2. SessionTypes' /\ LoginTypes'
    BY <2>1, SessionTypeStep, LoginTypeStep
  <2>3. TypeOK'
    BY <2>2, TwoSides, PTL
  <2>4. HandlersHold'
    BY HoldStep DEF AllInv, LoginInv
  <2>5. Alone'
    BY <2>1, AloneStep
  <2>6. \A b \in Browsers : Own(b)' => OwnFlow(b)'
    BY <2>1, OwnFlowStep
  <2> QED
    BY <2>3, <2>4, <2>5, <2>6 DEF AllInv, LoginInv
<1> QED
  BY <1>1, <1>2, PTL DEF Spec

\* Every reachable state is type correct: there is a Cloud for each password, and no
\* handler works on none.
THEOREM TypeCorrect == Spec => []TypeOK
<1>1. AllInv => TypeOK
  BY DEF AllInv
<1> QED
  BY <1>1, AllInvariance, PTL

\* A page that is told OK has its own token in memory and in the file, unless another
\* page's login overlapped its own: for any number of pages and accounts.
THEOREM OkMeansRemembered == Spec => OkIsRemembered
<1> DEFINE Remembered(b) ==
               (bpc[b] = "save" /\ bpc'[b] = "ok" /\ b \notin astray)
                   => tokens[AccountOf[b]] = AccountOf[b] /\ saved'[AccountOf[b]] = AccountOf[b]
<1>1. ASSUME AllInv, [Next]_vars, NEW b \in Browsers PROVE Remembered(b)
  <2> SUFFICES ASSUME bpc[b] = "save", bpc'[b] = "ok", b \notin astray
               PROVE  tokens[AccountOf[b]] = AccountOf[b]
                      /\ saved'[AccountOf[b]] = AccountOf[b]
    OBVIOUS
  <2>1. LoginTypes /\ HandlersHold /\ Alone
    BY <1>1, TwoSides DEF AllInv, LoginInv
  <2>2. Own(b) /\ OwnFlow(b)
    BY <1>1 DEF AllInv, LoginInv, Own, Busy, Rest, Open
  <2>3. tokens[AccountOf[b]] = AccountOf[b] /\ pair[b] = <<AccountOf[b], AccountOf[b]>>
    BY <2>2 DEF OwnFlow
  <2>4. PatchConfig(b)
    <3>1. ASSUME NEW x \in Browsers, HandlerStep(x) PROVE x = b
      BY <2>1, <3>1, HandlerFacts
    <3>2. ASSUME NEW x \in Browsers, Submit(x) PROVE FALSE
      BY <2>1, <3>2, SubmitFacts DEF Busy, Rest, Open
    <3>3. HandlerStep(b)
      BY <1>1, <3>1, <3>2 DEF Next, Begin, CallStep, GetCloud, LoginWithToken, Answer,
            Unauthorized, Drop, Expires, vars, loginVars
    <3> QED
      BY <3>3 DEF HandlerStep, Login, Fails, LoginAnswer, GetCaptcha, AuthStart, SendTicket,
            VerifyAnswer, FinishAuth, UserToken, ClearAuth, Store, HandlerAt
  <2>5. bpc' = [bpc EXCEPT ![b] = "ok"] /\ saved' = Keep(saved, pair[b])
    BY <2>1, <2>4 DEF LoginTypes, PatchConfig, Return
  <2>6. AccountOf[b] \in Accounts /\ AccountOf[b] # NoOne
    BY CloudAssumption DEF CloudAssumption
  <2> QED
    BY <2>1, <2>3, <2>5, <2>6 DEF LoginTypes, Keep
<1>2. AllInv /\ [Next]_vars => [\A b \in Browsers : Remembered(b)]_vars
  BY <1>1
<1> QED
  BY <1>2, AllInvariance, PTL DEF Spec, OkIsRemembered

\* A page that answers what it was asked, for the first time and with no other login in
\* between, does not end in a panic: for any number of pages that log in.
THEOREM AnswersAreAccepted == Spec => AskedIsAnswerable
<1> DEFINE Answerable(b) ==
               (bpc'[b] = "panicked" /\ bpc[b] # "panicked")
                   => (b \in answered /\ ~Busy(b)) \/ b \in astray'
<1>1. ASSUME AllInv, [Next]_vars, NEW b \in Browsers PROVE Answerable(b)
  <2> SUFFICES ASSUME bpc'[b] = "panicked", bpc[b] # "panicked", b \notin astray',
                      ~(b \in answered /\ ~Busy(b))
               PROVE  FALSE
    OBVIOUS
  <2>1. LoginTypes /\ HandlersHold /\ Alone
    BY <1>1, TwoSides DEF AllInv, LoginInv
  <2>2. Own(b)'
    BY DEF Own, Open
  <2>3. ASSUME Own(b) PROVE OwnFlow(b)
    BY <1>1, <2>3 DEF AllInv, LoginInv
  <2>4. CASE UNCHANGED loginVars
    BY <2>4 DEF loginVars
  <2>5. CASE Post(b)
    BY <2>1, <2>5 DEF LoginTypes, Post, HandlerAt
  <2>6. CASE Own(b) /\ (LoginWithCaptcha(b) \/ LoginWithVerify(b)) /\ bpc[b] \in Open
    <3>1. b \notin answered /\ OwnFlow(b) /\ form[b] \in {"captcha", "code"}
      BY <2>3, <2>6 DEF Busy, Rest, LoginWithCaptcha, LoginWithVerify
    <3>2. auth # 0 /\ flow[auth].pending
          /\ IF form[b] = "captcha" THEN flow[auth].ick ELSE flow[auth].flag
      BY <3>1 DEF OwnFlow, Clouds
    <3>3. PICK to \in {"login", "ticket", "verify"} : Method(b, to)
      BY <2>6, <3>2 DEF LoginWithCaptcha, LoginWithVerify
    <3> QED
      BY <2>1, <3>3 DEF LoginTypes, Method
  <2>7. CASE Own(b) /\ HandlerStep(b)
    BY <2>1, <2>3, <2>7, AnswersAreOwn, QuestionsAreOwn, StoresItsOwn DEF HandlerStep
  <2> QED
    BY <1>1, <2>1, <2>2, <2>4, <2>5, <2>6, <2>7, OwnersStep
<1>2. AllInv /\ [Next]_vars => [\A b \in Browsers : Answerable(b)]_vars
  BY <1>1
<1> QED
  BY <1>2, AllInvariance, PTL DEF Spec, AskedIsAnswerable
=============================================================================
