-------------------------- MODULE XiaomiCloudProps --------------------------
(* The properties of the cloud sessions and logins (XiaomiCloud).           *)
EXTENDS XiaomiCloud

\* A request that is repeated after a 401 goes out with a session that was
\* opened after the one that was refused, although calls of the same account
\* drop and replace the cached session in any order (xiaomi.go:86-97): a call
\* fails with a 401 only if the service forgot two sessions while it ran.
RetryIsFresh ==
    \A c \in Calls : cpc[c] = "send" /\ refused[c] # 0 => used[c] > refused[c]

\* A page that is told OK has its account's own token in memory and in the
\* configuration file, unless another page's login overlapped its own, or came after
\* it before the page answered a form again: auth is one global for all of them
\* (xiaomi.go:313-346).
OkIsRemembered ==
    [][\A b \in Browsers :
          (bpc[b] = "save" /\ bpc'[b] = "ok" /\ b \notin astray)
              => tokens[AccountOf[b]] = AccountOf[b] /\ saved'[AccountOf[b]] = AccountOf[b]]_vars

\* A page that answers what it was asked, for the first time and with no other
\* login in between, does not end in a panic: captcha, second factor and a
\* captcha within the second factor leave what the next step needs
\* (cloud.go:137-153).
AskedIsAnswerable ==
    [][\A b \in Browsers :
          (bpc'[b] = "panicked" /\ bpc[b] # "panicked")
              => (b \in answered /\ ~Busy(b)) \/ b \in astray']_vars

\* Every call and every POST is answered, although logins of all accounts
\* wait for the one that holds cloudsMu across its requests.
CallsReturn ==
    /\ \A c \in Calls : []<>(cpc[c] \in {"idle", "done", "failed", "refused"})
    /\ \A b \in Browsers : []<>~Busy(b)
=============================================================================
