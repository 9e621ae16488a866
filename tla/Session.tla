------------------------------- MODULE Session -------------------------------
(***************************************************************************)
(* Who a browser acts as: the tokens and the user its pages keep in        *)
(* localStorage, shared by the tabs, and the requests that carry them.     *)
(* The sign-in pages (frontend/src/pages/Login.js, pages/admin/Login.js,   *)
(* hooks/useAuth.js) write them, the navigation bars take them away, and   *)
(* the API client (services/api.js) renews them when a request comes back  *)
(* with 401: it reads the refresh token, asks for new ones, writes them    *)
(* and sends the request again.  Nothing ties an answer to the session its *)
(* request was made in.                                                    *)
(*                                                                         *)
(* Both apps are here, one to a behaviour: the clients' and freelancers',  *)
(* and the administrators', on a port (so with a localStorage) of its own. *)
(* The second factor is in module TwoFactor.  Abstracted: passwords,       *)
(* signatures and nonces (a sign-in is accepted or not), e-mail addresses, *)
(* roles' landing pages, forms.                                            *)
(***************************************************************************)
EXTENDS Naturals

CONSTANTS Accounts,   \* the users table
          Admins,     \* those with the role admin
          Tabs,       \* the tabs a browser may have open
          Calls,      \* names for the requests under way: a bound on their number
          Browsers    \* the browsers looked at, and the bounds of each behaviour

ASSUME AdminsAssumption == Admins \subseteq Accounts
ASSUME BrowsersAssumption ==
    /\ \A b \in Browsers : b.people \subseteq IF b.app = "admin" THEN Admins ELSE Accounts \ Admins
    /\ Browsers \subseteq [app : {"users", "admin"},   \* the app it is at
                          people : SUBSET Accounts,    \* who sits before it
                          tabs : SUBSET Tabs,          \* its open tabs
                          calls : SUBSET Calls]        \* bound on its requests under way

VARIABLES browser,    \* the browser and the bounds, for good
          users,      \* the accounts: "none", "active" or "inactive"
          store,      \* localStorage: access_token, refresh_token, user
          at,         \* where each tab is: at "login" or at the app's "pages"
          calls,      \* the requests under way
          late        \* history: an answer to a request made before the last change of
                      \* session was written to the store

sessionVars == <<browser, users, store, at, calls, late>>

app == browser.app
Nobody == [who |-> "nobody"]
NoCall == [op |-> "none"]
Token == {Nobody} \union [who : Accounts, good : BOOLEAN]
Fresh(a) == [who |-> a, good |-> TRUE]
EmptyStore == [access |-> Nobody, refresh |-> Nobody, user |-> Nobody]
SignIns == {"login", "register", "wallet", "admin"}
Here == browser.people

SessionInit ==
    /\ browser \in Browsers
    /\ users \in {[a \in Accounts |-> IF a \in Admins \/ a = old THEN "active" ELSE "none"] :
                    old \in Accounts \ Admins}
    /\ store = EmptyStore
    /\ at = [t \in Tabs |-> "login"]
    /\ calls = [n \in Calls |-> NoCall]
    /\ late = FALSE

-----------------------------------------------------------------------------
(* Sending a request: the interceptor puts the stored token on it.         *)

\* The sign-in endpoints do not read it.
NewCall(op, t, a) == [op |-> op, tab |-> t, who |-> a,
                   tok |-> IF op = "get" THEN store.access ELSE Nobody, ref |-> Nobody,
                   stage |-> "sent", retried |-> FALSE, old |-> FALSE]

\* A behaviour is followed no further once a late answer was written: a bound.
Send(n, op, t, a) == /\ calls[n] = NoCall /\ ~late
                     /\ calls' = [calls EXCEPT ![n] = NewCall(op, t, a)]
                     /\ UNCHANGED <<browser, users, store, at, late>>

\* The sign-in buttons are disabled while a sign-in of their page is under way.
Idle(t) == /\ at[t] = "login"
           /\ \A n \in Calls : calls[n].op \in SignIns => calls[n].tab # t

SignInWithPassword(n, t, a) == app = "users" /\ Idle(t) /\ Send(n, "login", t, a)
SignUp(n, t, a) == app = "users" /\ Idle(t) /\ Send(n, "register", t, a)
SignInAsAdmin(n, t, a) == app = "admin" /\ Idle(t) /\ Send(n, "admin", t, a)

\* The request that ends the wallet's sign-in: the prompts and the two reads before it can
\* only stop it.
SignInWithWallet(n, t, a) == app = "users" /\ Idle(t) /\ Send(n, "wallet", t, a)

SignIn(n, t, a) == \/ SignInWithPassword(n, t, a) \/ SignUp(n, t, a)
                   \/ SignInAsAdmin(n, t, a) \/ SignInWithWallet(n, t, a)

\* Any page's GET; the navigation bars ask for /users/me.
LoadPage(n, t) == at[t] = "pages" /\ Send(n, "get", t, Nobody.who)

-----------------------------------------------------------------------------
(* The server.  A refused sign-in is a 401 as well.                        *)

Registered(a) == users[a] # "none"

Admitted(c) == c.tok # Nobody /\ c.tok.good /\ users[c.tok.who] = "active"

Outcomes(c) ==
    CASE c.op = "get" -> IF Admitted(c) THEN {"ok"} ELSE {"denied"}
      [] c.op = "register" -> IF Registered(c.who) THEN {"refused"} ELSE {"ok"}
      [] c.op = "wallet" -> {"ok", "denied", "refused"}
      [] OTHER -> IF Registered(c.who) THEN {"ok", "denied"} ELSE {"denied"}

Respond(n) ==
    /\ calls[n] # NoCall /\ calls[n].stage = "sent"
    /\ \E o \in Outcomes(calls[n]) :
          /\ calls' = [calls EXCEPT ![n].stage = o]
          /\ users' = IF o = "ok" /\ calls[n].op \in {"register", "wallet"} /\ ~Registered(calls[n].who)
                      THEN [users EXCEPT ![calls[n].who] = "active"] ELSE users
    /\ UNCHANGED <<browser, store, at, late>>

\* POST /auth/refresh looks at the token and at the account's existence, not at is_active.
Renew(n) ==
    /\ calls[n] # NoCall /\ calls[n].stage = "renewing"
    /\ calls' = [calls EXCEPT ![n].stage = IF calls[n].ref.good THEN "renewed" ELSE "lapsed"]
    /\ UNCHANGED <<browser, users, store, at, late>>

\* The network fails, on the way there or back.
Lose(n) ==
    /\ calls[n] # NoCall /\ calls[n].stage \in {"sent", "renewing"}
    /\ calls' = [calls EXCEPT ![n].stage = IF @ = "sent" THEN "refused" ELSE "lapsed"]
    /\ UNCHANGED <<browser, users, store, at, late>>

-----------------------------------------------------------------------------
(* The answers, at the page.                                               *)

\* What a change of session leaves of the requests under way.
Aged == [n \in Calls |-> IF calls[n] = NoCall THEN NoCall ELSE [calls[n] EXCEPT !.old = TRUE]]
Without(cs, n) == [cs EXCEPT ![n] = NoCall]
\* What a page that is left by a reload leaves of them.
WithoutTab(cs, t) == [n \in Calls |-> IF cs[n] # NoCall /\ cs[n].tab = t THEN NoCall ELSE cs[n]]

\* handleLogin and its likes: the three keys are written and the app's pages opened.
Enter(n) ==
    /\ calls[n].op \in SignIns
    /\ store' = [access |-> Fresh(calls[n].who), refresh |-> Fresh(calls[n].who),
                 user |-> [who |-> calls[n].who, name |-> calls[n].who]]
    /\ at' = [at EXCEPT ![calls[n].tab] = "pages"]
    /\ calls' = Without(Aged, n)
    /\ UNCHANGED late

\* The bars copy the name they are told into the stored user, whoever that is by then.
NamedBlindly(n) == \* mutant: nobody looks whether a user is stored
    /\ calls[n].op = "get"
    /\ store' = [store EXCEPT !.user = [who |-> @.who, name |-> calls[n].tok.who]]
    /\ late' = (late \/ calls[n].old)
    /\ calls' = Without(calls, n)
    /\ UNCHANGED at
Named(n) ==
    /\ calls[n].op = "get"
    /\ store' = IF store.user = Nobody THEN store ELSE [store EXCEPT !.user.name = calls[n].tok.who]
    /\ late' = (late \/ (calls[n].old /\ store.user # Nobody))
    /\ calls' = Without(calls, n)
    /\ UNCHANGED at

Receive(n) == /\ calls[n] # NoCall /\ calls[n].stage = "ok"
              /\ Enter(n) \/ Named(n)
              /\ UNCHANGED <<browser, users>>

\* A 401, the first time: if a refresh token is stored it is sent for new ones.
MayRenewAgain(c) == store.refresh # Nobody \* mutant: _retry is not looked at
MayRenew(c) == ~c.retried /\ store.refresh # Nobody

Denied(n) ==
    /\ calls[n] # NoCall /\ calls[n].stage \in {"denied", "refused"}
    /\ calls' = IF calls[n].stage = "denied" /\ MayRenew(calls[n])
                THEN [calls EXCEPT ![n].retried = TRUE, ![n].stage = "renewing",
                                   ![n].ref = store.refresh]
                ELSE Without(calls, n)
    /\ UNCHANGED <<browser, users, store, at, late>>

\* The new tokens are written and the request is sent again with them.
Resend(n) ==
    LET a == calls[n].ref.who IN
    /\ calls[n] # NoCall /\ calls[n].stage = "renewed"
    /\ store' = [store EXCEPT !.access = Fresh(a), !.refresh = Fresh(a)]
    /\ late' = (late \/ calls[n].old)
    /\ calls' = [calls EXCEPT ![n].stage = "sent", ![n].tok = IF calls[n].op = "get" THEN Fresh(a) ELSE Nobody,
                                 ![n].ref = Nobody]
    /\ UNCHANGED <<browser, users, at>>

\* No new tokens: the store is emptied and the tab reloaded at the sign-in page.
SendToLogin(n) ==
    /\ calls[n] # NoCall /\ calls[n].stage = "lapsed"
    /\ store' = EmptyStore
    /\ at' = [at EXCEPT ![calls[n].tab] = "login"]
    /\ calls' = WithoutTab(Aged, calls[n].tab)
    /\ UNCHANGED <<browser, users, late>>

Handled(n) == Receive(n) \/ Denied(n) \/ Resend(n) \/ SendToLogin(n)

-----------------------------------------------------------------------------
(* Leaving, coming back, and what happens elsewhere.                       *)

Leave(t) == /\ at[t] = "pages"
            /\ at' = [at EXCEPT ![t] = "login"]
            /\ calls' = Aged
            /\ UNCHANGED <<browser, users, late>>

ClientLogoutForgetful(t) == \* mutant: the refresh token stays
    app = "users" /\ store' = [EmptyStore EXCEPT !.refresh = store.refresh] /\ Leave(t)
ClientLogout(t) == app = "users" /\ store' = EmptyStore /\ Leave(t)
FreelancerLogout(t) == app = "users" /\ store' = EmptyStore /\ Leave(t)
AdminLogout(t) == app = "admin" /\ store' = EmptyStore /\ Leave(t)
Logout(t) == ClientLogout(t) \/ FreelancerLogout(t) \/ AdminLogout(t)

\* The users' pages open for anybody, the administrators' for a stored administrator.
ProtectedRoute == store.user # Nobody /\ store.user.who \in Admins

Open(t, place) ==
    /\ at' = [at EXCEPT ![t] = IF place = "pages" /\ app = "admin" /\ ~ProtectedRoute
                               THEN "login" ELSE place]
    /\ calls' = WithoutTab(calls, t)
    /\ UNCHANGED <<browser, users, store, late>>

\* The access token lasts minutes, the refresh token days.
Expire(k) ==
    /\ k \in {"access", "refresh"} /\ store[k] # Nobody
    /\ store' = [store EXCEPT ![k].good = FALSE]
    /\ UNCHANGED <<browser, users, at, calls, late>>

\* PUT /admin/users/{id}, with is_active.
SetActive(a, s) == /\ a \notin Admins /\ Registered(a)
                   /\ users' = [users EXCEPT ![a] = s]
                   /\ UNCHANGED <<browser, store, at, calls, late>>

SessionNext ==
    \/ \E n \in browser.calls, t \in browser.tabs :
          \/ \E a \in Here : SignIn(n, t, a)
          \/ LoadPage(n, t)
    \/ \E n \in browser.calls : Respond(n) \/ Renew(n) \/ Lose(n) \/ Handled(n)
    \/ \E t \in browser.tabs : Logout(t) \/ \E place \in {"login", "pages"} : Open(t, place)
    \/ \E k \in {"access", "refresh"} : Expire(k)
    \/ \E a \in Here, s \in {"active", "inactive"} : SetActive(a, s)

\* A request that is sent is answered or lost, and its answer is handled: the event loop runs
\* every promise's continuation.
Settled(n) == Respond(n) \/ Renew(n) \/ Handled(n)
SessionFairness == \A n \in Calls : WF_sessionVars(Settled(n))

SessionSpec == SessionInit /\ [][SessionNext]_sessionVars /\ SessionFairness

-----------------------------------------------------------------------------
(* Type invariant: the tokens, the stored user and the requests are of the *)
(* shapes the pages give them.                                             *)
SessionTypeOK ==
    /\ browser \in Browsers
    /\ users \in [Accounts -> {"none", "active", "inactive"}]
    /\ store.access \in Token /\ store.refresh \in Token
    /\ store.user \in {Nobody} \union [who : Accounts, name : Accounts]
    /\ at \in [Tabs -> {"login", "pages"}]
    /\ late \in BOOLEAN
    /\ \A n \in Calls : calls[n] # NoCall =>
          /\ calls[n].op \in SignIns \union {"get"}
          /\ calls[n].tab \in Tabs
          /\ calls[n].tok \in Token
          /\ calls[n].ref \in Token
          /\ calls[n].stage = "renewing" => calls[n].ref # Nobody
          /\ calls[n].stage = "ok" /\ calls[n].op = "get" => calls[n].tok # Nobody

(* The tokens a browser sends, the token it renews them with, the user its *)
(* pages show and that user's name are of one account, or none is there at *)
(* all: sign-ins, sign-outs and renewals of two tabs keep them together,   *)
(* unless an answer to a request from before the last change of session    *)
(* was written after it (pages/Login.js:140, services/api.js:80,           *)
(* components/client/Navbar.js:44).                                        *)
TokensMatchUser ==
    late \/ store = EmptyStore
         \/ /\ store.user # Nobody /\ store.access # Nobody /\ store.refresh # Nobody
            /\ store.access.who = store.user.who
            /\ store.refresh.who = store.user.who
            /\ store.user.name = store.user.who

(* Every request ends: also for an account an administrator has            *)
(* deactivated, whose every request is denied and whose every renewal is   *)
(* granted, the page gets an answer or an error (services/api.js:75).      *)
EveryCallEnds == \A n \in Calls : []<>(calls[n] = NoCall)
=============================================================================
