---------------------------- MODULE SignIn_proofs ----------------------------
(***************************************************************************)
(* Theorems about signing in: for any tabs, accounts and calls, the tokens *)
(* of a session are its user's (Session); for any number of tabs, secrets  *)
(* and codes, the backup codes a user is told to save are the ones the     *)
(* server takes (TwoFactor); and for any window and number of attempts, a  *)
(* refused user who has waited as told is let in (TotpThrottle).           *)
(***************************************************************************)
EXTENDS Session, TwoFactor, TotpThrottle, FiniteSetTheorems, TLAPS

-----------------------------------------------------------------------------
(* The session.                                                            *)

StoredSession == [access : Token, refresh : Token,
                  user : {Nobody} \union [who : Accounts, name : Accounts]]
Stages == {"sent", "ok", "denied", "refused", "renewing", "renewed", "lapsed"}
OpenCall == [op : SignIns \union {"get"}, tab : Tabs, who : Accounts \union {"nobody"}, tok : Token,
             ref : Token, stage : Stages, retried : BOOLEAN, old : BOOLEAN]

\* What a request carries at each stage of its way.
Carries(c) ==
    /\ c \in OpenCall
    /\ c.op \in SignIns => c.who \in Accounts
    /\ c.stage \in {"renewing", "renewed"} => c.ref # Nobody
    /\ c.stage = "ok" /\ c.op = "get" => c.tok # Nobody

\* A request made in the session of the store s carries its tokens.
Of(tok, s) == tok # Nobody => s.user # Nobody /\ tok.who = s.user.who
Current(c, s) == Of(c.tok, s) /\ Of(c.ref, s)

Match(s) == \/ s = EmptyStore
            \/ /\ s.user # Nobody /\ s.access # Nobody /\ s.refresh # Nobody
               /\ s.access.who = s.user.who
               /\ s.refresh.who = s.user.who
               /\ s.user.name = s.user.who

\* The inductive invariant, in three parts: the types, the requests, the store.
SessionTyped ==
    /\ browser \in Browsers
    /\ users \in [Accounts -> {"none", "active", "inactive"}]
    /\ store \in StoredSession
    /\ at \in [Tabs -> {"login", "pages"}]
    /\ late \in BOOLEAN
    /\ DOMAIN calls = Calls /\ calls = [n \in Calls |-> calls[n]]
Carried == \A n \in Calls : calls[n] # NoCall => Carries(calls[n])
Matched == ~late => /\ Match(store)
                    /\ \A n \in Calls : calls[n] # NoCall /\ ~calls[n].old => Current(calls[n], store)
SessionInv == SessionTyped /\ Carried /\ Matched

LEMMA TokenFields ==
    /\ Nobody \in Token /\ EmptyStore \in StoredSession /\ Match(EmptyStore)
    /\ \A a \in Accounts : Fresh(a) \in Token /\ Fresh(a) # Nobody /\ Fresh(a).who = a
    /\ \A t \in Token : t # Nobody => t \in [who : Accounts, good : BOOLEAN]
  BY DEF Nobody, Token, EmptyStore, StoredSession, Match, Fresh

LEMMA CallFields ==
    ASSUME NEW c \in OpenCall
    PROVE  /\ c # NoCall
           /\ \A s \in Stages : [c EXCEPT !.stage = s] \in OpenCall
           /\ [c EXCEPT !.old = TRUE] \in OpenCall
<1>1. c # NoCall
  <2>1. c.op # "none" /\ NoCall.op = "none"
    BY DEF OpenCall, NoCall, SignIns
  <2> QED BY <2>1
<1>2. \A s \in Stages : [c EXCEPT !.stage = s] \in OpenCall
  BY DEF OpenCall
<1>3. [c EXCEPT !.old = TRUE] \in OpenCall
  BY DEF OpenCall
<1> QED BY <1>1, <1>2, <1>3

\* One request moves on; the store and the session are as they were.
LEMMA CallMoves ==
    ASSUME SessionInv, NEW n \in Calls, NEW c,
           calls' = [calls EXCEPT ![n] = c],
           UNCHANGED <<browser, store, at, late>>,
           users' \in [Accounts -> {"none", "active", "inactive"}],
           c # NoCall => Carries(c) /\ (~late /\ ~c.old => Current(c, store))
    PROVE  SessionInv'
<1>1. \A k \in Calls : calls'[k] = IF k = n THEN c ELSE calls[k]
  BY DEF SessionInv, SessionTyped
<1>2. SessionTyped'
  BY DEF SessionInv, SessionTyped
<1>3. Carried'
  BY <1>1 DEF SessionInv, Carried
<1>4. Matched'
  BY <1>1 DEF SessionInv, Matched
<1> QED BY <1>2, <1>3, <1>4 DEF SessionInv

LEMMA SessionStart == SessionInit => SessionInv
<1> SUFFICES ASSUME SessionInit PROVE SessionInv
  OBVIOUS
<1>1. SessionTyped
  BY TokenFields, AdminsAssumption DEF SessionInit, SessionTyped
<1>2. Carried /\ Matched
  BY TokenFields DEF SessionInit, Carried, Matched
<1> QED BY <1>1, <1>2 DEF SessionInv

LEMMA Visitors ==
    ASSUME SessionTyped
    PROVE  /\ Here \subseteq Accounts /\ browser.tabs \subseteq Tabs /\ browser.calls \subseteq Calls
           /\ app \in {"users", "admin"}
  BY BrowsersAssumption DEF SessionTyped, Here, app

\* What is sent carries the tokens of the session it is sent in.
LEMMA SendInv ==
    ASSUME SessionInv, NEW n \in Calls, NEW op \in SignIns \union {"get"}, NEW t \in Tabs,
           NEW a \in Accounts \union {"nobody"}, op \in SignIns => a \in Accounts,
           Send(n, op, t, a)
    PROVE  SessionInv'
<1> DEFINE c == NewCall(op, t, a)
<1>1. c \in OpenCall
  BY TokenFields DEF NewCall, OpenCall, Stages, SessionInv, SessionTyped, StoredSession
<1>2. Carries(c)
  BY <1>1 DEF NewCall, Carries
<1>3. ~late => Current(c, store)
  BY DEF SessionInv, Matched, Match, NewCall, Current, Of, EmptyStore
<1> QED BY <1>2, <1>3, CallMoves DEF Send, SessionInv, SessionTyped

LEMMA StageInv ==
    ASSUME SessionInv, NEW n \in Calls, calls[n] # NoCall, NEW s \in Stages,
           s \in {"renewing", "renewed"} => calls[n].ref # Nobody,
           s = "ok" /\ calls[n].op = "get" => calls[n].tok # Nobody,
           calls' = [calls EXCEPT ![n].stage = s],
           UNCHANGED <<browser, store, at, late>>,
           users' \in [Accounts -> {"none", "active", "inactive"}]
    PROVE  SessionInv'
<1> DEFINE c == [calls[n] EXCEPT !.stage = s]
<1>1. calls[n] \in OpenCall /\ Carries(calls[n])
  BY DEF SessionInv, Carried, Carries
<1>2. c \in OpenCall
  BY <1>1, CallFields
<1>3. /\ c.op = calls[n].op /\ c.who = calls[n].who /\ c.ref = calls[n].ref
      /\ c.tok = calls[n].tok /\ c.old = calls[n].old /\ c.stage = s
  BY <1>1 DEF OpenCall
<1>4. Carries(c)
  BY <1>1, <1>2, <1>3 DEF Carries
<1>5. ~late /\ ~c.old => Current(c, store)
  BY <1>3 DEF SessionInv, Matched, Current
<1> HIDE DEF c
<1>6. calls' = [calls EXCEPT ![n] = c]
  BY DEF c
<1> QED BY <1>4, <1>5, <1>6, CallMoves

LEMMA RespondInv == ASSUME SessionInv, NEW n \in Calls, Respond(n) PROVE SessionInv'
<1> PICK o \in Outcomes(calls[n]) :
       /\ calls' = [calls EXCEPT ![n].stage = o]
       /\ users' = IF o = "ok" /\ calls[n].op \in {"register", "wallet"} /\ ~Registered(calls[n].who)
                   THEN [users EXCEPT ![calls[n].who] = "active"] ELSE users
  BY DEF Respond
<1>1. calls[n] # NoCall /\ Carries(calls[n])
  BY DEF Respond, SessionInv, Carried
<1>2. o \in {"ok", "denied", "refused"}
  BY DEF Outcomes
<1>3. o = "ok" /\ calls[n].op = "get" => calls[n].tok # Nobody
  BY DEF Outcomes, Admitted
<1>4. users' \in [Accounts -> {"none", "active", "inactive"}]
  BY DEF SessionInv, SessionTyped
<1> QED BY <1>1, <1>2, <1>3, <1>4, StageInv DEF Respond, Stages

LEMMA RenewInv == ASSUME SessionInv, NEW n \in Calls, Renew(n) PROVE SessionInv'
<1> DEFINE s == IF calls[n].ref.good THEN "renewed" ELSE "lapsed"
<1>1. calls[n] # NoCall /\ calls[n].ref # Nobody
  BY DEF Renew, SessionInv, Carried, Carries
<1>2. s \in {"renewed", "lapsed"} /\ calls' = [calls EXCEPT ![n].stage = s]
  BY DEF Renew
<1> HIDE DEF s
<1> QED BY <1>1, <1>2, StageInv DEF Renew, Stages, SessionInv, SessionTyped

LEMMA LoseCallInv == ASSUME SessionInv, NEW n \in Calls, Lose(n) PROVE SessionInv'
<1> DEFINE s == IF calls[n].stage = "sent" THEN "refused" ELSE "lapsed"
<1>1. s \in {"refused", "lapsed"} /\ calls' = [calls EXCEPT ![n].stage = s]
  BY DEF Lose, SessionInv, SessionTyped
<1> HIDE DEF s
<1> QED BY <1>1, StageInv DEF Lose, Stages, SessionInv, SessionTyped

LEMMA RenewalFields ==
    ASSUME NEW c \in OpenCall, NEW r \in Token
    PROVE  [c EXCEPT !.retried = TRUE, !.stage = "renewing", !.ref = r] \in OpenCall
  BY DEF OpenCall, Stages

LEMMA DeniedInv == ASSUME SessionInv, NEW n \in Calls, Denied(n) PROVE SessionInv'
<1>0. calls[n] \in OpenCall /\ Carries(calls[n]) /\ store.refresh \in Token
  BY DEF Denied, SessionInv, Carried, Carries, SessionTyped, StoredSession
<1>1. CASE MayRenew(calls[n]) /\ calls[n].stage = "denied"
  <2> DEFINE c == [calls[n] EXCEPT !.retried = TRUE, !.stage = "renewing", !.ref = store.refresh]
  <2>1. c \in OpenCall
    BY <1>0, RenewalFields
  <2>2. /\ c.op = calls[n].op /\ c.who = calls[n].who /\ c.ref = store.refresh
        /\ c.tok = calls[n].tok /\ c.old = calls[n].old /\ c.stage = "renewing"
    BY <1>0 DEF OpenCall
  <2>3. Carries(c)
    BY <1>0, <1>1, <2>1, <2>2 DEF Carries, MayRenew
  <2>4. ~late /\ ~c.old => Current(c, store)
    BY <2>2 DEF Denied, SessionInv, Matched, Match, EmptyStore, Current, Of
  <2>5. calls' = [calls EXCEPT ![n] = c]
    BY <1>1 DEF Denied
  <2> HIDE DEF c
  <2> QED BY <2>3, <2>4, <2>5, CallMoves DEF Denied, SessionInv, SessionTyped
<1>2. CASE ~(MayRenew(calls[n]) /\ calls[n].stage = "denied")
  BY <1>2, CallMoves DEF Denied, Without, SessionInv, SessionTyped
<1> QED BY <1>1, <1>2

-----------------------------------------------------------------------------
(* A change of session leaves old requests only.                           *)

LEMMA AgedOld ==
    ASSUME SessionInv, NEW n \in Calls
    PROVE  Aged[n] = NoCall \/ (Carries(Aged[n]) /\ Aged[n].old)
<1>1. CASE calls[n] = NoCall
  BY <1>1 DEF Aged
<1>2. CASE calls[n] # NoCall
  <2> DEFINE c == [calls[n] EXCEPT !.old = TRUE]
  <2>1. calls[n] \in OpenCall /\ Carries(calls[n])
    BY <1>2 DEF SessionInv, Carried, Carries
  <2>2. c \in OpenCall
    BY <2>1, CallFields
  <2>3. /\ c.op = calls[n].op /\ c.who = calls[n].who /\ c.ref = calls[n].ref
        /\ c.tok = calls[n].tok /\ c.stage = calls[n].stage /\ c.old
    BY <2>1 DEF OpenCall
  <2>4. Aged[n] = c
    BY <1>2 DEF Aged
  <2> HIDE DEF c
  <2> QED BY <2>1, <2>2, <2>3, <2>4 DEF Carries
<1> QED BY <1>1, <1>2

LEMMA SessionChanges ==
    ASSUME SessionInv, DOMAIN calls' = Calls, calls' = [n \in Calls |-> calls'[n]],
           \A n \in Calls : calls'[n] = NoCall \/ calls'[n] = Aged[n],
           store' \in StoredSession, Match(store'), at' \in [Tabs -> {"login", "pages"}],
           UNCHANGED <<browser, users, late>>
    PROVE  SessionInv'
<1>1. \A n \in Calls : calls'[n] = NoCall \/ (Carries(calls'[n]) /\ calls'[n].old)
  BY AgedOld
<1>2. SessionTyped'
  BY DEF SessionInv, SessionTyped
<1>3. Carried'
  BY <1>1 DEF Carried
<1>4. Matched'
  BY <1>1 DEF Matched
<1> QED BY <1>2, <1>3, <1>4 DEF SessionInv

LEMMA LeaveInv ==
    ASSUME SessionInv, NEW t \in Tabs, store' = EmptyStore, Leave(t)
    PROVE  SessionInv'
<1>1. \A n \in Calls : calls'[n] = Aged[n]
  BY DEF Leave
<1>2. DOMAIN calls' = Calls /\ calls' = [n \in Calls |-> calls'[n]]
  BY DEF Leave, Aged
<1> QED BY <1>1, <1>2, TokenFields, SessionChanges DEF Leave, SessionInv, SessionTyped

LEMMA SendToLoginInv == ASSUME SessionInv, NEW n \in Calls, SendToLogin(n) PROVE SessionInv'
<1>1. calls[n].tab \in Tabs
  BY DEF SendToLogin, SessionInv, Carried, Carries, OpenCall
<1>2. \A k \in Calls : calls'[k] = NoCall \/ calls'[k] = Aged[k]
  BY DEF SendToLogin, WithoutTab
<1>3. DOMAIN calls' = Calls /\ calls' = [k \in Calls |-> calls'[k]]
  BY DEF SendToLogin, WithoutTab
<1>4. at' \in [Tabs -> {"login", "pages"}]
  BY <1>1 DEF SendToLogin, SessionInv, SessionTyped
<1> QED BY <1>2, <1>3, <1>4, TokenFields, SessionChanges DEF SendToLogin

LEMMA EnterInv ==
    ASSUME SessionInv, NEW n \in Calls, Enter(n), calls[n] # NoCall,
           UNCHANGED <<browser, users>>
    PROVE  SessionInv'
<1> DEFINE a == calls[n].who
<1>1. a \in Accounts /\ calls[n].tab \in Tabs
  BY DEF Enter, SessionInv, Carried, Carries, OpenCall
<1>2. store' \in StoredSession /\ Match(store')
  BY <1>1, TokenFields DEF Enter, StoredSession, Match, Nobody
<1>3. \A k \in Calls : calls'[k] = NoCall \/ calls'[k] = Aged[k]
  BY DEF Enter, Without, Aged
<1>4. DOMAIN calls' = Calls /\ calls' = [k \in Calls |-> calls'[k]]
  BY DEF Enter, Without, Aged
<1>5. at' \in [Tabs -> {"login", "pages"}]
  BY <1>1 DEF Enter, SessionInv, SessionTyped
<1> QED BY <1>2, <1>3, <1>4, <1>5, SessionChanges DEF Enter

-----------------------------------------------------------------------------
(* The session goes on: the store's user stays who it is.                  *)

LEMMA SameUser ==
    ASSUME SessionInv, DOMAIN calls' = Calls, calls' = [n \in Calls |-> calls'[n]],
           \A n \in Calls : calls'[n] # NoCall =>
              \/ calls'[n] = calls[n]
              \/ Carries(calls'[n]) /\ (~late' /\ ~calls'[n].old => Current(calls'[n], store')),
           store' \in StoredSession, late' \in BOOLEAN, at' \in [Tabs -> {"login", "pages"}],
           users' \in [Accounts -> {"none", "active", "inactive"}], UNCHANGED browser,
           ~late' => /\ ~late /\ Match(store')
                     /\ store.user # Nobody => store'.user # Nobody /\ store'.user.who = store.user.who
    PROVE  SessionInv'
<1>1. SessionTyped'
  BY DEF SessionInv, SessionTyped
<1>2. Carried'
  BY DEF SessionInv, Carried
<1>3. Matched'
  BY DEF SessionInv, Matched, Current, Of
<1> QED BY <1>1, <1>2, <1>3 DEF SessionInv

LEMMA UserFields ==
    ASSUME NEW u \in [who : Accounts, name : Accounts], NEW a \in Accounts
    PROVE  /\ [u EXCEPT !.name = a] \in [who : Accounts, name : Accounts]
           /\ [u EXCEPT !.name = a] # Nobody /\ [u EXCEPT !.name = a].who = u.who
           /\ [u EXCEPT !.name = a].name = a
<1>1. \A v \in [who : Accounts, name : Accounts] : v # Nobody
  <2> SUFFICES ASSUME NEW v \in [who : Accounts, name : Accounts], v = Nobody PROVE FALSE
    OBVIOUS
  <2>1. DOMAIN v = {"who", "name"} /\ DOMAIN Nobody = {"who"}
    BY DEF Nobody
  <2> QED BY <2>1
<1>2. [u EXCEPT !.name = a] \in [who : Accounts, name : Accounts]
  OBVIOUS
<1> QED BY <1>1, <1>2

LEMMA NamedInv ==
    ASSUME SessionInv, NEW n \in Calls, Named(n), calls[n] # NoCall, calls[n].stage = "ok",
           UNCHANGED <<browser, users>>
    PROVE  SessionInv'
<1> DEFINE a == calls[n].tok.who
           u == [store.user EXCEPT !.name = a]
<1>1. calls[n].tok # Nobody /\ a \in Accounts /\ calls[n].old \in BOOLEAN
  BY TokenFields DEF Named, SessionInv, Carried, Carries, OpenCall
<1>2. /\ \A k \in Calls : calls'[k] # NoCall => calls'[k] = calls[k]
      /\ DOMAIN calls' = Calls /\ calls' = [k \in Calls |-> calls'[k]]
  BY DEF Named, Without, SessionInv, SessionTyped
<1>3. CASE store.user = Nobody
  <2>1. store' = store /\ late' = late
    BY <1>1, <1>3 DEF Named, SessionInv, SessionTyped
  <2> QED BY <1>2, <2>1, SameUser DEF Named, SessionInv, SessionTyped, Matched
<1>4. CASE store.user # Nobody
  <2>1. store.user \in [who : Accounts, name : Accounts]
    BY <1>4 DEF SessionInv, SessionTyped, StoredSession
  <2>2. /\ u \in [who : Accounts, name : Accounts] /\ u # Nobody /\ u.who = store.user.who
        /\ u.name = a
    BY <1>1, <2>1, UserFields
  <2>3. store' = [store EXCEPT !.user = u] /\ late' = (late \/ calls[n].old)
    BY <1>4 DEF Named
  <2> HIDE DEF u
  <2>4. store' \in StoredSession /\ store'.user = u /\ store'.access = store.access /\ store'.refresh = store.refresh
    BY <2>2, <2>3 DEF SessionInv, SessionTyped, StoredSession
  <2>5. ~late' => Match(store')
    <3>1. SUFFICES ASSUME ~late' PROVE Match(store')
      OBVIOUS
    <3>2. ~late /\ ~calls[n].old /\ Match(store) /\ Current(calls[n], store)
      BY <2>3, <3>1 DEF SessionInv, Matched
    <3>3. a = store.user.who
      BY <1>1, <3>2 DEF Current, Of
    <3>4. store # EmptyStore
      BY <1>4 DEF EmptyStore
    <3> QED BY <2>2, <2>4, <3>2, <3>3, <3>4 DEF Match
  <2> QED BY <1>1, <1>2, <2>2, <2>3, <2>4, <2>5, SameUser DEF Named, SessionInv, SessionTyped
<1> QED BY <1>3, <1>4

LEMMA ResentFields ==
    ASSUME NEW c \in OpenCall, NEW t \in Token
    PROVE  [c EXCEPT !.stage = "sent", !.tok = t, !.ref = Nobody] \in OpenCall
  BY DEF OpenCall, Stages, Token

LEMMA ResendInv == ASSUME SessionInv, NEW n \in Calls, Resend(n) PROVE SessionInv'
<1> DEFINE a == calls[n].ref.who
           t == IF calls[n].op = "get" THEN Fresh(a) ELSE Nobody
           c == [calls[n] EXCEPT !.stage = "sent", !.tok = t, !.ref = Nobody]
<1>1. /\ calls[n] # NoCall /\ calls[n] \in OpenCall /\ Carries(calls[n])
      /\ calls[n].ref # Nobody /\ a \in Accounts /\ calls[n].old \in BOOLEAN
  BY TokenFields DEF Resend, SessionInv, Carried, Carries, OpenCall
<1>2. /\ Fresh(a) \in Token /\ Fresh(a) # Nobody /\ Fresh(a).who = a
      /\ t \in Token /\ (t = Nobody \/ t = Fresh(a))
  BY <1>1, TokenFields
<1> HIDE DEF t
<1>3. c \in OpenCall
  BY <1>1, <1>2, ResentFields
<1>4. /\ c.op = calls[n].op /\ c.who = calls[n].who /\ c.ref = Nobody
      /\ c.tok = t /\ c.stage = "sent" /\ c.old = calls[n].old
  BY <1>1 DEF OpenCall
<1>5. calls' = [calls EXCEPT ![n] = c]
  BY DEF Resend, t
<1> HIDE DEF c
<1>6. /\ \A k \in Calls : calls'[k] = IF k = n THEN c ELSE calls[k]
      /\ DOMAIN calls' = Calls /\ calls' = [k \in Calls |-> calls'[k]]
  BY <1>5 DEF SessionInv, SessionTyped
<1>7. Carries(c)
  BY <1>1, <1>3, <1>4 DEF Carries
<1>8. /\ store' \in StoredSession /\ store'.user = store.user
      /\ store'.access = Fresh(a) /\ store'.refresh = Fresh(a)
  BY <1>2 DEF Resend, SessionInv, SessionTyped, StoredSession
<1>9. late' = (late \/ calls[n].old)
  BY DEF Resend
<1>10. ~late' => store.user # Nobody /\ a = store.user.who /\ Match(store')
  <2>1. SUFFICES ASSUME ~late' PROVE store.user # Nobody /\ a = store.user.who /\ Match(store')
    OBVIOUS
  <2>2. Match(store) /\ Current(calls[n], store)
    BY <1>1, <1>9, <2>1 DEF SessionInv, Matched
  <2>3. store.user # Nobody /\ a = store.user.who
    BY <1>1, <2>2 DEF Current, Of
  <2>4. store # EmptyStore
    BY <2>3 DEF EmptyStore
  <2> QED BY <1>2, <1>8, <2>2, <2>3, <2>4 DEF Match
<1>11. ~late' => Current(c, store')
  BY <1>2, <1>4, <1>8, <1>10 DEF Current, Of
<1> HIDE DEF a
<1> QED BY <1>1, <1>6, <1>7, <1>8, <1>9, <1>10, <1>11, SameUser DEF Resend, SessionInv, SessionTyped

LEMMA OpenInv ==
    ASSUME SessionInv, NEW t \in Tabs, NEW place \in {"login", "pages"}, Open(t, place)
    PROVE  SessionInv'
<1>1. /\ \A k \in Calls : calls'[k] # NoCall => calls'[k] = calls[k]
      /\ DOMAIN calls' = Calls /\ calls' = [k \in Calls |-> calls'[k]]
  BY DEF Open, WithoutTab
<1>2. at' \in [Tabs -> {"login", "pages"}]
  BY DEF Open, SessionInv, SessionTyped
<1> QED BY <1>1, <1>2, SameUser DEF Open, SessionInv, SessionTyped, Matched

LEMMA ExpireInv == ASSUME SessionInv, NEW k, Expire(k) PROVE SessionInv'
<1> DEFINE t == [store[k] EXCEPT !.good = FALSE]
<1>1. k \in {"access", "refresh"} /\ store[k] \in [who : Accounts, good : BOOLEAN]
  BY TokenFields DEF Expire, SessionInv, SessionTyped, StoredSession
<1>2. t \in [who : Accounts, good : BOOLEAN] /\ t.who = store[k].who
  BY <1>1
<1>3. t # Nobody
  <2>1. DOMAIN t = {"who", "good"} /\ DOMAIN Nobody = {"who"}
    BY <1>2 DEF Nobody
  <2> QED BY <2>1
<1>4. store' = [store EXCEPT ![k] = t] /\ t \in Token
  BY <1>2 DEF Expire, Token
<1> HIDE DEF t
<1>5. /\ store' \in StoredSession /\ store'.user = store.user
      /\ store'.access = IF k = "access" THEN t ELSE store.access
      /\ store'.refresh = IF k = "refresh" THEN t ELSE store.refresh
  BY <1>1, <1>4 DEF SessionInv, SessionTyped, StoredSession
<1>6. ~late => Match(store')
  <2>1. SUFFICES ASSUME ~late PROVE Match(store')
    OBVIOUS
  <2>2. store # EmptyStore
    BY <1>1 DEF Expire, EmptyStore
  <2>3. /\ store.user # Nobody /\ store.access # Nobody /\ store.refresh # Nobody
        /\ store.access.who = store.user.who /\ store.refresh.who = store.user.who
        /\ store.user.name = store.user.who
    BY <2>1, <2>2 DEF SessionInv, Matched, Match
  <2>4. CASE k = "access"
    BY <1>2, <1>3, <1>5, <2>3, <2>4 DEF Match
  <2>5. CASE k = "refresh"
    BY <1>2, <1>3, <1>5, <2>3, <2>5 DEF Match
  <2> QED BY <1>1, <2>4, <2>5
<1> QED BY <1>5, <1>6, SameUser DEF Expire, SessionInv, SessionTyped

LEMMA SetActiveInv ==
    ASSUME SessionInv, NEW a \in Accounts, NEW s \in {"active", "inactive"}, SetActive(a, s)
    PROVE  SessionInv'
<1>1. users' \in [Accounts -> {"none", "active", "inactive"}]
  BY DEF SetActive, SessionInv, SessionTyped
<1> QED BY <1>1, SameUser DEF SetActive, SessionInv, SessionTyped, Matched

-----------------------------------------------------------------------------

LEMMA SessionStep == SessionInv /\ [SessionNext]_sessionVars => SessionInv'
<1> SUFFICES ASSUME SessionInv, [SessionNext]_sessionVars PROVE SessionInv'
  OBVIOUS
<1>0. /\ Here \subseteq Accounts /\ browser.tabs \subseteq Tabs /\ browser.calls \subseteq Calls
      /\ Nobody.who = "nobody"
  BY Visitors DEF SessionInv, Nobody
<1>1. ASSUME NEW n \in browser.calls, NEW t \in browser.tabs, NEW a \in Here, SignIn(n, t, a)
      PROVE  SessionInv'
  BY <1>0, <1>1, SendInv DEF SignIn, SignInWithPassword, SignUp, SignInAsAdmin,
                             SignInWithWallet, SignIns
<1>2. ASSUME NEW n \in browser.calls, NEW t \in browser.tabs, LoadPage(n, t) PROVE SessionInv'
  BY <1>0, <1>2, SendInv DEF LoadPage, SignIns
<1>3. ASSUME NEW n \in browser.calls, Respond(n) \/ Renew(n) \/ Lose(n) PROVE SessionInv'
  BY <1>0, <1>3, RespondInv, RenewInv, LoseCallInv
<1>4. ASSUME NEW n \in browser.calls, Handled(n) PROVE SessionInv'
  <2>1. CASE Receive(n)
    BY <1>0, <2>1, EnterInv, NamedInv DEF Receive
  <2>2. CASE Denied(n) \/ Resend(n) \/ SendToLogin(n)
    BY <1>0, <2>2, DeniedInv, ResendInv, SendToLoginInv
  <2> QED BY <1>4, <2>1, <2>2 DEF Handled
<1>5. ASSUME NEW t \in browser.tabs, Logout(t) PROVE SessionInv'
  BY <1>0, <1>5, LeaveInv DEF Logout, ClientLogout, FreelancerLogout, AdminLogout
<1>6. ASSUME NEW t \in browser.tabs, NEW place \in {"login", "pages"}, Open(t, place)
      PROVE  SessionInv'
  BY <1>0, <1>6, OpenInv
<1>7. ASSUME NEW k \in {"access", "refresh"}, Expire(k) PROVE SessionInv'
  BY <1>7, ExpireInv
<1>8. ASSUME NEW a \in Here, NEW s \in {"active", "inactive"}, SetActive(a, s) PROVE SessionInv'
  BY <1>0, <1>8, SetActiveInv
<1>9. CASE UNCHANGED sessionVars
  BY <1>9, SameUser DEF sessionVars, SessionInv, SessionTyped, Matched
<1> QED BY <1>1, <1>2, <1>3, <1>4, <1>5, <1>6, <1>7, <1>8, <1>9 DEF SessionNext

\* The inductive invariant holds in every behaviour.
THEOREM SessionInvCorrect == SessionSpec => []SessionInv
<1>1. SessionInit => SessionInv
  BY SessionStart
<1> QED BY <1>1, SessionStep, PTL DEF SessionSpec

LEMMA SessionTypes == SessionInv => SessionTypeOK
  BY DEF SessionInv, SessionTyped, Carried, Carries, OpenCall, StoredSession, SessionTypeOK

\* Every variable keeps its type: requests, tokens and the stored user.
THEOREM SessionTypeCorrect == SessionSpec => []SessionTypeOK
  BY SessionTypes, SessionInvCorrect, PTL

LEMMA OneSession == SessionInv => TokensMatchUser
  BY DEF SessionInv, Matched, Match, TokensMatchUser

\* The tokens and the user in localStorage are of one account, or none is there at all,
\* whatever tabs, sign-ins, sign-outs, renewals and deactivations there are, until an answer
\* of an earlier session is written (services/api.js, components/client/Navbar.js).
THEOREM TokensStayTogether == SessionSpec => []TokensMatchUser
  BY OneSession, SessionInvCorrect, PTL

-----------------------------------------------------------------------------
(* The second factor.                                                      *)

FactorOps == {"setup", "verify", "disable", "reset", "validate"}
Row == [enabled : BOOLEAN, secret : Nat, codes : SUBSET (Nat \X Nat)]
Pane == [at : {"home", "login", "code", "settings"}, enabled : BOOLEAN, mark : BOOLEAN,
         step : Steps, setup : Nat]
Asked == [op : FactorOps, code : Nat \X Nat, claim : BOOLEAN, row : Row,
          stage : {"sent", "read", "ok", "refused"}]

FactorTyped ==
    /\ account \in Row /\ minted \in Nat /\ overlapped \in BOOLEAN /\ spent \subseteq Nat \X Nat
    /\ token \in [signed : BOOLEAN, claim : BOOLEAN, mark : BOOLEAN]
    /\ panel \in [Panels -> Pane]
    /\ request \in [Panels -> {NoRequest} \union Asked]

\* The secret s is in force, or was turned off.
Holds(s) == s \in retired \/ (account.enabled /\ account.secret = s)

\* The row's codes are those of its secret, all but the spent ones.
CodesStored ==
    /\ account.secret <= minted
    /\ account.enabled => account.secret # 0
    /\ account.codes = IF account.secret = 0 THEN {} ELSE CodesOf(account.secret) \ spent
    /\ \A c \in spent : c[1] <= minted

\* A secret that was made and is not yet on the row has no past.
Unused(s) == s \in 1 .. minted /\ account.secret # s /\ \A c \in spent : c[1] # s

\* What a request was decided on still says of the present row.
Decided(q) ==
    CASE q.op = "setup" -> ~q.row.enabled /\ q.row.secret # q.code[1] /\ Unused(q.code[1])
      [] q.op = "verify" -> /\ q.row.secret # 0 /\ q.code = FromApp(q.row.secret)
                            /\ q.row.enabled => Holds(q.row.secret)
      [] q.op \in {"disable", "reset"} -> q.row.enabled
      [] OTHER -> (q.row.secret # 0 /\ q.code = FromApp(q.row.secret)) \/ q.code \in q.row.codes

Waits(t, op, stage) == request[t] # NoRequest /\ request[t].op = op /\ request[t].stage = stage

FactorInv ==
    /\ FactorTyped
    /\ ~overlapped =>
       /\ CodesStored
       /\ \A t \in Panels : request[t] # NoRequest /\ request[t].stage = "read" => Decided(request[t])
       /\ \A t, u \in Panels : Waits(t, "setup", "read") /\ Waits(u, "setup", "read") /\ t # u
                                  => request[t].code[1] # request[u].code[1]
       /\ \A t \in Panels : request[t] # NoRequest /\ request[t].op = "verify" =>
             /\ request[t].code \in {FromApp(0), FromApp(panel[t].setup)}
             /\ request[t].stage = "ok" => request[t].code[1] # 0 /\ Holds(request[t].code[1])
       /\ \A t \in Panels : panel[t].step = "done" => Holds(panel[t].setup)

LEMMA AskedFields ==
    ASSUME NEW q \in Asked
    PROVE  /\ q # NoRequest
           /\ \A s \in {"sent", "read", "ok", "refused"}, c \in Nat \X Nat, r \in Row :
                 [q EXCEPT !.stage = s, !.code = c, !.row = r] \in Asked
           /\ \A s \in {"sent", "read", "ok", "refused"}, r \in Row :
                 [q EXCEPT !.stage = s, !.row = r] \in Asked
           /\ \A s \in {"sent", "read", "ok", "refused"} : [q EXCEPT !.stage = s] \in Asked
<1>1. q # NoRequest
  <2>1. q.op # "none" /\ NoRequest.op = "none"
    BY DEF Asked, FactorOps, NoRequest
  <2> QED BY <2>1
<1>2. \A s \in {"sent", "read", "ok", "refused"}, c \in Nat \X Nat, r \in Row :
         [q EXCEPT !.stage = s, !.code = c, !.row = r] \in Asked
  BY DEF Asked
<1>3. \A s \in {"sent", "read", "ok", "refused"}, r \in Row :
         [q EXCEPT !.stage = s, !.row = r] \in Asked
  BY DEF Asked
<1>4. \A s \in {"sent", "read", "ok", "refused"} : [q EXCEPT !.stage = s] \in Asked
  BY DEF Asked
<1> QED BY <1>1, <1>2, <1>3, <1>4

LEMMA ReadFields ==
    ASSUME NEW q \in Asked, NEW s, NEW c, NEW r
    PROVE  LET d == [q EXCEPT !.stage = s, !.code = c, !.row = r]
           IN d.op = q.op /\ d.stage = s /\ d.code = c /\ d.row = r
  BY DEF Asked

LEMMA NoFactorRow == NoFactor \in Row
  BY DEF NoFactor, Row

LEMMA FromAppCode == \A s \in Nat : FromApp(s) \in Nat \X Nat /\ FromApp(s)[1] = s /\ FromApp(s)[2] = 0
  BY DEF FromApp

LEMMA CodeOf == \A s \in Nat : \A c \in CodesOf(s) : c \in Nat \X Nat /\ c[1] = s /\ c[2] # 0
  BY TwoFactorAssumption DEF CodesOf

LEMMA FactorStart == FactorInit => FactorInv
<1> SUFFICES ASSUME FactorInit PROVE FactorInv
  OBVIOUS
<1>1. At("home") \in Pane /\ At("home").step = "idle"
  BY DEF At, Pane, Steps
<1>2. FactorTyped
  BY <1>1, NoFactorRow DEF FactorInit, FactorTyped
<1>3. CodesStored
  BY DEF FactorInit, CodesStored, NoFactor
<1>4. \A t \in Panels : request[t] = NoRequest /\ panel[t].step # "done"
  BY <1>1 DEF FactorInit
<1> QED BY <1>2, <1>3, <1>4 DEF FactorInv, Waits

-----------------------------------------------------------------------------
\* One tab's panel and request move on; the row stays as it is.
LEMMA PanelMoves ==
    ASSUME FactorInv, NEW t \in Panels, NEW c \in {NoRequest} \union Asked, NEW p \in Pane,
           request' = [request EXCEPT ![t] = c], panel' = [panel EXCEPT ![t] = p],
           token' \in [signed : BOOLEAN, claim : BOOLEAN, mark : BOOLEAN],
           UNCHANGED <<account, minted, spent, retired, overlapped>>,
           ~overlapped /\ c # NoRequest => c.stage # "read",
           ~overlapped /\ c # NoRequest /\ c.op = "verify" =>
              /\ c.code \in {FromApp(0), FromApp(p.setup)}
              /\ c.stage = "ok" => c.code[1] # 0 /\ Holds(c.code[1]),
           ~overlapped /\ p.step = "done" => Holds(p.setup)
    PROVE  FactorInv'
<1>1. /\ \A u \in Panels : request'[u] = IF u = t THEN c ELSE request[u]
      /\ \A u \in Panels : panel'[u] = IF u = t THEN p ELSE panel[u]
  BY DEF FactorInv, FactorTyped
<1>2. FactorTyped'
  BY DEF FactorInv, FactorTyped
<1> SUFFICES ASSUME ~overlapped'
             PROVE  FactorInv'
  BY <1>2 DEF FactorInv
<1>3. ~overlapped
  OBVIOUS
<1>4. CodesStored'
  BY <1>3 DEF FactorInv, CodesStored
<1>5. \A s : (Holds(s)' <=> Holds(s)) /\ (Unused(s)' <=> Unused(s))
  BY DEF Holds, Unused
<1>6. ASSUME NEW u \in Panels, request'[u] # NoRequest, request'[u].stage = "read"
      PROVE  Decided(request[u])'
  <2>1. u # t /\ request'[u] = request[u]
    BY <1>1, <1>3, <1>6
  <2>2. Decided(request[u])
    BY <1>3, <1>6, <2>1 DEF FactorInv
  <2> QED BY <1>5, <2>1, <2>2 DEF Decided
<1>7. ASSUME NEW u \in Panels, NEW w \in Panels, u # w,
             Waits(u, "setup", "read")', Waits(w, "setup", "read")'
      PROVE  request'[u].code[1] # request'[w].code[1]
  <2>1. u # t /\ w # t
    BY <1>1, <1>3, <1>7 DEF Waits
  <2> QED BY <1>1, <1>3, <1>7, <2>1 DEF Waits, FactorInv
<1>8. ASSUME NEW u \in Panels, request'[u] # NoRequest, request'[u].op = "verify"
      PROVE  /\ request'[u].code \in {FromApp(0), FromApp(panel'[u].setup)}
             /\ request'[u].stage = "ok" => request'[u].code[1] # 0 /\ Holds(request[u].code[1])'
  BY <1>1, <1>3, <1>5, <1>8 DEF FactorInv
<1>9. ASSUME NEW u \in Panels, panel'[u].step = "done"
      PROVE  Holds(panel[u].setup)'
  BY <1>1, <1>3, <1>5, <1>9 DEF FactorInv
<1> QED BY <1>2, <1>4, <1>6, <1>7, <1>8, <1>9 DEF FactorInv

\* A request is sent.
LEMMA AskInv ==
    ASSUME FactorInv, NEW t \in Panels, NEW op \in FactorOps, NEW code \in Nat \X Nat, NEW p \in Pane,
           Ask(t, op, code, p),
           op = "verify" => code \in {FromApp(0), FromApp(p.setup)},
           p.step = "done" => p = panel[t]
    PROVE  FactorInv'
<1> DEFINE c == [op |-> op, code |-> code, claim |-> token.claim, row |-> NoFactor,
                 stage |-> IF token.signed \/ op = "validate" THEN "sent" ELSE "refused"]
<1>1. c \in Asked
  BY NoFactorRow DEF FactorInv, FactorTyped, Asked
<1>2. c.stage \in {"sent", "refused"} /\ c.op = op /\ c.code = code
  OBVIOUS
<1>3. request' = [request EXCEPT ![t] = c] /\ panel' = [panel EXCEPT ![t] = p]
  BY DEF Ask
<1>4. UNCHANGED <<account, minted, token, spent, retired, overlapped>>
  BY DEF Ask
<1>5. ~overlapped /\ p.step = "done" => Holds(p.setup)
  BY DEF FactorInv
<1>6. token' \in [signed : BOOLEAN, claim : BOOLEAN, mark : BOOLEAN]
  BY <1>4 DEF FactorInv, FactorTyped
<1> HIDE DEF c
<1> QED BY <1>1, <1>2, <1>3, <1>4, <1>5, <1>6, PanelMoves

LEMMA AsksInv == ASSUME FactorInv, NEW t \in Panels, Asks(t) PROVE FactorInv'
<1>1. /\ panel[t] \in Pane /\ Loading(t) \in Pane
      /\ Loading(t).step = "loading" /\ Loading(t).setup = panel[t].setup
  BY DEF FactorInv, FactorTyped, Loading, Pane, Steps
<1>2. NoCode \in Nat \X Nat /\ minted \in Nat /\ panel[t].setup \in Nat
  BY DEF NoCode, FactorInv, FactorTyped, Pane
<1>3. CASE Setup(t)
  BY <1>1, <1>2, <1>3, AskInv DEF Setup, FactorOps
<1>4. CASE Verify(t)
  <2>1. PICK s \in {0, panel[t].setup} : Ask(t, "verify", FromApp(s), Loading(t))
    BY <1>4 DEF Verify
  <2>2. FromApp(s) \in Nat \X Nat
    BY <1>2, FromAppCode
  <2>3. FromApp(s) \in {FromApp(0), FromApp(Loading(t).setup)}
    BY <1>1
  <2> QED BY <1>1, <2>1, <2>2, <2>3, AskInv DEF FactorOps
<1>5. CASE Disable(t)
  <2>1. PICK s \in {0, minted} : Ask(t, "disable", FromApp(s), panel[t])
    BY <1>5 DEF Disable
  <2> QED BY <1>1, <1>2, <2>1, FromAppCode, AskInv DEF FactorOps
<1>6. CASE Reset(t)
  BY <1>1, <1>2, <1>6, AskInv DEF Reset, FactorOps
<1>7. CASE UserTypes(t)
  <2>1. PICK s \in {0, minted} : Ask(t, "validate", FromApp(s), panel[t])
    BY <1>7 DEF UserTypes, Types
  <2> QED BY <1>1, <1>2, <2>1, FromAppCode, AskInv DEF FactorOps
<1>8. CASE BackupTypes(t)
  <2>1. PICK s \in 1 .. minted : \E code \in CodesOf(s) : Types(t, code)
    BY <1>8 DEF BackupTypes
  <2>2. PICK code \in CodesOf(s) : Ask(t, "validate", code, panel[t])
    BY <2>1 DEF Types
  <2>3. code \in Nat \X Nat
    BY <1>2, CodeOf
  <2> QED BY <1>1, <2>2, <2>3, AskInv DEF FactorOps
<1> QED BY <1>3, <1>4, <1>5, <1>6, <1>7, <1>8 DEF Asks

\* The answer is lost.
LEMMA LoseAnswerInv == ASSUME FactorInv, NEW t \in Panels, LoseAnswer(t) PROVE FactorInv'
<1> DEFINE c == [request[t] EXCEPT !.stage = "refused"]
<1>1. request[t] \in Asked /\ panel[t] \in Pane
  BY DEF FactorInv, FactorTyped, LoseAnswer
<1>2. c \in Asked
  BY <1>1, AskedFields
<1>3. c.stage = "refused" /\ c.op = request[t].op /\ c.code = request[t].code
  BY <1>1 DEF Asked
<1>4. request' = [request EXCEPT ![t] = c] /\ panel' = [panel EXCEPT ![t] = panel[t]]
  BY DEF LoseAnswer, FactorInv, FactorTyped
<1>5. UNCHANGED <<account, minted, token, spent, retired, overlapped>>
  BY DEF LoseAnswer
<1>6. ~overlapped /\ c.op = "verify" => c.code \in {FromApp(0), FromApp(panel[t].setup)}
  BY <1>3 DEF FactorInv, LoseAnswer
<1>7. ~overlapped /\ panel[t].step = "done" => Holds(panel[t].setup)
  BY DEF FactorInv
<1>8. token' \in [signed : BOOLEAN, claim : BOOLEAN, mark : BOOLEAN]
  BY <1>5 DEF FactorInv, FactorTyped
<1> HIDE DEF c
<1> QED BY <1>1, <1>2, <1>3, <1>4, <1>5, <1>6, <1>7, <1>8, PanelMoves

\* The page moves between its places.
LEMMA ShowInv ==
    ASSUME FactorInv, NEW t \in Panels, NEW p \in Pane, p.step # "done", Show(t, p),
           token' \in [signed : BOOLEAN, claim : BOOLEAN, mark : BOOLEAN]
    PROVE  FactorInv'
<1>1. request' = [request EXCEPT ![t] = NoRequest]
  BY DEF Show, FactorInv, FactorTyped
<1> QED BY <1>1, PanelMoves DEF Show

LEMMA AtPane == \A place \in {"home", "login", "code", "settings"} :
                   At(place) \in Pane /\ At(place).step = "idle"
  BY DEF At, Pane, Steps

LEMMA PlacesInv ==
    ASSUME FactorInv, NEW t \in Panels,
           \/ OpenSettings(t) \/ SignInHere(t) \/ BackToLogin(t) \/ LeaveSettings(t) \/ SignOutHere(t)
    PROVE  FactorInv'
<1>1. token \in [signed : BOOLEAN, claim : BOOLEAN, mark : BOOLEAN]
  BY DEF FactorInv, FactorTyped
<1>2. CASE OpenSettings(t)
  <2>1. PICK on \in {FALSE, token.signed /\ account.enabled} :
             Show(t, [At("settings") EXCEPT !.enabled = on, !.mark = token.mark])
    BY <1>2 DEF OpenSettings
  <2> DEFINE p == [At("settings") EXCEPT !.enabled = on, !.mark = token.mark]
  <2>2. on \in BOOLEAN /\ token.mark \in BOOLEAN
    BY <1>1
  <2>3. p \in Pane /\ p.step = "idle"
    BY <2>2, AtPane DEF At, Pane, Steps
  <2> HIDE DEF p
  <2>4. token' = token /\ Show(t, p)
    BY <1>2, <2>1 DEF OpenSettings, p
  <2> QED BY <1>1, <2>3, <2>4, ShowInv
<1>3. CASE SignInHere(t)
  <2>1. token' \in [signed : BOOLEAN, claim : BOOLEAN, mark : BOOLEAN]
    BY <1>1, <1>3 DEF SignInHere
  <2>2. Show(t, At("code")) \/ Show(t, At("home"))
    BY <1>3 DEF SignInHere
  <2> QED BY <2>1, <2>2, AtPane, ShowInv
<1>4. CASE BackToLogin(t)
  BY <1>1, <1>4, AtPane, ShowInv DEF BackToLogin
<1>5. CASE LeaveSettings(t)
  BY <1>1, <1>5, AtPane, ShowInv DEF LeaveSettings
<1>6. CASE SignOutHere(t)
  <2>1. token' \in [signed : BOOLEAN, claim : BOOLEAN, mark : BOOLEAN]
    BY <1>6 DEF SignOutHere
  <2>2. Show(t, At("login"))
    BY <1>6 DEF SignOutHere
  <2> QED BY <2>1, <2>2, AtPane, ShowInv
<1> QED BY <1>2, <1>3, <1>4, <1>5, <1>6

\* The answer reaches the page: the secret that the page set up is in force, or was.
LEMMA HandleInv == ASSUME FactorInv, NEW t \in Panels, HandleAnswer(t) PROVE FactorInv'
<1> DEFINE q == request[t]
           ok == q.stage = "ok"
           p == Shown(t, ok)
<1>1. q \in Asked /\ panel[t] \in Pane
  BY DEF FactorInv, FactorTyped, HandleAnswer
<1>2. token \in [signed : BOOLEAN, claim : BOOLEAN, mark : BOOLEAN] /\ q.code \in Nat \X Nat /\ q.op \in FactorOps
  BY <1>1 DEF FactorInv, FactorTyped, Asked
<1>3. p \in Pane
  BY <1>1, <1>2, AtPane DEF Shown, Pane, Steps
<1>4. token' \in [signed : BOOLEAN, claim : BOOLEAN, mark : BOOLEAN]
  <2>1. Kept(q) \in [signed : BOOLEAN, claim : BOOLEAN, mark : BOOLEAN]
    BY <1>2 DEF Kept, UsedBackup
  <2> QED BY <1>2, <2>1 DEF HandleAnswer
<1>5. ASSUME ~overlapped, p.step = "done" PROVE Holds(p.setup)
  <2>1. CASE ok /\ q.op = "verify"
    <3>1. p.setup = panel[t].setup
      BY <1>1, <2>1 DEF Shown, Pane
    <3>2. q # NoRequest
      BY DEF HandleAnswer
    <3>3. q.code \in {FromApp(0), FromApp(panel[t].setup)} /\ q.code[1] # 0 /\ Holds(q.code[1])
      BY <1>5, <2>1, <3>2 DEF FactorInv
    <3>4. q.code[1] = panel[t].setup
      BY <1>1, <3>3, FromAppCode DEF Pane
    <3> QED BY <3>1, <3>3, <3>4
  <2>2. CASE ~(ok /\ q.op = "verify")
    <3>1. p.setup = panel[t].setup /\ panel[t].step = "done"
      BY <1>1, <1>2, <1>5, <2>2, AtPane DEF Shown, Pane, FactorOps
    <3> QED BY <1>5, <3>1 DEF FactorInv
  <2> QED BY <2>1, <2>2
<1>6. /\ request' = [request EXCEPT ![t] = NoRequest] /\ panel' = [panel EXCEPT ![t] = p]
      /\ UNCHANGED <<account, minted, spent, retired, overlapped>>
  BY DEF HandleAnswer
<1> HIDE DEF p
<1> QED BY <1>3, <1>4, <1>5, <1>6, PanelMoves

-----------------------------------------------------------------------------
\* The endpoint accepts: what it decides is true of the row that it read.
LEMMA DecisionInv ==
    ASSUME FactorInv, NEW t \in Panels, NEW c \in Asked, NEW fresh \in Nat,
           Accepted(request[t]), request[t] # NoRequest, request[t].stage # "ok",
           fresh = IF c.op = "setup" THEN minted + 1 ELSE minted,
           c.op = request[t].op, c.stage = "read", c.row = account,
           c.code = IF c.op = "setup" THEN FromApp(fresh) ELSE request[t].code,
           request' = [request EXCEPT ![t] = c], minted' = fresh,
           UNCHANGED <<account, token, panel, spent, retired, overlapped>>
    PROVE  FactorInv'
<1>1. \A u \in Panels : request'[u] = IF u = t THEN c ELSE request[u]
  BY DEF FactorInv, FactorTyped
<1>2. FactorTyped'
  BY DEF FactorInv, FactorTyped
<1> SUFFICES ASSUME ~overlapped'
             PROVE  FactorInv'
  BY <1>2 DEF FactorInv
<1>3. ~overlapped /\ CodesStored
  BY DEF FactorInv
<1>4. minted \in Nat /\ account.secret \in Nat /\ fresh >= minted /\ c.op \in FactorOps
  BY DEF FactorInv, FactorTyped, Row, Asked
<1>5. \A d \in spent : d[1] \in Nat /\ d[1] <= minted
  BY <1>3 DEF FactorInv, FactorTyped, CodesStored
<1>6. CodesStored'
  BY <1>3, <1>4, <1>5 DEF CodesStored
<1>7. \A s : Unused(s) => Unused(s)'
  BY <1>4 DEF Unused
<1>8. \A s : Holds(s)' <=> Holds(s)
  BY DEF Holds
<1>9. ASSUME c.op = "setup"
      PROVE  c.code[1] = fresh /\ Unused(fresh)' /\ account.secret # fresh
  <2>1. c.code[1] = fresh
    BY <1>9, FromAppCode
  <2>2. fresh = minted + 1 /\ account.secret <= minted
    BY <1>3, <1>9 DEF CodesStored
  <2>3. account.secret # fresh /\ \A d \in spent : d[1] # fresh
    BY <1>4, <1>5, <2>2
  <2>4. fresh \in 1 .. minted'
    BY <1>4, <2>2
  <2> QED BY <2>1, <2>3, <2>4 DEF Unused
<1>10. Decided(c)'
  <2>1. CASE c.op = "setup"
    <3>1. ~account.enabled
      BY <2>1 DEF Accepted, CanSetup
    <3> QED BY <1>9, <2>1, <3>1 DEF Decided
  <2>2. CASE c.op = "verify"
    BY <1>8, <2>2 DEF Decided, Accepted, CanVerify, OfSecret, Holds
  <2>3. CASE c.op \in {"disable", "reset"}
    BY <2>3 DEF Decided, Accepted, CanDisable, CanReset
  <2>4. CASE c.op = "validate"
    BY <2>4 DEF Decided, Accepted, CanValidate, OfSecret, OfBackup
  <2> QED BY <1>4, <2>1, <2>2, <2>3, <2>4 DEF FactorOps
<1>11. ASSUME NEW u \in Panels, request'[u] # NoRequest, request'[u].stage = "read"
       PROVE  Decided(request[u])'
  <2>1. CASE u = t
    BY <1>1, <1>10, <2>1 DEF Decided, Unused, Holds
  <2>2. CASE u # t
    <3>1. request'[u] = request[u] /\ Decided(request[u])
      BY <1>1, <1>3, <1>11, <2>2 DEF FactorInv
    <3> QED BY <1>7, <1>8, <3>1 DEF Decided
  <2> QED BY <2>1, <2>2
<1>12. ASSUME NEW u \in Panels, Waits(u, "setup", "read"), c.op = "setup"
       PROVE  request[u].code[1] # fresh
  <2>1. Unused(request[u].code[1])
    BY <1>3, <1>12 DEF Waits, FactorInv, Decided
  <2>2. request[u].code[1] \in 1 .. minted
    BY <2>1 DEF Unused
  <2> QED BY <1>4, <1>12, <2>2
<1>13. ASSUME NEW u \in Panels, NEW w \in Panels, u # w,
              Waits(u, "setup", "read")', Waits(w, "setup", "read")'
       PROVE  request'[u].code[1] # request'[w].code[1]
  <2>1. CASE u # t /\ w # t
    BY <1>1, <1>3, <1>13, <2>1 DEF Waits, FactorInv
  <2>2. CASE u = t
    BY <1>1, <1>9, <1>12, <1>13, <2>2 DEF Waits
  <2>3. CASE w = t
    BY <1>1, <1>9, <1>12, <1>13, <2>3 DEF Waits
  <2> QED BY <2>1, <2>2, <2>3
<1>14. ASSUME NEW u \in Panels, request'[u] # NoRequest, request'[u].op = "verify"
       PROVE  /\ request'[u].code \in {FromApp(0), FromApp(panel'[u].setup)}
              /\ request'[u].stage = "ok" => request'[u].code[1] # 0 /\ Holds(request[u].code[1])'
  <2>1. CASE u = t
    BY <1>1, <1>3, <1>14, <2>1 DEF FactorInv
  <2>2. CASE u # t
    BY <1>1, <1>3, <1>8, <1>14, <2>2 DEF FactorInv
  <2> QED BY <2>1, <2>2
<1>15. ASSUME NEW u \in Panels, panel'[u].step = "done"
       PROVE  Holds(panel[u].setup)'
  BY <1>3, <1>8, <1>15 DEF FactorInv
<1> QED BY <1>2, <1>6, <1>11, <1>13, <1>14, <1>15 DEF FactorInv

LEMMA ReadInv == ASSUME FactorInv, NEW t \in Panels, ReadRow(t) PROVE FactorInv'
<1>1. request[t] \in Asked /\ request[t] # NoRequest /\ panel[t] \in Pane
  BY DEF FactorInv, FactorTyped, ReadRow
<1>2. account \in Row /\ minted \in Nat /\ request[t].code \in Nat \X Nat
  BY <1>1 DEF FactorInv, FactorTyped, Asked
<1>3. request[t].stage = "sent"
  BY DEF ReadRow
<1> PICK fresh : fresh = IF request[t].op = "setup" /\ Accepted(request[t]) THEN minted + 1 ELSE minted
  OBVIOUS
<1> PICK code : code = IF request[t].op = "setup" THEN FromApp(fresh) ELSE request[t].code
  OBVIOUS
<1> PICK c : c = [request[t] EXCEPT !.stage = IF Accepted(request[t]) THEN "read" ELSE "refused",
                                    !.code = code,
                                    !.row = IF Accepted(request[t]) THEN account ELSE NoFactor]
  OBVIOUS
<1>4. fresh \in Nat /\ code \in Nat \X Nat
  BY <1>2, FromAppCode
<1>5. c \in Asked
  BY <1>1, <1>2, <1>4, NoFactorRow, AskedFields
<1>6. /\ c.op = request[t].op /\ c.code = code
      /\ c.stage = IF Accepted(request[t]) THEN "read" ELSE "refused"
      /\ c.row = IF Accepted(request[t]) THEN account ELSE NoFactor
  BY <1>1, ReadFields
<1>7. /\ request' = [request EXCEPT ![t] = c]
      /\ minted' = fresh /\ UNCHANGED <<account, token, panel, spent, retired, overlapped>>
  <2>1. /\ request' = [request EXCEPT
              ![t].stage = IF Accepted(request[t]) THEN "read" ELSE "refused",
              ![t].code = code,
              ![t].row = IF Accepted(request[t]) THEN account ELSE NoFactor]
        /\ minted' = fresh /\ UNCHANGED <<account, token, panel, spent, retired, overlapped>>
    BY DEF ReadRow
  <2> QED BY <1>1, <2>1 DEF FactorInv, FactorTyped, Asked
<1>8. CASE Accepted(request[t])
  BY <1>1, <1>3, <1>4, <1>5, <1>6, <1>7, <1>8, DecisionInv
<1>9. CASE ~Accepted(request[t])
  <2>1. minted' = minted /\ panel' = [panel EXCEPT ![t] = panel[t]]
    BY <1>7, <1>9 DEF FactorInv, FactorTyped
  <2>2. ~overlapped /\ panel[t].step = "done" => Holds(panel[t].setup)
    BY DEF FactorInv
  <2>3. ~overlapped /\ c.op = "verify" => c.code \in {FromApp(0), FromApp(panel[t].setup)}
    BY <1>1, <1>6 DEF FactorInv
  <2>4. c.stage = "refused"
    BY <1>6, <1>9
  <2>5. token' \in [signed : BOOLEAN, claim : BOOLEAN, mark : BOOLEAN]
    BY <1>7 DEF FactorInv, FactorTyped
  <2> QED BY <1>1, <1>5, <1>7, <2>1, <2>2, <2>3, <2>4, <2>5, PanelMoves
<1> QED BY <1>8, <1>9

-----------------------------------------------------------------------------
(* The endpoint writes.  Unless another request has written since it read, *)
(* the row either stays as it is or becomes what the endpoint made of it.  *)

LEMMA RowFields ==
    ASSUME NEW r \in Row, NEW s \in Row
    PROVE  (r.enabled = s.enabled /\ r.secret = s.secret /\ r.codes = s.codes) => r = s
  BY DEF Row

LEMMA MadeRow == \A q \in Asked : Made(q) \in Row
<1> TAKE q \in Asked
<1>1. q.row \in Row /\ q.code \in Nat \X Nat
  BY DEF Asked
<1>2. q.code[1] \in Nat /\ CodesOf(q.code[1]) \subseteq Nat \X Nat
  BY <1>1, CodeOf
<1> QED BY <1>1, <1>2, NoFactorRow DEF Made, Row

LEMMA ChangedRow ==
    ASSUME NEW q \in Asked, account \in Row
    PROVE  /\ Changed(q) \in Row
           /\ Made(q) = q.row => Changed(q) = account
           /\ account = q.row => Changed(q) = Made(q)
<1> DEFINE m == Made(q)
<1>1. m \in Row /\ q.row \in Row
  BY MadeRow DEF Asked
<1> HIDE DEF m
<1>2. DOMAIN account = {"enabled", "secret", "codes"}
  BY DEF Row
<1>3. Changed(q) = [k \in {"enabled", "secret", "codes"} |->
                       IF m[k] = q.row[k] THEN account[k] ELSE m[k]]
  BY <1>2 DEF Changed, m
<1>4. Changed(q) = [enabled |-> IF m.enabled = q.row.enabled THEN account.enabled ELSE m.enabled,
                    secret |-> IF m.secret = q.row.secret THEN account.secret ELSE m.secret,
                    codes |-> IF m.codes = q.row.codes THEN account.codes ELSE m.codes]
  BY <1>3
<1>5. Changed(q) \in Row
  BY <1>1, <1>4 DEF Row
<1>6. m = q.row => Changed(q) = account
  BY <1>4, <1>5, RowFields
<1>7. account = q.row => Changed(q) = m
  BY <1>1, <1>4, <1>5, RowFields
<1> QED BY <1>5, <1>6, <1>7 DEF m

\* What a write does to the row and its history, case by case.
Writes(q) ==
    \/ /\ q.op = "setup" /\ ~account.enabled /\ Unused(q.code[1])
       /\ account' = [account EXCEPT !.secret = q.code[1], !.codes = CodesOf(q.code[1])]
       /\ UNCHANGED <<spent, retired>>
    \/ /\ q.op = "verify" /\ q.code[1] # 0 /\ UNCHANGED <<spent, retired>>
       /\ q.code[1] \in retired \/ (account'.enabled /\ account'.secret = q.code[1])
       /\ \/ account' = account
          \/ account' = [account EXCEPT !.enabled = TRUE] /\ account.secret # 0
    \/ /\ q.op \in {"disable", "reset"} /\ account' = NoFactor
       /\ spent' = spent /\ retired' = retired \union {account.secret}
    \/ /\ q.op = "validate" /\ retired' = retired
       /\ \/ account' = account /\ spent' = spent
          \/ account' = [account EXCEPT !.codes = @ \ {q.code}] /\ q.code[2] = 0 /\ spent' = spent
          \/ /\ account' = [account EXCEPT !.codes = @ \ {q.code}]
             /\ q.code \in account.codes /\ spent' = spent \union {q.code}

LEMMA WriteCases ==
    ASSUME FactorInv, NEW t \in Panels, CommitRow(t), ~overlapped'
    PROVE  Writes(request[t])
<1> PICK q : q = request[t]
  OBVIOUS
<1>1. q \in Asked /\ q # NoRequest /\ q.stage = "read" /\ account \in Row
  BY DEF FactorInv, FactorTyped, CommitRow
<1>2. q.row \in Row /\ q.code \in Nat \X Nat /\ q.op \in FactorOps
  BY <1>1 DEF Asked
<1>3. /\ account' = Changed(q) /\ ~overlapped /\ (Made(q) = q.row \/ account = q.row)
      /\ spent' = (IF q.op = "validate" /\ UsedBackup(q) THEN spent \union {q.code} ELSE spent)
      /\ retired' = (IF q.op \in {"disable", "reset"} THEN retired \union {account.secret} ELSE retired)
  BY DEF CommitRow
<1>4. Decided(q)
  BY <1>1, <1>3 DEF FactorInv
<1>5. (Made(q) = q.row /\ account' = account) \/ (account = q.row /\ account' = Made(q))
  BY <1>1, <1>3, ChangedRow
<1>6. CASE q.op = "setup"
  <2>1. Made(q) = [q.row EXCEPT !.secret = q.code[1], !.codes = CodesOf(q.code[1])]
    BY <1>6 DEF Made
  <2>2. ~q.row.enabled /\ q.row.secret # q.code[1] /\ Unused(q.code[1])
    BY <1>4, <1>6 DEF Decided
  <2>3. Made(q) # q.row
    BY <1>2, <2>1, <2>2 DEF Row
  <2> QED BY <1>3, <1>5, <1>6, <2>1, <2>2, <2>3 DEF Writes
<1>7. CASE q.op = "verify"
  <2>1. Made(q) = [q.row EXCEPT !.enabled = TRUE]
    BY <1>7 DEF Made
  <2>2. q.row.secret # 0 /\ q.code[1] = q.row.secret /\ (q.row.enabled => Holds(q.row.secret))
    BY <1>2, <1>4, <1>7, FromAppCode DEF Decided, Row
  <2>3. UNCHANGED <<spent, retired>>
    BY <1>3, <1>7
  <2>4. CASE Made(q) = q.row /\ account' = account
    <3>1. q.row.enabled
      BY <1>2, <2>1, <2>4 DEF Row
    <3>2. q.code[1] \in retired \/ (account'.enabled /\ account'.secret = q.code[1])
      BY <2>2, <2>4, <3>1 DEF Holds
    <3> QED BY <1>7, <2>2, <2>3, <2>4, <3>2 DEF Writes
  <2>5. CASE account = q.row /\ account' = Made(q)
    <3>1. account'.enabled /\ account'.secret = q.code[1]
      BY <1>2, <2>1, <2>2, <2>5 DEF Row
    <3> QED BY <1>7, <2>1, <2>2, <2>3, <2>5, <3>1 DEF Writes
  <2> QED BY <1>5, <2>4, <2>5
<1>8. CASE q.op \in {"disable", "reset"}
  <2>1. Made(q) = NoFactor /\ q.row.enabled
    BY <1>4, <1>8 DEF Made, Decided
  <2>2. Made(q) # q.row
    BY <2>1 DEF NoFactor
  <2> QED BY <1>3, <1>5, <1>8, <2>1, <2>2 DEF Writes
<1>9. CASE q.op = "validate"
  <2>1. Made(q) = [q.row EXCEPT !.codes = @ \ {q.code}]
    BY <1>9 DEF Made
  <2>2. (q.row.secret # 0 /\ q.code = FromApp(q.row.secret)) \/ q.code \in q.row.codes
    BY <1>4, <1>9 DEF Decided
  <2>3. CASE q.code[2] = 0
    BY <1>3, <1>5, <1>9, <2>1, <2>3 DEF Writes, UsedBackup
  <2>4. CASE q.code[2] # 0
    <3>1. q.code \in q.row.codes
      BY <1>2, <2>2, <2>4, FromAppCode DEF Row
    <3>2. q.code \notin Made(q).codes
      BY <1>2, <2>1 DEF Row
    <3> QED BY <1>3, <1>5, <1>9, <2>1, <2>4, <3>1, <3>2 DEF Writes, UsedBackup
  <2> QED BY <2>3, <2>4
<1> QED BY <1>2, <1>6, <1>7, <1>8, <1>9 DEF FactorOps

\* A write keeps the row's codes those of its secret, all but the spent ones.
LEMMA WriteStores ==
    ASSUME NEW q \in Asked, Writes(q), FactorTyped, CodesStored, minted' = minted
    PROVE  /\ CodesStored'
           /\ \A s \in Nat : Holds(s) => Holds(s)'
           /\ \A s \in Nat : Unused(s) /\ (q.op = "setup" => s # q.code[1]) => Unused(s)'
<1>1. account \in Row /\ minted \in Nat /\ spent \subseteq Nat \X Nat /\ q.code \in Nat \X Nat
  BY DEF FactorTyped, Asked
<1>2. account.secret \in Nat /\ q.op \in FactorOps
  BY <1>1 DEF Row, Asked
<1>3. CASE q.op = "setup"
  <2>1. /\ ~account.enabled /\ Unused(q.code[1]) /\ UNCHANGED <<spent, retired>>
        /\ account' = [account EXCEPT !.secret = q.code[1], !.codes = CodesOf(q.code[1])]
    BY <1>3 DEF Writes
  <2>2. account'.secret = q.code[1] /\ account'.codes = CodesOf(q.code[1]) /\ ~account'.enabled
    BY <1>1, <2>1 DEF Row
  <2>3. q.code[1] \in 1 .. minted /\ \A d \in spent : d[1] # q.code[1]
    BY <2>1 DEF Unused
  <2>4. CodesOf(q.code[1]) = CodesOf(q.code[1]) \ spent
    BY <1>1, <2>3, CodeOf
  <2>5. CodesStored'
    BY <1>1, <2>1, <2>2, <2>3, <2>4 DEF CodesStored
  <2> QED BY <1>3, <2>1, <2>2, <2>5 DEF Holds, Unused
<1>4. CASE q.op = "verify"
  <2>1. /\ UNCHANGED <<spent, retired>> /\ account'.secret = account.secret
        /\ account'.codes = account.codes /\ (account.enabled => account'.enabled)
        /\ account'.enabled => account'.secret # 0
    BY <1>1, <1>4 DEF Writes, Row, CodesStored
  <2> QED BY <1>4, <2>1 DEF CodesStored, Holds, Unused
<1>5. CASE q.op \in {"disable", "reset"}
  <2>1. account' = NoFactor /\ spent' = spent /\ retired' = retired \union {account.secret}
    BY <1>5 DEF Writes
  <2>2. account'.secret = 0 /\ ~account'.enabled /\ account'.codes = {}
    BY <2>1 DEF NoFactor
  <2>3. CodesStored'
    BY <1>1, <2>1, <2>2 DEF CodesStored
  <2>4. \A s \in Nat : Holds(s) => Holds(s)'
    BY <2>1 DEF Holds
  <2>5. \A s \in Nat : Unused(s) => Unused(s)'
    BY <1>1, <2>1, <2>2 DEF Unused
  <2> QED BY <2>3, <2>4, <2>5
<1>6. CASE q.op = "validate"
  <2>1. retired' = retired /\ account'.secret = account.secret /\ account'.enabled = account.enabled
    BY <1>1, <1>6 DEF Writes, Row
  <2>2. \A d \in account.codes : account.secret # 0 /\ d[1] = account.secret /\ d[2] # 0
    BY <1>2, CodeOf DEF CodesStored
  <2>3. CASE spent' = spent
    <3>1. q.code \notin account.codes \/ spent' # spent \union {q.code}
      BY <2>2, <2>3 DEF CodesStored
    <3>2. \/ account' = account
          \/ account' = [account EXCEPT !.codes = @ \ {q.code}] /\ q.code \notin account.codes
      BY <1>6, <2>2, <3>1 DEF Writes
    <3>3. account'.codes = account.codes
      BY <1>1, <3>2 DEF Row
    <3> QED BY <2>1, <2>3, <3>3 DEF CodesStored, Holds, Unused
  <2>4. CASE q.code \in account.codes /\ spent' = spent \union {q.code}
    <3>1. CASE q.code \in spent
      <4>1. spent' = spent
        BY <2>4, <3>1
      <4> QED BY <2>3, <4>1
    <3>2. CASE q.code \notin spent
      <4>1. account' = [account EXCEPT !.codes = @ \ {q.code}]
        BY <1>6, <2>4, <3>2 DEF Writes
      <4>2. account'.codes = account.codes \ {q.code}
        BY <1>1, <4>1 DEF Row
      <4>3. q.code[1] = account.secret /\ account.secret # 0
        BY <2>2, <2>4
      <4>4. CodesStored'
        BY <1>1, <2>1, <2>4, <4>2, <4>3 DEF CodesStored
      <4> QED BY <2>1, <2>4, <4>3, <4>4 DEF Holds, Unused
    <3> QED BY <3>1, <3>2
  <2> QED BY <1>6, <2>3, <2>4 DEF Writes
<1> QED BY <1>2, <1>3, <1>4, <1>5, <1>6 DEF FactorOps

LEMMA CommitInv == ASSUME FactorInv, NEW t \in Panels, CommitRow(t) PROVE FactorInv'
<1> PICK c : c = [request[t] EXCEPT !.stage = "ok", !.row = NoFactor]
  OBVIOUS
<1> PICK q : q = request[t]
  OBVIOUS
<1>1. q \in Asked /\ q # NoRequest /\ q.stage = "read" /\ account \in Row
  BY DEF FactorInv, FactorTyped, CommitRow
<1>2. c \in Asked /\ c.op = q.op /\ c.code = q.code /\ c.stage = "ok"
  <2>1. c = [q EXCEPT !.stage = "ok", !.row = NoFactor]
    OBVIOUS
  <2>2. c \in Asked
    BY <1>1, <2>1, NoFactorRow DEF Asked
  <2>3. c.op = q.op /\ c.code = q.code /\ c.stage = "ok"
    BY <1>1, <2>1 DEF Asked
  <2> QED BY <2>2, <2>3
<1>3. /\ request' = [request EXCEPT ![t] = c]
      /\ account' = Changed(q) /\ UNCHANGED <<minted, token, panel>>
      /\ spent' = (IF q.op = "validate" /\ UsedBackup(q) THEN spent \union {q.code} ELSE spent)
  <2>1. request' = [request EXCEPT ![t].stage = "ok", ![t].row = NoFactor]
    BY DEF CommitRow
  <2> QED BY <2>1 DEF CommitRow, FactorInv, FactorTyped
<1>4. \A u \in Panels : request'[u] = IF u = t THEN c ELSE request[u]
  BY <1>3 DEF FactorInv, FactorTyped
<1>5. FactorTyped'
  <2>1. account' \in Row /\ spent' \subseteq Nat \X Nat
    BY <1>1, <1>3, ChangedRow DEF Asked, FactorInv, FactorTyped
  <2>2. overlapped' \in BOOLEAN
    BY DEF CommitRow, FactorInv, FactorTyped
  <2> QED BY <1>2, <1>3, <2>1, <2>2 DEF FactorInv, FactorTyped
<1> SUFFICES ASSUME ~overlapped'
             PROVE  FactorInv'
  BY <1>5 DEF FactorInv
<1>6. Writes(q) /\ ~overlapped
  BY WriteCases DEF CommitRow
<1>7. FactorTyped /\ CodesStored
  BY <1>6 DEF FactorInv
<1>8. /\ CodesStored'
      /\ \A s \in Nat : Holds(s) => Holds(s)'
      /\ \A s \in Nat : Unused(s) /\ (q.op = "setup" => s # q.code[1]) => Unused(s)'
  BY <1>1, <1>3, <1>6, <1>7, WriteStores
<1>9. ASSUME NEW u \in Panels, request'[u] # NoRequest, request'[u].stage = "read"
      PROVE  Decided(request[u])'
  <2>1. u # t /\ request'[u] = request[u] /\ Decided(request[u])
    BY <1>2, <1>4, <1>6, <1>9 DEF FactorInv
  <2> PICK r : r = request[u]
    OBVIOUS
  <2>2. r \in Asked /\ r.row.secret \in Nat /\ r.code[1] \in Nat
    BY <1>7, <1>9, <2>1 DEF FactorTyped, Asked, Row
  <2>3. r.op = "setup" /\ q.op = "setup" => r.code[1] # q.code[1]
    BY <1>1, <1>6, <1>9, <2>1 DEF FactorInv, Waits
  <2>4. r.op = "setup" => Unused(r.code[1])'
    BY <1>8, <2>1, <2>2, <2>3 DEF Decided
  <2>5. Holds(r.row.secret) => Holds(r.row.secret)'
    BY <1>8, <2>2
  <2> QED BY <2>1, <2>4, <2>5 DEF Decided
<1>10. ASSUME NEW u \in Panels, NEW w \in Panels, u # w,
              Waits(u, "setup", "read")', Waits(w, "setup", "read")'
       PROVE  request'[u].code[1] # request'[w].code[1]
  <2>1. u # t /\ w # t
    BY <1>2, <1>4, <1>10 DEF Waits
  <2> QED BY <1>4, <1>6, <1>10, <2>1 DEF Waits, FactorInv
<1>11. ASSUME NEW u \in Panels, request'[u] # NoRequest, request'[u].op = "verify"
       PROVE  /\ request'[u].code \in {FromApp(0), FromApp(panel'[u].setup)}
              /\ request'[u].stage = "ok" => request'[u].code[1] # 0 /\ Holds(request[u].code[1])'
  <2>1. CASE u = t
    <3>1. q.code \in {FromApp(0), FromApp(panel[t].setup)}
      <4>1. request[t] # NoRequest /\ request[t].op = "verify"
        BY <1>1, <1>2, <1>4, <1>11, <2>1
      <4>2. request[t].code \in {FromApp(0), FromApp(panel[t].setup)}
        BY <1>6, <4>1 DEF FactorInv
      <4> QED BY <4>2
    <3>2. q.code[1] # 0 /\ (q.code[1] \in retired' \/ (account'.enabled /\ account'.secret = q.code[1]))
      BY <1>2, <1>4, <1>6, <1>11, <2>1 DEF Writes
    <3> QED BY <1>2, <1>3, <1>4, <2>1, <3>1, <3>2 DEF Holds
  <2>2. CASE u # t
    <3>1. /\ request'[u] = request[u] /\ request[u].code \in {FromApp(0), FromApp(panel[u].setup)}
          /\ request[u].stage = "ok" => request[u].code[1] # 0 /\ Holds(request[u].code[1])
      BY <1>4, <1>6, <1>11, <2>2 DEF FactorInv
    <3> PICK s : s = request[u].code[1]
      OBVIOUS
    <3>2. s \in Nat
      BY <1>7, <1>11, <3>1 DEF FactorTyped, Asked
    <3>3. request'[u].stage = "ok" => Holds(s)'
      BY <1>8, <3>1, <3>2
    <3> QED BY <1>3, <3>1, <3>3 DEF Holds
  <2> QED BY <2>1, <2>2
<1>12. ASSUME NEW u \in Panels, panel'[u].step = "done"
       PROVE  Holds(panel[u].setup)'
  <2> PICK s : s = panel[u].setup
    OBVIOUS
  <2>1. s \in Nat /\ Holds(s)
    BY <1>3, <1>6, <1>7, <1>12 DEF FactorInv, FactorTyped, Pane
  <2>2. Holds(s)'
    BY <1>8, <2>1
  <2> QED BY <1>3, <2>2 DEF Holds
<1> QED BY <1>5, <1>8, <1>9, <1>10, <1>11, <1>12 DEF FactorInv

-----------------------------------------------------------------------------

LEMMA RenewedInv == ASSUME FactorInv, TokenRenewed PROVE FactorInv'
<1>1. FactorTyped'
  BY DEF FactorInv, FactorTyped, TokenRenewed
<1> QED BY <1>1 DEF FactorInv, TokenRenewed, CodesStored, Decided, Unused, Holds, Waits

LEMMA FactorStep == FactorInv /\ [FactorNext]_factorVars => FactorInv'
<1> SUFFICES ASSUME FactorInv, [FactorNext]_factorVars
             PROVE  FactorInv'
  OBVIOUS
<1>1. CASE TokenRenewed
  BY <1>1, RenewedInv
<1>2. ASSUME NEW t \in Panels,
             \/ Asks(t) \/ ReadRow(t) \/ CommitRow(t) \/ LoseAnswer(t) \/ HandleAnswer(t)
             \/ OpenSettings(t) \/ SignInHere(t) \/ BackToLogin(t) \/ LeaveSettings(t)
             \/ SignOutHere(t)
      PROVE  FactorInv'
  BY <1>2, AsksInv, ReadInv, CommitInv, LoseAnswerInv, HandleInv, PlacesInv
<1>3. CASE UNCHANGED factorVars
  BY <1>3 DEF factorVars, FactorInv, FactorTyped, CodesStored, Decided, Unused, Holds, Waits
<1> QED BY <1>1, <1>2, <1>3 DEF FactorNext

\* The row, the requests under way and the panels agree as FactorInv says.
THEOREM FactorInvCorrect == FactorSpec => []FactorInv
<1> QED BY FactorStart, FactorStep, PTL DEF FactorSpec

LEMMA CodesAgree == FactorInv => ShownCodesStored
<1> SUFFICES ASSUME FactorInv, NEW t \in Panels, panel[t].step = "done", account.enabled,
                    panel[t].setup \notin retired, ~overlapped
             PROVE  /\ account.secret = panel[t].setup
                    /\ account.codes = CodesOf(panel[t].setup) \ spent
  BY DEF ShownCodesStored
<1>1. account.secret = panel[t].setup
  BY DEF FactorInv, Holds
<1> QED BY <1>1 DEF FactorInv, CodesStored

(* The backup codes that a panel shows when it has turned the factor on    *)
(* are the ones the server takes, all but those spent since                *)
(* (TOTPSettings.js:46, routers/auth.py:286), in every behaviour until two *)
(* requests change the row at once (`overlapped`): a setup that has read   *)
(* the row before another tab's verification commits replaces the codes.   *)
THEOREM CodesShownAreStored == FactorSpec => []ShownCodesStored
  BY CodesAgree, FactorInvCorrect, PTL

-----------------------------------------------------------------------------
(* The types of the second factor: whatever the panels show, the requests  *)
(* carry and the row holds is of secrets that were made by then.           *)

CodeSoFar(m) == (0 .. m) \X (0 .. BackupCodes)
RowSoFar(r, m) == r.secret <= m /\ r.codes \subseteq CodeSoFar(m)
AskedSoFar(q, m) == q # NoRequest => q.code \in CodeSoFar(m) /\ RowSoFar(q.row, m)
MadeSoFar ==
    /\ minted <= MaxSecrets
    /\ RowSoFar(account, minted)
    /\ \A t \in Panels : panel[t].setup <= minted /\ AskedSoFar(request[t], minted)
    /\ spent \subseteq CodeSoFar(minted) /\ retired \subseteq 0 .. minted /\ reused \in BOOLEAN

LEMMA SoFarGrows ==
    ASSUME NEW m \in Nat, NEW n \in Nat, m <= n
    PROVE  /\ CodeSoFar(m) \subseteq CodeSoFar(n)
           /\ \A r \in Row : RowSoFar(r, m) => RowSoFar(r, n)
           /\ \A q \in Asked : AskedSoFar(q, m) => AskedSoFar(q, n)
<1>1. CodeSoFar(m) \subseteq CodeSoFar(n)
  BY DEF CodeSoFar
<1>2. \A r \in Row : RowSoFar(r, m) => RowSoFar(r, n)
  BY <1>1 DEF RowSoFar, Row
<1>3. \A q \in Asked : AskedSoFar(q, m) => AskedSoFar(q, n)
  BY <1>1, <1>2 DEF AskedSoFar, Asked
<1> QED BY <1>1, <1>2, <1>3

LEMMA CodesSoFar ==
    ASSUME NEW m \in Nat, NEW s \in 0 .. m
    PROVE  /\ FromApp(s) \in CodeSoFar(m) /\ CodesOf(s) \subseteq CodeSoFar(m)
           /\ RowSoFar(NoFactor, m)
  BY TwoFactorAssumption DEF FromApp, CodesOf, CodeSoFar, RowSoFar, NoFactor

\* One tab's panel and request move on.
LEMMA PanelSoFar ==
    ASSUME FactorTyped, MadeSoFar, NEW t \in Panels, NEW c, NEW p,
           request' = [request EXCEPT ![t] = c], panel' = [panel EXCEPT ![t] = p],
           UNCHANGED <<account, minted, spent, reused, retired>>,
           AskedSoFar(c, minted), p.setup <= minted
    PROVE  MadeSoFar'
<1>1. /\ \A u \in Panels : request'[u] = IF u = t THEN c ELSE request[u]
      /\ \A u \in Panels : panel'[u] = IF u = t THEN p ELSE panel[u]
  BY DEF FactorTyped
<1>2. RowSoFar(account, minted)'
  BY DEF MadeSoFar, RowSoFar, CodeSoFar
<1>3. ASSUME NEW u \in Panels PROVE (panel[u].setup <= minted /\ AskedSoFar(request[u], minted))'
  BY <1>1 DEF MadeSoFar, AskedSoFar, RowSoFar, CodeSoFar
<1>4. (spent \subseteq CodeSoFar(minted))'
  BY DEF MadeSoFar, CodeSoFar
<1> QED BY <1>1, <1>2, <1>3, <1>4 DEF MadeSoFar

\* What is asked for is of a secret made so far.
LEMMA AskSoFar ==
    ASSUME FactorTyped, MadeSoFar, NEW t \in Panels, NEW op, NEW code, NEW p, Ask(t, op, code, p),
           code \in CodeSoFar(minted), p.setup <= minted
    PROVE  MadeSoFar'
<1> DEFINE c == [op |-> op, code |-> code, claim |-> token.claim, row |-> NoFactor,
                 stage |-> IF token.signed \/ op = "validate" THEN "sent" ELSE "refused"]
<1>1. minted \in Nat
  BY DEF FactorTyped
<1>2. c.code = code /\ c.row = NoFactor
  OBVIOUS
<1>3. /\ request' = [request EXCEPT ![t] = c] /\ panel' = [panel EXCEPT ![t] = p]
      /\ UNCHANGED <<account, minted, spent, reused, retired>>
  BY DEF Ask
<1> HIDE DEF c
<1>4. AskedSoFar(c, minted)
  BY <1>1, <1>2, CodesSoFar DEF AskedSoFar
<1> QED BY <1>3, <1>4, PanelSoFar

LEMMA AsksSoFar == ASSUME FactorTyped, MadeSoFar, NEW t \in Panels, Asks(t) PROVE MadeSoFar'
<1>1. /\ minted \in Nat /\ panel[t] \in Pane /\ panel[t].setup \in 0 .. minted
      /\ Loading(t).setup = panel[t].setup
  BY DEF FactorTyped, MadeSoFar, Pane, Loading
<1>2. NoCode \in CodeSoFar(minted)
  BY <1>1, TwoFactorAssumption DEF NoCode, CodeSoFar
<1>3. CASE Setup(t) \/ Reset(t)
  BY <1>1, <1>2, <1>3, AskSoFar DEF Setup, Reset
<1>4. CASE Verify(t)
  <2>1. PICK s \in {0, panel[t].setup} : Ask(t, "verify", FromApp(s), Loading(t))
    BY <1>4 DEF Verify
  <2>2. FromApp(s) \in CodeSoFar(minted)
    BY <1>1, CodesSoFar
  <2> QED BY <1>1, <2>1, <2>2, AskSoFar
<1>5. CASE Disable(t) \/ UserTypes(t)
  <2>1. PICK s \in {0, minted} : \E op : Ask(t, op, FromApp(s), panel[t])
    BY <1>5 DEF Disable, UserTypes, Types
  <2>2. FromApp(s) \in CodeSoFar(minted)
    BY <1>1, CodesSoFar
  <2> QED BY <1>1, <2>1, <2>2, AskSoFar
<1>6. CASE BackupTypes(t)
  <2>1. PICK s \in 1 .. minted : \E code \in CodesOf(s) : Types(t, code)
    BY <1>6 DEF BackupTypes
  <2>2. PICK code \in CodesOf(s) : Ask(t, "validate", code, panel[t])
    BY <2>1 DEF Types
  <2>3. code \in CodeSoFar(minted)
    BY <1>1, CodesSoFar
  <2> QED BY <1>1, <2>2, <2>3, AskSoFar
<1> QED BY <1>3, <1>4, <1>5, <1>6 DEF Asks

\* The endpoint reads the row; a setup makes the next secret.
LEMMA ReadSoFar == ASSUME FactorTyped, MadeSoFar, NEW t \in Panels, ReadRow(t) PROVE MadeSoFar'
<1> PICK fresh : fresh = IF request[t].op = "setup" /\ Accepted(request[t]) THEN minted + 1 ELSE minted
  OBVIOUS
<1> PICK code : code = IF request[t].op = "setup" THEN FromApp(fresh) ELSE request[t].code
  OBVIOUS
<1> PICK c : c = [request[t] EXCEPT !.stage = IF Accepted(request[t]) THEN "read" ELSE "refused",
                                    !.code = code,
                                    !.row = IF Accepted(request[t]) THEN account ELSE NoFactor]
  OBVIOUS
<1>1. /\ request[t] \in Asked /\ request[t] # NoRequest /\ account \in Row /\ minted \in Nat
      /\ fresh \in Nat /\ minted <= fresh
  BY DEF FactorTyped, ReadRow
<1>2. c.code = code /\ c.row = IF Accepted(request[t]) THEN account ELSE NoFactor
  BY <1>1, ReadFields
<1>3. /\ request' = [request EXCEPT ![t] = c] /\ minted' = fresh /\ fresh <= MaxSecrets
      /\ UNCHANGED <<account, panel, spent, reused, retired>>
  <2>1. /\ request' = [request EXCEPT
              ![t].stage = IF Accepted(request[t]) THEN "read" ELSE "refused",
              ![t].code = code,
              ![t].row = IF Accepted(request[t]) THEN account ELSE NoFactor]
        /\ minted' = fresh /\ fresh <= MaxSecrets
        /\ UNCHANGED <<account, panel, spent, reused, retired>>
    BY DEF ReadRow
  <2> QED BY <1>1, <2>1 DEF FactorTyped, Asked
<1>4. \A u \in Panels : request'[u] = IF u = t THEN c ELSE request[u]
  BY <1>3 DEF FactorTyped
<1>5. /\ RowSoFar(account, fresh) /\ RowSoFar(NoFactor, fresh)
      /\ CodeSoFar(minted) \subseteq CodeSoFar(fresh)
  BY <1>1, SoFarGrows, CodesSoFar DEF MadeSoFar
<1>6. code \in CodeSoFar(fresh)
  <2>1. request[t].code \in CodeSoFar(minted)
    BY <1>1 DEF MadeSoFar, AskedSoFar
  <2> QED BY <1>1, <1>5, <2>1, CodesSoFar
<1>7. AskedSoFar(c, fresh)
  BY <1>2, <1>5, <1>6 DEF AskedSoFar
<1>8. ASSUME NEW u \in Panels
      PROVE  panel'[u].setup <= fresh /\ AskedSoFar(request'[u], fresh)
  <2>1. panel[u].setup \in Nat /\ panel[u].setup <= minted
    BY DEF FactorTyped, Pane, MadeSoFar
  <2>2. AskedSoFar(request[u], fresh)
    <3>1. CASE request[u] = NoRequest
      BY <3>1 DEF AskedSoFar
    <3>2. CASE request[u] \in Asked
      BY <1>1, <3>2, SoFarGrows DEF MadeSoFar
    <3> QED BY <3>1, <3>2 DEF FactorTyped
  <2> QED BY <1>1, <1>3, <1>4, <1>7, <2>1, <2>2
<1>9. retired \subseteq 0 .. fresh
  BY <1>1 DEF MadeSoFar
<1> QED BY <1>3, <1>5, <1>8, <1>9 DEF MadeSoFar, RowSoFar, AskedSoFar, CodeSoFar

\* The endpoint writes what it made of the row, or leaves the column.
LEMMA CommitSoFar == ASSUME FactorTyped, MadeSoFar, NEW t \in Panels, CommitRow(t) PROVE MadeSoFar'
<1> PICK q : q = request[t]
  OBVIOUS
<1> PICK c : c = [q EXCEPT !.stage = "ok", !.row = NoFactor]
  OBVIOUS
<1>1. q \in Asked /\ q # NoRequest /\ account \in Row /\ minted \in Nat
  BY DEF FactorTyped, CommitRow
<1>2. /\ request' = [request EXCEPT ![t] = c] /\ account' = Changed(q)
      /\ UNCHANGED <<minted, panel>> /\ reused' \in BOOLEAN
      /\ spent' \subseteq spent \union {q.code} /\ retired' \subseteq retired \union {account.secret}
  <2>1. request' = [request EXCEPT ![t].stage = "ok", ![t].row = NoFactor]
    BY DEF CommitRow
  <2> QED BY <2>1 DEF CommitRow, FactorTyped, MadeSoFar
<1>3. c.code = q.code /\ c.row = NoFactor
  BY <1>1 DEF Asked
<1>4. /\ q.code \in CodeSoFar(minted) /\ RowSoFar(q.row, minted) /\ RowSoFar(account, minted)
      /\ q.row \in Row /\ q.code[1] \in 0 .. minted
  BY <1>1 DEF MadeSoFar, AskedSoFar, CodeSoFar, Asked
<1>5. RowSoFar(Made(q), minted)
  <2>1. CodesOf(q.code[1]) \subseteq CodeSoFar(minted) /\ RowSoFar(NoFactor, minted)
    BY <1>1, <1>4, CodesSoFar
  <2> QED BY <1>4, <2>1 DEF Made, RowSoFar, Row
<1>6. RowSoFar(Changed(q), minted)
  <2> PICK m : m = Made(q)
    OBVIOUS
  <2>1. Changed(q) = [k \in {"enabled", "secret", "codes"} |->
                         IF m[k] = q.row[k] THEN account[k] ELSE m[k]]
    BY <1>1 DEF Changed, Row
  <2>2. Changed(q).secret \in {account.secret, m.secret} /\ Changed(q).codes \in {account.codes, m.codes}
    BY <2>1
  <2> QED BY <1>4, <1>5, <2>2 DEF RowSoFar
<1>7. \A u \in Panels : request'[u] = IF u = t THEN c ELSE request[u]
  BY <1>2 DEF FactorTyped
<1>8. AskedSoFar(c, minted)
  BY <1>1, <1>3, <1>4, CodesSoFar DEF AskedSoFar
<1>9. account.secret \in 0 .. minted
  BY <1>1, <1>4 DEF Row, RowSoFar
<1> QED BY <1>2, <1>4, <1>6, <1>7, <1>8, <1>9 DEF MadeSoFar, RowSoFar, AskedSoFar, CodeSoFar

\* The answer is lost, or reaches the page: a setup shows the secret that was made.
LEMMA AnswerSoFar ==
    ASSUME FactorTyped, MadeSoFar, NEW t \in Panels, LoseAnswer(t) \/ HandleAnswer(t)
    PROVE  MadeSoFar'
<1>1. /\ request[t] \in Asked /\ panel[t] \in Pane /\ panel[t].setup <= minted /\ minted \in Nat
      /\ AskedSoFar(request[t], minted)
  BY DEF FactorTyped, MadeSoFar, LoseAnswer, HandleAnswer
<1>2. CASE LoseAnswer(t)
  <2> PICK c : c = [request[t] EXCEPT !.stage = "refused"]
    OBVIOUS
  <2>1. c.code = request[t].code /\ c.row = request[t].row
    BY <1>1 DEF Asked
  <2>2. AskedSoFar(c, minted)
    BY <1>1, <1>2, <2>1 DEF AskedSoFar, LoseAnswer
  <2>3. /\ request' = [request EXCEPT ![t] = c] /\ panel' = [panel EXCEPT ![t] = panel[t]]
        /\ UNCHANGED <<account, minted, spent, reused, retired>>
    BY <1>2 DEF LoseAnswer, FactorTyped
  <2> QED BY <1>1, <2>2, <2>3, PanelSoFar
<1>3. CASE HandleAnswer(t)
  <2> PICK p : p = Shown(t, request[t].stage = "ok")
    OBVIOUS
  <2>1. request[t].code[1] <= minted
    BY <1>1, <1>3 DEF AskedSoFar, CodeSoFar, HandleAnswer
  <2>2. At("home").setup = 0
    BY DEF At
  <2>3. p.setup <= minted
    BY <1>1, <2>1, <2>2 DEF Shown, Pane
  <2>4. AskedSoFar(NoRequest, minted)
    BY DEF AskedSoFar
  <2>5. /\ request' = [request EXCEPT ![t] = NoRequest] /\ panel' = [panel EXCEPT ![t] = p]
        /\ UNCHANGED <<account, minted, spent, reused, retired>>
    BY <1>3 DEF HandleAnswer
  <2> QED BY <2>3, <2>4, <2>5, PanelSoFar
<1> QED BY <1>2, <1>3

\* The page moves between its places, where no secret is shown.
LEMMA PlacesSoFar ==
    ASSUME FactorTyped, MadeSoFar, NEW t \in Panels,
           \/ OpenSettings(t) \/ SignInHere(t) \/ BackToLogin(t) \/ LeaveSettings(t) \/ SignOutHere(t)
    PROVE  MadeSoFar'
<1>1. PICK p : p.setup = 0 /\ Show(t, p)
  BY DEF OpenSettings, SignInHere, BackToLogin, LeaveSettings, SignOutHere, At
<1>2. request' = [request EXCEPT ![t] = NoRequest] /\ AskedSoFar(NoRequest, minted)
  BY <1>1 DEF Show, FactorTyped, AskedSoFar
<1>3. p.setup <= minted
  BY <1>1 DEF FactorTyped
<1> QED BY <1>1, <1>2, <1>3, PanelSoFar DEF Show

LEMMA FactorSoFar == FactorInit => MadeSoFar
<1> SUFFICES ASSUME FactorInit PROVE MadeSoFar
  OBVIOUS
<1>1. RowSoFar(account, 0) /\ minted = 0 /\ 0 <= MaxSecrets
  BY TwoFactorAssumption, CodesSoFar DEF FactorInit
<1>2. \A t \in Panels : panel[t].setup <= minted /\ AskedSoFar(request[t], minted)
  BY <1>1 DEF FactorInit, At, AskedSoFar
<1>3. RowSoFar(account, minted) /\ minted <= MaxSecrets
  BY <1>1
<1>4. spent \subseteq CodeSoFar(minted) /\ retired \subseteq 0 .. minted
  BY DEF FactorInit
<1>5. reused \in BOOLEAN
  BY DEF FactorInit
<1> QED BY <1>2, <1>3, <1>4, <1>5 DEF MadeSoFar

LEMMA StepSoFar == FactorTyped /\ MadeSoFar /\ [FactorNext]_factorVars => MadeSoFar'
<1> SUFFICES ASSUME FactorTyped, MadeSoFar, [FactorNext]_factorVars
             PROVE  MadeSoFar'
  OBVIOUS
<1>1. CASE TokenRenewed \/ UNCHANGED factorVars
  BY <1>1 DEF TokenRenewed, factorVars, MadeSoFar, RowSoFar, AskedSoFar, CodeSoFar
<1>2. ASSUME NEW t \in Panels,
             \/ Asks(t) \/ ReadRow(t) \/ CommitRow(t) \/ LoseAnswer(t) \/ HandleAnswer(t)
             \/ OpenSettings(t) \/ SignInHere(t) \/ BackToLogin(t) \/ LeaveSettings(t)
             \/ SignOutHere(t)
      PROVE  MadeSoFar'
  BY <1>2, AsksSoFar, ReadSoFar, CommitSoFar, AnswerSoFar, PlacesSoFar
<1> QED BY <1>1, <1>2 DEF FactorNext

\* What FactorInv and MadeSoFar say is as FactorTypeOK has it.
LEMMA FactorTypes == FactorInv /\ MadeSoFar => FactorTypeOK
<1> SUFFICES ASSUME FactorTyped, MadeSoFar PROVE FactorTypeOK
  BY DEF FactorInv
<1>1. minted \in 0 .. MaxSecrets /\ CodeSoFar(minted) \subseteq Code
  BY TwoFactorAssumption DEF FactorTyped, MadeSoFar, CodeSoFar, Code
<1>2. \A r \in Row : RowSoFar(r, minted) => r \in Account
  <2> TAKE r \in Row
  <2> HAVE RowSoFar(r, minted)
  <2>1. r.secret \in 0 .. MaxSecrets /\ r.codes \in SUBSET Code
    BY <1>1, TwoFactorAssumption DEF Row, RowSoFar
  <2> QED BY <2>1 DEF Row, Account
<1>3. account \in Account
  BY <1>2 DEF FactorTyped, MadeSoFar
<1>4. panel \in [Panels -> [at : {"home", "login", "code", "settings"}, enabled : BOOLEAN,
                            mark : BOOLEAN, step : Steps, setup : 0 .. minted]]
  <2>1. ASSUME NEW t \in Panels
        PROVE  panel[t] \in [at : {"home", "login", "code", "settings"}, enabled : BOOLEAN,
                             mark : BOOLEAN, step : Steps, setup : 0 .. minted]
    BY <1>1 DEF FactorTyped, MadeSoFar, Pane
  <2> QED BY <2>1 DEF FactorTyped
<1>5. ASSUME NEW t \in Panels, request[t] # NoRequest
      PROVE  /\ request[t].op \in {"setup", "verify", "disable", "reset", "validate"}
             /\ request[t].code \in Code /\ request[t].claim \in BOOLEAN
             /\ request[t].stage \in {"sent", "read", "ok", "refused"}
             /\ request[t].row \in Account
  <2>1. request[t] \in Asked /\ AskedSoFar(request[t], minted)
    BY <1>5 DEF FactorTyped, MadeSoFar
  <2>2. request[t].row \in Account /\ request[t].code \in Code
    BY <1>1, <1>2, <1>5, <2>1 DEF AskedSoFar, Asked
  <2> QED BY <2>1, <2>2 DEF Asked, FactorOps
<1> QED BY <1>1, <1>3, <1>4, <1>5 DEF FactorTyped, MadeSoFar, FactorTypeOK

(* The row, the panels and the requests keep to their types: a secret that *)
(* is shown, stored or asked with was made, and its codes are of its setup *)
(* (routers/auth.py, TOTPSettings.js).                                     *)
THEOREM FactorTypeCorrect == FactorSpec => []FactorTypeOK
<1>1. FactorInv /\ [FactorNext]_factorVars => FactorTyped
  BY DEF FactorInv
<1>2. FactorInv /\ MadeSoFar /\ [FactorNext]_factorVars => FactorInv' /\ MadeSoFar'
  BY <1>1, FactorStep, StepSoFar
<1> QED BY <1>2, FactorStart, FactorSoFar, FactorTypes, PTL DEF FactorSpec

-----------------------------------------------------------------------------
(* The limit on codes, for any window, number of attempts and time.        *)

\* A refusal lasts until the oldest attempt expires: all places are taken, and the page
\* waits, by its countdown and by what it stored, until then at least.
Enough == attempts[1] + Window * Second
ThrottleInv ==
    /\ ThrottleTypeOK
    /\ until <= now + (Window + 1) * Second
    /\ refused =>
          /\ Len(attempts) = MaxAttempts
          /\ IF cooldown = 0 THEN now >= Enough
             ELSE counted + cooldown * Second >= Enough /\ until >= Enough

\* How many attempts are still in the window, and which, when none has expired.
LEMMA RecentLength ==
    ASSUME ThrottleTypeOK
    PROVE  /\ Recent \in Seq(0 .. now) /\ Len(Recent) <= Len(attempts)
           /\ Len(Recent) = Len(attempts) =>
                 Recent = attempts /\ \A n \in DOMAIN attempts : InWindow(attempts[n])
<1>1. attempts \in Seq(0 .. now) /\ Len(attempts) \in Nat /\ DOMAIN attempts = 1 .. Len(attempts)
  BY DEF ThrottleTypeOK
<1>2. IsFiniteSet(1 .. Len(attempts))
  BY <1>1, FS_Interval
<1>3. IsFiniteSet(Expired) /\ Cardinality(Expired) \in Nat /\ Cardinality(Expired) <= Len(attempts)
  <2>1. PICK D : D = 1 .. Len(attempts)
    OBVIOUS
  <2>2. Cardinality(D) = Len(attempts)
    <3>1. PICK k \in Nat : k = Len(attempts)
      BY <1>1
    <3>2. Cardinality(1 .. k) = k
      BY FS_Interval
    <3> QED BY <2>1, <3>1, <3>2
  <2>3. PICK X : X = Expired
    OBVIOUS
  <2>4. X \in SUBSET D
    BY <1>1, <2>1, <2>3 DEF Expired
  <2> QED BY <1>2, <2>1, <2>2, <2>3, <2>4, FS_Subset, FS_CardinalityType
<1>4. PICK k \in Nat : k = Cardinality(Expired)
  BY <1>3
<1>5. Recent = SubSeq(attempts, k + 1, Len(attempts)) /\ k <= Len(attempts)
  BY <1>3, <1>4 DEF Recent
<1>6. Recent \in Seq(0 .. now) /\ Len(Recent) = Len(attempts) - k
  <2>0. PICK T : T = 0 .. now
    OBVIOUS
  <2>1. PICK s \in Seq(T), n \in Nat : s = attempts /\ n = Len(attempts)
    BY <1>1, <2>0
  <2>2. \A i \in (k + 1) .. n : s[i] \in T
    BY <2>1
  <2>3. SubSeq(s, k + 1, n) \in Seq(T)
    BY <2>1, <2>2
  <2>4. Len(SubSeq(s, k + 1, n)) = n - k
    BY <1>5, <2>1
  <2> QED BY <1>5, <2>0, <2>1, <2>3, <2>4
<1>7. ASSUME k = 0
      PROVE  Recent = attempts /\ \A n \in DOMAIN attempts : InWindow(attempts[n])
  <2>1. Expired = {}
    BY <1>3, <1>4, <1>7, FS_EmptySet
  <2>2. SubSeq(attempts, 1, Len(attempts)) = attempts
    BY <1>1
  <2> QED BY <1>5, <1>7, <2>1, <2>2 DEF Expired
<1>8. Len(Recent) <= Len(attempts) /\ (Len(Recent) = Len(attempts) => k = 0)
  <2>1. PICK n, m : n = Len(attempts) /\ n \in Nat /\ m = Len(Recent)
    BY <1>1
  <2>2. m = n - k
    BY <1>6, <2>1
  <2>3. n \in Nat
    BY <2>1
  <2>4. m <= n /\ (m = n => k = 0)
    BY <2>2, <2>3
  <2> QED BY <2>1, <2>4
<1> QED BY <1>6, <1>7, <1>8

\* A page that is refused is told of a wait that lasts until the oldest attempt expires.
LEMMA WaitCovers ==
    ASSUME NEW n \in Nat, NEW o \in 0 .. n, n - o < Window * Second
    PROVE  LET w == (Window * Second - (n - o)) \div Second + 1
           IN  w \in 1 .. (Window + 1) /\ n + w * Second >= o + Window * Second
  BY ThrottleAssumption DEF Second

LEMMA ThrottleInitInv == ThrottleInit => ThrottleInv
<1> SUFFICES ASSUME ThrottleInit PROVE ThrottleInv
  OBVIOUS
<1>1. /\ now = 0 /\ attempts = <<>> /\ cooldown = 0 /\ counted = 0 /\ until = 0 /\ refused = FALSE
  BY DEF ThrottleInit
<1>2. attempts \in Seq(0 .. now) /\ Len(attempts) = 0
  BY <1>1
<1>3. ThrottleTypeOK
  <2>1. now \in 0 .. MaxTicks /\ cooldown \in 0 .. (Window + 1) /\ counted \in 0 .. now
    BY <1>1, ThrottleAssumption
  <2>2. Len(attempts) <= MaxAttempts
    <3>1. 0 <= MaxAttempts
      BY ThrottleAssumption
    <3> QED BY <1>2, <3>1
  <2> QED BY <1>1, <1>2, <2>1, <2>2 DEF ThrottleTypeOK
<1>4. until <= now + (Window + 1) * Second
  BY <1>1, ThrottleAssumption DEF Second
<1> QED BY <1>1, <1>3, <1>4 DEF ThrottleInv

\* A code is let in, or nothing is written but what was there.
LEMMA CodeStep ==
    ASSUME ThrottleInv, UNCHANGED now,
           IF LetIn THEN \E right \in BOOLEAN : Counted(right) ELSE attempts' = Recent
    PROVE  /\ attempts' \in Seq(0 .. now') /\ Len(attempts') <= MaxAttempts
           /\ ~LetIn => /\ attempts' = attempts /\ Len(attempts) = MaxAttempts
                        /\ Recent = attempts /\ attempts[1] \in 0 .. now /\ InWindow(attempts[1])
<1>1. /\ attempts \in Seq(0 .. now) /\ Len(attempts) <= MaxAttempts /\ now \in Nat
      /\ Len(attempts) \in Nat /\ MaxAttempts \in Nat \ {0}
  BY ThrottleAssumption DEF ThrottleInv, ThrottleTypeOK
<1>2. PICK T : T = 0 .. now
  OBVIOUS
<1>3. PICK r : r = Recent
  OBVIOUS
<1>4. r \in Seq(T) /\ Len(r) <= Len(attempts) /\ Len(r) \in Nat
  BY <1>2, <1>3, RecentLength DEF ThrottleInv
<1>5. CASE LetIn
  <2>1. Len(r) < MaxAttempts
    BY <1>3, <1>5 DEF LetIn
  <2>2. PICK t \in T : t = now
    BY <1>1, <1>2
  <2>3. attempts' = <<>> \/ attempts' = Append(r, t)
    BY <1>3, <1>5, <2>2 DEF Counted
  <2>4. /\ <<>> \in Seq(T) /\ Len(<<>>) = 0 /\ Append(r, t) \in Seq(T)
        /\ Len(Append(r, t)) = Len(r) + 1
    BY <1>4
  <2>5. attempts' \in Seq(T) /\ Len(attempts') <= MaxAttempts
    <3>1. CASE attempts' = <<>>
      BY <1>1, <2>4, <3>1
    <3>2. CASE attempts' = Append(r, t)
      BY <1>1, <1>4, <2>1, <2>4, <3>2
    <3> QED BY <2>3, <3>1, <3>2
  <2> QED BY <1>2, <1>5, <2>5
<1>6. CASE ~LetIn
  <2>1. Len(r) = Len(attempts) /\ Len(attempts) = MaxAttempts
    BY <1>1, <1>3, <1>4, <1>6 DEF LetIn
  <2>2. Recent = attempts /\ \A n \in DOMAIN attempts : InWindow(attempts[n])
    BY <1>3, <2>1, RecentLength DEF ThrottleInv
  <2>3. 1 \in DOMAIN attempts
    BY <1>1, <2>1
  <2>4. attempts[1] \in 0 .. now
    BY <1>1, <2>3
  <2> QED BY <1>1, <1>6, <2>1, <2>2, <2>3, <2>4
<1> QED BY <1>5, <1>6

LEMMA ThrottleStep == ThrottleInv /\ [ThrottleNext]_throttleVars => ThrottleInv'
<1> SUFFICES ASSUME ThrottleInv, [ThrottleNext]_throttleVars PROVE ThrottleInv'
  OBVIOUS
<1>1. /\ now \in 0 .. MaxTicks /\ attempts \in Seq(0 .. now) /\ Len(attempts) <= MaxAttempts
      /\ cooldown \in 0 .. (Window + 1) /\ counted \in 0 .. now /\ until \in Nat
      /\ refused \in BOOLEAN /\ until <= now + (Window + 1) * Second
      /\ Window \in Nat \ {0} /\ MaxAttempts \in Nat \ {0} /\ MaxTicks \in Nat
  BY ThrottleAssumption DEF ThrottleInv, ThrottleTypeOK
\* The oldest attempt, while refused.
<1>2. /\ refused => attempts[1] \in 0 .. now
      /\ refused => /\ Len(attempts) = MaxAttempts
                    /\ IF cooldown = 0 THEN now >= Enough
                       ELSE counted + cooldown * Second >= Enough /\ until >= Enough
  <2>1. refused => 1 \in DOMAIN attempts
    BY <1>1 DEF ThrottleInv
  <2> QED BY <1>1, <2>1 DEF ThrottleInv
<1>3. CASE UNCHANGED throttleVars
  BY <1>3 DEF throttleVars, ThrottleInv, ThrottleTypeOK, Enough
<1>4. CASE Submit
  <2>1. /\ attempts' \in Seq(0 .. now') /\ Len(attempts') <= MaxAttempts
        /\ ~LetIn => /\ attempts' = attempts /\ Len(attempts) = MaxAttempts
                     /\ Recent = attempts /\ attempts[1] \in 0 .. now /\ InWindow(attempts[1])
    BY <1>4, CodeStep DEF Submit
  <2>2. CASE LetIn
    BY <1>1, <1>4, <2>1, <2>2 DEF Submit, ThrottleInv, ThrottleTypeOK
  <2>3. CASE ~LetIn
    <3>1. PICK o \in 0 .. now : o = attempts[1]
      BY <2>1, <2>3
    <3>2. /\ cooldown' = (Window * Second - (now - o)) \div Second + 1 /\ now - o < Window * Second
          /\ now' = now /\ counted' = now /\ until' = now + cooldown' * Second /\ refused' = TRUE
          /\ attempts'[1] = o
      BY <1>4, <2>1, <2>3, <3>1 DEF Submit, Wait, InWindow
    <3>3. PICK w : w = (Window * Second - (now - o)) \div Second + 1
      OBVIOUS
    <3>4. w \in 1 .. (Window + 1) /\ now + w * Second >= o + Window * Second
      BY <1>1, <3>2, <3>3, WaitCovers
    <3>5. /\ cooldown' \in 1 .. (Window + 1) /\ cooldown' = w
          /\ now + cooldown' * Second >= o + Window * Second
      BY <3>2, <3>3, <3>4
    <3>6. until' \in Nat /\ until' <= now' + (Window + 1) * Second
      BY <1>1, <3>2, <3>5 DEF Second
    <3>7. ThrottleTypeOK'
      BY <1>1, <2>1, <3>2, <3>5, <3>6 DEF ThrottleTypeOK
    <3> QED BY <1>1, <2>1, <2>3, <3>1, <3>2, <3>5, <3>6, <3>7 DEF ThrottleInv, Enough
  <2> QED BY <2>2, <2>3
<1>5. CASE SubmitElsewhere
  <2>1. /\ attempts' \in Seq(0 .. now') /\ Len(attempts') <= MaxAttempts
        /\ ~LetIn => attempts' = attempts
        /\ refused' = (refused /\ ~LetIn)
        /\ UNCHANGED <<now, cooldown, counted, until>>
    BY <1>5, CodeStep DEF SubmitElsewhere
  <2>2. ThrottleTypeOK'
    BY <1>1, <2>1 DEF ThrottleTypeOK
  <2> QED BY <1>1, <1>2, <2>1, <2>2 DEF ThrottleInv, Enough
<1>6. CASE CountDown
  <2>1. /\ cooldown > 0 /\ now >= counted + Second /\ cooldown' = cooldown - 1 /\ counted' = now
        /\ until' = IF cooldown = 1 THEN 0 ELSE now + cooldown' * Second
        /\ UNCHANGED <<now, attempts, refused>>
    BY <1>6 DEF CountDown
  <2>2. cooldown' \in 0 .. (Window + 1) /\ until' \in Nat /\ until' <= now + (Window + 1) * Second
    BY <1>1, <2>1 DEF Second
  <2>3. ThrottleTypeOK'
    BY <1>1, <2>1, <2>2 DEF ThrottleTypeOK
  <2>4. refused => IF cooldown' = 0 THEN now >= Enough
                   ELSE now + cooldown' * Second >= Enough /\ until' >= Enough
    BY <1>1, <1>2, <2>1 DEF Second, Enough
  <2> QED BY <1>2, <2>1, <2>2, <2>3, <2>4 DEF ThrottleInv, Enough
<1>7. CASE LoadAgain
  <2>1. /\ cooldown' = IF until > now THEN (until - now + Second - 1) \div Second ELSE 0
        /\ counted' = now
        /\ until' = IF cooldown' = 0 THEN 0 ELSE now + cooldown' * Second
        /\ UNCHANGED <<now, attempts, refused>>
    BY <1>7 DEF LoadAgain
  <2>2. /\ cooldown' \in 0 .. (Window + 1) /\ until' \in Nat /\ until' <= now + (Window + 1) * Second
        /\ cooldown' = 0 => until <= now
        /\ now + cooldown' * Second >= until
    BY <1>1, <2>1 DEF Second
  <2>3. ThrottleTypeOK'
    BY <1>1, <2>1, <2>2 DEF ThrottleTypeOK
  <2>4. refused => IF cooldown' = 0 THEN now >= Enough
                   ELSE now + cooldown' * Second >= Enough /\ until' >= Enough
    BY <1>1, <1>2, <2>1, <2>2 DEF Second, Enough
  <2> QED BY <1>2, <2>1, <2>2, <2>3, <2>4 DEF ThrottleInv, Enough
<1>8. CASE Tick
  <2>1. now < MaxTicks /\ now' = now + 1 /\ UNCHANGED <<attempts, cooldown, counted, until, refused>>
    BY <1>8 DEF Tick
  <2>2. attempts' \in Seq(0 .. now')
    <3>1. PICK T, U : T = 0 .. now /\ U = 0 .. now'
      OBVIOUS
    <3>2. T \subseteq U
      BY <1>1, <2>1, <3>1
    <3>3. \A s \in Seq(T) : s \in Seq(U)
      BY <3>2
    <3> QED BY <1>1, <2>1, <3>1, <3>3
  <2>3. ThrottleTypeOK'
    BY <1>1, <2>1, <2>2 DEF ThrottleTypeOK
  <2>4. refused => IF cooldown = 0 THEN now + 1 >= Enough
                   ELSE counted + cooldown * Second >= Enough /\ until >= Enough
    BY <1>1, <1>2 DEF Second, Enough
  <2> QED BY <1>1, <1>2, <2>1, <2>3, <2>4 DEF ThrottleInv, Enough, Second
<1> QED BY <1>3, <1>4, <1>5, <1>6, <1>7, <1>8 DEF ThrottleNext

\* When the form opens again after a refusal, a place is free.
LEMMA OpensInTime == ThrottleInv => CooldownCovers
<1> SUFFICES ASSUME ThrottleInv, refused, cooldown = 0 PROVE LetIn
  BY DEF CooldownCovers
<1>1. /\ attempts \in Seq(0 .. now) /\ Len(attempts) = MaxAttempts /\ MaxAttempts \in Nat \ {0}
      /\ now \in Nat /\ Window \in Nat /\ now >= Enough
  BY ThrottleAssumption DEF ThrottleInv, ThrottleTypeOK
<1>2. 1 \in DOMAIN attempts /\ attempts[1] \in 0 .. now
  BY <1>1
<1>3. ~InWindow(attempts[1])
  BY <1>1, <1>2 DEF InWindow, Enough, Second
<1>4. Len(Recent) <= Len(attempts) /\ Len(Recent) # Len(attempts) /\ Len(Recent) \in Nat
  BY <1>2, <1>3, RecentLength DEF ThrottleInv
<1> QED BY <1>1, <1>4 DEF LetIn

THEOREM ThrottleInvCorrect == ThrottleSpec => []ThrottleInv
  BY ThrottleInitInv, ThrottleStep, PTL DEF ThrottleSpec

\* The wait a page is told is long enough, counted down, counted late or reloaded.
THEOREM WaitIsEnough == ThrottleSpec => []CooldownCovers
  BY ThrottleInvCorrect, OpensInTime, PTL
=============================================================================
