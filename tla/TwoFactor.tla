------------------------------ MODULE TwoFactor ------------------------------
(***************************************************************************)
(* The second factor of one account: the settings panel that sets it up,   *)
(* turns it off and resets it (frontend/src/components/shared/TOTPSettings *)
(* .js), the code a sign-in then asks for (pages/Login.js, pages/admin/    *)
(* Login.js), and the endpoints behind them (backend/app/routers/auth.py). *)
(* An endpoint reads the user's row, decides, and writes the columns that  *)
(* it changed; it awaits in between, so two requests may both have read    *)
(* before either writes.                                                   *)
(*                                                                         *)
(* Two tabs of one browser share the token and the backup_login mark of    *)
(* localStorage.  Abstracted: the QR code, hashing, the 30-second window   *)
(* of a code (a code is accepted if it is of the secret on the row), the   *)
(* limit on attempts (module TotpThrottle), a request that finds no valid  *)
(* token (module Session).  A tab has one request under way: a bound.      *)
(***************************************************************************)
EXTENDS Naturals

CONSTANTS Panels,       \* the browser's tabs
          Leavers,      \* those in which the user signs out and in again: a bound
          MaxSecrets,   \* bound on the secrets ever generated
          BackupCodes   \* how many backup codes a setup makes

ASSUME TwoFactorAssumption == MaxSecrets \in Nat /\ BackupCodes \in Nat

VARIABLES account,      \* totp_enabled, totp_secret (0 for none) and totp_backup_codes
          minted,       \* the secrets generated so far: 1 .. minted
          token,        \* localStorage: the access token's backup_login claim, the mark
                        \* backup_login, and whether the browser is signed in
          panel,        \* what each tab shows
          request,      \* what each tab waits for
          spent,        \* history: the backup codes sign-ins were accepted with
          reused,       \* history: one of them was accepted a second time
          retired,      \* history: the secrets that were turned off
          overlapped    \* history: a row was written that had changed since it was read

factorVars == <<account, minted, token, panel, request, spent, reused, retired, overlapped>>

NoRequest == [op |-> "none"]
Steps == {"idle", "loading", "show_qr", "done"}
CodesOf(s) == {<<s, k>> : k \in 1 .. BackupCodes}
NoFactor == [enabled |-> FALSE, secret |-> 0, codes |-> {}]
At(place) == [at |-> place, enabled |-> FALSE, mark |-> FALSE, step |-> "idle", setup |-> 0]

\* Signed in, no second factor, at any page but the settings.
FactorInit ==
    /\ account = NoFactor
    /\ minted = 0
    /\ token = [signed |-> TRUE, claim |-> FALSE, mark |-> FALSE]
    /\ panel = [t \in Panels |-> At("home")]
    /\ request = [t \in Panels |-> NoRequest]
    /\ spent = {} /\ reused = FALSE /\ retired = {} /\ overlapped = FALSE

-----------------------------------------------------------------------------
(* What a page sends.  A code is <<secret, k>>: the authenticator's code   *)
(* for k = 0, the k-th backup code otherwise.                              *)

NoCode == <<0, 0>>
FromApp(s) == <<s, 0>>

\* A behaviour is followed no further once two writes overlapped: a bound.
Ask(t, op, code, p) ==
    /\ request[t] = NoRequest /\ ~overlapped
    /\ request' = [request EXCEPT ![t] =
          [op |-> op, code |-> code, claim |-> token.claim, row |-> NoFactor,
           stage |-> IF token.signed \/ op = "validate" THEN "sent" ELSE "refused"]]
    /\ panel' = [panel EXCEPT ![t] = p]
    /\ UNCHANGED <<account, minted, token, spent, reused, retired, overlapped>>

EnableOffered(t) == panel[t].at = "settings" /\ ~panel[t].enabled /\ panel[t].step = "idle"
VerifyOffered(t) == panel[t].at = "settings" /\ panel[t].step = "show_qr"
DisableOffered(t) == /\ panel[t].at = "settings" /\ panel[t].enabled /\ panel[t].step = "idle"
                     /\ ~panel[t].mark
ResetOffered(t) == panel[t].at = "settings" /\ panel[t].mark /\ panel[t].enabled

Loading(t) == [panel[t] EXCEPT !.step = "loading"]
Setup(t) == EnableOffered(t) /\ minted < MaxSecrets /\ Ask(t, "setup", NoCode, Loading(t))
\* The code is of the secret on the screen, or mistyped.
Verify(t) == /\ VerifyOffered(t)
             /\ \E s \in {0, panel[t].setup} : Ask(t, "verify", FromApp(s), Loading(t))
Disable(t) == DisableOffered(t) /\ \E s \in {0, minted} : Ask(t, "disable", FromApp(s), panel[t])
Reset(t) == ResetOffered(t) /\ Ask(t, "reset", NoCode, panel[t])

\* The sign-in's second step, with the authenticator or one of the codes of a setup.
Types(t, code) == panel[t].at = "code" /\ Ask(t, "validate", code, panel[t])
UserTypes(t) == \E s \in {0, minted} : Types(t, FromApp(s))
BackupTypes(t) == \E s \in 1 .. minted : \E code \in CodesOf(s) : Types(t, code)

Asks(t) == \/ Setup(t) \/ Verify(t) \/ Disable(t) \/ Reset(t)
           \/ UserTypes(t) \/ BackupTypes(t)

-----------------------------------------------------------------------------
(* The endpoints: what each refuses, and what it writes.                   *)

OfSecret(r, code) == r.secret # 0 /\ code = FromApp(r.secret)
OfBackup(r, code) == code \in r.codes

UsedBackup(q) == q.code[2] # 0

CanSetupAlways(q) == TRUE \* mutant: "2FA is already enabled" is not checked
CanSetup(q) == ~account.enabled
CanVerify(q) == OfSecret(account, q.code)
CanDisable(q) == account.enabled /\ OfSecret(account, q.code)
CanReset(q) == q.claim /\ account.enabled
CanValidate(q) == OfSecret(account, q.code) \/ OfBackup(account, q.code)

Accepted(q) == CASE q.op = "setup" -> CanSetup(q)
                 [] q.op = "verify" -> CanVerify(q)
                 [] q.op = "disable" -> CanDisable(q)
                 [] q.op = "reset" -> CanReset(q)
                 [] OTHER -> CanValidate(q)

\* What the endpoint makes of the row it read.
Made(q) ==
    CASE q.op = "setup" -> [q.row EXCEPT !.secret = q.code[1], !.codes = CodesOf(q.code[1])]
      [] q.op = "verify" -> [q.row EXCEPT !.enabled = TRUE]
      [] q.op \in {"disable", "reset"} -> NoFactor
      [] OTHER -> [q.row EXCEPT !.codes = @ \ {q.code}]

ReadRow(t) ==
    LET q == request[t]
        fresh == IF q.op = "setup" /\ Accepted(q) THEN minted + 1 ELSE minted
        code == IF q.op = "setup" THEN FromApp(fresh) ELSE q.code
    IN
    /\ q # NoRequest /\ q.stage = "sent"
    /\ fresh <= MaxSecrets /\ minted' = fresh
    /\ request' = [request EXCEPT ![t].stage = IF Accepted(q) THEN "read" ELSE "refused",
                                  ![t].code = code,
                                  ![t].row = IF Accepted(q) THEN account ELSE NoFactor]
    /\ UNCHANGED <<account, token, panel, spent, reused, retired, overlapped>>

\* The session writes the columns whose values changed, to the row as it is by now.
Changed(q) == [k \in DOMAIN account |-> IF Made(q)[k] = q.row[k] THEN account[k] ELSE Made(q)[k]]

CommitRow(t) ==
    LET q == request[t]
        backup == q.op = "validate" /\ UsedBackup(q)
    IN
    /\ q # NoRequest /\ q.stage = "read"
    /\ account' = Changed(q)
    /\ request' = [request EXCEPT ![t].stage = "ok", ![t].row = NoFactor]
    /\ spent' = IF backup THEN spent \union {q.code} ELSE spent
    /\ reused' = (reused \/ (backup /\ q.code \in spent))
    /\ retired' = IF q.op \in {"disable", "reset"} THEN retired \union {account.secret} ELSE retired
    /\ overlapped' = (overlapped \/ (Made(q) # q.row /\ account # q.row))
    /\ UNCHANGED <<minted, token, panel>>

\* The answer is lost, or the request before it arrives.
LoseAnswer(t) == /\ request[t] # NoRequest /\ request[t].stage \in {"sent", "ok"}
                 /\ request' = [request EXCEPT ![t].stage = "refused"]
                 /\ UNCHANGED <<account, minted, token, panel, spent, reused, retired, overlapped>>

-----------------------------------------------------------------------------
(* The answers, at the page: the panel, then the token.                    *)

Shown(t, ok) ==
    LET q == request[t]
        p == panel[t]
    IN CASE q.op = "setup" -> IF ok THEN [p EXCEPT !.step = "show_qr", !.setup = q.code[1]]
                                    ELSE [p EXCEPT !.step = "idle"]
         [] q.op = "verify" -> IF ok THEN [p EXCEPT !.step = "done", !.enabled = TRUE]
                                     ELSE [p EXCEPT !.step = "show_qr"]
         [] q.op = "disable" -> IF ok THEN [p EXCEPT !.step = "idle", !.enabled = FALSE] ELSE p
         [] q.op = "reset" -> IF ok THEN [p EXCEPT !.step = "idle", !.enabled = FALSE, !.mark = FALSE]
                                    ELSE p
         [] OTHER -> IF ok THEN At("home") ELSE p

\* The mark is set by a sign-in with a backup code, never cleared by one without.
Kept(q) ==
    CASE q.op = "validate" -> [signed |-> TRUE, claim |-> UsedBackup(q),
                               mark |-> token.mark \/ UsedBackup(q)]
      [] q.op = "reset" -> [token EXCEPT !.mark = FALSE]
      [] OTHER -> token

HandleAnswer(t) ==
    LET q == request[t] IN
    /\ q # NoRequest /\ q.stage \in {"ok", "refused"}
    /\ panel' = [panel EXCEPT ![t] = Shown(t, q.stage = "ok")]
    /\ token' = IF q.stage = "ok" THEN Kept(q) ELSE token
    /\ request' = [request EXCEPT ![t] = NoRequest]
    /\ UNCHANGED <<account, minted, spent, reused, retired, overlapped>>

-----------------------------------------------------------------------------
(* Around the panel.                                                       *)

Show(t, p) == /\ request[t] = NoRequest
              /\ panel' = [panel EXCEPT ![t] = p]
              /\ UNCHANGED <<account, minted, request, spent, reused, retired, overlapped>>

\* The password is right: with the factor on, the code is asked for.
SignInHere(t) ==
    /\ panel[t].at = "login"
    /\ IF account.enabled /\ account.secret # 0
       THEN Show(t, At("code")) /\ UNCHANGED token
       ELSE Show(t, At("home")) /\ token' = [token EXCEPT !.signed = TRUE, !.claim = FALSE]

\* The panel is mounted: it looks at the mark once and asks for the status, which is taken
\* to be "disabled" when the request fails.
OpenSettings(t) ==
    /\ panel[t].at = "home"
    /\ \E on \in {FALSE, token.signed /\ account.enabled} :
          Show(t, [At("settings") EXCEPT !.enabled = on, !.mark = token.mark])
    /\ UNCHANGED token

BackToLogin(t) == panel[t].at = "code" /\ Show(t, At("login")) /\ UNCHANGED token

LeaveSettings(t) == panel[t].at = "settings" /\ Show(t, At("home")) /\ UNCHANGED token

SignOutHere(t) == /\ panel[t].at = "home" /\ t \in Leavers
                  /\ Show(t, At("login"))
                  /\ token' = [signed |-> FALSE, claim |-> FALSE, mark |-> FALSE]

\* POST /auth/refresh makes a token without the claim; the mark stays.
TokenRenewed == /\ token.claim
                /\ token' = [token EXCEPT !.claim = FALSE]
                /\ UNCHANGED <<account, minted, panel, request, spent, reused, retired, overlapped>>

FactorNext ==
    \/ TokenRenewed
    \/ \E t \in Panels :
          \/ Asks(t) \/ ReadRow(t) \/ CommitRow(t) \/ LoseAnswer(t) \/ HandleAnswer(t)
          \/ OpenSettings(t) \/ SignInHere(t) \/ BackToLogin(t) \/ LeaveSettings(t) \/ SignOutHere(t)

FactorSpec == FactorInit /\ [][FactorNext]_factorVars

-----------------------------------------------------------------------------
(* Type invariant: an accepted request carries the row it was decided on,  *)
(* and the factor is never on without its codes' secret having been made.  *)
Code == (0 .. MaxSecrets) \X (0 .. BackupCodes)
Account == [enabled : BOOLEAN, secret : 0 .. MaxSecrets, codes : SUBSET Code]
FactorTypeOK ==
    /\ account \in Account /\ minted \in 0 .. MaxSecrets
    /\ token \in [signed : BOOLEAN, claim : BOOLEAN, mark : BOOLEAN]
    /\ panel \in [Panels -> [at : {"home", "login", "code", "settings"}, enabled : BOOLEAN,
                             mark : BOOLEAN, step : Steps, setup : 0 .. minted]]
    /\ \A t \in Panels : request[t] # NoRequest =>
          /\ request[t].op \in {"setup", "verify", "disable", "reset", "validate"}
          /\ request[t].code \in Code /\ request[t].claim \in BOOLEAN
          /\ request[t].stage \in {"sent", "read", "ok", "refused"}
          /\ request[t].row \in Account
    /\ spent \subseteq Code /\ retired \subseteq 0 .. minted
    /\ reused \in BOOLEAN /\ overlapped \in BOOLEAN

(* "Save these backup codes": the codes a panel shows when it has turned   *)
(* the factor on are the ones the server will take, all but those used     *)
(* since, for as long as the factor is on and was not turned off in        *)
(* between, whatever another tab tried, unless two requests changed the    *)
(* row at the same time (TOTPSettings.js:46, routers/auth.py:286).         *)
ShownCodesStored ==
    \A t \in Panels :
       panel[t].step = "done" /\ account.enabled /\ panel[t].setup \notin retired /\ ~overlapped
          => /\ account.secret = panel[t].setup
             /\ account.codes = CodesOf(panel[t].setup) \ spent

(* "Each code can only be used once" (TOTPSettings.js:251): no backup code *)
(* lets two sign-ins in.                                                   *)
CodeSpentOnce == ~reused
=============================================================================
