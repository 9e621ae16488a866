----------------------------- MODULE TotpThrottle -----------------------------
(***************************************************************************)
(* The limit on sign-in codes: the server takes MaxAttempts of them in a   *)
(* window (backend/app/routers/auth.py, totp_validate) and tells a page    *)
(* that comes too early how many seconds to wait; the page (pages/Login.js *)
(* and pages/admin/Login.js) locks its form, counts the seconds down with  *)
(* an interval, and writes the end of the wait to localStorage for after a *)
(* reload.  Time passes in ticks, half a second long: the server compares  *)
(* fractions of seconds, the page counts whole ones.                       *)
(***************************************************************************)
EXTENDS Naturals, Sequences, FiniteSets

CONSTANTS Window,       \* TOTP_RATE_WINDOW, in seconds (60 in the code)
          MaxAttempts,  \* TOTP_MAX_ATTEMPTS (5 in the code)
          MaxTicks      \* bound on the time that passes

ASSUME ThrottleAssumption == Window \in Nat \ {0} /\ MaxAttempts \in Nat \ {0} /\ MaxTicks \in Nat

VARIABLES now,          \* the time, in ticks
          attempts,     \* totp_rate_limit[user]: when the attempts in the window were made
          cooldown,     \* the seconds the form stays locked
          counted,      \* when the interval last fired, or was started
          until,        \* totp_cooldown_until, in ticks (0 for none)
          refused       \* history: the page was refused, and nobody was let in since

throttleVars == <<now, attempts, cooldown, counted, until, refused>>

Second == 2 \* ticks

ThrottleInit == /\ now = 0 /\ attempts = <<>>
                /\ cooldown = 0 /\ counted = 0 /\ until = 0
                /\ refused = FALSE

InWindow(t) == now - t < Window * Second
Expired == {n \in DOMAIN attempts : ~InWindow(attempts[n])}
\* [t for t in attempts if now - t < W]: the list is in the order of time, so those that
\* expired come first.
Recent == SubSeq(attempts, Cardinality(Expired) + 1, Len(attempts))

\* "Wait {int(W - (now - oldest)) + 1} seconds".
WaitRoundedDown(oldest) == (Window * Second - (now - oldest)) \div Second \* mutant: without + 1
Wait(oldest) == (Window * Second - (now - oldest)) \div Second + 1

LetIn == Len(Recent) < MaxAttempts

\* A code that is let in but wrong counts; a right one empties the list.
Counted(right) == attempts' = IF right THEN <<>> ELSE Append(Recent, now)

\* The form is submitted.  It is locked while the seconds are counted.
Submit ==
    /\ cooldown = 0
    /\ IF LetIn
       THEN /\ \E right \in BOOLEAN : Counted(right)
            /\ refused' = FALSE
            /\ UNCHANGED <<cooldown, counted, until>>
       ELSE /\ attempts' = Recent
            /\ cooldown' = Wait(Recent[1])
            /\ counted' = now
            /\ until' = now + cooldown' * Second
            /\ refused' = TRUE
    /\ UNCHANGED now

\* Another browser of the same user.
SubmitElsewhere ==
    /\ IF LetIn THEN \E right \in BOOLEAN : Counted(right) ELSE attempts' = Recent
    /\ refused' = (refused /\ ~LetIn)
    /\ UNCHANGED <<now, cooldown, counted, until>>

\* setInterval, never early: a page in the background may be called late.
CountDown ==
    /\ cooldown > 0 /\ now >= counted + Second
    /\ cooldown' = cooldown - 1
    /\ counted' = now
    /\ until' = IF cooldown = 1 THEN 0 ELSE now + cooldown' * Second
    /\ UNCHANGED <<now, attempts, refused>>

\* The page is loaded again: what is left, rounded up to whole seconds, is waited for.
LoadAgain ==
    /\ cooldown' = IF until > now THEN (until - now + Second - 1) \div Second ELSE 0
    /\ counted' = now
    /\ until' = IF cooldown' = 0 THEN 0 ELSE now + cooldown' * Second
    /\ UNCHANGED <<now, attempts, refused>>

Tick == /\ now < MaxTicks
        /\ now' = now + 1
        /\ UNCHANGED <<attempts, cooldown, counted, until, refused>>

ThrottleNext == Submit \/ SubmitElsewhere \/ CountDown \/ LoadAgain \/ Tick
ThrottleSpec == ThrottleInit /\ [][ThrottleNext]_throttleVars

-----------------------------------------------------------------------------
(* Type invariant: the server keeps no more attempts than it takes, and    *)
(* the page waits no longer than a window and the second it rounds up to.  *)
ThrottleTypeOK ==
    /\ now \in 0 .. MaxTicks
    /\ attempts \in Seq(0 .. now) /\ Len(attempts) <= MaxAttempts
    /\ cooldown \in 0 .. Window + 1
    /\ counted \in 0 .. now
    /\ until \in Nat /\ refused \in BOOLEAN

(* The wait a page is told is long enough: when the form opens again after *)
(* a refusal, counted down or reloaded in between, the next code is let in *)
(* unless another browser's was first (routers/auth.py:356, Login.js:71).  *)
CooldownCovers == refused /\ cooldown = 0 => LetIn
===============================================================================
