------------------------------ MODULE MCBrowser ------------------------------
(* The browser's side of the system, one part of it to a behaviour.        *)
EXTENDS ContractPages, Session, TwoFactor, TotpThrottle, Chat, DisputeChat, TLC

CONSTANTS owner, client, freelancer, \* the wallets
          ann, bob, root,            \* accounts: a client, a freelancer, an administrator
          t1, t2,                    \* tabs
          n1, n2                     \* requests under way

VARIABLE part \* which part of the browser the behaviour is about

MCAddress == {owner, client, freelancer}
MCAmounts == <<60>>
MCAmountLists == {MCAmounts}

Scene(l, s, w, b, q, d, r, f, m) ==
    [lens |-> l, signed |-> s, slow |-> w, behind |-> b, quarrel |-> q, deposits |-> d,
     rejects |-> r, flows |-> f, mishaps |-> m]
MCScenes == {Scene("client", FALSE, TRUE, 0, FALSE, 0, 0, 1, 0),
             Scene("client", TRUE, FALSE, 2, FALSE, 1, 1, 2, 0),
             Scene("client", TRUE, FALSE, 2, FALSE, 1, 0, 1, 1),
             Scene("client", TRUE, FALSE, 1, TRUE, 1, 0, 1, 0),
             Scene("client", TRUE, TRUE, 0, FALSE, 1, 0, 1, 1),
             Scene("freelancer", FALSE, TRUE, 0, FALSE, 0, 0, 2, 0),
             Scene("freelancer", TRUE, TRUE, 1, FALSE, 1, 1, 1, 0),
             Scene("freelancer", TRUE, FALSE, 2, TRUE, 1, 1, 1, 0),
             Scene("freelancer", TRUE, FALSE, 1, TRUE, 1, 0, 1, 1),
             Scene("admin", TRUE, TRUE, 1, TRUE, 1, 1, 2, 0),
             Scene("admin", TRUE, FALSE, 1, TRUE, 1, 0, 2, 1)}

MCAccounts == {ann, bob, root}
Visit(a, as, ts, ns) == [app |-> a, people |-> as, tabs |-> ts, calls |-> ns]
MCBrowsers == {Visit("users", {ann}, {t1}, {n1, n2}), Visit("users", {ann, bob}, {t1, t2}, {n1}),
               Visit("admin", {root}, {t1}, {n1, n2})}

Talk(u, b, s, ps, m, d) == [user |-> u, bond |-> b, windows |-> {t1}, sockets |-> s, posts |-> ps,
                            messages |-> m, drops |-> d]
MCChats == {Talk("freelancer", "none", TRUE, {n1}, 2, 0),
            Talk("freelancer", "active", TRUE, {n1, n2}, 2, 0),
            Talk("freelancer", "active", FALSE, {n1, n2}, 3, 0),
            Talk("client", "none", TRUE, {n1}, 3, 0), Talk("client", "none", TRUE, {n1}, 2, 1)}

-----------------------------------------------------------------------------
One(S) == CHOOSE s \in S : TRUE

Parts == {"pages", "session", "factor", "throttle", "chat", "hearing"}

BrowserInit ==
    /\ part \in Parts
    /\ PagesInit /\ (part = "pages" \/ lens = "admin")
    /\ SessionInit /\ (part = "session" \/ (browser = One(Browsers) /\ users[ann] = "active"))
    /\ FactorInit
    /\ ThrottleInit
    /\ ChatInit /\ (part = "chat" \/ talk = One(Chats))
    /\ DisputeChatInit /\ (part = "hearing" \/ whose = One(Staff))

BrowserNext ==
    /\ UNCHANGED part
    /\ \/ part = "pages" /\ PagesNext /\ UNCHANGED <<sessionVars, factorVars, throttleVars, chatVars, disputeChatVars>>
       \/ part = "session" /\ SessionNext /\ UNCHANGED <<pageVars, factorVars, throttleVars, chatVars, disputeChatVars>>
       \/ part = "factor" /\ FactorNext /\ UNCHANGED <<pageVars, sessionVars, throttleVars, chatVars, disputeChatVars>>
       \/ part = "throttle" /\ ThrottleNext /\ UNCHANGED <<pageVars, sessionVars, factorVars, chatVars, disputeChatVars>>
       \/ part = "chat" /\ ChatNext /\ UNCHANGED <<pageVars, sessionVars, factorVars, throttleVars, disputeChatVars>>
       \/ part = "hearing" /\ DisputeChatNext /\ UNCHANGED <<pageVars, sessionVars, factorVars, throttleVars, chatVars>>

\* The fairness of each part, in the behaviours that are about it.
BrowserFairness ==
    /\ WF_pageVars(part = "pages" /\ Age) /\ WF_pageVars(part = "pages" /\ Fetch)
    /\ WF_pageVars(part = "pages" /\ \E f \in flows : Serve(f))
    /\ WF_pageVars(part = "pages" /\ \E f \in flows : Continue(f))
    /\ WF_pageVars(part = "pages" /\ \E f \in flows : ReadArrives(f))
    /\ \A n \in Calls : WF_sessionVars(part = "session" /\ Settled(n))
    /\ WF_disputeChatVars(part = "hearing" /\ Poll) /\ WF_disputeChatVars(part = "hearing" /\ Polled)
    /\ SF_disputeChatVars(part = "hearing" /\ ReadNotes)
    /\ SF_disputeChatVars(part = "hearing" /\ ShowNotes)

BrowserSpec ==
    BrowserInit /\ [][BrowserNext]_<<part, pageVars, sessionVars, factorVars, throttleVars, chatVars, disputeChatVars>>
                /\ BrowserFairness

-----------------------------------------------------------------------------
(* Every part keeps to its types: the pages and the chain behind them, the *)
(* session, the second factor, the limit on codes and both chats.          *)
BrowserTypeOK == /\ PagesTypeOK /\ SessionTypeOK /\ FactorTypeOK /\ ThrottleTypeOK
                 /\ ChatTypeOK /\ DisputeChatTypeOK
=============================================================================
