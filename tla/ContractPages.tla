---------------------------- MODULE ContractPages ----------------------------
(***************************************************************************)
(* The pages that work on one contract: the client's and the freelancer's  *)
(* "My Contracts" (frontend/src/pages/client and /freelancer, MyContracts  *)
(* .js) and the administrator's dispute list (pages/admin/AdminDisputes    *)
(* .js), with the wallet they call (services/web3.js) and the handlers and *)
(* the chain behind them.  A page shows a copy of the contract's row, lets *)
(* its user do what the copy allows, writes what it expects into the copy  *)
(* before the answer comes, and polls.  The browser answers a poll from    *)
(* its HTTP cache, as the API's Cache-Control header tells it to           *)
(* (backend/app/middleware/cache.py).                                      *)
(*                                                                         *)
(* One page is under the lens in a behaviour; the other parties act by     *)
(* themselves, whenever the server lets them.  A handler is one step here: *)
(* ContractService models what happens inside one.  The chain is the       *)
(* module this one extends, with the contract created.  The listener       *)
(* writes what it has read of the chain, late, by event name and again     *)
(* after a crash; EventListener models its cycle.                          *)
(*                                                                         *)
(* Abstracted: names, amounts, dates, tabs, toasts, user names, history    *)
(* and layout; the chat panels (module Chat); a second contract.           *)
(***************************************************************************)
EXTENDS GigEscrow

CONSTANTS Client, Freelancer, \* the wallets of the two parties
          Amounts,            \* the amounts of the contract's milestones
          Scenes              \* the pages looked at, and the bounds of each behaviour

ASSUME PagePartyAssumption ==
    /\ {Client, Freelancer} \subseteq Address \ {Owner}
    /\ Client # Freelancer
ASSUME SceneAssumption ==
    Scenes \subseteq [lens : {"client", "freelancer", "admin"}, \* whose page is modelled
                     signed : BOOLEAN,  \* both parties have signed at the start
                     slow : BOOLEAN,    \* the answer to a read takes its time
                     behind : Nat,      \* bound on the blocks the listener has not processed
                     quarrel : BOOLEAN, \* a party may raise a dispute
                     deposits : Nat,    \* bound on the deposits
                     rejects : Nat,     \* bound on rejected deliverables
                     flows : Nat,       \* bound on the requests and prompts a page has open
                     mishaps : Nat]     \* bound on lost answers, failures, reloads, replays
\* The contract was created by createContract.
ASSUME PageDealAssumption ==
    /\ Amounts \in AmountLists /\ Len(Amounts) = MaxMilestones
    /\ SumFunction(Amounts) \in Totals
    /\ MaxContracts > 0

VARIABLES row,       \* the contract's row with its milestones
          dispute,   \* the status of its dispute row, with the decision
          unread,    \* the chain's blocks after the listener's last processed one
          scene,     \* the page and the bounds, for good
          list,      \* the page's copy: allContracts, contracts
          cache,     \* the browser's cached answer to GET /contracts
          modal,     \* the copy the client's details were opened with
          disputes,  \* the administrator's copy of the dispute row
          flows,     \* what the page's handlers and polls wait for
          busy,      \* actionLoading, submitting, resolving
          rejects,   \* what scene.rejects bounds ...
          mishaps    \* ... and scene.mishaps

pageVars == <<chainVars, row, dispute, unread, scene, list, cache, modal, disputes, flows,
              busy, rejects, mishaps>>
serverVars == <<chainVars, row, dispute, unread>>
viewVars == <<scene, list, cache, modal, disputes, busy>>
boundVars == <<rejects, mishaps>>

Nothing == [status |-> "nothing"] \* no copy: still loading, or closed
NoCache == [age |-> "none", copy |-> Nothing]
Deal == SumFunction(Amounts)
lens == scene.lens

\* As the client has posted the contract, or as both parties have signed it.
PagesInit ==
    /\ scene \in Scenes
    /\ contractCounter = 1
    /\ contracts = [c \in Ids |-> IF c = 1
                      THEN [NoEscrow EXCEPT !.client = Client, !.totalAmount = Deal,
                                            !.freelancer = IF scene.signed THEN Freelancer ELSE @,
                                            !.milestoneCount = Len(Amounts)]
                      ELSE NoEscrow]
    /\ milestones = [c \in Ids |-> [i \in Indices |->
                      IF c = 1 THEN [NoMilestone EXCEPT !.amount = Amounts[i + 1]] ELSE NoMilestone]]
    /\ balance = 0 /\ emitted = <<>>
    /\ deposited = [c \in Ids |-> 0] /\ paid = [c \in Ids |-> NothingPaid]
    /\ row = [status |-> IF scene.signed THEN "pending_funding" ELSE "pending_signatures",
              hired |-> scene.signed,
              signed |-> [p \in {"client", "freelancer"} |-> scene.signed],
              ms |-> [i \in Indices |-> [status |-> "pending", cid |-> NoCid]]]
    /\ dispute = "none" /\ unread = <<>>
    /\ list = Nothing /\ cache = NoCache /\ modal = Nothing /\ disputes = "none"
    /\ flows = {} /\ busy = FALSE
    /\ rejects = 0 /\ mishaps = 0

-----------------------------------------------------------------------------
(* The handlers: whether one is accepted, and what it does.  A handler     *)
(* that is not accepted answers with an error and changes nothing.         *)

CanAccept == ~row.hired /\ CanSetFreelancer(Owner, 1, Freelancer)
Accept == /\ CanAccept
          /\ SetFreelancer(Owner, 1, Freelancer)
          /\ row' = [row EXCEPT !.hired = TRUE]
          /\ UNCHANGED dispute

CanSign(p) == ~row.signed[p] /\ (p = "freelancer" => row.hired)
Sign(p) ==
    LET r == [row EXCEPT !.signed[p] = TRUE]
        both == r.signed["client"] /\ r.signed["freelancer"]
    IN
    /\ CanSign(p)
    /\ row' = IF both /\ r.status \in {"pending_signatures", "pending_funding"}
              THEN [r EXCEPT !.status = "pending_funding"] ELSE r
    /\ UNCHANGED <<chainVars, dispute>>

\* fundContract, from the client's wallet.
Deposit == /\ deposited[1] < Deal * scene.deposits
           /\ FundContract(Client, 1, Deal)

CanRecordFunding == /\ row.status \in {"pending_funding", "active"}
                    /\ contracts[1].status = "InProgress"
RecordFunding ==
    /\ CanRecordFunding
    /\ row' = [row EXCEPT !.status = "active",
                          !.ms = [i \in Indices |-> [@[i] EXCEPT !.status = "in_progress"]]]
    /\ UNCHANGED <<chainVars, dispute>>

CanDeliver(i, cid) == /\ row.hired
                      /\ row.ms[i].status \in {"pending", "in_progress"}
                      /\ CanSubmit(Owner, 1, i, cid)
Deliver(i, cid) == /\ CanDeliver(i, cid)
                   /\ SubmitMilestone(Owner, 1, i, cid)
                   /\ row' = [row EXCEPT !.ms[i] = [status |-> "submitted", cid |-> cid]]
                   /\ UNCHANGED dispute

CanSendBack(i) == row.ms[i].status = "submitted" /\ CanReject(Owner, 1, i)
SendBack(i) == /\ CanSendBack(i)
               /\ RejectMilestone(Owner, 1, i)
               /\ row' = [row EXCEPT !.ms[i] = [status |-> "in_progress", cid |-> NoCid]]
               /\ UNCHANGED dispute

CanDispute == /\ row.status \notin {"completed", "cancelled"}
              /\ dispute # "open"
              /\ CanRaise(Owner, 1)
Dispute == /\ CanDispute
           /\ RaiseDispute(Owner, 1)
           /\ row' = [row EXCEPT !.status = "disputed"]
           /\ dispute' = "open"

CanDecide == dispute = "open" /\ CanResolve(Owner, 1)
Decide(release) ==
    /\ CanDecide
    /\ ResolveDispute(Owner, 1, release)
    /\ dispute' = IF release THEN "released" ELSE "refunded"
    /\ row' = [row EXCEPT !.status = IF release THEN "completed" ELSE "cancelled"]

DeleteDispute == /\ dispute # "none"
                 /\ dispute' = "none"
                 /\ UNCHANGED <<chainVars, row>>

Mishap == mishaps < scene.mishaps /\ mishaps' = mishaps + 1 /\ UNCHANGED rejects

-----------------------------------------------------------------------------
(* The listener: each transaction is a block of its own, and the blocks it *)
(* has not processed wait for it.  No page has a contract cancelled on the *)
(* chain, and this one was created before the page was opened.             *)

Listened == {"MilestoneSubmitted", "MilestoneApproved", "MilestoneRejected",
             "ContractCompleted", "DisputeRaised", "DisputeResolved"}

\* A transaction, if there is one, leaves its logs; a submission's name the deliverable.
BlockMined == [logs |-> Range(emitted),
               cids |-> [i \in Indices |-> milestones[1][i].deliverableCID]]
Mined ==
    /\ unread' = IF UNCHANGED chainVars \/ \A e \in Range(emitted') : e.name \notin Listened
                 THEN unread ELSE Append(unread, BlockMined')
    /\ Len(unread') <= scene.behind

\* The logs of one name in the first n blocks, each with the number of its block: none if
\* the name was not heard of.
LogsOf(n, heard, name) ==
    {t \in (1 .. n) \X UNION {unread[b].logs : b \in 1 .. n} :
        name \in heard /\ t[2] \in unread[t[1]].logs /\ t[2].name = name}
\* The blocks with such a log about milestone i.
BlocksOf(n, heard, name, i) == {t[1] : t \in {u \in LogsOf(n, heard, name) : u[2].index = i}}

\* A batch is applied name by name, so the name applied last decides; a rejection keeps
\* the deliverable.
HeardMilestone(n, heard, i) ==
    LET sent == BlocksOf(n, heard, "MilestoneSubmitted", i) IN
    [status |-> IF BlocksOf(n, heard, "MilestoneRejected", i) # {} THEN "in_progress"
                ELSE IF BlocksOf(n, heard, "MilestoneApproved", i) # {} THEN "approved"
                ELSE IF sent # {} THEN "submitted" ELSE row.ms[i].status,
     cid |-> IF sent = {} THEN row.ms[i].cid
             ELSE unread[CHOOSE b \in sent : \A a \in sent : a <= b].cids[i]]
HeardStatus(n, heard) ==
    IF LogsOf(n, heard, "ContractCompleted") # {} THEN "completed" ELSE row.status
\* The decision of a resolved dispute is always taken for a release
\* (process_dispute_resolved); no event makes a dispute's row.
HeardDispute(n, heard) ==
    IF dispute = "none" THEN dispute
    ELSE IF LogsOf(n, heard, "DisputeResolved") # {} THEN "released"
    ELSE IF LogsOf(n, heard, "DisputeRaised") # {} THEN "open" ELSE dispute

\* One cycle over the first n blocks, committed at once.  The reads of some names may fail,
\* and are passed over; and a crash, or an error of Redis, after the commit has the batch
\* applied again.
Listen ==
    \E n \in 1 .. Len(unread), heard \in SUBSET Listened, again \in BOOLEAN :
        /\ \A name \in Listened \ heard : LogsOf(n, Listened, name) # {}
        /\ row' = [row EXCEPT !.ms = [i \in Indices |-> HeardMilestone(n, heard, i)],
                              !.status = HeardStatus(n, heard)]
        /\ dispute' = HeardDispute(n, heard)
        /\ unread' = IF again THEN unread ELSE SubSeq(unread, n + 1, Len(unread))
        /\ IF again \/ heard # Listened THEN Mishap ELSE UNCHANGED boundVars
        /\ UNCHANGED chainVars

-----------------------------------------------------------------------------
(* The other parties, at work on pages of their own.                       *)

FreelancerElsewhere ==
    /\ lens # "freelancer"
    /\ \/ Sign("freelancer")
       \/ \E i \in Indices, cid \in Cid : Deliver(i, cid)
       \/ scene.quarrel /\ Dispute

ClientElsewhere ==
    /\ lens # "client"
    /\ \/ Accept
       \/ Sign("client")
       \/ Deposit /\ UNCHANGED <<row, dispute>>
       \/ RecordFunding
       \/ \E i \in Indices : ApproveMilestone(Client, 1, i) /\ UNCHANGED <<row, dispute>>
    /\ UNCHANGED rejects

RejectedElsewhere ==
    /\ lens # "client" /\ rejects < scene.rejects
    /\ \E i \in Indices : SendBack(i)
    /\ rejects' = rejects + 1

AdminElsewhere == \E release \in BOOLEAN : Decide(release)

PartiesElsewhere ==
    /\ \/ (FreelancerElsewhere \/ AdminElsewhere) /\ UNCHANGED rejects
       \/ ClientElsewhere \/ RejectedElsewhere
    /\ Mined
    /\ UNCHANGED mishaps

Elsewhere == (PartiesElsewhere \/ Listen) /\ UNCHANGED <<viewVars, flows>>

-----------------------------------------------------------------------------
(* A handler of a page, from its click to its last answer.                 *)

Flow(op, i, cid, stage) ==
    [op |-> op, index |-> i, cid |-> cid, stage |-> stage, live |-> TRUE, answer |-> Nothing]
Move(f, stage) == flows' = (flows \ {f}) \union {[f EXCEPT !.stage = stage]}
Drop(f) == flows' = flows \ {f}
Polling(f) == f.op \in {"read", "refresh"}
Pending(op) == {f \in flows : f.op = op /\ f.live}

\* The click itself: what it shows at once and which button it disables are its caller's.
Begin(op, i, cid, stage) ==
    /\ Cardinality({f \in flows : ~Polling(f)}) < scene.flows
    /\ flows' = flows \union {Flow(op, i, cid, stage)}
    /\ UNCHANGED <<serverVars, scene, cache, modal, disputes, mishaps>>

-----------------------------------------------------------------------------
(* GET /contracts through the browser's cache: ten seconds fresh, thirty   *)
(* more during which the old answer is used and a new one fetched; the     *)
(* administrator's list is never cached.  The server's answer is made at   *)
(* once and arrives later, in any order, or not at all.                    *)

Mine == CASE lens = "admin" -> [status |-> dispute]
          [] lens = "freelancer" /\ ~row.hired -> Nothing
          [] OTHER -> row

AskList(f) == [f EXCEPT !.stage = "reading", !.answer = Mine]
PollFor(op) == AskList(Flow(op, 0, NoCid, "sent"))

\* From the cache, which a stale answer has refreshed behind the page's back.
GetOldAgain(left) == \* mutant: a stale answer is taken for a fresh one
    /\ cache.age # "none"
    /\ list' = cache.copy
    /\ cache' = [cache EXCEPT !.age = "fresh"]
    /\ flows' = left
Get(left) ==
    /\ cache.age # "none"
    /\ list' = cache.copy
    /\ flows' = IF cache.age = "fresh" \/ \E f \in left : f.op = "refresh" THEN left
                ELSE left \union {PollFor("refresh")}
    /\ UNCHANGED cache

\* A page has one poll under way: a second one would wait for the cache's first.
StartPoll ==
    /\ ~\E f \in flows : Polling(f)
    /\ flows' = flows \union {PollFor("read")}
    /\ UNCHANGED <<list, cache>>
FetchContracts == Get(flows) \/ (cache.age = "none" /\ StartPoll)

Age == /\ cache.age # "none"
       /\ cache' = IF cache.age = "fresh" THEN [cache EXCEPT !.age = "stale"] ELSE NoCache
       /\ UNCHANGED <<serverVars, scene, list, modal, disputes, busy, flows, boundVars>>

Has(copy, i) == copy # Nothing /\ i \in DOMAIN copy.ms
Disputable == {"active", "pending_signatures", "pending_funding", "disputed"}

ShowMilestone(i, status) == IF Has(list, i) THEN [list EXCEPT !.ms[i].status = status] ELSE list
ShowDisputed == IF list = Nothing THEN list ELSE [list EXCEPT !.status = "disputed"]

-----------------------------------------------------------------------------
(* The client's page.  Its details are a copy of the list's entry, taken   *)
(* when they are opened; its buttons wait for actionLoading.               *)

\* Mounting, the ten-second poll and the Refresh button.
ClientFetch ==
    /\ lens = "client"
    /\ FetchContracts
    /\ UNCHANGED <<serverVars, scene, modal, disputes, busy, boundVars>>

OpenDetails ==
    /\ lens = "client" /\ list # Nothing
    /\ modal' = list
    /\ UNCHANGED <<serverVars, scene, list, cache, disputes, busy, flows, boundVars>>

CloseDetails ==
    /\ modal # Nothing
    /\ modal' = Nothing
    /\ UNCHANGED <<serverVars, scene, list, cache, disputes, busy, flows, boundVars>>

ReviewOffered(i) == Has(modal, i) /\ modal.ms[i].status = "submitted"
HireOffered == modal # Nothing /\ ~modal.hired
FundOffered == list.status = "pending_funding"
ClientSignOffered == list.status = "pending_signatures" /\ ~list.signed["client"] /\ list.hired
ClientDisputeOffered == modal.status \in Disputable

ClickApproveEarly(i) == \* mutant: the approval is shown before the wallet has made it
    /\ ReviewOffered(i) /\ ~busy
    /\ Begin("approve", i, NoCid, "wallet")
    /\ list' = ShowMilestone(i, "approved") /\ UNCHANGED <<busy, rejects>>
\* The wallet is asked before the page counts as busy.
ClickApprove(i) ==
    /\ ReviewOffered(i) /\ ~busy
    /\ Begin("approve", i, NoCid, "wallet")
    /\ UNCHANGED <<list, busy, rejects>>

\* The reason is asked in a dialog over the details, during which they do not change.  The
\* page shows the rejection at once.
ClickReject(i) ==
    /\ ReviewOffered(i) /\ ~busy
    /\ rejects < scene.rejects /\ rejects' = rejects + 1
    /\ Begin("reject", i, NoCid, "sent")
    /\ list' = ShowMilestone(i, "rejected") /\ busy' = TRUE

ClickHire == /\ HireOffered /\ ~busy
             /\ Begin("hire", 0, NoCid, "sent")
             /\ busy' = TRUE /\ UNCHANGED <<list, rejects>>

ClickFund == /\ lens = "client" /\ FundOffered /\ ~busy
             /\ Begin("fund", 0, NoCid, "wallet")
             /\ busy' = TRUE /\ UNCHANGED <<list, rejects>>

ClientSigns == /\ lens = "client" /\ ClientSignOffered /\ ~busy
               /\ Begin("sign", 0, NoCid, "sent")
               /\ busy' = TRUE /\ UNCHANGED <<list, rejects>>

ClientDisputes == /\ scene.quarrel /\ ClientDisputeOffered /\ ~busy
                  /\ Begin("dispute", 0, NoCid, "sent")
                  /\ list' = ShowDisputed /\ busy' = TRUE /\ UNCHANGED rejects

ClientClicks ==
    \/ OpenDetails \/ CloseDetails
    \/ \E i \in Indices : ClickApprove(i) \/ ClickReject(i)
    \/ ClickHire \/ ClickFund \/ ClientSigns \/ ClientDisputes

AfterWalletForgotten(f) == Drop(f) \* mutant: the API is not told of the transaction
\* A prompt outlives its page: the transaction may be confirmed after a reload.
AfterWallet(f) == IF f.live THEN Move(f, "mined") ELSE Drop(f)

WalletConfirms(f) ==
    /\ f.stage = "wallet"
    /\ \/ f.op = "approve" /\ ApproveMilestone(Client, 1, f.index)
       \/ f.op = "fund" /\ Deposit
    /\ Mined
    /\ AfterWallet(f)
    /\ UNCHANGED <<row, dispute, viewVars, boundVars>>

\* The user declines, the wallet is on no such network, or the transaction reverts: an
\* approval just ends; a funding has failed.
WalletRefuses(f) ==
    /\ f.stage = "wallet"
    /\ IF f.op = "fund" /\ f.live THEN Move(f, "error") ELSE Drop(f)
    /\ UNCHANGED <<serverVars, viewVars, boundVars>>

\* The page goes on to the API; it shows an approval only now.
PostAfterWallet(f) ==
    /\ f.stage = "mined"
    /\ Move(f, "sent")
    /\ list' = IF f.op = "approve" THEN ShowMilestone(f.index, "approved") ELSE list
    /\ busy' = TRUE
    /\ UNCHANGED <<serverVars, scene, cache, modal, disputes, boundVars>>

\* The answer to a signature or a deposit is a contract without its milestones.
formatContract(answer) == [answer EXCEPT !.ms = <<>>]

ClientSucceeds(f) ==
    /\ Drop(f)
    /\ list' = IF list = Nothing THEN list
               ELSE IF f.op = "hire" THEN [list EXCEPT !.hired = TRUE]
               ELSE IF f.op \in {"sign", "fund"} THEN formatContract(f.answer) ELSE list
    /\ modal' = IF f.op \in {"reject", "dispute", "hire"} THEN Nothing ELSE modal
    /\ busy' = FALSE
    /\ UNCHANGED disputes

-----------------------------------------------------------------------------
(* The freelancer's page.  Its details follow the list.                    *)

FreelancerFetch ==
    /\ lens = "freelancer"
    /\ FetchContracts
    /\ UNCHANGED <<serverVars, scene, modal, disputes, busy, boundVars>>

SubmitOffered(i) == /\ Has(list, i) /\ list.status = "active"
                    /\ list.ms[i].status \in {"pending", "in_progress"}
FreelancerSignOffered == list.status = "pending_signatures" /\ ~list.signed["freelancer"]
FreelancerDisputeOffered == list.status \in Disputable

\* The file goes to IPFS first.
ClickSubmit(i, cid) ==
    /\ lens = "freelancer" /\ SubmitOffered(i) /\ ~busy
    /\ Begin("submit", i, cid, "upload")
    /\ busy' = TRUE /\ UNCHANGED <<list, rejects>>

Uploaded(f) ==
    /\ f.stage = "upload"
    /\ \/ Move(f, "sent") /\ UNCHANGED busy
       \/ Drop(f) /\ busy' = FALSE
    /\ UNCHANGED <<serverVars, scene, list, cache, modal, disputes, boundVars>>

\* The button in the list is not disabled while a signature is on its way.
FreelancerSigns ==
    /\ lens = "freelancer" /\ FreelancerSignOffered
    /\ Begin("sign", 0, NoCid, "sent")
    /\ busy' = TRUE /\ UNCHANGED <<list, rejects>>

FreelancerDisputes ==
    /\ lens = "freelancer" /\ scene.quarrel /\ FreelancerDisputeOffered
    /\ Pending("dispute") = {}
    /\ Begin("dispute", 0, NoCid, "sent")
    /\ list' = ShowDisputed /\ UNCHANGED <<busy, rejects>>

FreelancerClicks ==
    \/ \E i \in Indices, cid \in Cid : ClickSubmit(i, cid)
    \/ FreelancerSigns \/ FreelancerDisputes

\* A dispute leaves the button's state alone.
Freed(f) == IF lens = "freelancer" /\ f.op = "dispute" THEN busy ELSE FALSE

FreelancerSucceeds(f) ==
    /\ Drop(f)
    /\ list' = CASE list = Nothing -> list
                 [] f.op = "submit" /\ Has(list, f.index) ->
                        [list EXCEPT !.ms[f.index] = f.answer.ms[f.index]]
                 [] f.op = "sign" -> f.answer
                 [] OTHER -> list
    /\ busy' = Freed(f)
    /\ UNCHANGED <<modal, disputes>>

-----------------------------------------------------------------------------
(* The administrator's page.                                               *)

AdminFetch ==
    /\ lens = "admin"
    /\ StartPoll
    /\ UNCHANGED <<serverVars, scene, modal, disputes, busy, boundVars>>

DecisionOffered == disputes = "open"
DeletionOffered == disputes \in {"released", "refunded"}

ClickDecide(decision) ==
    /\ lens = "admin" /\ DecisionOffered /\ ~busy
    /\ Begin(decision, 0, NoCid, "sent")
    /\ busy' = TRUE /\ UNCHANGED <<list, rejects>>

ClickDelete == /\ lens = "admin" /\ DeletionOffered
               /\ Begin("delete", 0, NoCid, "sent")
               /\ UNCHANGED <<list, busy, rejects>>

AdminClicks == (\E decision \in {"release", "refund"} : ClickDecide(decision)) \/ ClickDelete

\* The list is read again, but not waited for.
AdminSucceeds(f) == /\ flows' = (flows \ {f}) \union {AskList(f)}
                    /\ busy' = (busy /\ f.op = "delete")
                    /\ UNCHANGED <<list, modal, disputes>>
AdminFails(f) == Drop(f) /\ busy' = (busy /\ f.op = "delete") /\ UNCHANGED <<list, cache>>

-----------------------------------------------------------------------------
(* The server's part of a request, and the answer.                         *)

\* POST .../approve after the wallet's approval finds the milestone approved on chain: the
\* backend's own transaction reverts, and the request fails.
Handle(f) ==
    \/ f.op = "hire" /\ Accept
    \/ f.op = "sign" /\ Sign(lens)
    \/ f.op = "fund" /\ RecordFunding
    \/ f.op = "submit" /\ Deliver(f.index, f.cid)
    \/ f.op = "reject" /\ SendBack(f.index)
    \/ f.op = "dispute" /\ Dispute
    \/ f.op \in {"release", "refund"} /\ Decide(f.op = "release")
    \/ f.op = "delete" /\ DeleteDispute

CanHandle(f) ==
    \/ f.op = "hire" /\ CanAccept
    \/ f.op = "sign" /\ CanSign(lens)
    \/ f.op = "fund" /\ CanRecordFunding
    \/ f.op = "submit" /\ CanDeliver(f.index, f.cid)
    \/ f.op = "reject" /\ CanSendBack(f.index)
    \/ f.op = "dispute" /\ CanDispute
    \/ f.op \in {"release", "refund"} /\ CanDecide
    \/ f.op = "delete" /\ dispute # "none"

\* The answer reaches the page, or nobody if the page is gone.
Answer(f, stage, answer) ==
    flows' = (flows \ {f}) \union
             (IF f.live THEN {[f EXCEPT !.stage = stage, !.answer = answer]} ELSE {})

Serve(f) ==
    /\ f.stage = "sent"
    /\ \/ /\ Handle(f) /\ Mined
          /\ Answer(f, "ok", IF f.op \in {"sign", "fund", "submit"} THEN row' ELSE Nothing)
          /\ UNCHANGED boundVars
       \/ Handle(f) /\ Mined /\ Mishap /\ Answer(f, "error", Nothing)
       \/ ~CanHandle(f) /\ Answer(f, "error", Nothing) /\ UNCHANGED <<serverVars, boundVars>>
       \/ Mishap /\ Answer(f, "error", Nothing) /\ UNCHANGED serverVars
    /\ UNCHANGED viewVars

-----------------------------------------------------------------------------
(* The page's part after the answer.                                       *)

Succeed(f) ==
    /\ f.stage = "ok"
    /\ \/ lens = "client" /\ ClientSucceeds(f)
       \/ lens = "freelancer" /\ FreelancerSucceeds(f)
       \/ lens = "admin" /\ AdminSucceeds(f)
    /\ UNCHANGED <<serverVars, scene, cache, boundVars>>

\* A party's page reads its list again before its buttons are free.
ReadAgain(f) ==
    \/ Get(flows \ {f}) /\ busy' = Freed(f)
    \/ /\ cache.age = "none"
       /\ flows' = (flows \ {f}) \union {AskList(f)}
       /\ UNCHANGED <<list, cache, busy>>

Fail(f) ==
    /\ f.stage = "error"
    /\ \/ lens # "admin" /\ ReadAgain(f)
       \/ lens = "admin" /\ AdminFails(f)
    /\ UNCHANGED <<serverVars, scene, modal, disputes, boundVars>>

\* The answer to a read, which a refresh keeps from the page; a read that fails shows an
\* error and leaves the list as it was.
ReadArrives(f) ==
    /\ f.stage = "reading"
    /\ Drop(f)
    /\ busy' = IF Polling(f) \/ lens = "admin" THEN busy ELSE Freed(f)
    /\ \/ /\ IF lens = "admin" THEN disputes' = f.answer.status /\ UNCHANGED <<list, cache>>
             ELSE /\ list' = IF f.op = "refresh" THEN list ELSE f.answer
                  /\ cache' = [age |-> "fresh", copy |-> f.answer]
                  /\ UNCHANGED disputes
          /\ UNCHANGED boundVars
       \/ Mishap /\ UNCHANGED <<list, cache, disputes>>
    /\ UNCHANGED <<serverVars, scene, modal>>

Fetch == ClientFetch \/ FreelancerFetch \/ AdminFetch
Continue(f) == PostAfterWallet(f) \/ Uploaded(f) \/ Succeed(f) \/ Fail(f)

\* The page is reloaded: its state and its handlers are gone; a request the server has not
\* got round to and a wallet prompt are not.
Reload ==
    /\ Mishap
    /\ flows' = {[f EXCEPT !.live = FALSE] : f \in {g \in flows : g.stage \in {"wallet", "sent"}}}
    /\ list' = Nothing /\ modal' = Nothing /\ disputes' = "none" /\ busy' = FALSE
    /\ UNCHANGED <<serverVars, scene, cache>>

\* What may happen while an answer to a read is on its way.
Meanwhile ==
    \/ Elsewhere
    \/ Age \/ Fetch
    \/ ClientClicks \/ FreelancerClicks \/ AdminClicks
    \/ \E f \in flows : WalletConfirms(f) \/ WalletRefuses(f) \/ Serve(f) \/ Continue(f)
    \/ Reload

PagesNext ==
    \/ (scene.slow \/ \A f \in flows : f.stage # "reading") /\ Meanwhile
    \/ \E f \in flows : ReadArrives(f)

Operations == {"hire", "sign", "fund", "submit", "reject", "dispute", "release", "refund",
               "delete", "approve", "read", "refresh"}

\* Time passes and the polls go on; the server answers, and the page goes on with the
\* answer.  Nothing makes a user click, a wallet confirm, another party act or the
\* listener read.
PagesFairness ==
    /\ WF_pageVars(Age) /\ WF_pageVars(Fetch)
    /\ WF_pageVars(\E f \in flows : Serve(f)) /\ WF_pageVars(\E f \in flows : Continue(f))
    /\ WF_pageVars(\E f \in flows : ReadArrives(f))

PagesSpec == PagesInit /\ [][PagesNext]_pageVars /\ PagesFairness

-----------------------------------------------------------------------------
(* What the pages promise.                                                 *)

RowStatus == {"pending_signatures", "pending_funding", "active", "completed", "cancelled",
              "disputed"}
MsRow == [status : {"pending", "in_progress", "submitted", "approved", "rejected"},
          cid : Cid \union {NoCid}]
Copy == [status : RowStatus, hired : BOOLEAN, signed : [{"client", "freelancer"} -> BOOLEAN],
         ms : [Indices -> MsRow] \union {<<>>}]
DisputeStatus == {"none", "open", "released", "refunded"}
FlowStage == {"upload", "wallet", "mined", "sent", "ok", "error", "reading"}
Block == [logs : SUBSET Event, cids : [Indices -> Cid \union {NoCid}]]

PagesTypeOK ==
    /\ TypeOK
    /\ {row} \union {list, modal, cache.copy} \subseteq Copy \union {Nothing} /\ row # Nothing
    /\ cache.age \in {"none", "fresh", "stale"} /\ (cache.age = "none" => cache = NoCache)
    /\ {dispute, disputes} \subseteq DisputeStatus
    /\ Len(unread) \in Nat /\ \A b \in 1 .. Len(unread) : unread[b] \in Block
    /\ scene \in Scenes /\ busy \in BOOLEAN
    /\ flows \subseteq [op : Operations, index : Indices, cid : Cid \union {NoCid}, live : BOOLEAN,
                        stage : FlowStage,
                        answer : Copy \union {Nothing} \union [status : DisputeStatus]]
    /\ rejects \in 0 .. scene.rejects /\ mishaps \in 0 .. scene.mishaps

\* No page is ahead of the chain, whatever it wrote into its copy before the answer came
\* and however old the answer was: a milestone shown as paid has been paid, a contract
\* shown as active has been funded, one shown as completed or cancelled is settled.
PagesNeverAhead ==
    \A copy \in {list, modal} \ {Nothing} :
        /\ \A i \in DOMAIN copy.ms : copy.ms[i].status = "approved"
                                     => milestones[1][i].status = "Approved"
        /\ copy.status = "active" => deposited[1] = Deal
        /\ copy.status = "completed" => contracts[1].status = "Completed"
        /\ copy.status = "cancelled" => contracts[1].status = "Cancelled"

\* A deposit made from the page is recorded, unless the page is reloaded or a request
\* fails on the way (then it never is: the page only offers to deposit again, and the
\* chain refuses).
DepositRecorded ==
    []<>~(lens = "client" /\ deposited[1] > 0 /\ row.status = "pending_funding" /\ mishaps = 0)

\* A page keeps catching up with the server, through the cache and whatever the page wrote
\* into its copy.
PageCatchesUp == []<>(IF lens = "admin" THEN disputes = dispute ELSE list = Mine)
=============================================================================
