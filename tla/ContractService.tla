--------------------------- MODULE ContractService ---------------------------
(***************************************************************************)
(* The backend's contract, milestone and dispute endpoints                 *)
(* (backend/app/routers/contracts.py, disputes.py and                      *)
(* services/contract_service.py): request handlers that read rows of       *)
(* PostgreSQL, send a transaction with the backend's key, and write the    *)
(* rows.  A handler gives up control at every await, so requests           *)
(* interleave between their reads, their transaction and their commit; a   *)
(* step here is what happens between two awaits that another request can   *)
(* tell apart.  The chain is the module this one extends.                  *)
(*                                                                         *)
(* An UPDATE names only the columns whose value differs from the one the   *)
(* handler has loaded (SQLAlchemy's unit of work), at read committed.      *)
(* Abstracted: authentication, audit rows and notifications; the listener, *)
(* which EventListener models.                                             *)
(***************************************************************************)
EXTENDS GigEscrow

CONSTANTS Row,      \* contracts rows that may be inserted
          Deal,     \* Row -> [client, freelancer, amounts, total]
          Caller,   \* the wallets that call the chain on their own
          Request,  \* requests the backend handles at a time
          MaxLost   \* bound on transactions mined after the backend gave up on them

ASSUME ServiceAssumption == Caller \subseteq Address /\ MaxLost \in Nat
ASSUME DealAssumption ==
    Deal \in [Row -> [client : Address, freelancer : Party,
                      amounts : AmountLists, total : Totals]]

VARIABLES row,      \* contracts: status, on_chain_id (0 for NULL), and who has signed
          ms,       \* contract_milestones.status, by row and index
          dispute,  \* disputes: status ("none" without a row) and decision
          req,      \* the handler of each request: where it is and what it has loaded
          lost,     \* what MaxLost bounds
          lateBound \* history: rows inserted, or taken to be, without a contract on chain

rowVars == <<row, ms, dispute>>
serviceVars == <<chainVars, rowVars, req, lost, lateBound>>

RowStatus == {"none", "pending_signatures", "pending_funding", "active", "completed",
              "cancelled", "disputed"}
MsStatus == {"pending", "in_progress", "submitted", "approved"}
Role == {"client", "freelancer"}

\* An UPDATE as the values of the columns it names; Keep for a column it does not.
Keep == "keep"
Set(value, loaded) == IF value = loaded THEN Keep ELSE value
NoWrite == [status |-> Keep, ms |-> [i \in Indices |-> Keep]]
Written(write, stored) == IF write = Keep THEN stored ELSE write

Idle == [pc |-> "idle"]

ServiceInit ==
    /\ Init
    /\ row = [r \in Row |-> [status |-> "none", id |-> 0, signed |-> {}]]
    /\ ms = [r \in Row |-> [i \in Indices |-> "pending"]]
    /\ dispute = [r \in Row |-> [status |-> "none", decision |-> "none"]]
    /\ req = [q \in Request |-> Idle]
    /\ lost = 0
    /\ lateBound = {}

-----------------------------------------------------------------------------
(* Row locks.  approve_milestone flushes its UPDATEs and awaits before it  *)
(* commits: until then the rows it has written are locked, and a handler   *)
(* that writes one of them waits.                                          *)

ContractRow == -1
Columns(write) == \* the rows an UPDATE writes: milestones by index, and the contract's
    {i \in Indices : write.ms[i] # Keep}
        \union (IF write.status # Keep THEN {ContractRow} ELSE {})

Flushed(p) == req[p].pc = "commit" /\ req[p].op = "approve"

Free(q, r, columns) ==
    \A p \in Request \ {q} : Flushed(p) /\ req[p].row = r =>
        columns \intersect Columns(req[p].write) = {}

Start(q, op, r, i, release, pc, write) ==
    req' = [req EXCEPT ![q] = [pc |-> pc, op |-> op, row |-> r, index |-> i,
                               release |-> release, id |-> row[r].id,
                               write |-> write]]
GoTo(q, pc) == req' = [req EXCEPT ![q].pc = pc]
Done(q) == req' = [req EXCEPT ![q] = Idle]

-----------------------------------------------------------------------------
(* What else touches the rows and the chain.                               *)

\* POST /contracts: the rows are invisible until the commit, after the transaction; a
\* creation that fails is logged and the row is committed without an on_chain_id.
InsertRow(r, id) ==
    row' = [row EXCEPT ![r] = [status |-> "pending_signatures", id |-> id, signed |-> {}]]

PostContract(r) ==
    /\ row[r].status = "none"
    /\ \/ /\ CreateContract(Deal[r].client, Deal[r].freelancer, Deal[r].total, Deal[r].amounts)
          /\ InsertRow(r, contractCounter')
          /\ UNCHANGED <<lost, lateBound>>
       \/ /\ CreateContract(Deal[r].client, Deal[r].freelancer, Deal[r].total, Deal[r].amounts)
          /\ lost < MaxLost
          /\ lost' = lost + 1
          /\ InsertRow(r, 0)
          /\ lateBound' = lateBound \union {r}
       \/ /\ InsertRow(r, 0)
          /\ lateBound' = lateBound \union {r}
          /\ UNCHANGED <<chainVars, lost>>
    /\ UNCHANGED <<ms, dispute, req>>

WalletTransaction ==
    /\ \E s \in Caller, c \in Ids : Call(s, c)
    /\ UNCHANGED <<rowVars, req, lost, lateBound>>

-----------------------------------------------------------------------------
(* POST /contracts/{id}/sign.  do_sign_contract commits the signature and  *)
(* reads the row again; when both have signed, the router looks the        *)
(* contract up on chain and creates it if it finds none.                   *)

SignRead(q, r, who) ==
    /\ req[q].pc = "idle"
    /\ row[r].status # "none"
    /\ who \notin row[r].signed
    /\ LET both == row[r].signed \union {who} = Role
           funding == both /\ row[r].id # 0 /\ row[r].status \in {"pending_signatures", "pending_funding"}
       IN Start(q, who, r, 0, FALSE, "sign",
                [NoWrite EXCEPT !.status = IF funding THEN Set("pending_funding", row[r].status)
                                                ELSE Keep])
    /\ UNCHANGED <<chainVars, rowVars, lost, lateBound>>

SignCommit(q) ==
    LET r == req[q].row
        new == [row[r] EXCEPT !.status = Written(req[q].write.status, @),
                              !.signed = @ \union {req[q].op}]
    IN
    /\ req[q].pc = "sign"
    /\ Free(q, r, {ContractRow})
    /\ row' = [row EXCEPT ![r] = new]
    /\ IF new.signed # Role THEN Done(q)
       ELSE req' = [req EXCEPT ![q].pc = IF new.id # 0 THEN "check" ELSE "create",
                               ![q].id = new.id,
                               ![q].write.status = Set("pending_funding", new.status)]
    /\ UNCHANGED <<chainVars, ms, dispute, lost, lateBound>>

\* get_contract_state: the contract is there, unless the call fails, which is taken to
\* mean that it is not.
SignCheck(q) ==
    /\ req[q].pc = "check"
    /\ \/ Done(q) /\ UNCHANGED lateBound
       \/ GoTo(q, "create") /\ lateBound' = lateBound \union {req[q].row}
    /\ UNCHANGED <<chainVars, rowVars, lost>>

\* The id create_contract_on_chain returned, or 0, is kept in index.  For a freelancer
\* without a wallet nothing is created, and the contract's status is left alone.
SignCreate(q) ==
    LET deal == Deal[req[q].row]
        Bind(id) == req' = [req EXCEPT ![q].pc = "bind", ![q].index = id]
    IN
    /\ req[q].pc = "create"
    /\ \/ /\ CreateContract(deal.client, deal.freelancer, deal.total, deal.amounts)
          /\ Bind(contractCounter')
          /\ UNCHANGED lost
       \/ /\ CreateContract(deal.client, deal.freelancer, deal.total, deal.amounts)
          /\ lost < MaxLost
          /\ lost' = lost + 1
          /\ Bind(0)
       \/ Bind(0) /\ UNCHANGED <<chainVars, lost>>
       \/ /\ req' = [req EXCEPT ![q].pc = "bind", ![q].index = 0, ![q].write = NoWrite]
          /\ UNCHANGED <<chainVars, lost>>
    /\ UNCHANGED <<rowVars, lateBound>>

SignBind(q) ==
    LET r == req[q].row
    IN
    /\ req[q].pc = "bind"
    /\ Free(q, r, {ContractRow})
    /\ row' = [row EXCEPT ![r].id = IF req[q].index = req[q].id THEN @ ELSE req[q].index,
                          ![r].status = Written(req[q].write.status, @)]
    /\ Done(q)
    /\ UNCHANGED <<chainVars, ms, dispute, lost, lateBound>>

-----------------------------------------------------------------------------
(* The endpoints that send one transaction (or, for fund, read the chain   *)
(* once) between their reads and their writes.  submitNote is a submission *)
(* without a deliverable, which is not sent to the chain.                  *)

MilestoneOperation == {"submit", "submitNote", "approve", "reject"}
Operation == MilestoneOperation \union {"dispute", "resolve", "fund"}

\* The checks before the transaction.
CanBegin(op, r, i) ==
    /\ row[r].status # "none"
    /\ \/ op \in {"submit", "submitNote"} /\ ms[r][i] \in {"pending", "in_progress"}
       \/ op \in {"approve", "reject"} /\ ms[r][i] = "submitted"
       \/ /\ op = "dispute"
          /\ row[r].status \notin {"completed", "cancelled"}
          /\ dispute[r].status # "open"
       \/ op = "resolve" /\ dispute[r].status = "open"
       \/ op = "fund" /\ row[r].status \in {"pending_funding", "active"} /\ row[r].id # 0

\* The status an endpoint gives its milestone.
MilestoneGoalRejected == \* mutant: a rejected milestone is left so
    [submit |-> "submitted", submitNote |-> "submitted", approve |-> "approved",
     reject |-> "rejected"]
MilestoneGoal ==
    [submit |-> "submitted", submitNote |-> "submitted", approve |-> "approved",
     reject |-> "in_progress"]

\* The UPDATEs the handler will issue; of an approval, if it is the last one.
Goal(op, r, i, release) ==
    LET ItsMilestone == [NoWrite EXCEPT !.ms[i] = MilestoneGoal[op]]
        Contract(status) == [NoWrite EXCEPT !.status = Set(status, row[r].status)]
    IN
    IF op = "approve" THEN [Contract("completed") EXCEPT !.ms = ItsMilestone.ms]
    ELSE IF op \in MilestoneOperation THEN ItsMilestone
    ELSE IF op = "dispute" THEN Contract("disputed")
    ELSE IF op = "resolve" THEN Contract(IF release THEN "completed" ELSE "cancelled")
    ELSE [Contract("active") EXCEPT !.ms = [j \in Indices |-> Set("in_progress", ms[r][j])]]

AfterTransaction(op) == IF op = "approve" THEN "decide" ELSE "commit"

SendsNoDispute(op, r) == op = "fund" \/ (row[r].id # 0 /\ op \notin {"submitNote", "dispute"}) \* mutant
Sends(op, r) == row[r].id # 0 /\ op # "submitNote"

Begin(q, op, r, i, release) ==
    /\ req[q].pc = "idle"
    /\ CanBegin(op, r, i)
    /\ Start(q, op, r, i, release, IF Sends(op, r) THEN "chain" ELSE AfterTransaction(op),
             Goal(op, r, i, release))
    /\ UNCHANGED <<chainVars, rowVars, lost, lateBound>>

\* The backend's transaction, sent with the owner's key, takes effect.
TransactionSwapped(op, c, i, release) == \* mutant: the decision is inverted
    \/ op = "submit" /\ \E cid \in Cid : SubmitMilestone(Owner, c, i, cid)
    \/ op = "approve" /\ ApproveMilestone(Owner, c, i)
    \/ op = "reject" /\ RejectMilestone(Owner, c, i)
    \/ op = "dispute" /\ RaiseDispute(Owner, c)
    \/ op = "resolve" /\ ResolveDispute(Owner, c, ~release)

Transaction(op, c, i, release) ==
    \/ op = "submit" /\ \E cid \in Cid : SubmitMilestone(Owner, c, i, cid)
    \/ op = "approve" /\ ApproveMilestone(Owner, c, i)
    \/ op = "reject" /\ RejectMilestone(Owner, c, i)
    \/ op = "dispute" /\ RaiseDispute(Owner, c)
    \/ op = "resolve" /\ ResolveDispute(Owner, c, release)

FundedEnough(c) == contracts[c].status # "Created" \* mutant: only status 0 is refused
Funded(c) == contracts[c].status = "InProgress"

Send(q) ==
    /\ req[q].pc = "chain"
    /\ \/ /\ req[q].op = "fund" /\ Funded(req[q].id)
          /\ UNCHANGED chainVars
       \/ Transaction(req[q].op, req[q].id, req[q].index, req[q].release)
    /\ GoTo(q, AfterTransaction(req[q].op))
    /\ UNCHANGED <<rowVars, lost, lateBound>>

\* wait_for_transaction_receipt times out, or the connection fails after sending: the
\* transaction is mined and the handler answers with an error.
SendLost(q) ==
    /\ req[q].pc = "chain"
    /\ lost < MaxLost
    /\ lost' = lost + 1
    /\ Transaction(req[q].op, req[q].id, req[q].index, req[q].release)
    /\ Done(q)
    /\ UNCHANGED <<rowVars, lateBound>>

\* The transaction reverts, is never sent (no connection, a nonce already used), or the
\* chain cannot be read: the handler answers with an error and nothing is written.
SendRefusedIgnored(q) == \* mutant: the failure is not fatal
    /\ req[q].pc = "chain"
    /\ GoTo(q, AfterTransaction(req[q].op))
    /\ UNCHANGED <<chainVars, rowVars, lost, lateBound>>

SendRefused(q) ==
    /\ req[q].pc = "chain"
    /\ Done(q)
    /\ UNCHANGED <<chainVars, rowVars, lost, lateBound>>

\* approve_milestone flushes its milestone, then reads all of the contract's: its own as
\* written, the others as committed.
AllApprovedAny(r, i) == \E j \in Indices \ {i} : ms[r][j] # "pending" \* mutant: any for all
AllApproved(r, i) == \A j \in Indices \ {i} : ms[r][j] = "approved"

Decide(q) ==
    LET r == req[q].row
        write == [req[q].write EXCEPT !.status =
                    IF AllApproved(r, req[q].index) THEN @ ELSE Keep]
    IN
    /\ req[q].pc = "decide"
    /\ Free(q, r, Columns(write))
    /\ req' = [req EXCEPT ![q].pc = "commit", ![q].write = write]
    /\ UNCHANGED <<chainVars, rowVars, lost, lateBound>>

\* disputes.contract_id is UNIQUE: the INSERT fails when a row exists, whatever its
\* status, and the handler's writes are rolled back.
Commit(q) ==
    LET r == req[q].row
        op == req[q].op
        write == req[q].write
    IN
    /\ req[q].pc = "commit"
    /\ Free(q, r, Columns(write))
    /\ IF op = "dispute" /\ dispute[r].status # "none"
       THEN UNCHANGED rowVars
       ELSE /\ row' = [row EXCEPT ![r].status = Written(write.status, @)]
            /\ ms' = [ms EXCEPT ![r] = [i \in Indices |-> Written(write.ms[i], @[i])]]
            /\ dispute' = [dispute EXCEPT ![r] =
                  IF op = "dispute" THEN [status |-> "open", decision |-> "none"]
                  ELSE IF op = "resolve"
                  THEN [status |-> "resolved",
                        decision |-> IF req[q].release THEN "release" ELSE "refund"]
                  ELSE @]
    /\ Done(q)
    /\ UNCHANGED <<chainVars, lost, lateBound>>

\* The backend dies, the database drops the connection, or it breaks a deadlock of two
\* handlers that lock the contract's row and a milestone's in opposite orders (fund and
\* the last approval): nothing is written, whatever the chain has done.
Fail(q) ==
    /\ req[q].pc \in {"sign", "create", "bind", "decide", "commit"}
    /\ Done(q)
    /\ UNCHANGED <<chainVars, rowVars, lost, lateBound>>

Continue(q) ==
    \/ SignCommit(q) \/ SignCheck(q) \/ SignCreate(q) \/ SignBind(q)
    \/ Send(q) \/ SendLost(q) \/ SendRefused(q) \/ Decide(q) \/ Commit(q) \/ Fail(q)

ServiceNext ==
    \/ \E r \in Row : PostContract(r)
    \/ WalletTransaction
    \/ \E q \in Request, r \in Row :
          \/ \E who \in Role : SignRead(q, r, who)
          \/ \E op \in MilestoneOperation, i \in Indices : Begin(q, op, r, i, FALSE)
          \/ \E op \in {"dispute", "fund"} : Begin(q, op, r, 0, FALSE)
          \/ \E release \in BOOLEAN : Begin(q, "resolve", r, 0, release)
    \/ \E q \in Request : Continue(q)

ServiceSpec == ServiceInit /\ [][ServiceNext]_serviceVars

-----------------------------------------------------------------------------
(* What the rows promise.  A row whose contract was created with it, and   *)
(* found whenever it was looked up, is backed by that contract.            *)

Write == [status : RowStatus \union {Keep}, ms : [Indices -> MsStatus \union {Keep}]]
Handler == [pc : {"sign", "check", "create", "bind", "chain", "decide", "commit"},
            op : Operation \union Role, row : Row, index : Indices \union Ids \union {0},
            release : BOOLEAN, id : Ids \union {0}, write : Write]

ServiceTypeOK ==
    /\ TypeOK
    /\ row \in [Row -> [status : RowStatus, id : Ids \union {0}, signed : SUBSET Role]]
    /\ ms \in [Row -> [Indices -> MsStatus]]
    /\ dispute \in [Row -> [status : {"none", "open", "resolved"},
                            decision : {"none", "release", "refund"}]]
    /\ req \in [Request -> Handler \union {Idle}]
    /\ lost \in 0 .. MaxLost /\ lateBound \subseteq Row

Backed(r) == row[r].id # 0 /\ r \notin lateBound

\* A milestone shown approved has been approved, and paid for, on chain: whichever
\* requests and wallet transactions ran between the handler's check and its commit.
ApprovedOnChain ==
    \A r \in Row, i \in Indices :
        Backed(r) /\ ms[r][i] = "approved" => milestones[row[r].id][i].status = "Approved"

\* A row shown completed or cancelled is over on chain in the same way.
SettledOnChain ==
    \A r \in Row :
        Backed(r) => /\ row[r].status = "completed" => contracts[row[r].id].status = "Completed"
                     /\ row[r].status = "cancelled" => contracts[row[r].id].status = "Cancelled"

\* A dispute row is backed by the chain's dispute, until the chain has ended it: its
\* money does not move by approvals while admins look at it.
DisputeOnChain ==
    \A r \in Row :
        Backed(r) /\ dispute[r].status = "open" =>
            contracts[row[r].id].status \in {"Disputed", "Completed", "Cancelled"}

\* The decision recorded is the one that moved the money, also when two admins decide
\* differently at once, or an answer to one was lost.
DecisionCarriedOut ==
    \A r \in Row :
        Backed(r) /\ dispute[r].status = "resolved" =>
            contracts[row[r].id].status =
                IF dispute[r].decision = "release" THEN "Completed" ELSE "Cancelled"

\* A contract is shown active only if its deposit has arrived.
ActiveDeposited ==
    \A r \in Row : Backed(r) /\ row[r].status = "active" => deposited[row[r].id] > 0

\* With no request in progress and no dispute, a contract all of whose milestones are
\* shown approved is shown completed (docs/technical-documentation.tex:973, "Check if all
\* milestones done -> complete contract").  The row has no contract on chain, so that no
\* event will make up for it.
CompletionShown ==
    \A r \in Row :
        /\ row[r].id = 0 /\ row[r].signed # Role /\ dispute[r].status = "none"
        /\ \A q \in Request : req[q].pc = "idle"
        /\ \A i \in Indices : ms[r][i] = "approved"
        => row[r].status = "completed"
=============================================================================
