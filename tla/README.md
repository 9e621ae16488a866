# FreeLedger: a formal model

FreeLedger is a freelance marketplace. A client and a freelancer agree on a contract with
milestones; the client's ether is kept by a Solidity contract (`GigEscrow`) and paid out
milestone by milestone; a FastAPI backend keeps a copy of every contract in PostgreSQL,
sends transactions with a key of its own, and follows the chain's events; React pages show
copies of the rows, poll for new ones, and send some transactions themselves, through the
user's wallet.

This directory holds TLA+ modules translated from that code, TLC configurations that check
them on small instances, and theorems about them that TLAPS proves for every instance.

    tlc -config MCGigEscrow.cfg MCGigEscrow      # a run
    tlapm GigEscrow_proofs.tla                   # proofs

## The system

| Component | Source | State | Operations | Talks to |
|---|---|---|---|---|
| GigEscrow | `contracts/contracts/GigEscrow.sol` | contracts, milestones, the balance of all of them | create, set freelancer, fund, submit, approve, reject, raise and resolve a dispute, cancel | called by the backend's key and by users' wallets; emits events |
| Contract endpoints | `backend/app/routers/contracts.py`, `disputes.py`, `services/contract_service.py` | rows of contracts, milestones, disputes | the same operations as HTTP handlers, and sign | read rows, await a transaction, write rows |
| Chain gateway | `services/blockchain_service.py` | the owner's nonce | build, sign, send, wait for a receipt | the chain |
| Event listener | `services/event_listener.py` | last processed block (Redis) | poll, apply, advance | reads the chain's logs, writes the rows |
| Hiring | `routers/proposals.py`, `jobs.py` | jobs, proposals | post, apply, accept | sets the freelancer in the row and on chain |
| Wallet login | `routers/wallet_auth.py`, `users.py` | nonces (Redis), users' wallets | challenge, login, sign up, link | - |
| Passwords, tokens, TOTP | `routers/auth.py`, `services/totp_service.py` | the second factor's columns, attempt times (memory) | login, renew, set up, verify, turn off, validate, reset | the sign-in pages and settings |
| Rate limiting | `middleware/rate_limit.py` | request times (Redis) | admit or refuse | every request |
| Messages, dispute chat | `routers/messages.py`, `dispute_messages.py` | messages, open sockets (memory) | connect, send, read, delete | hiring sends a message |
| Notifications, audit | `services/notification_service.py`, `audit_service.py` | inserted rows | insert, mark read | called by the handlers |
| Administration | `routers/admin.py` | all rows | edit, delete | - |
| IPFS | `services/ipfs_*.py`, `repin_service.py`, `routers/ipfs.py`, `uploads.py` | external store, pins | upload, pin, monitor | contract terms, deliverables |
| Contract pages | `frontend/src/pages/client/MyContracts.js`, `freelancer/MyContracts.js`, `admin/AdminDisputes.js`, `services/web3.js` | copies of the rows, open details, busy flags, the browser's HTTP cache | poll, act, prompt the wallet, show what is expected | API, and the chain by the user's wallet |
| Session | `services/api.js`, `hooks/useAuth.js`, `pages/Login.js`, `pages/admin/Login.js`, the navigation bars | tokens and user (localStorage, shared by the tabs) | sign in and out, send, renew after a 401 | API |
| Second-factor pages | `components/shared/TOTPSettings.js`, the sign-in pages | the panel's step, the cooldown (localStorage) | set up, verify, turn off, reset, type a code | API |
| Message pages | `pages/shared/Messages.js`, `components/messages`, `pages/freelancer/FindJobs.js`, the chat panels of the contract pages | the listed messages, the socket, requests under way | reply, accept, dismiss, delete | API, sockets |
| Dashboards, profiles, admin tables | the other pages | one answer each | read, save | API |
| Start, migrations | `backend/app/main.py` | schema, one-time updates | start | clears `on_chain_id` |

What makes each of them correct, and what is hard about it:

- *GigEscrow*: no ether is lost or sent twice; an escrow pays from its own deposit; what is
  settled or approved stays so. Hard: long sequences of calls by three parties in any order,
  all escrows in one balance, integer division.
- *Endpoints*: what a row says was paid, settled or decided is what the chain did. Hard: every
  handler reads, awaits the chain, and writes; two requests and the users' wallets interleave
  there; a transaction can be mined after its handler gave up; a commit can fail after the
  transaction; some handlers treat a failed call as a fact.
- *Listener*: events are applied at least once, the rows never overtake the chain, and what has
  ended on chain ends in the rows. Hard: crashes between PostgreSQL and Redis, lost reads, batches
  grouped by event name, requests that write the same rows from what they read before an await.
- *Hiring*: row and chain name the same freelancer, one proposal per job wins, and an
  acceptance that failed can be repeated. Hard: the UPDATEs are flushed, then the chain is
  awaited, then they are committed; a transaction may be final when the request fails.
- *Contract pages*: a page shows nothing as paid, funded or settled that is not; a deposit is
  recorded; a page catches up. Hard: copies of one row in the server, the HTTP cache, answers on
  their way, the list and the open details; handlers that wait for a wallet, optimistic updates
  that a refusal must take back, polls in between.
- *Session*: the tokens and the user in localStorage are of one account, and every request
  ends. Hard: tabs share the store, and an answer comes back to whatever session is there.
- *Second factor*: the codes a user is told to save are those that work; a code is spent
  once; a refused user's wait is long enough. Hard: two tabs, requests whose answer is lost,
  a read and a write with an await between them, fractions of seconds.
- *Messages*: what is written is listed once, wherever it comes from; an invitation is
  accepted once; an administrator's chat catches up. Hard: three unordered roads of a message
  (inbox, socket, answer), sockets that are lost, requests repeated after a lost answer.
- *Wallet login*: a nonce logs in once; two accounts per wallet at most.
- *Rate limiting*: no more than the limit per window.

`PROJECT.json` lists the hazards one by one at their source lines, with the properties that
would catch each, or a note on why none does.

## Modules

| Module | What it is |
|---|---|
| `GigEscrow` | the smart contract; every other module extends it as its chain |
| `EscrowLedger` | the abstract specification: one account per escrow, funded once, ended once |
| `GigEscrow_proofs` | the theorems about GigEscrow |
| `EventListener` | the listener, over the chain, the rows and the requests that write them |
| `ContractService` | the contract, milestone and dispute endpoints as interleaved handlers |
| `Hiring` | proposals and their acceptance, over the chain |
| `ContractPages` | the three pages that work on a contract, over the chain, with wallet, cache and polls |
| `Session` | the tokens in localStorage and the requests that carry them, over several tabs |
| `TwoFactor` | the second factor of one account: panel, code step and endpoints |
| `TotpThrottle` | the limit on codes: the server's window and the page's countdown |
| `Chat` | a conversation: the messages page, the job board, endpoints and sockets |
| `DisputeChat` | the chat about a dispute, at an administrator's or a party's panel |
| `EventListener_proofs`, `ContractService_proofs`, `Hiring_proofs`, `ContractPages_proofs` | the theorems about these, on top of `GigEscrow_proofs` |
| `SignIn_proofs`, `Chat_proofs` | the theorems about `Session`, `TwoFactor` and `TotpThrottle`; about `Chat` and `DisputeChat` |
| `Browser_proofs` | the types of `MCBrowser`'s parts side by side, for every instance of them |
| `MCGigEscrow`, `MCEventListener`, `MCContractService`, `MCHiring`, `MCBrowser` | the small instances TLC checks; `MCBrowser` joins the six modules of the browser's side |

Definitions marked `mutant` are plausible bugs of the definition below them; nothing uses
them. Substituting one (`PROJECT.json`, "mutants") makes the property it is listed with fail,
which shows that the property depends on that piece of code.

### GigEscrow

`contracts`, `milestones`, `contractCounter` and `balance` are the contract's storage and
ether; `emitted` is the receipt of the last transaction; `deposited` and `paid` are history
variables that attribute ether to escrows. A function is an action `F(s, c, ...)` for caller
`s`, and its `require`s and modifiers are `CanF`. A reverted call changes nothing and is no
step. Where the code has no condition the model has none: `SetFreelancer` works in any
status, `RejectMilestone` in any contract status, `RaiseDispute` before funding, and
`ResolveDispute` pays `address(this).balance`.

Left out: titles, terms, deadlines, timestamps, views. Ether is a natural number: Solidity
0.8 arithmetic is checked, and no sum of real ether comes near 2^256. Callers are externally
owned accounts, so `transfer` runs no foreign code. Ownership is not transferred.

### EscrowLedger

What the two parties believe they have: an account per escrow, `held`, and a `phase`. An escrow is
funded once (`Deposit`), pays from its own account while it is locked (`Release`) and ends once,
with nothing left in it (`Settle`). The mapping is `held[c] = deposited[c] - PaidOut(c)`, and the
phase follows from the contract's status and its first milestone's.

An instance that keeps *one* escrow implements the ledger. With more, the accounts share a pool,
and a resolution sends the pool: `held` of the disputed escrow would become negative and another's
ether is gone (run `escrow_drain`). `Drain(c)` names exactly these steps, the resolutions of `c`
that find in the pool anything but `held[c]`. `LedgerSteps` says that no other step, by anyone and
with any number of escrows, is one the ledger forbids; so an instance none of whose resolutions
drains the pool implements the ledger, however many contracts it keeps.

### EventListener

The rows, the requests that write them and the chain are `ContractService`'s, step by step
(`Service`): a handler that has read the chain or a row may commit after the listener has, a
transaction may be mined after its handler gave up, a commit may fail, and a row without an
`on_chain_id` is worked on without the chain. Every transaction that takes effect is a block of
`log` (`Mined`). The listener's own cycle is `Read`, `Apply`, `Advance`: read the logs of all
blocks after `lastBlock`, one call per event name; apply them to the rows in one database
transaction; store the block in Redis. `Interrupt` stands for a crash or an exception between
any two. `Process` applies one event as the eight handlers do, in `HandlerOrder`. `Unlocked` is
the row lock of an approval that has been flushed and not committed, on which the batch waits.
`delivered` and `missed` are history, and so is `overwritten`: rows shown completed or cancelled
whose status a funding or a signature then wrote over, from what it had read before.

### ContractService

`req[q]` is a handler: where it is, the row and milestone it works on, the `on_chain_id` it
has loaded, and the UPDATEs it will issue. An UPDATE names only the columns that differ from
what the handler loaded (SQLAlchemy's unit of work), so `Set` compares with the loaded value
and `Written` leaves other columns as they are at commit. `Begin` is a handler's reads and
checks; `Send`, `SendLost` and `SendRefused` are the outcomes of its transaction; `Decide`
is the look at all milestones after an approval; `Commit` the rest. `Sign*` are the steps of
POST /sign, which commits twice and asks the chain in between. `Free` is the row lock an
approval holds from its flush to its commit. `Fail` is a commit that does not happen,
including the deadlock PostgreSQL breaks between fund (contract, then milestones) and the
last approval (milestone, then contract). `WalletTransaction` is what the pages send through
MetaMask without the backend; approving in the page does that first and then calls the API,
whose own transaction reverts.

`lateBound` is the set of rows that were inserted without a contract on chain, or whose
contract was once reported missing by a failed call (POST /sign then creates a second one).
The properties speak of the others (`Backed`): for a late-bound row the handlers have written
milestones without the chain, and the rows promise nothing. That is the code's behaviour and
a hazard of its own, not a restriction of what the model does.

### Hiring

`Load` is the checks of POST /proposals/{id}/accept. The query of the remaining proposals
flushes the UPDATEs of the contract and the proposal (`Flush`), which locks the contract's row
until the commit (`RowLocked`), so that a second acceptance waits there with what it has
loaded. `NameOnChain` sends setFreelancer or, for a row without an `on_chain_id`, creates a
contract with the backend's account as its client; `NameLost` is a transaction mined after the
handler gave up; `Commit` writes the row and the proposals; `Abandon` is every failure.

What keeps one job from hiring twice is the chain, not the database: the second acceptance
passes the lock and is refused by setFreelancer. Rows in `unbound` (no contract was created
with them) have no such guard, and there two acceptances do both succeed and leave a contract
on chain each; the properties leave these rows out and say so.

### ContractPages

`row` and `dispute` are the database's, the chain is `GigEscrow`'s; `list`, `modal` and
`disputes` are the page's copies (of the list, of the entry its details were opened with, of
the dispute), `cache` is the browser's stored answer to GET /contracts, which
`middleware/cache.py` lets it use for ten seconds as it is and for thirty more while it fetches
another. `flows` are what the page waits for: an upload, the wallet, an answer. A read is made
by the server when it is asked (`StartPoll`, `ReadAgain`) and arrives later (`ReadArrives`), with
what the row was then, or fails and leaves the list as it was. `lens` is whose page it is; the
other parties act by themselves whenever the server lets them (`Elsewhere`).

A click (`ClickApprove`, `ClickFund`, `ClickSubmit`, ...) has the guard its button has, shows
what the code shows at once and opens a flow; `WalletConfirms` and `WalletRefuses` are the
wallet's answer; `PostAfterWallet` goes on to the API; `Serve` is the handler, in one step,
accepted or refused by the conditions of its source; `Continue` is the page's code after an
await, including the reload of the list in the error paths. `Reload` forgets everything in
the page but not the wallet's prompts. The interior of a handler is `ContractService`'s subject.

`unread` are the chain's blocks that the listener has not processed. `Listen` is one of its
cycles: it applies what it has read of the first `n` of them name by name, late submissions and
rejections too, which put back an earlier status or deliverable; reads of some names may fail,
and after a crash the same blocks are applied again. So the client may be shown, and pay for, a
milestone whose deliverable has since been replaced, or one shown as submitted again after it was
sent back; the transaction names an index only, and the project promises nothing about it.

### Session

`store` is localStorage, shared by the tabs (`at`); `calls` are the requests under way, each
with the tokens it was sent with. `SignIn` and `LoadPage` send; `Respond` is the server;
`Handled` is what `api.js` and the page do with an answer: write the tokens, renew them after a
401 (`Renew`) and send once more, or go to the sign-in page. `Lose` is a lost request or answer.
Tokens expire, administrators deactivate accounts, tabs are opened and signed out. `late` is
history: an answer was written to the store of a session that had begun after its request. The
properties exclude these behaviours and say so (`TokensMatchUser` asks `~late`); that they exist is
what the code does.

### TwoFactor and TotpThrottle

`account` is the row's `totp_enabled`, secret and backup codes. An endpoint is two steps,
`ReadRow` (read and decide) and `CommitRow` (write the columns whose values changed), for it
awaits in between. `panel` is what each tab shows, `token` what localStorage says of the last
sign-in. `LoseAnswer` loses a request or an answer. A behaviour in which two requests changed
the row at once is followed no further (`overlapped`), after the step that shows it: there the
code promises nothing, as `second_factor_codes` shows, and a setup that had read the row before
another tab's verification was committed replaces the codes that tab tells its user to save.

`TotpThrottle` has the server's list of attempts, the wait it tells a page, and the page's
countdown, which an interval decrements and a reload restores. Time passes in half seconds: the
server compares fractions and the page whole seconds.

### Chat and DisputeChat

`thread` is the messages table of a pair; each of the user's `window`s has its list (`shown`),
its load (the inbox request and those after it) and its socket, on whose `wire` frames are
under way. `posts` are requests: POST /messages is `StoreMessage` and `Broadcast`, POST
/proposals is `CheckProposal` and `CreateProposal`, for each awaits in between, and the second
of two applications that pass the check fails at the unique index (`models.py:93`); `Fails` loses
request or answer; `HandlePost` is the page's continuation. `FindJobs` is the job board, where
an invitation may be answered too.

`DisputeChat` has one panel at a time. The administrator's stands in a list whose poll takes
it down and puts it up again; the parties' lives on its socket. Frames go to the parties only,
so what another administrator writes is read, never heard.

## Runs

| Run | Expect | Bounds | Shows |
|---|---|---|---|
| `escrow_pool` | pass | 2 escrows, 1 milestone worth 0 or 2 milestones, 3 accounts | milestones follow the contract, counters are right, ether is paid for approved work only, approvals and settlements are final, only a resolution that drains the pool is a step the ledger forbids, every change but a contract's funding is announced by an event |
| `escrow_single` | pass | 1 escrow, up to 3 milestones (one worth 0) | locked ether is there, a completed escrow paid out exactly its deposit, the ledger is implemented |
| `escrow_drain` | violation | 2 escrows | resolving one dispute sends the other escrow's ether (README.md:97 "funds locked on-chain until milestones approved") |
| `escrow_pause` | violation | 1 escrow | a milestone changes during a dispute (README.md:109 "contract paused on-chain") |
| `listener` | pass | 1 row, 1 milestone, 1 request at a time, the client's wallet, 2 jobs, 4 blocks, 1 crash or failed read, 1 lost answer | nothing is skipped, rows never overtake the chain, a contract that was completed by approvals or cancelled is shown so, an ended dispute is not shown open, a contract is bound to one job, the listener catches up |
| `listener_order` | violation | 1 row, both wallets | a batch is applied out of order |
| `listener_decision` | violation | 1 row | a refund is recorded as a release |
| `service` | pass | 1 row, 2 milestones, 2 requests, 1 late transaction | what backed rows show approved, settled, disputed, decided or active is so on chain |
| `service_completion` | violation | the same, no late transaction | two last approvals at once leave a contract that is not on chain uncompleted |
| `hiring` | pass | 1 row, 3 freelancers, 3 acceptances, 2 late transactions | one proposal is accepted, row and chain name its freelancer, a failed acceptance can be repeated |
| `browser` | pass | below | no page is ahead of the chain; a deposit is recorded; pages catch up; tokens match the user; requests end; shown codes are stored; a wait is long enough; a message is listed once; an invitation is accepted once; an administrator's chat catches up |
| `second_factor_codes` | violation | 2 tabs | one backup code lets two sign-ins in (`TOTPSettings.js:251` "Each code can only be used once", `README.md:145`) |

Why the bounds are enough. Two escrows are needed, and are enough, for one to take the other's
ether. Two milestones make a last and a not-last approval; three with amounts 60, 40, 200 and one
of 0 exercise the fee's rounding both ways. Amounts are chosen so that 2.5% of them is a whole
number (40) and is not (60, 20). `createContract` takes an amount of 0, so `escrow_pool` has
contracts of one milestone worth nothing; they show that `fundContract`, which emits no event, can
put a contract in progress without even a deposit, which is why `ChangesAnnounced` leaves it out.
Each race in the endpoints is between two handlers, with the wallet as a third actor. One late
transaction is enough to put the chain ahead of the rows for a contract, and everything after it
is explored. The listener's chain is bounded by `MaxBlocks`: four blocks are enough for a contract
to be created, funded, worked on and completed, or created, disputed and resolved, or cancelled,
while the listener is anywhere in its cycle and a request between any two of its steps. One
request at a time races the listener, which is the second writer of the rows; two requests race in
`service`. The proofs cover any number of each.

`MCBrowser` looks at one part of the browser in a behaviour (`part`): the parts share no
state but the session's tokens, of which the others use no more than that a request succeeds or
fails, which they both allow. So six small systems are explored side by side, not their product.
Within a part an element of `Scenes`, `Browsers` or `Chats` chooses what is looked at and how
much of everything there is:

- *pages*: each page with one milestone and one deliverable, once before the signatures and
  once after, with a deposit. A scene says how much happens besides: a rejection, a dispute, two
  handlers open at once (a second click, or a click during a prompt), up to two blocks that the
  listener has not read, answers to reads that take their time, or one mishap: a lost answer, a
  failed request or read, a reload, a batch applied again. Each is combined with the
  others where they can meet, not all with all.
- *session*: one user in one tab with two requests; two users in two tabs, one request each at a
  time, for sessions that replace each other; an administrator.
- *second factor*: two tabs, two secrets, one backup code: a setup overtaken by another.
- *throttle*: two attempts in a window of three seconds, for two windows and a tick.
- *chat*: the freelancer's page with one request under way and with two, and the client's; up to
  three messages, or two and a lost socket or failed request. Three messages are what it takes to
  answer an invitation twice; with two requests that is looked at on a page whose socket does not
  come to open (`sockets`), for frames and requests multiply.
- *hearing*: an administrator's panel with another at work, two parties; a party's; two messages
  and one loss.

`CHECK_DEADLOCK FALSE` is set because these systems may stop: nobody has to call anything,
and bounded counters run out. `MCContractService` reduces the state space by the symmetry of
the two requests and by a VIEW without `emitted`, which no action or property there reads.
`MCHiring` uses the symmetry of its freelancers and of its acceptances: a third freelancer makes
one who neither won nor competes, a third acceptance repeats one that failed while another runs.
Symmetry is used with invariants only.

**Fairness.** `WF(Listener)` in `listener`: the polling task is started with the application
(`start_event_listener`), every call it awaits returns or raises, and an exception restarts the
loop. In `browser`: weak fairness of the pages' polls (`setInterval`), of the cache's ageing
(time), of the server's answers and of the page's code after an await, each of which the event
loop runs; of every request's next step in `Session` (`Settled`: a request is answered, or the
browser gives it up); and in `DisputeChat` of the poll. There `ReadNotes` and `ShowNotes` are
strongly fair: a poll takes the panel down every ten seconds, and the request of the panel it puts
up is answered before the next poll at some time, not necessarily each time. Nothing is assumed of
users, wallets, administrators, frames or sockets.

## Proofs

Eight modules hold theorems, for all values of the constants that the modules' named assumptions
admit; a theorem that needs more says so in its statement. The assumptions are about who the
accounts are (the owner is one; the zero address and the empty CID are not values; the two
parties differ), about bounds (natural numbers, positive where the code has at least one), and
about what contracts are made with (`AmountAssumption`, `DealAssumption`, `PageDealAssumption`:
parties, a total and a list of amounts that `createContract` takes).

| Theorem | Says |
|---|---|
| `GigEscrow_proofs!TypeCorrect` | `Spec => []TypeOK`; in particular the pool is never negative |
| `InvCorrect` | the inductive invariant `EscrowInv` |
| `MilestonesAgree`, `CountCorrect` | `MilestonesFollowContract`, `CompletionCounted` |
| `ApprovalsStay`, `SettledStays`, `Announced` | the action properties `ApprovalsFinal`, `SettledFinal`, `ChangesAnnounced` |
| `PartiesStay` | `PartiesFinal`: the client of a contract, and a freelancer once named, are so for good |
| `ApprovedWorkPaid`, `SettledInFull` | `PaidForApprovedWork`, `CompletedPaidInFull` |
| `OnlyDrains` | the action property `LedgerSteps` |
| `LedgerWithoutDrains`, `LockedWithoutDrains` | `Spec /\ [][NoDrain]_chainVars` implies `LedgerSpec`, and `[]LockedFundsHeld` |
| `LedgerImplemented`, `LockedHeld` | the same of `Spec` alone, if `MaxContracts = 1` |
| `EventListener_proofs!SyncInvCorrect`, `SyncTypeCorrect` | the inductive invariant `SyncInv`; `SyncTypeOK` |
| `NothingIsSkipped`, `RowsFollow`, `JobsApart` | `NothingSkipped`, `RowsNeverAhead`, `OneJobPerContract` |
| `SettlementMirrored` | `SettledMirrored` |
| `SyncKeepsChain`, `ServiceKeepsChain`, `HiringKeepsChain` | `SyncSpec`, `ServiceSpec`, `HiringSpec` each imply GigEscrow's `Spec` |
| `ContractService_proofs!ServiceInvCorrect`, `ServiceTypeCorrect` | the inductive invariant `ServiceInv`; `ServiceTypeOK` |
| `ApprovedCorrect`, `SettledCorrect`, `DisputeCorrect`, `DecisionCorrect` | `ApprovedOnChain`, `SettledOnChain`, `DisputeOnChain`, `DecisionCarriedOut` |
| `ActiveCorrect` | `ActiveDeposited`, if every deal's total is positive |
| `Hiring_proofs!HiringInvCorrect`, `HiringTypeCorrect` | the inductive invariant `HiringInv`; `HiringTypeOK` |
| `HiredOnChainAlways`, `HiresOnce`, `HireRepeats` | `HiredOnChain`, `OneHired`, `HireCanBeRepeated` |
| `ContractPages_proofs!PagesInvCorrect` | the inductive invariant `PagesInv` |
| `PagesTypeCorrect` | `PagesTypeOK` |
| `NeverAhead` | `PagesNeverAhead` |
| `PagesKeepChain` | `PagesSpec => [][Next]_chainVars` |
| `SignIn_proofs!SessionInvCorrect`, `SessionTypeCorrect` | the inductive invariant `SessionInv`; `SessionTypeOK` |
| `TokensStayTogether` | `TokensMatchUser`, which asks `~late` |
| `FactorInvCorrect`, `FactorTypeCorrect`, `CodesShownAreStored` | the inductive invariant `FactorInv`; `FactorTypeOK`; `ShownCodesStored`, which asks `~overlapped` |
| `ThrottleInvCorrect`, `WaitIsEnough` | the inductive invariant `ThrottleInv`; `CooldownCovers` |
| `Chat_proofs!ListsCorrect`, `ChatTypeCorrect` | the inductive invariant `ListInv`; `ChatTypeOK` |
| `ListedOnce`, `ToldOnce` | `ShownOnce`, `AcceptedOnce` |
| `DisputeChatTypeCorrect` | `DisputeChatTypeOK` |
| `Browser_proofs!BrowserTypeCorrect` | `BrowserTypeOK` |

*GigEscrow, the milestones.* `CompletionCounted` alone is not inductive: an approval adds one to
the counter and one to the approved set only if the milestone was not approved before (its status)
and lies below `milestoneCount` (untouched mapping entries are zero, so not Submitted), and a
contract leaves InProgress at the right moment only if its milestones were all funded with it.
`EscrowInv` therefore joins `TypeOK` with, for every escrow, the shape of its entry (it exists
or is zero) and the agreement of milestones, deliverables, status and counter; the proof has one
lemma per function (`NewAgrees`, `FundAgrees`, `CycleAgrees`, `ApproveAgrees`, ...) about the
escrow it changes, and `OthersUntouched` for the rest.

*GigEscrow, the money.* The properties add amounts up with `SumFunction`, a fold. The lemmas on
sums need two facts of it, that an empty sum is 0 and that a sum over a set is any member's
value plus the rest. Induction on finite sets is not available as a theorem here, so each is
shown on a smallest set that would violate it: a nonempty set of finite sets has a minimal
member. `MoneyInv` then keeps the `Books` of every escrow: what its milestones are worth, what
was deposited, and, until a dispute is resolved, that what was sent is what was approved, parted
between freelancer and platform. `ChainLater` sums the chain up for the other modules: approved
stays approved, over stays over, disputed becomes over, and a deposit, once there, is not
forgotten.

*GigEscrow, the ledger.* Until a dispute of it is resolved, the account of a funded escrow is
what its unapproved milestones are worth, and before funding it is empty (`Solvent`); so
`AccountStep` can take each function of the contract as a step of the escrow's own account, and
`OthersUntouched` leaves the rest alone. The approval that ends a contract leaves nothing
behind, because a completed contract paid in full (`LastApproval`, from `SettledInFull`). What
is left is the resolution: if the pool is the account it settles the account, and else it is a
`Drain`. `LockedFundsHeld` compares the pool with all accounts at once. The pool is their sum
(`PoolConserved`), so it covers the locked ones if no account is overdrawn, and only a drain
overdraws one. An instance with one escrow has no drain, for there the sum is that account
(`NeverDrained`).

*The composed systems keep the chain.* The listener, the endpoints, the handlers of hiring and the
pages do to the chain only what `GigEscrow` allows: `SyncKeepsChain` and its fellows prove it of
every step, from the modules' own invariants (a handler sends the calls of a row that has its
contract, with indices it has). So whatever is proved of `Spec` holds in those systems too, for
every interleaving of handlers, wallets and late transactions. The pages begin with
contracts already signed or funded (`Scenes`), so of them it is said step by step.

*Event listener.* `SyncInv` joins `ServiceInv`, which every request's step keeps, with what the
listener adds. The rows are sound because whatever is in the log, or in a batch read from it,
is still true (`Facts`): an event says something that the chain does not undo, so it may be
applied late, twice, or grouped by name. `Sound` is what `ServiceInv` says of the rows; it is
closed under the handlers (`Process` and what it is made of), and a batch is a recursive function
over it, so `Iterates` and `Stays` say once that such a function keeps what each of its steps
keeps. `CycleInv` is about the two stores: what is committed lies between the last processed block
and the end of the cycle, wherever a crash falls. Of a row without a contract on chain, or bound
to one late, nothing is said: the handlers approve and complete such rows by themselves.

For `SettledMirrored`, `MirrorInv` adds that where the log says that a contract was completed or
cancelled its row says so too, or that event is not yet committed (`Untold`, `Shown`). What could
write over it is a request that decided before: a dispute that is about to be committed is of a
contract no event says has ended (`Unended`), for a contract once disputed can only be resolved;
an approval's or a resolution's status is the chain's; a funding or a signature
does write over it, which `overwritten` records. Of a contract that a resolved dispute has ended
no event tells the row: if the answer to the resolution is lost or its commit fails, the row stays
disputed, so the property does not speak of those. `DisputesEnd` says of them what does hold, that
the dispute's row is closed; it asks that the owner's key resolves nothing past the backend, and
is model-checked only.

*Endpoints.* `ServiceInv` says of every backed row that it claims no more than its contract shows
(`Mirrors`), and of every handler between two steps that what it is about to write has happened on
chain (`CarriedOut`). Both outlive what any wallet, late transaction or other handler does
(`MirrorsLater`, `CarriedOutLater`, from `ChainLater`), which is why no interleaving can break
them; a backed row's handler never binds another contract. `ActiveDeposited` asks that totals are
positive, as `schemas.py:188` demands of POST /contracts: a contract worth nothing has its deposit
before it is funded.

*Hiring.* `HiringInv`: a contract on chain is one row's business at most (`ContractsApart`), a row
posted with its contract keeps it, and an acceptance that is past its transaction holds exactly
the freelancer that contract names. As a named freelancer is final on chain, two acceptances that
are past it hold the same one, and the second's writes repeat the first's.

*Contract pages.* `PagesInv` says of each copy of the row (in the database, the HTTP cache, an
answer on its way, the list, the open details) that it is `Honest`: it claims no more than the
chain. Nothing relates one copy to another, and nothing needs to, since being honest survives the
chain's progress and every reordering of copies. `Heard` says of the blocks the listener has not
processed that the chain bears their events out (`Bears`), so that a batch leaves the row honest
however late it is, whichever names it lacks and however often it is applied. `Sincere` says of a
handler that waits that its answer is honest and a mined approval is one.

*Session.* The store matches its user only because what is written to it does: `SessionInv` adds
that a request which is not `old` (no session has begun or ended since it was sent) carries the
tokens of the account that the store's user is. A renewal then writes tokens of that account,
and an old request's answer sets `late`.

*Chat.* That a list has no id twice is kept by `Add`, which looks; by the inbox, if the table
has none; and by the answer to a reply, which replaces or looks. `ListInv` says that of the
table, of every list and of every answer on its way. For `AcceptedOnce`, `AcceptInv` says that
a request on its way to tell the client is the only one, that the server has its application by
then, and that the client has not been told yet: several applications may be past the check,
and the unique index lets one of them in.
The types ask how far the
counters of ids have come: `ChatSoFar` says that everything listed, on its way or under way is
of a message written so far, and that what a page that was left had begun is gone with it;
`HearingInv` says the same of the notes of a dispute, with what an administrator's and a party's
panel can be (an administrator's that is down has no load; only an administrator opens the
chat).

*Second factor.* A panel's "done" means that its secret is in force or was turned off since
(`Holds`). To keep that, `FactorInv` says what an accepted request was decided on and what of it
still stands: a setup's secret is on no row and has no spent code, two setups under way have
made different ones, a verification is of the secret on its row. `WriteCases` shows that a write
either changes nothing or was decided on the very row it replaces; `WriteStores` that the row's
codes stay those of its secret without the spent ones. `MadeSoFar` bounds the secrets and codes
that rows, panels and requests hold by the number of secrets made.

*The wait.* `ThrottleInv`: while a refusal stands the list of attempts is full, and both the
countdown and the stored time reach at least the moment its oldest entry leaves the window. The
attempts that count (`Recent`) are written as the end of the list, which is in order of time,
after as many entries as have expired; for the prover a filter (`SelectSeq`) has no meaning.

*The parts of the browser.* `MCBrowser` moves one part to a behaviour, so what its theorem says is
what the parts' own theorems say, side by side: a step is one of one part and a stutter of every
other (`PartSteps`), and each part's types are kept by both. The promises of the parts are proved
of the parts.

*What the proofs showed about the model.* A bound was wrong: `ChatAssumption` let a conversation
have no message, where the invitation is one. And a release of `EscrowLedger` could end the
account with ether in it; a contract that an approval ends never does (`LastApproval`), so the
ledger leaves every end to `Settle`.

*Model-checked only.* `EventuallyCaughtUp`, `DepositRecorded`, `PageCatchesUp`, `EveryCallEnds`
and `AdminChatCatchesUp` are liveness under fairness, which this prover does not reach; and
`DisputesEnd` is not proved. Every other invariant and action property of the passing runs is, some
from a hypothesis the theorem states (one escrow or no drain, positive totals). The
properties of the runs that expect a violation are false of the code, so there is nothing to
prove of them.

## What disagrees with its documentation

1. `resolveDispute` pays the winner the whole instance's balance (`GigEscrow.sol:261`).
2. A disputed contract is not paused: `rejectMilestone` still works (`GigEscrow.sol:224`).
3. The listener applies a batch by event name, so a resubmission after a rejection can be
   lost from the row (`event_listener.py:216`).
4. The listener records every resolution as a release (`event_listener.py:163`).
5. Two last approvals at once each see the other milestone unapproved and neither completes
   the contract (`contracts.py:333`). If the contract is on chain, its ContractCompleted event
   repairs the row; a contract whose creation on chain failed stays as it is for good.
6. A backup code can be spent twice: `totp_validate` reads the row, takes the code out of what it
   read and writes the rest after an await (`auth.py:378`); two requests at once both pass.

Also met, and not a run: `docs/technical-documentation.tex:354` declares `on_chain_id` UNIQUE
and `models.py:150` does not; `:1208` calls chain failures of submit and reject non-fatal and
both handlers answer with an error and write nothing; `rate_limit.py:4-7` documents limits
(30, 100) other than its constants (60, 300).
A resolution whose answer is lost, or whose commit fails, leaves the contract's row disputed for
good: `DisputeResolved` closes the dispute's row and no event sets the contract's
(`event_listener.py:153`). The client's page approves by its wallet and then calls an endpoint
whose own transaction must revert, so that the request fails and the row is left to the listener.
A dispute's resolution notes are shown only while it is being resolved (`AdminDisputes.js:481`).
"Total Earned" adds up contracts that ended in a refund (`freelancer/MyContracts.js:100`). The
socket that a page opens after a loss has no handlers (`Messages.js:131`). The mark
`backup_login` outlives the token it speaks of. A deactivated account is refused every request
and granted every renewal.

## Not modelled

- *Wallet authentication*: a signature over a nonce in Redis, and counts of accounts per wallet
  made before a write. Its two races (a nonce read and deleted in two calls; accounts counted
  and then written) are listed as hazards; in `Session` a sign-in is accepted or not.
- *Rate limiting*: to a page one more way a request fails.
- *Leaving the sign-in page while its request is under way*, and the role choice after a wallet's
  sign-in, for which the server never asks.
- *The in-memory GET cache of `api.js`*: no code path fills it.
- *Read marks* of messages: a page sets them on its own copy and nothing depends on them.
- *Dashboards, profiles, admin tables, jobs, notifications, audit log*: one request each, and
  polls that replace what is shown; no step of theirs depends on another's.
- *PUT /jobs/{id}/on-chain-id* (`jobs.py:105`), which binds a job to a contract as the listener does
  and asks nothing: no page calls it, and it could bind a contract to a second job.
- *IPFS, health checks, migrations, deployment, scripts*: external stores and start-up.
- *A restart of the chain* from block 0: deployments start it with an empty database.

## Plan

In order; a later item extends an earlier one.

1. `ContractService`: properties of late-bound rows (a settled row revived by POST /sign, an
   abandoned second contract, a contract deployed by an acceptance without its client).
2. `EventListener`: a restart of the chain, with stale `on_chain_id`s and the migration that
   clears them.
3. `EventListener_proofs`: `DisputesEnd`, for an owner who acts by the backend only.
4. Wallet authentication: the nonce and the limit of two accounts over sign-up, login, link and
   profile.
