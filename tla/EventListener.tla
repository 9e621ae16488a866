---------------------------- MODULE EventListener ----------------------------
(***************************************************************************)
(* The backend's copy of the chain: backend/app/services/event_listener.py *)
(* polls GigEscrow's events and applies them to PostgreSQL, and keeps the  *)
(* last processed block in Redis.  The rows, the requests that write them  *)
(* between their awaits, and the chain, are those of the module this one   *)
(* extends; every transaction is a block of its own (Hardhat automines).   *)
(*                                                                         *)
(* The listener's cycle is three steps, so that requests and transactions  *)
(* fall between its reads and its commit, and a crash, a database error or *)
(* a Redis error between the commit of the rows and the update of Redis.   *)
(***************************************************************************)
EXTENDS ContractService, SequencesExt

CONSTANTS Job,           \* jobs rows
          MaxBlocks,     \* bound on the length of the chain
          MaxMishaps     \* bound on crashes and errors of the listener, and failed reads

ASSUME ListenerBoundAssumption == {MaxBlocks, MaxMishaps} \subseteq Nat

VARIABLES log,       \* the chain's blocks, each the logs of its transaction
          job,       \* jobs.on_chain_job_id (0 for NULL)
          lastBlock, \* Redis: event_listener:last_processed_block
          poll,      \* the listener's cycle: pc, and the block and logs it has read
          mishaps,   \* what MaxMishaps bounds
          delivered, \* history: <<block, event name>> pairs committed to the rows ...
          missed,    \* ... and those whose read had failed when the rows were committed
          overwritten \* history: rows whose ending a request has written over

cycleVars == <<lastBlock, poll, mishaps, delivered, missed>>
syncVars == <<serviceVars, log, job, cycleVars, overwritten>>

\* The event names, in the order the listener reads and applies them.
HandlerOrderNoCancel == <<"ContractCreated", "MilestoneSubmitted", "MilestoneApproved",
                          "MilestoneRejected", "ContractCompleted", "DisputeRaised",
                          "DisputeResolved">> \* mutant: an event is forgotten
HandlerOrderSwapped == <<"ContractCreated", "MilestoneSubmitted", "MilestoneApproved",
                         "MilestoneRejected", "ContractCompleted", "ContractCancelled",
                         "DisputeResolved", "DisputeRaised">> \* mutant: ends come first
HandlerOrder == <<"ContractCreated", "MilestoneSubmitted", "MilestoneApproved",
                  "MilestoneRejected", "ContractCompleted", "ContractCancelled",
                  "DisputeRaised", "DisputeResolved">>

Resting == [pc |-> "idle", to |-> 0, logs |-> <<>>, failed |-> {}]

SyncInit ==
    /\ ServiceInit
    /\ log = <<>>
    /\ job = [j \in Job |-> 0]
    /\ lastBlock = 0
    /\ poll = Resting
    /\ mishaps = 0
    /\ delivered = {}
    /\ missed = {}
    /\ overwritten = {}

-----------------------------------------------------------------------------
(* What else writes the chain and the rows: requests and wallets.          *)

Ended == {"completed", "cancelled"}

\* Funding and signing write the status they chose from what they had read before.
WrittenOver ==
    {r \in Row : row[r].status \in Ended /\ row'[r].status \in {"active", "pending_funding"}}

\* A transaction that takes effect changes the chain, and is a block.
Mined ==
    IF UNCHANGED chainVars THEN UNCHANGED log
    ELSE Len(log) < MaxBlocks /\ log' = Append(log, emitted')

BesidesListener ==
    /\ Mined
    /\ overwritten' = overwritten \union WrittenOver
    /\ UNCHANGED <<job, cycleVars>>

Service == ServiceNext /\ BesidesListener

-----------------------------------------------------------------------------
(* The handlers: the effect of one event on the rows.  _find_contract_by_  *)
(* chain_id returns the row bound to the event's contract, if there is one *)
(* (and raises if there are several).                                      *)

BoundTo(r, c) == row[r].id = c

MilestoneEffectChain == \* mutant: the chain's name of the status
    [MilestoneSubmitted |-> "submitted", MilestoneApproved |-> "approved",
     MilestoneRejected |-> "rejected"]
MilestoneEffect ==
    [MilestoneSubmitted |-> "submitted", MilestoneApproved |-> "approved",
     MilestoneRejected |-> "in_progress"]
ContractEffect == [ContractCompleted |-> "completed", ContractCancelled |-> "cancelled"]

\* process_contract_created binds a job that has no on-chain id, whichever the database
\* returns first; rank stands for that order.
JobAlreadyBound(db, c) == \E j \in Job : db.job[j] = c
BindJobAgain(db, c, rank) == \* mutant: a replayed event binds another job
    LET free == {j \in Job : db.job[j] = 0} IN
    IF free = {} THEN db
    ELSE [db EXCEPT !.job[CHOOSE j \in free : \A k \in free : rank[j] <= rank[k]] = c]

BindJob(db, c, rank) ==
    LET free == {j \in Job : db.job[j] = 0} IN
    IF JobAlreadyBound(db, c) \/ free = {} THEN db
    ELSE [db EXCEPT !.job[CHOOSE j \in free : \A k \in free : rank[j] <= rank[k]] = c]

\* process_dispute_resolved compares the winner's address with contract.client_id, which
\* is a user id: they always differ, so the decision is "release".
SetDisputeClosing(db, r, e) == \* mutant: the row's status follows the decision
    IF db.dispute[r].status = "none" THEN db
    ELSE IF e.name = "DisputeRaised" THEN [db EXCEPT !.dispute[r].status = "open"]
    ELSE [db EXCEPT !.dispute[r] = [status |-> "resolved", decision |-> "release"],
                    !.row[r].status = "completed"]
SetDispute(db, r, e) ==
    IF db.dispute[r].status = "none" THEN db
    ELSE IF e.name = "DisputeRaised" THEN [db EXCEPT !.dispute[r].status = "open"]
    ELSE [db EXCEPT !.dispute[r] = [status |-> "resolved", decision |-> "release"]]

Process(db, e, rank) ==
    LET bound == {r \in Row : BoundTo(r, e.id)} IN
    IF e.name = "ContractCreated" THEN BindJob(db, e.id, rank)
    ELSE IF bound = {} THEN db
    ELSE LET r == CHOOSE x \in bound : TRUE IN
         IF e.name \in DOMAIN MilestoneEffect
         THEN [db EXCEPT !.ms[r][e.index] = MilestoneEffect[e.name]]
         ELSE IF e.name \in DOMAIN ContractEffect
         THEN [db EXCEPT !.row[r].status = ContractEffect[e.name]]
         ELSE SetDispute(db, r, e)

\* scalar_one_or_none: an event of a contract two rows are bound to raises.
Raises(logs) ==
    \E k \in DOMAIN logs, r, s \in Row :
        /\ logs[k].name # "ContractCreated"
        /\ r # s /\ BoundTo(r, logs[k].id) /\ BoundTo(s, logs[k].id)

-----------------------------------------------------------------------------
(* The cycle of poll_events.                                               *)

\* The <<block, event name>> pairs of blocks from..to.
Pairs(from, to) ==
    {p \in (from .. to) \X ToSet(HandlerOrder) :
        \E k \in DOMAIN log[p[1]] : log[p[1]][k].name = p[2]}

\* The logs of blocks from..to, by event name in HandlerOrder: each name is a get_logs
\* call of its own, and the events of a name whose call failed are left out.
Named(name, logs) ==
    LET named[k \in 0 .. Len(logs)] ==
            IF k = 0 THEN <<>>
            ELSE IF logs[k].name = name THEN Append(named[k - 1], logs[k]) ELSE named[k - 1]
    IN  named[Len(logs)]
ReadLogs(from, to, failed) ==
    LET logs == FlattenSeq(SubSeq(log, from, to))
    IN  FlattenSeq([k \in DOMAIN HandlerOrder |->
            IF HandlerOrder[k] \in failed THEN <<>> ELSE Named(HandlerOrder[k], logs)])

\* current_block is read once; the cycle's get_logs calls all end there.  A call that
\* fails is logged and passed over.
Read ==
    /\ poll.pc = "idle"
    /\ lastBlock < Len(log)
    /\ \E failed \in SUBSET {p[2] : p \in Pairs(lastBlock + 1, Len(log))} :
          /\ mishaps + Cardinality(failed) <= MaxMishaps
          /\ mishaps' = mishaps + Cardinality(failed)
          /\ poll' = [pc |-> "read", to |-> Len(log), failed |-> failed,
                      logs |-> ReadLogs(lastBlock + 1, Len(log), failed)]
    /\ UNCHANGED <<serviceVars, log, job, overwritten, lastBlock, delivered, missed>>

\* The rows after the handlers of logs, one event after the other.
Processed(logs, rank) ==
    LET db[k \in 0 .. Len(logs)] ==
            IF k = 0 THEN [row |-> row, ms |-> ms, dispute |-> dispute, job |-> job]
                     ELSE Process(db[k - 1], logs[k], rank)
    IN  db[Len(logs)]

\* It waits for the rows an approval has flushed and not committed yet.
Unlocked ==
    \A q \in Request : Flushed(q) =>
        LET r == req[q].row
            locked == Columns(req[q].write)
        IN /\ ContractRow \in locked => row'[r].status = row[r].status
           /\ \A i \in locked \ {ContractRow} : ms'[r][i] = ms[r][i]

\* One database transaction for the whole batch.
Apply ==
    /\ poll.pc = "read"
    /\ ~Raises(poll.logs)
    /\ \E rank \in {f \in [Job -> 1 .. Cardinality(Job)] : IsInjective(f)} :
          LET db == Processed(poll.logs, rank)
          IN /\ row' = db.row
             /\ ms' = db.ms
             /\ dispute' = db.dispute
             /\ job' = db.job
    /\ Unlocked
    /\ LET read == Pairs(lastBlock + 1, poll.to)
           unread == {p \in read : p[2] \in poll.failed}
       IN /\ delivered' = delivered \union (read \ unread)
          /\ missed' = missed \union unread
    /\ poll' = [poll EXCEPT !.pc = "committed"]
    /\ UNCHANGED <<chainVars, req, lost, lateBound, log, overwritten,
                   lastBlock, mishaps>>

AdvanceOnLogs == \* mutant: a batch without events does not advance
    /\ poll.pc = "committed"
    /\ lastBlock' = IF poll.logs = <<>> THEN lastBlock ELSE poll.to
    /\ poll' = Resting
    /\ UNCHANGED <<serviceVars, log, job, overwritten, mishaps, delivered, missed>>

Advance ==
    /\ poll.pc = "committed"
    /\ lastBlock' = poll.to
    /\ poll' = Resting
    /\ UNCHANGED <<serviceVars, log, job, overwritten, mishaps, delivered, missed>>

InterruptAdvancing == \* mutant: Redis is updated in a finally block
    /\ poll.pc # "idle"
    /\ mishaps < MaxMishaps
    /\ mishaps' = mishaps + 1
    /\ lastBlock' = poll.to
    /\ poll' = Resting
    /\ UNCHANGED <<serviceVars, log, job, overwritten, delivered, missed>>

\* The process dies and restarts, or a Redis or database call raises and the loop starts
\* over: what Redis and PostgreSQL hold is kept, what the cycle has read is lost.
Interrupt ==
    /\ poll.pc # "idle"
    /\ mishaps < MaxMishaps
    /\ mishaps' = mishaps + 1
    /\ poll' = Resting
    /\ UNCHANGED <<serviceVars, log, job, overwritten, lastBlock, delivered, missed>>

Listener == Read \/ Apply \/ Advance

SyncNext == Service \/ Listener \/ Interrupt

\* The polling task is started with the application and loops for ever; every call it
\* awaits returns or raises, and so does every call of an approval that holds row locks.
\* Nothing obliges users to act.
SyncSpec ==
    /\ SyncInit /\ [][SyncNext]_syncVars
    /\ WF_syncVars(Listener)
    /\ \A q \in Request : WF_syncVars(Flushed(q) /\ Continue(q) /\ BesidesListener)

-----------------------------------------------------------------------------
(* What the copy promises.  A row is bound late when it was created while  *)
(* the chain could not be reached, or a look-up of its contract failed:    *)
(* what happened before it was bound is not in it, and nothing is promised *)
(* of it.                                                                  *)

SyncTypeOK ==
    /\ ServiceTypeOK
    /\ log \in Seq(Seq(Event))
    /\ job \in [Job -> Ids \union {0}]
    /\ lastBlock \in 0 .. Len(log)
    /\ poll.pc \in {"idle", "read", "committed"} /\ poll.to \in 0 .. Len(log)
    /\ mishaps \in 0 .. MaxMishaps
    /\ overwritten \subseteq Row

\* A block is behind the last processed block only after its events were committed to
\* the rows, except those of a failed read: a crash anywhere in the cycle makes the
\* listener apply events again and never makes it skip one.
NothingSkipped ==
    \A p \in Pairs(1, lastBlock) : p \in delivered \union missed

\* A row that was bound to its contract from the start claims no more than the chain,
\* though two writers share it: requests commit what they decided before an await, and
\* the listener applies events late, grouped by name, and again after a crash.
RowsNeverAhead == ApprovedOnChain /\ SettledOnChain /\ DisputeOnChain

CaughtUp == lastBlock = Len(log) /\ poll.pc = "idle"
NoneLost == missed \subseteq delivered

Logged(name, c) ==
    \E b \in DOMAIN log : \E k \in DOMAIN log[b] : log[b][k].name = name /\ log[b][k].id = c

\* Once the listener has caught up without a lost read, a contract that ended by its last
\* approval or by a cancellation is shown ended, also when no request told the backend;
\* unless a funding or a signature that had read the row before wrote over the ending.
\* (Of a contract ended by a resolved dispute no event says so to the row.)
SettledMirrored ==
    CaughtUp /\ NoneLost =>
        \A r \in Row : Backed(r) /\ r \notin overwritten =>
            /\ Logged("ContractCompleted", row[r].id) => row[r].status = "completed"
            /\ Logged("ContractCancelled", row[r].id) => row[r].status = "cancelled"

\* Once the listener has caught up and no read of DisputeResolved has failed, no dispute
\* the chain has ended is shown open: not when the answer to the resolution was lost or
\* its commit failed, nor when a batch that opens the dispute was applied after its
\* resolution, or again after a crash.  It asks that the owner's key, which is the
\* backend's, resolves no dispute past POST /disputes/{id}/resolve.
DisputesEnd ==
    CaughtUp /\ (\A p \in missed : p[2] # "DisputeResolved") =>
        \A r \in Row : Backed(r) /\ Logged("DisputeResolved", row[r].id) =>
            dispute[r].status # "open"

\* An on-chain contract is bound to one job at most, though its ContractCreated event may
\* be applied more than once: which job it is bound to is the database's choice.  (PUT
\* /jobs/{id}/on-chain-id, routers/jobs.py:105, binds a job too; no page sends it.)
OneJobPerContract ==
    \A j, k \in Job : job[j] # 0 /\ job[j] = job[k] => j = k

\* The listener catches up with a chain that stops growing, whatever it had to repeat.
EventuallyCaughtUp == <>[]CaughtUp

\* The events of one batch leave each milestone as the last of them left it on chain
\* (README.md:153, "syncs 8 blockchain events back to PostgreSQL automatically").
BatchInChainOrder ==
    [][poll.pc = "read" /\ poll'.pc = "committed" /\ poll.failed = {} =>
          \A r \in Row, i \in Indices :
              LET mine == SelectSeq(FlattenSeq(SubSeq(log, lastBlock + 1, poll.to)),
                            LAMBDA e : e.id = row[r].id /\ e.index = i
                                       /\ e.name \in DOMAIN MilestoneEffect)
              IN mine # <<>> => ms'[r][i] = MilestoneEffect[Last(mine).name]]_syncVars

\* A resolved dispute's row records the decision the chain carried out (README.md:112,
\* "resolves with on-chain refund or release").
DecisionMirrored == DecisionCarriedOut
=============================================================================
