------------------------------- MODULE Hiring -------------------------------
(***************************************************************************)
(* How a contract gets its freelancer (backend/app/routers/proposals.py):  *)
(* freelancers apply to a job, and the client accepts one proposal, which  *)
(* names the freelancer in the contract's row and on chain and rejects the *)
(* other proposals.  accept_proposal awaits the chain with its UPDATEs     *)
(* flushed and not committed, and a client may have several acceptances in *)
(* flight.  The chain is the module this one extends; a freelancer is      *)
(* identified with the wallet of the account.                              *)
(*                                                                         *)
(* Abstracted: the terms document and the message sent after the commit;   *)
(* an administrator's edits; the listener, which may bind a row without an *)
(* on_chain_id; setFreelancer from a wallet, which no page sends.  Rows    *)
(* have milestones: without one no contract is created on chain.  A        *)
(* freelancer without a wallet is refused, as by Abandon.                  *)
(***************************************************************************)
EXTENDS GigEscrow

CONSTANTS Row,        \* contracts rows posted without a freelancer, each for a job of its own
          Freelancer, \* the freelancers who may apply
          Deal,       \* Row -> [client : Address, amounts, total]
          Request,    \* acceptances the backend handles at a time
          MaxLost     \* bound on transactions mined after the backend gave up on them

ASSUME FreelancerAssumption == Freelancer \subseteq Address \ {Owner}
ASSUME HiringBoundAssumption == MaxLost \in Nat
ASSUME DealAssumption ==
    Deal \in [Row -> [client : Address, amounts : AmountLists, total : Totals]]

VARIABLES row,      \* contracts: on_chain_id (0 for NULL), freelancer_id (ZeroAddress for NULL)
          proposal, \* proposals.status, by row and freelancer ("none" without a row)
          req,      \* the acceptances in progress
          lost,     \* what MaxLost bounds
          unbound   \* history: rows whose contract was not created with them

hiringVars == <<chainVars, row, proposal, req, lost, unbound>>

ProposalStatus == {"none", "pending", "accepted", "rejected"}
Idle == [pc |-> "idle"]

HiringInit ==
    /\ Init
    /\ row = [r \in Row |-> [posted |-> FALSE, id |-> 0, freelancer |-> ZeroAddress]]
    /\ proposal = [r \in Row |-> [f \in Freelancer |-> "none"]]
    /\ req = [q \in Request |-> Idle]
    /\ lost = 0
    /\ unbound = {}

Lose == lost < MaxLost /\ lost' = lost + 1
Done(q) == req' = [req EXCEPT ![q] = Idle]

-----------------------------------------------------------------------------
\* POST /contracts without a freelancer_id: a creation on chain that fails, or whose
\* answer does not come, leaves a row without an on_chain_id.
PostContract(r) ==
    LET Create == CreateContract(Deal[r].client, ZeroAddress, Deal[r].total, Deal[r].amounts)
        Insert(id) == row' = [row EXCEPT ![r].posted = TRUE, ![r].id = id]
    IN
    /\ ~row[r].posted
    /\ \/ Create /\ Insert(contractCounter') /\ UNCHANGED <<lost, unbound>>
       \/ Create /\ Lose /\ Insert(0) /\ unbound' = unbound \union {r}
       \/ Insert(0) /\ unbound' = unbound \union {r} /\ UNCHANGED <<chainVars, lost>>
    /\ UNCHANGED <<proposal, req>>

\* POST /proposals, one per job and freelancer, at any time.
CreateProposal(r, f) ==
    /\ proposal[r][f] = "none"
    /\ proposal' = [proposal EXCEPT ![r][f] = "pending"]
    /\ UNCHANGED <<chainVars, row, req, lost, unbound>>

-----------------------------------------------------------------------------
(* POST /proposals/{id}/accept.                                            *)

\* The reads of the proposal and of the job's contract.
Load(q, r, f) ==
    /\ req[q].pc = "idle"
    /\ proposal[r][f] = "pending"
    /\ row[r].posted /\ row[r].freelancer = ZeroAddress
    /\ req' = [req EXCEPT ![q] = [pc |-> "loaded", row |-> r, who |-> f,
                                  id |-> row[r].id, rejects |-> {}]]
    /\ UNCHANGED <<chainVars, row, proposal, lost, unbound>>

\* The query of the remaining proposals flushes the UPDATEs of the contract and of the
\* proposal first (SQLAlchemy's autoflush): from here to the end of the request the
\* contract's row is locked, and a second acceptance waits for the first.
RowLocked(r) == \E q \in Request : req[q].pc \in {"flushed", "named"} /\ req[q].row = r

Remaining(r, f) == {g \in Freelancer \ {f} : proposal[r][g] = "pending"}

Flush(q) ==
    LET r == req[q].row IN
    /\ req[q].pc = "loaded"
    /\ ~RowLocked(r)
    /\ req' = [req EXCEPT ![q].pc = "flushed", ![q].rejects = Remaining(r, req[q].who)]
    /\ UNCHANGED <<chainVars, row, proposal, lost, unbound>>

\* set_freelancer_on_chain does nothing when the chain has the freelancer already.
AlreadySetAny(c, f) == contracts[c].freelancer # ZeroAddress \* mutant: any freelancer will do
AlreadySet(c, f) == contracts[c].freelancer = f

\* A row loaded without an on_chain_id gets a contract of the backend's own: no client
\* address is passed on.
Deploy(r, f) == CreateContract(Owner, f, Deal[r].total, Deal[r].amounts)

NameOnChain(q) ==
    LET r == req[q].row
        f == req[q].who
        c == req[q].id
        Named(id) == req' = [req EXCEPT ![q].pc = "named", ![q].id = id]
    IN
    /\ req[q].pc = "flushed"
    /\ \/ c # 0 /\ AlreadySet(c, f) /\ Named(c) /\ UNCHANGED <<chainVars, lost>>
       \/ c # 0 /\ ~AlreadySet(c, f) /\ SetFreelancer(Owner, c, f) /\ Named(c) /\ UNCHANGED lost
       \/ c = 0 /\ Deploy(r, f) /\ Named(contractCounter') /\ UNCHANGED lost
       \/ c = 0 /\ Deploy(r, f) /\ Lose /\ Named(0) \* mined, and its receipt not read again
    /\ UNCHANGED <<row, proposal, unbound>>

\* The transaction is mined after the handler gave up.
NameLost(q) ==
    LET c == req[q].id IN
    /\ req[q].pc = "flushed"
    /\ Lose
    /\ IF c # 0 THEN ~AlreadySet(c, req[q].who) /\ SetFreelancer(Owner, c, req[q].who)
                ELSE Deploy(req[q].row, req[q].who)
    /\ Done(q)
    /\ UNCHANGED <<row, proposal, unbound>>

\* The row as the handler leaves it: an on_chain_id it did not learn is not written.
NamedRowByJob(q) == [row[req[q].row] EXCEPT !.freelancer = req[q].row] \* mutant: another id
NamedRow(q) == [row[req[q].row] EXCEPT !.freelancer = req[q].who,
                                       !.id = IF req[q].id = 0 THEN @ ELSE req[q].id]

Commit(q) ==
    LET r == req[q].row
        f == req[q].who
    IN
    /\ req[q].pc = "named"
    /\ row' = [row EXCEPT ![r] = NamedRow(q)]
    /\ proposal' = [proposal EXCEPT ![r] =
                      [g \in Freelancer |-> IF g = f THEN "accepted"
                                            ELSE IF g \in req[q].rejects THEN "rejected" ELSE @[g]]]
    /\ Done(q)
    /\ UNCHANGED <<chainVars, lost, unbound>>

\* A refused transaction, an error, a crash: the UPDATEs are rolled back.
AbandonAccepting(q) == \* mutant: the proposal's status is committed before the chain is asked
    /\ req[q].pc # "idle"
    /\ proposal' = [proposal EXCEPT ![req[q].row] =
                      [g \in Freelancer |-> IF g \in req[q].rejects THEN "rejected" ELSE @[g]]]
    /\ Done(q)
    /\ UNCHANGED <<chainVars, row, lost, unbound>>

Abandon(q) ==
    /\ req[q].pc # "idle"
    /\ Done(q)
    /\ UNCHANGED <<chainVars, row, proposal, lost, unbound>>

HiringNext ==
    \/ \E r \in Row : PostContract(r)
    \/ \E r \in Row, f \in Freelancer : CreateProposal(r, f)
    \/ \E q \in Request : \/ \E r \in Row, f \in Freelancer : Load(q, r, f)
                          \/ Flush(q)
                          \/ NameOnChain(q)
                          \/ NameLost(q)
                          \/ Commit(q)
                          \/ Abandon(q)

HiringSpec == HiringInit /\ [][HiringNext]_hiringVars

-----------------------------------------------------------------------------
(* What hiring promises.                                                   *)

Acceptance == [pc : {"loaded", "flushed", "named"}, row : Row, who : Freelancer,
               id : Ids \union {0}, rejects : SUBSET Freelancer]

HiringTypeOK ==
    /\ TypeOK
    /\ row \in [Row -> [posted : BOOLEAN, id : Ids \union {0},
                        freelancer : Freelancer \union {ZeroAddress}]]
    /\ proposal \in [Row -> [Freelancer -> ProposalStatus]]
    /\ req \in [Request -> Acceptance \union {Idle}]
    /\ lost \in 0 .. MaxLost /\ unbound \subseteq Row

Accepted(r) == {f \in Freelancer : proposal[r][f] = "accepted"}

\* The freelancer a row names is the one its contract on chain pays, whichever acceptances
\* crossed and whichever answers were lost.  (Not so for a row whose contract was not
\* created with it: two acceptances deploy a contract each, and the one that does not
\* learn its contract's id leaves the row with the other's.)
HiredOnChain ==
    \A r \in Row \ unbound :
        row[r].freelancer # ZeroAddress => contracts[row[r].id].freelancer = row[r].freelancer

\* A contract posted with its contract on chain hires once: one proposal is accepted at
\* most, that of the freelancer the row names, though the database lets a second
\* acceptance pass.  (Two acceptances of a row without an on_chain_id both succeed.)
OneHired ==
    \A r \in Row \ unbound :
        \/ Accepted(r) = {} /\ row[r].freelancer = ZeroAddress
        \/ Accepted(r) = {row[r].freelancer}

\* An acceptance that failed after its transaction can be repeated: as long as the row
\* names nobody, the freelancer the chain names (for good) has a pending proposal.
HireCanBeRepeated ==
    \A r \in Row \ unbound :
        row[r].posted /\ row[r].freelancer = ZeroAddress =>
            LET f == contracts[row[r].id].freelancer
            IN f # ZeroAddress => proposal[r][f] = "pending"
=============================================================================
