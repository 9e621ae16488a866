------------------------------ MODULE GigEscrow ------------------------------
(***************************************************************************)
(* The escrow smart contract, contracts/contracts/GigEscrow.sol.  One      *)
(* deployed instance keeps every escrow of the marketplace and pools their *)
(* ether in one balance.  Each external function is an action: a call      *)
(* whose `require`s fail reverts and changes nothing, so it is a step the  *)
(* action does not take.  Every action has its guard as an operator of its *)
(* own (CanX), for the modules that must know whether a call reverts.      *)
(*                                                                         *)
(* Abstracted: titles, terms, deadlines, descriptions and timestamps;      *)
(* ether amounts are small naturals (uint256 arithmetic is checked, and no *)
(* sum of real ether amounts comes near 2^256); accounts are externally    *)
(* owned, so a transfer runs no code and fails only on a short balance.    *)
(* Ownable's transferOwnership is never called by this system: the owner   *)
(* is the account whose key the backend holds (blockchain_service.py).     *)
(***************************************************************************)
EXTENDS Integers, Sequences, FiniteSets, Functions

CONSTANTS Address,       \* the accounts that call the contract or are named in it
          Owner,         \* owner(): the account whose key the backend holds
          ZeroAddress,   \* address(0)
          Cid, NoCid,    \* deliverable CIDs, and the empty string
          MaxContracts,  \* bound on contractCounter
          MaxMilestones, \* bound on the milestones of one contract
          AmountLists,   \* the _milestoneAmounts arrays createContract is called with
          Totals         \* the _totalAmount and msg.value it is called with

ASSUME AddressAssumption == Owner \in Address /\ ZeroAddress \notin Address
ASSUME CidAssumption == NoCid \notin Cid
ASSUME BoundAssumption == MaxContracts \in Nat /\ MaxMilestones \in Nat \ {0}
ASSUME AmountAssumption ==
    /\ Totals \subseteq Nat
    /\ \A a \in AmountLists : a \in Seq(Nat) /\ Len(a) \in 1 .. MaxMilestones

PLATFORM_FEE_BPS == 250

Ids == 1 .. MaxContracts
Indices == 0 .. (MaxMilestones - 1)
Party == Address \union {ZeroAddress}

ContractStatus == {"Created", "InProgress", "Completed", "Cancelled", "Disputed"}
MilestoneStatus == {"Pending", "Funded", "Submitted", "Approved", "Rejected"}

Milestone == [amount : Nat, deliverableCID : Cid \union {NoCid}, status : MilestoneStatus]

EscrowContract == [client : Party, freelancer : Party, totalAmount : Nat,
                   status : ContractStatus, milestoneCount : Nat,
                   completedMilestones : Nat]

\* A mapping entry nobody has written: every field is its zero value.
NoMilestone == [amount |-> 0, deliverableCID |-> NoCid, status |-> "Pending"]
NoEscrow == [client |-> ZeroAddress, freelancer |-> ZeroAddress, totalAmount |-> 0,
             status |-> "Created", milestoneCount |-> 0, completedMilestones |-> 0]

\* A log of a receipt; the address is the one the event carries, or ZeroAddress.
EventName == {"MilestoneAdded", "ContractCreated", "FreelancerSet", "MilestoneSubmitted",
              "MilestoneApproved", "MilestoneRejected", "ContractCompleted",
              "ContractCancelled", "DisputeRaised", "DisputeResolved"}
Event == [name : EventName, id : Ids, index : Indices \union {-1}, who : Party]

ContractEvent(name, c, a) == [name |-> name, id |-> c, index |-> -1, who |-> a]
MilestoneEvent(name, c, i) == [name |-> name, id |-> c, index |-> i, who |-> ZeroAddress]

VARIABLES contractCounter, \* contracts created so far; contractExists[c] is c <= contractCounter
          contracts,       \* mapping id -> EscrowContract
          milestones,      \* mapping id -> index -> Milestone
          balance,         \* address(this).balance
          emitted,         \* the logs of the last successful transaction
          deposited,       \* history: ether each contract's fundContract brought in
          paid             \* history: ether each contract's calls sent, by recipient's role

chainVars == <<contractCounter, contracts, milestones, balance, emitted, deposited, paid>>

NothingPaid == [client |-> 0, freelancer |-> 0, owner |-> 0]

TypeOK ==
    /\ contractCounter \in 0 .. MaxContracts
    /\ contracts \in [Ids -> EscrowContract]
    /\ milestones \in [Ids -> [Indices -> Milestone]]
    /\ balance \in Nat
    /\ emitted \in Seq(Event)
    /\ deposited \in [Ids -> Nat]
    /\ paid \in [Ids -> [client : Nat, freelancer : Nat, owner : Nat]]

Init ==
    /\ contractCounter = 0
    /\ contracts = [c \in Ids |-> NoEscrow]
    /\ milestones = [c \in Ids |-> [i \in Indices |-> NoMilestone]]
    /\ balance = 0
    /\ emitted = <<>>
    /\ deposited = [c \in Ids |-> 0]
    /\ paid = [c \in Ids |-> NothingPaid]

-----------------------------------------------------------------------------
(* Modifiers.                                                              *)

contractExists(c) == c \in 1 .. contractCounter
onlyClient(s, c) == s \in {contracts[c].client, Owner}
onlyFreelancer(s, c) == s \in {contracts[c].freelancer, Owner}
onlyContractParty(s, c) == s \in {contracts[c].client, contracts[c].freelancer, Owner}

FeeOfPercent(amount) == (amount * PLATFORM_FEE_BPS) \div 100       \* mutant: a wrong divisor
FeeRoundedUp(amount) == (amount * PLATFORM_FEE_BPS + 9999) \div 10000 \* mutant: rounds up
Fee(amount) == (amount * PLATFORM_FEE_BPS) \div 10000

\* The transfers of one call, out of the pool.
Pay(c, toClient, toFreelancer, toOwner) ==
    /\ balance' = balance - (toClient + toFreelancer + toOwner)
    /\ paid' = [paid EXCEPT ![c] = [client |-> @.client + toClient,
                                   freelancer |-> @.freelancer + toFreelancer,
                                   owner |-> @.owner + toOwner]]

-----------------------------------------------------------------------------
(* createContract: anyone may call it, for any two parties.                *)

CanCreateAnyTotal(client, freelancer, total, amounts) == \* mutant: the sum is not checked
    /\ contractCounter < MaxContracts
    /\ client # ZeroAddress
    /\ client # freelancer

CanCreate(client, freelancer, total, amounts) ==
    /\ contractCounter < MaxContracts
    /\ client # ZeroAddress
    /\ client # freelancer
    /\ SumFunction(amounts) = total

CreateContract(client, freelancer, total, amounts) ==
    LET c == contractCounter + 1 IN
    /\ CanCreate(client, freelancer, total, amounts)
    /\ contractCounter' = c
    /\ contracts' = [contracts EXCEPT ![c] =
                        [NoEscrow EXCEPT !.client = client,
                                         !.freelancer = freelancer,
                                         !.totalAmount = total,
                                         !.milestoneCount = Len(amounts)]]
    /\ milestones' = [milestones EXCEPT ![c] =
                        [i \in Indices |-> IF i < Len(amounts)
                                           THEN [NoMilestone EXCEPT !.amount = amounts[i + 1]]
                                           ELSE NoMilestone]]
    /\ emitted' = Append([i \in 1 .. Len(amounts) |-> MilestoneEvent("MilestoneAdded", c, i - 1)],
                         ContractEvent("ContractCreated", c, client))
    /\ UNCHANGED <<balance, deposited, paid>>

(* setFreelancer: no requirement on the contract's status; the caller may  *)
(* not name itself, which binds the client only when the client calls.     *)

CanSetFreelancer(s, c, freelancer) ==
    /\ contractExists(c)
    /\ onlyClient(s, c)
    /\ freelancer \notin {ZeroAddress, s}
    /\ contracts[c].freelancer = ZeroAddress

SetFreelancer(s, c, freelancer) ==
    /\ CanSetFreelancer(s, c, freelancer)
    /\ contracts' = [contracts EXCEPT ![c].freelancer = freelancer]
    /\ emitted' = <<ContractEvent("FreelancerSet", c, freelancer)>>
    /\ UNCHANGED <<contractCounter, milestones, balance, deposited, paid>>

(* fundContract: the whole amount in one payment.  It emits no event.      *)

CanFundAgain(s, c, value) == \* mutant: the status is not checked
    /\ contractExists(c)
    /\ onlyClient(s, c)
    /\ value = contracts[c].totalAmount

CanFundAnyValue(s, c, value) == \* mutant: msg.value is not checked
    /\ contractExists(c)
    /\ onlyClient(s, c)
    /\ contracts[c].status = "Created"

CanFund(s, c, value) ==
    /\ contractExists(c)
    /\ onlyClient(s, c)
    /\ contracts[c].status = "Created"
    /\ value = contracts[c].totalAmount

FundContract(s, c, value) ==
    /\ CanFund(s, c, value)
    /\ contracts' = [contracts EXCEPT ![c].status = "InProgress"]
    /\ milestones' = [milestones EXCEPT ![c] =
                        [i \in Indices |-> IF i < contracts[c].milestoneCount
                                           THEN [@[i] EXCEPT !.status = "Funded"]
                                           ELSE @[i]]]
    /\ balance' = balance + value
    /\ deposited' = [deposited EXCEPT ![c] = @ + value]
    /\ emitted' = <<>>
    /\ UNCHANGED <<contractCounter, paid>>

-----------------------------------------------------------------------------
(* The milestone cycle.                                                    *)

CanSubmit(s, c, i, cid) ==
    /\ contractExists(c)
    /\ onlyFreelancer(s, c)
    /\ contracts[c].status = "InProgress"
    /\ i < contracts[c].milestoneCount
    /\ milestones[c][i].status = "Funded"
    /\ cid # NoCid

SubmitMilestone(s, c, i, cid) ==
    /\ CanSubmit(s, c, i, cid)
    /\ milestones' = [milestones EXCEPT ![c][i].status = "Submitted",
                                        ![c][i].deliverableCID = cid]
    /\ emitted' = <<MilestoneEvent("MilestoneSubmitted", c, i)>>
    /\ UNCHANGED <<contractCounter, contracts, balance, deposited, paid>>

(* approveMilestone pays the freelancer and the owner from the pool; a     *)
(* transfer the pool cannot cover reverts the call.  The last approval     *)
(* completes the contract (_completeContract).                             *)

CanApprove(s, c, i) ==
    /\ contractExists(c)
    /\ onlyClient(s, c)
    /\ contracts[c].status = "InProgress"
    /\ milestones[c][i].status = "Submitted"
    /\ balance >= milestones[c][i].amount

ApproveMilestone(s, c, i) ==
    LET amount == milestones[c][i].amount
        completed == contracts[c].completedMilestones + 1
        last == completed = contracts[c].milestoneCount
    IN
    /\ CanApprove(s, c, i)
    /\ milestones' = [milestones EXCEPT ![c][i].status = "Approved"]
    /\ contracts' = [contracts EXCEPT ![c].completedMilestones = completed,
                                      ![c].status = IF last THEN "Completed" ELSE @]
    /\ Pay(c, 0, amount - Fee(amount), Fee(amount))
    /\ emitted' = <<MilestoneEvent("MilestoneApproved", c, i)>>
                  \o (IF last THEN <<ContractEvent("ContractCompleted", c, ZeroAddress)>> ELSE <<>>)
    /\ UNCHANGED <<contractCounter, deposited>>

(* rejectMilestone looks at the milestone only, never at the contract.     *)

CanRejectApproved(s, c, i) == \* mutant: the milestone's status is not checked
    /\ contractExists(c)
    /\ onlyClient(s, c)
    /\ milestones[c][i].status \in {"Submitted", "Approved"}

CanReject(s, c, i) ==
    /\ contractExists(c)
    /\ onlyClient(s, c)
    /\ milestones[c][i].status = "Submitted"

RejectMilestoneKeepCid(s, c, i) == \* mutant: deliverableCID is not reset
    /\ CanReject(s, c, i)
    /\ milestones' = [milestones EXCEPT ![c][i].status = "Funded"]
    /\ emitted' = <<MilestoneEvent("MilestoneRejected", c, i)>>
    /\ UNCHANGED <<contractCounter, contracts, balance, deposited, paid>>

RejectMilestone(s, c, i) ==
    /\ CanReject(s, c, i)
    /\ milestones' = [milestones EXCEPT ![c][i].status = "Funded",
                                        ![c][i].deliverableCID = NoCid]
    /\ emitted' = <<MilestoneEvent("MilestoneRejected", c, i)>>
    /\ UNCHANGED <<contractCounter, contracts, balance, deposited, paid>>

-----------------------------------------------------------------------------
(* Disputes and cancellation.                                              *)

CanRaiseAnytime(s, c) == \* mutant: the status is not checked
    /\ contractExists(c)
    /\ onlyContractParty(s, c)

CanRaise(s, c) ==
    /\ contractExists(c)
    /\ onlyContractParty(s, c)
    /\ contracts[c].status \in {"InProgress", "Created"}

RaiseDisputeSilently(s, c) == \* mutant: no event
    /\ CanRaise(s, c)
    /\ contracts' = [contracts EXCEPT ![c].status = "Disputed"]
    /\ emitted' = <<>>
    /\ UNCHANGED <<contractCounter, milestones, balance, deposited, paid>>

RaiseDispute(s, c) ==
    /\ CanRaise(s, c)
    /\ contracts' = [contracts EXCEPT ![c].status = "Disputed"]
    /\ emitted' = <<ContractEvent("DisputeRaised", c, s)>>
    /\ UNCHANGED <<contractCounter, milestones, balance, deposited, paid>>

(* resolveDispute sends the winner address(this).balance: all the ether    *)
(* the instance holds, whichever contract it was deposited for.            *)

CanResolve(s, c) ==
    /\ contractExists(c)
    /\ s = Owner
    /\ contracts[c].status = "Disputed"

ResolveDispute(s, c, releaseToFreelancer) ==
    /\ CanResolve(s, c)
    /\ contracts' = [contracts EXCEPT ![c].status =
                        IF releaseToFreelancer THEN "Completed" ELSE "Cancelled"]
    /\ IF releaseToFreelancer
       THEN Pay(c, 0, balance - Fee(balance), Fee(balance))
       ELSE Pay(c, balance, 0, 0)
    /\ emitted' = <<ContractEvent("DisputeResolved", c,
                        IF releaseToFreelancer THEN contracts[c].freelancer
                                               ELSE contracts[c].client)>>
    /\ UNCHANGED <<contractCounter, milestones, deposited>>

CanCancelFunded(s, c) == \* mutant: a contract in progress is cancelled too
    /\ contractExists(c)
    /\ onlyClient(s, c)
    /\ contracts[c].status \in {"Created", "InProgress"}

CanCancel(s, c) ==
    /\ contractExists(c)
    /\ onlyClient(s, c)
    /\ contracts[c].status = "Created"

CancelContract(s, c) ==
    /\ CanCancel(s, c)
    /\ contracts' = [contracts EXCEPT ![c].status = "Cancelled"]
    /\ emitted' = <<ContractEvent("ContractCancelled", c, ZeroAddress)>>
    /\ UNCHANGED <<contractCounter, milestones, balance, deposited, paid>>

-----------------------------------------------------------------------------
Call(s, c) ==
    \/ \E f \in Address : SetFreelancer(s, c, f)
    \/ \E value \in Totals : FundContract(s, c, value)
    \/ \E i \in Indices, cid \in Cid : SubmitMilestone(s, c, i, cid)
    \/ \E i \in Indices : ApproveMilestone(s, c, i)
    \/ \E i \in Indices : RejectMilestone(s, c, i)
    \/ RaiseDispute(s, c)
    \/ \E release \in BOOLEAN : ResolveDispute(s, c, release)
    \/ CancelContract(s, c)

Next ==
    \/ \E client, freelancer \in Party, total \in Totals, amounts \in AmountLists :
            CreateContract(client, freelancer, total, amounts)
    \/ \E s \in Address, c \in Ids : Call(s, c)

Spec == Init /\ [][Next]_chainVars
-----------------------------------------------------------------------------
(* What the contract promises.                                             *)

AllIndices(c) == {i \in Indices : i < contracts[c].milestoneCount}
Approved(c) == {i \in Indices : milestones[c][i].status = "Approved"}
ApprovedAmount(c) == SumFunction([i \in Approved(c) |-> milestones[c][i].amount])
PaidOut(c) == paid[c].client + paid[c].freelancer + paid[c].owner
SettledByApproval(c) == contracts[c].status = "Completed" /\ Approved(c) = AllIndices(c)

\* The milestones of a contract agree with its status: a contract has a milestone, and
\* untouched mapping entries are zero; before fundContract every milestone is Pending, and from then on none is; a
\* contract in progress has been funded; a milestone carries a deliverable exactly when
\* it is Submitted or Approved (a rejection takes the deliverable back).
MilestonesFollowContract ==
    \A c \in Ids :
        /\ IF contractExists(c) THEN AllIndices(c) # {} ELSE contracts[c] = NoEscrow
        /\ \A i \in Indices \ AllIndices(c) : milestones[c][i] = NoMilestone
        /\ \/ /\ contracts[c].status # "InProgress"
              /\ \A i \in Indices : milestones[c][i].status = "Pending"
           \/ /\ contracts[c].status # "Created"
              /\ \A i \in AllIndices(c) :
                    milestones[c][i].status \in {"Funded", "Submitted", "Approved"}
        /\ \A i \in Indices :
              milestones[c][i].deliverableCID # NoCid
                 <=> milestones[c][i].status \in {"Submitted", "Approved"}

\* completedMilestones is the number of approved milestones, and a contract leaves
\* InProgress with its last approval: none stays open with nothing left to approve, in
\* whatever order milestones are submitted, rejected and approved around disputes.
CompletionCounted ==
    \A c \in Ids :
        /\ contracts[c].completedMilestones = Cardinality(Approved(c))
        /\ contracts[c].status \in {"InProgress", "Disputed"} =>
              contracts[c].completedMilestones < contracts[c].milestoneCount

\* Until a dispute is resolved, the ether a contract has sent is exactly what was
\* approved, split between freelancer and platform, with the platform's part at most
\* 2.5% however the per-milestone divisions round; the client gets nothing back.
PaidForApprovedWork ==
    \A c \in Ids :
        contracts[c].status \in {"Created", "InProgress", "Disputed"} \/ SettledByApproval(c) =>
            /\ paid[c].client = 0
            /\ paid[c].freelancer + paid[c].owner = ApprovedAmount(c)
            /\ paid[c].owner * 10000 <= ApprovedAmount(c) * PLATFORM_FEE_BPS

\* An approval is final: no later reject, dispute or resolution takes a milestone's
\* approval back or changes what it was worth.
ApprovalsFinal ==
    [][\A c \in Ids, i \in Indices :
          milestones[c][i].status = "Approved" => milestones'[c][i] = milestones[c][i]]_chainVars

\* A completed or cancelled contract never comes back and never pays again, whether it
\* ended by its last approval, by a resolution or by cancellation.
SettledFinal ==
    [][\A c \in Ids :
          contracts[c].status \in {"Completed", "Cancelled"} =>
              contracts'[c].status = contracts[c].status /\ paid'[c] = paid[c]]_chainVars

\* Whoever is named as a contract's client or freelancer stays so: no later call
\* redirects its payments.
PartiesFinal ==
    [][\A c \in Ids :
          contractExists(c) =>
              /\ contracts'[c].client = contracts[c].client
              /\ contracts[c].freelancer # ZeroAddress =>
                    contracts'[c].freelancer = contracts[c].freelancer]_chainVars

\* Whatever a transaction does to a contract, other than fundContract (the only call
\* that puts a created contract in progress), it emits an event of that contract: the
\* backend's listener has no other way to know.
ChangesAnnounced ==
    [][\A c \in Ids :
          /\ <<contracts[c], milestones[c]>>' # <<contracts[c], milestones[c]>>
          /\ ~(contracts[c].status = "Created" /\ contracts'[c].status = "InProgress")
          => \E k \in DOMAIN emitted' : emitted'[k].id = c]_chainVars

\* The amount of a contract's funded milestones that nobody has approved, while the
\* contract is running or disputed.
Unapproved(c) ==
    IF contracts[c].status \in {"InProgress", "Disputed"}
    THEN {i \in Indices : milestones[c][i].status \in {"Funded", "Submitted"}}
    ELSE {}
Locked(c) == SumFunction([i \in Unapproved(c) |-> milestones[c][i].amount])

\* The ether locked for unapproved milestones is in the pool.  It holds for an instance
\* that keeps one contract; with two, resolveDispute of one sends the other's deposit
\* along (README.md:97 promises "funds locked on-chain until milestones approved").
LockedFundsHeld == SumFunction([c \in Ids |-> Locked(c)]) <= balance

\* A contract whose milestones are all approved has sent out exactly its deposit: the
\* milestone amounts were checked to sum to the total, and nothing of it stays behind.
CompletedPaidInFull ==
    \A c \in Ids : SettledByApproval(c) /\ contractExists(c) => PaidOut(c) = deposited[c]

\* A disputed contract is paused (README.md:109, "contract paused on-chain"): until the
\* resolution no milestone of it changes.
DisputePauses ==
    [][\A c \in Ids :
          contracts[c].status = "Disputed" => milestones'[c] = milestones[c]]_chainVars

-----------------------------------------------------------------------------
(* The contract as the ledger its users reason with: EscrowLedger keeps    *)
(* every escrow's ether apart.                                             *)

heldMap == [c \in Ids |-> deposited[c] - PaidOut(c)]
phaseMap == [c \in Ids |->
                IF contracts[c].status \in {"Completed", "Cancelled"} THEN "settled"
                ELSE IF milestones[c][0].status = "Pending" THEN "open" ELSE "locked"]

Ledger == INSTANCE EscrowLedger WITH held <- heldMap, phase <- phaseMap

\* The contract implements the ledger: no escrow sends more than was deposited for it.
\* It holds for an instance that keeps one contract, and for any other as long as no
\* resolution is a Drain (GigEscrow_proofs proves both).
LedgerSpec == Ledger!Spec

\* A dispute is resolved while the pool is not the account of the contract: another
\* contract's ether goes out, or some of this one's is missing.
Drain(c) ==
    /\ \E s \in Address, release \in BOOLEAN : ResolveDispute(s, c, release)
    /\ balance # heldMap[c]

\* However many contracts share the pool, such a resolution is the only step that the
\* ledger does not allow, before and after it: no approval, funding or cancellation sends
\* an ether that is not its contract's.
LedgerSteps ==
    [][Ledger!Next \/ \E c \in Ids : Drain(c)]_<<heldMap, phaseMap>>
=============================================================================
