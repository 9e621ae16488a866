-------------------------- MODULE GigEscrow_proofs --------------------------
(***************************************************************************)
(* Theorems about GigEscrow for any accounts, any number of contracts and  *)
(* milestones and any amounts.                                             *)
(***************************************************************************)
EXTENDS GigEscrow, FiniteSetTheorems, TLAPS

\* The platform's fee is a natural number and never exceeds the amount it is taken from,
\* so neither transfer of a payout is negative.
LEMMA FeeBound == \A n \in Nat : Fee(n) \in Nat /\ Fee(n) <= n /\ n - Fee(n) \in Nat
  BY DEF Fee, PLATFORM_FEE_BPS

\* The entries of a mapping nobody has written are well typed.
LEMMA ZeroValues == NoEscrow \in EscrowContract /\ NoMilestone \in Milestone
  BY AddressAssumption DEF NoEscrow, EscrowContract, NoMilestone, Milestone, Party,
        ContractStatus, MilestoneStatus

\* Writing one field of a record of the right type keeps the type.
LEMMA EscrowFields ==
    ASSUME NEW e \in EscrowContract
    PROVE  /\ \A s \in ContractStatus : [e EXCEPT !.status = s] \in EscrowContract
           /\ \A f \in Party : [e EXCEPT !.freelancer = f] \in EscrowContract
           /\ \A s \in ContractStatus, n \in Nat :
                 [e EXCEPT !.completedMilestones = n, !.status = s] \in EscrowContract
  BY DEF EscrowContract

LEMMA MilestoneFields ==
    ASSUME NEW m \in Milestone
    PROVE  /\ \A s \in MilestoneStatus : [m EXCEPT !.status = s] \in Milestone
           /\ \A s \in MilestoneStatus, d \in Cid \union {NoCid} :
                 [m EXCEPT !.status = s, !.deliverableCID = d] \in Milestone
  BY DEF Milestone

\* So does replacing one entry of a mapping.
LEMMA MappingEntry ==
    ASSUME NEW S, NEW T, NEW f \in [S -> T], NEW x \in S, NEW v \in T
    PROVE  [f EXCEPT ![x] = v] \in [S -> T]
  OBVIOUS

\* The logs the actions build are events.
LEMMA EventTypes ==
    /\ \A name \in EventName, c \in Ids, a \in Party : ContractEvent(name, c, a) \in Event
    /\ \A name \in EventName, c \in Ids, i \in Indices : MilestoneEvent(name, c, i) \in Event
  BY DEF ContractEvent, MilestoneEvent, Event, Party

\* A payout of an amount the pool covers, to the freelancer and the platform or back to
\* the client, keeps the pool and the history typed.
LEMMA PayType ==
    ASSUME TypeOK, NEW c \in Ids, NEW a \in Nat, a <= balance,
           Pay(c, 0, a - Fee(a), Fee(a)) \/ Pay(c, a, 0, 0)
    PROVE  /\ balance' \in Nat
           /\ paid' \in [Ids -> [client : Nat, freelancer : Nat, owner : Nat]]
<1>1. /\ balance \in Nat
      /\ paid \in [Ids -> [client : Nat, freelancer : Nat, owner : Nat]]
      /\ paid[c].client \in Nat /\ paid[c].freelancer \in Nat /\ paid[c].owner \in Nat
  BY DEF TypeOK
<1>2. ASSUME NEW x \in Nat, NEW y \in Nat, NEW z \in Nat, x + y + z = a, Pay(c, x, y, z)
      PROVE  /\ balance' \in Nat
             /\ paid' \in [Ids -> [client : Nat, freelancer : Nat, owner : Nat]]
  <2>1. balance' \in Nat
    BY <1>1, <1>2 DEF Pay
  <2>2. [client |-> paid[c].client + x, freelancer |-> paid[c].freelancer + y,
         owner |-> paid[c].owner + z] \in [client : Nat, freelancer : Nat, owner : Nat]
    BY <1>1
  <2> QED BY <1>1, <1>2, <2>1, <2>2, MappingEntry DEF Pay
<1>3. Fee(a) \in Nat /\ a - Fee(a) \in Nat /\ 0 + (a - Fee(a)) + Fee(a) = a /\ a + 0 + 0 = a
  BY FeeBound
<1> QED BY <1>2, <1>3

LEMMA InitType == Init => TypeOK
  BY ZeroValues, BoundAssumption DEF Init, TypeOK, NothingPaid

LEMMA CreateType ==
    ASSUME TypeOK, NEW client \in Party, NEW freelancer \in Party, NEW total \in Totals,
           NEW amounts \in AmountLists, CreateContract(client, freelancer, total, amounts)
    PROVE  TypeOK'
<1> DEFINE c == contractCounter + 1
<1>1. c \in Ids /\ contractCounter' \in 0 .. MaxContracts
  BY BoundAssumption DEF CreateContract, CanCreate, TypeOK, Ids
<1>2. amounts \in Seq(Nat) /\ Len(amounts) \in 1 .. MaxMilestones /\ total \in Nat
  BY AmountAssumption
<1>3. contracts' \in [Ids -> EscrowContract]
  <2>1. [NoEscrow EXCEPT !.client = client, !.freelancer = freelancer,
                         !.totalAmount = total, !.milestoneCount = Len(amounts)]
            \in EscrowContract
    <3>1. \A n, t \in Nat : [NoEscrow EXCEPT !.client = client, !.freelancer = freelancer,
                                !.totalAmount = t, !.milestoneCount = n] \in EscrowContract
      BY ZeroValues DEF EscrowContract
    <3>2. Len(amounts) \in Nat /\ total \in Nat
      BY <1>2, BoundAssumption
    <3> QED BY <3>1, <3>2, Zenon
  <2> QED BY <1>1, <2>1, MappingEntry DEF CreateContract, TypeOK
<1>4. milestones' \in [Ids -> [Indices -> Milestone]]
  <2>1. \A i \in Indices : i < Len(amounts) => amounts[i + 1] \in Nat
    BY <1>2 DEF Indices
  <2>2. [i \in Indices |-> IF i < Len(amounts)
                           THEN [NoMilestone EXCEPT !.amount = amounts[i + 1]]
                           ELSE NoMilestone] \in [Indices -> Milestone]
    BY <2>1, ZeroValues DEF Milestone, NoMilestone
  <2> QED BY <1>1, <2>2 DEF CreateContract, TypeOK
<1>5. emitted' \in Seq(Event)
  <2>1. [i \in 1 .. Len(amounts) |-> MilestoneEvent("MilestoneAdded", c, i - 1)] \in Seq(Event)
    BY <1>1, <1>2, EventTypes, BoundAssumption DEF EventName, Indices
  <2>2. ContractEvent("ContractCreated", c, client) \in Event
    BY <1>1, EventTypes DEF EventName
  <2> QED BY <2>1, <2>2 DEF CreateContract
<1> QED BY <1>1, <1>3, <1>4, <1>5 DEF CreateContract, TypeOK
LEMMA CallType ==
    ASSUME TypeOK, NEW s \in Address, NEW c \in Ids, Call(s, c)
    PROVE  TypeOK'
<1> DEFINE e == contracts[c]
<1>0. /\ e \in EscrowContract
      /\ contracts \in [Ids -> EscrowContract]
      /\ milestones \in [Ids -> [Indices -> Milestone]]
      /\ milestones[c] \in [Indices -> Milestone]
      /\ e.client \in Party /\ e.freelancer \in Party /\ e.status \in ContractStatus
      /\ e.completedMilestones \in Nat
  BY DEF TypeOK, EscrowContract
<1>s. /\ {"Created", "InProgress", "Completed", "Cancelled", "Disputed"} \subseteq ContractStatus
      /\ {"Pending", "Funded", "Submitted", "Approved", "Rejected"} \subseteq MilestoneStatus
  BY DEF ContractStatus, MilestoneStatus
<1> HIDE DEF e
<1>1. ASSUME NEW f \in Address, SetFreelancer(s, c, f) PROVE TypeOK'
  <2>1. [e EXCEPT !.freelancer = f] \in EscrowContract
    BY <1>0, EscrowFields DEF Party
  <2>2. contracts' = [contracts EXCEPT ![c] = [e EXCEPT !.freelancer = f]]
    BY <1>1 DEF SetFreelancer, e
  <2>3. contracts' \in [Ids -> EscrowContract]
    BY <1>0, <2>1, <2>2, MappingEntry
  <2>4. emitted' \in Seq(Event)
    BY <1>1, EventTypes DEF SetFreelancer, EventName, Party
  <2> QED BY <1>1, <2>3, <2>4 DEF SetFreelancer, TypeOK
<1>2. ASSUME NEW value \in Totals, FundContract(s, c, value) PROVE TypeOK'
  <2>1. contracts' \in [Ids -> EscrowContract]
    <3>1. [e EXCEPT !.status = "InProgress"] \in EscrowContract
      BY <1>0, <1>s, EscrowFields
    <3> QED BY <1>0, <1>2, <3>1, MappingEntry DEF FundContract, e
  <2>2. milestones' \in [Ids -> [Indices -> Milestone]]
    <3> DEFINE cm == [i \in Indices |-> IF i < contracts[c].milestoneCount
                                         THEN [milestones[c][i] EXCEPT !.status = "Funded"]
                                         ELSE milestones[c][i]]
    <3>1. \A i \in Indices : /\ milestones[c][i] \in Milestone
                             /\ [milestones[c][i] EXCEPT !.status = "Funded"] \in Milestone
      BY <1>0, <1>s, MilestoneFields
    <3>2. cm \in [Indices -> Milestone]
      BY <3>1
    <3>3. milestones' = [milestones EXCEPT ![c] = cm]
      BY <1>2 DEF FundContract
    <3> QED BY <1>0, <3>2, <3>3, MappingEntry
  <2>3. value \in Nat
    BY AmountAssumption
  <2>4. balance' \in Nat /\ deposited' \in [Ids -> Nat]
    BY <1>2, <2>3 DEF FundContract, TypeOK
  <2> QED BY <1>2, <2>1, <2>2, <2>4 DEF FundContract, TypeOK
<1>m. ASSUME NEW i \in Indices, NEW m \in Milestone,
             milestones' = [milestones EXCEPT ![c][i] = m]
      PROVE  milestones' \in [Ids -> [Indices -> Milestone]]
  <2>1. [milestones[c] EXCEPT ![i] = m] \in [Indices -> Milestone]
    BY <1>0, MappingEntry
  <2> QED BY <1>0, <1>m, <2>1, MappingEntry
<1>3. ASSUME NEW i \in Indices, NEW cid \in Cid, SubmitMilestone(s, c, i, cid) PROVE TypeOK'
  <2>1. milestones' = [milestones EXCEPT ![c][i] = [milestones[c][i] EXCEPT
                            !.status = "Submitted", !.deliverableCID = cid]]
    BY <1>3, <1>0 DEF SubmitMilestone
  <2>2. [milestones[c][i] EXCEPT !.status = "Submitted", !.deliverableCID = cid] \in Milestone
    BY <1>0, <1>s, MilestoneFields
  <2>3. milestones' \in [Ids -> [Indices -> Milestone]]
    BY <1>m, <2>1, <2>2
  <2>4. emitted' \in Seq(Event)
    BY <1>3, EventTypes DEF SubmitMilestone, EventName
  <2> QED BY <1>3, <2>3, <2>4 DEF SubmitMilestone, TypeOK
<1>4. ASSUME NEW i \in Indices, ApproveMilestone(s, c, i) PROVE TypeOK'
  <2>1. milestones' \in [Ids -> [Indices -> Milestone]]
    <3>1. [milestones[c][i] EXCEPT !.status = "Approved"] \in Milestone
      BY <1>0, <1>s, MilestoneFields
    <3> QED BY <1>0, <1>4, <1>m, <3>1 DEF ApproveMilestone
  <2>2. contracts' \in [Ids -> EscrowContract]
    <3> DEFINE n == e.completedMilestones + 1
               st == IF n = e.milestoneCount THEN "Completed" ELSE e.status
    <3>1. n \in Nat /\ st \in ContractStatus
      BY <1>0, <1>s
    <3>2. contracts' = [contracts EXCEPT ![c] = [e EXCEPT !.completedMilestones = n, !.status = st]]
      BY <1>0, <1>4 DEF ApproveMilestone, e, EscrowContract
    <3> HIDE DEF n, st
    <3>3. [e EXCEPT !.completedMilestones = n, !.status = st] \in EscrowContract
      BY <1>0, <3>1, EscrowFields
    <3> QED BY <1>0, <3>2, <3>3, MappingEntry
  <2>3. emitted' \in Seq(Event)
    BY <1>4, EventTypes DEF ApproveMilestone, EventName, Party
  <2>4. milestones[c][i].amount \in Nat /\ milestones[c][i].amount <= balance /\ balance \in Nat
    BY <1>4 DEF ApproveMilestone, CanApprove, TypeOK, Milestone
  <2>5. balance' \in Nat /\ paid' \in [Ids -> [client : Nat, freelancer : Nat, owner : Nat]]
    <3>1. \A a \in Nat : a <= balance /\ Pay(c, 0, a - Fee(a), Fee(a)) =>
              balance' \in Nat /\ paid' \in [Ids -> [client : Nat, freelancer : Nat, owner : Nat]]
      BY PayType
    <3> QED BY <1>4, <2>4, <3>1 DEF ApproveMilestone
  <2> QED BY <1>4, <2>1, <2>2, <2>3, <2>5 DEF ApproveMilestone, TypeOK
<1>5. ASSUME NEW i \in Indices, RejectMilestone(s, c, i) PROVE TypeOK'
  <2>1. milestones' = [milestones EXCEPT ![c][i] = [milestones[c][i] EXCEPT
                            !.status = "Funded", !.deliverableCID = NoCid]]
    BY <1>5, <1>0 DEF RejectMilestone
  <2>2. [milestones[c][i] EXCEPT !.status = "Funded", !.deliverableCID = NoCid] \in Milestone
    BY <1>0, <1>s, MilestoneFields
  <2>3. milestones' \in [Ids -> [Indices -> Milestone]]
    BY <1>m, <2>1, <2>2
  <2>4. emitted' \in Seq(Event)
    BY <1>5, EventTypes DEF RejectMilestone, EventName
  <2> QED BY <1>5, <2>3, <2>4 DEF RejectMilestone, TypeOK
<1>e. ASSUME NEW st \in ContractStatus, contracts' = [contracts EXCEPT ![c].status = st]
      PROVE  contracts' \in [Ids -> EscrowContract]
  <2>1. [e EXCEPT !.status = st] \in EscrowContract
    BY <1>0, EscrowFields
  <2> QED BY <1>0, <1>e, <2>1, MappingEntry DEF e
<1>6. CASE RaiseDispute(s, c)
  <2>1. contracts' \in [Ids -> EscrowContract]
    BY <1>6, <1>e, <1>s DEF RaiseDispute
  <2>2. emitted' \in Seq(Event)
    BY <1>6, EventTypes DEF RaiseDispute, EventName, Party
  <2> QED BY <1>6, <2>1, <2>2 DEF RaiseDispute, TypeOK
<1>7. ASSUME NEW release \in BOOLEAN, ResolveDispute(s, c, release) PROVE TypeOK'
  <2>1. contracts' \in [Ids -> EscrowContract]
    <3> DEFINE st == IF release THEN "Completed" ELSE "Cancelled"
    <3>1. st \in ContractStatus /\ contracts' = [contracts EXCEPT ![c].status = st]
      BY <1>7, <1>s DEF ResolveDispute
    <3> QED BY <1>e, <3>1
  <2>2. emitted' \in Seq(Event)
    BY <1>0, <1>7, EventTypes DEF ResolveDispute, EventName, e
  <2>3. balance \in Nat
    BY DEF TypeOK
  <2>4. balance' \in Nat /\ paid' \in [Ids -> [client : Nat, freelancer : Nat, owner : Nat]]
    <3>1. \A a \in Nat : a <= balance /\ (Pay(c, 0, a - Fee(a), Fee(a)) \/ Pay(c, a, 0, 0)) =>
              balance' \in Nat /\ paid' \in [Ids -> [client : Nat, freelancer : Nat, owner : Nat]]
      BY PayType
    <3>2. Pay(c, 0, balance - Fee(balance), Fee(balance)) \/ Pay(c, balance, 0, 0)
      BY <1>7 DEF ResolveDispute
    <3> QED BY <2>3, <3>1, <3>2
  <2> QED BY <1>7, <2>1, <2>2, <2>4 DEF ResolveDispute, TypeOK
<1>8. CASE CancelContract(s, c)
  <2>1. contracts' \in [Ids -> EscrowContract]
    BY <1>8, <1>e, <1>s DEF CancelContract
  <2>2. emitted' \in Seq(Event)
    BY <1>8, EventTypes, AddressAssumption DEF CancelContract, EventName, Party
  <2> QED BY <1>8, <2>1, <2>2 DEF CancelContract, TypeOK
<1> QED BY <1>1, <1>2, <1>3, <1>4, <1>5, <1>6, <1>7, <1>8 DEF Call

LEMMA StepType == TypeOK /\ [Next]_chainVars => TypeOK'
<1> SUFFICES ASSUME TypeOK, [Next]_chainVars PROVE TypeOK'
  OBVIOUS
<1>1. CASE UNCHANGED chainVars
  BY <1>1 DEF chainVars, TypeOK
<1>2. CASE Next
  BY <1>2, CreateType, CallType DEF Next
<1> QED BY <1>1, <1>2

\* Every reachable state is well typed: in particular no call leaves the pool, or what
\* a party was sent, below zero, whatever the amounts and however the fee rounds.
THEOREM TypeCorrect == Spec => []TypeOK
  BY InitType, StepType, PTL DEF Spec
-----------------------------------------------------------------------------
(* One contract's record e and milestones cm agree: what the two           *)
(* invariants below say of one contract, as a predicate on values, so that *)
(* each update is a lemma without primes.                                  *)

ApprovedIn(cm) == {i \in Indices : cm[i].status = "Approved"}

Agree(e, cm) ==
    /\ \A i \in Indices : ~(i < e.milestoneCount) => cm[i] = NoMilestone
    /\ \/ e.status # "InProgress" /\ \A i \in Indices : cm[i].status = "Pending"
       \/ /\ e.status # "Created"
          /\ \A i \in Indices : i < e.milestoneCount =>
                cm[i].status \in {"Funded", "Submitted", "Approved"}
    /\ \A i \in Indices :
          cm[i].deliverableCID # NoCid <=> cm[i].status \in {"Submitted", "Approved"}
    /\ e.completedMilestones = Cardinality(ApprovedIn(cm))
    /\ e.status \in {"InProgress", "Disputed", "Cancelled"} =>
          e.completedMilestones < e.milestoneCount

\* The milestones a contract can have are finitely many, hence so are its approved ones.
LEMMA ApprovedFinite ==
    ASSUME NEW cm
    PROVE  IsFiniteSet(ApprovedIn(cm)) /\ Cardinality(ApprovedIn(cm)) \in Nat
<1>1. IsFiniteSet(Indices)
  BY FS_Interval, BoundAssumption DEF Indices
<1> QED BY <1>1, FS_Subset, FS_CardinalityType DEF ApprovedIn

LEMMA NoneApproved ==
    ASSUME NEW cm, \A i \in Indices : cm[i].status # "Approved"
    PROVE  ApprovedIn(cm) = {} /\ Cardinality(ApprovedIn(cm)) = 0
  BY FS_EmptySet DEF ApprovedIn

\* A contract just created, or an entry not yet created, agrees with its milestones.
LEMMA NewAgrees ==
    ASSUME NEW e \in EscrowContract, NEW cm \in [Indices -> Milestone],
           e.status = "Created", e.completedMilestones = 0,
           \A i \in Indices : cm[i].status = "Pending" /\ cm[i].deliverableCID = NoCid,
           \A i \in Indices : ~(i < e.milestoneCount) => cm[i] = NoMilestone
    PROVE  Agree(e, cm)
  BY NoneApproved DEF Agree

\* Naming the freelancer touches nothing the agreement reads.
LEMMA FreelancerAgrees ==
    ASSUME NEW e \in EscrowContract, NEW cm, Agree(e, cm), NEW f \in Party
    PROVE  Agree([e EXCEPT !.freelancer = f], cm)
  BY DEF Agree, EscrowContract

\* Disputing, cancelling or settling a contract leaves its milestones in agreement.
LEMMA StatusAgrees ==
    ASSUME NEW e \in EscrowContract, NEW cm, Agree(e, cm), NEW st \in ContractStatus,
           \/ st = "Completed"
           \/ /\ st \in {"Disputed", "Cancelled"} /\ 0 < e.milestoneCount
              /\ e.status \in {"Created", "InProgress", "Disputed"}
    PROVE  Agree([e EXCEPT !.status = st], cm)
<1>1. CASE st = "Completed"
  BY <1>1 DEF Agree, EscrowContract
<1>2. CASE st \in {"Disputed", "Cancelled"} /\ e.status \in {"InProgress", "Disputed"}
  BY <1>2 DEF Agree, EscrowContract
<1>3. CASE st \in {"Disputed", "Cancelled"} /\ e.status = "Created" /\ 0 < e.milestoneCount
  <2>1. \A i \in Indices : cm[i].status = "Pending"
    BY <1>3 DEF Agree
  <2>2. Cardinality(ApprovedIn(cm)) = 0
    BY <2>1, NoneApproved
  <2> QED BY <1>3, <2>1, <2>2 DEF Agree, EscrowContract
<1> QED BY <1>1, <1>2, <1>3

\* Funding takes every milestone from Pending to Funded.
LEMMA FundAgrees ==
    ASSUME NEW e \in EscrowContract, NEW cm \in [Indices -> Milestone], Agree(e, cm),
           e.status = "Created", 0 < e.milestoneCount
    PROVE  Agree([e EXCEPT !.status = "InProgress"],
                 [i \in Indices |-> IF i < e.milestoneCount
                                    THEN [cm[i] EXCEPT !.status = "Funded"] ELSE cm[i]])
<1> DEFINE new == [i \in Indices |-> IF i < e.milestoneCount
                                     THEN [cm[i] EXCEPT !.status = "Funded"] ELSE cm[i]]
<1>1. \A i \in Indices : cm[i].status = "Pending" /\ cm[i].deliverableCID = NoCid
  BY DEF Agree
<1>2. \A i \in Indices : /\ new[i].status # "Approved" /\ new[i].deliverableCID = NoCid
                         /\ new[i].status # "Submitted"
                         /\ i < e.milestoneCount => new[i].status = "Funded"
                         /\ ~(i < e.milestoneCount) => new[i] = cm[i]
  BY <1>1 DEF Milestone
<1>3. Cardinality(ApprovedIn(new)) = 0 /\ Cardinality(ApprovedIn(cm)) = 0
  BY <1>1, <1>2, NoneApproved
<1> HIDE DEF new
<1>4. Agree([e EXCEPT !.status = "InProgress"], new)
  BY <1>2, <1>3 DEF Agree, EscrowContract
<1> QED BY <1>4 DEF new

\* Submitting or rejecting a milestone of a funded contract approves none.
LEMMA CycleAgrees ==
    ASSUME NEW e \in EscrowContract, NEW cm \in [Indices -> Milestone], Agree(e, cm),
           NEW i \in Indices, NEW m \in Milestone,
           cm[i].status \in {"Funded", "Submitted"}, m.status \in {"Funded", "Submitted"},
           m.deliverableCID # NoCid <=> m.status = "Submitted"
    PROVE  Agree(e, [cm EXCEPT ![i] = m])
<1> DEFINE new == [cm EXCEPT ![i] = m]
<1>1. new[i] = m /\ \A j \in Indices \ {i} : new[j] = cm[j]
  OBVIOUS
<1>2. i < e.milestoneCount
  BY DEF Agree, NoMilestone
<1>3. ApprovedIn(new) = ApprovedIn(cm)
  BY <1>1 DEF ApprovedIn
<1> HIDE DEF new
<1>4. Agree(e, new)
  BY <1>1, <1>2, <1>3 DEF Agree
<1> QED BY <1>4 DEF new

\* Approving a submitted milestone counts it, and completes the contract with the last.
LEMMA ApproveAgrees ==
    ASSUME NEW e \in EscrowContract, NEW cm \in [Indices -> Milestone], Agree(e, cm),
           NEW i \in Indices, cm[i].status = "Submitted", e.status = "InProgress"
    PROVE  LET n == e.completedMilestones + 1 IN
           Agree([e EXCEPT !.completedMilestones = n,
                           !.status = IF n = e.milestoneCount THEN "Completed" ELSE e.status],
                 [cm EXCEPT ![i] = [cm[i] EXCEPT !.status = "Approved"]])
<1> DEFINE new == [cm EXCEPT ![i] = [cm[i] EXCEPT !.status = "Approved"]]
           n == e.completedMilestones + 1
           st == IF n = e.milestoneCount THEN "Completed" ELSE e.status
           e2 == [e EXCEPT !.completedMilestones = n, !.status = st]
<1>1. /\ new[i].status = "Approved" /\ new[i].deliverableCID = cm[i].deliverableCID
      /\ \A j \in Indices \ {i} : new[j] = cm[j]
  BY DEF Milestone
<1>2. i < e.milestoneCount
  BY DEF Agree, NoMilestone
<1>3. ApprovedIn(new) = ApprovedIn(cm) \union {i} /\ i \notin ApprovedIn(cm)
  BY <1>1 DEF ApprovedIn
<1>4. Cardinality(ApprovedIn(new)) = Cardinality(ApprovedIn(cm)) + 1
  BY <1>3, ApprovedFinite, FS_AddElement
<1>5. /\ e2.status = st /\ e2.completedMilestones = n /\ e2.milestoneCount = e.milestoneCount
      /\ n \in Nat /\ e.milestoneCount \in Nat
  BY DEF EscrowContract
<1>6. n = Cardinality(ApprovedIn(new))
  BY <1>4 DEF Agree
<1>7. st # "Created" /\ (st \in {"InProgress", "Disputed", "Cancelled"} => n < e.milestoneCount)
  BY <1>5 DEF Agree, EscrowContract
<1>8. \A j \in Indices : j < e.milestoneCount => cm[j].status \in {"Funded", "Submitted", "Approved"}
  BY DEF Agree
<1> HIDE DEF new, n, st, e2
<1>9. Agree(e2, new)
  BY <1>1, <1>2, <1>5, <1>6, <1>7, <1>8 DEF Agree
<1> QED BY <1>9 DEF new, n, st, e2
-----------------------------------------------------------------------------
(* The inductive invariant: every contract agrees with its milestones, an  *)
(* existing one has at least one of them and an entry not yet created is   *)
(* zero.                                                                   *)

Entry(c) ==
    /\ Agree(contracts[c], milestones[c])
    /\ IF contractExists(c) THEN 0 < contracts[c].milestoneCount ELSE contracts[c] = NoEscrow

EscrowInv == TypeOK /\ \A c \in Ids : Entry(c)

LEMMA InitInv == Init => EscrowInv
<1> SUFFICES ASSUME Init, NEW c \in Ids PROVE Entry(c)
  BY InitType DEF EscrowInv
<1>1. contracts[c] = NoEscrow /\ milestones[c] = [i \in Indices |-> NoMilestone]
      /\ contractCounter = 0
  BY DEF Init
<1>2. milestones[c] \in [Indices -> Milestone]
  BY <1>1, ZeroValues
<1>3. Agree(contracts[c], milestones[c])
  BY <1>1, <1>2, ZeroValues, NewAgrees DEF NoEscrow, NoMilestone
<1> QED BY <1>1, <1>3 DEF Entry, contractExists

\* A call on contract c that takes its record and milestones to agreeing values, and
\* touches no other contract, preserves the invariant.
LEMMA OneEntry ==
    ASSUME EscrowInv, TypeOK', NEW c \in Ids, contractExists(c), NEW e \in EscrowContract, NEW cm,
           contracts' = [contracts EXCEPT ![c] = e],
           milestones' = [milestones EXCEPT ![c] = cm],
           UNCHANGED contractCounter,
           e.milestoneCount = contracts[c].milestoneCount,
           Agree(e, cm)
    PROVE  EscrowInv'
<1> SUFFICES ASSUME NEW d \in Ids PROVE Entry(d)'
  BY DEF EscrowInv
<1>1. contracts \in [Ids -> EscrowContract] /\ milestones \in [Ids -> [Indices -> Milestone]]
  BY DEF EscrowInv, TypeOK
<1>2. CASE d = c
  <2>1. contracts'[d] = e /\ milestones'[d] = cm
    BY <1>1, <1>2
  <2>2. 0 < e.milestoneCount /\ contractExists(d)'
    BY <1>2 DEF EscrowInv, Entry, contractExists
  <2> QED BY <2>1, <2>2 DEF Entry
<1>3. CASE d # c
  BY <1>1, <1>3 DEF EscrowInv, Entry, contractExists
<1> QED BY <1>2, <1>3

LEMMA CreateInv ==
    ASSUME EscrowInv, NEW client \in Party, NEW freelancer \in Party, NEW total \in Totals,
           NEW amounts \in AmountLists, CreateContract(client, freelancer, total, amounts)
    PROVE  EscrowInv'
<1> DEFINE c == contractCounter + 1
<1>1. TypeOK /\ TypeOK'
  BY CreateType DEF EscrowInv
<1>2. /\ contracts \in [Ids -> EscrowContract] /\ milestones \in [Ids -> [Indices -> Milestone]]
      /\ contractCounter \in Nat /\ c \in Ids /\ contractCounter' = c
  BY <1>1, BoundAssumption DEF TypeOK, CreateContract, CanCreate, Ids
<1>3. /\ contracts'[c].status = "Created" /\ contracts'[c].completedMilestones = 0
      /\ contracts'[c].milestoneCount = Len(amounts)
  BY <1>2 DEF CreateContract, NoEscrow
<1>4. \A i \in Indices : /\ milestones'[c][i].status = "Pending"
                         /\ milestones'[c][i].deliverableCID = NoCid
                         /\ ~(i < Len(amounts)) => milestones'[c][i] = NoMilestone
  BY <1>2 DEF CreateContract, NoMilestone
<1>5. Len(amounts) \in Nat /\ 0 < Len(amounts)
  BY AmountAssumption, BoundAssumption
<1>6. contracts'[c] \in EscrowContract /\ milestones'[c] \in [Indices -> Milestone]
  BY <1>1, <1>2 DEF TypeOK
<1>7. Agree(contracts'[c], milestones'[c])
  BY <1>3, <1>4, <1>6, NewAgrees
<1>8. \A d \in Ids \ {c} : contracts'[d] = contracts[d] /\ milestones'[d] = milestones[d]
  BY <1>2 DEF CreateContract
<1> SUFFICES ASSUME NEW d \in Ids PROVE Entry(d)'
  BY <1>1 DEF EscrowInv
<1>9. CASE d = c
  BY <1>2, <1>3, <1>5, <1>7, <1>9 DEF Entry, contractExists
<1>10. CASE d # c
  BY <1>2, <1>8, <1>10 DEF EscrowInv, Entry, contractExists, Ids
<1> QED BY <1>9, <1>10

LEMMA CallInv ==
    ASSUME EscrowInv, NEW s \in Address, NEW c \in Ids, Call(s, c)
    PROVE  EscrowInv'
<1> DEFINE e == contracts[c]
           cm == milestones[c]
<1>0. /\ TypeOK' /\ TypeOK /\ Entry(c)
      /\ contracts \in [Ids -> EscrowContract] /\ milestones \in [Ids -> [Indices -> Milestone]]
      /\ e \in EscrowContract /\ cm \in [Indices -> Milestone] /\ Agree(e, cm)
      /\ milestones = [milestones EXCEPT ![c] = cm] /\ contracts = [contracts EXCEPT ![c] = e]
  BY CallType DEF EscrowInv, TypeOK, Entry
<1>n. contractExists(c) => 0 < e.milestoneCount
  BY <1>0 DEF Entry
<1>s. /\ {"Created", "InProgress", "Completed", "Cancelled", "Disputed"} \subseteq ContractStatus
      /\ {"Pending", "Funded", "Submitted", "Approved", "Rejected"} \subseteq MilestoneStatus
  BY DEF ContractStatus, MilestoneStatus
<1> HIDE DEF e, cm
<1>1. ASSUME NEW f \in Address, SetFreelancer(s, c, f) PROVE EscrowInv'
  <2> DEFINE e2 == [e EXCEPT !.freelancer = f]
  <2>1. Agree(e2, cm) /\ e2 \in EscrowContract /\ e2.milestoneCount = e.milestoneCount
    BY <1>0, FreelancerAgrees, EscrowFields DEF Party, EscrowContract
  <2>2. contracts' = [contracts EXCEPT ![c] = e2] /\ milestones' = [milestones EXCEPT ![c] = cm]
        /\ contractExists(c) /\ UNCHANGED contractCounter
    BY <1>0, <1>1 DEF SetFreelancer, CanSetFreelancer, e
  <2> QED BY <1>0, <2>1, <2>2, OneEntry DEF e
<1>2. ASSUME NEW value \in Totals, FundContract(s, c, value) PROVE EscrowInv'
  <2> DEFINE e2 == [e EXCEPT !.status = "InProgress"]
             cm2 == [i \in Indices |-> IF i < e.milestoneCount
                                       THEN [cm[i] EXCEPT !.status = "Funded"] ELSE cm[i]]
  <2>1. contractExists(c) /\ e.status = "Created" /\ UNCHANGED contractCounter
    BY <1>2 DEF FundContract, CanFund, e
  <2>2. contracts' = [contracts EXCEPT ![c] = e2] /\ milestones' = [milestones EXCEPT ![c] = cm2]
    BY <1>2 DEF FundContract, e, cm
  <2>3. Agree(e2, cm2)
    BY <1>0, <1>n, <2>1, FundAgrees
  <2>4. e2 \in EscrowContract /\ e2.milestoneCount = e.milestoneCount
    BY <1>0, <1>s, EscrowFields DEF EscrowContract
  <2> QED BY <1>0, <2>1, <2>2, <2>3, <2>4, OneEntry DEF e
<1>m. ASSUME NEW i \in Indices, NEW m \in Milestone, contractExists(c), UNCHANGED contractCounter,
             cm[i].status \in {"Funded", "Submitted"}, m.status \in {"Funded", "Submitted"},
             m.deliverableCID # NoCid <=> m.status = "Submitted",
             UNCHANGED contracts, milestones' = [milestones EXCEPT ![c][i] = m]
      PROVE  EscrowInv'
  <2> DEFINE cm2 == [cm EXCEPT ![i] = m]
  <2>1. Agree(e, cm2)
    BY <1>0, <1>m, CycleAgrees
  <2>2. milestones' = [milestones EXCEPT ![c] = cm2] /\ contracts' = [contracts EXCEPT ![c] = e]
    BY <1>0, <1>m DEF cm
  <2> QED BY <1>0, <1>m, <2>1, <2>2, OneEntry DEF e
<1>3. ASSUME NEW i \in Indices, NEW cid \in Cid, SubmitMilestone(s, c, i, cid) PROVE EscrowInv'
  <2> DEFINE m == [cm[i] EXCEPT !.status = "Submitted", !.deliverableCID = cid]
  <2>1. m \in Milestone /\ m.status = "Submitted" /\ m.deliverableCID = cid /\ cid # NoCid
    BY <1>0, <1>s, MilestoneFields, CidAssumption DEF Milestone
  <2>2. /\ contractExists(c) /\ cm[i].status = "Funded"
        /\ UNCHANGED contractCounter /\ UNCHANGED contracts
        /\ milestones' = [milestones EXCEPT ![c][i] = m]
    BY <1>0, <1>3 DEF SubmitMilestone, CanSubmit, cm
  <2> HIDE DEF m
  <2> QED BY <1>m, <2>1, <2>2
<1>4. ASSUME NEW i \in Indices, ApproveMilestone(s, c, i) PROVE EscrowInv'
  <2> DEFINE n == e.completedMilestones + 1
             e2 == [e EXCEPT !.completedMilestones = n,
                             !.status = IF n = e.milestoneCount THEN "Completed" ELSE e.status]
             cm2 == [cm EXCEPT ![i] = [cm[i] EXCEPT !.status = "Approved"]]
  <2>1. /\ contractExists(c) /\ e.status = "InProgress" /\ cm[i].status = "Submitted"
        /\ UNCHANGED contractCounter
    BY <1>4 DEF ApproveMilestone, CanApprove, e, cm
  <2>2. Agree(e2, cm2)
    BY <1>0, <2>1, ApproveAgrees
  <2>3. contracts' = [contracts EXCEPT ![c] = e2]
    BY <1>0, <1>4 DEF ApproveMilestone, e, EscrowContract
  <2>4. milestones' = [milestones EXCEPT ![c] = cm2]
    BY <1>0, <1>4 DEF ApproveMilestone, cm
  <2>5. e2 \in EscrowContract /\ e2.milestoneCount = e.milestoneCount
    <3>1. n \in Nat /\ (IF n = e.milestoneCount THEN "Completed" ELSE e.status) \in ContractStatus
      BY <1>0, <1>s DEF EscrowContract
    <3>2. e2 \in EscrowContract
      BY <1>0, <3>1, EscrowFields
    <3> QED BY <1>0, <3>2 DEF EscrowContract
  <2> HIDE DEF e2, cm2
  <2> QED BY <1>0, <2>1, <2>2, <2>3, <2>4, <2>5, OneEntry DEF e
<1>5. ASSUME NEW i \in Indices, RejectMilestone(s, c, i) PROVE EscrowInv'
  <2> DEFINE m == [cm[i] EXCEPT !.status = "Funded", !.deliverableCID = NoCid]
  <2>1. m \in Milestone /\ m.status = "Funded" /\ m.deliverableCID = NoCid
    <3>1. cm[i] \in Milestone
      BY <1>0
    <3>2. m \in Milestone
      BY <1>s, <3>1, MilestoneFields
    <3> QED BY <3>1, <3>2 DEF Milestone
  <2>2. /\ contractExists(c) /\ cm[i].status = "Submitted"
        /\ UNCHANGED contractCounter /\ UNCHANGED contracts
        /\ milestones' = [milestones EXCEPT ![c][i] = m]
    BY <1>0, <1>5 DEF RejectMilestone, CanReject, cm
  <2> HIDE DEF m
  <2> QED BY <1>m, <2>1, <2>2
<1>e. ASSUME NEW st \in ContractStatus, contractExists(c), UNCHANGED contractCounter,
             UNCHANGED milestones, contracts' = [contracts EXCEPT ![c].status = st],
             \/ st = "Completed"
             \/ st \in {"Disputed", "Cancelled"} /\ e.status \in {"Created", "InProgress", "Disputed"}
      PROVE  EscrowInv'
  <2> DEFINE e2 == [e EXCEPT !.status = st]
  <2>1. Agree(e2, cm)
    BY <1>0, <1>e, <1>n, StatusAgrees
  <2>2. e2 \in EscrowContract /\ e2.milestoneCount = e.milestoneCount
    BY <1>0, EscrowFields DEF EscrowContract
  <2>3. milestones' = [milestones EXCEPT ![c] = cm] /\ contracts' = [contracts EXCEPT ![c] = e2]
    BY <1>0, <1>e DEF e
  <2> QED BY <1>0, <1>e, <2>1, <2>2, <2>3, OneEntry DEF e
<1>6. CASE RaiseDispute(s, c)
  BY <1>6, <1>e, <1>s DEF RaiseDispute, CanRaise, e
<1>7. ASSUME NEW release \in BOOLEAN, ResolveDispute(s, c, release) PROVE EscrowInv'
  <2> DEFINE st == IF release THEN "Completed" ELSE "Cancelled"
  <2>1. /\ st \in ContractStatus /\ st \in {"Completed", "Cancelled"} /\ contractExists(c)
        /\ e.status = "Disputed" /\ contracts' = [contracts EXCEPT ![c].status = st]
        /\ UNCHANGED contractCounter /\ UNCHANGED milestones
    BY <1>7, <1>s DEF ResolveDispute, CanResolve, e
  <2> QED BY <1>e, <2>1
<1>8. CASE CancelContract(s, c)
  <2>1. /\ contractExists(c) /\ e.status = "Created" /\ "Cancelled" \in ContractStatus
        /\ contracts' = [contracts EXCEPT ![c].status = "Cancelled"]
        /\ UNCHANGED contractCounter /\ UNCHANGED milestones
    BY <1>8, <1>s DEF CancelContract, CanCancel, e
  <2> QED BY <1>e, <2>1
<1> QED BY <1>1, <1>2, <1>3, <1>4, <1>5, <1>6, <1>7, <1>8 DEF Call

LEMMA StepInv == EscrowInv /\ [Next]_chainVars => EscrowInv'
<1> SUFFICES ASSUME EscrowInv, [Next]_chainVars PROVE EscrowInv'
  OBVIOUS
<1>1. CASE UNCHANGED chainVars
  BY <1>1 DEF chainVars, EscrowInv, TypeOK, Entry, contractExists
<1>2. CASE Next
  BY <1>2, CreateInv, CallInv DEF Next
<1> QED BY <1>1, <1>2

\* The inductive invariant holds in every reachable state.
THEOREM InvCorrect == Spec => []EscrowInv
  BY InitInv, StepInv, PTL DEF Spec
-----------------------------------------------------------------------------
(* What follows from it.                                                   *)

\* The milestones of every contract agree with its status, for any number of contracts
\* and milestones.
THEOREM MilestonesAgree == Spec => []MilestonesFollowContract
<1>1. EscrowInv => MilestonesFollowContract
  <2> SUFFICES ASSUME EscrowInv, NEW c \in Ids
               PROVE  /\ IF contractExists(c) THEN AllIndices(c) # {} ELSE contracts[c] = NoEscrow
                      /\ \A i \in Indices \ AllIndices(c) : milestones[c][i] = NoMilestone
                      /\ \/ /\ contracts[c].status # "InProgress"
                            /\ \A i \in Indices : milestones[c][i].status = "Pending"
                         \/ /\ contracts[c].status # "Created"
                            /\ \A i \in AllIndices(c) :
                                  milestones[c][i].status \in {"Funded", "Submitted", "Approved"}
                      /\ \A i \in Indices :
                            milestones[c][i].deliverableCID # NoCid
                               <=> milestones[c][i].status \in {"Submitted", "Approved"}
    BY DEF MilestonesFollowContract
  <2>1. Entry(c) /\ Agree(contracts[c], milestones[c])
    BY DEF EscrowInv, Entry
  <2>2. 0 \in Indices
    BY BoundAssumption DEF Indices
  <2>3. IF contractExists(c) THEN AllIndices(c) # {} ELSE contracts[c] = NoEscrow
    BY <2>1, <2>2 DEF Entry, AllIndices
  <2> QED BY <2>1, <2>3 DEF Agree, AllIndices
<1> QED BY <1>1, InvCorrect, PTL

\* The counter that completes a contract counts its approved milestones, and a contract
\* with none left to approve is no longer in progress.
THEOREM CountCorrect == Spec => []CompletionCounted
<1>1. EscrowInv => CompletionCounted
  BY DEF EscrowInv, Entry, Agree, ApprovedIn, Approved, CompletionCounted
<1> QED BY <1>1, InvCorrect, PTL

\* An approved milestone stays as it is, through any transaction of any caller.
LEMMA ApprovalKept ==
    ASSUME EscrowInv, [Next]_chainVars, NEW d \in Ids, NEW j \in Indices,
           milestones[d][j].status = "Approved"
    PROVE  milestones'[d][j] = milestones[d][j]
<1>0. /\ milestones \in [Ids -> [Indices -> Milestone]] /\ Entry(d) /\ TypeOK
      /\ Agree(contracts[d], milestones[d])
  BY DEF EscrowInv, TypeOK, Entry
<1>1. ASSUME NEW client \in Party, NEW freelancer \in Party, NEW total \in Totals,
             NEW amounts \in AmountLists, CreateContract(client, freelancer, total, amounts)
      PROVE  milestones'[d][j] = milestones[d][j]
  <2>1. contractCounter \in Nat
    BY <1>0, BoundAssumption DEF TypeOK
  <2>2. d # contractCounter + 1
    <3> SUFFICES ASSUME d = contractCounter + 1 PROVE FALSE
      OBVIOUS
    <3>1. contracts[d] = NoEscrow
      BY <1>0, <2>1 DEF Entry, contractExists
    <3>2. ApprovedIn(milestones[d]) = {}
      BY <1>0, <3>1, ApprovedFinite, FS_EmptySet DEF Agree, NoEscrow
    <3> QED BY <3>2 DEF ApprovedIn
  <2> QED BY <1>0, <1>1, <2>2 DEF CreateContract
<1>2. ASSUME NEW s \in Address, NEW c \in Ids, Call(s, c)
      PROVE  milestones'[d][j] = milestones[d][j]
  <2>1. ASSUME NEW value \in Totals, FundContract(s, c, value)
        PROVE  milestones'[d][j] = milestones[d][j]
    <3>1. contracts[c].status = "Created"
      BY <2>1 DEF FundContract, CanFund
    <3>2. d # c
      BY <1>0, <3>1 DEF Agree
    <3> QED BY <1>0, <2>1, <3>2 DEF FundContract
  <2>2. ASSUME NEW i \in Indices, NEW cid \in Cid, SubmitMilestone(s, c, i, cid)
        PROVE  milestones'[d][j] = milestones[d][j]
    BY <1>0, <2>2 DEF SubmitMilestone, CanSubmit
  <2>3. ASSUME NEW i \in Indices, ApproveMilestone(s, c, i)
        PROVE  milestones'[d][j] = milestones[d][j]
    BY <1>0, <2>3 DEF ApproveMilestone, CanApprove
  <2>4. ASSUME NEW i \in Indices, RejectMilestone(s, c, i)
        PROVE  milestones'[d][j] = milestones[d][j]
    BY <1>0, <2>4 DEF RejectMilestone, CanReject
  <2>5. CASE \/ \E f \in Address : SetFreelancer(s, c, f)
             \/ RaiseDispute(s, c)
             \/ \E release \in BOOLEAN : ResolveDispute(s, c, release)
             \/ CancelContract(s, c)
    BY <2>5 DEF SetFreelancer, RaiseDispute, ResolveDispute, CancelContract
  <2> QED BY <1>2, <2>1, <2>2, <2>3, <2>4, <2>5 DEF Call
<1>3. CASE UNCHANGED chainVars
  BY <1>3 DEF chainVars
<1> QED BY <1>1, <1>2, <1>3 DEF Next

\* No step of any caller takes an approval back.
THEOREM ApprovalsStay == Spec => ApprovalsFinal
<1> DEFINE Stays == \A c \in Ids, i \in Indices :
                      milestones[c][i].status = "Approved" => milestones'[c][i] = milestones[c][i]
<1>1. EscrowInv /\ [Next]_chainVars => [Stays]_chainVars
  BY ApprovalKept
<1> QED BY <1>1, InvCorrect, PTL DEF Spec, ApprovalsFinal

\* A call on one contract leaves the status, the parties and the history of payments of
\* every other contract alone; what the three action properties below share.
LEMMA OthersUntouched ==
    ASSUME TypeOK, NEW s \in Address, NEW c \in Ids, Call(s, c), NEW d \in Ids \ {c}
    PROVE  contracts'[d] = contracts[d] /\ paid'[d] = paid[d]
  BY DEF TypeOK, Call, SetFreelancer, FundContract, SubmitMilestone, ApproveMilestone,
         RejectMilestone, RaiseDispute, ResolveDispute, CancelContract, Pay

\* A contract that is over keeps its status and its payments.
LEMMA SettledKept ==
    ASSUME EscrowInv, [Next]_chainVars, NEW d \in Ids,
           contracts[d].status \in {"Completed", "Cancelled"}
    PROVE  contracts'[d].status = contracts[d].status /\ paid'[d] = paid[d]
<1>0. contracts \in [Ids -> EscrowContract] /\ TypeOK /\ Entry(d)
  BY DEF EscrowInv, TypeOK
<1>1. ASSUME NEW client \in Party, NEW freelancer \in Party, NEW total \in Totals,
             NEW amounts \in AmountLists, CreateContract(client, freelancer, total, amounts)
      PROVE  contracts'[d] = contracts[d] /\ paid'[d] = paid[d]
  <2>1. contractCounter \in Nat
    BY <1>0, BoundAssumption DEF TypeOK
  <2>2. d # contractCounter + 1
    BY <1>0, <2>1 DEF Entry, contractExists, NoEscrow
  <2> QED BY <1>0, <1>1, <2>2 DEF CreateContract
<1>2. ASSUME NEW s \in Address, Call(s, d)
      PROVE  contracts'[d].status = contracts[d].status /\ paid'[d] = paid[d]
  <2>1. CASE \E f \in Address : SetFreelancer(s, d, f)
    BY <1>0, <2>1 DEF SetFreelancer, EscrowContract
  <2>2. CASE \/ \E i \in Indices, cid \in Cid : SubmitMilestone(s, d, i, cid)
             \/ \E i \in Indices : RejectMilestone(s, d, i)
    BY <2>2 DEF SubmitMilestone, RejectMilestone
  <2>3. ~ \/ \E value \in Totals : FundContract(s, d, value)
          \/ \E i \in Indices : ApproveMilestone(s, d, i)
          \/ RaiseDispute(s, d)
          \/ \E release \in BOOLEAN : ResolveDispute(s, d, release)
          \/ CancelContract(s, d)
    BY DEF FundContract, CanFund, ApproveMilestone, CanApprove, RaiseDispute, CanRaise,
           ResolveDispute, CanResolve, CancelContract, CanCancel
  <2> QED BY <1>2, <2>1, <2>2, <2>3 DEF Call
<1>3. CASE UNCHANGED chainVars
  BY <1>3 DEF chainVars
<1> QED BY <1>0, <1>1, <1>2, <1>3, OthersUntouched DEF Next

\* A completed or cancelled contract stays so and sends nothing more.
THEOREM SettledStays == Spec => SettledFinal
<1> DEFINE Stays == \A c \in Ids :
                      contracts[c].status \in {"Completed", "Cancelled"} =>
                          contracts'[c].status = contracts[c].status /\ paid'[c] = paid[c]
<1>1. EscrowInv /\ [Next]_chainVars => [Stays]_chainVars
  BY SettledKept
<1> QED BY <1>1, InvCorrect, PTL DEF Spec, SettledFinal

\* Nobody replaces a contract's client, nor its freelancer once there is one.
THEOREM PartiesStay == Spec => PartiesFinal
<1> DEFINE Stays == \A c \in Ids :
                      contractExists(c) =>
                          /\ contracts'[c].client = contracts[c].client
                          /\ contracts[c].freelancer # ZeroAddress =>
                                contracts'[c].freelancer = contracts[c].freelancer
<1>1. EscrowInv /\ [Next]_chainVars => [Stays]_chainVars
  <2> SUFFICES ASSUME EscrowInv, Next, NEW d \in Ids, contractExists(d)
               PROVE  /\ contracts'[d].client = contracts[d].client
                      /\ contracts[d].freelancer # ZeroAddress =>
                            contracts'[d].freelancer = contracts[d].freelancer
    OBVIOUS
  <2>0. contracts \in [Ids -> EscrowContract] /\ TypeOK
    BY DEF EscrowInv, TypeOK
  <2>1. ASSUME NEW client \in Party, NEW freelancer \in Party, NEW total \in Totals,
               NEW amounts \in AmountLists, CreateContract(client, freelancer, total, amounts)
        PROVE  contracts'[d] = contracts[d]
    <3>1. contractCounter \in Nat /\ d # contractCounter + 1
      BY <2>0, BoundAssumption DEF TypeOK, contractExists
    <3> QED BY <2>0, <2>1, <3>1 DEF CreateContract
  <2>2. ASSUME NEW s \in Address, Call(s, d)
        PROVE  /\ contracts'[d].client = contracts[d].client
               /\ contracts[d].freelancer # ZeroAddress =>
                     contracts'[d].freelancer = contracts[d].freelancer
    <3>0. contracts[d] \in EscrowContract
      BY <2>0
    <3>1. ASSUME NEW f \in Address, SetFreelancer(s, d, f)
          PROVE  /\ contracts'[d].client = contracts[d].client
                 /\ contracts[d].freelancer = ZeroAddress
      BY <2>0, <3>0, <3>1 DEF SetFreelancer, CanSetFreelancer, EscrowContract
    <3>2. ASSUME NEW st, contracts' = [contracts EXCEPT ![d].status = st]
          PROVE  /\ contracts'[d].client = contracts[d].client
                 /\ contracts'[d].freelancer = contracts[d].freelancer
      BY <2>0, <3>0, <3>2 DEF EscrowContract
    <3>3. ASSUME NEW i \in Indices, ApproveMilestone(s, d, i)
          PROVE  /\ contracts'[d].client = contracts[d].client
                 /\ contracts'[d].freelancer = contracts[d].freelancer
      BY <2>0, <3>0, <3>3 DEF ApproveMilestone, EscrowContract
    <3>4. CASE \/ \E value \in Totals : FundContract(s, d, value)
               \/ RaiseDispute(s, d)
               \/ \E release \in BOOLEAN : ResolveDispute(s, d, release)
               \/ CancelContract(s, d)
      BY <3>2, <3>4 DEF FundContract, RaiseDispute, ResolveDispute, CancelContract
    <3>5. CASE \/ \E i \in Indices, cid \in Cid : SubmitMilestone(s, d, i, cid)
               \/ \E i \in Indices : RejectMilestone(s, d, i)
      BY <3>5 DEF SubmitMilestone, RejectMilestone
    <3> QED BY <2>2, <3>1, <3>3, <3>4, <3>5 DEF Call
  <2> QED BY <2>0, <2>1, <2>2, OthersUntouched DEF Next
<1> QED BY <1>1, InvCorrect, PTL DEF Spec, PartiesFinal
-----------------------------------------------------------------------------
(* A payment out of the pool, and an instance with one contract.           *)

\* A transfer out of the pool is counted as the contract's.
LEMMA PaidOutGrows ==
    ASSUME TypeOK, NEW c \in Ids, NEW a \in Nat,
           Pay(c, 0, a - Fee(a), Fee(a)) \/ Pay(c, a, 0, 0)
    PROVE  balance' = balance - a /\ PaidOut(c)' = PaidOut(c) + a
<1>1. /\ balance \in Nat
      /\ paid \in [Ids -> [client : Nat, freelancer : Nat, owner : Nat]]
      /\ paid[c].client \in Nat /\ paid[c].freelancer \in Nat /\ paid[c].owner \in Nat
  BY DEF TypeOK
<1>2. ASSUME NEW x \in Nat, NEW y \in Nat, NEW z \in Nat, x + y + z = a, Pay(c, x, y, z)
      PROVE  balance' = balance - a /\ PaidOut(c)' = PaidOut(c) + a
  <2>1. paid'[c] = [client |-> paid[c].client + x, freelancer |-> paid[c].freelancer + y,
                    owner |-> paid[c].owner + z]
    BY <1>1, <1>2 DEF Pay
  <2> QED BY <1>1, <1>2, <2>1 DEF Pay, PaidOut
<1>3. Fee(a) \in Nat /\ a - Fee(a) \in Nat /\ 0 + (a - Fee(a)) + Fee(a) = a /\ a + 0 + 0 = a
  BY FeeBound
<1> QED BY <1>2, <1>3

LEMMA OnlyOne == MaxContracts = 1 => Ids = {1} /\ 0 \in Indices
  BY BoundAssumption DEF Ids, Indices

-----------------------------------------------------------------------------
(* Sums of ether.  SumFunction is a fold over a finite set: what it gives  *)
(* is proved with smallest counterexamples, from the well-foundedness of   *)
(* strict inclusion on the subsets of a finite set.                        *)

\* The element a fold takes out of s first, and the function that adds f up on subsets.
First(s) == CHOOSE x \in s : TRUE
Adds(h, f, S) == h = [s \in SUBSET S |-> IF s = {} THEN 0 ELSE f[First(s)] + h[s \ {First(s)}]]

\* The fold, with the CHOOSEs of its definition named: h adds up f on every subset of S.
LEMMA Unfold == \A f, S : SumFunctionOnSet(f, S) = (CHOOSE h : Adds(h, f, S))[S]
  BY DEF SumFunctionOnSet, FoldFunctionOnSet, MapThenFoldSet, Adds, First

\* A family of subsets of a finite set has a smallest member.
LEMMA SmallestSubset ==
    ASSUME NEW S, IsFiniteSet(S), NEW X, X \subseteq SUBSET S, X # {}
    PROVE  \E T \in X : \A U \in X : U \subseteq T => U = T
<1>1. IsWellFoundedOn(StrictSubsetOrdering(S), SUBSET S)
  BY FS_StrictSubsetOrderingWellFounded, FS_FiniteSubsetsOfFinite
<1>2. PICK T \in X : \A U \in X : ~ (<<U, T>> \in StrictSubsetOrdering(S))
  BY <1>1, WFMin
<1> QED BY <1>2 DEF StrictSubsetOrdering

\* A set of numbers up to n has a smallest member.
LEMMA SmallestIn ==
    ASSUME NEW n \in Nat, NEW X \in SUBSET (0 .. n), X # {}
    PROVE  \E m \in X : \A k \in X : m <= k
<1> DEFINE below == {0 .. m : m \in X}
<1>1. IsFiniteSet(0 .. n)
  BY FS_Interval
<1>2. below \subseteq SUBSET (0 .. n) /\ below # {}
  <2>1. \A m \in X : 0 .. m \subseteq 0 .. n
    OBVIOUS
  <2> QED BY <2>1
<1>3. PICK T \in below : \A U \in below : U \subseteq T => U = T
  <2>1. IsFiniteSet(0 .. n) /\ below \subseteq SUBSET (0 .. n) /\ below # {}
    BY <1>1, <1>2
  <2> HIDE DEF below
  <2>2. PICK D : D = 0 .. n
    OBVIOUS
  <2>3. IsFiniteSet(D) /\ below \subseteq SUBSET D /\ below # {}
    BY <2>1, <2>2
  <2> QED BY <2>3, SmallestSubset
<1>4. PICK m \in X : T = 0 .. m
  BY <1>3
<1>5. ASSUME NEW k \in X, ~(m <= k) PROVE FALSE
  <2>1. 0 .. k \subseteq T /\ 0 .. k \in below
    BY <1>4, <1>5
  <2>2. 0 .. k = 0 .. m
    BY <1>3, <1>4, <2>1
  <2>3. m \in 0 .. m /\ m \notin 0 .. k
    BY <1>5
  <2> QED BY <2>2, <2>3
<1> QED BY <1>5

\* And a largest one.
LEMMA LargestIn ==
    ASSUME NEW n \in Nat, NEW X \in SUBSET (0 .. n), X # {}
    PROVE  \E m \in X : \A k \in X : k <= m
<1> DEFINE Y == {n - k : k \in X}
<1>1. PICK l \in Y : \A k \in Y : l <= k
  <2>1. \A k \in X : n - k \in 0 .. n
    OBVIOUS
  <2>2. Y \in SUBSET (0 .. n) /\ Y # {}
    BY <2>1
  <2> HIDE DEF Y
  <2> QED BY <2>2, SmallestIn
<1>2. PICK m \in X : l = n - m
  BY <1>1
<1>3. ASSUME NEW k \in X PROVE k <= m
  <2>1. n - k \in Y
    OBVIOUS
  <2> HIDE DEF Y
  <2>2. n - m <= n - k
    BY <1>1, <1>2, <2>1
  <2>3. k \in 0 .. n /\ m \in 0 .. n
    OBVIOUS
  <2> QED BY <2>2, <2>3
<1> QED BY <1>3

\* The recursive equation at one subset.
LEMMA AddsAt ==
    ASSUME NEW f, NEW S, NEW h, Adds(h, f, S), NEW s \in SUBSET S
    PROVE  h[s] = IF s = {} THEN 0 ELSE f[First(s)] + h[s \ {First(s)}]
<1> DEFINE g == [u \in SUBSET S |-> IF u = {} THEN 0 ELSE f[First(u)] + h[u \ {First(u)}]]
<1>1. h = g
  BY DEF Adds
<1>2. g[s] = IF s = {} THEN 0 ELSE f[First(s)] + h[s \ {First(s)}]
  OBVIOUS
<1> QED BY <1>1, <1>2

\* The element a sum takes out belongs to the set.
LEMMA FirstIn == \A s : s # {} => First(s) \in s
  BY DEF First

\* The equation has one solution, its restriction solves it on a part, and it has one.
LEMMA AddsUnique ==
    ASSUME NEW S, IsFiniteSet(S), NEW f, NEW g, NEW h, Adds(g, f, S), Adds(h, f, S)
    PROVE  g = h
<1> DEFINE X == {s \in SUBSET S : g[s] # h[s]}
<1>1. ASSUME X # {} PROVE FALSE
  <2>1. PICK T \in X : \A U \in X : U \subseteq T => U = T
    <3>1. X \subseteq SUBSET S
      OBVIOUS
    <3> HIDE DEF X
    <3> QED BY <1>1, <3>1, SmallestSubset
  <2>2. T # {} /\ First(T) \in T /\ T \in SUBSET S
    BY <2>1, AddsAt, FirstIn
  <2>3. g[T \ {First(T)}] = h[T \ {First(T)}]
    BY <2>1, <2>2
  <2> QED BY <2>1, <2>2, <2>3, AddsAt
<1>2. DOMAIN g = SUBSET S /\ DOMAIN h = SUBSET S
  BY DEF Adds
<1>3. g = [s \in SUBSET S |-> g[s]] /\ h = [s \in SUBSET S |-> h[s]]
  BY DEF Adds
<1> QED BY <1>1, <1>2, <1>3

LEMMA AddsRestrict ==
    ASSUME NEW S, NEW f, NEW h, Adds(h, f, S), NEW U \in SUBSET S
    PROVE  Adds([s \in SUBSET U |-> h[s]], f, U)
<1> DEFINE g == [s \in SUBSET U |-> h[s]]
<1>1. \A s \in SUBSET U : g[s] = IF s = {} THEN 0 ELSE f[First(s)] + g[s \ {First(s)}]
  <2> TAKE s \in SUBSET U
  <2>1. h[s] = IF s = {} THEN 0 ELSE f[First(s)] + h[s \ {First(s)}]
    BY AddsAt
  <2>2. g[s] = h[s] /\ g[s \ {First(s)}] = h[s \ {First(s)}]
    OBVIOUS
  <2> QED BY <2>1, <2>2
<1>2. g = [s \in SUBSET U |-> g[s]]
  OBVIOUS
<1> HIDE DEF g
<1>3. g = [s \in SUBSET U |-> IF s = {} THEN 0 ELSE f[First(s)] + g[s \ {First(s)}]]
  BY <1>1, <1>2
<1> QED BY <1>3 DEF Adds, g

LEMMA AddsExists ==
    ASSUME NEW S, IsFiniteSet(S), NEW f
    PROVE  \E h : Adds(h, f, S)
<1> DEFINE X == {T \in SUBSET S : ~ \E h : Adds(h, f, T)}
           H(U) == CHOOSE h : Adds(h, f, U)
<1>1. ASSUME X # {} PROVE FALSE
  <2>1. PICK T \in X : \A U \in X : U \subseteq T => U = T
    <3>1. X \subseteq SUBSET S
      OBVIOUS
    <3> HIDE DEF X
    <3> QED BY <1>1, <3>1, SmallestSubset
  <2> DEFINE g == [s \in SUBSET T |-> IF s = {} THEN 0
                                      ELSE f[First(s)] + H(s \ {First(s)})[s \ {First(s)}]]
  <2>2. T \in SUBSET S
    BY <2>1
  <2>3. \A U \in SUBSET T : U # T => Adds(H(U), f, U)
    <3> TAKE U \in SUBSET T
    <3>1. U # T => \E h : Adds(h, f, U)
      BY <2>1, <2>2
    <3> QED BY <3>1
  <2> HIDE DEF H
  <2>4. \A u \in SUBSET T : u # T => g[u] = H(u)[u]
    <3> SUFFICES ASSUME NEW u \in SUBSET T, u # T
                 PROVE  g[u] = H(u)[u]
      OBVIOUS
    <3>1. Adds(H(u), f, u)
      BY <2>3
    <3>2. H(u)[u] = IF u = {} THEN 0 ELSE f[First(u)] + H(u)[u \ {First(u)}]
      BY <3>1, AddsAt
    <3>3. CASE u = {}
      BY <3>2, <3>3
    <3>4. CASE u # {}
      <4> DEFINE v == u \ {First(u)}
      <4>1. v \in SUBSET u /\ v # u /\ v # T /\ v \in SUBSET T /\ IsFiniteSet(v)
        BY <2>2, <3>4, FirstIn, FS_Subset
      <4>2. Adds(H(v), f, v)
        BY <2>3, <4>1
      <4>3. Adds([s \in SUBSET v |-> H(u)[s]], f, v)
        BY <3>1, <4>1, AddsRestrict
      <4>4. H(v) = [s \in SUBSET v |-> H(u)[s]]
        BY <4>1, <4>2, <4>3, AddsUnique
      <4>5. H(v)[v] = H(u)[v]
        BY <4>4
      <4> QED BY <3>2, <3>4, <4>5
    <3> QED BY <3>3, <3>4
  <2>5. \A s \in SUBSET T : g[s] = IF s = {} THEN 0 ELSE f[First(s)] + g[s \ {First(s)}]
    <3> TAKE s \in SUBSET T
    <3>1. CASE s = {}
      BY <3>1
    <3>2. CASE s # {}
      <4>1. s \ {First(s)} \in SUBSET T /\ s \ {First(s)} # T
        BY <3>2, FirstIn
      <4>2. g[s \ {First(s)}] = H(s \ {First(s)})[s \ {First(s)}]
        BY <2>4, <4>1
      <4>3. g[s] = f[First(s)] + H(s \ {First(s)})[s \ {First(s)}]
        BY <3>2
      <4> QED BY <3>2, <4>2, <4>3
    <3> QED BY <3>1, <3>2
  <2>6. g = [s \in SUBSET T |-> g[s]]
    OBVIOUS
  <2> HIDE DEF g
  <2>7. g = [s \in SUBSET T |-> IF s = {} THEN 0 ELSE f[First(s)] + g[s \ {First(s)}]]
    BY <2>5, <2>6
  <2> QED BY <2>1, <2>7 DEF Adds
<1> QED BY <1>1

\* A sum takes one element out and adds the sum of the others.
LEMMA SumFirst ==
    ASSUME NEW S, IsFiniteSet(S), NEW f
    PROVE  /\ S = {} => SumFunctionOnSet(f, S) = 0
           /\ S # {} => SumFunctionOnSet(f, S) = f[First(S)] + SumFunctionOnSet(f, S \ {First(S)})
<1> DEFINE H(U) == CHOOSE h : Adds(h, f, U)
           v == S \ {First(S)}
<1>1. v \in SUBSET S /\ IsFiniteSet(v)
  BY FS_Subset
<1>2. Adds(H(S), f, S) /\ Adds(H(v), f, v)
  BY <1>1, AddsExists
<1>3. SumFunctionOnSet(f, S) = H(S)[S] /\ SumFunctionOnSet(f, v) = H(v)[v]
  BY Unfold
<1> HIDE DEF H
<1>4. H(S)[S] = IF S = {} THEN 0 ELSE f[First(S)] + H(S)[v]
  BY <1>2, AddsAt
<1>5. H(v) = [s \in SUBSET v |-> H(S)[s]]
  BY <1>1, <1>2, AddsRestrict, AddsUnique
<1>6. H(v)[v] = H(S)[v]
  BY <1>5
<1> QED BY <1>3, <1>4, <1>6

\* Equal summands give equal sums.
LEMMA SumEqual ==
    ASSUME NEW S, IsFiniteSet(S), NEW f, NEW g, \A x \in S : f[x] = g[x]
    PROVE  SumFunctionOnSet(f, S) = SumFunctionOnSet(g, S)
<1> DEFINE X == {T \in SUBSET S : SumFunctionOnSet(f, T) # SumFunctionOnSet(g, T)}
<1>1. ASSUME X # {} PROVE FALSE
  <2>1. PICK T \in X : \A U \in X : U \subseteq T => U = T
    <3>1. X \subseteq SUBSET S
      OBVIOUS
    <3> HIDE DEF X
    <3> QED BY <1>1, <3>1, SmallestSubset
  <2>2. T \in SUBSET S /\ IsFiniteSet(T) /\ T \ {First(T)} \in SUBSET S
    BY <2>1, FS_Subset
  <2>3. T # {}
    BY <2>1, <2>2, SumFirst
  <2>4. First(T) \in T /\ T \ {First(T)} # T
    BY <2>3, FirstIn
  <2>5. SumFunctionOnSet(f, T \ {First(T)}) = SumFunctionOnSet(g, T \ {First(T)})
    BY <2>1, <2>2, <2>4
  <2>6. SumFunctionOnSet(f, T) = SumFunctionOnSet(g, T)
    BY <2>2, <2>3, <2>4, <2>5, SumFirst
  <2> QED BY <2>1, <2>6
<1> QED BY <1>1

\* A sum of integers is an integer, of naturals a natural, of zeros zero.
LEMMA SumInt ==
    ASSUME NEW S, IsFiniteSet(S), NEW f, \A x \in S : f[x] \in Int
    PROVE  SumFunctionOnSet(f, S) \in Int
<1> DEFINE X == {T \in SUBSET S : SumFunctionOnSet(f, T) \notin Int}
<1>1. ASSUME X # {} PROVE FALSE
  <2>1. PICK T \in X : \A U \in X : U \subseteq T => U = T
    <3>1. X \subseteq SUBSET S
      OBVIOUS
    <3> HIDE DEF X
    <3> QED BY <1>1, <3>1, SmallestSubset
  <2>2. T \in SUBSET S /\ T \ {First(T)} \in SUBSET S /\ SumFunctionOnSet(f, T) \notin Int
    BY <2>1
  <2>3. IsFiniteSet(T)
    BY <2>2, FS_Subset
  <2>4. CASE T = {}
    <3>1. SumFunctionOnSet(f, T) = 0
      BY <2>3, <2>4, SumFirst
    <3> QED BY <2>2, <3>1
  <2>5. CASE T # {}
    <3>1. First(T) \in T /\ T \ {First(T)} # T
      BY <2>5, FirstIn
    <3>2. SumFunctionOnSet(f, T \ {First(T)}) \in Int
      BY <2>1, <2>2, <3>1
    <3>3. f[First(T)] \in Int
      BY <2>2, <3>1
    <3>4. SumFunctionOnSet(f, T) = f[First(T)] + SumFunctionOnSet(f, T \ {First(T)})
      BY <2>3, <2>5, SumFirst
    <3>5. \A i, j \in Int : i + j \in Int
      OBVIOUS
    <3>6. SumFunctionOnSet(f, T) \in Int
      BY <3>2, <3>3, <3>4, <3>5
    <3> QED BY <2>2, <3>6
  <2> QED BY <2>4, <2>5
<1> QED BY <1>1

LEMMA SumNat ==
    ASSUME NEW S, IsFiniteSet(S), NEW f, \A x \in S : f[x] \in Nat
    PROVE  SumFunctionOnSet(f, S) \in Nat
<1> DEFINE X == {T \in SUBSET S : SumFunctionOnSet(f, T) \notin Nat}
<1>1. ASSUME X # {} PROVE FALSE
  <2>1. PICK T \in X : \A U \in X : U \subseteq T => U = T
    <3>1. X \subseteq SUBSET S
      OBVIOUS
    <3> HIDE DEF X
    <3> QED BY <1>1, <3>1, SmallestSubset
  <2>2. T \in SUBSET S /\ T \ {First(T)} \in SUBSET S /\ SumFunctionOnSet(f, T) \notin Nat
    BY <2>1
  <2>3. IsFiniteSet(T)
    BY <2>2, FS_Subset
  <2>4. CASE T = {}
    <3>1. SumFunctionOnSet(f, T) = 0
      BY <2>3, <2>4, SumFirst
    <3> QED BY <2>2, <3>1
  <2>5. CASE T # {}
    <3>1. First(T) \in T /\ T \ {First(T)} # T
      BY <2>5, FirstIn
    <3>2. SumFunctionOnSet(f, T \ {First(T)}) \in Nat
      BY <2>1, <2>2, <3>1
    <3>3. f[First(T)] \in Nat
      BY <2>2, <3>1
    <3>4. SumFunctionOnSet(f, T) = f[First(T)] + SumFunctionOnSet(f, T \ {First(T)})
      BY <2>3, <2>5, SumFirst
    <3>5. \A i, j \in Nat : i + j \in Nat
      OBVIOUS
    <3>6. SumFunctionOnSet(f, T) \in Nat
      BY <3>2, <3>3, <3>4, <3>5
    <3> QED BY <2>2, <3>6
  <2> QED BY <2>4, <2>5
<1> QED BY <1>1

\* Whichever element is taken out first.
LEMMA SumTake ==
    ASSUME NEW S, IsFiniteSet(S), NEW f, \A x \in S : f[x] \in Int, NEW a \in S
    PROVE  SumFunctionOnSet(f, S) = f[a] + SumFunctionOnSet(f, S \ {a})
<1> DEFINE X == {T \in SUBSET S : \E b \in T :
                    SumFunctionOnSet(f, T) # f[b] + SumFunctionOnSet(f, T \ {b})}
<1>1. ASSUME X # {} PROVE FALSE
  <2>1. PICK T \in X : \A U \in X : U \subseteq T => U = T
    <3>1. X \subseteq SUBSET S
      OBVIOUS
    <3> HIDE DEF X
    <3> QED BY <1>1, <3>1, SmallestSubset
  <2>2. PICK b \in T : SumFunctionOnSet(f, T) # f[b] + SumFunctionOnSet(f, T \ {b})
    BY <2>1
  <2>3. T \in SUBSET S /\ IsFiniteSet(T)
    BY <2>1, FS_Subset
  <2> DEFINE e == First(T)
             U == T \ {e}
             V == T \ {b}
             W == T \ {b, e}
  <2>4. e \in T /\ e # b /\ b \in U /\ e \in V
    BY <2>2, <2>3, FirstIn, SumFirst
  <2>5. U \in SUBSET S /\ V \in SUBSET S /\ W \in SUBSET S /\ IsFiniteSet(W)
    BY <2>3, FS_Subset
  <2>6. U \notin X /\ V \notin X
    <3>1. U \subseteq T /\ U # T /\ V \subseteq T /\ V # T
      BY <2>2, <2>4
    <3> HIDE DEF X, U, V
    <3> QED BY <2>1, <3>1
  <2>7. SumFunctionOnSet(f, U) = f[b] + SumFunctionOnSet(f, U \ {b})
    BY <2>4, <2>5, <2>6
  <2>8. SumFunctionOnSet(f, V) = f[e] + SumFunctionOnSet(f, V \ {e})
    BY <2>4, <2>5, <2>6
  <2>9. U \ {b} = W /\ V \ {e} = W
    OBVIOUS
  <2>10. SumFunctionOnSet(f, T) = f[e] + SumFunctionOnSet(f, U)
    BY <2>2, <2>3, SumFirst
  <2>11. SumFunctionOnSet(f, W) \in Int /\ f[e] \in Int /\ f[b] \in Int
    BY <2>2, <2>3, <2>4, <2>5, SumInt
  <2>12. \A i, j, k \in Int : i + (j + k) = j + (i + k)
    OBVIOUS
  <2> HIDE DEF e, U, V, W, X
  <2>13. SumFunctionOnSet(f, T) = f[e] + (f[b] + SumFunctionOnSet(f, W))
    BY <2>7, <2>9, <2>10
  <2>14. SumFunctionOnSet(f, V) = f[e] + SumFunctionOnSet(f, W)
    BY <2>8, <2>9
  <2>15. SumFunctionOnSet(f, T) = f[b] + SumFunctionOnSet(f, V)
    BY <2>11, <2>12, <2>13, <2>14
  <2> QED BY <2>2, <2>15 DEF V
<1> QED BY <1>1

\* One summand changes.
LEMMA SumUpdate ==
    ASSUME NEW S, IsFiniteSet(S), NEW f \in [S -> Int], NEW a \in S, NEW v \in Int
    PROVE  SumFunction([f EXCEPT ![a] = v]) = SumFunction(f) - f[a] + v
<1> DEFINE g == [f EXCEPT ![a] = v]
           R == S \ {a}
<1>1. g \in [S -> Int] /\ g[a] = v /\ \A x \in R : g[x] = f[x]
  OBVIOUS
<1>2. IsFiniteSet(R)
  BY FS_Subset
<1> HIDE DEF g
<1>3. SumFunctionOnSet(g, S) = v + SumFunctionOnSet(g, R)
  BY <1>1, SumTake
<1>4. SumFunctionOnSet(f, S) = f[a] + SumFunctionOnSet(f, R)
  BY SumTake
<1>5. SumFunctionOnSet(g, R) = SumFunctionOnSet(f, R)
  BY <1>1, <1>2, SumEqual
<1>6. SumFunctionOnSet(f, R) \in Int /\ f[a] \in Int
  BY <1>2, SumInt
<1>7. SumFunction(g) = SumFunctionOnSet(g, S) /\ SumFunction(f) = SumFunctionOnSet(f, S)
  BY <1>1 DEF SumFunction
<1> QED BY <1>3, <1>4, <1>5, <1>6, <1>7 DEF g

LEMMA SumZero ==
    ASSUME NEW S, IsFiniteSet(S), NEW f, \A x \in S : f[x] = 0
    PROVE  SumFunctionOnSet(f, S) = 0
<1> DEFINE X == {T \in SUBSET S : SumFunctionOnSet(f, T) # 0}
<1>1. ASSUME X # {} PROVE FALSE
  <2>1. PICK T \in X : \A U \in X : U \subseteq T => U = T
    <3>1. X \subseteq SUBSET S
      OBVIOUS
    <3> HIDE DEF X
    <3> QED BY <1>1, <3>1, SmallestSubset
  <2>2. T \in SUBSET S /\ T \ {First(T)} \in SUBSET S /\ IsFiniteSet(T)
    BY <2>1, FS_Subset
  <2>3. T # {}
    BY <2>1, <2>2, SumFirst
  <2>4. First(T) \in T /\ T \ {First(T)} # T
    BY <2>3, FirstIn
  <2>5. SumFunctionOnSet(f, T \ {First(T)}) = 0 /\ f[First(T)] = 0
    BY <2>1, <2>2, <2>4
  <2>6. SumFunctionOnSet(f, T) = 0 + 0
    BY <2>2, <2>3, <2>5, SumFirst
  <2> QED BY <2>1, <2>6
<1> QED BY <1>1

\* A sum over a set is the sum over a part of it and over the rest.
LEMMA SumSplit ==
    ASSUME NEW S, IsFiniteSet(S), NEW f, \A x \in S : f[x] \in Int, NEW A \in SUBSET S
    PROVE  SumFunctionOnSet(f, S) = SumFunctionOnSet(f, A) + SumFunctionOnSet(f, S \ A)
<1> DEFINE Parts(T) == SumFunctionOnSet(f, T) + SumFunctionOnSet(f, S \ T)
           X == {T \in SUBSET S : SumFunctionOnSet(f, S) # Parts(T)}
<1>1. ASSUME X # {} PROVE FALSE
  <2>1. PICK T \in X : \A U \in X : U \subseteq T => U = T
    <3>1. X \subseteq SUBSET S
      OBVIOUS
    <3> HIDE DEF X
    <3> QED BY <1>1, <3>1, SmallestSubset
  <2>2. T \in SUBSET S /\ SumFunctionOnSet(f, S) # Parts(T)
    BY <2>1
  <2>3. CASE T = {}
    <3>1. IsFiniteSet({}) /\ S \ {} = S
      BY FS_EmptySet
    <3>2. SumFunctionOnSet(f, {}) = 0 /\ SumFunctionOnSet(f, S) \in Int
      BY <3>1, SumFirst, SumInt
    <3> QED BY <2>2, <2>3, <3>1, <3>2
  <2>4. CASE T # {}
    <3>1. PICK b \in T : TRUE
      BY <2>4
    <3> DEFINE U == T \ {b}
    <3>2. U \in SUBSET S /\ U \subseteq T /\ U # T /\ S \ T = (S \ U) \ {b} /\ b \in S \ U
      BY <2>2, <3>1
    <3>3. SumFunctionOnSet(f, S) = Parts(U)
      BY <2>1, <3>2
    <3>4. IsFiniteSet(T) /\ IsFiniteSet(U) /\ IsFiniteSet(S \ U) /\ IsFiniteSet(S \ T)
      BY <2>2, <3>2, FS_Subset
    <3>5. SumFunctionOnSet(f, T) = f[b] + SumFunctionOnSet(f, U)
      BY <2>2, <3>1, <3>4, SumTake
    <3>6. SumFunctionOnSet(f, S \ U) = f[b] + SumFunctionOnSet(f, S \ T)
      BY <3>2, <3>4, SumTake
    <3>7. SumFunctionOnSet(f, U) \in Int /\ SumFunctionOnSet(f, S \ T) \in Int /\ f[b] \in Int
      BY <2>2, <3>1, <3>2, <3>4, SumInt
    <3>8. \A i, j, k \in Int : i + (j + k) = (j + i) + k
      OBVIOUS
    <3> HIDE DEF U
    <3>9. SumFunctionOnSet(f, S) = Parts(T)
      BY <3>3, <3>5, <3>6, <3>7, <3>8
    <3> QED BY <2>2, <3>9
  <2> QED BY <2>3, <2>4
<1> QED BY <1>1

\* A sequence added up is the function on 0 .. n - 1 with the same values added up.
LEMMA SumShift ==
    ASSUME NEW n \in Nat, NEW f, \A x \in 1 .. n : f[x] \in Int,
           NEW g, \A x \in 0 .. n - 1 : g[x] = f[x + 1]
    PROVE  SumFunctionOnSet(f, 1 .. n) = SumFunctionOnSet(g, 0 .. n - 1)
<1> DEFINE S == 1 .. n
           Down(T) == {x - 1 : x \in T}
           X == {T \in SUBSET S : SumFunctionOnSet(f, T) # SumFunctionOnSet(g, Down(T))}
<1>1. IsFiniteSet(S) /\ IsFiniteSet(0 .. n - 1) /\ \A x \in 0 .. n - 1 : g[x] \in Int
  <2>1. n - 1 \in Int /\ \A x \in 0 .. n - 1 : x + 1 \in 1 .. n
    OBVIOUS
  <2>2. IsFiniteSet(1 .. n) /\ IsFiniteSet(0 .. n - 1)
    BY <2>1, FS_Interval
  <2> QED BY <2>1, <2>2
<1>2. ASSUME X # {} PROVE FALSE
  <2>1. PICK T \in X : \A U \in X : U \subseteq T => U = T
    <3>1. X \subseteq SUBSET S
      OBVIOUS
    <3> HIDE DEF X, S
    <3> QED BY <1>1, <1>2, <3>1, SmallestSubset
  <2>2. T \in SUBSET S /\ SumFunctionOnSet(f, T) # SumFunctionOnSet(g, Down(T))
    BY <2>1
  <2>3. Down(T) \in SUBSET (0 .. n - 1)
    BY <2>2
  <2>4. IsFiniteSet(T) /\ IsFiniteSet(Down(T))
    BY <1>1, <2>2, <2>3, FS_Subset
  <2>5. CASE T = {}
    <3>1. Down(T) = {}
      BY <2>5
    <3> QED BY <2>2, <2>4, <2>5, <3>1, SumFirst
  <2>6. CASE T # {}
    <3>1. PICK b \in T : b \in 1 .. n
      BY <2>2, <2>6
    <3> DEFINE U == T \ {b}
    <3>2. U \in SUBSET S /\ U \subseteq T /\ U # T
      BY <2>2, <3>1
    <3>3. SumFunctionOnSet(f, U) = SumFunctionOnSet(g, Down(U))
      BY <2>1, <3>2
    <3>4. b - 1 \in Down(T) /\ Down(U) = Down(T) \ {b - 1}
      BY <2>2, <3>1
    <3>5. g[b - 1] = f[b]
      BY <3>1
    <3>6. \A x \in T : f[x] \in Int
      BY <2>2
    <3>7. \A x \in Down(T) : g[x] \in Int
      BY <1>1, <2>3
    <3> HIDE DEF Down, U
    <3>8. SumFunctionOnSet(f, T) = f[b] + SumFunctionOnSet(f, U)
      BY <2>4, <3>1, <3>6, SumTake DEF U
    <3>9. SumFunctionOnSet(g, Down(T)) = g[b - 1] + SumFunctionOnSet(g, Down(T) \ {b - 1})
      BY <2>4, <3>4, <3>7, SumTake
    <3> QED BY <2>2, <3>3, <3>4, <3>5, <3>8, <3>9
  <2> QED BY <2>5, <2>6
<1>3. Down(S) = 0 .. n - 1
  <2>1. \A y \in 0 .. n - 1 : y + 1 \in S /\ y = (y + 1) - 1
    OBVIOUS
  <2> QED BY <2>1
<1>4. S \notin X
  BY <1>2
<1> QED BY <1>3, <1>4
-----------------------------------------------------------------------------
(* The pool over any number of contracts.                                  *)

LEMMA IdsFinite == IsFiniteSet(Ids) /\ IsFiniteSet(Indices)
  BY FS_Interval, BoundAssumption DEF Ids, Indices

PaidMap == [c \in Ids |-> PaidOut(c)]

\* The pool is what fundContract brought in less what was sent: the sum of the contracts'
\* accounts, which the theorems about LockedFundsHeld need.
EtherConserved == balance = SumFunction(deposited) - SumFunction(PaidMap)

LEMMA PaidTypes == TypeOK => \A c \in Ids : PaidOut(c) \in Int
<1> SUFFICES ASSUME TypeOK, NEW c \in Ids PROVE PaidOut(c) \in Int
  OBVIOUS
<1>1. paid[c] \in [client : Nat, freelancer : Nat, owner : Nat]
  BY DEF TypeOK
<1> QED BY <1>1 DEF PaidOut

\* A payout of an amount out of the pool is counted once, as its contract's.
LEMMA PoolPays ==
    ASSUME TypeOK, TypeOK', EtherConserved, UNCHANGED deposited, NEW c \in Ids, NEW a \in Nat,
           Pay(c, 0, a - Fee(a), Fee(a)) \/ Pay(c, a, 0, 0)
    PROVE  EtherConserved'
<1>1. PaidMap \in [Ids -> Int] /\ balance \in Int /\ SumFunction(deposited) \in Int
  <2>1. \A d \in Ids : PaidOut(d) \in Int
    BY PaidTypes
  <2>2. deposited \in [Ids -> Nat] /\ balance \in Int
    BY DEF TypeOK
  <2>3. SumFunctionOnSet(deposited, Ids) \in Int
    BY <2>2, IdsFinite, SumInt
  <2> QED BY <2>1, <2>2, <2>3 DEF PaidMap, SumFunction
<1>2. balance' = balance - a /\ PaidOut(c)' = PaidOut(c) + a
  BY PaidOutGrows
<1>3. \A d \in Ids \ {c} : PaidOut(d)' = PaidOut(d)
  BY DEF TypeOK, Pay, PaidOut
<1>4. PaidMap' = [PaidMap EXCEPT ![c] = PaidMap[c] + a]
  BY <1>2, <1>3 DEF PaidMap
<1>5. PaidMap[c] + a \in Int /\ PaidMap[c] \in Int /\ SumFunction(PaidMap) \in Int
  <2>1. SumFunctionOnSet(PaidMap, Ids) \in Int
    BY <1>1, IdsFinite, SumInt
  <2> QED BY <1>1, <2>1 DEF SumFunction
<1>6. SumFunction(PaidMap') = SumFunction(PaidMap) - PaidMap[c] + (PaidMap[c] + a)
  BY <1>1, <1>4, <1>5, IdsFinite, SumUpdate
<1>7. balance = SumFunction(deposited) - SumFunction(PaidMap)
  BY DEF EtherConserved, PaidMap
<1>8. balance' = SumFunction(deposited) - SumFunction(PaidMap')
  BY <1>1, <1>2, <1>5, <1>6, <1>7
<1> QED BY <1>8 DEF EtherConserved, PaidMap

LEMMA ConservedInit == Init => EtherConserved
<1> SUFFICES ASSUME Init PROVE EtherConserved
  OBVIOUS
<1>1. deposited = [c \in Ids |-> 0] /\ PaidMap = [c \in Ids |-> 0] /\ balance = 0
  BY DEF Init, PaidMap, PaidOut, NothingPaid
<1>2. SumFunction([c \in Ids |-> 0]) = 0
  BY IdsFinite, SumZero DEF SumFunction
<1> QED BY <1>1, <1>2 DEF EtherConserved, PaidMap

LEMMA ConservedStep == EscrowInv /\ EtherConserved /\ [Next]_chainVars => EtherConserved'
<1> SUFFICES ASSUME EscrowInv, EtherConserved, [Next]_chainVars PROVE EtherConserved'
  OBVIOUS
<1>0. TypeOK /\ TypeOK' /\ balance \in Nat /\ contracts \in [Ids -> EscrowContract]
      /\ milestones \in [Ids -> [Indices -> Milestone]]
  BY StepType DEF EscrowInv, TypeOK
<1>1. CASE UNCHANGED <<balance, deposited, paid>>
  BY <1>1 DEF EtherConserved, PaidMap, PaidOut
<1>2. CASE UNCHANGED chainVars
  BY <1>1, <1>2 DEF chainVars
<1>3. ASSUME NEW client \in Party, NEW freelancer \in Party, NEW total \in Totals,
             NEW amounts \in AmountLists, CreateContract(client, freelancer, total, amounts)
      PROVE  EtherConserved'
  BY <1>1, <1>3 DEF CreateContract
<1>4. ASSUME NEW s \in Address, NEW c \in Ids, Call(s, c)
      PROVE  EtherConserved'
  <2>1. ASSUME NEW value \in Totals, FundContract(s, c, value) PROVE EtherConserved'
    <3>1. /\ deposited' = [deposited EXCEPT ![c] = deposited[c] + value]
          /\ balance' = balance + value /\ paid' = paid
      BY <2>1 DEF FundContract
    <3>2. deposited \in [Ids -> Int] /\ deposited[c] \in Int /\ value \in Int
      BY <1>0, AmountAssumption DEF TypeOK
    <3>3. deposited[c] + value \in Int
      BY <3>2
    <3>4. SumFunction(deposited') = SumFunction(deposited) - deposited[c] + (deposited[c] + value)
      BY <3>1, <3>2, <3>3, IdsFinite, SumUpdate
    <3>5. SumFunction(deposited) \in Int /\ SumFunction(PaidMap) \in Int
      <4>1. SumFunctionOnSet(deposited, Ids) \in Int
        BY <3>2, IdsFinite, SumInt
      <4>2. \A d \in Ids : PaidMap[d] \in Int
        <5>1. \A d \in Ids : PaidOut(d) \in Int
          BY <1>0, PaidTypes
        <5> QED BY <5>1 DEF PaidMap
      <4>3. SumFunctionOnSet(PaidMap, Ids) \in Int
        BY <4>2, IdsFinite, SumInt
      <4> QED BY <3>2, <4>1, <4>3 DEF SumFunction, PaidMap
    <3>6. PaidMap' = PaidMap
      BY <3>1 DEF PaidMap, PaidOut
    <3>7. balance = SumFunction(deposited) - SumFunction(PaidMap)
      BY DEF EtherConserved, PaidMap
    <3>8. balance' = SumFunction(deposited') - SumFunction(PaidMap)
      BY <1>0, <3>1, <3>2, <3>4, <3>5, <3>7
    <3> QED BY <3>6, <3>8 DEF EtherConserved, PaidMap
  <2>2. ASSUME NEW i \in Indices, ApproveMilestone(s, c, i) PROVE EtherConserved'
    <3>1. milestones[c][i].amount \in Nat /\ UNCHANGED deposited
      BY <1>0, <2>2 DEF Milestone, ApproveMilestone
    <3>2. PICK a \in Nat : a = milestones[c][i].amount
      BY <3>1
    <3>3. Pay(c, 0, a - Fee(a), Fee(a))
      BY <2>2, <3>2 DEF ApproveMilestone
    <3> QED BY <1>0, <3>1, <3>3, PoolPays
  <2>3. ASSUME NEW release \in BOOLEAN, ResolveDispute(s, c, release) PROVE EtherConserved'
    <3>1. PICK a \in Nat : a = balance
      BY <1>0
    <3>2. (Pay(c, 0, a - Fee(a), Fee(a)) \/ Pay(c, a, 0, 0)) /\ UNCHANGED deposited
      BY <2>3, <3>1 DEF ResolveDispute
    <3> QED BY <1>0, <3>2, PoolPays
  <2>4. CASE \/ \E f \in Address : SetFreelancer(s, c, f)
             \/ \E i \in Indices, cid \in Cid : SubmitMilestone(s, c, i, cid)
             \/ \E i \in Indices : RejectMilestone(s, c, i)
             \/ RaiseDispute(s, c)
             \/ CancelContract(s, c)
    BY <1>1, <2>4 DEF SetFreelancer, SubmitMilestone, RejectMilestone, RaiseDispute, CancelContract
  <2> QED BY <1>4, <2>1, <2>2, <2>3, <2>4 DEF Call
<1> QED BY <1>2, <1>3, <1>4 DEF Next

LEMMA PoolConserved == Spec => []EtherConserved
  BY ConservedInit, ConservedStep, InvCorrect, PTL DEF Spec
-----------------------------------------------------------------------------
(* One contract's account: its record e, milestones cm, deposit d and      *)
(* payments p agree.                                                       *)

AmountsOf(cm) == [i \in Indices |-> cm[i].amount]
ApprovedSum(cm) == SumFunctionOnSet(AmountsOf(cm), ApprovedIn(cm))

\* No dispute of the contract has been resolved.
Unresolved(e, cm) ==
    \/ e.status \in {"Created", "InProgress", "Disputed"}
    \/ e.status = "Completed" /\ ApprovedIn(cm) = {i \in Indices : i < e.milestoneCount}

Books(e, cm, d, p) ==
    /\ e.milestoneCount <= MaxMilestones
    /\ SumFunctionOnSet(AmountsOf(cm), Indices) = e.totalAmount
    /\ d = IF cm[0].status = "Pending" THEN 0 ELSE e.totalAmount
    /\ Unresolved(e, cm) =>
          /\ p.client = 0
          /\ p.freelancer + p.owner = ApprovedSum(cm)
          /\ p.owner * 10000 <= ApprovedSum(cm) * PLATFORM_FEE_BPS

Payment == [client : Nat, freelancer : Nat, owner : Nat]

LEMMA AmountsType ==
    ASSUME NEW cm \in [Indices -> Milestone]
    PROVE  AmountsOf(cm) \in [Indices -> Nat] /\ ApprovedSum(cm) \in Nat
<1>1. AmountsOf(cm) \in [Indices -> Nat]
  BY DEF AmountsOf, Milestone
<1>2. IsFiniteSet(ApprovedIn(cm)) /\ \A i \in ApprovedIn(cm) : AmountsOf(cm)[i] \in Nat
  BY <1>1, ApprovedFinite DEF ApprovedIn
<1> QED BY <1>1, <1>2, SumNat DEF ApprovedSum

\* The sum over some of a contract's milestones, taken from the function on all of them.
LEMMA PartOf ==
    ASSUME NEW cm, NEW T \in SUBSET Indices
    PROVE  SumFunction([i \in T |-> cm[i].amount]) = SumFunctionOnSet(AmountsOf(cm), T)
<1> DEFINE f == [i \in T |-> cm[i].amount]
<1>1. IsFiniteSet(T) /\ \A i \in T : f[i] = AmountsOf(cm)[i]
  BY IdsFinite, FS_Subset DEF AmountsOf
<1>2. SumFunction(f) = SumFunctionOnSet(f, T)
  BY DEF SumFunction
<1> HIDE DEF f
<1>3. SumFunctionOnSet(f, T) = SumFunctionOnSet(AmountsOf(cm), T)
  BY <1>1, SumEqual
<1> QED BY <1>2, <1>3 DEF f

\* 2.5% rounded down is at most 2.5%.
LEMMA FeeShare == \A n \in Nat : Fee(n) * 10000 <= n * PLATFORM_FEE_BPS
  BY DEF Fee, PLATFORM_FEE_BPS

\* An approved milestone adds its amount to what was approved.
LEMMA ApprovalAdds ==
    ASSUME NEW cm \in [Indices -> Milestone], NEW i \in Indices, cm[i].status = "Submitted"
    PROVE  LET new == [cm EXCEPT ![i] = [cm[i] EXCEPT !.status = "Approved"]] IN
           /\ AmountsOf(new) = AmountsOf(cm)
           /\ ApprovedIn(new) = ApprovedIn(cm) \union {i}
           /\ ApprovedSum(new) = ApprovedSum(cm) + cm[i].amount
<1> DEFINE new == [cm EXCEPT ![i] = [cm[i] EXCEPT !.status = "Approved"]]
<1>1. /\ new[i].status = "Approved" /\ new[i].amount = cm[i].amount
      /\ \A j \in Indices \ {i} : new[j] = cm[j]
  BY DEF Milestone
<1> HIDE DEF new
<1>2. AmountsOf(new) = AmountsOf(cm)
  BY <1>1 DEF AmountsOf
<1>3. /\ ApprovedIn(new) = ApprovedIn(cm) \union {i} /\ i \notin ApprovedIn(cm)
      /\ ApprovedIn(new) \ {i} = ApprovedIn(cm) /\ i \in ApprovedIn(new)
  BY <1>1 DEF ApprovedIn
<1>4. AmountsOf(cm) \in [Indices -> Nat] /\ ApprovedSum(cm) \in Nat /\ AmountsOf(cm)[i] = cm[i].amount
  BY AmountsType DEF AmountsOf
<1>5. IsFiniteSet(ApprovedIn(new)) /\ \A j \in ApprovedIn(new) : AmountsOf(cm)[j] \in Int
  BY <1>4, ApprovedFinite DEF ApprovedIn
<1>6. SumFunctionOnSet(AmountsOf(cm), ApprovedIn(new))
        = AmountsOf(cm)[i] + SumFunctionOnSet(AmountsOf(cm), ApprovedIn(new) \ {i})
  BY <1>3, <1>5, SumTake
<1>7. ApprovedSum(new) = ApprovedSum(cm) + cm[i].amount
  BY <1>2, <1>3, <1>4, <1>6 DEF ApprovedSum
<1> QED BY <1>2, <1>3, <1>7 DEF new

\* Approving a milestone and paying for it keeps the books.
LEMMA ApproveBooks ==
    ASSUME NEW e \in EscrowContract, NEW cm \in [Indices -> Milestone], NEW d, NEW p \in Payment,
           Agree(e, cm), Books(e, cm, d, p), e.status = "InProgress",
           NEW i \in Indices, cm[i].status = "Submitted", NEW a \in Nat, a = cm[i].amount,
           NEW e2, e2.totalAmount = e.totalAmount, e2.milestoneCount = e.milestoneCount,
           NEW p2, p2 = [client |-> p.client + 0, freelancer |-> p.freelancer + (a - Fee(a)),
                         owner |-> p.owner + Fee(a)]
    PROVE  Books(e2, [cm EXCEPT ![i] = [cm[i] EXCEPT !.status = "Approved"]], d, p2)
<1> DEFINE new == [cm EXCEPT ![i] = [cm[i] EXCEPT !.status = "Approved"]]
<1>1. /\ AmountsOf(new) = AmountsOf(cm) /\ ApprovedSum(new) = ApprovedSum(cm) + a
      /\ ApprovedSum(cm) \in Nat
  BY ApprovalAdds, AmountsType
<1>2. 0 \in Indices /\ \A j \in Indices : new[j].status = "Pending" <=> cm[j].status = "Pending"
  BY BoundAssumption DEF Indices, Milestone
<1>3. p.client = 0 /\ p.freelancer \in Nat /\ p.owner \in Nat
      /\ p.freelancer + p.owner = ApprovedSum(cm)
      /\ p.owner * 10000 <= ApprovedSum(cm) * PLATFORM_FEE_BPS
  BY DEF Books, Unresolved, Payment
<1>4. Fee(a) \in Nat /\ a - Fee(a) \in Nat /\ Fee(a) * 10000 <= a * PLATFORM_FEE_BPS
  BY FeeBound, FeeShare
<1> HIDE DEF new
<1>5. p2.client = 0 /\ p2.freelancer + p2.owner = ApprovedSum(new)
  BY <1>1, <1>3, <1>4
<1>6. p2.owner * 10000 <= ApprovedSum(new) * PLATFORM_FEE_BPS
  BY <1>1, <1>3, <1>4 DEF PLATFORM_FEE_BPS
<1> QED BY <1>1, <1>2, <1>5, <1>6 DEF Books, new

\* A step that leaves amounts, approvals, deposit and payments as they are keeps the
\* books, if the contract was unresolved before or no longer is.
LEMMA SameBooks ==
    ASSUME NEW e, NEW cm, NEW d, NEW p, Books(e, cm, d, p),
           NEW e2, e2.totalAmount = e.totalAmount, e2.milestoneCount = e.milestoneCount,
           NEW cm2, AmountsOf(cm2) = AmountsOf(cm), ApprovedIn(cm2) = ApprovedIn(cm),
           cm2[0].status = "Pending" <=> cm[0].status = "Pending",
           Unresolved(e2, cm2) => Unresolved(e, cm)
    PROVE  Books(e2, cm2, d, p)
  BY DEF Books, ApprovedSum

\* The amounts of a new contract, beyond which the mapping is zero, sum to its total.
LEMMA NewAmounts ==
    ASSUME NEW amounts \in AmountLists,
           NEW cm, \A i \in Indices : cm[i].amount = IF i < Len(amounts) THEN amounts[i + 1] ELSE 0
    PROVE  SumFunctionOnSet(AmountsOf(cm), Indices) = SumFunction(amounts)
<1> DEFINE n == Len(amounts)
           A == 0 .. n - 1
           f == AmountsOf(cm)
<1>1. n \in Nat /\ n <= MaxMilestones /\ amounts \in [1 .. n -> Nat] /\ DOMAIN amounts = 1 .. n
  BY AmountAssumption, BoundAssumption
<1>2. A \in SUBSET Indices /\ \A i \in Indices \ A : ~(i < n)
  BY <1>1, BoundAssumption DEF Indices
<1>3. \A i \in A : i < n /\ i \in Indices /\ i + 1 \in 1 .. n
  BY <1>1, <1>2
<1>4. \A i \in A : f[i] = amounts[i + 1]
  BY <1>3 DEF AmountsOf
<1>5. \A i \in Indices \ A : f[i] = 0
  BY <1>2 DEF AmountsOf
<1>6. \A i \in Indices : f[i] \in Int
  BY <1>1, <1>3, <1>4, <1>5
<1>7. IsFiniteSet(Indices \ A)
  BY IdsFinite, FS_Subset
<1> HIDE DEF f
<1>8. SumFunctionOnSet(f, Indices) = SumFunctionOnSet(f, A) + SumFunctionOnSet(f, Indices \ A)
  BY <1>2, <1>6, IdsFinite, SumSplit
<1>9. SumFunctionOnSet(f, Indices \ A) = 0
  BY <1>5, <1>7, SumZero
<1>10. SumFunctionOnSet(amounts, 1 .. n) = SumFunctionOnSet(f, A)
  <2>1. \A x \in 1 .. n : amounts[x] \in Int
    BY <1>1
  <2> HIDE DEF n
  <2> QED BY <1>1, <1>4, <2>1, SumShift
<1>11. SumFunctionOnSet(f, A) \in Int
  BY <1>2, <1>6, IdsFinite, FS_Subset, SumInt
<1> QED BY <1>1, <1>8, <1>9, <1>10, <1>11 DEF SumFunction, f

\* An entry nobody has written has paid nothing; a new contract written to it balances.
LEMMA CreateBooks ==
    ASSUME NEW cm, NEW d, NEW p \in Payment, Books(NoEscrow, cm, d, p),
           \A i \in Indices : cm[i] = NoMilestone,
           NEW amounts \in AmountLists, NEW e, e.status = "Created",
           e.milestoneCount = Len(amounts), e.totalAmount = SumFunction(amounts),
           NEW cm2,
           \A i \in Indices : /\ cm2[i].status = "Pending"
                              /\ cm2[i].amount = IF i < Len(amounts) THEN amounts[i + 1] ELSE 0
    PROVE  Books(e, cm2, d, p)
<1>1. ApprovedIn(cm) = {} /\ ApprovedIn(cm2) = {} /\ 0 \in Indices
      /\ cm[0].status = "Pending" /\ cm2[0].status = "Pending"
  BY BoundAssumption DEF ApprovedIn, NoMilestone, Indices
<1>2. ApprovedSum(cm) = 0 /\ ApprovedSum(cm2) = 0
  BY <1>1, FS_EmptySet, SumFirst DEF ApprovedSum
<1>3. Unresolved(NoEscrow, cm)
  BY DEF Unresolved, NoEscrow
<1>4. d = 0 /\ p.client = 0 /\ p.freelancer + p.owner = 0 /\ p.owner * 10000 <= 0 * PLATFORM_FEE_BPS
  BY <1>1, <1>2, <1>3 DEF Books
<1>5. SumFunctionOnSet(AmountsOf(cm2), Indices) = e.totalAmount
  BY NewAmounts
<1>6. e.milestoneCount <= MaxMilestones
  BY AmountAssumption, BoundAssumption
<1> QED BY <1>1, <1>2, <1>4, <1>5, <1>6 DEF Books
-----------------------------------------------------------------------------
MoneyInv == \A c \in Ids : Books(contracts[c], milestones[c], deposited[c], paid[c])

LEMMA MoneyInit == Init => MoneyInv
<1> SUFFICES ASSUME Init, NEW c \in Ids
             PROVE  Books(contracts[c], milestones[c], deposited[c], paid[c])
  BY DEF MoneyInv
<1>1. /\ contracts[c] = NoEscrow /\ deposited[c] = 0 /\ paid[c] = NothingPaid
      /\ \A i \in Indices : milestones[c][i] = NoMilestone
      /\ 0 \in Indices
  BY BoundAssumption DEF Init, Indices
<1>2. ApprovedSum(milestones[c]) = 0
  <2>1. ApprovedIn(milestones[c]) = {}
    BY <1>1 DEF ApprovedIn, NoMilestone
  <2> QED BY <2>1, FS_EmptySet, SumFirst DEF ApprovedSum
<1>3. SumFunctionOnSet(AmountsOf(milestones[c]), Indices) = 0
  <2>1. \A i \in Indices : AmountsOf(milestones[c])[i] = 0
    BY <1>1 DEF AmountsOf, NoMilestone
  <2> QED BY <2>1, IdsFinite, SumZero
<1>4. 0 <= MaxMilestones
  BY BoundAssumption
<1> QED BY <1>1, <1>2, <1>3, <1>4 DEF Books, NoEscrow, NoMilestone, NothingPaid, PLATFORM_FEE_BPS

\* A call on contract c that keeps its books, and touches no other contract.
LEMMA OneBooks ==
    ASSUME TypeOK, MoneyInv, NEW c \in Ids,
           \A x \in Ids \ {c} : /\ contracts'[x] = contracts[x] /\ milestones'[x] = milestones[x]
                                /\ deposited'[x] = deposited[x] /\ paid'[x] = paid[x],
           Books(contracts'[c], milestones'[c], deposited'[c], paid'[c])
    PROVE  MoneyInv'
  BY DEF MoneyInv

LEMMA MoneyCreate ==
    ASSUME EscrowInv, MoneyInv, NEW client \in Party, NEW freelancer \in Party, NEW total \in Totals,
           NEW amounts \in AmountLists, CreateContract(client, freelancer, total, amounts)
    PROVE  MoneyInv'
<1>1. TypeOK /\ contracts \in [Ids -> EscrowContract] /\ milestones \in [Ids -> [Indices -> Milestone]]
      /\ contractCounter \in Nat /\ contractCounter + 1 \in Ids
      /\ deposited \in [Ids -> Nat] /\ paid \in [Ids -> Payment]
  <2>1. TypeOK
    BY DEF EscrowInv
  <2>2. contractCounter < MaxContracts
    BY DEF CreateContract, CanCreate
  <2>3. contractCounter \in Nat /\ contractCounter + 1 \in Ids
    BY <2>1, <2>2, BoundAssumption DEF TypeOK, Ids
  <2> QED BY <2>1, <2>3 DEF TypeOK, Payment
<1>2. PICK c \in Ids : c = contractCounter + 1
  BY <1>1
<1>3. contracts[c] = NoEscrow /\ Agree(contracts[c], milestones[c])
  BY <1>1, <1>2 DEF EscrowInv, Entry, contractExists
<1>4. \A i \in Indices : milestones[c][i] = NoMilestone
  BY <1>3 DEF Agree, NoEscrow, Indices
<1>5. /\ contracts'[c].status = "Created" /\ contracts'[c].milestoneCount = Len(amounts)
      /\ contracts'[c].totalAmount = SumFunction(amounts)
  BY <1>1, <1>2 DEF CreateContract, CanCreate, NoEscrow
<1>6. \A i \in Indices :
        /\ milestones'[c][i].status = "Pending"
        /\ milestones'[c][i].amount = IF i < Len(amounts) THEN amounts[i + 1] ELSE 0
  BY <1>1, <1>2 DEF CreateContract, NoMilestone
<1>7. deposited' = deposited /\ paid' = paid
  BY DEF CreateContract
<1>8. paid[c] \in Payment /\ Books(NoEscrow, milestones[c], deposited[c], paid[c])
  BY <1>1, <1>3 DEF MoneyInv
<1>9. Books(contracts'[c], milestones'[c], deposited[c], paid[c])
  BY <1>4, <1>5, <1>6, <1>8, CreateBooks
<1>10. \A x \in Ids \ {c} : contracts'[x] = contracts[x] /\ milestones'[x] = milestones[x]
  BY <1>1, <1>2 DEF CreateContract
<1> QED BY <1>1, <1>7, <1>9, <1>10, OneBooks

LEMMA OthersKept ==
    ASSUME TypeOK, NEW s \in Address, NEW c \in Ids, Call(s, c), NEW x \in Ids \ {c}
    PROVE  milestones'[x] = milestones[x] /\ deposited'[x] = deposited[x]
  BY DEF TypeOK, Call, SetFreelancer, FundContract, SubmitMilestone, ApproveMilestone,
         RejectMilestone, RaiseDispute, ResolveDispute, CancelContract

\* A dispute is raised before the last approval: a resolution leaves a contract that was
\* not settled by approvals.
LEMMA NotAllApproved ==
    ASSUME NEW e \in EscrowContract, NEW cm \in [Indices -> Milestone], Agree(e, cm),
           e.status = "Disputed", e.milestoneCount <= MaxMilestones
    PROVE  ApprovedIn(cm) # {i \in Indices : i < e.milestoneCount}
<1>1. Cardinality(ApprovedIn(cm)) < e.milestoneCount /\ e.milestoneCount \in Nat
  BY DEF Agree, EscrowContract
<1> SUFFICES ASSUME ApprovedIn(cm) = {i \in Indices : i < e.milestoneCount} PROVE FALSE
  OBVIOUS
<1>2. ApprovedIn(cm) = 0 .. e.milestoneCount - 1
  BY <1>1, BoundAssumption DEF Indices
<1>3. Cardinality(0 .. e.milestoneCount - 1) = e.milestoneCount
  <2>1. 0 \in Int /\ e.milestoneCount - 1 \in Int
    BY <1>1
  <2>2. Cardinality(0 .. e.milestoneCount - 1)
          = IF 0 > e.milestoneCount - 1 THEN 0 ELSE (e.milestoneCount - 1) - 0 + 1
    BY <2>1, FS_Interval
  <2> QED BY <1>1, <2>2
<1>4. Cardinality(ApprovedIn(cm)) = e.milestoneCount
  BY <1>2, <1>3
<1>5. \A n \in Nat : ~(n < n)
  OBVIOUS
<1> QED BY <1>1, <1>4, <1>5

LEMMA MoneyCall ==
    ASSUME EscrowInv, MoneyInv, NEW s \in Address, NEW c \in Ids, Call(s, c)
    PROVE  MoneyInv'
<1> DEFINE e == contracts[c]
           cm == milestones[c]
           d == deposited[c]
           p == paid[c]
<1>0. /\ TypeOK /\ Entry(c) /\ Agree(e, cm) /\ Books(e, cm, d, p)
      /\ contracts \in [Ids -> EscrowContract] /\ milestones \in [Ids -> [Indices -> Milestone]]
      /\ deposited \in [Ids -> Nat] /\ paid \in [Ids -> Payment]
      /\ e \in EscrowContract /\ cm \in [Indices -> Milestone] /\ d \in Nat /\ p \in Payment
      /\ balance \in Nat /\ 0 \in Indices
  BY BoundAssumption DEF EscrowInv, MoneyInv, TypeOK, Entry, Payment, Indices
<1>t. SUFFICES Books(contracts'[c], milestones'[c], deposited'[c], paid'[c])
  BY <1>0, OthersUntouched, OthersKept, OneBooks
<1> HIDE DEF e, cm, d, p
\* A change of the contract's record only.
<1>e. ASSUME NEW e2, contracts' = [contracts EXCEPT ![c] = e2],
             e2.totalAmount = e.totalAmount, e2.milestoneCount = e.milestoneCount,
             UNCHANGED <<milestones, deposited, paid>>, Unresolved(e2, cm) => Unresolved(e, cm)
      PROVE  Books(contracts'[c], milestones'[c], deposited'[c], paid'[c])
  <2>1. contracts'[c] = e2 /\ milestones'[c] = cm /\ deposited'[c] = d /\ paid'[c] = p
    BY <1>0, <1>e DEF cm, d, p
  <2>2. Books(e2, cm, d, p)
    BY <1>0, <1>e, SameBooks
  <2> QED BY <2>1, <2>2
<1>1. ASSUME NEW f \in Address, SetFreelancer(s, c, f)
      PROVE  Books(contracts'[c], milestones'[c], deposited'[c], paid'[c])
  <2> DEFINE e2 == [e EXCEPT !.freelancer = f]
  <2>1. e2.totalAmount = e.totalAmount /\ e2.milestoneCount = e.milestoneCount /\ e2.status = e.status
    BY <1>0 DEF EscrowContract
  <2>2. contracts' = [contracts EXCEPT ![c] = e2] /\ UNCHANGED <<milestones, deposited, paid>>
    BY <1>1 DEF SetFreelancer, e
  <2> HIDE DEF e2
  <2>3. Unresolved(e2, cm) => Unresolved(e, cm)
    BY <2>1 DEF Unresolved
  <2> QED BY <1>e, <2>1, <2>2, <2>3
<1>st. ASSUME NEW st \in ContractStatus, contracts' = [contracts EXCEPT ![c].status = st],
              UNCHANGED <<milestones, deposited, paid>>,
              e.status \in {"Created", "InProgress", "Disputed"}
       PROVE  Books(contracts'[c], milestones'[c], deposited'[c], paid'[c])
  <2> DEFINE e2 == [e EXCEPT !.status = st]
  <2>1. e2.totalAmount = e.totalAmount /\ e2.milestoneCount = e.milestoneCount
    BY <1>0 DEF EscrowContract
  <2>2. contracts' = [contracts EXCEPT ![c] = e2]
    BY <1>st DEF e
  <2>3. Unresolved(e, cm)
    BY <1>st DEF Unresolved
  <2> HIDE DEF e2
  <2> QED BY <1>e, <1>st, <2>1, <2>2, <2>3
<1>s. {"Created", "InProgress", "Completed", "Cancelled", "Disputed"} \subseteq ContractStatus
  BY DEF ContractStatus
<1>2. ASSUME NEW value \in Totals, FundContract(s, c, value)
      PROVE  Books(contracts'[c], milestones'[c], deposited'[c], paid'[c])
  <2> DEFINE e2 == [e EXCEPT !.status = "InProgress"]
             cm2 == [i \in Indices |-> IF i < e.milestoneCount
                                       THEN [cm[i] EXCEPT !.status = "Funded"] ELSE cm[i]]
  <2>1. contractExists(c) /\ e.status = "Created" /\ value = e.totalAmount
    BY <1>2 DEF FundContract, CanFund, e
  <2>2. contracts'[c] = e2 /\ milestones'[c] = cm2 /\ deposited'[c] = d + value /\ paid'[c] = p
    BY <1>0, <1>2 DEF FundContract, e, cm, d, p
  <2>3. \A i \in Indices : cm[i].status = "Pending"
    BY <1>0, <2>1 DEF Agree
  <2>4. 0 < e.milestoneCount
    BY <1>0, <2>1 DEF Entry, e
  <2>5. AmountsOf(cm2) = AmountsOf(cm) /\ cm2[0].status = "Funded"
        /\ \A i \in Indices : cm2[i].status # "Approved"
    BY <1>0, <2>3, <2>4 DEF AmountsOf, Milestone
  <2>6. ApprovedIn(cm2) = ApprovedIn(cm)
    BY <2>3, <2>5 DEF ApprovedIn
  <2>7. e2.totalAmount = e.totalAmount /\ e2.milestoneCount = e.milestoneCount
    BY <1>0 DEF EscrowContract
  <2>8. Unresolved(e, cm)
    BY <2>1 DEF Unresolved
  <2>9. d + value = e.totalAmount
    <3>1. d = 0 /\ e.totalAmount \in Nat
      BY <1>0, <2>3 DEF Books, EscrowContract
    <3> QED BY <2>1, <3>1
  <2> HIDE DEF e2, cm2
  <2>10. Books(e2, cm2, d + value, p)
    BY <1>0, <2>5, <2>6, <2>7, <2>8, <2>9 DEF Books, ApprovedSum
  <2> QED BY <2>2, <2>10
\* A milestone goes back and forth between Funded and Submitted.
<1>m. ASSUME NEW i \in Indices, NEW m, m.amount = cm[i].amount,
             m.status \in {"Funded", "Submitted"}, cm[i].status \in {"Funded", "Submitted"},
             milestones' = [milestones EXCEPT ![c][i] = m], UNCHANGED <<contracts, deposited, paid>>
      PROVE  Books(contracts'[c], milestones'[c], deposited'[c], paid'[c])
  <2> DEFINE cm2 == [cm EXCEPT ![i] = m]
  <2>1. contracts'[c] = e /\ milestones'[c] = cm2 /\ deposited'[c] = d /\ paid'[c] = p
    BY <1>0, <1>m DEF e, cm, d, p
  <2>2. AmountsOf(cm2) = AmountsOf(cm) /\ ApprovedIn(cm2) = ApprovedIn(cm)
        /\ (cm2[0].status = "Pending" <=> cm[0].status = "Pending")
    BY <1>0, <1>m DEF AmountsOf, ApprovedIn
  <2> HIDE DEF cm2
  <2>3. Books(e, cm2, d, p)
    BY <1>0, <2>2, SameBooks DEF Unresolved
  <2> QED BY <2>1, <2>3
<1>3. ASSUME NEW i \in Indices, NEW cid \in Cid, SubmitMilestone(s, c, i, cid)
      PROVE  Books(contracts'[c], milestones'[c], deposited'[c], paid'[c])
  <2> DEFINE m == [cm[i] EXCEPT !.status = "Submitted", !.deliverableCID = cid]
  <2>1. m.amount = cm[i].amount /\ m.status = "Submitted"
    BY <1>0 DEF Milestone
  <2>2. cm[i].status = "Funded" /\ UNCHANGED <<contracts, deposited, paid>>
        /\ milestones' = [milestones EXCEPT ![c][i] = m]
    BY <1>0, <1>3 DEF SubmitMilestone, CanSubmit, cm
  <2> HIDE DEF m
  <2> QED BY <1>m, <2>1, <2>2
<1>4. ASSUME NEW i \in Indices, RejectMilestone(s, c, i)
      PROVE  Books(contracts'[c], milestones'[c], deposited'[c], paid'[c])
  <2> DEFINE m == [cm[i] EXCEPT !.status = "Funded", !.deliverableCID = NoCid]
  <2>1. m.amount = cm[i].amount /\ m.status = "Funded"
    BY <1>0 DEF Milestone
  <2>2. cm[i].status = "Submitted" /\ UNCHANGED <<contracts, deposited, paid>>
        /\ milestones' = [milestones EXCEPT ![c][i] = m]
    BY <1>0, <1>4 DEF RejectMilestone, CanReject, cm
  <2> HIDE DEF m
  <2> QED BY <1>m, <2>1, <2>2
<1>5. ASSUME NEW i \in Indices, ApproveMilestone(s, c, i)
      PROVE  Books(contracts'[c], milestones'[c], deposited'[c], paid'[c])
  <2>1. e.status = "InProgress" /\ cm[i].status = "Submitted" /\ deposited'[c] = d
    BY <1>5 DEF ApproveMilestone, CanApprove, e, cm, d
  <2>2. milestones'[c] = [cm EXCEPT ![i] = [cm[i] EXCEPT !.status = "Approved"]]
    BY <1>0, <1>5 DEF ApproveMilestone, cm
  <2>3. contracts'[c].totalAmount = e.totalAmount /\ contracts'[c].milestoneCount = e.milestoneCount
    BY <1>0, <1>5 DEF ApproveMilestone, e, EscrowContract
  <2>4. PICK a \in Nat : a = cm[i].amount
    BY <1>0 DEF Milestone
  <2>5. Pay(c, 0, a - Fee(a), Fee(a))
    BY <1>5, <2>4 DEF ApproveMilestone, cm
  <2>6. paid'[c] = [client |-> p.client + 0, freelancer |-> p.freelancer + (a - Fee(a)),
                    owner |-> p.owner + Fee(a)]
    BY <1>0, <2>5 DEF Pay, p
  <2>7. PICK e2, p2 : e2 = contracts'[c] /\ p2 = paid'[c]
    OBVIOUS
  <2>8. Books(e2, [cm EXCEPT ![i] = [cm[i] EXCEPT !.status = "Approved"]], d, p2)
    BY <1>0, <2>1, <2>3, <2>4, <2>6, <2>7, ApproveBooks
  <2> QED BY <2>1, <2>2, <2>7, <2>8
<1>6. CASE RaiseDispute(s, c)
  BY <1>6, <1>st, <1>s DEF RaiseDispute, CanRaise, e
<1>7. ASSUME NEW release \in BOOLEAN, ResolveDispute(s, c, release)
      PROVE  Books(contracts'[c], milestones'[c], deposited'[c], paid'[c])
  <2>1. PICK st \in {"Completed", "Cancelled"} : contracts' = [contracts EXCEPT ![c].status = st]
    BY <1>7 DEF ResolveDispute
  <2> DEFINE e2 == [e EXCEPT !.status = st]
  <2>2. contracts'[c] = e2 /\ milestones'[c] = cm /\ deposited'[c] = d /\ e.status = "Disputed"
    BY <1>0, <1>7, <2>1 DEF ResolveDispute, CanResolve, e, cm, d
  <2>3. e2.totalAmount = e.totalAmount /\ e2.milestoneCount = e.milestoneCount /\ e2.status = st
    BY <1>0 DEF EscrowContract
  <2>4. e.milestoneCount <= MaxMilestones
    BY <1>0 DEF Books
  <2> HIDE DEF e2
  <2>5. ~Unresolved(e2, cm)
    BY <1>0, <2>1, <2>2, <2>3, <2>4, NotAllApproved DEF Unresolved
  <2>6. Books(e2, cm, d, paid'[c])
    BY <1>0, <2>3, <2>5 DEF Books
  <2> QED BY <2>2, <2>6
<1>8. CASE CancelContract(s, c)
  BY <1>8, <1>st, <1>s DEF CancelContract, CanCancel, e
<1> QED BY <1>1, <1>2, <1>3, <1>4, <1>5, <1>6, <1>7, <1>8 DEF Call

LEMMA MoneyStep == EscrowInv /\ MoneyInv /\ [Next]_chainVars => MoneyInv'
<1> SUFFICES ASSUME EscrowInv, MoneyInv, [Next]_chainVars PROVE MoneyInv'
  OBVIOUS
<1>1. CASE UNCHANGED chainVars
  BY <1>1 DEF chainVars, MoneyInv
<1>2. CASE Next
  BY <1>2, MoneyCreate, MoneyCall DEF Next
<1> QED BY <1>1, <1>2

LEMMA MoneyCorrect == Spec => []MoneyInv
  BY MoneyInit, MoneyStep, InvCorrect, PTL DEF Spec

\* Until a dispute is resolved a contract has sent exactly what was approved, with at most
\* 2.5% of it to the platform, for any amounts and any order of approvals.
THEOREM ApprovedWorkPaid == Spec => []PaidForApprovedWork
<1>1. EscrowInv /\ MoneyInv => PaidForApprovedWork
  <2> SUFFICES ASSUME EscrowInv, MoneyInv, NEW c \in Ids,
                      contracts[c].status \in {"Created", "InProgress", "Disputed"}
                         \/ SettledByApproval(c)
               PROVE  /\ paid[c].client = 0
                      /\ paid[c].freelancer + paid[c].owner = ApprovedAmount(c)
                      /\ paid[c].owner * 10000 <= ApprovedAmount(c) * PLATFORM_FEE_BPS
    BY DEF PaidForApprovedWork
  <2>1. Unresolved(contracts[c], milestones[c])
    BY DEF Unresolved, SettledByApproval, Approved, ApprovedIn, AllIndices
  <2>2. ApprovedAmount(c) = ApprovedSum(milestones[c])
    BY PartOf DEF ApprovedAmount, Approved, ApprovedIn, ApprovedSum
  <2> QED BY <2>1, <2>2 DEF MoneyInv, Books
<1> QED BY <1>1, InvCorrect, MoneyCorrect, PTL

\* A contract settled by its approvals has sent out all that was deposited for it.
THEOREM SettledInFull == Spec => []CompletedPaidInFull
<1>1. EscrowInv /\ MoneyInv => CompletedPaidInFull
  <2> SUFFICES ASSUME EscrowInv, MoneyInv, NEW c \in Ids, SettledByApproval(c), contractExists(c)
               PROVE  PaidOut(c) = deposited[c]
    BY DEF CompletedPaidInFull
  <2> DEFINE e == contracts[c]
             cm == milestones[c]
  <2>0. /\ e \in EscrowContract /\ cm \in [Indices -> Milestone] /\ Agree(e, cm)
        /\ Books(e, cm, deposited[c], paid[c]) /\ 0 < e.milestoneCount /\ 0 \in Indices
        /\ paid[c] \in Payment
    BY BoundAssumption DEF EscrowInv, TypeOK, MoneyInv, Entry, Indices, Payment
  <2>1. e.status = "Completed" /\ ApprovedIn(cm) = {i \in Indices : i < e.milestoneCount}
    BY DEF SettledByApproval, Approved, ApprovedIn, AllIndices
  <2> HIDE DEF e, cm
  <2>2. cm[0].status = "Approved"
    BY <2>0, <2>1 DEF ApprovedIn
  <2>3. deposited[c] = SumFunctionOnSet(AmountsOf(cm), Indices)
    BY <2>0, <2>2 DEF Books
  <2>4. paid[c].client = 0 /\ paid[c].freelancer + paid[c].owner = ApprovedSum(cm)
    BY <2>0, <2>1 DEF Books, Unresolved
  <2>5. \A i \in Indices \ ApprovedIn(cm) : AmountsOf(cm)[i] = 0
    BY <2>0, <2>1 DEF Agree, NoMilestone, AmountsOf
  <2>6. IsFiniteSet(Indices \ ApprovedIn(cm)) /\ ApprovedIn(cm) \in SUBSET Indices
        /\ \A i \in Indices : AmountsOf(cm)[i] \in Int
    BY <2>0, IdsFinite, FS_Subset, AmountsType DEF ApprovedIn
  <2>7. SumFunctionOnSet(AmountsOf(cm), Indices)
          = ApprovedSum(cm) + SumFunctionOnSet(AmountsOf(cm), Indices \ ApprovedIn(cm))
    BY <2>6, IdsFinite, SumSplit DEF ApprovedSum
  <2>8. SumFunctionOnSet(AmountsOf(cm), Indices \ ApprovedIn(cm)) = 0
    BY <2>5, <2>6, SumZero
  <2>9. ApprovedSum(cm) \in Nat
    BY <2>0, AmountsType
  <2>10. paid[c].client \in Nat /\ paid[c].freelancer \in Nat /\ paid[c].owner \in Nat
    BY <2>0 DEF Payment
  <2> QED BY <2>3, <2>4, <2>7, <2>8, <2>9, <2>10 DEF PaidOut
<1> QED BY <1>1, InvCorrect, MoneyCorrect, PTL
-----------------------------------------------------------------------------
(* EscrowLedger, with any number of contracts in the pool.  An account is  *)
(* what was deposited for a contract less what it sent.                    *)

Held(c) == deposited[c] - PaidOut(c)
Phase(c) ==
    IF contracts[c].status \in {"Completed", "Cancelled"} THEN "settled"
    ELSE IF milestones[c][0].status = "Pending" THEN "open" ELSE "locked"

\* The milestones of a contract that have not been approved, and what they are worth.
Rest(cm) == Indices \ ApprovedIn(cm)

\* Until a dispute of it is resolved, a funded contract's account is what its milestones
\* that are not approved are worth; before it is funded it is empty.
LEMMA Solvent ==
    ASSUME NEW e \in EscrowContract, NEW cm \in [Indices -> Milestone], NEW d \in Nat,
           NEW p \in Payment, Agree(e, cm), Books(e, cm, d, p), Unresolved(e, cm)
    PROVE  /\ d - (p.client + p.freelancer + p.owner) \in Nat
           /\ d - (p.client + p.freelancer + p.owner) =
                 IF cm[0].status = "Pending" THEN 0 ELSE SumFunctionOnSet(AmountsOf(cm), Rest(cm))
<1>1. /\ IsFiniteSet(Rest(cm)) /\ AmountsOf(cm) \in [Indices -> Nat] /\ ApprovedSum(cm) \in Nat
      /\ 0 \in Indices /\ ApprovedIn(cm) \in SUBSET Indices
  BY IdsFinite, FS_Subset, AmountsType, BoundAssumption DEF Rest, ApprovedIn, Indices
<1>2. /\ p.client = 0 /\ p.freelancer + p.owner = ApprovedSum(cm)
      /\ p.freelancer \in Nat /\ p.owner \in Nat
  BY DEF Books, Unresolved, Payment
<1>3. SumFunctionOnSet(AmountsOf(cm), Indices)
        = ApprovedSum(cm) + SumFunctionOnSet(AmountsOf(cm), Rest(cm))
  BY <1>1, IdsFinite, SumSplit DEF ApprovedSum, Rest
<1>4. SumFunctionOnSet(AmountsOf(cm), Rest(cm)) \in Nat
  <2>1. \A i \in Rest(cm) : AmountsOf(cm)[i] \in Nat
    BY <1>1 DEF Rest
  <2> QED BY <1>1, <2>1, SumNat
<1>5. CASE cm[0].status # "Pending"
  <2>1. d = SumFunctionOnSet(AmountsOf(cm), Indices)
    BY <1>5 DEF Books
  <2> QED BY <1>1, <1>2, <1>3, <1>4, <1>5, <2>1
<1>6. CASE cm[0].status = "Pending"
  <2>1. d = 0
    BY <1>6 DEF Books
  <2>2. ApprovedIn(cm) = {}
    <3>1. e.milestoneCount \in Nat
      BY DEF EscrowContract
    <3>2. \A i \in Indices : cm[i].status = "Approved" => 0 < e.milestoneCount
      BY <3>1 DEF Agree, NoMilestone, Indices
    <3>3. \A i \in Indices : cm[i].status # "Approved"
      BY <1>1, <1>6, <3>2 DEF Agree
    <3> QED BY <3>3 DEF ApprovedIn
  <2>3. ApprovedSum(cm) = 0
    BY <2>2, FS_EmptySet, SumFirst DEF ApprovedSum
  <2>4. p.freelancer + p.owner = 0
    BY <1>2, <2>3
  <2>5. p.freelancer = 0 /\ p.owner = 0
    BY <1>2, <2>4
  <2> QED BY <1>2, <1>6, <2>1, <2>5
<1> QED BY <1>5, <1>6

\* The facts about one contract that the proofs below start from.
LEMMA AccountFacts ==
    ASSUME EscrowInv, MoneyInv, NEW c \in Ids
    PROVE  /\ contracts[c] \in EscrowContract /\ milestones[c] \in [Indices -> Milestone]
           /\ deposited[c] \in Nat /\ paid[c] \in Payment /\ PaidOut(c) \in Nat /\ Held(c) \in Int
           /\ Agree(contracts[c], milestones[c])
           /\ Books(contracts[c], milestones[c], deposited[c], paid[c])
           /\ 0 \in Indices
           /\ Unresolved(contracts[c], milestones[c]) =>
                /\ Held(c) \in Nat
                /\ Held(c) = IF milestones[c][0].status = "Pending" THEN 0
                             ELSE SumFunctionOnSet(AmountsOf(milestones[c]), Rest(milestones[c]))
<1>1. /\ contracts[c] \in EscrowContract /\ milestones[c] \in [Indices -> Milestone]
      /\ deposited[c] \in Nat /\ paid[c] \in Payment
      /\ Agree(contracts[c], milestones[c])
      /\ Books(contracts[c], milestones[c], deposited[c], paid[c])
      /\ 0 \in Indices
  BY BoundAssumption DEF EscrowInv, TypeOK, Entry, MoneyInv, Payment, Indices
<1>2. PaidOut(c) \in Nat
  BY <1>1 DEF PaidOut, Payment
<1>3. Held(c) \in Int
  BY <1>1, <1>2 DEF Held
<1> QED BY <1>1, <1>2, <1>3, Solvent DEF Held, PaidOut

\* The account of a contract covers each of its milestones that is not approved.
LEMMA AccountCovers ==
    ASSUME EscrowInv, MoneyInv, NEW c \in Ids, NEW i \in Indices,
           contracts[c].status = "InProgress", milestones[c][i].status = "Submitted"
    PROVE  /\ milestones[c][i].amount \in Nat /\ milestones[c][i].amount <= Held(c)
           /\ milestones[c][0].status # "Pending"
<1> DEFINE f == AmountsOf(milestones[c])
           R == Rest(milestones[c])
<1>1. /\ milestones[c] \in [Indices -> Milestone] /\ f \in [Indices -> Nat]
      /\ Agree(contracts[c], milestones[c]) /\ contracts[c].milestoneCount \in Nat
  BY AccountFacts, AmountsType DEF EscrowContract
<1>2. f[i] = milestones[c][i].amount
  BY DEF AmountsOf
<1>3. milestones[c][0].status # "Pending"
  <2>1. i < contracts[c].milestoneCount
    BY <1>1 DEF Agree, NoMilestone
  <2>2. 0 < contracts[c].milestoneCount /\ 0 \in Indices
    BY <1>1, <2>1, BoundAssumption DEF Indices
  <2> QED BY <1>1, <2>2 DEF Agree
<1>4. i \in R /\ IsFiniteSet(R) /\ R \in SUBSET Indices
  BY IdsFinite, FS_Subset DEF Rest, ApprovedIn
<1>5. Held(c) = SumFunctionOnSet(f, R)
  BY <1>3, AccountFacts DEF Unresolved
<1> HIDE DEF f, R
<1>6. \A j \in R : f[j] \in Nat
  BY <1>1, <1>4
<1>7. SumFunctionOnSet(f, R) = f[i] + SumFunctionOnSet(f, R \ {i})
  BY <1>4, <1>6, SumTake
<1>8. SumFunctionOnSet(f, R \ {i}) \in Nat
  BY <1>4, <1>6, FS_Subset, SumNat
<1> QED BY <1>1, <1>2, <1>3, <1>5, <1>7, <1>8

\* The approval that makes up the number of milestones is of the last one.
LEMMA LastApproval ==
    ASSUME NEW e \in EscrowContract, NEW cm \in [Indices -> Milestone], Agree(e, cm),
           e.milestoneCount <= MaxMilestones, e.completedMilestones = e.milestoneCount
    PROVE  ApprovedIn(cm) = {i \in Indices : i < e.milestoneCount}
<1> DEFINE D == {i \in Indices : i < e.milestoneCount}
<1>1. e.milestoneCount \in Nat /\ Cardinality(ApprovedIn(cm)) = e.milestoneCount
  BY DEF Agree, EscrowContract
<1>2. D = 0 .. e.milestoneCount - 1
  BY <1>1, BoundAssumption DEF Indices
<1>3. Cardinality(D) = e.milestoneCount /\ IsFiniteSet(D)
  <2>1. 0 \in Int /\ e.milestoneCount - 1 \in Int
    BY <1>1
  <2>2. /\ IsFiniteSet(0 .. e.milestoneCount - 1)
        /\ Cardinality(0 .. e.milestoneCount - 1)
             = IF 0 > e.milestoneCount - 1 THEN 0 ELSE (e.milestoneCount - 1) - 0 + 1
    BY <2>1, FS_Interval
  <2>3. Cardinality(0 .. e.milestoneCount - 1) = e.milestoneCount
    BY <1>1, <2>2
  <2> QED BY <1>2, <2>2, <2>3
<1>4. ApprovedIn(cm) \in SUBSET D
  BY DEF Agree, ApprovedIn, NoMilestone
<1> HIDE DEF D
<1>5. ApprovedIn(cm) = D
  BY <1>1, <1>3, <1>4, FS_Subset
<1> QED BY <1>5 DEF D

\* A call does to the account and phase of its contract what the ledger allows, but for a
\* drain.
LEMMA AccountStep ==
    ASSUME EscrowInv, MoneyInv, CompletedPaidInFull', NEW c \in Ids, NEW s \in Address,
           Call(s, c), ~Drain(c)
    PROVE  \/ Held(c)' = Held(c) /\ Phase(c)' = Phase(c)
           \/ Phase(c) = "open" /\ Phase(c)' = "locked" /\ Held(c)' \in Nat
           \/ Phase(c) = "locked" /\ Phase(c)' = "locked" /\ Held(c)' \in 0 .. Held(c)
           \/ Phase(c) \in {"open", "locked"} /\ Phase(c)' = "settled" /\ Held(c)' = 0
<1> DEFINE Same == Held(c)' = Held(c) /\ Phase(c)' = Phase(c)
<1>0. /\ TypeOK /\ TypeOK' /\ balance \in Nat
      /\ contracts \in [Ids -> EscrowContract] /\ milestones \in [Ids -> [Indices -> Milestone]]
      /\ deposited \in [Ids -> Nat]
      /\ contracts[c] \in EscrowContract /\ milestones[c] \in [Indices -> Milestone]
      /\ deposited[c] \in Nat /\ PaidOut(c) \in Nat /\ Held(c) \in Int
      /\ Agree(contracts[c], milestones[c]) /\ 0 \in Indices
  BY AccountFacts, CallType DEF EscrowInv, TypeOK
<1>1. contractExists(c) => 0 < contracts[c].milestoneCount
  BY DEF EscrowInv, Entry
<1>2. ASSUME NEW f \in Address, SetFreelancer(s, c, f) PROVE Same
  BY <1>0, <1>2 DEF SetFreelancer, PaidOut, Held, Phase, EscrowContract
<1>3. ASSUME NEW value \in Totals, FundContract(s, c, value)
      PROVE  Phase(c) = "open" /\ Phase(c)' = "locked" /\ Held(c)' \in Nat
  <2>1. contracts[c].status = "Created" /\ 0 < contracts[c].milestoneCount
    BY <1>1, <1>3 DEF FundContract, CanFund
  <2>2. milestones[c][0].status = "Pending"
    BY <1>0, <2>1 DEF Agree
  <2>3. contracts'[c].status = "InProgress" /\ milestones'[c][0].status = "Funded"
    BY <1>0, <1>3, <2>1 DEF FundContract, Milestone, EscrowContract
  <2>4. value \in Nat /\ deposited'[c] = deposited[c] + value /\ PaidOut(c)' = PaidOut(c)
    BY <1>0, <1>3, AmountAssumption DEF FundContract, PaidOut
  <2>5. Held(c) = 0
    BY <2>1, <2>2, AccountFacts DEF Unresolved
  <2> QED BY <1>0, <2>1, <2>2, <2>3, <2>4, <2>5 DEF Held, Phase
<1>4. ASSUME NEW i \in Indices, NEW m \in Milestone, m.status # "Pending",
             milestones[c][i].status # "Pending", milestones' = [milestones EXCEPT ![c][i] = m],
             UNCHANGED <<contracts, balance, deposited, paid>>
      PROVE  Same
  <2>1. milestones'[c][0].status = "Pending" <=> milestones[c][0].status = "Pending"
    BY <1>0, <1>4
  <2> QED BY <1>0, <1>4, <2>1 DEF PaidOut, Held, Phase
<1>s. {"Funded", "Submitted", "Approved"} \subseteq MilestoneStatus
  BY DEF MilestoneStatus
<1>5. ASSUME NEW i \in Indices, NEW cid \in Cid, SubmitMilestone(s, c, i, cid) PROVE Same
  <2> DEFINE m == [milestones[c][i] EXCEPT !.status = "Submitted", !.deliverableCID = cid]
  <2>1. m \in Milestone /\ m.status = "Submitted"
    BY <1>0, <1>s, MilestoneFields DEF Milestone
  <2>2. milestones' = [milestones EXCEPT ![c][i] = m]
    BY <1>0, <1>5 DEF SubmitMilestone
  <2>3. milestones[c][i].status = "Funded" /\ UNCHANGED <<contracts, balance, deposited, paid>>
    BY <1>5 DEF SubmitMilestone, CanSubmit
  <2> HIDE DEF m
  <2> QED BY <1>4, <2>1, <2>2, <2>3
<1>6. ASSUME NEW i \in Indices, RejectMilestone(s, c, i) PROVE Same
  <2> DEFINE m == [milestones[c][i] EXCEPT !.status = "Funded", !.deliverableCID = NoCid]
  <2>1. m \in Milestone /\ m.status = "Funded"
    BY <1>0, <1>s, MilestoneFields DEF Milestone
  <2>2. milestones' = [milestones EXCEPT ![c][i] = m]
    BY <1>0, <1>6 DEF RejectMilestone
  <2>3. milestones[c][i].status = "Submitted" /\ UNCHANGED <<contracts, balance, deposited, paid>>
    BY <1>6 DEF RejectMilestone, CanReject
  <2> HIDE DEF m
  <2> QED BY <1>4, <2>1, <2>2, <2>3
<1>7. ASSUME NEW i \in Indices, ApproveMilestone(s, c, i)
      PROVE  /\ Phase(c) = "locked"
             /\ \/ Phase(c)' = "locked" /\ Held(c)' \in 0 .. Held(c)
                \/ Phase(c)' = "settled" /\ Held(c)' = 0
  <2>1. PICK a \in Nat : a = milestones[c][i].amount
    BY <1>0 DEF Milestone
  <2>2. contracts[c].status = "InProgress" /\ milestones[c][i].status = "Submitted"
    BY <1>7 DEF ApproveMilestone, CanApprove
  <2>3. a <= Held(c) /\ milestones[c][0].status # "Pending"
    BY <2>1, <2>2, AccountCovers
  <2>4. milestones'[c][0].status # "Pending"
    BY <1>0, <1>7, <2>3 DEF ApproveMilestone, Milestone
  <2> DEFINE n == contracts[c].completedMilestones + 1
  <2>5. /\ contracts'[c].completedMilestones = n
        /\ contracts'[c].milestoneCount = contracts[c].milestoneCount
        /\ contracts'[c].status = IF n = contracts[c].milestoneCount THEN "Completed"
                                  ELSE "InProgress"
    BY <1>0, <1>7, <2>2 DEF ApproveMilestone, EscrowContract
  <2>6. PaidOut(c)' = PaidOut(c) + a
    <3>1. Pay(c, 0, a - Fee(a), Fee(a))
      BY <1>7, <2>1 DEF ApproveMilestone
    <3> QED BY <1>0, <3>1, PaidOutGrows
  <2>7. deposited' = deposited
    BY <1>7 DEF ApproveMilestone
  <2>8. CASE n # contracts[c].milestoneCount
    BY <1>0, <2>1, <2>2, <2>3, <2>4, <2>5, <2>6, <2>7, <2>8 DEF Held, Phase
  <2>9. CASE n = contracts[c].milestoneCount
    <3>1. /\ contracts'[c] \in EscrowContract /\ milestones'[c] \in [Indices -> Milestone]
          /\ Agree(contracts'[c], milestones'[c])
      BY <1>0, CallInv DEF TypeOK, EscrowInv, Entry
    <3>2. contracts'[c].milestoneCount <= MaxMilestones
      BY <2>5 DEF MoneyInv, Books
    <3>3. ApprovedIn(milestones'[c]) = {j \in Indices : j < contracts'[c].milestoneCount}
      BY <2>5, <2>9, <3>1, <3>2, LastApproval
    <3>4. SettledByApproval(c)' /\ contractExists(c)'
      BY <1>7, <2>5, <2>9, <3>3
         DEF SettledByApproval, Approved, ApprovedIn, AllIndices, ApproveMilestone, CanApprove,
             contractExists
    <3>5. PaidOut(c)' = deposited'[c]
      BY <3>4 DEF CompletedPaidInFull
    <3> QED BY <1>0, <2>2, <2>3, <2>5, <2>7, <2>9, <3>5 DEF Held, Phase
  <2> QED BY <2>8, <2>9
<1>8. ASSUME RaiseDispute(s, c) PROVE Same
  BY <1>0, <1>8 DEF RaiseDispute, CanRaise, PaidOut, Held, Phase, EscrowContract
<1>9. ASSUME NEW release \in BOOLEAN, ResolveDispute(s, c, release)
      PROVE  Phase(c) \in {"open", "locked"} /\ Phase(c)' = "settled" /\ Held(c)' = 0
  <2>1. contracts[c].status = "Disputed" /\ contracts'[c].status \in {"Completed", "Cancelled"}
    BY <1>0, <1>9 DEF ResolveDispute, CanResolve, EscrowContract
  <2>2. Pay(c, 0, balance - Fee(balance), Fee(balance)) \/ Pay(c, balance, 0, 0)
    BY <1>9 DEF ResolveDispute
  <2>3. PaidOut(c)' = PaidOut(c) + balance
    <3>1. PICK b \in Nat : b = balance
      BY <1>0
    <3>2. Pay(c, 0, b - Fee(b), Fee(b)) \/ Pay(c, b, 0, 0)
      BY <2>2, <3>1
    <3>3. PaidOut(c)' = PaidOut(c) + b
      BY <1>0, <3>2, PaidOutGrows
    <3> QED BY <3>1, <3>3
  <2>4. balance = Held(c)
    BY <1>9 DEF Drain, heldMap, Held
  <2>5. deposited' = deposited
    BY <1>9 DEF ResolveDispute
  <2> QED BY <1>0, <2>1, <2>3, <2>4, <2>5 DEF Held, Phase
<1>10. ASSUME CancelContract(s, c)
       PROVE  Phase(c) = "open" /\ Phase(c)' = "settled" /\ Held(c)' = 0
  <2>1. contracts[c].status = "Created" /\ contracts'[c].status = "Cancelled"
    BY <1>0, <1>10 DEF CancelContract, CanCancel, EscrowContract
  <2>2. milestones[c][0].status = "Pending"
    <3>1. 0 < contracts[c].milestoneCount
      BY <1>1, <1>10 DEF CancelContract, CanCancel
    <3> QED BY <1>0, <2>1, <3>1 DEF Agree
  <2>3. UNCHANGED <<milestones, balance, deposited, paid>>
    BY <1>10 DEF CancelContract
  <2>4. Held(c) = 0
    BY <2>1, <2>2, AccountFacts DEF Unresolved
  <2> QED BY <2>1, <2>2, <2>3, <2>4 DEF PaidOut, Held, Phase
<1> QED BY <1>2, <1>3, <1>5, <1>6, <1>7, <1>8, <1>9, <1>10 DEF Call

\* Every step but a drain is a step of the ledger, or changes nothing of it.
LEMMA LedgerStep ==
    ASSUME EscrowInv, MoneyInv, CompletedPaidInFull', Next, \A c \in Ids : ~Drain(c)
    PROVE  Ledger!Next \/ UNCHANGED <<heldMap, phaseMap>>
<1>0. /\ heldMap = [d \in Ids |-> Held(d)] /\ phaseMap = [d \in Ids |-> Phase(d)]
      /\ heldMap' = [d \in Ids |-> Held(d)'] /\ phaseMap' = [d \in Ids |-> Phase(d)']
  BY DEF heldMap, phaseMap, Held, Phase
<1>1. ASSUME NEW client \in Party, NEW freelancer \in Party, NEW total \in Totals,
             NEW amounts \in AmountLists, CreateContract(client, freelancer, total, amounts),
             NEW d \in Ids
      PROVE  Held(d)' = Held(d) /\ Phase(d)' = Phase(d)
  <2>0. /\ contracts \in [Ids -> EscrowContract] /\ milestones \in [Ids -> [Indices -> Milestone]]
        /\ contractCounter \in Nat /\ 0 \in Indices
    BY BoundAssumption DEF EscrowInv, TypeOK, Indices
  <2>1. Held(d)' = Held(d)
    BY <1>1 DEF CreateContract, Held, PaidOut
  <2>2. CASE d # contractCounter + 1
    <3>1. contracts'[d] = contracts[d] /\ milestones'[d] = milestones[d]
      BY <2>0, <2>2, <1>1 DEF CreateContract
    <3> QED BY <2>1, <3>1 DEF Phase
  <2>3. CASE d = contractCounter + 1
    <3>1. contracts[d] = NoEscrow /\ milestones[d][0] = NoMilestone
      <4>1. ~contractExists(d)
        BY <2>0, <2>3 DEF contractExists
      <4>2. contracts[d] = NoEscrow
        BY <4>1 DEF EscrowInv, Entry
      <4>3. Agree(contracts[d], milestones[d])
        BY DEF EscrowInv, Entry
      <4> QED BY <2>0, <4>2, <4>3 DEF Agree, NoEscrow
    <3>2. contracts'[d].status = "Created" /\ milestones'[d][0].status = "Pending"
      BY <1>1, <2>0, <2>3, <3>1 DEF CreateContract, NoEscrow, NoMilestone
    <3> QED BY <2>1, <3>1, <3>2 DEF Phase, NoEscrow, NoMilestone
  <2> QED BY <2>2, <2>3
<1>2. ASSUME NEW s \in Address, NEW c \in Ids, Call(s, c)
      PROVE  Ledger!Next \/ UNCHANGED <<heldMap, phaseMap>>
  <2>1. \A d \in Ids \ {c} : Held(d)' = Held(d) /\ Phase(d)' = Phase(d)
    <3> TAKE d \in Ids \ {c}
    <3>1. /\ contracts'[d] = contracts[d] /\ paid'[d] = paid[d]
          /\ milestones'[d] = milestones[d] /\ deposited'[d] = deposited[d]
      BY <1>2, OthersUntouched, OthersKept DEF EscrowInv
    <3> QED BY <3>1 DEF Held, Phase, PaidOut
  <2>2. \/ Held(c)' = Held(c) /\ Phase(c)' = Phase(c)
        \/ Phase(c) = "open" /\ Phase(c)' = "locked" /\ Held(c)' \in Nat
        \/ Phase(c) = "locked" /\ Phase(c)' = "locked" /\ Held(c)' \in 0 .. Held(c)
        \/ Phase(c) \in {"open", "locked"} /\ Phase(c)' = "settled" /\ Held(c)' = 0
    BY <1>2, AccountStep
  <2>3. Ledger!Only(c)
    BY <1>0, <2>1 DEF Ledger!Only
  <2>4. CASE Held(c)' = Held(c) /\ Phase(c)' = Phase(c)
    <3>1. \A d \in Ids : Held(d)' = Held(d) /\ Phase(d)' = Phase(d)
      BY <2>1, <2>4
    <3> QED BY <1>0, <3>1
  <2>5. /\ heldMap[c] = Held(c) /\ phaseMap[c] = Phase(c)
        /\ heldMap'[c] = Held(c)' /\ phaseMap'[c] = Phase(c)'
    BY <1>0
  <2> QED BY <2>2, <2>3, <2>4, <2>5 DEF Ledger!Next, Ledger!Deposit, Ledger!Release, Ledger!Settle
<1>3. ASSUME NEW client \in Party, NEW freelancer \in Party, NEW total \in Totals,
             NEW amounts \in AmountLists, CreateContract(client, freelancer, total, amounts)
      PROVE  UNCHANGED <<heldMap, phaseMap>>
  BY <1>0, <1>1, <1>3
<1> QED BY <1>2, <1>3 DEF Next

\* However many contracts share the pool, resolving a dispute while the pool holds other
\* than that contract's account is the only step of the contract that the ledger forbids.
THEOREM OnlyDrains == Spec => LedgerSteps
<1>1. EscrowInv /\ MoneyInv /\ CompletedPaidInFull' /\ [Next]_chainVars
        => [Ledger!Next \/ \E c \in Ids : Drain(c)]_<<heldMap, phaseMap>>
  <2>1. CASE UNCHANGED chainVars
    BY <2>1 DEF chainVars, heldMap, phaseMap, PaidOut
  <2> QED BY <2>1, LedgerStep
<1> QED BY <1>1, InvCorrect, MoneyCorrect, SettledInFull, PTL DEF Spec, LedgerSteps

NoDrain == \A c \in Ids : ~Drain(c)

LEMMA LedgerInit == Init => Ledger!Init
<1> SUFFICES ASSUME Init PROVE Ledger!Init
  OBVIOUS
<1>1. 0 \in Indices
  BY BoundAssumption DEF Indices
<1>2. \A c \in Ids : deposited[c] - PaidOut(c) = 0 /\ milestones[c][0].status = "Pending"
                     /\ contracts[c].status = "Created"
  BY <1>1 DEF Init, PaidOut, NothingPaid, NoMilestone, NoEscrow
<1> QED BY <1>2 DEF Ledger!Init, heldMap, phaseMap

\* As long as no resolution drains it, the pool keeps the ledger's promise to any number
\* of contracts.
THEOREM LedgerWithoutDrains == Spec /\ [][NoDrain]_chainVars => LedgerSpec
<1>1. EscrowInv /\ MoneyInv /\ CompletedPaidInFull' /\ [Next]_chainVars /\ [NoDrain]_chainVars
        => [Ledger!Next]_(Ledger!ledgerVars)
  <2>1. CASE UNCHANGED chainVars
    BY <2>1 DEF chainVars, heldMap, phaseMap, PaidOut, Ledger!ledgerVars
  <2> QED BY <2>1, LedgerStep DEF NoDrain, Ledger!ledgerVars
<1> QED BY <1>1, LedgerInit, InvCorrect, MoneyCorrect, SettledInFull, PTL
    DEF Spec, LedgerSpec, Ledger!Spec

\* A contract that is alone in its instance has the pool to itself.
LEMMA Alone ==
    ASSUME MaxContracts = 1, EscrowInv, EtherConserved
    PROVE  NoDrain
<1>1. \A f : f \in [Ids -> Int] => SumFunction(f) = f[1]
  <2> SUFFICES ASSUME NEW f \in [Ids -> Int] PROVE SumFunction(f) = f[1]
    OBVIOUS
  <2>1. Ids = {1} /\ IsFiniteSet(Ids) /\ Ids \ {1} = {} /\ f[1] \in Int
    BY OnlyOne, IdsFinite
  <2>2. SumFunctionOnSet(f, Ids) = f[1] + SumFunctionOnSet(f, Ids \ {1})
    BY <2>1, SumTake
  <2>3. SumFunctionOnSet(f, {}) = 0
    BY FS_EmptySet, SumFirst
  <2>4. SumFunction(f) = SumFunctionOnSet(f, Ids)
    BY DEF SumFunction
  <2>5. SumFunctionOnSet(f, Ids) = f[1] + 0
    BY <2>1, <2>2, <2>3
  <2> QED BY <2>1, <2>4, <2>5
<1>2. /\ Ids = {1} /\ deposited \in [Ids -> Int]
      /\ [c \in Ids |-> PaidOut(c)] \in [Ids -> Int]
  BY OnlyOne DEF EscrowInv, TypeOK, PaidOut
<1>3. SumFunction(deposited) = deposited[1] /\ SumFunction([c \in Ids |-> PaidOut(c)]) = PaidOut(1)
  BY <1>1, <1>2
<1>4. balance = deposited[1] - PaidOut(1)
  BY <1>3 DEF EtherConserved, PaidMap
<1> QED BY <1>2, <1>4 DEF NoDrain, Drain, heldMap

LEMMA NeverDrained == MaxContracts = 1 => (Spec => [][NoDrain]_chainVars)
<1> SUFFICES ASSUME MaxContracts = 1 PROVE Spec => [][NoDrain]_chainVars
  OBVIOUS
<1>1. EscrowInv /\ EtherConserved => NoDrain
  BY Alone
<1> QED BY <1>1, InvCorrect, PoolConserved, PTL

\* With one contract in the instance that is always so: the pool never sends more than was
\* deposited, and the contract is funded once and ends once.
THEOREM LedgerImplemented == MaxContracts = 1 => (Spec => LedgerSpec)
<1> SUFFICES ASSUME MaxContracts = 1 PROVE Spec => LedgerSpec
  OBVIOUS
<1> QED BY NeverDrained, LedgerWithoutDrains, PTL

-----------------------------------------------------------------------------
(* What is locked is there, as long as no resolution drains the pool.      *)

\* Sums follow the comparison of their terms.
LEMMA SumBelow ==
    ASSUME NEW S, IsFiniteSet(S), NEW f, NEW g, NEW h,
           \A x \in S : f[x] \in Int /\ g[x] \in Int /\ h[x] \in Int /\ f[x] + h[x] <= g[x]
    PROVE  SumFunctionOnSet(f, S) + SumFunctionOnSet(h, S) <= SumFunctionOnSet(g, S)
<1> DEFINE Below(T) == SumFunctionOnSet(f, T) + SumFunctionOnSet(h, T) <= SumFunctionOnSet(g, T)
           X == {T \in SUBSET S : ~Below(T)}
<1>1. ASSUME X # {} PROVE FALSE
  <2>1. PICK T \in X : \A U \in X : U \subseteq T => U = T
    <3>1. X \subseteq SUBSET S
      OBVIOUS
    <3> HIDE DEF X
    <3> QED BY <1>1, <3>1, SmallestSubset
  <2>2. T \in SUBSET S /\ ~Below(T) /\ IsFiniteSet(T)
    BY <2>1, FS_Subset
  <2>3. CASE T = {}
    <3>1. SumFunctionOnSet(f, T) = 0 /\ SumFunctionOnSet(g, T) = 0 /\ SumFunctionOnSet(h, T) = 0
      BY <2>2, <2>3, SumFirst
    <3> QED BY <2>2, <3>1
  <2>4. CASE T # {}
    <3> DEFINE a == First(T)
               U == T \ {a}
    <3>1. a \in T /\ U # T /\ U \in SUBSET S /\ IsFiniteSet(U)
      BY <2>2, <2>4, FirstIn, FS_Subset
    <3>2. Below(U)
      BY <2>1, <3>1
    <3>3. /\ SumFunctionOnSet(f, T) = f[a] + SumFunctionOnSet(f, U)
          /\ SumFunctionOnSet(g, T) = g[a] + SumFunctionOnSet(g, U)
          /\ SumFunctionOnSet(h, T) = h[a] + SumFunctionOnSet(h, U)
      BY <2>2, <2>4, SumFirst
    <3>4. /\ SumFunctionOnSet(f, U) \in Int /\ SumFunctionOnSet(g, U) \in Int
          /\ SumFunctionOnSet(h, U) \in Int
      BY <3>1, SumInt
    <3>5. f[a] \in Int /\ g[a] \in Int /\ h[a] \in Int /\ f[a] + h[a] <= g[a]
      BY <2>2, <3>1
    <3> HIDE DEF a, U
    <3>6. Below(T)
      BY <3>2, <3>3, <3>4, <3>5
    <3> QED BY <2>2, <3>6
  <2> QED BY <2>3, <2>4
<1> QED BY <1>1

\* What a contract's milestones are still owed is in its account.
LEMMA LockedWithin ==
    ASSUME EscrowInv, MoneyInv, NEW c \in Ids, Held(c) \in Nat
    PROVE  Locked(c) \in Nat /\ Locked(c) <= Held(c)
<1> DEFINE e == contracts[c]
           cm == milestones[c]
           f == AmountsOf(cm)
<1>0. /\ e \in EscrowContract /\ cm \in [Indices -> Milestone] /\ f \in [Indices -> Nat]
      /\ Agree(e, cm) /\ 0 \in Indices
  BY AccountFacts, AmountsType
<1>1. Unapproved(c) \in SUBSET Indices /\ IsFiniteSet(Unapproved(c))
  BY IdsFinite, FS_Subset DEF Unapproved
<1>2. Locked(c) = SumFunctionOnSet(f, Unapproved(c))
  BY <1>1, PartOf DEF Locked
<1>3. Locked(c) \in Nat
  <2>1. \A i \in Unapproved(c) : f[i] \in Nat
    BY <1>0, <1>1
  <2> HIDE DEF f
  <2> QED BY <1>1, <1>2, <2>1, SumNat
<1>4. CASE Unapproved(c) = {}
  <2>1. Locked(c) = 0
    BY <1>1, <1>2, <1>4, SumFirst
  <2> QED BY <2>1
<1>5. CASE Unapproved(c) # {}
  <2>1. /\ e.status \in {"InProgress", "Disputed"}
        /\ Unapproved(c) = {i \in Indices : cm[i].status \in {"Funded", "Submitted"}}
    BY <1>5 DEF Unapproved
  <2>2. cm[0].status # "Pending"
    <3>1. PICK i \in Indices : cm[i].status \in {"Funded", "Submitted"}
      BY <1>5, <2>1
    <3>2. i < e.milestoneCount
      BY <1>0, <3>1 DEF Agree, NoMilestone
    <3>3. 0 < e.milestoneCount
      BY <1>0, <3>2 DEF Indices, EscrowContract
    <3> QED BY <1>0, <3>1, <3>3 DEF Agree
  <2> DEFINE R == Rest(cm)
  <2>3. Held(c) = SumFunctionOnSet(f, R)
    BY <2>1, <2>2, AccountFacts DEF Unresolved
  <2>4. R \in SUBSET Indices /\ IsFiniteSet(R) /\ Unapproved(c) \in SUBSET R
        /\ IsFiniteSet(R \ Unapproved(c))
    BY <2>1, IdsFinite, FS_Subset DEF Rest, ApprovedIn
  <2> HIDE DEF f, R
  <2>5. \A i \in R : f[i] \in Nat
    BY <1>0, <2>4
  <2>6. SumFunctionOnSet(f, R)
          = SumFunctionOnSet(f, Unapproved(c)) + SumFunctionOnSet(f, R \ Unapproved(c))
    BY <2>4, <2>5, SumSplit
  <2>7. SumFunctionOnSet(f, R \ Unapproved(c)) \in Nat
    BY <2>4, <2>5, SumNat
  <2> QED BY <1>2, <1>3, <2>3, <2>6, <2>7
<1> QED BY <1>3, <1>4, <1>5

\* No account is overdrawn.
SolventAll == \A c \in Ids : Held(c) \in Nat

\* As long as no resolution drains the pool, the ether locked for the unapproved
\* milestones of all its contracts is in it.
THEOREM LockedWithoutDrains == Spec /\ [][NoDrain]_chainVars => []LockedFundsHeld
<1>1. Init => SolventAll
  BY DEF Init, SolventAll, Held, PaidOut, NothingPaid
<1>2. EscrowInv /\ MoneyInv /\ CompletedPaidInFull' /\ SolventAll /\ [Next]_chainVars
        /\ [NoDrain]_chainVars => SolventAll'
  <2> SUFFICES ASSUME EscrowInv, MoneyInv, CompletedPaidInFull', SolventAll, [Next]_chainVars,
                      [NoDrain]_chainVars
               PROVE  SolventAll'
    OBVIOUS
  <2>0. heldMap = [d \in Ids |-> Held(d)] /\ heldMap' = [d \in Ids |-> Held(d)']
    BY DEF heldMap, Held
  <2>1. CASE UNCHANGED chainVars
    BY <2>1 DEF chainVars, SolventAll, Held, PaidOut
  <2>2. CASE Next /\ NoDrain
    <3>1. CASE UNCHANGED <<heldMap, phaseMap>>
      BY <2>0, <3>1 DEF SolventAll
    <3>2. ASSUME NEW c \in Ids, Ledger!Only(c), heldMap'[c] \in Nat
          PROVE  SolventAll'
      BY <2>0, <3>2 DEF SolventAll, Ledger!Only
    <3>3. CASE Ledger!Next
      <4>1. PICK c \in Ids : Ledger!Deposit(c) \/ Ledger!Release(c) \/ Ledger!Settle(c)
        BY <3>3 DEF Ledger!Next
      <4>2. heldMap[c] \in Nat
        BY <2>0 DEF SolventAll
      <4>3. Ledger!Only(c) /\ heldMap'[c] \in Nat
        BY <4>1, <4>2 DEF Ledger!Deposit, Ledger!Release, Ledger!Settle
      <4> QED BY <3>2, <4>3
    <3> QED BY <2>2, <3>1, <3>3, LedgerStep DEF NoDrain
  <2> QED BY <2>1, <2>2
<1>3. EscrowInv /\ MoneyInv /\ EtherConserved /\ SolventAll => LockedFundsHeld
  <2> SUFFICES ASSUME EscrowInv, MoneyInv, EtherConserved, SolventAll PROVE LockedFundsHeld
    OBVIOUS
  <2> DEFINE l == [c \in Ids |-> Locked(c)]
             p == [c \in Ids |-> PaidOut(c)]
  <2>1. \A c \in Ids : /\ l[c] \in Int /\ deposited[c] \in Int /\ p[c] \in Int
                       /\ l[c] + p[c] <= deposited[c]
    <3> TAKE c \in Ids
    <3>1. Locked(c) \in Nat /\ Locked(c) <= Held(c) /\ PaidOut(c) \in Nat /\ deposited[c] \in Nat
      BY LockedWithin, AccountFacts DEF SolventAll
    <3>2. l[c] = Locked(c) /\ p[c] = PaidOut(c)
      OBVIOUS
    <3> HIDE DEF l, p
    <3> QED BY <3>1, <3>2 DEF Held
  <2>2. /\ SumFunction(l) = SumFunctionOnSet(l, Ids) /\ SumFunction(p) = SumFunctionOnSet(p, Ids)
        /\ SumFunction(deposited) = SumFunctionOnSet(deposited, Ids)
    BY DEF SumFunction, EscrowInv, TypeOK
  <2>3. balance = SumFunction(deposited) - SumFunction(p)
    BY DEF EtherConserved, PaidMap
  <2> HIDE DEF l, p
  <2>4. SumFunctionOnSet(l, Ids) + SumFunctionOnSet(p, Ids) <= SumFunctionOnSet(deposited, Ids)
    BY <2>1, IdsFinite, SumBelow
  <2>5. /\ SumFunctionOnSet(l, Ids) \in Int /\ SumFunctionOnSet(p, Ids) \in Int
        /\ SumFunctionOnSet(deposited, Ids) \in Int
    BY <2>1, IdsFinite, SumInt
  <2>6. SumFunction(l) <= balance
    BY <2>2, <2>3, <2>4, <2>5
  <2> QED BY <2>6 DEF LockedFundsHeld, l
<1> QED BY <1>1, <1>2, <1>3, InvCorrect, MoneyCorrect, SettledInFull, PoolConserved, PTL DEF Spec

\* With one contract in the instance that is always so: the pool covers what its open
\* milestones are owed.
THEOREM LockedHeld == MaxContracts = 1 => (Spec => []LockedFundsHeld)
<1> SUFFICES ASSUME MaxContracts = 1 PROVE Spec => []LockedFundsHeld
  OBVIOUS
<1> QED BY NeverDrained, LockedWithoutDrains, PTL
-----------------------------------------------------------------------------
\* Whatever a transaction other than fundContract changes of a contract, its logs name
\* the contract.
THEOREM Announced == Spec => ChangesAnnounced
<1> DEFINE Told == \A c \in Ids :
                     /\ <<contracts[c], milestones[c]>>' # <<contracts[c], milestones[c]>>
                     /\ ~(contracts[c].status = "Created" /\ contracts'[c].status = "InProgress")
                     => \E k \in DOMAIN emitted' : emitted'[k].id = c
<1>1. EscrowInv /\ [Next]_chainVars => [Told]_chainVars
  <2> SUFFICES ASSUME EscrowInv, Next, NEW d \in Ids,
                      contracts'[d] # contracts[d] \/ milestones'[d] # milestones[d],
                      ~(contracts[d].status = "Created" /\ contracts'[d].status = "InProgress")
               PROVE  \E k \in DOMAIN emitted' : emitted'[k].id = d
    OBVIOUS
  <2>0. /\ TypeOK /\ contracts \in [Ids -> EscrowContract] /\ contracts[d] \in EscrowContract
        /\ milestones \in [Ids -> [Indices -> Milestone]]
    BY DEF EscrowInv, TypeOK
  <2>1. ASSUME NEW client \in Party, NEW freelancer \in Party, NEW total \in Totals,
               NEW amounts \in AmountLists, CreateContract(client, freelancer, total, amounts)
        PROVE  \E k \in DOMAIN emitted' : emitted'[k].id = d
    <3>1. d = contractCounter + 1
      BY <2>0, <2>1 DEF CreateContract
    <3>2. Len(amounts) \in Nat
      BY AmountAssumption
    <3> DEFINE logs == [i \in 1 .. Len(amounts) |-> MilestoneEvent("MilestoneAdded", d, i - 1)]
               last == ContractEvent("ContractCreated", d, client)
    <3>3. emitted' = Append(logs, last)
      BY <2>1, <3>1 DEF CreateContract
    <3>4. logs \in Seq({logs[i] : i \in 1 .. Len(amounts)}) /\ Len(logs) = Len(amounts)
      BY <3>2
    <3>5. last.id = d
      BY DEF ContractEvent
    <3> HIDE DEF logs, last
    <3>6. Len(emitted') = Len(logs) + 1 /\ emitted'[Len(logs) + 1] = last
          /\ Len(logs) + 1 \in DOMAIN emitted'
      BY <3>2, <3>3, <3>4
    <3> QED BY <3>5, <3>6
  <2>2. ASSUME NEW s \in Address, Call(s, d)
        PROVE  \E k \in DOMAIN emitted' : emitted'[k].id = d
    <3>1. ASSUME NEW ev, ev.id = d, emitted' = <<ev>> PROVE \E k \in DOMAIN emitted' : emitted'[k].id = d
      <4>1. 1 \in DOMAIN <<ev>> /\ <<ev>>[1] = ev
        OBVIOUS
      <4> QED BY <3>1, <4>1
    <3>2. ASSUME NEW value \in Totals, FundContract(s, d, value) PROVE FALSE
      BY <2>0, <3>2 DEF FundContract, CanFund, EscrowContract
    <3>3. \A name, a : ContractEvent(name, d, a).id = d
      BY DEF ContractEvent
    <3>4. \A name, i : MilestoneEvent(name, d, i).id = d
      BY DEF MilestoneEvent
    <3>5. ASSUME NEW i \in Indices, ApproveMilestone(s, d, i)
          PROVE  \E k \in DOMAIN emitted' : emitted'[k].id = d
      <4>1. PICK more : emitted' = <<MilestoneEvent("MilestoneApproved", d, i)>> \o more
                        /\ (more = <<>> \/ \E v : more = <<v>>)
        BY <3>5 DEF ApproveMilestone
      <4>2. PICK ev : ev = MilestoneEvent("MilestoneApproved", d, i)
        OBVIOUS
      <4>3. 1 \in DOMAIN emitted' /\ emitted'[1] = ev
        BY <4>1, <4>2
      <4> QED BY <3>4, <4>2, <4>3
    <3>6. ASSUME \/ \E f \in Address : SetFreelancer(s, d, f)
                 \/ RaiseDispute(s, d)
                 \/ \E release \in BOOLEAN : ResolveDispute(s, d, release)
                 \/ CancelContract(s, d)
          PROVE  \E name, a : emitted' = <<ContractEvent(name, d, a)>>
      BY <3>6 DEF SetFreelancer, RaiseDispute, ResolveDispute, CancelContract
    <3>7. ASSUME \/ \E i \in Indices, cid \in Cid : SubmitMilestone(s, d, i, cid)
                 \/ \E i \in Indices : RejectMilestone(s, d, i)
          PROVE  \E name, i : emitted' = <<MilestoneEvent(name, d, i)>>
      BY <3>7 DEF SubmitMilestone, RejectMilestone
    <3> QED BY <2>2, <3>1, <3>2, <3>3, <3>4, <3>5, <3>6, <3>7 DEF Call
  <2>3. \A s \in Address, c \in Ids \ {d} : ~Call(s, c)
    BY <2>0, OthersUntouched, OthersKept
  <2> QED BY <2>1, <2>2, <2>3 DEF Next
<1> QED BY <1>1, InvCorrect, PTL DEF Spec, ChangesAnnounced
-----------------------------------------------------------------------------
(* What the chain has done it does not undo: the lemmas that the proofs    *)
(* about the chain's copies rest on.                                       *)

Stopped == {"Disputed", "Completed", "Cancelled"}

\* A contract at a later time: e, cm and dep have become e2, cm2 and dep2.
Later(e, cm, dep, e2, cm2, dep2) ==
    /\ \A i \in Indices : cm[i].status = "Approved" => cm2[i].status = "Approved"
    /\ e.status \in {"Completed", "Cancelled"} => e2.status = e.status
    /\ e.status \in Stopped => e2.status \in Stopped
    /\ e2.totalAmount = e.totalAmount
    /\ dep = e.totalAmount => dep2 = e2.totalAmount

\* Every transaction moves a contract that exists to a later time.
LEMMA ChainLater ==
    ASSUME EscrowInv, MoneyInv, [Next]_chainVars, NEW c \in Ids, contractExists(c)
    PROVE  /\ contractExists(c)'
           /\ Later(contracts[c], milestones[c], deposited[c],
                    contracts'[c], milestones'[c], deposited'[c])
<1> DEFINE Goal1 == /\ contractExists(c)'
                    /\ Later(contracts[c], milestones[c], deposited[c],
                             contracts'[c], milestones'[c], deposited'[c])
<1>0. /\ TypeOK /\ contractCounter \in Nat /\ contracts \in [Ids -> EscrowContract]
      /\ milestones \in [Ids -> [Indices -> Milestone]] /\ deposited \in [Ids -> Nat]
      /\ contracts[c] \in EscrowContract /\ Agree(contracts[c], milestones[c])
      /\ Books(contracts[c], milestones[c], deposited[c], paid[c])
      /\ 0 \in Indices
  BY BoundAssumption DEF EscrowInv, TypeOK, Entry, MoneyInv, Indices
<1>a. \A i \in Indices : milestones[c][i].status = "Approved" => milestones'[c][i].status = "Approved"
  BY ApprovalKept
<1>b. contracts[c].status \in {"Completed", "Cancelled"} => contracts'[c].status = contracts[c].status
  BY SettledKept
\* What is left to show of a step.
<1>c. ASSUME contractExists(c)', contracts'[c].totalAmount = contracts[c].totalAmount,
             contracts[c].status = "Disputed" => contracts'[c].status \in Stopped,
             deposited[c] = contracts[c].totalAmount => deposited'[c] = contracts[c].totalAmount
      PROVE  Goal1
  <2>1. contracts[c].status \in Stopped => contracts'[c].status \in Stopped
    BY <1>b, <1>c DEF Stopped
  <2> QED BY <1>a, <1>b, <1>c, <2>1 DEF Later
<1>1. CASE UNCHANGED chainVars
  BY <1>c, <1>1 DEF chainVars, contractExists, Stopped
<1>2. ASSUME NEW client \in Party, NEW freelancer \in Party, NEW total \in Totals,
             NEW amounts \in AmountLists, CreateContract(client, freelancer, total, amounts)
      PROVE  Goal1
  <2>1. c # contractCounter + 1 /\ contractExists(c)'
    BY <1>0, <1>2 DEF contractExists, CreateContract
  <2>2. contracts'[c] = contracts[c] /\ deposited'[c] = deposited[c]
    BY <1>0, <1>2, <2>1 DEF CreateContract
  <2> QED BY <1>c, <2>1, <2>2 DEF Stopped
<1>3. ASSUME NEW s \in Address, NEW d \in Ids, Call(s, d) PROVE Goal1
  <2>0. contractExists(c)'
    BY <1>3 DEF Call, SetFreelancer, FundContract, SubmitMilestone, ApproveMilestone,
                RejectMilestone, RaiseDispute, ResolveDispute, CancelContract, contractExists
  <2>1. CASE d # c
    <3>1. contracts'[c] = contracts[c]
      BY <1>0, <1>3, <2>1, OthersUntouched
    <3>2. deposited'[c] = deposited[c]
      BY <1>0, <1>3, <2>1 DEF Call, SetFreelancer, FundContract, SubmitMilestone,
           ApproveMilestone, RejectMilestone, RaiseDispute, ResolveDispute, CancelContract
    <3> QED BY <1>c, <2>0, <3>1, <3>2 DEF Stopped
  <2>2. CASE d = c
    <3>1. ASSUME NEW value \in Totals, FundContract(s, c, value) PROVE Goal1
      <4>1. contracts[c].status = "Created" /\ value = contracts[c].totalAmount
            /\ deposited' = [deposited EXCEPT ![c] = @ + value]
            /\ contracts' = [contracts EXCEPT ![c].status = "InProgress"]
        BY <3>1 DEF FundContract, CanFund
      <4>2. milestones[c][0].status = "Pending"
        BY <1>0, <4>1 DEF Agree
      <4>3. deposited[c] = 0
        BY <1>0, <4>2 DEF Books
      <4>4. value \in Nat /\ deposited'[c] = value
        BY <1>0, <4>1, <4>3, AmountAssumption
      <4> QED BY <1>0, <1>c, <2>0, <4>1, <4>4 DEF EscrowContract
    <3>2. ASSUME UNCHANGED deposited, UNCHANGED contracts PROVE Goal1
      BY <1>c, <2>0, <3>2 DEF Stopped
    <3>3. CASE \/ \E i \in Indices, cid \in Cid : SubmitMilestone(s, c, i, cid)
               \/ \E i \in Indices : RejectMilestone(s, c, i)
      BY <3>2, <3>3 DEF SubmitMilestone, RejectMilestone
    <3>4. ASSUME NEW i \in Indices, ApproveMilestone(s, c, i) PROVE Goal1
      BY <1>0, <1>c, <2>0, <3>4 DEF ApproveMilestone, CanApprove, EscrowContract
    <3>5. CASE \E f \in Address : SetFreelancer(s, c, f)
      BY <1>0, <1>c, <2>0, <3>5 DEF SetFreelancer, EscrowContract, Stopped
    <3>6. CASE RaiseDispute(s, c) \/ CancelContract(s, c)
      BY <1>0, <1>c, <2>0, <3>6 DEF RaiseDispute, CancelContract, EscrowContract, Stopped
    <3>7. ASSUME NEW release \in BOOLEAN, ResolveDispute(s, c, release) PROVE Goal1
      BY <1>0, <1>c, <2>0, <3>7 DEF ResolveDispute, EscrowContract, Stopped
    <3> QED BY <1>3, <2>2, <3>1, <3>3, <3>4, <3>5, <3>6, <3>7 DEF Call
  <2> QED BY <2>1, <2>2
<1> QED BY <1>1, <1>2, <1>3 DEF Next

\* A contract all of whose milestones are approved is completed.
LEMMA AllApprovedCompleted ==
    ASSUME NEW e \in EscrowContract, NEW cm \in [Indices -> Milestone], Agree(e, cm),
           e.milestoneCount <= MaxMilestones,
           \A i \in Indices : cm[i].status = "Approved"
    PROVE  e.status = "Completed"
<1>1. ApprovedIn(cm) = 0 .. (MaxMilestones - 1) /\ 0 \in Indices
  BY BoundAssumption DEF ApprovedIn, Indices
<1>2. Cardinality(0 .. (MaxMilestones - 1)) = MaxMilestones
  <2>1. 0 \in Int /\ MaxMilestones - 1 \in Int
    BY BoundAssumption
  <2> QED BY <2>1, FS_Interval, BoundAssumption
<1>3. e.completedMilestones = MaxMilestones
  BY <1>1, <1>2 DEF Agree
<1>4. ~(e.completedMilestones < e.milestoneCount)
  BY <1>3, BoundAssumption DEF EscrowContract
<1>5. e.status \notin {"InProgress", "Disputed", "Cancelled"}
  BY <1>4 DEF Agree
<1>6. e.status # "Created"
  BY <1>1 DEF Agree
<1> QED BY <1>5, <1>6 DEF EscrowContract, ContractStatus
=============================================================================
