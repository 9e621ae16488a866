---------------------------- MODULE Hiring_proofs ----------------------------
(***************************************************************************)
(* Theorems about Hiring for any jobs, freelancers, acceptances at a time, *)
(* lost answers and contracts.                                             *)
(***************************************************************************)
EXTENDS Hiring, GigEscrow_proofs

(* The inductive invariant.  A contract on chain is the business of one    *)
(* row at most; a row posted with its contract keeps it, and its           *)
(* acceptances all name that contract.                                     *)

\* The acceptance q is in progress and for row r.
For(q, r) == req[q].pc # "idle" /\ req[q].row = r

\* The contract c is row r's, or one of r's acceptances will make it so.
Uses(r, c) == row[r].id = c \/ \E q \in Request : For(q, r) /\ req[q].id = c

ContractsApart ==
    \A r \in Row : \A c \in Ids :
        Uses(r, c) => contractExists(c) /\ \A s \in Row \ {r} : ~Uses(s, c)

Untouched(r) ==
    /\ row[r].id = 0 /\ row[r].freelancer = ZeroAddress
    /\ \A q \in Request : ~For(q, r)
    /\ \A f \in Freelancer : proposal[r][f] \in {"none", "pending"}

\* A row rw with a contract that pays f, and its proposals ps.
RowAgrees(rw, ps, f) ==
    /\ rw.id # 0
    /\ \/ /\ rw.freelancer = ZeroAddress
          /\ \A g \in Freelancer : ps[g] \in {"none", "pending"}
          /\ f # ZeroAddress => f \in Freelancer /\ ps[f] = "pending"
       \/ /\ rw.freelancer = f /\ f \in Freelancer
          /\ \A g \in Freelancer : ps[g] = "accepted" <=> g = f

\* An acceptance a of it.
AcceptanceAgrees(a, rw, ps, f) ==
    /\ a.id = rw.id /\ a.who \notin a.rejects
    /\ rw.freelancer = ZeroAddress => ps[a.who] = "pending"
    /\ a.pc = "named" => a.who = f

Bound(r) ==
    LET f == contracts[row[r].id].freelancer IN
    /\ RowAgrees(row[r], proposal[r], f)
    /\ \A q \in Request : For(q, r) => AcceptanceAgrees(req[q], row[r], proposal[r], f)

RowInv(r) == IF row[r].posted THEN r \in unbound \/ Bound(r) ELSE Untouched(r)

HiringInv ==
    /\ HiringTypeOK
    /\ ContractsApart
    /\ \A r \in Row : RowInv(r)
-----------------------------------------------------------------------------
(* The two calls hiring makes on chain.                                    *)

\* Creating a contract for a row's deal keeps the chain typed and the contracts there are.
LEMMA CreateCall ==
    ASSUME TypeOK, NEW client \in Party, NEW f \in Party, NEW r \in Row,
           CreateContract(client, f, Deal[r].total, Deal[r].amounts)
    PROVE  /\ TypeOK' /\ contractCounter' = contractCounter + 1 /\ contractCounter' \in Ids
           /\ contracts'[contractCounter'].freelancer = f
           /\ \A c \in Ids : contractExists(c) => contracts'[c] = contracts[c]
<1>1. Deal[r].total \in Totals /\ Deal[r].amounts \in AmountLists
  BY DealAssumption
<1>2. TypeOK'
  BY <1>1, CreateType
<1>3. contractCounter \in Nat /\ contractCounter < MaxContracts /\ contractCounter' = contractCounter + 1
  BY BoundAssumption DEF TypeOK, CreateContract, CanCreate
<1>4. contractCounter + 1 \in Ids /\ \A c \in Ids : contractExists(c) => c # contractCounter + 1
  BY <1>3, BoundAssumption DEF Ids, contractExists
<1>5. contracts \in [Ids -> EscrowContract]
  BY DEF TypeOK
<1>6. contracts'[contractCounter + 1].freelancer = f
  BY <1>4, <1>5 DEF CreateContract, NoEscrow
<1>7. \A c \in Ids : c # contractCounter + 1 => contracts'[c] = contracts[c]
  BY <1>5 DEF CreateContract
<1> QED BY <1>2, <1>3, <1>4, <1>6, <1>7

\* Naming a freelancer happens once to a contract, and to no other contract.
LEMMA SetCall ==
    ASSUME TypeOK, NEW c \in Ids, NEW f \in Freelancer, SetFreelancer(Owner, c, f)
    PROVE  /\ TypeOK' /\ contractCounter' = contractCounter
           /\ contracts[c].freelancer = ZeroAddress /\ contracts'[c].freelancer = f
           /\ \A d \in Ids \ {c} : contracts'[d] = contracts[d]
<1>1. Owner \in Address /\ f \in Address
  BY AddressAssumption, FreelancerAssumption
<1>2. Call(Owner, c)
  BY <1>1 DEF Call
<1>3. TypeOK'
  BY <1>1, <1>2, CallType
<1>4. contracts \in [Ids -> EscrowContract] /\ contracts[c] \in EscrowContract
  BY DEF TypeOK
<1> QED BY <1>3, <1>4 DEF SetFreelancer, CanSetFreelancer, EscrowContract

\* What an acceptance in progress holds.
LEMMA AcceptanceType ==
    ASSUME HiringTypeOK, NEW q \in Request, req[q].pc # "idle"
    PROVE  /\ req[q] \in Acceptance /\ req[q].row \in Row /\ req[q].who \in Freelancer
           /\ req[q].id \in Ids \union {0} /\ req[q].rejects \in SUBSET Freelancer
           /\ req[q].who # ZeroAddress /\ req[q].who \in Party
<1>1. req[q] \in Acceptance \union {Idle}
  BY DEF HiringTypeOK
<1>2. req[q] \in Acceptance
  BY <1>1 DEF Idle
<1> QED BY <1>2, AddressAssumption, FreelancerAssumption DEF Acceptance, Party

\* An acceptance's record with some of its fields changed is one.
LEMMA AcceptanceFields ==
    ASSUME NEW a \in Acceptance
    PROVE  /\ \A R \in SUBSET Freelancer : [a EXCEPT !.pc = "flushed", !.rejects = R] \in Acceptance
           /\ \A c \in Ids \union {0} : [a EXCEPT !.pc = "named", !.id = c] \in Acceptance
  BY DEF Acceptance

LEMMA RequestType ==
    ASSUME HiringTypeOK, NEW q \in Request, NEW a \in Acceptance \union {Idle},
           req' = [req EXCEPT ![q] = a]
    PROVE  /\ req' \in [Request -> Acceptance \union {Idle}]
           /\ req'[q] = a /\ \A p \in Request \ {q} : req'[p] = req[p]
  BY DEF HiringTypeOK

\* When no row takes a contract it did not use, but for one just created, contracts
\* stay apart.
LEMMA ApartKept ==
    ASSUME HiringTypeOK, ContractsApart, UNCHANGED contractCounter,
           \A r \in Row : \A c \in Ids : Uses(r, c)' => Uses(r, c)
    PROVE  ContractsApart'
<1>1. \A c : contractExists(c)' <=> contractExists(c)
  BY DEF contractExists
<1> QED BY <1>1 DEF ContractsApart

LEMMA ApartNew ==
    ASSUME HiringTypeOK, ContractsApart, contractCounter' = contractCounter + 1, NEW r \in Row,
           \A s \in Row : \A c \in Ids :
               Uses(s, c)' => Uses(s, c) \/ (s = r /\ c = contractCounter + 1)
    PROVE  ContractsApart'
<1>1. contractCounter \in Nat
  BY BoundAssumption DEF HiringTypeOK, TypeOK
<1>2. \A c \in Ids : contractExists(c) => contractExists(c)' /\ c # contractCounter + 1
  BY <1>1 DEF contractExists
<1>3. \A s \in Row : \A c \in Ids : Uses(s, c) => c # contractCounter + 1
  BY <1>2 DEF ContractsApart
<1>4. \A c \in Ids : c = contractCounter + 1 => contractExists(c)'
  BY <1>1 DEF contractExists
<1> HIDE DEF Uses
<1> QED BY <1>2, <1>3, <1>4 DEF ContractsApart

\* A row that a step does not touch, and whose contract it does not touch.
LEMMA RowKept ==
    ASSUME HiringTypeOK, NEW r \in Row, RowInv(r),
           row'[r] = row[r], proposal'[r] = proposal[r], unbound \subseteq unbound',
           \A q \in Request : For(q, r)' => For(q, r) /\ req'[q] = req[q],
           row[r].posted /\ r \notin unbound =>
               contracts'[row[r].id].freelancer = contracts[row[r].id].freelancer
    PROVE  RowInv(r)'
<1>1. CASE ~row[r].posted
  BY <1>1 DEF RowInv, Untouched
<1>2. CASE row[r].posted /\ r \in unbound
  BY <1>2 DEF RowInv
<1>3. CASE row[r].posted /\ r \notin unbound
  <2>1. Bound(r) /\ contracts'[row'[r].id].freelancer = contracts[row[r].id].freelancer
    BY <1>3 DEF RowInv
  <2>2. Bound(r)'
    BY <2>1 DEF Bound
  <2> QED BY <1>3, <2>2 DEF RowInv
<1> QED BY <1>1, <1>2, <1>3

\* A bound row's contract exists and no other row has a use of it.
LEMMA BoundRow ==
    ASSUME HiringInv, NEW r \in Row, row[r].posted, r \notin unbound
    PROVE  /\ Bound(r) /\ row[r].id \in Ids /\ contractExists(row[r].id)
           /\ \A s \in Row \ {r} : ~Uses(s, row[r].id)
<1>1. Bound(r) /\ row[r].id \in Ids \union {0}
  BY DEF HiringInv, RowInv, HiringTypeOK
<1>2. row[r].id \in Ids
  BY <1>1 DEF Bound, RowAgrees
<1> QED BY <1>1, <1>2 DEF HiringInv, ContractsApart, Uses
-----------------------------------------------------------------------------
(* Each operation preserves the invariant.                                 *)

LEMMA PostInv ==
    ASSUME HiringInv, NEW r \in Row, PostContract(r)
    PROVE  HiringInv'
<1>0. /\ HiringTypeOK /\ ContractsApart /\ TypeOK /\ Untouched(r) /\ lost \in Nat
      /\ row \in [Row -> [posted : BOOLEAN, id : Ids \union {0},
                          freelancer : Freelancer \union {ZeroAddress}]]
      /\ UNCHANGED <<proposal, req>> /\ ZeroAddress \in Party /\ Deal[r].client \in Party
  BY DealAssumption, HiringBoundAssumption DEF HiringInv, RowInv, PostContract, HiringTypeOK, Party
<1>1. \A s \in Row : s # r /\ row[s].posted /\ s \notin unbound =>
          row[s].id \in Ids /\ contractExists(row[s].id)
  BY BoundRow
\* The row inserted with id, on a chain that keeps the contracts there are.
<1>2. ASSUME NEW id \in Ids \union {0}, row' = [row EXCEPT ![r].posted = TRUE, ![r].id = id],
             TypeOK', \A c \in Ids : contractExists(c) => contracts'[c] = contracts[c],
             lost' \in 0 .. MaxLost, unbound' \in {unbound, unbound \union {r}},
             r \in unbound' \/ (id # 0 /\ contracts'[id].freelancer = ZeroAddress),
             ContractsApart'
      PROVE  HiringInv'
  <2>1. /\ row'[r].posted /\ row'[r].id = id /\ row'[r].freelancer = row[r].freelancer
        /\ \A s \in Row \ {r} : row'[s] = row[s]
    BY <1>0, <1>2
  <2>2. row' \in [Row -> [posted : BOOLEAN, id : Ids \union {0},
                          freelancer : Freelancer \union {ZeroAddress}]]
    BY <1>0, <1>2
  <2>3. HiringTypeOK'
    BY <1>0, <1>2, <2>2 DEF HiringTypeOK
  <2>4. ASSUME NEW s \in Row \ {r} PROVE RowInv(s)'
    <3>1. RowInv(s)
      BY DEF HiringInv
    <3>2. row[s].posted /\ s \notin unbound =>
              contracts'[row[s].id].freelancer = contracts[row[s].id].freelancer
      BY <1>1, <1>2
    <3>3. row'[s] = row[s] /\ unbound \subseteq unbound'
          /\ \A q \in Request : For(q, s)' => For(q, s) /\ req'[q] = req[q]
      BY <1>0, <1>2, <2>1 DEF For
    <3> QED BY <1>0, <3>1, <3>2, <3>3, RowKept
  <2>5. RowInv(r)'
    <3>1. \A q \in Request : ~For(q, r)'
      BY <1>0 DEF Untouched, For
    <3>2. r \notin unbound' => RowAgrees(row'[r], proposal'[r], contracts'[row'[r].id].freelancer)
      BY <1>0, <1>2, <2>1 DEF Untouched, RowAgrees
    <3> QED BY <2>1, <3>1, <3>2 DEF RowInv, Bound
  <2> QED BY <1>2, <2>3, <2>4, <2>5 DEF HiringInv
<1>3. CASE CreateContract(Deal[r].client, ZeroAddress, Deal[r].total, Deal[r].amounts)
  <2>1. /\ TypeOK' /\ contractCounter' = contractCounter + 1 /\ contractCounter' \in Ids
        /\ contracts'[contractCounter'].freelancer = ZeroAddress
        /\ \A c \in Ids : contractExists(c) => contracts'[c] = contracts[c]
    BY <1>0, <1>3, CreateCall
  <2>2. PICK new \in Ids : new = contractCounter'
    BY <2>1
  <2>3. PICK id \in {new, 0} :
           /\ row' = [row EXCEPT ![r].posted = TRUE, ![r].id = id]
           /\ \/ id = new /\ unbound' = unbound /\ lost' = lost
              \/ id = 0 /\ unbound' = unbound \union {r} /\ lost' \in 0 .. MaxLost
    <3>1. ~(UNCHANGED chainVars)
      BY <1>0, <2>1, BoundAssumption DEF TypeOK, chainVars
    <3>2. CASE row' = [row EXCEPT ![r].posted = TRUE, ![r].id = contractCounter']
               /\ UNCHANGED <<lost, unbound>>
      BY <2>2, <3>2
    <3>3. CASE Lose /\ row' = [row EXCEPT ![r].posted = TRUE, ![r].id = 0]
               /\ unbound' = unbound \union {r}
      <4>1. lost' \in 0 .. MaxLost
        BY <1>0, <3>3, HiringBoundAssumption DEF Lose
      <4> QED BY <3>3, <4>1
    <3> QED BY <3>1, <3>2, <3>3 DEF PostContract
  <2>4. \A s \in Row : \A c \in Ids :
            Uses(s, c)' => Uses(s, c) \/ (s = r /\ c = contractCounter + 1)
    BY <1>0, <2>1, <2>2, <2>3 DEF Uses, For, Ids
  <2>5. ContractsApart'
    BY <1>0, <2>1, <2>4, ApartNew
  <2>6. 0 \notin Ids /\ lost' \in 0 .. MaxLost
    BY <1>0, <2>3, BoundAssumption DEF Ids, HiringTypeOK
  <2> QED BY <1>2, <2>1, <2>2, <2>3, <2>5, <2>6
<1>4. CASE row' = [row EXCEPT ![r].posted = TRUE, ![r].id = 0]
           /\ unbound' = unbound \union {r} /\ UNCHANGED <<chainVars, lost>>
  <2>1. \A s \in Row : \A c \in Ids : Uses(s, c)' => Uses(s, c)
    BY <1>0, <1>4, BoundAssumption DEF Uses, For, Ids
  <2>2. TypeOK' /\ UNCHANGED <<contractCounter, contracts>>
    BY <1>0, <1>4 DEF TypeOK, chainVars
  <2>3. ContractsApart'
    BY <1>0, <2>1, <2>2, ApartKept
  <2>4. lost' \in 0 .. MaxLost
    BY <1>0, <1>4 DEF HiringTypeOK
  <2> QED BY <1>2, <1>4, <2>2, <2>3, <2>4
<1> QED BY <1>3, <1>4 DEF PostContract

LEMMA ProposeInv ==
    ASSUME HiringInv, NEW r \in Row, NEW f \in Freelancer, CreateProposal(r, f)
    PROVE  HiringInv'
<1>0. /\ HiringTypeOK /\ ContractsApart /\ TypeOK
      /\ proposal \in [Row -> [Freelancer -> ProposalStatus]]
      /\ proposal[r][f] = "none" /\ proposal' = [proposal EXCEPT ![r][f] = "pending"]
      /\ UNCHANGED <<chainVars, row, req, lost, unbound>> /\ UNCHANGED <<contractCounter, contracts>>
  BY DEF HiringInv, HiringTypeOK, CreateProposal, chainVars
<1>1. HiringTypeOK'
  <2>1. proposal' \in [Row -> [Freelancer -> ProposalStatus]]
    BY <1>0 DEF ProposalStatus
  <2> QED BY <1>0, <2>1 DEF HiringTypeOK, TypeOK, chainVars
<1>2. ContractsApart'
  <2>1. \A s \in Row : \A c \in Ids : Uses(s, c)' => Uses(s, c)
    BY <1>0 DEF Uses, For
  <2> QED BY <1>0, <2>1, ApartKept
<1>3. \A q \in Request : \A s \in Row : For(q, s)' <=> For(q, s)
  BY <1>0 DEF For
<1>4. ASSUME NEW s \in Row \ {r} PROVE RowInv(s)'
  <2>1. RowInv(s) /\ proposal'[s] = proposal[s]
    BY <1>0 DEF HiringInv
  <2> QED BY <1>0, <1>3, <2>1, RowKept
<1>5. /\ proposal[r][f] = "none" /\ proposal'[r][f] = "pending"
      /\ \A g \in Freelancer \ {f} : proposal'[r][g] = proposal[r][g]
  BY <1>0
<1>6. RowInv(r)'
  <2>1. CASE ~row[r].posted
    BY <1>0, <1>3, <1>5, <2>1 DEF HiringInv, RowInv, Untouched
  <2>2. CASE row[r].posted /\ r \notin unbound
    <3>1. Bound(r)
      BY <2>2 DEF HiringInv, RowInv
    <3>2. PICK p, c : p = contracts[row[r].id].freelancer /\ c = row[r]
      OBVIOUS
    <3>3. RowAgrees(c, proposal'[r], p)
      BY <1>5, <3>1, <3>2 DEF Bound, RowAgrees
    <3>4. \A q \in Request : For(q, r) => AcceptanceAgrees(req[q], c, proposal'[r], p)
      <4> SUFFICES ASSUME NEW q \in Request, For(q, r)
                   PROVE  AcceptanceAgrees(req[q], c, proposal'[r], p)
        OBVIOUS
      <4>1. req[q].who \in Freelancer
        BY <1>0, AcceptanceType DEF For
      <4> QED BY <1>5, <3>1, <3>2, <4>1 DEF Bound, AcceptanceAgrees
    <3>5. Bound(r)'
      BY <1>0, <1>3, <3>2, <3>3, <3>4 DEF Bound
    <3> QED BY <1>0, <2>2, <3>5 DEF RowInv
  <2>3. CASE row[r].posted /\ r \in unbound
    BY <1>0, <2>3 DEF RowInv
  <2> QED BY <2>1, <2>2, <2>3
<1> QED BY <1>1, <1>2, <1>4, <1>6 DEF HiringInv

\* An acceptance q of row r becomes a, or ends, with its row and its proposals as they
\* are; what is left to show is what the step may do to r's contract.
LEMMA AcceptanceStep ==
    ASSUME HiringInv, NEW q \in Request, NEW r \in Row, row[r].posted,
           NEW a \in Acceptance \union {Idle}, req' = [req EXCEPT ![q] = a],
           a = Idle \/ a.row = r, req[q].pc = "idle" \/ req[q].row = r,
           UNCHANGED <<row, proposal, unbound>>, lost' \in 0 .. MaxLost, TypeOK', ContractsApart',
           \A s \in Row \ {r} : row[s].posted /\ s \notin unbound =>
               contracts'[row[s].id].freelancer = contracts[row[s].id].freelancer,
           NEW f, f = contracts'[row[r].id].freelancer,
           r \notin unbound =>
               /\ RowAgrees(row[r], proposal[r], f)
               /\ a # Idle => AcceptanceAgrees(a, row[r], proposal[r], f)
               /\ \A p \in Request \ {q} :
                     For(p, r) => AcceptanceAgrees(req[p], row[r], proposal[r], f)
    PROVE  HiringInv'
<1>0. HiringTypeOK
  BY DEF HiringInv
<1>1. /\ req' \in [Request -> Acceptance \union {Idle}]
      /\ req'[q] = a /\ \A p \in Request \ {q} : req'[p] = req[p]
  BY <1>0, RequestType
<1>2. HiringTypeOK'
  BY <1>0, <1>1 DEF HiringTypeOK
<1>3. a.pc = "idle" <=> a = Idle
  BY DEF Acceptance, Idle
<1>4. ASSUME NEW s \in Row \ {r} PROVE RowInv(s)'
  <2>1. RowInv(s)
    BY DEF HiringInv
  <2>2. \A p \in Request : For(p, s)' => For(p, s) /\ req'[p] = req[p]
    BY <1>1, <1>3 DEF For
  <2> QED BY <1>0, <2>1, <2>2, RowKept
<1>5. RowInv(r)'
  <2>1. \A p \in Request \ {q} : For(p, r)' <=> For(p, r)
    BY <1>1 DEF For
  <2>2. For(q, r)' => a # Idle
    BY <1>1, <1>3 DEF For
  <2> QED BY <1>1, <2>1, <2>2 DEF RowInv, Bound
<1> QED BY <1>2, <1>4, <1>5 DEF HiringInv

\* The same for a step that does not touch the chain.
LEMMA OffChain ==
    ASSUME HiringInv, NEW q \in Request, NEW r \in Row, row[r].posted,
           NEW a \in Acceptance \union {Idle}, req' = [req EXCEPT ![q] = a],
           a = Idle \/ (a.row = r /\ Uses(r, a.id)), req[q].pc = "idle" \/ req[q].row = r,
           UNCHANGED <<chainVars, row, proposal, lost, unbound>>,
           r \notin unbound /\ a # Idle =>
               AcceptanceAgrees(a, row[r], proposal[r], contracts[row[r].id].freelancer)
    PROVE  HiringInv'
<1>0. HiringTypeOK /\ ContractsApart /\ UNCHANGED <<contractCounter, contracts>>
  BY DEF HiringInv, chainVars
<1>1. TypeOK' /\ lost' \in 0 .. MaxLost
  BY <1>0 DEF HiringTypeOK, TypeOK, chainVars
<1>2. /\ req'[q] = a /\ \A p \in Request \ {q} : req'[p] = req[p]
  BY <1>0, RequestType
<1>3. ContractsApart'
  <2>1. \A s \in Row : \A c \in Ids : Uses(s, c)' => Uses(s, c)
    BY <1>2 DEF Uses, For, Idle
  <2> QED BY <1>0, <2>1, ApartKept
<1>4. PICK f : f = contracts'[row[r].id].freelancer
  OBVIOUS
<1>5. r \notin unbound =>
        /\ RowAgrees(row[r], proposal[r], f)
        /\ \A p \in Request : For(p, r) => AcceptanceAgrees(req[p], row[r], proposal[r], f)
  BY <1>0, <1>4 DEF HiringInv, RowInv, Bound
<1> QED BY <1>0, <1>1, <1>3, <1>4, <1>5, AcceptanceStep

\* An acceptance in progress is one of a posted row.
LEMMA RowOf ==
    ASSUME HiringInv, NEW q \in Request, req[q].pc # "idle"
    PROVE  /\ req[q].row \in Row /\ row[req[q].row].posted /\ For(q, req[q].row)
           /\ Uses(req[q].row, req[q].id)
           /\ req[q].row \notin unbound =>
                 /\ req[q].id = row[req[q].row].id
                 /\ AcceptanceAgrees(req[q], row[req[q].row], proposal[req[q].row],
                                     contracts[row[req[q].row].id].freelancer)
<1>1. req[q].row \in Row /\ For(q, req[q].row)
  BY AcceptanceType DEF HiringInv, For
<1>2. row[req[q].row].posted
  BY <1>1 DEF HiringInv, RowInv, Untouched
<1>3. req[q].row \notin unbound => Bound(req[q].row)
  BY <1>1, <1>2 DEF HiringInv, RowInv
<1> QED BY <1>1, <1>2, <1>3 DEF Uses, Bound, AcceptanceAgrees

LEMMA LoadInv ==
    ASSUME HiringInv, NEW q \in Request, NEW r \in Row, NEW f \in Freelancer, Load(q, r, f)
    PROVE  HiringInv'
<1> DEFINE a == [pc |-> "loaded", row |-> r, who |-> f, id |-> row[r].id, rejects |-> {}]
<1>1. a \in Acceptance /\ a.row = r /\ Uses(r, a.id)
  BY DEF HiringInv, HiringTypeOK, Acceptance, Uses
<1>2. AcceptanceAgrees(a, row[r], proposal[r], contracts[row[r].id].freelancer)
  BY DEF Load, AcceptanceAgrees
<1>3. /\ req[q].pc = "idle" /\ row[r].posted /\ req' = [req EXCEPT ![q] = a]
      /\ UNCHANGED <<chainVars, row, proposal, lost, unbound>>
  BY DEF Load
<1> HIDE DEF a
<1> QED BY <1>1, <1>2, <1>3, OffChain

LEMMA FlushInv ==
    ASSUME HiringInv, NEW q \in Request, Flush(q)
    PROVE  HiringInv'
<1> DEFINE R == Remaining(req[q].row, req[q].who)
           a == [req[q] EXCEPT !.pc = "flushed", !.rejects = R]
<1>1. req[q].pc = "loaded" /\ req' = [req EXCEPT ![q] = a]
      /\ UNCHANGED <<chainVars, row, proposal, lost, unbound>>
  BY DEF Flush
<1>2. req[q] \in Acceptance /\ R \in SUBSET Freelancer /\ req[q].who \notin R
  BY <1>1, AcceptanceType DEF HiringInv, Remaining
<1>3. /\ a \in Acceptance /\ a.row = req[q].row /\ a.id = req[q].id /\ a.who = req[q].who
      /\ a.rejects = R /\ a.pc = "flushed"
  BY <1>2, AcceptanceFields DEF Acceptance
<1> HIDE DEF a, R
<1>4. PICK r \in Row : r = req[q].row
  BY <1>1, RowOf
<1>5. row[r].posted /\ Uses(r, req[q].id)
  BY <1>1, <1>4, RowOf
<1>6. r \notin unbound => AcceptanceAgrees(a, row[r], proposal[r], contracts[row[r].id].freelancer)
  <2> SUFFICES ASSUME r \notin unbound
               PROVE  AcceptanceAgrees(a, row[r], proposal[r], contracts[row[r].id].freelancer)
    OBVIOUS
  <2>1. AcceptanceAgrees(req[q], row[r], proposal[r], contracts[row[r].id].freelancer)
    BY <1>1, <1>4, RowOf
  <2> QED BY <1>2, <1>3, <2>1 DEF AcceptanceAgrees
<1> QED BY <1>1, <1>3, <1>4, <1>5, <1>6, OffChain

LEMMA AbandonInv ==
    ASSUME HiringInv, NEW q \in Request, Abandon(q)
    PROVE  HiringInv'
<1>1. PICK r \in Row : r = req[q].row /\ row[r].posted
  BY RowOf DEF Abandon
<1> QED BY <1>1, OffChain DEF Abandon, Done

\* Naming the freelancer f of an acceptance q in the contract it holds, and going on as a.
LEMMA SetInv ==
    ASSUME HiringInv, NEW q \in Request, req[q].pc = "flushed", req[q].id # 0,
           SetFreelancer(Owner, req[q].id, req[q].who), UNCHANGED <<row, proposal, unbound>>,
           lost' \in 0 .. MaxLost, req' = [req EXCEPT ![q] = [req[q] EXCEPT !.pc = "named"]]
                                   \/ Done(q)
    PROVE  HiringInv'
<1>0. HiringTypeOK /\ ContractsApart /\ TypeOK
  BY DEF HiringInv, HiringTypeOK
<1>1. PICK r \in Row : r = req[q].row
  BY RowOf
<1>2. /\ row[r].posted /\ For(q, r) /\ Uses(r, req[q].id)
      /\ r \notin unbound => req[q].id = row[r].id
      /\ r \notin unbound => AcceptanceAgrees(req[q], row[r], proposal[r],
                                              contracts[row[r].id].freelancer)
  BY <1>1, RowOf
<1>3. req[q] \in Acceptance /\ req[q].who \in Freelancer /\ req[q].who # ZeroAddress
      /\ req[q].id \in Ids
  BY <1>0, AcceptanceType
<1>4. PICK c \in Ids, w \in Freelancer : c = req[q].id /\ w = req[q].who
  BY <1>3
<1>5. /\ TypeOK' /\ contractCounter' = contractCounter
      /\ contracts[c].freelancer = ZeroAddress /\ contracts'[c].freelancer = w
      /\ \A d \in Ids \ {c} : contracts'[d] = contracts[d]
  BY <1>0, <1>4, SetCall
<1>6. PICK a \in {[req[q] EXCEPT !.pc = "named"], Idle} : req' = [req EXCEPT ![q] = a]
  BY DEF Done
<1>7. a \in Acceptance \union {Idle} /\ (a = Idle \/ a.row = r)
      /\ (a # Idle => a.pc = "named" /\ a.id = c /\ a.who = w /\ a.rejects = req[q].rejects)
  BY <1>1, <1>3, <1>4 DEF Acceptance
<1>8. /\ req'[q] = a /\ \A p \in Request \ {q} : req'[p] = req[p]
  BY <1>0, <1>6, <1>7, RequestType
<1>9. ContractsApart'
  <2>1. \A s \in Row : \A d \in Ids : Uses(s, d)' => Uses(s, d)
    BY <1>1, <1>2, <1>4, <1>7, <1>8 DEF Uses, For, Idle
  <2> QED BY <1>0, <1>5, <2>1, ApartKept
<1>10. \A s \in Row \ {r} : row[s].posted /\ s \notin unbound =>
               contracts'[row[s].id].freelancer = contracts[row[s].id].freelancer
  <2> SUFFICES ASSUME NEW s \in Row \ {r}, row[s].posted, s \notin unbound
               PROVE  contracts'[row[s].id].freelancer = contracts[row[s].id].freelancer
    OBVIOUS
  <2>1. row[s].id \in Ids /\ ~Uses(r, row[s].id)
    BY BoundRow
  <2> QED BY <1>2, <1>4, <1>5, <2>1
<1>11. PICK f : f = contracts'[row[r].id].freelancer
  OBVIOUS
<1>12. ASSUME r \notin unbound
       PROVE  /\ RowAgrees(row[r], proposal[r], f)
              /\ a # Idle => AcceptanceAgrees(a, row[r], proposal[r], f)
              /\ \A p \in Request \ {q} :
                    For(p, r) => AcceptanceAgrees(req[p], row[r], proposal[r], f)
  <2>1. /\ RowAgrees(row[r], proposal[r], ZeroAddress)
        /\ \A p \in Request : For(p, r) => AcceptanceAgrees(req[p], row[r], proposal[r], ZeroAddress)
    <3>1. Bound(r)
      BY <1>2, <1>12, BoundRow
    <3> QED BY <1>2, <1>4, <1>5, <1>12, <3>1 DEF Bound
  <2>2. f = w /\ row[r].id = c /\ w # ZeroAddress
    BY <1>2, <1>3, <1>4, <1>5, <1>11, <1>12
  <2>3. row[r].freelancer = ZeroAddress
    BY <2>1, AddressAssumption, FreelancerAssumption DEF RowAgrees
  <2>4. proposal[r][w] = "pending" /\ w \notin req[q].rejects
    BY <1>2, <1>4, <2>1, <2>3 DEF AcceptanceAgrees
  <2>5. RowAgrees(row[r], proposal[r], f)
    BY <2>1, <2>2, <2>3, <2>4, AddressAssumption, FreelancerAssumption DEF RowAgrees
  <2>6. a # Idle => AcceptanceAgrees(a, row[r], proposal[r], f)
    BY <1>7, <2>2, <2>4 DEF AcceptanceAgrees
  <2>7. ASSUME NEW p \in Request, For(p, r) PROVE AcceptanceAgrees(req[p], row[r], proposal[r], f)
    <3>1. req[p].who # ZeroAddress
      BY <1>0, <2>7, AcceptanceType DEF For
    <3> QED BY <2>1, <2>7, <3>1 DEF AcceptanceAgrees
  <2> QED BY <2>5, <2>6, <2>7
<1> QED BY <1>1, <1>2, <1>5, <1>6, <1>7, <1>9, <1>10, <1>11, <1>12, AcceptanceStep

\* Deploying a contract for a row loaded without one, and going on as a.
LEMMA DeployInv ==
    ASSUME HiringInv, NEW q \in Request, req[q].pc = "flushed", req[q].id = 0,
           Deploy(req[q].row, req[q].who), UNCHANGED <<row, proposal, unbound>>,
           lost' \in 0 .. MaxLost,
           \/ Done(q)
           \/ \E id \in {0, contractCounter'} :
                 req' = [req EXCEPT ![q] = [req[q] EXCEPT !.pc = "named", !.id = id]]
    PROVE  HiringInv'
<1>0. HiringTypeOK /\ ContractsApart /\ TypeOK
  BY DEF HiringInv, HiringTypeOK
<1>1. PICK r \in Row : r = req[q].row
  BY RowOf
<1>2. row[r].posted /\ For(q, r) /\ r \in unbound
  <2>1. row[r].posted /\ For(q, r) /\ (r \notin unbound => req[q].id = row[r].id)
    BY <1>1, RowOf
  <2>2. 0 \notin Ids
    BY BoundAssumption DEF Ids
  <2> QED BY <2>1, <2>2, BoundRow
<1>3. req[q] \in Acceptance /\ req[q].who \in Party /\ Owner \in Party
  BY <1>0, AcceptanceType, AddressAssumption DEF Party
<1>4. /\ TypeOK' /\ contractCounter' = contractCounter + 1 /\ contractCounter' \in Ids
      /\ \A c \in Ids : contractExists(c) => contracts'[c] = contracts[c]
  BY <1>0, <1>1, <1>3, CreateCall DEF Deploy
<1>5. PICK new \in Ids : new = contractCounter + 1
  BY <1>4
<1>6. PICK a : /\ req' = [req EXCEPT ![q] = a]
               /\ a = Idle \/ \E id \in {0, new} : a = [req[q] EXCEPT !.pc = "named", !.id = id]
  <2>1. CASE Done(q)
    BY <2>1 DEF Done
  <2>2. CASE \E id \in {0, contractCounter'} :
                 req' = [req EXCEPT ![q] = [req[q] EXCEPT !.pc = "named", !.id = id]]
    BY <1>4, <1>5, <2>2
  <2> QED BY <2>1, <2>2
<1>7. /\ a \in Acceptance \union {Idle} /\ (a = Idle \/ a.row = r)
      /\ a # Idle => a.id \in {0, new}
  <2>1. CASE a = Idle
    BY <2>1
  <2>2. ASSUME NEW id \in {0, new}, a = [req[q] EXCEPT !.pc = "named", !.id = id]
        PROVE  a \in Acceptance /\ a.row = r /\ a.id = id
    BY <1>1, <1>3, <2>2 DEF Acceptance
  <2> QED BY <1>6, <2>1, <2>2
<1>8. /\ req'[q] = a /\ \A p \in Request \ {q} : req'[p] = req[p]
  BY <1>0, <1>6, <1>7, RequestType
<1>9. ContractsApart'
  <2>1. \A s \in Row : \A c \in Ids :
            Uses(s, c)' => Uses(s, c) \/ (s = r /\ c = contractCounter + 1)
    <3>1. 0 \notin Ids
      BY BoundAssumption DEF Ids
    <3> QED BY <1>5, <1>7, <1>8, <3>1 DEF Uses, For, Idle
  <2> QED BY <1>0, <1>4, <2>1, ApartNew
<1>10. \A s \in Row \ {r} : row[s].posted /\ s \notin unbound =>
               contracts'[row[s].id].freelancer = contracts[row[s].id].freelancer
  BY <1>4, BoundRow
<1>11. PICK f : f = contracts'[row[r].id].freelancer
  OBVIOUS
<1> QED BY <1>1, <1>2, <1>4, <1>6, <1>7, <1>9, <1>10, <1>11, AcceptanceStep

LEMMA NameInv ==
    ASSUME HiringInv, NEW q \in Request, NameOnChain(q) \/ NameLost(q)
    PROVE  HiringInv'
<1>0. /\ HiringTypeOK /\ lost \in 0 .. MaxLost /\ req[q].pc = "flushed"
      /\ UNCHANGED <<row, proposal, unbound>>
  BY DEF HiringInv, HiringTypeOK, NameOnChain, NameLost
<1>1. req[q] \in Acceptance /\ req[q].id \in Ids \union {0}
  BY <1>0, AcceptanceType
<1>l. Lose => lost' \in 0 .. MaxLost
  BY <1>0, HiringBoundAssumption DEF Lose
<1> DEFINE Named(id) == [req[q] EXCEPT !.pc = "named", !.id = id]
<1>2. CASE req[q].id # 0 /\ AlreadySet(req[q].id, req[q].who)
           /\ req' = [req EXCEPT ![q] = Named(req[q].id)] /\ UNCHANGED <<chainVars, lost>>
  <2> DEFINE a == Named(req[q].id)
  <2>1. /\ a \in Acceptance /\ a.row = req[q].row /\ a.id = req[q].id /\ a.who = req[q].who
        /\ a.rejects = req[q].rejects /\ a.pc = "named"
    BY <1>1, AcceptanceFields DEF Acceptance
  <2>2. req' = [req EXCEPT ![q] = a]
    BY <1>2
  <2> HIDE DEF a, Named
  <2>3. PICK r \in Row : r = req[q].row
    BY <1>0, RowOf
  <2>4. row[r].posted /\ Uses(r, req[q].id)
    BY <1>0, <2>3, RowOf
  <2>5. r \notin unbound => AcceptanceAgrees(a, row[r], proposal[r], contracts[row[r].id].freelancer)
    <3> SUFFICES ASSUME r \notin unbound
                 PROVE  AcceptanceAgrees(a, row[r], proposal[r], contracts[row[r].id].freelancer)
      OBVIOUS
    <3>1. /\ req[q].id = row[r].id
          /\ AcceptanceAgrees(req[q], row[r], proposal[r], contracts[row[r].id].freelancer)
      BY <1>0, <2>3, RowOf
    <3> QED BY <1>2, <2>1, <3>1 DEF AcceptanceAgrees, AlreadySet
  <2> QED BY <1>0, <1>2, <2>1, <2>2, <2>3, <2>4, <2>5, OffChain
<1>3. CASE req[q].id # 0 /\ SetFreelancer(Owner, req[q].id, req[q].who)
           /\ (Done(q) \/ req' = [req EXCEPT ![q] = Named(req[q].id)]) /\ lost' \in 0 .. MaxLost
  <2>1. Named(req[q].id) = [req[q] EXCEPT !.pc = "named"]
    BY <1>1 DEF Acceptance
  <2> QED BY <1>0, <1>3, <2>1, SetInv
<1>4. CASE req[q].id = 0 /\ Deploy(req[q].row, req[q].who) /\ lost' \in 0 .. MaxLost
           /\ (Done(q) \/ \E id \in {0, contractCounter'} : req' = [req EXCEPT ![q] = Named(id)])
  BY <1>0, <1>4, DeployInv
<1>5. CASE NameOnChain(q)
  <2>1. lost' = lost => lost' \in 0 .. MaxLost
    BY <1>0
  <2> QED BY <1>2, <1>3, <1>4, <1>5, <1>l, <2>1 DEF NameOnChain
<1>6. CASE NameLost(q)
  BY <1>3, <1>4, <1>6, <1>l DEF NameLost
<1> QED BY <1>5, <1>6

LEMMA CommitInv ==
    ASSUME HiringInv, NEW q \in Request, Commit(q)
    PROVE  HiringInv'
<1>0. /\ HiringTypeOK /\ ContractsApart /\ req[q].pc = "named"
      /\ row \in [Row -> [posted : BOOLEAN, id : Ids \union {0},
                          freelancer : Freelancer \union {ZeroAddress}]]
      /\ proposal \in [Row -> [Freelancer -> ProposalStatus]]
      /\ UNCHANGED <<chainVars, lost, unbound>> /\ UNCHANGED <<contractCounter, contracts>>
  BY DEF HiringInv, HiringTypeOK, Commit, chainVars
<1>1. PICK r \in Row : r = req[q].row
  BY <1>0, RowOf
<1>2. /\ row[r].posted /\ For(q, r) /\ Uses(r, req[q].id)
      /\ r \notin unbound =>
            /\ req[q].id = row[r].id
            /\ AcceptanceAgrees(req[q], row[r], proposal[r], contracts[row[r].id].freelancer)
  BY <1>0, <1>1, RowOf
<1>3. /\ req[q].who \in Freelancer /\ req[q].id \in Ids \union {0}
      /\ req[q].rejects \in SUBSET Freelancer /\ req[q].who # ZeroAddress
  BY <1>0, AcceptanceType
<1>4. PICK f \in Freelancer, i \in Ids \union {0} : f = req[q].who /\ i = req[q].id
  BY <1>3
<1> DEFINE rw == [row[r] EXCEPT !.freelancer = f, !.id = IF i = 0 THEN @ ELSE i]
           ps == [g \in Freelancer |-> IF g = f THEN "accepted"
                                       ELSE IF g \in req[q].rejects THEN "rejected"
                                       ELSE proposal[r][g]]
<1>5. /\ row' = [row EXCEPT ![r] = rw] /\ proposal' = [proposal EXCEPT ![r] = ps]
      /\ req' = [req EXCEPT ![q] = Idle]
  BY <1>0, <1>1, <1>4 DEF Commit, NamedRow, Done
<1>6. /\ rw.posted /\ rw.freelancer = f /\ rw.id = (IF i = 0 THEN row[r].id ELSE i)
      /\ rw \in [posted : BOOLEAN, id : Ids \union {0}, freelancer : Freelancer \union {ZeroAddress}]
  BY <1>0, <1>2
<1>7. ps \in [Freelancer -> ProposalStatus]
  BY <1>0 DEF ProposalStatus
<1> HIDE DEF rw, ps
<1>8. /\ row'[r] = rw /\ \A s \in Row \ {r} : row'[s] = row[s]
      /\ proposal'[r] = ps /\ \A s \in Row \ {r} : proposal'[s] = proposal[s]
  BY <1>0, <1>5
<1>9. /\ req' \in [Request -> Acceptance \union {Idle}]
      /\ req'[q] = Idle /\ \A p \in Request \ {q} : req'[p] = req[p]
  BY <1>0, <1>5, RequestType
<1>10. HiringTypeOK'
  BY <1>0, <1>5, <1>6, <1>7, <1>9 DEF HiringTypeOK, TypeOK, chainVars
<1>11. \A p \in Request : \A s \in Row : For(p, s)' => For(p, s) /\ req'[p] = req[p]
  BY <1>9 DEF For, Idle
<1>12. ContractsApart'
  <2>1. \A s \in Row : \A c \in Ids : Uses(s, c)' => Uses(s, c)
    <3> SUFFICES ASSUME NEW s \in Row, NEW c \in Ids, Uses(s, c)' PROVE Uses(s, c)
      OBVIOUS
    <3>1. CASE row'[s].id = c
      BY <1>2, <1>4, <1>6, <1>8, <3>1 DEF Uses
    <3>2. CASE \E p \in Request : For(p, s)' /\ req'[p].id = c
      BY <1>11, <3>2 DEF Uses
    <3> QED BY <3>1, <3>2 DEF Uses
  <2> QED BY <1>0, <2>1, ApartKept
<1>13. ASSUME NEW s \in Row \ {r} PROVE RowInv(s)'
  <2>1. RowInv(s)
    BY DEF HiringInv
  <2> QED BY <1>0, <1>8, <1>11, <2>1, RowKept
<1>14. RowInv(r)'
  <2> SUFFICES ASSUME r \notin unbound PROVE Bound(r)'
    BY <1>0, <1>6, <1>8 DEF RowInv
  <2>1. Bound(r) /\ row[r].id = i /\ i # 0 /\ rw.id = i
    BY <1>2, <1>4, <1>6, BoundRow DEF Bound, RowAgrees
  <2>2. f = contracts[i].freelancer /\ f \notin req[q].rejects
    BY <1>0, <1>2, <1>4, <2>1 DEF AcceptanceAgrees
  <2>3. RowAgrees(row[r], proposal[r], f)
    BY <2>1, <2>2 DEF Bound
  <2>4. \A g \in Freelancer : proposal[r][g] = "accepted" => g = f
    BY <2>3 DEF RowAgrees
  <2>5. \A g \in Freelancer : ps[g] = "accepted" <=> g = f
    BY <2>4 DEF ps
  <2>6. RowAgrees(rw, ps, f)
    BY <1>6, <2>1, <2>5 DEF RowAgrees
  <2>7. ASSUME NEW p \in Request, For(p, r) PROVE AcceptanceAgrees(req[p], rw, ps, f)
    <3>1. AcceptanceAgrees(req[p], row[r], proposal[r], f)
      BY <2>1, <2>2, <2>7 DEF Bound
    <3> QED BY <1>3, <1>4, <1>6, <2>1, <3>1 DEF AcceptanceAgrees
  <2> QED BY <1>0, <1>8, <1>11, <2>1, <2>2, <2>6, <2>7 DEF Bound
<1> QED BY <1>10, <1>12, <1>13, <1>14 DEF HiringInv

LEMMA HiringStart == HiringInit => HiringInv
<1> SUFFICES ASSUME HiringInit PROVE HiringInv
  OBVIOUS
<1>1. TypeOK
  BY InitType DEF HiringInit
<1>2. HiringTypeOK
  BY <1>1, HiringBoundAssumption DEF HiringInit, HiringTypeOK, ProposalStatus
<1>3. ContractsApart
  BY BoundAssumption DEF HiringInit, ContractsApart, Uses, For, Idle, Ids
<1>4. \A r \in Row : RowInv(r)
  BY DEF HiringInit, RowInv, Untouched, For, Idle
<1> QED BY <1>2, <1>3, <1>4 DEF HiringInv

LEMMA HiringStep == HiringInv /\ [HiringNext]_hiringVars => HiringInv'
<1> SUFFICES ASSUME HiringInv, [HiringNext]_hiringVars PROVE HiringInv'
  OBVIOUS
<1>1. CASE UNCHANGED hiringVars
  BY <1>1 DEF hiringVars, chainVars, HiringInv, HiringTypeOK, TypeOK, ContractsApart, Uses, For,
        contractExists, RowInv, Untouched, Bound
<1>2. CASE HiringNext
  BY <1>2, PostInv, ProposeInv, LoadInv, FlushInv, NameInv, CommitInv, AbandonInv DEF HiringNext
<1> QED BY <1>1, <1>2

\* The inductive invariant holds in every reachable state.
THEOREM HiringInvCorrect == HiringSpec => []HiringInv
  BY HiringStart, HiringStep, PTL DEF HiringSpec
-----------------------------------------------------------------------------
(* What follows from it.                                                   *)

\* Every state of hiring is well typed.
THEOREM HiringTypeCorrect == HiringSpec => []HiringTypeOK
<1>1. HiringInv => HiringTypeOK
  BY DEF HiringInv
<1> QED BY <1>1, HiringInvCorrect, PTL

\* The freelancer a row names is the one its contract on chain pays, for any number of
\* jobs, freelancers, crossing acceptances and lost answers.
THEOREM HiredOnChainAlways == HiringSpec => []HiredOnChain
<1>1. HiringInv => HiredOnChain
  BY DEF HiringInv, RowInv, Untouched, Bound, RowAgrees, HiredOnChain
<1> QED BY <1>1, HiringInvCorrect, PTL

\* A contract posted with its contract on chain hires one freelancer at most.
THEOREM HiresOnce == HiringSpec => []OneHired
<1>1. HiringInv => OneHired
  <2> SUFFICES ASSUME HiringInv, NEW r \in Row \ unbound
               PROVE  \/ Accepted(r) = {} /\ row[r].freelancer = ZeroAddress
                      \/ Accepted(r) = {row[r].freelancer}
    BY DEF OneHired
  <2>1. CASE row[r].posted
    BY <2>1, BoundRow DEF Bound, RowAgrees, Accepted
  <2>2. CASE ~row[r].posted
    BY <2>2 DEF HiringInv, RowInv, Untouched, Accepted
  <2> QED BY <2>1, <2>2
<1> QED BY <1>1, HiringInvCorrect, PTL

\* As long as the row names nobody, the freelancer the chain names has a proposal left
\* to accept.
THEOREM HireRepeats == HiringSpec => []HireCanBeRepeated
<1>1. HiringInv => HireCanBeRepeated
  BY AddressAssumption, FreelancerAssumption, BoundRow
     DEF Bound, RowAgrees, HireCanBeRepeated
<1> QED BY <1>1, HiringInvCorrect, PTL
-----------------------------------------------------------------------------
(* Hiring calls the chain as anyone may.                                   *)

LEMMA HiringChain ==
    ASSUME HiringInv, HiringNext
    PROVE  [Next]_chainVars
<1>1. Owner \in Address /\ Owner \in Party
  BY AddressAssumption DEF Party
<1>2. \A r \in Row : /\ Deal[r].client \in Party /\ ZeroAddress \in Party
                    /\ Deal[r].total \in Totals /\ Deal[r].amounts \in AmountLists
  BY DealAssumption DEF Party
<1>3. ASSUME NEW r \in Row, NEW client \in Party, NEW f \in Party,
             CreateContract(client, f, Deal[r].total, Deal[r].amounts)
      PROVE  Next
  BY <1>2, <1>3 DEF Next
<1>4. CASE \E r \in Row : PostContract(r)
  BY <1>2, <1>3, <1>4 DEF PostContract
<1>5. ASSUME NEW q \in Request, NameOnChain(q) \/ NameLost(q) PROVE [Next]_chainVars
  <2>1. req[q].pc = "flushed"
    BY <1>5 DEF NameOnChain, NameLost
  <2>2. PICK r \in Row, f \in Party, c \in Ids \union {0} :
            r = req[q].row /\ f = req[q].who /\ c = req[q].id /\ f \in Freelancer
    BY <2>1, AcceptanceType DEF HiringInv
  <2>3. \/ UNCHANGED chainVars
        \/ c # 0 /\ SetFreelancer(Owner, c, f)
        \/ CreateContract(Owner, f, Deal[r].total, Deal[r].amounts)
    BY <1>5, <2>2 DEF NameOnChain, NameLost, Deploy
  <2>4. ASSUME c # 0, SetFreelancer(Owner, c, f) PROVE Next
    <3>1. f \in Address /\ c \in Ids
      BY <2>2, <2>4, FreelancerAssumption
    <3>2. Call(Owner, c)
      BY <2>4, <3>1 DEF Call
    <3> QED BY <1>1, <3>1, <3>2 DEF Next
  <2> QED BY <1>1, <1>3, <2>2, <2>3, <2>4
<1>6. CASE \E r \in Row, f \in Freelancer : CreateProposal(r, f)
  BY <1>6 DEF CreateProposal
<1>7. ASSUME NEW q \in Request,
             (\E r \in Row, f \in Freelancer : Load(q, r, f)) \/ Flush(q) \/ Commit(q) \/ Abandon(q)
      PROVE  UNCHANGED chainVars
  BY <1>7 DEF Load, Flush, Commit, Abandon
<1> QED BY <1>4, <1>5, <1>6, <1>7 DEF HiringNext

\* Whatever acceptances cross, and whatever answers are lost, hiring does to the chain what
\* the contract allows: all that is proved of GigEscrow holds here.
THEOREM HiringKeepsChain == HiringSpec => Spec
<1>1. HiringInit => Init
  BY DEF HiringInit
<1>2. HiringInv /\ [HiringNext]_hiringVars => [Next]_chainVars
  BY HiringChain DEF hiringVars
<1> QED BY <1>1, <1>2, HiringInvCorrect, PTL DEF HiringSpec, Spec
=============================================================================
