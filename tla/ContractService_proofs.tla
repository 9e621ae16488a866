------------------------ MODULE ContractService_proofs ------------------------
(***************************************************************************)
(* Theorems about ContractService for any rows, requests at a time, lost   *)
(* answers, milestones and contracts.                                      *)
(***************************************************************************)
EXTENDS ContractService, GigEscrow_proofs

(* The inductive invariant, as predicates on values: of a contract's record *)
(* e, its milestones cm and its deposit dep on chain; of a row rw, its      *)
(* milestones m and its dispute d; and of a handler h.                      *)

Decided(release) == IF release THEN "Completed" ELSE "Cancelled"

\* The row claims no more than its contract shows.
Mirrors(rw, m, d, e, cm, dep) ==
    /\ \A i \in Indices : m[i] = "approved" => cm[i].status = "Approved"
    /\ rw.status = "completed" => e.status = "Completed"
    /\ rw.status = "cancelled" => e.status = "Cancelled"
    /\ rw.status = "active" => dep = e.totalAmount
    /\ d.status = "open" => e.status \in Stopped

\* The handler is where its operation goes, and holds the UPDATEs its operation makes.
WellFormed(h) ==
    /\ h.op \in Role <=> h.pc \in {"sign", "check", "create", "bind"}
    /\ h.op \in MilestoneOperation => h.index \in Indices
    /\ h.pc = "decide" => h.op = "approve"
    /\ h.pc = "chain" => h.id # 0
    /\ h.pc = "bind" => h.index \in Ids \union {0}
    /\ h.op \in Role => h.write.status \in {"pending_funding", Keep}
    /\ h.write.status \in {Keep, "pending_funding", "active", "completed", "cancelled", "disputed"}
    /\ \A j \in Indices : h.write.ms[j] = "approved" => h.op = "approve" /\ j = h.index
    /\ h.write.status = "completed" => h.op = "approve" \/ (h.op = "resolve" /\ h.release)
    /\ h.write.status = "cancelled" => h.op = "resolve" /\ ~h.release
    /\ h.write.status = "active" => h.op = "fund"
    /\ h.write.status = "disputed" => h.op = "dispute"

\* What the handler is about to write has happened on chain.
CarriedOut(h, e, cm, dep) ==
    /\ h.op = "approve" /\ h.pc \in {"decide", "commit"} => cm[h.index].status = "Approved"
    /\ h.pc = "commit" =>
          /\ h.op = "approve" /\ h.write.status = "completed" => e.status = "Completed"
          /\ h.op = "resolve" => e.status = Decided(h.release)
          /\ h.op = "dispute" => e.status \in Stopped
          /\ h.op = "fund" => dep = e.totalAmount

RowInv(r) ==
    LET c == row[r].id
    IN
    IF row[r].status = "none"
    THEN /\ c = 0 /\ \A i \in Indices : ms[r][i] = "pending"
         /\ dispute[r].status = "none"
    ELSE r \in lateBound \/
         /\ contractExists(c)
         /\ Mirrors(row[r], ms[r], dispute[r], contracts[c], milestones[c], deposited[c])

HandlerInv(q) ==
    LET h == req[q]
    IN
    h.pc # "idle" =>
        /\ row[h.row].status # "none" /\ WellFormed(h)
        /\ \/ h.row \in lateBound
           \/ /\ h.pc \notin {"create", "bind"} /\ h.id = row[h.row].id
              /\ CarriedOut(h, contracts[h.id], milestones[h.id], deposited[h.id])

ServiceInv ==
    /\ EscrowInv /\ MoneyInv /\ ServiceTypeOK
    /\ \A r \in Row : RowInv(r)
    /\ \A q \in Request : HandlerInv(q)
-----------------------------------------------------------------------------
(* Claims outlive the chain's steps.                                       *)

LEMMA MirrorsLater ==
    ASSUME NEW rw, NEW m, NEW d, NEW e, NEW cm, NEW dep, NEW e2, NEW cm2, NEW dep2,
           Mirrors(rw, m, d, e, cm, dep), Later(e, cm, dep, e2, cm2, dep2)
    PROVE  Mirrors(rw, m, d, e2, cm2, dep2)
  BY DEF Mirrors, Later

LEMMA CarriedOutLater ==
    ASSUME NEW h, WellFormed(h), NEW e, NEW cm, NEW dep, NEW e2, NEW cm2, NEW dep2,
           CarriedOut(h, e, cm, dep), Later(e, cm, dep, e2, cm2, dep2)
    PROVE  CarriedOut(h, e2, cm2, dep2)
<1>1. h.op = "approve" => h.index \in Indices
  BY DEF WellFormed, MilestoneOperation
<1> QED BY <1>1 DEF CarriedOut, Later, Decided

-----------------------------------------------------------------------------
(* Steps in general.                                                       *)

LEMMA HandlerType ==
    ASSUME ServiceTypeOK, NEW q \in Request, req[q].pc # "idle"
    PROVE  /\ req[q] \in Handler /\ req[q].row \in Row /\ req[q].id \in Ids \union {0}
           /\ req[q].release \in BOOLEAN /\ req[q].write \in Write
           /\ req[q].write.status \in RowStatus \union {Keep}
           /\ req[q].write.ms \in [Indices -> MsStatus \union {Keep}]
           /\ req[q].op \in Operation \union Role
<1>1. req[q] \in Handler \union {Idle}
  BY DEF ServiceTypeOK
<1>2. req[q] \in Handler
  BY <1>1 DEF Idle
<1> QED BY <1>2 DEF Handler, Write

LEMMA HandlerPc ==
    ASSUME NEW h \in Handler
    PROVE  h.pc # "idle" /\ h # Idle
  BY DEF Handler, Idle

LEMMA RequestType ==
    ASSUME ServiceTypeOK, NEW q \in Request, NEW h \in Handler \union {Idle},
           req' = [req EXCEPT ![q] = h]
    PROVE  /\ req' \in [Request -> Handler \union {Idle}]
           /\ req'[q] = h /\ \A p \in Request \ {q} : req'[p] = req[p]
  BY DEF ServiceTypeOK

RowType == [status : RowStatus, id : Ids \union {0}, signed : SUBSET Role]
DisputeType == [status : {"none", "open", "resolved"}, decision : {"none", "release", "refund"}]

LEMMA RowTypes ==
    ASSUME ServiceInv
    PROVE  /\ row \in [Row -> RowType] /\ ms \in [Row -> [Indices -> MsStatus]]
           /\ dispute \in [Row -> DisputeType]
  BY DEF ServiceInv, ServiceTypeOK, RowType, DisputeType

\* A row that is not bound late has a contract that exists.
LEMMA BackedRow ==
    ASSUME ServiceInv, NEW r \in Row, row[r].status # "none", r \notin lateBound
    PROVE  /\ row[r].id \in Ids /\ contractExists(row[r].id)
           /\ Mirrors(row[r], ms[r], dispute[r], contracts[row[r].id], milestones[row[r].id],
                      deposited[row[r].id])
<1>1. /\ contractExists(row[r].id) /\ row[r].id \in Ids \union {0} /\ contractCounter \in Nat
      /\ Mirrors(row[r], ms[r], dispute[r], contracts[row[r].id], milestones[row[r].id],
                 deposited[row[r].id])
  BY BoundAssumption DEF ServiceInv, RowInv, ServiceTypeOK, TypeOK
<1>2. row[r].id # 0
  BY <1>1 DEF contractExists
<1> QED BY <1>1, <1>2

\* Rows a step leaves alone still claim no more than the chain shows, handlers it leaves
\* alone still hold what they held.
LEMMA ServiceStep ==
    ASSUME ServiceInv, [Next]_chainVars, ServiceTypeOK', lateBound \subseteq lateBound',
           \A r \in Row : row[r].status # "none" =>
               /\ row'[r].status # "none"
               /\ r \notin lateBound' => row'[r].id = row[r].id,
           \A r \in Row :
               \/ row'[r] = row[r] /\ ms'[r] = ms[r] /\ dispute'[r] = dispute[r]
               \/ RowInv(r)',
           \A q \in Request : req'[q] = req[q] \/ req'[q] = Idle \/ HandlerInv(q)'
    PROVE  ServiceInv'
<1>0. EscrowInv /\ MoneyInv /\ ServiceTypeOK
  BY DEF ServiceInv
<1>1. EscrowInv' /\ MoneyInv'
  BY <1>0, StepInv, MoneyStep
<1>2. ASSUME NEW r \in Row, row'[r] = row[r], ms'[r] = ms[r], dispute'[r] = dispute[r]
      PROVE  RowInv(r)'
  <2>1. CASE row[r].status = "none" \/ r \in lateBound
    BY <1>2, <2>1 DEF RowInv, ServiceInv
  <2>2. CASE row[r].status # "none" /\ r \notin lateBound
    <3>1. PICK c \in Ids : c = row[r].id
      BY <2>2, BackedRow
    <3>2. /\ contractExists(c)
          /\ Mirrors(row[r], ms[r], dispute[r], contracts[c], milestones[c], deposited[c])
      BY <2>2, <3>1, BackedRow
    <3>3. /\ contractExists(c)'
          /\ Later(contracts[c], milestones[c], deposited[c],
                   contracts'[c], milestones'[c], deposited'[c])
      BY <1>0, <3>2, ChainLater
    <3>4. PICK e, cm, dep : e = contracts'[c] /\ cm = milestones'[c] /\ dep = deposited'[c]
      OBVIOUS
    <3>5. Mirrors(row[r], ms[r], dispute[r], e, cm, dep)
      BY <3>2, <3>3, <3>4, MirrorsLater
    <3>6. Mirrors(row'[r], ms'[r], dispute'[r], contracts'[c], milestones'[c], deposited'[c])
      BY <1>2, <3>4, <3>5
    <3>7. row'[r].id = c
      BY <1>2, <3>1
    <3> QED BY <1>2, <2>2, <3>3, <3>6, <3>7 DEF RowInv
  <2> QED BY <2>1, <2>2
<1>3. ASSUME NEW q \in Request, req'[q] = req[q], req[q].pc # "idle"
      PROVE  HandlerInv(q)'
  <2>1. PICK h : h = req[q]
    OBVIOUS
  <2>2. h.row \in Row /\ row[h.row].status # "none" /\ WellFormed(h) /\ h.pc # "idle"
    BY <1>0, <1>3, <2>1, HandlerType DEF ServiceInv, HandlerInv
  <2>3. row'[h.row].status # "none"
    BY <2>2
  <2>4. ASSUME h.row \notin lateBound'
        PROVE  /\ h.pc \notin {"create", "bind"} /\ h.id = row'[h.row].id
               /\ CarriedOut(h, contracts'[h.id], milestones'[h.id], deposited'[h.id])
    <3>1. /\ h.pc \notin {"create", "bind"} /\ h.id = row[h.row].id /\ h.row \notin lateBound
          /\ CarriedOut(h, contracts[h.id], milestones[h.id], deposited[h.id])
      BY <1>3, <2>1, <2>2, <2>4 DEF ServiceInv, HandlerInv
    <3>2. h.id \in Ids /\ contractExists(h.id) /\ row'[h.row].id = row[h.row].id
      BY <2>2, <2>4, <3>1, BackedRow
    <3>3. PICK c \in Ids : c = h.id
      BY <3>2
    <3>4. Later(contracts[c], milestones[c], deposited[c],
                contracts'[c], milestones'[c], deposited'[c])
      BY <1>0, <3>2, <3>3, ChainLater
    <3>5. PICK e, cm, dep : e = contracts'[c] /\ cm = milestones'[c] /\ dep = deposited'[c]
      OBVIOUS
    <3>6. CarriedOut(h, e, cm, dep)
      BY <2>2, <3>1, <3>3, <3>4, <3>5, CarriedOutLater
    <3> QED BY <3>1, <3>2, <3>3, <3>5, <3>6
  <2> QED BY <1>3, <2>1, <2>2, <2>3, <2>4 DEF HandlerInv
<1>4. \A q \in Request : req'[q] = Idle \/ req'[q].pc = "idle" => HandlerInv(q)'
  BY DEF HandlerInv, Idle
<1>5. \A q \in Request : HandlerInv(q)'
  BY <1>3, <1>4
<1> QED BY <1>1, <1>2, <1>5 DEF ServiceInv

\* A step of one handler that leaves the rows alone.
LEMMA HandlerStep ==
    ASSUME ServiceInv, [Next]_chainVars, UNCHANGED rowVars, NEW q \in Request,
           NEW h \in Handler \union {Idle}, req' = [req EXCEPT ![q] = h],
           lateBound \subseteq lateBound', lateBound' \subseteq Row, lost' \in 0 .. MaxLost,
           h = Idle \/ HandlerInv(q)'
    PROVE  ServiceInv'
<1>0. ServiceTypeOK /\ UNCHANGED <<row, ms, dispute>> /\ TypeOK
  BY DEF ServiceInv, rowVars, EscrowInv
<1>1. /\ req' \in [Request -> Handler \union {Idle}] /\ req'[q] = h
      /\ \A p \in Request \ {q} : req'[p] = req[p]
  BY <1>0, RequestType
<1>2. TypeOK'
  BY <1>0, StepType
<1>3. ServiceTypeOK'
  BY <1>0, <1>1, <1>2 DEF ServiceTypeOK
<1> QED BY <1>0, <1>1, <1>3, ServiceStep

\* A step of one handler that writes its rows, off the chain.
LEMMA WriteStep ==
    ASSUME ServiceInv, UNCHANGED <<chainVars, lost, lateBound>>, NEW q \in Request, NEW r \in Row,
           req' \in [Request -> Handler \union {Idle}],
           \A p \in Request \ {q} : req'[p] = req[p],
           req'[q] = Idle \/ HandlerInv(q)',
           row' \in [Row -> RowType], ms' \in [Row -> [Indices -> MsStatus]],
           dispute' \in [Row -> DisputeType],
           \A s \in Row \ {r} : row'[s] = row[s] /\ ms'[s] = ms[s] /\ dispute'[s] = dispute[s],
           row[r].status # "none", row'[r].status # "none",
           r \notin lateBound =>
               /\ row'[r].id = row[r].id
               /\ Mirrors(row'[r], ms'[r], dispute'[r], contracts[row[r].id],
                          milestones[row[r].id], deposited[row[r].id])
    PROVE  ServiceInv'
<1>0. ServiceTypeOK /\ TypeOK /\ [Next]_chainVars /\ TypeOK'
  BY DEF ServiceInv, EscrowInv, TypeOK, chainVars
<1>1. ServiceTypeOK'
  BY <1>0 DEF ServiceTypeOK, RowType, DisputeType
<1>2. RowInv(r)'
  <2>1. CASE r \in lateBound
    BY <2>1 DEF RowInv
  <2>2. CASE r \notin lateBound
    <3>1. contractExists(row[r].id)
      BY <2>2, BackedRow
    <3>2. contractExists(row'[r].id) /\ UNCHANGED <<contractCounter, contracts, milestones, deposited>>
      BY <2>2, <3>1 DEF chainVars
    <3> QED BY <2>2, <3>2 DEF RowInv, contractExists
  <2> QED BY <2>1, <2>2
<1> QED BY <1>0, <1>1, <1>2, ServiceStep
-----------------------------------------------------------------------------
(* The operations.                                                         *)

LEMMA Words ==
    /\ Keep \notin RowStatus /\ Keep \notin MsStatus
    /\ {"pending_signatures", "pending_funding", "active", "completed", "cancelled", "disputed"}
          \subseteq RowStatus \ {"none"}
    /\ {"pending", "in_progress", "submitted", "approved"} \subseteq MsStatus
    /\ Role \intersect Operation = {} /\ MilestoneOperation \subseteq Operation
    /\ 0 \in Indices /\ 0 \notin Ids /\ Owner \in Address
  BY BoundAssumption, AddressAssumption
     DEF Keep, RowStatus, MsStatus, Role, Operation, MilestoneOperation, Indices, Ids

\* A write of the contract's row alone.
LEMMA StatusWrite ==
    ASSUME NEW x \in RowStatus \union {Keep}
    PROVE  /\ [NoWrite EXCEPT !.status = x] \in Write
           /\ [NoWrite EXCEPT !.status = x].status = x
           /\ \A j \in Indices : [NoWrite EXCEPT !.status = x].ms[j] = Keep
  BY DEF NoWrite, Write

LEMMA SetOr ==
    ASSUME NEW x \in RowStatus, NEW y
    PROVE  Set(x, y) \in {x, Keep} /\ Set(x, y) \in RowStatus \union {Keep}
  BY DEF Set

LEMMA WrittenOr ==
    ASSUME NEW x, NEW y
    PROVE  Written(x, y) = y \/ (Written(x, y) = x /\ x # Keep)
  BY DEF Written

\* Creating a contract for a row's deal.
LEMMA DealCall ==
    ASSUME ServiceInv, NEW r \in Row,
           CreateContract(Deal[r].client, Deal[r].freelancer, Deal[r].total, Deal[r].amounts)
    PROVE  Next /\ \E new \in Ids : new = contractCounter' /\ contractExists(new)'
<1>1. /\ Deal[r].client \in Party /\ Deal[r].freelancer \in Party
      /\ Deal[r].total \in Totals /\ Deal[r].amounts \in AmountLists
  BY DealAssumption DEF Party
<1>2. contractCounter \in Nat /\ contractCounter < MaxContracts /\ contractCounter' = contractCounter + 1
  BY BoundAssumption DEF ServiceInv, EscrowInv, TypeOK, CreateContract, CanCreate
<1>3. contractCounter' \in Ids
  BY <1>2, BoundAssumption DEF Ids
<1>4. PICK new \in Ids : new = contractCounter'
  BY <1>3
<1>5. contractExists(new)'
  BY <1>2, <1>4 DEF contractExists
<1> QED BY <1>1, <1>4, <1>5 DEF Next

LEMMA PostInv ==
    ASSUME ServiceInv, NEW r \in Row, PostContract(r)
    PROVE  ServiceInv'
<1>0. /\ ServiceTypeOK /\ TypeOK /\ UNCHANGED <<ms, dispute, req>> /\ lost \in 0 .. MaxLost
      /\ row[r].status = "none" /\ (\A i \in Indices : ms[r][i] = "pending")
      /\ dispute[r].status = "none" /\ lateBound \subseteq Row
  BY DEF ServiceInv, EscrowInv, ServiceTypeOK, PostContract, RowInv
<1>1. ASSUME NEW id \in Ids \union {0}, InsertRow(r, id), [Next]_chainVars, lost' \in 0 .. MaxLost,
             lateBound' \in {lateBound, lateBound \union {r}},
             r \in lateBound' \/ contractExists(id)'
      PROVE  ServiceInv'
  <2> DEFINE rw == [status |-> "pending_signatures", id |-> id, signed |-> {}]
  <2>1. rw \in [status : RowStatus, id : Ids \union {0}, signed : SUBSET Role]
    BY Words
  <2>2. row' = [row EXCEPT ![r] = rw] /\ rw.status = "pending_signatures" /\ rw.id = id
    BY <1>1 DEF InsertRow
  <2> HIDE DEF rw
  <2>3. row'[r] = rw /\ \A s \in Row \ {r} : row'[s] = row[s]
    BY <1>0, <2>2 DEF ServiceTypeOK
  <2>4. row' \in [Row -> [status : RowStatus, id : Ids \union {0}, signed : SUBSET Role]]
    BY <1>0, <2>1, <2>2 DEF ServiceTypeOK
  <2>5. TypeOK'
    BY <1>0, <1>1, StepType
  <2>6. lateBound \subseteq lateBound' /\ lateBound' \subseteq Row
    BY <1>0, <1>1
  <2>7. ServiceTypeOK'
    BY <1>0, <1>1, <2>4, <2>5, <2>6 DEF ServiceTypeOK
  <2>8. RowInv(r)'
    <3>1. \A e, cm, dep : Mirrors(rw, ms'[r], dispute'[r], e, cm, dep)
      BY <1>0, <2>2 DEF Mirrors
    <3> QED BY <1>1, <2>2, <2>3, <3>1 DEF RowInv
  <2> QED BY <1>0, <1>1, <2>3, <2>6, <2>7, <2>8, ServiceStep
<1>2. CASE CreateContract(Deal[r].client, Deal[r].freelancer, Deal[r].total, Deal[r].amounts)
  <2>1. Next
    BY <1>2, DealCall
  <2>2. PICK new \in Ids : new = contractCounter' /\ contractExists(new)'
    BY <1>2, DealCall
  <2>4. CASE InsertRow(r, contractCounter') /\ UNCHANGED <<lost, lateBound>>
    <3>1. InsertRow(r, new)
      BY <2>2, <2>4
    <3> QED BY <1>0, <1>1, <2>1, <2>2, <2>4, <3>1
  <2>5. CASE lost < MaxLost /\ lost' = lost + 1 /\ InsertRow(r, 0)
             /\ lateBound' = lateBound \union {r}
    <3>1. lost' \in 0 .. MaxLost
      BY <1>0, <2>5, ServiceAssumption
    <3> QED BY <1>1, <2>1, <2>5, <3>1
  <2>6. ~ UNCHANGED chainVars
    <3>1. contractCounter \in Nat /\ contractCounter' = contractCounter + 1
      BY <1>0, <1>2, BoundAssumption DEF TypeOK, CreateContract
    <3> QED BY <3>1 DEF chainVars
  <2> QED BY <2>4, <2>5, <2>6 DEF PostContract
<1>3. CASE InsertRow(r, 0) /\ lateBound' = lateBound \union {r} /\ UNCHANGED <<chainVars, lost>>
  BY <1>0, <1>1, <1>3
<1> QED BY <1>2, <1>3 DEF PostContract

LEMMA WalletInv ==
    ASSUME ServiceInv, WalletTransaction
    PROVE  ServiceInv'
<1>1. Next
  BY ServiceAssumption DEF WalletTransaction, Next
<1>2. /\ UNCHANGED <<row, ms, dispute, req, lost, lateBound>>
      /\ ServiceTypeOK /\ TypeOK
  BY DEF WalletTransaction, rowVars, ServiceInv, EscrowInv
<1>3. TypeOK'
  BY <1>1, <1>2, StepType
<1>4. ServiceTypeOK'
  BY <1>2, <1>3 DEF ServiceTypeOK
<1> QED BY <1>1, <1>2, <1>4, ServiceStep

\* A handler that ends.
LEMMA EndInv ==
    ASSUME ServiceInv, [Next]_chainVars, NEW q \in Request, Done(q),
           UNCHANGED <<rowVars, lateBound>>, lost' \in {lost, lost + 1}, lost' <= MaxLost
    PROVE  ServiceInv'
<1>1. lost \in 0 .. MaxLost /\ lateBound \subseteq Row
  BY DEF ServiceInv, ServiceTypeOK
<1>2. lost' \in 0 .. MaxLost
  BY <1>1, ServiceAssumption
<1> QED BY <1>1, <1>2, HandlerStep DEF Done
\* A handler that becomes g, with the rows as they are.
LEMMA MoveInv ==
    ASSUME ServiceInv, [Next]_chainVars, UNCHANGED rowVars, NEW q \in Request,
           NEW g \in Handler, req' = [req EXCEPT ![q] = g],
           lateBound \subseteq lateBound', lateBound' \subseteq Row, lost' \in 0 .. MaxLost,
           row[g.row].status # "none", WellFormed(g),
           \/ g.row \in lateBound'
           \/ /\ g.pc \notin {"create", "bind"} /\ g.id = row[g.row].id
              /\ CarriedOut(g, contracts'[g.id], milestones'[g.id], deposited'[g.id])
    PROVE  ServiceInv'
<1>1. ServiceTypeOK /\ UNCHANGED row
  BY DEF ServiceInv, rowVars
<1>2. req'[q] = g
  BY <1>1, RequestType
<1>3. HandlerInv(q)'
  BY <1>1, <1>2 DEF HandlerInv
<1> QED BY <1>3, HandlerStep

\* The fields of a handler after the changes the steps make.
LEMMA MovedTo ==
    ASSUME NEW h \in Handler,
           NEW pc \in {"sign", "check", "create", "bind", "chain", "decide", "commit"},
           NEW g, g = [h EXCEPT !.pc = pc]
    PROVE  /\ g \in Handler /\ g.pc = pc /\ g.op = h.op /\ g.row = h.row /\ g.index = h.index
           /\ g.release = h.release /\ g.id = h.id /\ g.write = h.write
  BY DEF Handler

LEMMA WriteStatus ==
    ASSUME NEW w \in Write, NEW x \in RowStatus \union {Keep},
           NEW v, v = [w EXCEPT !.status = x]
    PROVE  v \in Write /\ v.status = x /\ v.ms = w.ms
  BY DEF Write

\* What a handler of a row that is there starts with.
LEMMA StartInv ==
    ASSUME ServiceInv, NEW q \in Request, NEW op \in Operation \union Role, NEW r \in Row,
           NEW i \in Indices, NEW release \in BOOLEAN,
           NEW pc \in {"sign", "chain", "decide", "commit"}, NEW w \in Write,
           Start(q, op, r, i, release, pc, w), row[r].status # "none",
           UNCHANGED <<chainVars, rowVars, lost, lateBound>>,
           \A g : g.pc = pc /\ g.op = op /\ g.row = r /\ g.index = i /\ g.release = release
                  /\ g.id = row[r].id /\ g.write = w => WellFormed(g),
           pc = "commit" => op \notin {"approve", "resolve", "dispute", "fund"} \/ r \in lateBound,
           pc = "decide" => r \in lateBound
    PROVE  ServiceInv'
<1> DEFINE g == [pc |-> pc, op |-> op, row |-> r, index |-> i, release |-> release,
                 id |-> row[r].id, write |-> w]
<1>0. ServiceTypeOK /\ row[r].id \in Ids \union {0}
  BY DEF ServiceInv, ServiceTypeOK
<1>1. /\ g \in Handler /\ g.pc = pc /\ g.op = op /\ g.row = r /\ g.index = i /\ g.release = release
      /\ g.id = row[r].id /\ g.write = w /\ req' = [req EXCEPT ![q] = g]
  BY <1>0 DEF Start, Handler
<1> HIDE DEF g
<1>2. WellFormed(g)
  BY <1>1
<1>3. \A e, cm, dep : r \notin lateBound => CarriedOut(g, e, cm, dep)
  BY <1>1 DEF CarriedOut
<1>4. lateBound' \subseteq Row /\ lost' \in 0 .. MaxLost /\ [Next]_chainVars /\ UNCHANGED rowVars
  BY <1>0 DEF ServiceTypeOK
<1> QED BY <1>1, <1>2, <1>3, <1>4, MoveInv
-----------------------------------------------------------------------------
(* Signing.                                                                *)

LEMMA SignReadInv ==
    ASSUME ServiceInv, NEW q \in Request, NEW r \in Row, NEW who \in Role, SignRead(q, r, who)
    PROVE  ServiceInv'
<1>1. row[r].status # "none" /\ UNCHANGED <<chainVars, rowVars, lost, lateBound>>
  BY DEF SignRead
<1>2. PICK x \in {"pending_funding", Keep} :
          Start(q, who, r, 0, FALSE, "sign", [NoWrite EXCEPT !.status = x])
  BY DEF SignRead, Set
<1>3. x \in RowStatus \union {Keep} /\ x \notin {"none", "completed", "cancelled", "active"}
  BY <1>2, Words DEF Keep
<1>4. PICK w \in Write : /\ w = [NoWrite EXCEPT !.status = x] /\ w.status = x
                         /\ \A j \in Indices : w.ms[j] = Keep
  BY <1>3, StatusWrite
<1>5. ASSUME NEW g, g.pc = "sign", g.op = who, g.write = w PROVE WellFormed(g)
  BY <1>3, <1>4, <1>5, Words DEF WellFormed, Role, MilestoneOperation, Keep
<1>6. who \in Operation \union Role /\ 0 \in Indices /\ FALSE \in BOOLEAN
  BY Words
<1> QED BY <1>1, <1>2, <1>4, <1>5, <1>6, StartInv

LEMMA SignCommitInv ==
    ASSUME ServiceInv, NEW q \in Request, SignCommit(q)
    PROVE  ServiceInv'
<1>h. PICK h : h = req[q]
  OBVIOUS
<1>r. PICK r, rw : /\ r = h.row
                   /\ rw = [row[r] EXCEPT !.status = Written(h.write.status, @),
                                          !.signed = @ \union {h.op}]
  OBVIOUS
<1>0. /\ ServiceTypeOK /\ h.pc = "sign" /\ h.pc # "idle"
      /\ row' = [row EXCEPT ![r] = rw] /\ UNCHANGED <<chainVars, lost, lateBound>>
      /\ UNCHANGED <<chainVars, ms, dispute, lost, lateBound>>
      /\ \/ Done(q)
         \/ /\ rw.signed = Role
            /\ req' = [req EXCEPT ![q].pc = IF rw.id # 0 THEN "check" ELSE "create",
                                  ![q].id = rw.id,
                                  ![q].write.status = Set("pending_funding", rw.status)]
  BY <1>h, <1>r DEF SignCommit, ServiceInv
<1>1. /\ h \in Handler /\ r \in Row /\ h.write.status \in RowStatus \union {Keep}
      /\ row[r].status # "none" /\ WellFormed(h)
  BY <1>h, <1>r, <1>0, HandlerType DEF ServiceInv, HandlerInv
<1>2. /\ h.op \in Role /\ h.write.status \in {"pending_funding", Keep}
      /\ h.write.status \notin {"none", "completed", "cancelled", "active"}
  BY <1>0, <1>1 DEF WellFormed, Role, Keep
<1>3. PICK st : st = Written(h.write.status, row[r].status)
  OBVIOUS
<1>4. st = row[r].status \/ st \in RowStatus \ {"none", "completed", "cancelled", "active"}
  BY <1>1, <1>2, <1>3, WrittenOr
<1>5. row[r] \in RowType
  BY <1>1, RowTypes
<1>6. /\ rw \in RowType
      /\ rw.status = st /\ rw.id = row[r].id /\ rw.status # "none"
  BY <1>r, <1>1, <1>2, <1>3, <1>4, <1>5 DEF RowType
<1>7. /\ row' \in [Row -> RowType] /\ ms' \in [Row -> [Indices -> MsStatus]]
      /\ dispute' \in [Row -> DisputeType] /\ UNCHANGED <<ms, dispute>>
      /\ row'[r] = rw /\ \A s \in Row \ {r} : row'[s] = row[s]
  BY <1>0, <1>1, <1>6, RowTypes
<1>8. r \notin lateBound =>
          /\ row[r].id \in Ids
          /\ Mirrors(rw, ms[r], dispute[r], contracts[row[r].id], milestones[row[r].id],
                     deposited[row[r].id])
  <2>1. ASSUME r \notin lateBound
        PROVE  /\ row[r].id \in Ids
               /\ Mirrors(row[r], ms[r], dispute[r], contracts[row[r].id], milestones[row[r].id],
                          deposited[row[r].id])
    BY <1>1, <2>1, BackedRow
  <2> QED BY <1>4, <1>6, <2>1 DEF Mirrors
\* The handler ends, or goes on.
<1>9. ASSUME req' \in [Request -> Handler \union {Idle}], req'[q] = Idle \/ HandlerInv(q)',
             \A p \in Request \ {q} : req'[p] = req[p]
      PROVE  ServiceInv'
  BY <1>0, <1>1, <1>6, <1>7, <1>8, <1>9, WriteStep
<1>10. CASE Done(q)
  BY <1>0, <1>9, <1>10, RequestType DEF Done
<1>11. CASE ~Done(q)
  <2>p. PICK pc, id, x, v, g :
           /\ pc = (IF rw.id # 0 THEN "check" ELSE "create")
           /\ id = rw.id /\ x = Set("pending_funding", rw.status)
           /\ v = [h.write EXCEPT !.status = x]
           /\ g = [h EXCEPT !.pc = pc, !.id = id, !.write = v]
    OBVIOUS
  <2>1. /\ pc = (IF id # 0 THEN "check" ELSE "create") /\ id = rw.id
        /\ req' = [req EXCEPT ![q].pc = pc, ![q].id = id, ![q].write.status = x]
    BY <1>0, <1>11, <2>p
  <2>2. /\ x \in {"pending_funding", Keep} /\ x \in RowStatus \union {Keep}
        /\ pc \in {"check", "create"} /\ id \in Ids \union {0}
    <3>1. id \in Ids \union {0}
      BY <1>6, <2>1 DEF RowType
    <3>2. x \in {"pending_funding", Keep}
      BY <2>p DEF Set
    <3> QED BY <2>1, <3>1, <3>2, Words
  <2>v. v \in Write /\ v.status = x /\ v.ms = h.write.ms
    <3>1. h.write \in Write
      BY <1>1 DEF Handler
    <3> QED BY <2>2, <2>p, <3>1, WriteStatus
  <2>3. /\ g \in Handler /\ g.pc = pc /\ g.op = h.op /\ g.row = h.row /\ g.id = id
        /\ g.write = v
    BY <1>1, <2>2, <2>p, <2>v DEF Handler
  <2>4. /\ req' \in [Request -> Handler \union {Idle}] /\ req'[q] = g
        /\ \A p \in Request \ {q} : req'[p] = req[p]
    <3>1. req \in [Request -> Handler \union {Idle}]
      BY <1>0 DEF ServiceTypeOK
    <3> DEFINE a == [req EXCEPT ![q].pc = pc]
               b == [a EXCEPT ![q].id = id]
    <3>2. DOMAIN a = Request /\ a[q] = [h EXCEPT !.pc = pc] /\ \A p \in Request \ {q} : a[p] = req[p]
      BY <3>1, <1>h
    <3> HIDE DEF a
    <3>3. /\ DOMAIN b = Request /\ b[q] = [[h EXCEPT !.pc = pc] EXCEPT !.id = id]
          /\ \A p \in Request \ {q} : b[p] = req[p]
      BY <3>2
    <3>4. b[q].write = h.write
      BY <1>1, <3>3 DEF Handler
    <3>5. req' = [b EXCEPT ![q].write.status = x]
      BY <2>1 DEF a
    <3> HIDE DEF b
    <3>6. /\ DOMAIN req' = Request /\ req'[q] = [b[q] EXCEPT !.write = v]
          /\ \A p \in Request \ {q} : req'[p] = b[p]
      BY <2>p, <3>3, <3>4, <3>5
    <3>7. req'[q] = g
      BY <1>1, <2>p, <3>3, <3>6 DEF Handler
    <3>8. \A p \in Request : req'[p] \in Handler \union {Idle}
      BY <2>3, <3>1, <3>3, <3>6, <3>7
    <3>9. req' = [p \in Request |-> req'[p]]
      BY <3>3, <3>5
    <3>10. req' \in [Request -> Handler \union {Idle}]
      BY <3>8, <3>9
    <3> QED BY <3>3, <3>6, <3>7, <3>10
  <2>5. WellFormed(g)
    <3>1. x \notin {"none", "completed", "cancelled", "active"}
      BY <2>2 DEF Keep
    <3>2. \A j \in Indices : g.write.ms[j] # "approved"
      BY <1>1, <1>2, <2>v, <2>3 DEF WellFormed, Role
    <3> QED BY <1>2, <2>2, <2>v, <2>3, <3>1, <3>2 DEF WellFormed, Role, MilestoneOperation, Keep
  <2>7. r \notin lateBound => rw.id # 0 /\ pc = "check"
    BY <1>6, <1>8, <2>1, Words
  <2>8. \A e, cm, dep : CarriedOut(g, e, cm, dep)
    BY <2>2, <2>3 DEF CarriedOut
  <2>9. HandlerInv(q)'
    <3>1. req'[q] = g /\ g.row = r /\ g.id = id /\ g.pc = pc /\ row'[r] = rw
      BY <1>r, <1>7, <2>3, <2>4
    <3>2. lateBound' = lateBound
      BY <1>0
    <3>3. pc # "sign"
      BY <2>1
    <3>4. pc \in {"create", "bind"} => r \in lateBound
      BY <2>7
    <3> QED BY <1>6, <1>1, <2>1, <2>5, <2>7, <2>8, <3>1, <3>2, <3>3, <3>4 DEF HandlerInv
  <2> QED BY <1>9, <2>4, <2>9
<1> QED BY <1>10, <1>11

\* What a handler of a row holds at any place.
LEMMA AtPlace ==
    ASSUME ServiceInv, NEW q \in Request, req[q].pc # "idle"
    PROVE  /\ req[q] \in Handler /\ req[q].row \in Row /\ row[req[q].row].status # "none"
           /\ WellFormed(req[q])
           /\ req[q].pc \in {"create", "bind"} => req[q].row \in lateBound
           /\ req[q].row \notin lateBound =>
                 /\ req[q].id = row[req[q].row].id
                 /\ req[q].id \in Ids /\ contractExists(req[q].id)
                 /\ CarriedOut(req[q], contracts[req[q].id], milestones[req[q].id],
                               deposited[req[q].id])
<1>1. ServiceTypeOK /\ HandlerInv(q)
  BY DEF ServiceInv
<1>2. req[q] \in Handler /\ req[q].row \in Row /\ row[req[q].row].status # "none"
  BY <1>1, HandlerType DEF HandlerInv
<1> QED BY <1>1, <1>2, BackedRow DEF HandlerInv

LEMMA SignCheckInv ==
    ASSUME ServiceInv, NEW q \in Request, SignCheck(q)
    PROVE  ServiceInv'
<1>1. /\ req[q].pc = "check" /\ UNCHANGED <<chainVars, rowVars, lost>> /\ UNCHANGED chainVars
      /\ UNCHANGED rowVars /\ lateBound \subseteq Row /\ lost \in 0 .. MaxLost
  BY DEF SignCheck, ServiceInv, ServiceTypeOK
<1>2. CASE Done(q) /\ UNCHANGED lateBound
  BY <1>1, <1>2, EndInv
<1>3. CASE GoTo(q, "create") /\ lateBound' = lateBound \union {req[q].row}
  <2>1. PICK h, g : h = req[q] /\ g = [h EXCEPT !.pc = "create"]
    OBVIOUS
  <2>2. h \in Handler /\ h.row \in Row /\ row[h.row].status # "none" /\ WellFormed(h) /\ h.pc = "check"
    BY <1>1, <2>1, AtPlace
  <2>3. g \in Handler /\ g.pc = "create" /\ g.op = h.op /\ g.row = h.row /\ g.write = h.write
    BY <2>1, <2>2, MovedTo
  <2>4. WellFormed(g)
    BY <2>2, <2>3 DEF WellFormed, Role, MilestoneOperation
  <2>5. req' = [req EXCEPT ![q] = g] /\ lateBound' = lateBound \union {h.row}
    BY <1>3, <2>1 DEF GoTo
  <2> QED BY <1>1, <2>2, <2>3, <2>4, <2>5, MoveInv
<1> QED BY <1>2, <1>3 DEF SignCheck

LEMMA SignCreateInv ==
    ASSUME ServiceInv, NEW q \in Request, SignCreate(q)
    PROVE  ServiceInv'
<1>h. PICK h, r : h = req[q] /\ r = h.row
  OBVIOUS
<1>1. /\ h.pc = "create" /\ UNCHANGED <<rowVars, lateBound>> /\ UNCHANGED rowVars
      /\ lateBound \subseteq Row /\ lost \in 0 .. MaxLost
  BY <1>h DEF SignCreate, ServiceInv, ServiceTypeOK
<1>2. h \in Handler /\ r \in Row /\ row[r].status # "none" /\ WellFormed(h) /\ r \in lateBound
  BY <1>h, <1>1, AtPlace
<1>3. ASSUME NEW id \in Ids \union {0}, req' = [req EXCEPT ![q].pc = "bind", ![q].index = id],
             [Next]_chainVars, lost' \in 0 .. MaxLost
      PROVE  ServiceInv'
  <2>1. PICK g : g = [h EXCEPT !.pc = "bind", !.index = id]
    OBVIOUS
  <2>2. /\ g \in Handler /\ g.pc = "bind" /\ g.op = h.op /\ g.row = h.row /\ g.index = id
        /\ g.write = h.write
    BY <1>2, <2>1 DEF Handler
  <2>3. WellFormed(g)
    BY <1>1, <1>2, <2>2 DEF WellFormed, Role, MilestoneOperation
  <2>4. req' = [req EXCEPT ![q] = g]
    BY <1>h, <1>3, <2>1 DEF ServiceInv, ServiceTypeOK
  <2> QED BY <1>h, <1>1, <1>2, <1>3, <2>2, <2>3, <2>4, MoveInv
<1>4. CASE CreateContract(Deal[r].client, Deal[r].freelancer, Deal[r].total, Deal[r].amounts)
  <2>1. Next
    BY <1>2, <1>4, DealCall
  <2>2. PICK new \in Ids : new = contractCounter'
    BY <1>2, <1>4, DealCall
  <2>3. CASE req' = [req EXCEPT ![q].pc = "bind", ![q].index = contractCounter'] /\ UNCHANGED lost
    <3>1. req' = [req EXCEPT ![q].pc = "bind", ![q].index = new]
      BY <2>2, <2>3
    <3> QED BY <1>1, <1>3, <2>1, <2>3, <3>1
  <2>4. CASE req' = [req EXCEPT ![q].pc = "bind", ![q].index = 0]
             /\ (UNCHANGED lost \/ (lost < MaxLost /\ lost' = lost + 1))
    <3>1. lost' \in 0 .. MaxLost
      BY <1>1, <2>4, ServiceAssumption
    <3> QED BY <1>3, <2>1, <2>4, <3>1
  <2> QED BY <1>h, <2>3, <2>4 DEF SignCreate
<1>5. CASE req' = [req EXCEPT ![q].pc = "bind", ![q].index = 0] /\ UNCHANGED <<chainVars, lost>>
  BY <1>1, <1>3, <1>5
<1>6. CASE /\ req' = [req EXCEPT ![q].pc = "bind", ![q].index = 0, ![q].write = NoWrite]
           /\ UNCHANGED <<chainVars, lost>>
  <2>1. PICK g : g = [h EXCEPT !.pc = "bind", !.index = 0, !.write = NoWrite]
    OBVIOUS
  <2>2. NoWrite \in Write /\ NoWrite.status = Keep /\ \A j \in Indices : NoWrite.ms[j] = Keep
    BY DEF NoWrite, Write
  <2>3. /\ g \in Handler /\ g.pc = "bind" /\ g.op = h.op /\ g.row = h.row /\ g.index = 0
        /\ g.write = NoWrite
    BY <1>2, <2>1, <2>2 DEF Handler
  <2>4. WellFormed(g)
    BY <1>1, <1>2, <2>2, <2>3 DEF WellFormed, Role, MilestoneOperation, Keep
  <2>5. req' = [req EXCEPT ![q] = g]
    BY <1>h, <1>6, <2>1 DEF ServiceInv, ServiceTypeOK
  <2>6. lost' \in 0 .. MaxLost /\ [Next]_chainVars
    BY <1>1, <1>6
  <2> QED BY <1>h, <1>1, <1>2, <2>3, <2>4, <2>5, <2>6, MoveInv
<1> QED BY <1>h, <1>4, <1>5, <1>6 DEF SignCreate

LEMMA SignBindInv ==
    ASSUME ServiceInv, NEW q \in Request, SignBind(q)
    PROVE  ServiceInv'
<1>h. PICK h, r, rw :
         /\ h = req[q] /\ r = h.row
         /\ rw = [row[r] EXCEPT !.id = IF h.index = h.id THEN @ ELSE h.index,
                               !.status = Written(h.write.status, @)]
  OBVIOUS
<1>1. /\ h.pc = "bind" /\ UNCHANGED <<chainVars, lost, lateBound>> /\ UNCHANGED <<ms, dispute>>
      /\ row' = [row EXCEPT ![r].id = IF h.index = h.id THEN @ ELSE h.index,
                            ![r].status = Written(h.write.status, @)]
      /\ req' = [req EXCEPT ![q] = Idle]
  BY <1>h DEF SignBind, Done
<1>2. h \in Handler /\ r \in Row /\ row[r].status # "none" /\ WellFormed(h) /\ r \in lateBound
  BY <1>h, <1>1, AtPlace
<1>3. row[r] \in RowType /\ row \in [Row -> RowType]
  BY <1>2, RowTypes
<1>4. row' = [row EXCEPT ![r] = rw]
  BY <1>h, <1>1, <1>3 DEF RowType
<1>5. PICK st, id : /\ st = Written(h.write.status, row[r].status)
                    /\ id = IF h.index = h.id THEN row[r].id ELSE h.index
  OBVIOUS
<1>6. st \in RowStatus \ {"none"} /\ id \in Ids \union {0}
  <2>1. h.write.status \in RowStatus \union {Keep} /\ h.write.status # "none"
    BY <1>2 DEF Handler, Write, WellFormed, Keep
  <2>2. h.index \in Ids \union {0}
    BY <1>1, <1>2 DEF WellFormed
  <2> QED BY <1>2, <1>3, <1>5, <2>1, <2>2, WrittenOr DEF RowType
<1>7. rw \in RowType /\ rw.status # "none"
  BY <1>h, <1>3, <1>5, <1>6 DEF RowType
<1>8. /\ row' \in [Row -> RowType] /\ ms' \in [Row -> [Indices -> MsStatus]]
      /\ dispute' \in [Row -> DisputeType]
      /\ row'[r] = rw /\ \A s \in Row \ {r} : row'[s] = row[s]
  BY <1>1, <1>2, <1>3, <1>4, <1>7, RowTypes
<1>9. /\ req' \in [Request -> Handler \union {Idle}] /\ req'[q] = Idle
      /\ \A p \in Request \ {q} : req'[p] = req[p]
  BY <1>1, RequestType DEF ServiceInv
<1> QED BY <1>1, <1>2, <1>7, <1>8, <1>9, WriteStep
-----------------------------------------------------------------------------
(* The endpoints that read, send and write.                                *)

\* The UPDATEs an operation starts with are its own.
LEMMA GoalWrites ==
    ASSUME NEW op \in Operation, NEW r \in Row, NEW i \in Indices, NEW release \in BOOLEAN,
           NEW w, w = Goal(op, r, i, release)
    PROVE  /\ w \in Write
           /\ w.status \in {Keep, "active", "completed", "cancelled", "disputed"}
           /\ w.status = "disputed" => op = "dispute"
           /\ \A j \in Indices : w.ms[j] = "approved" => op = "approve" /\ j = i
           /\ w.status = "completed" => op = "approve" \/ (op = "resolve" /\ release)
           /\ w.status = "cancelled" => op = "resolve" /\ ~release
           /\ w.status = "active" => op = "fund"
<1>1. PICK its : its = [NoWrite EXCEPT !.ms[i] = MilestoneGoal[op]]
  OBVIOUS
<1>2. CASE op \in MilestoneOperation
  <2>1. /\ MilestoneGoal[op] \in {"submitted", "approved", "in_progress"}
        /\ MilestoneGoal[op] = "approved" => op = "approve"
    BY <1>2 DEF MilestoneGoal, MilestoneOperation
  <2>2. MilestoneGoal[op] \in MsStatus
    BY <2>1, Words
  <2>3. /\ its \in Write /\ its.status = Keep /\ its.ms[i] = MilestoneGoal[op]
        /\ \A j \in Indices \ {i} : its.ms[j] = Keep
    BY <1>1, <2>2 DEF NoWrite, Write
  <2>4. \A j \in Indices : its.ms[j] = "approved" => op = "approve" /\ j = i
    BY <2>1, <2>3 DEF Keep
  <2>5. CASE op # "approve"
    BY <1>1, <1>2, <2>3, <2>4, <2>5 DEF Goal, Keep
  <2>6. CASE op = "approve"
    <3>1. PICK x, v : x = Set("completed", row[r].status) /\ v = [NoWrite EXCEPT !.status = x]
      OBVIOUS
    <3>2. x \in {"completed", Keep} /\ x \in RowStatus \union {Keep}
      BY <3>1, Words DEF Set
    <3>3. v \in Write /\ v.status = x
      BY <3>1, <3>2, StatusWrite
    <3>4. w = [v EXCEPT !.ms = its.ms]
      BY <1>1, <2>6, <3>1 DEF Goal
    <3>5. w \in Write /\ w.status = x /\ w.ms = its.ms
      BY <2>3, <3>3, <3>4 DEF Write
    <3> QED BY <2>4, <2>6, <3>2, <3>5 DEF Keep
  <2> QED BY <2>5, <2>6
<1>3. CASE op \in {"dispute", "resolve"}
  <2>1. PICK st, x : /\ st = (IF op = "dispute" THEN "disputed"
                             ELSE IF release THEN "completed" ELSE "cancelled")
                     /\ x = Set(st, row[r].status)
    OBVIOUS
  <2>2. x \in {st, Keep} /\ st \in RowStatus
    BY <1>3, <2>1, Words DEF Set
  <2>3. w = [NoWrite EXCEPT !.status = x]
    BY <1>3, <2>1 DEF Goal, MilestoneOperation
  <2>4. w \in Write /\ w.status = x /\ \A j \in Indices : w.ms[j] = Keep
    BY <2>2, <2>3, StatusWrite
  <2> QED BY <1>3, <2>1, <2>2, <2>4 DEF Keep
<1>4. CASE op = "fund"
  <2>1. PICK x, v : x = Set("active", row[r].status) /\ v = [NoWrite EXCEPT !.status = x]
    OBVIOUS
  <2>2. x \in {"active", Keep} /\ x \in RowStatus \union {Keep}
    BY <2>1, Words DEF Set
  <2>3. v \in Write /\ v.status = x
    BY <2>1, <2>2, StatusWrite
  <2>4. PICK m : m = [j \in Indices |-> Set("in_progress", ms[r][j])]
    OBVIOUS
  <2>5. m \in [Indices -> MsStatus \union {Keep}] /\ \A j \in Indices : m[j] # "approved"
    BY <2>4, Words DEF Set, Keep
  <2>6. w = [v EXCEPT !.ms = m]
    BY <1>4, <2>1, <2>4 DEF Goal, MilestoneOperation
  <2>7. w \in Write /\ w.status = x /\ w.ms = m
    BY <2>3, <2>5, <2>6 DEF Write
  <2> QED BY <1>4, <2>2, <2>5, <2>7 DEF Keep
<1> QED BY <1>2, <1>3, <1>4 DEF Operation

LEMMA BeginInv ==
    ASSUME ServiceInv, NEW q \in Request, NEW op \in Operation, NEW r \in Row, NEW i \in Indices,
           NEW release \in BOOLEAN, Begin(q, op, r, i, release)
    PROVE  ServiceInv'
<1>1. PICK pc, w : /\ pc = (IF Sends(op, r) THEN "chain" ELSE AfterTransaction(op))
                   /\ w = Goal(op, r, i, release)
  OBVIOUS
<1>2. /\ Start(q, op, r, i, release, pc, w) /\ row[r].status # "none"
      /\ UNCHANGED <<chainVars, rowVars, lost, lateBound>>
      /\ op = "fund" => row[r].id # 0
  BY <1>1 DEF Begin, CanBegin, MilestoneOperation
<1>3. /\ pc \in {"chain", "decide", "commit"}
      /\ pc = "chain" => row[r].id # 0
      /\ pc = "decide" => op = "approve"
      /\ pc # "chain" => row[r].id = 0 \/ op = "submitNote"
  BY <1>1 DEF Sends, AfterTransaction
<1>4. /\ w \in Write
      /\ w.status \in {Keep, "active", "completed", "cancelled", "disputed"}
      /\ w.status = "disputed" => op = "dispute"
      /\ \A j \in Indices : w.ms[j] = "approved" => op = "approve" /\ j = i
      /\ w.status = "completed" => op = "approve" \/ (op = "resolve" /\ release)
      /\ w.status = "cancelled" => op = "resolve" /\ ~release
      /\ w.status = "active" => op = "fund"
  BY <1>1, GoalWrites
<1>5. \A g : g.pc = pc /\ g.op = op /\ g.row = r /\ g.index = i /\ g.release = release
             /\ g.id = row[r].id /\ g.write = w => WellFormed(g)
  <2>1. op \notin Role
    BY Words
  <2> QED BY <1>3, <1>4, <2>1 DEF WellFormed
<1>6. r \notin lateBound => row[r].id # 0
  BY <1>2, BackedRow, Words
<1>7. /\ pc = "commit" => op \notin {"approve", "resolve", "dispute", "fund"} \/ r \in lateBound
      /\ pc = "decide" => r \in lateBound
  BY <1>3, <1>6
<1> QED BY <1>2, <1>3, <1>4, <1>5, <1>7, StartInv

\* A transaction of the backend is one of the chain's, and does what it is sent for.
LEMMA TransactionDone ==
    ASSUME ServiceInv, NEW c \in Ids, NEW op \in Operation, NEW i,
           op \in MilestoneOperation => i \in Indices, NEW release \in BOOLEAN,
           Transaction(op, c, i, release)
    PROVE  /\ Call(Owner, c) /\ Next /\ op \notin {"submitNote", "fund"}
           /\ op = "approve" => milestones'[c][i].status = "Approved"
           /\ op = "dispute" => contracts'[c].status = "Disputed"
           /\ op = "resolve" => contracts'[c].status = Decided(release)
<1>0. /\ contracts \in [Ids -> EscrowContract] /\ milestones \in [Ids -> [Indices -> Milestone]]
      /\ Owner \in Address
  BY Words DEF ServiceInv, EscrowInv, TypeOK
<1>1. Call(Owner, c) => Next
  BY <1>0 DEF Next
<1>2. CASE op = "submit"
  BY <1>1, <1>2 DEF Transaction, Call, MilestoneOperation
<1>3. CASE op = "approve"
  <2>1. i \in Indices /\ ApproveMilestone(Owner, c, i)
    BY <1>3 DEF Transaction, MilestoneOperation
  <2>2. milestones'[c][i].status = "Approved"
    BY <1>0, <2>1 DEF ApproveMilestone, Milestone
  <2> QED BY <1>1, <1>3, <2>1, <2>2 DEF Call
<1>4. CASE op = "reject"
  BY <1>1, <1>4 DEF Transaction, Call, MilestoneOperation
<1>5. CASE op = "dispute"
  <2>1. RaiseDispute(Owner, c)
    BY <1>5 DEF Transaction
  <2>2. contracts'[c].status = "Disputed"
    BY <1>0, <2>1 DEF RaiseDispute, EscrowContract
  <2> QED BY <1>1, <1>5, <2>1, <2>2 DEF Call
<1>6. CASE op = "resolve"
  <2>1. ResolveDispute(Owner, c, release)
    BY <1>6 DEF Transaction
  <2>2. contracts'[c].status = Decided(release)
    BY <1>0, <2>1 DEF ResolveDispute, EscrowContract, Decided
  <2> QED BY <1>1, <1>6, <2>1, <2>2 DEF Call
<1> QED BY <1>2, <1>3, <1>4, <1>5, <1>6 DEF Transaction

\* A contract in progress has its deposit.
LEMMA FundedDeposited ==
    ASSUME ServiceInv, NEW c \in Ids, Funded(c)
    PROVE  deposited[c] = contracts[c].totalAmount
<1>1. contracts[c].status = "InProgress" /\ Agree(contracts[c], milestones[c])
      /\ Books(contracts[c], milestones[c], deposited[c], paid[c]) /\ Entry(c)
  BY DEF Funded, ServiceInv, EscrowInv, MoneyInv, Entry
<1>2. 0 < contracts[c].milestoneCount /\ 0 \in Indices
  BY <1>1, Words DEF Entry, NoEscrow
<1>3. milestones[c][0].status # "Pending"
  BY <1>1, <1>2 DEF Agree
<1> QED BY <1>1, <1>3 DEF Books

\* The handler goes on when its transaction has taken effect, or its contract is funded.
LEMMA SendInv ==
    ASSUME ServiceInv, NEW q \in Request, Send(q)
    PROVE  ServiceInv'
<1>h. PICK h, pc, g : h = req[q] /\ pc = AfterTransaction(h.op) /\ g = [h EXCEPT !.pc = pc]
  OBVIOUS
<1>1. /\ h.pc = "chain" /\ UNCHANGED lateBound /\ UNCHANGED rowVars /\ UNCHANGED row
      /\ \/ h.op = "fund" /\ Funded(h.id) /\ UNCHANGED chainVars
         \/ Transaction(h.op, h.id, h.index, h.release)
      /\ req' = [req EXCEPT ![q] = g]
      /\ lateBound' \subseteq Row /\ lost' \in 0 .. MaxLost
  BY <1>h DEF Send, GoTo, rowVars, ServiceInv, ServiceTypeOK
<1>2. /\ h \in Handler /\ h.row \in Row /\ row[h.row].status # "none" /\ WellFormed(h)
      /\ h.row \notin lateBound => h.id = row[h.row].id
  BY <1>h, <1>1, AtPlace
<1>3. PICK c \in Ids : c = h.id
  BY <1>1, <1>2 DEF WellFormed, Handler
<1>4. /\ h.op \in Operation \ Role /\ h.release \in BOOLEAN
      /\ h.op \in MilestoneOperation => h.index \in Indices
  BY <1>1, <1>2, Words DEF WellFormed, Handler
<1>5. /\ pc \in {"decide", "commit"} /\ (pc = "decide" <=> h.op = "approve")
  BY <1>h DEF AfterTransaction
<1>6. /\ g \in Handler /\ g.pc = pc /\ g.op = h.op /\ g.row = h.row /\ g.index = h.index
      /\ g.release = h.release /\ g.id = h.id /\ g.write = h.write
  BY <1>h, <1>2, <1>5, MovedTo
<1>7. WellFormed(g)
  BY <1>2, <1>4, <1>5, <1>6 DEF WellFormed
<1>8. [Next]_chainVars /\ CarriedOut(g, contracts'[c], milestones'[c], deposited'[c])
  <2>1. CASE h.op = "fund" /\ Funded(c) /\ UNCHANGED chainVars
    <3>1. deposited[c] = contracts[c].totalAmount
      BY <2>1, FundedDeposited
    <3>2. UNCHANGED <<contracts, milestones, deposited>>
      BY <2>1 DEF chainVars
    <3> QED BY <1>6, <2>1, <3>1, <3>2 DEF CarriedOut
  <2>2. CASE Transaction(h.op, c, h.index, h.release)
    <3>1. /\ Next /\ h.op # "fund"
          /\ h.op = "approve" => milestones'[c][h.index].status = "Approved"
          /\ h.op = "dispute" => contracts'[c].status = "Disputed"
          /\ h.op = "resolve" => contracts'[c].status = Decided(h.release)
      BY <1>4, <2>2, TransactionDone
    <3> QED BY <1>5, <1>6, <3>1 DEF CarriedOut, Stopped
  <2> QED BY <1>1, <1>3, <2>1, <2>2
<1>9. g.row \in lateBound' \/
         /\ g.pc \notin {"create", "bind"} /\ g.id = row[g.row].id
         /\ CarriedOut(g, contracts'[g.id], milestones'[g.id], deposited'[g.id])
  BY <1>1, <1>2, <1>3, <1>5, <1>6, <1>8
<1> QED BY <1>1, <1>2, <1>6, <1>7, <1>8, <1>9, MoveInv

\* The transaction took effect and its answer was lost.
LEMMA SendLostInv ==
    ASSUME ServiceInv, NEW q \in Request, SendLost(q)
    PROVE  ServiceInv'
<1>h. PICK h : h = req[q]
  OBVIOUS
<1>1. /\ h.pc = "chain" /\ UNCHANGED <<rowVars, lateBound>> /\ Done(q)
      /\ lost' = lost + 1 /\ lost < MaxLost /\ lost \in 0 .. MaxLost
      /\ Transaction(h.op, h.id, h.index, h.release)
  BY <1>h DEF SendLost, ServiceInv, ServiceTypeOK
<1>2. h \in Handler /\ WellFormed(h)
  BY <1>h, <1>1, AtPlace
<1>3. PICK c \in Ids : c = h.id
  BY <1>1, <1>2 DEF WellFormed, Handler
<1>4. /\ h.op \in Operation /\ h.release \in BOOLEAN
      /\ h.op \in MilestoneOperation => h.index \in Indices
  BY <1>1, <1>2, Words DEF WellFormed, Handler
<1>5. Next
  BY <1>1, <1>3, <1>4, TransactionDone
<1>6. lost' <= MaxLost
  BY <1>1, ServiceAssumption
<1> QED BY <1>1, <1>5, <1>6, EndInv

\* A handler that gives up, or dies.
LEMMA StopInv ==
    ASSUME ServiceInv, NEW q \in Request, SendRefused(q) \/ Fail(q)
    PROVE  ServiceInv'
<1>1. /\ UNCHANGED chainVars /\ UNCHANGED <<rowVars, lateBound>> /\ Done(q)
      /\ lost' = lost /\ lost \in 0 .. MaxLost
  BY DEF SendRefused, Fail, ServiceInv, ServiceTypeOK
<1>2. lost' <= MaxLost
  BY <1>1, ServiceAssumption
<1> QED BY <1>1, <1>2, EndInv

\* The last approval completes a row only if its contract has been completed.
LEMMA DecideInv ==
    ASSUME ServiceInv, NEW q \in Request, Decide(q)
    PROVE  ServiceInv'
<1>h. PICK h, r, x, w, g :
         /\ h = req[q] /\ r = h.row
         /\ x = (IF AllApproved(r, h.index) THEN h.write.status ELSE Keep)
         /\ w = [h.write EXCEPT !.status = x]
         /\ g = [h EXCEPT !.pc = "commit", !.write = w]
  OBVIOUS
<1>1. /\ h.pc = "decide" /\ UNCHANGED <<chainVars, lateBound>> /\ UNCHANGED rowVars
      /\ req' = [req EXCEPT ![q].pc = "commit", ![q].write = w]
      /\ lateBound \subseteq Row /\ lost' \in 0 .. MaxLost
      /\ EscrowInv /\ MoneyInv /\ req \in [Request -> Handler \union {Idle}]
  BY <1>h DEF Decide, ServiceInv, ServiceTypeOK
<1>2. /\ h \in Handler /\ r \in Row /\ row[r].status # "none" /\ WellFormed(h)
      /\ r \notin lateBound =>
            /\ h.id = row[r].id /\ h.id \in Ids
            /\ CarriedOut(h, contracts[h.id], milestones[h.id], deposited[h.id])
            /\ Mirrors(row[r], ms[r], dispute[r], contracts[h.id], milestones[h.id],
                       deposited[h.id])
  BY <1>h, <1>1, AtPlace, BackedRow
<1>3. /\ h.op = "approve" /\ h.index \in Indices /\ h.write \in Write
      /\ x \in {h.write.status, Keep} /\ x \in RowStatus \union {Keep}
  BY <1>h, <1>1, <1>2 DEF WellFormed, MilestoneOperation, Handler, Write
<1>4. w \in Write /\ w.status = x /\ w.ms = h.write.ms
  BY <1>h, <1>3, WriteStatus
<1>5. /\ g \in Handler /\ g.pc = "commit" /\ g.op = h.op /\ g.row = h.row
      /\ g.index = h.index /\ g.release = h.release /\ g.id = h.id /\ g.write = w
  BY <1>h, <1>2, <1>4 DEF Handler
<1>6. WellFormed(g)
  BY <1>1, <1>2, <1>3, <1>4, <1>5 DEF WellFormed, Keep
<1>7. req' = [req EXCEPT ![q] = g]
  BY <1>h, <1>1
<1>8. ASSUME r \notin lateBound
      PROVE  CarriedOut(g, contracts[h.id], milestones[h.id], deposited[h.id])
  <2>1. PICK c \in Ids : c = h.id
    BY <1>2, <1>8
  <2>2. /\ contracts[c] \in EscrowContract /\ milestones[c] \in [Indices -> Milestone]
        /\ Agree(contracts[c], milestones[c]) /\ contracts[c].milestoneCount <= MaxMilestones
    BY <1>1 DEF EscrowInv, TypeOK, Entry, MoneyInv, Books
  <2>3. milestones[c][h.index].status = "Approved"
    BY <1>1, <1>2, <1>3, <1>8, <2>1 DEF CarriedOut
  <2>4. ASSUME x = "completed" PROVE contracts[c].status = "Completed"
    <3>1. \A j \in Indices \ {h.index} : ms[r][j] = "approved"
      BY <1>h, <2>4 DEF AllApproved, Keep
    <3>2. \A j \in Indices : milestones[c][j].status = "Approved"
      BY <1>2, <1>8, <2>1, <2>3, <3>1 DEF Mirrors
    <3> QED BY <2>2, <3>2, AllApprovedCompleted
  <2> QED BY <1>3, <1>4, <1>5, <2>1, <2>3, <2>4 DEF CarriedOut
<1>9. g.row \in lateBound' \/
         /\ g.pc \notin {"create", "bind"} /\ g.id = row[g.row].id
         /\ CarriedOut(g, contracts'[g.id], milestones'[g.id], deposited'[g.id])
  BY <1>h, <1>1, <1>2, <1>5, <1>8 DEF chainVars
<1>10. [Next]_chainVars /\ lateBound \subseteq lateBound' /\ lateBound' \subseteq Row
  BY <1>1
<1>11. row[g.row].status # "none"
  BY <1>h, <1>2, <1>5
<1> QED BY <1>1, <1>5, <1>6, <1>7, <1>9, <1>10, <1>11, MoveInv

\* The writes of a handler whose operation was carried out leave a row that claims no
\* more than its contract shows.
LEMMA CommitMirrors ==
    ASSUME NEW h, WellFormed(h), h.pc = "commit", NEW e, NEW cm, NEW dep, CarriedOut(h, e, cm, dep),
           NEW rw, NEW m, NEW d, Mirrors(rw, m, d, e, cm, dep),
           NEW rw2, rw2.status = Written(h.write.status, rw.status),
           NEW m2, \A i \in Indices : m2[i] = Written(h.write.ms[i], m[i]),
           NEW d2, \/ h.op = "dispute" /\ d2.status = "open"
                   \/ h.op = "resolve" /\ d2.status = "resolved"
                   \/ h.op \notin {"dispute", "resolve"} /\ d2 = d
    PROVE  Mirrors(rw2, m2, d2, e, cm, dep)
<1>1. \A i \in Indices : m2[i] = "approved" => cm[i].status = "Approved"
  <2>1. ASSUME NEW i \in Indices, m2[i] = "approved", m[i] # "approved"
        PROVE  cm[i].status = "Approved"
    <3>1. h.write.ms[i] = "approved"
      BY <2>1, WrittenOr
    <3> QED BY <3>1 DEF WellFormed, CarriedOut
  <2> QED BY <2>1 DEF Mirrors
<1>2. rw2.status = rw.status \/ rw2.status = h.write.status
  BY WrittenOr
<1>3. rw2.status = "completed" => e.status = "Completed"
  BY <1>2 DEF Mirrors, WellFormed, CarriedOut, Decided
<1>4. rw2.status = "cancelled" => e.status = "Cancelled"
  BY <1>2 DEF Mirrors, WellFormed, CarriedOut, Decided
<1>5. rw2.status = "active" => dep = e.totalAmount
  BY <1>2 DEF Mirrors, WellFormed, CarriedOut
<1>6. d2.status = "open" => e.status \in Stopped
  BY DEF Mirrors, CarriedOut
<1> QED BY <1>1, <1>3, <1>4, <1>5, <1>6 DEF Mirrors

LEMMA CommitInv ==
    ASSUME ServiceInv, NEW q \in Request, Commit(q)
    PROVE  ServiceInv'
<1>h. PICK h, r : h = req[q] /\ r = h.row
  OBVIOUS
<1>1. /\ h.pc = "commit" /\ UNCHANGED <<chainVars, lost, lateBound>> /\ Done(q)
      /\ UNCHANGED lateBound /\ lost' = lost /\ lost \in 0 .. MaxLost /\ UNCHANGED chainVars
      /\ ServiceTypeOK
  BY <1>h DEF Commit, ServiceInv, ServiceTypeOK
<1>2. /\ h \in Handler /\ r \in Row /\ row[r].status # "none" /\ WellFormed(h)
      /\ r \notin lateBound =>
            /\ h.id = row[r].id /\ h.id \in Ids
            /\ CarriedOut(h, contracts[h.id], milestones[h.id], deposited[h.id])
            /\ Mirrors(row[r], ms[r], dispute[r], contracts[h.id], milestones[h.id],
                       deposited[h.id])
  BY <1>h, <1>1, AtPlace, BackedRow
<1>3. CASE UNCHANGED rowVars
  <2>1. lost' <= MaxLost /\ UNCHANGED <<rowVars, lateBound>>
    BY <1>1, <1>3, ServiceAssumption
  <2> QED BY <1>1, <2>1, EndInv
<1>4. CASE ~ UNCHANGED rowVars
  <2>p. PICK st, rw, m, d :
           /\ st = Written(h.write.status, row[r].status)
           /\ rw = [row[r] EXCEPT !.status = st]
           /\ m = [i \in Indices |-> Written(h.write.ms[i], ms[r][i])]
           /\ d = (IF h.op = "dispute" THEN [status |-> "open", decision |-> "none"]
                   ELSE IF h.op = "resolve"
                   THEN [status |-> "resolved",
                         decision |-> IF h.release THEN "release" ELSE "refund"]
                   ELSE dispute[r])
    OBVIOUS
  <2>0. /\ row \in [Row -> RowType] /\ ms \in [Row -> [Indices -> MsStatus]]
        /\ dispute \in [Row -> DisputeType]
    BY RowTypes
  <2>1. /\ row' = [row EXCEPT ![r].status = st]
        /\ ms' = [ms EXCEPT ![r] = m]
        /\ dispute' = [dispute EXCEPT ![r] = d]
    BY <1>h, <1>2, <1>4, <2>p, <2>0 DEF Commit
  <2>2. row' = [row EXCEPT ![r] = rw]
    BY <2>p, <2>1
  <2>3. st \in RowStatus \ {"none"}
    <3>1. h.write.status \in RowStatus \union {Keep} /\ h.write.status # "none"
      BY <1>2 DEF Handler, Write, WellFormed, Keep
    <3> QED BY <1>2, <2>0, <2>p, <3>1, WrittenOr DEF RowType
  <2>4. rw \in RowType /\ rw.status = st /\ rw.id = row[r].id
    BY <1>2, <2>0, <2>p, <2>3 DEF RowType
  <2>5. m \in [Indices -> MsStatus]
    <3>1. h.write.ms \in [Indices -> MsStatus \union {Keep}] /\ ms[r] \in [Indices -> MsStatus]
      BY <1>2, <2>0 DEF Handler, Write
    <3>2. \A i \in Indices : Written(h.write.ms[i], ms[r][i]) \in MsStatus
      BY <3>1, WrittenOr
    <3> QED BY <2>p, <3>2
  <2>6. d \in DisputeType
    BY <1>2, <2>0, <2>p DEF DisputeType
  <2>7. \/ h.op = "dispute" /\ d.status = "open"
        \/ h.op = "resolve" /\ d.status = "resolved"
        \/ h.op \notin {"dispute", "resolve"} /\ d = dispute[r]
    BY <1>2, <2>p DEF Handler
  <2>8. /\ row' \in [Row -> RowType] /\ ms' \in [Row -> [Indices -> MsStatus]]
        /\ dispute' \in [Row -> DisputeType]
        /\ row'[r] = rw /\ ms'[r] = m /\ dispute'[r] = d
        /\ \A s \in Row \ {r} : row'[s] = row[s] /\ ms'[s] = ms[s] /\ dispute'[s] = dispute[s]
    BY <1>2, <2>0, <2>1, <2>2, <2>4, <2>5, <2>6
  <2>9. /\ req' \in [Request -> Handler \union {Idle}] /\ req'[q] = Idle
        /\ \A p \in Request \ {q} : req'[p] = req[p]
    BY <1>1, RequestType DEF Done
  <2>10. ASSUME r \notin lateBound
         PROVE  Mirrors(rw, m, d, contracts[row[r].id], milestones[row[r].id],
                        deposited[row[r].id])
    <3>1. PICK e, cm, dep : /\ e = contracts[row[r].id] /\ cm = milestones[row[r].id]
                            /\ dep = deposited[row[r].id]
      OBVIOUS
    <3>2. CarriedOut(h, e, cm, dep) /\ Mirrors(row[r], ms[r], dispute[r], e, cm, dep)
      BY <1>2, <2>10, <3>1
    <3>3. \A i \in Indices : m[i] = Written(h.write.ms[i], ms[r][i])
      BY <2>p
    <3>4. rw.status = Written(h.write.status, row[r].status)
      BY <2>p, <2>4
    <3>5. Mirrors(rw, m, d, e, cm, dep)
      BY <1>1, <1>2, <2>7, <3>2, <3>3, <3>4, CommitMirrors
    <3> QED BY <3>1, <3>5
  <2>11. r \notin lateBound =>
            /\ row'[r].id = row[r].id
            /\ Mirrors(row'[r], ms'[r], dispute'[r], contracts[row[r].id],
                       milestones[row[r].id], deposited[row[r].id])
    BY <2>4, <2>8, <2>10
  <2>12. row'[r].status # "none"
    BY <2>3, <2>4, <2>8
  <2> QED BY <1>1, <1>2, <2>8, <2>9, <2>11, <2>12, WriteStep
<1> QED BY <1>3, <1>4
-----------------------------------------------------------------------------
(* Theorems.                                                               *)

LEMMA InitService == ServiceInit => ServiceInv
<1> SUFFICES ASSUME ServiceInit PROVE ServiceInv
  OBVIOUS
<1>1. EscrowInv /\ MoneyInv /\ TypeOK
  BY InitInv, MoneyInit DEF ServiceInit, EscrowInv
<1>2. ServiceTypeOK
  BY <1>1, Words, ServiceAssumption DEF ServiceInit, ServiceTypeOK, RowStatus, MsStatus
<1>3. \A r \in Row : RowInv(r)
  BY DEF ServiceInit, RowInv
<1>4. \A q \in Request : HandlerInv(q)
  BY DEF ServiceInit, HandlerInv, Idle
<1> QED BY <1>1, <1>2, <1>3, <1>4 DEF ServiceInv

LEMMA StepService == ServiceInv /\ [ServiceNext]_serviceVars => ServiceInv'
<1> SUFFICES ASSUME ServiceInv, [ServiceNext]_serviceVars PROVE ServiceInv'
  OBVIOUS
<1>1. CASE UNCHANGED serviceVars
  <2>1. UNCHANGED <<row, ms, dispute, req, lost, lateBound>> /\ UNCHANGED chainVars
    BY <1>1 DEF serviceVars, rowVars
  <2>2. ServiceTypeOK /\ TypeOK /\ TypeOK'
    BY <2>1, StepType DEF ServiceInv, EscrowInv
  <2>3. ServiceTypeOK'
    BY <2>1, <2>2 DEF ServiceTypeOK
  <2> QED BY <2>1, <2>3, ServiceStep
<1>2. ASSUME NEW r \in Row, PostContract(r) PROVE ServiceInv'
  BY <1>2, PostInv
<1>3. CASE WalletTransaction
  BY <1>3, WalletInv
<1>4. ASSUME NEW q \in Request, NEW r \in Row, NEW who \in Role, SignRead(q, r, who)
      PROVE  ServiceInv'
  BY <1>4, SignReadInv
<1>5. ASSUME NEW q \in Request, NEW r \in Row, NEW op \in Operation, NEW i \in Indices,
             NEW release \in BOOLEAN, Begin(q, op, r, i, release)
      PROVE  ServiceInv'
  BY <1>5, BeginInv
<1>6. ASSUME NEW q \in Request, NEW r \in Row,
             \/ \E op \in MilestoneOperation, i \in Indices : Begin(q, op, r, i, FALSE)
             \/ \E op \in {"dispute", "fund"} : Begin(q, op, r, 0, FALSE)
             \/ \E release \in BOOLEAN : Begin(q, "resolve", r, 0, release)
      PROVE  ServiceInv'
  <2>1. CASE \E op \in MilestoneOperation, i \in Indices : Begin(q, op, r, i, FALSE)
    <3>1. PICK op \in MilestoneOperation, i \in Indices : Begin(q, op, r, i, FALSE)
      BY <2>1
    <3>2. op \in Operation
      BY DEF Operation
    <3> QED BY <1>5, <3>1, <3>2
  <2>2. CASE \E op \in {"dispute", "fund"} : Begin(q, op, r, 0, FALSE)
    <3>1. PICK op \in {"dispute", "fund"} : Begin(q, op, r, 0, FALSE)
      BY <2>2
    <3>2. op \in Operation /\ 0 \in Indices
      BY Words DEF Operation
    <3> QED BY <1>5, <3>1, <3>2
  <2>3. CASE \E release \in BOOLEAN : Begin(q, "resolve", r, 0, release)
    <3>1. "resolve" \in Operation /\ 0 \in Indices
      BY Words DEF Operation
    <3> QED BY <1>5, <2>3, <3>1
  <2> QED BY <1>6, <2>1, <2>2, <2>3
<1>7. ASSUME NEW q \in Request, Continue(q) PROVE ServiceInv'
  BY <1>7, SignCommitInv, SignCheckInv, SignCreateInv, SignBindInv, SendInv, SendLostInv,
     StopInv, DecideInv, CommitInv DEF Continue
<1> QED BY <1>1, <1>2, <1>3, <1>4, <1>6, <1>7 DEF ServiceNext

\* ServiceInv is an invariant: rows claim no more than their contracts show, and what a
\* handler is about to write has happened on chain, whichever requests, transactions of
\* wallets, failures and restarts come between its steps.
THEOREM ServiceInvCorrect == ServiceSpec => []ServiceInv
BY InitService, StepService, PTL DEF ServiceSpec

\* Rows, handlers and the chain keep their types.
THEOREM ServiceTypeCorrect == ServiceSpec => []ServiceTypeOK
<1>1. ServiceInv => ServiceTypeOK
  BY DEF ServiceInv
<1> QED BY <1>1, ServiceInvCorrect, PTL

\* What a backed row claims.
LEMMA BackedMirrors ==
    ASSUME ServiceInv, NEW r \in Row, Backed(r)
    PROVE  \/ /\ row[r].status = "none" /\ dispute[r].status = "none"
              /\ \A i \in Indices : ms[r][i] = "pending"
           \/ /\ row[r].id \in Ids /\ contractExists(row[r].id)
              /\ Mirrors(row[r], ms[r], dispute[r], contracts[row[r].id], milestones[row[r].id],
                         deposited[row[r].id])
BY BackedRow DEF Backed, ServiceInv, RowInv

\* A milestone shown approved has been approved on chain, however approvals, disputes and
\* funding requests of the contract interleave with the chain's own callers.
THEOREM ApprovedCorrect == ServiceSpec => []ApprovedOnChain
<1>1. ServiceInv => ApprovedOnChain
  BY BackedMirrors DEF ApprovedOnChain, Mirrors
<1> QED BY <1>1, ServiceInvCorrect, PTL

\* A row shown completed or cancelled is over on chain in the same way.
THEOREM SettledCorrect == ServiceSpec => []SettledOnChain
<1>1. ServiceInv => SettledOnChain
  BY BackedMirrors DEF SettledOnChain, Mirrors
<1> QED BY <1>1, ServiceInvCorrect, PTL

\* An open dispute of a row is a dispute of its contract, or the chain has ended it.
THEOREM DisputeCorrect == ServiceSpec => []DisputeOnChain
<1>1. ServiceInv => DisputeOnChain
  BY BackedMirrors DEF DisputeOnChain, Mirrors, Stopped
<1> QED BY <1>1, ServiceInvCorrect, PTL

-----------------------------------------------------------------------------
(* What the service does to the chain.                                     *)

\* What a step does to the chain: nothing, a deal's creation, or a call.
LEMMA ChainStep ==
    ASSUME ServiceInv, ServiceNext
    PROVE  \/ UNCHANGED chainVars
           \/ \E r \in Row : CreateContract(Deal[r].client, Deal[r].freelancer,
                                            Deal[r].total, Deal[r].amounts)
           \/ \E s \in Address, c \in Ids : Call(s, c)
<1> DEFINE Step == \/ UNCHANGED chainVars
                   \/ \E r \in Row : CreateContract(Deal[r].client, Deal[r].freelancer,
                                                    Deal[r].total, Deal[r].amounts)
                   \/ \E s \in Address, c \in Ids : Call(s, c)
<1>1. ASSUME NEW r \in Row, PostContract(r) PROVE Step
  BY <1>1 DEF PostContract
<1>2. CASE WalletTransaction
  BY <1>2, ServiceAssumption DEF WalletTransaction
<1>3. ASSUME NEW q \in Request, NEW r \in Row, NEW who \in Role, SignRead(q, r, who)
      PROVE  Step
  BY <1>3 DEF SignRead
<1>4. ASSUME NEW q \in Request, NEW r \in Row, NEW op, NEW i, NEW release,
             Begin(q, op, r, i, release)
      PROVE  Step
  BY <1>4 DEF Begin
<1>5. ASSUME NEW q \in Request,
             SignCommit(q) \/ SignCheck(q) \/ SendRefused(q) \/ SignBind(q) \/ Decide(q)
               \/ Commit(q) \/ Fail(q)
      PROVE  Step
  BY <1>5 DEF SignCommit, SignCheck, SendRefused, SignBind, Decide, Commit, Fail
<1>6. ASSUME NEW q \in Request, SignCreate(q) PROVE Step
  <2>1. req[q].pc = "create"
    BY <1>6 DEF SignCreate
  <2>2. PICK r \in Row : r = req[q].row
    BY <2>1, AtPlace
  <2> QED BY <1>6, <2>2 DEF SignCreate
<1>7. ASSUME NEW q \in Request, Send(q) \/ SendLost(q) PROVE Step
  <2>1. PICK h : h = req[q]
    OBVIOUS
  <2>2. /\ h.pc = "chain"
        /\ UNCHANGED chainVars \/ Transaction(h.op, h.id, h.index, h.release)
    BY <1>7, <2>1 DEF Send, SendLost
  <2>3. h \in Handler /\ WellFormed(h)
    BY <2>1, <2>2, AtPlace
  <2>4. PICK c \in Ids : c = h.id
    BY <2>2, <2>3 DEF WellFormed, Handler
  <2>5. /\ h.op \in Operation /\ h.release \in BOOLEAN /\ Owner \in Address
        /\ h.op \in MilestoneOperation => h.index \in Indices
    BY <2>2, <2>3, Words DEF WellFormed, Handler
  <2>6. ASSUME Transaction(h.op, c, h.index, h.release) PROVE Call(Owner, c)
    BY <2>5, <2>6, TransactionDone
  <2> QED BY <2>2, <2>4, <2>5, <2>6
<1>8. ASSUME NEW q \in Request, Continue(q) PROVE Step
  BY <1>5, <1>6, <1>7, <1>8 DEF Continue
<1>9. ASSUME NEW q \in Request, NEW r \in Row,
             \/ \E who \in Role : SignRead(q, r, who)
             \/ \E op \in MilestoneOperation, i \in Indices : Begin(q, op, r, i, FALSE)
             \/ \E op \in {"dispute", "fund"} : Begin(q, op, r, 0, FALSE)
             \/ \E release \in BOOLEAN : Begin(q, "resolve", r, 0, release)
      PROVE  Step
  <2>1. CASE \E who \in Role : SignRead(q, r, who)
    BY <1>3, <2>1
  <2>2. CASE \E op \in MilestoneOperation, i \in Indices : Begin(q, op, r, i, FALSE)
    <3>1. PICK op \in MilestoneOperation, i \in Indices : Begin(q, op, r, i, FALSE)
      BY <2>2
    <3> QED BY <1>4, <3>1
  <2>3. CASE \E op \in {"dispute", "fund"} : Begin(q, op, r, 0, FALSE)
    BY <1>4, <2>3
  <2>4. CASE \E release \in BOOLEAN : Begin(q, "resolve", r, 0, release)
    BY <1>4, <2>4
  <2> QED BY <1>9, <2>1, <2>2, <2>3, <2>4
<1>10. CASE \E r \in Row : PostContract(r)
  BY <1>1, <1>10
<1>11. CASE \E q \in Request : Continue(q)
  BY <1>8, <1>11
<1>12. Step
  BY <1>2, <1>9, <1>10, <1>11 DEF ServiceNext
<1> QED BY <1>12

\* What the service does to the chain, the contract allows.
LEMMA ServiceChain ==
    ASSUME ServiceInv, [ServiceNext]_serviceVars
    PROVE  [Next]_chainVars
<1>1. CASE UNCHANGED serviceVars
  BY <1>1 DEF serviceVars
<1>2. ASSUME NEW s \in Address, NEW c \in Ids, Call(s, c) PROVE Next
  BY <1>2 DEF Next
<1> QED BY <1>1, <1>2, ChainStep, DealCall

-----------------------------------------------------------------------------
(* What requests write.                                                    *)

\* A request keeps a backed row's contract; it gives it another status by a signature or
\* by its commit, and changes its dispute by its commit only.
LEMMA RequestWrites ==
    ASSUME ServiceInv, [ServiceNext]_serviceVars,
           NEW r \in Row, row[r].status # "none", r \notin lateBound'
    PROVE  /\ r \notin lateBound /\ row'[r].id = row[r].id
           /\ \/ /\ row'[r].status \in {row[r].status, "pending_funding"}
                 /\ dispute'[r] = dispute[r]
              \/ \E q \in Request : Commit(q) /\ req[q].row = r
<1> DEFINE Goal1 == /\ r \notin lateBound /\ row'[r].id = row[r].id
                    /\ \/ /\ row'[r].status \in {row[r].status, "pending_funding"}
                          /\ dispute'[r] = dispute[r]
                       \/ \E q \in Request : Commit(q) /\ req[q].row = r
<1>0. /\ row \in [Row -> RowType] /\ dispute \in [Row -> DisputeType]
  BY RowTypes
<1>1. CASE UNCHANGED rowVars /\ lateBound \subseteq lateBound'
  BY <1>1 DEF rowVars
<1>2. ASSUME NEW s \in Row, PostContract(s) PROVE Goal1
  <2>1. s # r /\ UNCHANGED dispute /\ lateBound \subseteq lateBound'
    BY <1>2 DEF PostContract
  <2>2. row'[r] = row[r]
    BY <1>0, <1>2, <2>1 DEF PostContract, InsertRow
  <2> QED BY <2>1, <2>2
<1>3. ASSUME NEW q \in Request, SignCommit(q) PROVE Goal1
  <2>1. PICK h : h = req[q]
    OBVIOUS
  <2>2. h \in Handler /\ h.row \in Row /\ WellFormed(h) /\ h.pc = "sign"
    BY <1>3, <2>1, AtPlace DEF SignCommit
  <2>3. /\ row' = [row EXCEPT ![h.row] = [row[h.row] EXCEPT !.status = Written(h.write.status, @),
                                                           !.signed = @ \union {h.op}]]
        /\ UNCHANGED <<dispute, lateBound>>
    BY <1>3, <2>1 DEF SignCommit
  <2>4. CASE h.row # r
    BY <1>0, <2>2, <2>3, <2>4
  <2>5. CASE h.row = r
    <3>1. PICK st : st = Written(h.write.status, row[r].status)
      OBVIOUS
    <3>2. st \in {row[r].status, "pending_funding"}
      BY <2>2, <3>1, WrittenOr DEF WellFormed
    <3>3. row'[r].status = st /\ row'[r].id = row[r].id
      BY <1>0, <2>3, <2>5, <3>1 DEF RowType
    <3> QED BY <2>3, <3>2, <3>3
  <2> QED BY <2>4, <2>5
<1>4. ASSUME NEW q \in Request, SignBind(q) PROVE Goal1
  <2>1. /\ req[q].row \in lateBound /\ UNCHANGED <<dispute, lateBound>>
    BY <1>4, AtPlace DEF SignBind
  <2>2. row'[r] = row[r]
    BY <1>0, <1>4, <2>1 DEF SignBind
  <2> QED BY <2>1, <2>2
<1>5. ASSUME NEW q \in Request, Commit(q) PROVE Goal1
  <2>1. UNCHANGED lateBound /\ req[q].row \in Row
    BY <1>5, AtPlace DEF Commit
  <2>2. CASE UNCHANGED rowVars
    BY <2>1, <2>2 DEF rowVars
  <2>3. CASE ~ UNCHANGED rowVars
    <3>1. /\ row' = [row EXCEPT ![req[q].row] =
                        [row[req[q].row] EXCEPT !.status = Written(req[q].write.status, @)]]
          /\ \A s \in Row \ {req[q].row} : dispute'[s] = dispute[s]
      BY <1>0, <1>5, <2>1, <2>3 DEF Commit
    <3>2. row'[r].id = row[r].id /\ (req[q].row # r => row'[r] = row[r])
      BY <1>0, <2>1, <3>1 DEF RowType
    <3> QED BY <1>5, <2>1, <3>1, <3>2
  <2> QED BY <2>2, <2>3
<1>6. ASSUME NEW q \in Request, Continue(q) PROVE Goal1
  <2>1. CASE SignCheck(q) \/ SignCreate(q) \/ Send(q) \/ SendLost(q) \/ SendRefused(q)
             \/ Decide(q) \/ Fail(q)
    <3>1. UNCHANGED rowVars /\ lateBound \subseteq lateBound'
      BY <2>1 DEF SignCheck, SignCreate, Send, SendLost, SendRefused, Decide, Fail
    <3> QED BY <1>1, <3>1
  <2> QED BY <1>3, <1>4, <1>5, <1>6, <2>1 DEF Continue
<1>7. ASSUME NEW q \in Request, NEW s \in Row,
             \/ \E who \in Role : SignRead(q, s, who)
             \/ \E op, i, release : Begin(q, op, s, i, release)
      PROVE  Goal1
  <2>1. UNCHANGED rowVars /\ lateBound \subseteq lateBound'
    BY <1>7 DEF SignRead, Begin
  <2> QED BY <1>1, <2>1
<1>8. CASE WalletTransaction
  BY <1>1, <1>8 DEF WalletTransaction
<1>9. CASE UNCHANGED serviceVars
  BY <1>1, <1>9 DEF serviceVars
<1> QED BY <1>2, <1>6, <1>7, <1>8, <1>9 DEF ServiceNext

\* The decision of a backed row's dispute is the one its contract carried out.
Recorded(r) ==
    r \notin lateBound /\ dispute[r].status = "resolved" =>
        contracts[row[r].id].status = Decided(dispute[r].decision = "release")

LEMMA RecordedStep ==
    ASSUME ServiceInv, [ServiceNext]_serviceVars, NEW r \in Row, Recorded(r)
    PROVE  Recorded(r)'
<1> SUFFICES ASSUME r \notin lateBound', dispute'[r].status = "resolved"
             PROVE  contracts'[row'[r].id].status = Decided(dispute'[r].decision = "release")
  BY DEF Recorded
<1>0. EscrowInv /\ MoneyInv
  BY DEF ServiceInv
<1>1. CASE row[r].status = "none"
  <2>1. dispute[r].status = "none"
    BY <1>1 DEF ServiceInv, RowInv
  <2>2. \A q \in Request : req[q].pc # "idle" => req[q].row # r
    BY <1>1, AtPlace
  <2>3. dispute \in [Row -> DisputeType]
    BY RowTypes
  <2>4. ASSUME NEW q \in Request, Commit(q) PROVE dispute'[r] = dispute[r]
    BY <2>2, <2>3, <2>4 DEF Commit, rowVars
  <2>5. dispute'[r] = dispute[r]
    BY <2>4 DEF ServiceNext, serviceVars, rowVars, PostContract, WalletTransaction, SignRead,
                Begin, Continue, SignCommit, SignCheck, SignCreate, SignBind, Send, SendLost,
                SendRefused, Decide, Fail
  <2> QED BY <2>1, <2>5
<1>2. CASE row[r].status # "none"
  <2>1. r \notin lateBound /\ row'[r].id = row[r].id
    BY <1>2, RequestWrites
  <2>2. PICK c \in Ids : c = row[r].id /\ contractExists(c)
    BY <1>2, <2>1, BackedRow
  <2>3. CASE dispute'[r] = dispute[r]
    <3>1. contracts[c].status = Decided(dispute[r].decision = "release")
      BY <2>1, <2>2, <2>3 DEF Recorded
    <3>2. [Next]_chainVars
      BY ServiceChain
    <3>3. contracts'[c].status = contracts[c].status
      BY <1>0, <2>2, <3>1, <3>2, ChainLater DEF Later, Decided
    <3> QED BY <2>1, <2>2, <2>3, <3>1, <3>3
  <2>4. CASE dispute'[r] # dispute[r]
    <3>1. PICK q \in Request : Commit(q) /\ req[q].row = r
      BY <1>2, <2>4, RequestWrites
    <3>2. /\ req[q] \in Handler /\ req[q].pc = "commit" /\ req[q].id = c
          /\ CarriedOut(req[q], contracts[c], milestones[c], deposited[c])
          /\ UNCHANGED chainVars
      BY <2>1, <2>2, <3>1, AtPlace DEF Commit
    <3>3. /\ req[q].op = "resolve" /\ req[q].release \in BOOLEAN
          /\ dispute'[r].decision = (IF req[q].release THEN "release" ELSE "refund")
      <4>1. dispute \in [Row -> DisputeType]
        BY RowTypes
      <4> QED BY <2>4, <3>1, <3>2, <4>1 DEF Commit, rowVars, Handler
    <3>4. contracts[c].status = Decided(req[q].release) /\ contracts' = contracts
      BY <3>2, <3>3 DEF CarriedOut, chainVars
    <3> QED BY <2>1, <2>2, <3>3, <3>4
  <2> QED BY <2>3, <2>4
<1> QED BY <1>1, <1>2

\* The recorded decision of a dispute is the one that moved the money, also when two
\* admins decide differently at once or an answer of the chain was lost.
THEOREM DecisionCorrect == ServiceSpec => []DecisionCarriedOut
<1> DEFINE AllRecorded == \A r \in Row : Recorded(r)
<1>1. ServiceInit => AllRecorded
  BY DEF ServiceInit, Recorded
<1>2. ServiceInv /\ AllRecorded /\ [ServiceNext]_serviceVars => AllRecorded'
  BY RecordedStep
<1>3. ServiceInv /\ AllRecorded => DecisionCarriedOut
  BY DEF Recorded, DecisionCarriedOut, Backed, Decided
<1> QED BY <1>1, <1>2, <1>3, ServiceInvCorrect, PTL DEF ServiceSpec

-----------------------------------------------------------------------------
(* Active rows have their deposit.                                         *)

Valued == \A c \in Ids : contractExists(c) => contracts[c].totalAmount > 0

\* Only deals create contracts, and no call changes a total.
LEMMA ValuedStep ==
    ASSUME ServiceInv, Valued, [ServiceNext]_serviceVars, \A r \in Row : Deal[r].total > 0
    PROVE  Valued'
<1>0. EscrowInv /\ MoneyInv /\ TypeOK
  BY DEF ServiceInv, EscrowInv
<1>1. ASSUME NEW c \in Ids, contractExists(c), [Next]_chainVars
      PROVE  contracts'[c].totalAmount > 0
  <2>1. Later(contracts[c], milestones[c], deposited[c],
              contracts'[c], milestones'[c], deposited'[c])
    BY <1>0, <1>1, ChainLater
  <2> QED BY <1>1, <2>1 DEF Later, Valued
<1>2. CASE UNCHANGED chainVars
  BY <1>2 DEF Valued, contractExists, chainVars
<1>3. ASSUME NEW r \in Row, CreateContract(Deal[r].client, Deal[r].freelancer,
                                           Deal[r].total, Deal[r].amounts)
      PROVE  Valued'
  <2>1. Next
    BY <1>3, DealCall
  <2>2. ASSUME NEW c \in Ids, contractExists(c)', ~contractExists(c)
        PROVE  contracts'[c].totalAmount > 0
    <3>1. c = contractCounter + 1
      BY <1>0, <1>3, <2>2 DEF contractExists, CreateContract, TypeOK, Ids
    <3>2. contracts'[c].totalAmount = Deal[r].total
      BY <1>0, <1>3, <2>2, <3>1 DEF CreateContract, TypeOK, NoEscrow
    <3> QED BY <3>2
  <2> QED BY <1>1, <2>1, <2>2 DEF Valued
<1>4. ASSUME NEW s \in Address, NEW d \in Ids, Call(s, d) PROVE Valued'
  <2>1. Next
    BY <1>4 DEF Next
  <2>2. \A c \in Ids : contractExists(c)' => contractExists(c)
    BY <1>4 DEF Call, SetFreelancer, FundContract, SubmitMilestone, ApproveMilestone,
                RejectMilestone, RaiseDispute, ResolveDispute, CancelContract, contractExists
  <2> QED BY <1>1, <2>1, <2>2 DEF Valued
<1>5. CASE UNCHANGED serviceVars
  BY <1>2, <1>5 DEF serviceVars
<1> QED BY <1>2, <1>3, <1>4, <1>5, ChainStep

\* When every deal is worth something (backend/app/schemas.py:188, total_amount gt=0), a
\* contract is shown active only if its deposit has arrived.
THEOREM ActiveCorrect ==
    (\A r \in Row : Deal[r].total > 0) => (ServiceSpec => []ActiveDeposited)
<1> SUFFICES ASSUME \A r \in Row : Deal[r].total > 0
             PROVE  ServiceSpec => []ActiveDeposited
  OBVIOUS
<1>1. ServiceInit => Valued
  BY DEF ServiceInit, Init, Valued, contractExists
<1>2. ServiceInv /\ Valued /\ [ServiceNext]_serviceVars => Valued'
  BY ValuedStep
<1>3. ServiceInv /\ Valued => ActiveDeposited
  BY BackedMirrors DEF ActiveDeposited, Valued, Mirrors
<1> QED BY <1>1, <1>2, <1>3, ServiceInvCorrect, PTL DEF ServiceSpec

-----------------------------------------------------------------------------
(* The endpoints call the chain as anyone may.                             *)

\* Whatever requests cross, and whatever answers are lost, the backend and the wallets do
\* to the chain what the contract allows: all that is proved of GigEscrow holds here.
THEOREM ServiceKeepsChain == ServiceSpec => Spec
<1>1. ServiceInit => Init
  BY DEF ServiceInit
<1>2. ServiceInv /\ [ServiceNext]_serviceVars => [Next]_chainVars
  BY ServiceChain
<1> QED BY <1>1, <1>2, ServiceInvCorrect, PTL DEF ServiceSpec, Spec
=============================================================================
