------------------------ MODULE ContractPages_proofs ------------------------
(***************************************************************************)
(* Theorems about ContractPages for any scenes: any numbers of prompts and *)
(* requests a page has open, of rejections, lost answers, reloads and      *)
(* blocks the listener is behind, and any milestones.                      *)
(***************************************************************************)
EXTENDS ContractPages, GigEscrow_proofs

-----------------------------------------------------------------------------
(* The inductive invariant.                                                *)

\* A copy claims no more than the chain.
Honest(copy) ==
    /\ copy \in Copy
    /\ \A i \in DOMAIN copy.ms :
          copy.ms[i].status = "approved" => milestones[1][i].status = "Approved"
    /\ copy.status = "active" => deposited[1] = Deal
    /\ copy.status = "completed" => contracts[1].status = "Completed"
    /\ copy.status = "cancelled" => contracts[1].status = "Cancelled"
Full(copy) == Honest(copy) /\ copy.ms \in [Indices -> MsRow]

AdminAnswer == [status : DisputeStatus]
FlowType == [op : Operations, index : Indices, cid : Cid \union {NoCid}, live : BOOLEAN,
             stage : FlowStage, answer : Copy \union {Nothing} \union AdminAnswer]

\* An answer is honest, and an approval that is mined is one.
Sincere(f) ==
    /\ f \in FlowType
    /\ f.answer = Nothing \/ Full(f.answer) \/ (lens = "admin" /\ f.answer \in AdminAnswer)
    /\ f.stage = "reading" /\ lens = "admin" => f.answer \in AdminAnswer
    /\ f.stage = "ok" /\ f.op \in {"sign", "fund", "submit"} => Full(f.answer)
    /\ f.op = "approve" /\ f.stage = "mined" => milestones[1][f.index].status = "Approved"

\* The chain bears an event out: however late the listener applies it, what the event
\* tells of an approval or of completion still holds.
Bears(e) ==
    /\ e.name = "MilestoneApproved" =>
          e.index \in Indices /\ milestones[1][e.index].status = "Approved"
    /\ e.name = "ContractCompleted" => contracts[1].status = "Completed"

Heard == /\ unread \in Seq(Block)
         /\ \A b \in 1 .. Len(unread) : \A e \in unread[b].logs : Bears(e)

ServerInv ==
    /\ EscrowInv /\ MoneyInv /\ contractExists(1) /\ contracts[1].totalAmount = Deal
    /\ Full(row) /\ dispute \in DisputeStatus /\ Heard /\ scene \in Scenes

ViewInv ==
    /\ list = Nothing \/ Honest(list)
    /\ modal = Nothing \/ Honest(modal)
    /\ cache \in [age : {"none", "fresh", "stale"}, copy : Copy \union {Nothing}]
    /\ cache.copy = Nothing \/ Full(cache.copy)
    /\ cache.age = "none" => cache = NoCache
    /\ \A f \in flows : Sincere(f)

PagesInv == ServerInv /\ ViewInv

-----------------------------------------------------------------------------
(* The server's steps.                                                     *)

\* A step of the server: its own part stays right, and so does what was honest.
Served ==
    /\ ServerInv'
    /\ \A copy : Honest(copy) => Honest(copy)'
    /\ \A f : Sincere(f) => Sincere(f)'

LEMMA Constants ==
    /\ 1 \in Ids /\ 0 \in Indices /\ Owner \in Address
    /\ Client \in Address /\ Freelancer \in Address /\ Freelancer # ZeroAddress
    /\ Freelancer # Owner /\ Client # Owner
    /\ Deal \in Totals /\ Deal \in Nat /\ Amounts \in AmountLists /\ Len(Amounts) = MaxMilestones
    /\ MaxMilestones \in Nat \ {0} /\ MaxContracts \in Nat
<1>1. 1 \in Ids /\ 0 \in Indices
  BY BoundAssumption, PageDealAssumption DEF Ids, Indices
<1>2. Deal \in Totals /\ Deal \in Nat
  BY AmountAssumption, PageDealAssumption DEF Deal
<1>3. Client \in Address /\ Freelancer \in Address /\ Freelancer # ZeroAddress
      /\ Freelancer # Owner /\ Client # Owner
  BY AddressAssumption, PagePartyAssumption
<1> QED BY <1>1, <1>2, <1>3, AddressAssumption, BoundAssumption, PageDealAssumption

LEMMA ChainFacts ==
    ASSUME ServerInv
    PROVE  /\ contracts \in [Ids -> EscrowContract] /\ milestones \in [Ids -> [Indices -> Milestone]]
           /\ contracts[1] \in EscrowContract /\ milestones[1] \in [Indices -> Milestone]
           /\ deposited \in [Ids -> Nat] /\ contractCounter \in Nat
           /\ Agree(contracts[1], milestones[1])
           /\ Books(contracts[1], milestones[1], deposited[1], paid[1])
           /\ 0 < contracts[1].milestoneCount
           /\ row \in Copy /\ row.ms \in [Indices -> MsRow]
           /\ row.status \in RowStatus /\ Honest(row)
<1>1. TypeOK /\ 1 \in Ids
  BY Constants DEF ServerInv, EscrowInv
<1>2. Entry(1) /\ Books(contracts[1], milestones[1], deposited[1], paid[1])
  BY <1>1 DEF ServerInv, EscrowInv, MoneyInv
<1>3. row \in Copy /\ row.ms \in [Indices -> MsRow] /\ Honest(row)
  BY DEF ServerInv, Full, Honest
<1>4. 0 < contracts[1].milestoneCount
  BY <1>2 DEF ServerInv, Entry
<1> QED BY <1>1, <1>2, <1>3, <1>4 DEF TypeOK, Entry, Copy

LEMMA ChainStays ==
    ASSUME ServerInv, [Next]_chainVars
    PROVE  /\ EscrowInv' /\ MoneyInv' /\ contractExists(1)' /\ contracts'[1].totalAmount = Deal
           /\ Later(contracts[1], milestones[1], deposited[1],
                    contracts'[1], milestones'[1], deposited'[1])
<1>1. PICK c \in Ids : c = 1
  BY Constants
<1>2. EscrowInv /\ MoneyInv /\ contractExists(c) /\ contracts[1].totalAmount = Deal
  BY <1>1 DEF ServerInv
<1>3. contractExists(c)' /\ Later(contracts[c], milestones[c], deposited[c],
                                  contracts'[c], milestones'[c], deposited'[c])
  BY <1>2, ChainLater
<1>4. EscrowInv' /\ MoneyInv'
  BY <1>2, StepInv, MoneyStep
<1> QED BY <1>1, <1>2, <1>3, <1>4 DEF Later

\* What an honest copy and an event tell is final on chain.
LEMMA Final ==
    ASSUME ServerInv, [Next]_chainVars
    PROVE  /\ \A i \in Indices : milestones[1][i].status = "Approved" =>
                                 milestones'[1][i].status = "Approved"
           /\ contracts[1].status \in {"Completed", "Cancelled"} =>
                 contracts'[1].status = contracts[1].status
           /\ deposited[1] = Deal => deposited'[1] = Deal
  BY ChainStays DEF Later, ServerInv

LEMMA CopyLater ==
    ASSUME ServerInv, [Next]_chainVars, NEW copy, Honest(copy)
    PROVE  Honest(copy)'
<1>1. copy \in Copy /\ DOMAIN copy.ms \subseteq Indices
  BY DEF Honest, Copy
<1>2. \A i \in DOMAIN copy.ms :
          copy.ms[i].status = "approved" => milestones'[1][i].status = "Approved"
  BY <1>1, Final DEF Honest
<1>3. /\ copy.status = "active" => deposited'[1] = Deal
      /\ copy.status = "completed" => contracts'[1].status = "Completed"
      /\ copy.status = "cancelled" => contracts'[1].status = "Cancelled"
  BY Final DEF Honest
<1> QED BY <1>1, <1>2, <1>3 DEF Honest

LEMMA FlowLater ==
    ASSUME ServerInv, [Next]_chainVars, scene' = scene, NEW f, Sincere(f)
    PROVE  Sincere(f)'
<1>1. f \in FlowType /\ f.index \in Indices
  BY DEF Sincere, FlowType
<1>2. Full(f.answer) => Full(f.answer)'
  <2>1. PICK copy : copy = f.answer
    OBVIOUS
  <2>2. Full(copy) => Full(copy)'
    BY CopyLater DEF Full
  <2> QED BY <2>1, <2>2 DEF Full, Honest
<1>3. f.op = "approve" /\ f.stage = "mined" => milestones'[1][f.index].status = "Approved"
  BY <1>1, Final DEF Sincere
<1>4. lens' = lens
  BY DEF lens
<1> QED BY <1>1, <1>2, <1>3, <1>4 DEF Sincere

\* A step after which the row shows of each milestone what it showed before, or what the
\* chain does, and likewise of the contract.
LEMMA RowLater ==
    ASSUME ServerInv, [Next]_chainVars, scene' = scene, Heard', dispute' \in DisputeStatus,
           row' \in Copy, row'.ms \in [Indices -> MsRow],
           \A i \in Indices :
              \/ row'.ms[i].status = row.ms[i].status
              \/ row'.ms[i].status # "approved"
              \/ milestones'[1][i].status = "Approved",
           \/ row'.status = row.status
           \/ row'.status \notin {"active", "completed", "cancelled"}
           \/ row'.status = "active" /\ deposited'[1] = Deal
           \/ row'.status = "completed" /\ contracts'[1].status = "Completed"
           \/ row'.status = "cancelled" /\ contracts'[1].status = "Cancelled"
    PROVE  Served
<1>1. Honest(row) /\ row.ms \in [Indices -> MsRow]
  BY ChainFacts
<1>2. /\ \A copy : Honest(copy) => Honest(copy)'
      /\ \A f : Sincere(f) => Sincere(f)'
  BY CopyLater, FlowLater
<1>3. \A i \in Indices : row'.ms[i].status = "approved" => milestones'[1][i].status = "Approved"
  <2>1. \A i \in Indices : row.ms[i].status = "approved" => milestones[1][i].status = "Approved"
    BY <1>1 DEF Honest
  <2> QED BY <2>1, Final
<1>4. /\ row'.status = "active" => deposited'[1] = Deal
      /\ row'.status = "completed" => contracts'[1].status = "Completed"
      /\ row'.status = "cancelled" => contracts'[1].status = "Cancelled"
  <2>1. /\ row.status = "active" => deposited[1] = Deal
        /\ row.status = "completed" => contracts[1].status = "Completed"
        /\ row.status = "cancelled" => contracts[1].status = "Cancelled"
    BY <1>1 DEF Honest
  <2> QED BY <2>1, Final
<1>5. Full(row)'
  <2>1. DOMAIN row'.ms = Indices
    OBVIOUS
  <2> QED BY <1>3, <1>4, <2>1 DEF Full, Honest
<1>6. ServerInv'
  <2>1. scene' \in Scenes
    BY DEF ServerInv
  <2> QED BY <1>5, <2>1, ChainStays DEF ServerInv
<1> QED BY <1>2, <1>6 DEF Served

\* The listener's blocks keep their word.
LEMMA HeardLater ==
    ASSUME ServerInv, [Next]_chainVars, UNCHANGED unread
    PROVE  Heard'
<1>1. unread \in Seq(Block)
  BY DEF ServerInv, Heard
<1>2. ASSUME NEW b \in 1 .. Len(unread), NEW e \in unread[b].logs PROVE Bears(e)'
  <2>1. Bears(e)
    BY <1>2 DEF ServerInv, Heard
  <2>2. e.name = "MilestoneApproved" =>
           e.index \in Indices /\ milestones'[1][e.index].status = "Approved"
    BY <2>1, Final DEF Bears
  <2>3. e.name = "ContractCompleted" => contracts'[1].status = "Completed"
    BY <2>1, Final DEF Bears
  <2> QED BY <2>2, <2>3 DEF Bears
<1> QED BY <1>1, <1>2 DEF Heard

\* Nothing is lost when neither the chain nor the row moves.
LEMMA NothingServed ==
    ASSUME ServerInv, UNCHANGED <<chainVars, row, unread, scene>>, dispute' \in DisputeStatus
    PROVE  Served
<1>1. Heard'
  BY HeardLater
<1>2. row \in Copy /\ row.ms \in [Indices -> MsRow]
  BY ChainFacts
<1> QED BY <1>1, <1>2, RowLater

LEMMA OneCall ==
    ASSUME NEW s \in Address, Call(s, 1)
    PROVE  [Next]_chainVars
<1>1. PICK c \in Ids : c = 1
  BY Constants
<1>2. Call(s, c)
  BY <1>1
<1> QED BY <1>2 DEF Next

\* The events of a call: only an approval tells of one, or of completion.
LEMMA CallBears ==
    ASSUME ServerInv, NEW s \in Address, Call(s, 1), NEW k \in DOMAIN emitted',
           NEW e, e = emitted'[k]
    PROVE  Bears(e)'
<1>1. /\ contracts \in [Ids -> EscrowContract] /\ milestones \in [Ids -> [Indices -> Milestone]]
      /\ 1 \in Ids
  BY ChainFacts, Constants
<1>2. ASSUME e.name \notin {"MilestoneApproved", "ContractCompleted"} PROVE Bears(e)'
  BY <1>2 DEF Bears
<1>3. \A x : emitted' = <<x>> => e = x
  OBVIOUS
<1>4. ASSUME \E f \in Address : SetFreelancer(s, 1, f)
      PROVE  e.name \notin {"MilestoneApproved", "ContractCompleted"}
  BY <1>3, <1>4 DEF SetFreelancer, ContractEvent
<1>5. CASE \E value \in Totals : FundContract(s, 1, value)
  BY <1>5 DEF FundContract
<1>6. ASSUME \E i \in Indices, cid \in Cid : SubmitMilestone(s, 1, i, cid)
      PROVE  e.name \notin {"MilestoneApproved", "ContractCompleted"}
  BY <1>3, <1>6 DEF SubmitMilestone, MilestoneEvent
<1>7. ASSUME \E i \in Indices : RejectMilestone(s, 1, i)
      PROVE  e.name \notin {"MilestoneApproved", "ContractCompleted"}
  BY <1>3, <1>7 DEF RejectMilestone, MilestoneEvent
<1>8. ASSUME RaiseDispute(s, 1)
      PROVE  e.name \notin {"MilestoneApproved", "ContractCompleted"}
  BY <1>3, <1>8 DEF RaiseDispute, ContractEvent
<1>9. ASSUME \E release \in BOOLEAN : ResolveDispute(s, 1, release)
      PROVE  e.name \notin {"MilestoneApproved", "ContractCompleted"}
  BY <1>3, <1>9 DEF ResolveDispute, ContractEvent
<1>10. ASSUME CancelContract(s, 1)
      PROVE  e.name \notin {"MilestoneApproved", "ContractCompleted"}
  BY <1>3, <1>10 DEF CancelContract, ContractEvent
<1>11. ASSUME NEW i \in Indices, ApproveMilestone(s, 1, i) PROVE Bears(e)'
  <2>1. milestones'[1][i].status = "Approved"
    BY <1>1, <1>11 DEF ApproveMilestone, Milestone
  <2>2. ASSUME e = MilestoneEvent("MilestoneApproved", 1, i) PROVE Bears(e)'
    <3>1. e.name = "MilestoneApproved" /\ e.index = i
      BY <2>2 DEF MilestoneEvent
    <3> QED BY <2>1, <3>1 DEF Bears
  <2>3. CASE contracts[1].completedMilestones + 1 = contracts[1].milestoneCount
    <3>1. emitted' = <<MilestoneEvent("MilestoneApproved", 1, i)>>
                     \o <<ContractEvent("ContractCompleted", 1, ZeroAddress)>>
      BY <1>11, <2>3 DEF ApproveMilestone
    <3>2. e \in {MilestoneEvent("MilestoneApproved", 1, i),
                 ContractEvent("ContractCompleted", 1, ZeroAddress)}
      BY <3>1
    <3>3. contracts'[1].status = "Completed"
      <4>1. contracts' = [contracts EXCEPT
               ![1].completedMilestones = contracts[1].completedMilestones + 1,
               ![1].status = "Completed"]
        BY <1>11, <2>3 DEF ApproveMilestone
      <4> QED BY <1>1, <4>1 DEF EscrowContract
    <3>4. ASSUME e = ContractEvent("ContractCompleted", 1, ZeroAddress) PROVE Bears(e)'
      <4>1. e.name = "ContractCompleted"
        BY <3>4 DEF ContractEvent
      <4> QED BY <3>3, <4>1 DEF Bears
    <3> QED BY <2>2, <3>2, <3>4
  <2>4. CASE contracts[1].completedMilestones + 1 # contracts[1].milestoneCount
    <3>1. emitted' = <<MilestoneEvent("MilestoneApproved", 1, i)>> \o <<>>
      BY <1>11, <2>4 DEF ApproveMilestone
    <3>2. e = MilestoneEvent("MilestoneApproved", 1, i)
      BY <3>1
    <3> QED BY <2>2, <3>2
  <2> QED BY <2>3, <2>4
<1> QED BY <1>2, <1>4, <1>5, <1>6, <1>7, <1>8, <1>9, <1>10, <1>11 DEF Call

\* A transaction's block keeps its word, and so do the ones before it.
LEMMA MinedHeard ==
    ASSUME ServerInv, Mined, UNCHANGED chainVars \/ \E s \in Address : Call(s, 1)
    PROVE  Heard' /\ [Next]_chainVars
<1>1. [Next]_chainVars
  BY OneCall
<1>2. CASE UNCHANGED unread
  BY <1>1, <1>2, HeardLater
<1>3. CASE ~UNCHANGED chainVars /\ unread' = Append(unread, BlockMined')
  <2>1. PICK s \in Address : Call(s, 1)
    BY <1>3
  <2>2. PICK new : new = BlockMined'
    OBVIOUS
  <2>3. TypeOK'
    BY <1>1, StepType DEF ServerInv, EscrowInv
  <2>4. emitted' \in Seq(Event) /\ milestones'[1] \in [Indices -> Milestone]
    BY <2>3, Constants DEF TypeOK
  <2>5. new.logs = Range(emitted')
        /\ new = [logs |-> new.logs, cids |-> [i \in Indices |-> milestones'[1][i].deliverableCID]]
    BY <2>2 DEF BlockMined
  <2>6. new \in Block
    <3>1. \A i \in Indices : milestones'[1][i].deliverableCID \in Cid \union {NoCid}
      BY <2>4 DEF Milestone
    <3>2. new.logs \subseteq Event
      BY <2>4, <2>5 DEF Range
    <3> QED BY <2>5, <3>1, <3>2 DEF Block
  <2>7. \A e \in new.logs : Bears(e)'
    <3> SUFFICES ASSUME NEW e \in new.logs PROVE Bears(e)'
      OBVIOUS
    <3>1. PICK k \in DOMAIN emitted' : e = emitted'[k]
      BY <2>5 DEF Range
    <3> QED BY <2>1, <3>1, CallBears
  <2>8. unread \in Seq(Block) /\ \A b \in 1 .. Len(unread) : \A e \in unread[b].logs : Bears(e)'
    <3>1. unread \in Seq(Block) /\ \A b \in 1 .. Len(unread) : \A e \in unread[b].logs : Bears(e)
      BY DEF ServerInv, Heard
    <3>2. ASSUME NEW e, Bears(e) PROVE Bears(e)'
      BY <1>1, <3>2, Final DEF Bears
    <3> QED BY <3>1, <3>2
  <2>9. PICK u : u = unread' /\ u = Append(unread, new)
    BY <1>3, <2>2
  <2>10. u \in Seq(Block) /\ Len(u) = Len(unread) + 1 /\ u[Len(unread) + 1] = new
         /\ \A b \in 1 .. Len(unread) : u[b] = unread[b]
    BY <2>6, <2>8, <2>9
  <2>11. ASSUME NEW b \in 1 .. Len(u), NEW e, e \in u[b].logs PROVE Bears(e)'
    <3>1. b \in 1 .. Len(unread) \/ b = Len(unread) + 1
      BY <2>8, <2>10
    <3>2. CASE b = Len(unread) + 1
      BY <2>7, <2>10, <2>11, <3>2
    <3>3. CASE b \in 1 .. Len(unread)
      BY <2>8, <2>10, <2>11, <3>3
    <3> QED BY <3>1, <3>2, <3>3
  <2>12. \A b \in 1 .. Len(u) : \A e \in u[b].logs : Bears(e)'
    BY <2>11
  <2> QED BY <1>1, <2>9, <2>10, <2>12 DEF Heard
<1>4. UNCHANGED unread \/ (~UNCHANGED chainVars /\ unread' = Append(unread, BlockMined'))
  BY DEF Mined
<1> QED BY <1>1, <1>2, <1>3, <1>4

LEMMA AcceptServed ==
    ASSUME ServerInv, Accept, Mined, scene' = scene
    PROVE  Served
<1>1. SetFreelancer(Owner, 1, Freelancer) /\ row' = [row EXCEPT !.hired = TRUE]
      /\ dispute' = dispute
  BY DEF Accept
<1>2. Heard' /\ [Next]_chainVars
  <2>1. Call(Owner, 1)
    BY <1>1, Constants DEF Call
  <2> QED BY <2>1, Constants, MinedHeard
<1>3. row \in Copy /\ row.ms \in [Indices -> MsRow] /\ dispute \in DisputeStatus
  BY ChainFacts DEF ServerInv
<1>4. row' \in Copy /\ row'.ms = row.ms /\ row'.status = row.status
  BY <1>1, <1>3 DEF Copy
<1> QED BY <1>1, <1>2, <1>3, <1>4, RowLater

LEMMA SignServed ==
    ASSUME ServerInv, NEW p, Sign(p), Mined, scene' = scene
    PROVE  Served
<1>1. row \in Copy /\ row.ms \in [Indices -> MsRow] /\ dispute \in DisputeStatus
  BY ChainFacts DEF ServerInv
<1>2. UNCHANGED chainVars /\ dispute' = dispute
  BY DEF Sign
<1>3. Heard' /\ [Next]_chainVars
  BY <1>2, MinedHeard
<1>4. \/ row' = [row EXCEPT !.signed[p] = TRUE]
      \/ row' = [[row EXCEPT !.signed[p] = TRUE] EXCEPT !.status = "pending_funding"]
  BY DEF Sign
<1>5. PICK sg \in [{"client", "freelancer"} -> BOOLEAN] : sg = [row.signed EXCEPT ![p] = TRUE]
  BY <1>1 DEF Copy
<1>6. row' = [row EXCEPT !.signed = sg] \/ row' = [row EXCEPT !.signed = sg, !.status = "pending_funding"]
  BY <1>1, <1>4, <1>5 DEF Copy
<1>7. row' \in Copy /\ row'.ms = row.ms /\ row'.status \in {row.status, "pending_funding"}
  BY <1>1, <1>6 DEF Copy, RowStatus
<1> QED BY <1>1, <1>2, <1>3, <1>7, RowLater

LEMMA DepositServed ==
    ASSUME ServerInv, Deposit, Mined, UNCHANGED <<row, dispute>>, scene' = scene
    PROVE  Served
<1>1. Call(Client, 1)
  BY Constants DEF Deposit, Call
<1>2. Heard' /\ [Next]_chainVars
  BY <1>1, Constants, MinedHeard
<1> QED BY <1>2, ChainFacts, RowLater DEF ServerInv

LEMMA RecordServed ==
    ASSUME ServerInv, RecordFunding, Mined, scene' = scene
    PROVE  Served
<1>1. row \in Copy /\ row.ms \in [Indices -> MsRow] /\ dispute \in DisputeStatus
  BY ChainFacts DEF ServerInv
<1>2. UNCHANGED chainVars /\ dispute' = dispute
  BY DEF RecordFunding
<1>3. contracts[1].status = "InProgress" /\ deposited' = deposited
      /\ row' = [row EXCEPT !.status = "active",
                            !.ms = [i \in Indices |-> [@[i] EXCEPT !.status = "in_progress"]]]
  BY DEF RecordFunding, CanRecordFunding, chainVars
<1>4. deposited[1] = Deal
  <2>1. milestones[1][0].status # "Pending"
    BY <1>3, ChainFacts, Constants DEF Agree
  <2> QED BY <2>1, ChainFacts DEF Books, ServerInv
<1>5. row'.status = "active"
      /\ row'.ms = [i \in Indices |-> [row.ms[i] EXCEPT !.status = "in_progress"]]
  BY <1>1, <1>3 DEF Copy
<1>6. row'.ms \in [Indices -> MsRow] /\ \A i \in Indices : row'.ms[i].status = "in_progress"
  BY <1>1, <1>5 DEF MsRow
<1>7. row' \in Copy
  BY <1>1, <1>3, <1>5, <1>6 DEF Copy, RowStatus
<1>8. Heard' /\ [Next]_chainVars
  BY <1>2, MinedHeard
<1> QED BY <1>1, <1>2, <1>3, <1>4, <1>5, <1>6, <1>7, <1>8, RowLater

\* A milestone of the row that changes is no approved one.
LEMMA OneMilestone ==
    ASSUME ServerInv, Mined, scene' = scene, NEW s \in Address, Call(s, 1), dispute' = dispute,
           NEW i \in Indices, NEW m \in MsRow, m.status # "approved", row' = [row EXCEPT !.ms[i] = m]
    PROVE  Served
<1>1. row \in Copy /\ row.ms \in [Indices -> MsRow] /\ dispute \in DisputeStatus
  BY ChainFacts DEF ServerInv
<1>2. Heard' /\ [Next]_chainVars
  BY MinedHeard
<1>3. PICK ms \in [Indices -> MsRow] : ms = [row.ms EXCEPT ![i] = m]
  BY <1>1
<1>4. row' = [row EXCEPT !.ms = ms]
  BY <1>1, <1>3 DEF Copy
<1>5. row' \in Copy /\ row'.ms = ms /\ row'.status = row.status
  BY <1>1, <1>4 DEF Copy
<1>6. ms[i] = m /\ \A j \in Indices \ {i} : ms[j] = row.ms[j]
  BY <1>1, <1>3
<1> QED BY <1>1, <1>2, <1>5, <1>6, RowLater

LEMMA DeliverServed ==
    ASSUME ServerInv, NEW i \in Indices, NEW cid, cid \in Cid \union {NoCid}, Deliver(i, cid),
           Mined, scene' = scene
    PROVE  Served
<1>1. SubmitMilestone(Owner, 1, i, cid) /\ cid \in Cid
  BY DEF Deliver, SubmitMilestone, CanSubmit
<1>2. Call(Owner, 1)
  BY <1>1 DEF Call
<1>3. PICK m \in MsRow : m = [status |-> "submitted", cid |-> cid]
  BY <1>1 DEF MsRow
<1>4. row' = [row EXCEPT !.ms[i] = m] /\ m.status # "approved" /\ dispute' = dispute
  BY <1>3 DEF Deliver
<1> QED BY <1>2, <1>3, <1>4, Constants, OneMilestone

LEMMA SendBackServed ==
    ASSUME ServerInv, NEW i \in Indices, SendBack(i), Mined, scene' = scene
    PROVE  Served
<1>1. Call(Owner, 1)
  BY DEF SendBack, Call
<1>2. PICK m \in MsRow : m = [status |-> "in_progress", cid |-> NoCid]
  BY DEF MsRow
<1>3. row' = [row EXCEPT !.ms[i] = m] /\ m.status # "approved" /\ dispute' = dispute
  BY <1>2 DEF SendBack
<1> QED BY <1>1, <1>2, <1>3, Constants, OneMilestone

LEMMA ApproveServed ==
    ASSUME ServerInv, NEW i \in Indices, ApproveMilestone(Client, 1, i), Mined,
           UNCHANGED <<row, dispute>>, scene' = scene
    PROVE  Served /\ milestones'[1][i].status = "Approved"
<1>1. Call(Client, 1)
  BY DEF Call
<1>2. Heard' /\ [Next]_chainVars
  BY <1>1, Constants, MinedHeard
<1>3. milestones'[1][i].status = "Approved"
  BY ChainFacts, Constants DEF ApproveMilestone, CanApprove, Milestone
<1> QED BY <1>2, <1>3, ChainFacts, RowLater DEF ServerInv

LEMMA DisputeServed ==
    ASSUME ServerInv, Dispute, Mined, scene' = scene
    PROVE  Served
<1>1. row \in Copy /\ row.ms \in [Indices -> MsRow]
  BY ChainFacts
<1>2. Call(Owner, 1) /\ row' = [row EXCEPT !.status = "disputed"] /\ dispute' = "open"
  BY DEF Dispute, Call
<1>3. Heard' /\ [Next]_chainVars
  BY <1>2, Constants, MinedHeard
<1>4. row' \in Copy /\ row'.ms = row.ms /\ row'.status = "disputed"
  BY <1>1, <1>2 DEF Copy, RowStatus
<1>5. dispute' \in DisputeStatus
  BY <1>2 DEF DisputeStatus
<1> QED BY <1>1, <1>3, <1>4, <1>5, RowLater

LEMMA DecideServed ==
    ASSUME ServerInv, NEW release \in BOOLEAN, Decide(release), Mined, scene' = scene
    PROVE  Served
<1>1. row \in Copy /\ row.ms \in [Indices -> MsRow]
  BY ChainFacts
<1>2. ResolveDispute(Owner, 1, release)
      /\ row' = [row EXCEPT !.status = IF release THEN "completed" ELSE "cancelled"]
      /\ dispute' = IF release THEN "released" ELSE "refunded"
  BY DEF Decide
<1>3. Heard' /\ [Next]_chainVars
  <2>1. Call(Owner, 1)
    BY <1>2 DEF Call
  <2> QED BY <2>1, Constants, MinedHeard
<1>4. contracts'[1].status = IF release THEN "Completed" ELSE "Cancelled"
  BY <1>2, ChainFacts, Constants DEF ResolveDispute, EscrowContract
<1>5. /\ row' \in Copy /\ row'.ms = row.ms
      /\ row'.status = IF release THEN "completed" ELSE "cancelled"
  BY <1>1, <1>2 DEF Copy, RowStatus
<1>6. dispute' \in DisputeStatus
  BY <1>2 DEF DisputeStatus
<1> QED BY <1>1, <1>3, <1>4, <1>5, <1>6, RowLater

LEMMA DeleteServed ==
    ASSUME ServerInv, DeleteDispute, Mined, scene' = scene
    PROVE  Served
<1>1. UNCHANGED <<chainVars, row>> /\ dispute' \in DisputeStatus
  BY DEF DeleteDispute, DisputeStatus
<1>2. Heard' /\ [Next]_chainVars
  BY <1>1, MinedHeard
<1> QED BY <1>1, <1>2, ChainFacts, RowLater

-----------------------------------------------------------------------------
(* What the listener writes, however late and in whatever order.           *)

LEMMA LogsBorne ==
    ASSUME ServerInv, NEW n \in 1 .. Len(unread), NEW heard, NEW name,
           NEW t \in LogsOf(n, heard, name)
    PROVE  t[1] \in 1 .. n /\ t[2].name = name /\ Bears(t[2])
<1>1. PICK u : u = unread
  OBVIOUS
<1>2. /\ u \in Seq(Block) /\ n \in 1 .. Len(u)
      /\ \A b \in 1 .. Len(u) : \A e \in u[b].logs : Bears(e)
  BY <1>1 DEF ServerInv, Heard
<1>3. t[1] \in 1 .. n /\ t[2] \in u[t[1]].logs /\ t[2].name = name
  BY <1>1 DEF LogsOf
<1>4. t[1] \in 1 .. Len(u)
  BY <1>2, <1>3
<1> QED BY <1>2, <1>3, <1>4

\* A milestone after a batch: nothing is taken for approved that is not.
LEMMA HeardFacts ==
    ASSUME ServerInv, NEW n \in 1 .. Len(unread), NEW heard, NEW i \in Indices,
           NEW m, m = HeardMilestone(n, heard, i)
    PROVE  /\ m \in MsRow
           /\ m.status = "approved" =>
                 row.ms[i].status = "approved" \/ milestones[1][i].status = "Approved"
<1>1. row.ms[i] \in MsRow
  BY ChainFacts
<1>2. PICK u : u = unread /\ u \in Seq(Block) /\ n \in 1 .. Len(u)
  BY DEF ServerInv, Heard
<1>3. ASSUME NEW t \in LogsOf(n, heard, "MilestoneApproved"), t[2].index = i
      PROVE  milestones[1][i].status = "Approved"
  <2>1. t[2].name = "MilestoneApproved" /\ Bears(t[2])
    BY LogsBorne
  <2> QED BY <1>3, <2>1 DEF Bears
<1>4. BlocksOf(n, heard, "MilestoneApproved", i) # {} => milestones[1][i].status = "Approved"
  BY <1>3 DEF BlocksOf
<1>5. PICK sent : sent = BlocksOf(n, heard, "MilestoneSubmitted", i)
  OBVIOUS
<1>6. ASSUME sent # {}
      PROVE  u[CHOOSE b \in sent : \A a \in sent : a <= b].cids[i] \in Cid \union {NoCid}
  <2>1. sent \subseteq 1 .. n
    BY <1>5, LogsBorne DEF BlocksOf
  <2>2. sent \in SUBSET (0 .. n) /\ n \in Nat
    BY <1>2, <2>1
  <2>3. \E b \in sent : \A a \in sent : a <= b
    BY <1>6, <2>2, LargestIn
  <2>4. PICK last \in sent : last = CHOOSE b \in sent : \A a \in sent : a <= b
    BY <2>3
  <2>5. u[last] \in Block
    BY <1>2, <2>1
  <2> QED BY <2>4, <2>5 DEF Block
<1>7. PICK st, cid :
          /\ m = [status |-> st, cid |-> cid]
          /\ st \in {"in_progress", "submitted", row.ms[i].status}
             \/ (st = "approved" /\ milestones[1][i].status = "Approved")
          /\ cid \in Cid \union {NoCid}
  <2>1. row.ms[i].cid \in Cid \union {NoCid}
    BY <1>1 DEF MsRow
  <2> QED BY <1>2, <1>4, <1>5, <1>6, <2>1 DEF HeardMilestone
<1> QED BY <1>1, <1>7 DEF MsRow

LEMMA ListenServed ==
    ASSUME ServerInv, Listen, scene' = scene
    PROVE  Served
<1>1. row \in Copy /\ row.ms \in [Indices -> MsRow] /\ dispute \in DisputeStatus
  BY ChainFacts DEF ServerInv
<1>2. PICK n \in 1 .. Len(unread), heard \in SUBSET Listened, again \in BOOLEAN :
          /\ row' = [row EXCEPT !.ms = [i \in Indices |-> HeardMilestone(n, heard, i)],
                                !.status = HeardStatus(n, heard)]
          /\ dispute' = HeardDispute(n, heard)
          /\ unread' = IF again THEN unread ELSE SubSeq(unread, n + 1, Len(unread))
  BY DEF Listen
<1>3. UNCHANGED chainVars /\ [Next]_chainVars
      /\ contracts' = contracts /\ milestones' = milestones /\ deposited' = deposited
  BY DEF Listen, chainVars
<1>4. PICK ms : ms = [i \in Indices |-> HeardMilestone(n, heard, i)]
  OBVIOUS
<1>5. ms \in [Indices -> MsRow]
  BY <1>4, HeardFacts
<1>6. PICK st : st = HeardStatus(n, heard)
                /\ (st = row.status \/ (st = "completed" /\ contracts[1].status = "Completed"))
  <2>1. ASSUME NEW t \in LogsOf(n, heard, "ContractCompleted")
        PROVE  contracts[1].status = "Completed"
    BY LogsBorne DEF Bears
  <2> QED BY <2>1 DEF HeardStatus
<1>7. row' = [row EXCEPT !.ms = ms, !.status = st]
  BY <1>2, <1>4, <1>6
<1>8. row' \in Copy /\ row'.ms = ms /\ row'.status = st
  BY <1>1, <1>5, <1>6, <1>7 DEF Copy, RowStatus
<1>9. ASSUME NEW i \in Indices
      PROVE  \/ row'.ms[i].status = row.ms[i].status
             \/ row'.ms[i].status # "approved"
             \/ milestones'[1][i].status = "Approved"
  <2>1. PICK m : m = HeardMilestone(n, heard, i) /\ ms[i] = m
    BY <1>4
  <2> QED BY <1>3, <1>8, <2>1, HeardFacts
<1>10. dispute' \in DisputeStatus
  BY <1>1, <1>2 DEF HeardDispute, DisputeStatus
<1>11. Heard'
  <2>1. CASE unread' = unread
    BY <1>3, <2>1, HeardLater
  <2>2. CASE unread' = SubSeq(unread, n + 1, Len(unread))
    <3>1. PICK u, v : u = unread /\ v = SubSeq(u, n + 1, Len(u))
      OBVIOUS
    <3>2. /\ u \in Seq(Block) /\ n \in 1 .. Len(u) /\ Len(u) \in Nat
          /\ \A b \in 1 .. Len(u) : \A e \in u[b].logs : Bears(e)
      BY <3>1 DEF ServerInv, Heard
    <3>3. v \in Seq(Block) /\ Len(v) = Len(u) - n /\ \A b \in 1 .. Len(v) : v[b] = u[b + n]
      BY <3>1, <3>2
    <3>4. \A b \in 1 .. Len(v) : b + n \in 1 .. Len(u)
      BY <3>2, <3>3
    <3>5. \A b \in 1 .. Len(v) : \A e \in v[b].logs : Bears(e)
      BY <3>2, <3>3, <3>4
    <3>6. \A e : Bears(e) => Bears(e)'
      BY <1>3 DEF Bears
    <3>7. unread' = v
      BY <2>2, <3>1
    <3> QED BY <3>3, <3>5, <3>6, <3>7 DEF Heard
  <2> QED BY <1>2, <2>1, <2>2
<1>12. \/ row'.status = row.status
       \/ row'.status = "completed" /\ contracts'[1].status = "Completed"
  BY <1>3, <1>6, <1>8
<1> QED BY <1>3, <1>5, <1>8, <1>9, <1>10, <1>11, <1>12, RowLater

\* Everything a request does, and everything the other parties do.
LEMMA HandleServed ==
    ASSUME ServerInv, NEW f \in FlowType, Handle(f), Mined, scene' = scene
    PROVE  Served
<1>1. f.index \in Indices /\ f.cid \in Cid \union {NoCid}
  BY DEF FlowType
<1>2. CASE f.op = "hire" /\ Accept
  BY <1>2, AcceptServed
<1>3. CASE f.op = "sign" /\ Sign(lens)
  <2>1. PICK p : p = lens
    OBVIOUS
  <2> QED BY <1>3, <2>1, SignServed
<1>4. CASE f.op = "fund" /\ RecordFunding
  BY <1>4, RecordServed
<1>5. CASE f.op = "submit" /\ Deliver(f.index, f.cid)
  BY <1>1, <1>5, DeliverServed
<1>6. CASE f.op = "reject" /\ SendBack(f.index)
  BY <1>1, <1>6, SendBackServed
<1>7. CASE f.op = "dispute" /\ Dispute
  BY <1>7, DisputeServed
<1>8. CASE f.op \in {"release", "refund"} /\ Decide(f.op = "release")
  <2>1. PICK release \in BOOLEAN : release <=> (f.op = "release")
    OBVIOUS
  <2>2. Decide(release)
    BY <1>8, <2>1 DEF Decide, ResolveDispute
  <2> QED BY <2>2, DecideServed
<1>9. CASE f.op = "delete" /\ DeleteDispute
  BY <1>9, DeleteServed
<1> QED BY <1>2, <1>3, <1>4, <1>5, <1>6, <1>7, <1>8, <1>9 DEF Handle

LEMMA ElsewhereServed ==
    ASSUME ServerInv, Elsewhere
    PROVE  Served
<1>1. scene' = scene
  BY DEF Elsewhere, viewVars
<1>2. CASE Mined /\ FreelancerElsewhere
  <2>1. CASE Sign("freelancer")
    BY <1>1, <1>2, <2>1, SignServed
  <2>2. CASE \E i \in Indices, cid \in Cid : Deliver(i, cid)
    BY <1>1, <1>2, <2>2, DeliverServed
  <2>3. CASE Dispute
    BY <1>1, <1>2, <2>3, DisputeServed
  <2> QED BY <1>2, <2>1, <2>2, <2>3 DEF FreelancerElsewhere
<1>3. CASE Mined /\ ClientElsewhere
  <2>1. CASE Accept
    BY <1>1, <1>3, <2>1, AcceptServed
  <2>2. CASE Sign("client")
    BY <1>1, <1>3, <2>2, SignServed
  <2>3. CASE Deposit /\ UNCHANGED <<row, dispute>>
    BY <1>1, <1>3, <2>3, DepositServed
  <2>4. CASE RecordFunding
    BY <1>1, <1>3, <2>4, RecordServed
  <2>5. CASE \E i \in Indices : ApproveMilestone(Client, 1, i) /\ UNCHANGED <<row, dispute>>
    BY <1>1, <1>3, <2>5, ApproveServed
  <2> QED BY <1>3, <2>1, <2>2, <2>3, <2>4, <2>5 DEF ClientElsewhere
<1>4. CASE Mined /\ RejectedElsewhere
  BY <1>1, <1>4, SendBackServed DEF RejectedElsewhere
<1>5. CASE Mined /\ AdminElsewhere
  BY <1>1, <1>5, DecideServed DEF AdminElsewhere
<1>6. CASE Listen
  BY <1>1, <1>6, ListenServed
<1> QED BY <1>2, <1>3, <1>4, <1>5, <1>6 DEF Elsewhere, PartiesElsewhere
-----------------------------------------------------------------------------
(* The page's steps.                                                       *)

\* A step of the server after which the page holds what was honest before, and handlers
\* that are sincere.
LEMMA ViewLater ==
    ASSUME Served, ViewInv,
           NEW l, l = list', l = Nothing \/ Honest(l),
           NEW m, m = modal', m = Nothing \/ Honest(m),
           NEW c, c = cache',
           c \in {NoCache, cache} \/ \E a \in {"fresh", "stale"} : \E copy :
               c = [age |-> a, copy |-> copy] /\ (copy = Nothing \/ Full(copy)),
           \A f \in flows' : Sincere(f) \/ Sincere(f)'
    PROVE  PagesInv'
<1>1. /\ ServerInv'
      /\ \A copy : Honest(copy) => Honest(copy)'
      /\ \A f : Sincere(f) => Sincere(f)'
  BY DEF Served
<1>2. list' = Nothing \/ Honest(list)'
  <2>1. l = Nothing \/ Honest(l)'
    BY <1>1
  <2> QED BY <2>1 DEF Honest
<1>3. modal' = Nothing \/ Honest(modal)'
  <2>1. m = Nothing \/ Honest(m)'
    BY <1>1
  <2> QED BY <2>1 DEF Honest
<1>4. /\ c \in [age : {"none", "fresh", "stale"}, copy : Copy \union {Nothing}]
      /\ c.copy = Nothing \/ Full(c.copy)
      /\ c.age = "none" => c = NoCache
  <2>1. CASE c = NoCache
    BY <2>1 DEF NoCache
  <2>2. CASE c = cache
    BY <2>2 DEF ViewInv
  <2>3. ASSUME NEW a \in {"fresh", "stale"}, NEW copy,
               c = [age |-> a, copy |-> copy], copy = Nothing \/ Full(copy)
        PROVE  /\ c \in [age : {"none", "fresh", "stale"}, copy : Copy \union {Nothing}]
               /\ c.copy = Nothing \/ Full(c.copy)
               /\ c.age = "none" => c = NoCache
    <3>1. copy \in Copy \union {Nothing}
      BY <2>3 DEF Full, Honest
    <3> QED BY <2>3, <3>1
  <2> QED BY <2>1, <2>2, <2>3
<1>5. cache'.copy = Nothing \/ Full(cache.copy)'
  <2>1. PICK copy : copy = c.copy
    OBVIOUS
  <2>2. copy = Nothing \/ (Honest(copy)' /\ copy.ms \in [Indices -> MsRow])
    BY <1>1, <1>4, <2>1 DEF Full
  <2>3. cache'.copy = copy
    BY <2>1
  <2> QED BY <2>2, <2>3 DEF Full, Honest
<1>6. \A f \in flows' : Sincere(f)'
  BY <1>1
<1>7. ViewInv'
  BY <1>2, <1>3, <1>4, <1>5, <1>6 DEF ViewInv
<1> QED BY <1>1, <1>7 DEF PagesInv

\* A page that shows and remembers nothing new.
LEMMA FlowsOnly ==
    ASSUME Served, ViewInv, UNCHANGED <<list, modal, cache>>,
           \A f \in flows' : Sincere(f) \/ Sincere(f)'
    PROVE  PagesInv'
<1>1. PICK l : l = list'
  OBVIOUS
<1>2. PICK m : m = modal'
  OBVIOUS
<1>3. PICK c : c = cache'
  OBVIOUS
<1>4. (l = Nothing \/ Honest(l)) /\ (m = Nothing \/ Honest(m)) /\ c \in {NoCache, cache}
  BY <1>1, <1>2, <1>3 DEF ViewInv
<1> QED BY <1>1, <1>2, <1>3, <1>4, ViewLater

LEMMA ElsewhereStep == PagesInv /\ Elsewhere => PagesInv'
<1> SUFFICES ASSUME ServerInv, ViewInv, Elsewhere PROVE PagesInv'
  BY DEF PagesInv
<1>1. UNCHANGED <<list, modal, cache, flows>>
  BY DEF Elsewhere, viewVars
<1> QED BY <1>1, ElsewhereServed, FlowsOnly DEF ViewInv

LEMMA ListOnly ==
    ASSUME Served, ViewInv, UNCHANGED <<modal, cache>>,
           NEW l, l = list', l = Nothing \/ Honest(l),
           \A f \in flows' : Sincere(f) \/ Sincere(f)'
    PROVE  PagesInv'
<1>1. PICK m : m = modal'
  OBVIOUS
<1>2. PICK c : c = cache'
  OBVIOUS
<1>3. (m = Nothing \/ Honest(m)) /\ c \in {NoCache, cache}
  BY <1>1, <1>2 DEF ViewInv
<1> QED BY <1>1, <1>2, <1>3, ViewLater

\* An answer of the server to a read tells what the row, or the dispute's, is.
LEMMA MineHonest ==
    ASSUME ServerInv, NEW a, a = Mine
    PROVE  /\ lens = "admin" => a \in AdminAnswer
           /\ lens # "admin" => a = Nothing \/ Full(a)
  BY DEF ServerInv, Mine, AdminAnswer

LEMMA AskSincere ==
    ASSUME ServerInv, NEW f \in FlowType, NEW g, g = AskList(f)
    PROVE  Sincere(g)
<1>1. PICK a : a = Mine
  OBVIOUS
<1>2. a = Nothing \/ Full(a) \/ (lens = "admin" /\ a \in AdminAnswer)
  BY <1>1, MineHonest
<1>3. a \in Copy \union {Nothing} \union AdminAnswer
  BY <1>2 DEF Full, Honest
<1>4. g = [f EXCEPT !.stage = "reading", !.answer = a]
  BY <1>1 DEF AskList
<1>5. g \in FlowType /\ g.stage = "reading" /\ g.answer = a
  BY <1>3, <1>4 DEF FlowType, FlowStage
<1>6. lens = "admin" => a \in AdminAnswer
  BY <1>1, MineHonest
<1> QED BY <1>2, <1>5, <1>6 DEF Sincere

LEMMA PollSincere ==
    ASSUME ServerInv, NEW op \in {"read", "refresh"}, NEW g, g = PollFor(op)
    PROVE  Sincere(g)
<1>1. PICK f : f = Flow(op, 0, NoCid, "sent")
  OBVIOUS
<1>2. f \in FlowType
  BY <1>1, Constants DEF Flow, FlowType, Operations, FlowStage
<1>3. g = AskList(f)
  BY <1>1 DEF PollFor
<1> QED BY <1>2, <1>3, AskSincere

\* What the cache shows is honest, and so is the answer that a stale one asks for.
LEMMA GetStep ==
    ASSUME ServerInv, ViewInv, Served, NEW left, left \subseteq flows, Get(left), UNCHANGED modal
    PROVE  PagesInv'
<1>1. PICK l : l = list'
  OBVIOUS
<1>2. l = Nothing \/ Honest(l)
  BY <1>1 DEF ViewInv, Get, Full
<1>3. PICK g : g = PollFor("refresh")
  OBVIOUS
<1>4. flows' \subseteq flows \union {g} /\ UNCHANGED cache
  BY <1>3 DEF Get
<1>5. \A f \in flows' : Sincere(f)
  BY <1>3, <1>4, PollSincere DEF ViewInv
<1> QED BY <1>1, <1>2, <1>4, <1>5, ListOnly

LEMMA PollStep ==
    ASSUME ServerInv, ViewInv, Served, StartPoll, UNCHANGED modal
    PROVE  PagesInv'
<1>1. PICK g : g = PollFor("read")
  OBVIOUS
<1>2. flows' = flows \union {g} /\ UNCHANGED <<list, cache>>
  BY <1>1 DEF StartPoll
<1>3. \A f \in flows' : Sincere(f)
  BY <1>1, <1>2, PollSincere DEF ViewInv
<1> QED BY <1>2, <1>3, FlowsOnly

LEMMA SameServed == ServerInv /\ UNCHANGED <<serverVars, scene>> => Served
<1> SUFFICES ASSUME ServerInv, UNCHANGED <<serverVars, scene>> PROVE Served
  OBVIOUS
<1>1. UNCHANGED <<chainVars, row, unread, scene>> /\ dispute' \in DisputeStatus
  BY DEF serverVars, ServerInv
<1> QED BY <1>1, NothingServed

LEMMA FetchStep == PagesInv /\ Fetch => PagesInv'
<1> SUFFICES ASSUME ServerInv, ViewInv, Fetch PROVE PagesInv'
  BY DEF PagesInv
<1>1. Served /\ UNCHANGED modal
  BY SameServed DEF Fetch, ClientFetch, FreelancerFetch, AdminFetch
<1>2. CASE Get(flows)
  BY <1>1, <1>2, GetStep
<1>3. CASE StartPoll
  BY <1>1, <1>3, PollStep
<1> QED BY <1>2, <1>3 DEF Fetch, ClientFetch, FreelancerFetch, AdminFetch, FetchContracts

LEMMA AgeStep == PagesInv /\ Age => PagesInv'
<1> SUFFICES ASSUME ServerInv, ViewInv, Age PROVE PagesInv'
  BY DEF PagesInv
<1>1. Served
  BY SameServed DEF Age
<1>2. PICK l : l = list'
  OBVIOUS
<1>3. PICK m : m = modal'
  OBVIOUS
<1>4. PICK c : c = cache'
  OBVIOUS
<1>5. (l = Nothing \/ Honest(l)) /\ (m = Nothing \/ Honest(m)) /\ \A f \in flows' : Sincere(f)
  BY <1>2, <1>3 DEF ViewInv, Age
<1>6. PICK copy : copy = cache.copy
  OBVIOUS
<1>7. c = NoCache \/ (c = [age |-> "stale", copy |-> copy] /\ (copy = Nothing \/ Full(copy)))
  BY <1>4, <1>6 DEF Age, ViewInv
<1> QED BY <1>1, <1>2, <1>3, <1>4, <1>5, <1>7, ViewLater

\* What a click writes into the list.
LEMMA ShownHonest ==
    ASSUME ServerInv, ViewInv, NEW i \in Indices, NEW status \in {"approved", "rejected"},
           status = "approved" => milestones[1][i].status = "Approved",
           NEW l, l = ShowMilestone(i, status)
    PROVE  l = Nothing \/ Honest(l)
<1>1. CASE l = list
  BY <1>1 DEF ViewInv
<1>2. CASE l # list
  <2>1. list # Nothing /\ i \in DOMAIN list.ms /\ l = [list EXCEPT !.ms[i].status = status]
    BY <1>2 DEF ShowMilestone, Has
  <2>2. Honest(list) /\ list \in Copy
    BY <2>1 DEF ViewInv, Honest
  <2>3. list.ms \in [Indices -> MsRow]
    BY <2>1, <2>2 DEF Copy
  <2>4. PICK ms \in [Indices -> MsRow] : ms = [list.ms EXCEPT ![i].status = status]
    BY <2>3 DEF MsRow
  <2>5. l = [list EXCEPT !.ms = ms]
    BY <2>1, <2>2, <2>4 DEF Copy
  <2>6. /\ l \in Copy /\ l.ms = ms /\ l.status = list.status
    BY <2>2, <2>5 DEF Copy
  <2>7. DOMAIN ms = Indices /\ DOMAIN list.ms = Indices
        /\ ms[i].status = status /\ \A j \in Indices \ {i} : ms[j] = list.ms[j]
    BY <2>3, <2>4 DEF MsRow
  <2>8. \A j \in DOMAIN l.ms :
          l.ms[j].status = "approved" => milestones[1][j].status = "Approved"
    BY <2>2, <2>6, <2>7 DEF Honest
  <2> QED BY <2>2, <2>6, <2>8 DEF Honest
<1> QED BY <1>1, <1>2

LEMMA DisputedHonest ==
    ASSUME ViewInv, NEW l, l = ShowDisputed
    PROVE  l = Nothing \/ Honest(l)
<1>1. CASE list = Nothing
  BY <1>1 DEF ShowDisputed
<1>2. CASE list # Nothing
  <2>1. Honest(list) /\ list \in Copy /\ l = [list EXCEPT !.status = "disputed"]
    BY <1>2 DEF ViewInv, Honest, ShowDisputed
  <2>2. l \in Copy /\ l.ms = list.ms /\ l.status = "disputed"
    BY <2>1 DEF Copy, RowStatus
  <2> QED BY <2>1, <2>2 DEF Honest
<1> QED BY <1>1, <1>2

\* The handler that a click starts.
LEMMA FlowSincere ==
    ASSUME NEW op \in Operations, NEW i \in Indices, NEW cid, cid \in Cid \union {NoCid},
           NEW stage, stage \in {"upload", "wallet", "sent"}, NEW f, f = Flow(op, i, cid, stage)
    PROVE  Sincere(f)
<1>1. f = [op |-> op, index |-> i, cid |-> cid, stage |-> stage, live |-> TRUE, answer |-> Nothing]
  BY DEF Flow
<1>2. f \in FlowType
  BY <1>1 DEF FlowType, FlowStage
<1> QED BY <1>1, <1>2 DEF Sincere

\* A click that starts a handler, and what it shows at once.
LEMMA BeginStep ==
    ASSUME ServerInv, ViewInv, NEW op, NEW i, NEW cid, NEW stage, Begin(op, i, cid, stage),
           NEW f, f = Flow(op, i, cid, stage), Sincere(f),
           NEW l, l = list', l = Nothing \/ Honest(l)
    PROVE  PagesInv'
<1>1. Served
  BY SameServed DEF Begin
<1>2. \A g \in flows' : Sincere(g)
  BY DEF Begin, ViewInv
<1> QED BY <1>1, <1>2, ListOnly DEF Begin

LEMMA SimpleBegin ==
    ASSUME ServerInv, ViewInv, NEW op \in Operations, NEW i \in Indices,
           NEW cid, cid \in Cid \union {NoCid}, NEW stage, stage \in {"upload", "wallet", "sent"},
           Begin(op, i, cid, stage), NEW l, l = list', l = Nothing \/ Honest(l)
    PROVE  PagesInv'
<1>1. PICK f : f = Flow(op, i, cid, stage)
  OBVIOUS
<1>2. Sincere(f)
  BY <1>1, FlowSincere
<1> QED BY <1>1, <1>2, BeginStep

LEMMA ClickStep ==
    ASSUME ServerInv, ViewInv, ClientClicks \/ FreelancerClicks \/ AdminClicks
    PROVE  PagesInv'
<1>0. PICK l : l = list'
  OBVIOUS
<1>a. UNCHANGED list \/ list' = ShowDisputed => l = Nothing \/ Honest(l)
  BY <1>0, DisputedHonest DEF ViewInv
<1>b. 0 \in Indices /\ NoCid \in Cid \union {NoCid}
      /\ {"hire", "sign", "fund", "submit", "reject", "dispute", "release", "refund",
          "delete", "approve"} \subseteq Operations
  BY Constants DEF Operations
<1>1. CASE OpenDetails
  <2>1. Served
    BY <1>1, SameServed DEF OpenDetails
  <2>2. PICK m : m = modal'
    OBVIOUS
  <2>3. PICK c : c = cache'
    OBVIOUS
  <2>4. (l = Nothing \/ Honest(l)) /\ (m = Nothing \/ Honest(m)) /\ c \in {NoCache, cache}
        /\ \A f \in flows' : Sincere(f)
    BY <1>0, <1>1, <2>2, <2>3 DEF OpenDetails, ViewInv
  <2> QED BY <1>0, <2>1, <2>2, <2>3, <2>4, ViewLater
<1>2. CASE CloseDetails
  <2>1. Served
    BY <1>2, SameServed DEF CloseDetails
  <2>2. PICK m : m = modal'
    OBVIOUS
  <2>3. PICK c : c = cache'
    OBVIOUS
  <2>4. (l = Nothing \/ Honest(l)) /\ m = Nothing /\ c \in {NoCache, cache}
        /\ \A f \in flows' : Sincere(f)
    BY <1>0, <1>2, <2>2, <2>3 DEF CloseDetails, ViewInv
  <2> QED BY <1>0, <2>1, <2>2, <2>3, <2>4, ViewLater
<1>3. ASSUME NEW i \in Indices, ClickApprove(i) PROVE PagesInv'
  <2>1. Begin("approve", i, NoCid, "wallet") /\ UNCHANGED list
    BY <1>3 DEF ClickApprove
  <2> QED BY <1>0, <1>a, <1>b, <2>1, SimpleBegin
<1>4. ASSUME NEW i \in Indices, ClickReject(i) PROVE PagesInv'
  <2>1. Begin("reject", i, NoCid, "sent") /\ l = ShowMilestone(i, "rejected")
    BY <1>0, <1>4 DEF ClickReject
  <2>2. l = Nothing \/ Honest(l)
    BY <2>1, ShownHonest
  <2> QED BY <1>0, <1>b, <2>1, <2>2, SimpleBegin
<1>5. CASE ClickHire
  <2>1. Begin("hire", 0, NoCid, "sent") /\ UNCHANGED list
    BY <1>5 DEF ClickHire
  <2> QED BY <1>0, <1>a, <1>b, <2>1, SimpleBegin
<1>6. CASE ClickFund
  <2>1. Begin("fund", 0, NoCid, "wallet") /\ UNCHANGED list
    BY <1>6 DEF ClickFund
  <2> QED BY <1>0, <1>a, <1>b, <2>1, SimpleBegin
<1>7. CASE ClientSigns \/ FreelancerSigns
  <2>1. Begin("sign", 0, NoCid, "sent") /\ UNCHANGED list
    BY <1>7 DEF ClientSigns, FreelancerSigns
  <2> QED BY <1>0, <1>a, <1>b, <2>1, SimpleBegin
<1>8. CASE ClientDisputes \/ FreelancerDisputes
  <2>1. Begin("dispute", 0, NoCid, "sent") /\ list' = ShowDisputed
    BY <1>8 DEF ClientDisputes, FreelancerDisputes
  <2> QED BY <1>0, <1>a, <1>b, <2>1, SimpleBegin
<1>9. ASSUME NEW i \in Indices, NEW cid \in Cid, ClickSubmit(i, cid) PROVE PagesInv'
  <2>1. Begin("submit", i, cid, "upload") /\ UNCHANGED list
    BY <1>9 DEF ClickSubmit
  <2> QED BY <1>0, <1>a, <1>b, <2>1, SimpleBegin
<1>10. CASE AdminClicks
  <2>1. PICK op \in {"release", "refund", "delete"} : Begin(op, 0, NoCid, "sent") /\ UNCHANGED list
    BY <1>10 DEF AdminClicks, ClickDecide, ClickDelete
  <2> QED BY <1>0, <1>a, <1>b, <2>1, SimpleBegin
<1> QED BY <1>1, <1>2, <1>3, <1>4, <1>5, <1>6, <1>7, <1>8, <1>9, <1>10
        DEF ClientClicks, FreelancerClicks

-----------------------------------------------------------------------------
(* The steps of a handler.                                                 *)

\* A handler that moves on without an answer, or that outlives its page.
LEMMA MoveSincere ==
    ASSUME NEW f, Sincere(f)
    PROVE  /\ Sincere([f EXCEPT !.stage = "sent"])
           /\ Sincere([f EXCEPT !.live = FALSE])
<1>1. f \in FlowType
  BY DEF Sincere
<1>2. PICK g : g = [f EXCEPT !.stage = "sent"]
  OBVIOUS
<1>3. g \in FlowType /\ g.stage = "sent" /\ g.answer = f.answer
  BY <1>1, <1>2 DEF FlowType, FlowStage
<1>4. Sincere(g)
  BY <1>3 DEF Sincere
<1>5. PICK h : h = [f EXCEPT !.live = FALSE]
  OBVIOUS
<1>6. /\ h \in FlowType /\ h.stage = f.stage /\ h.answer = f.answer /\ h.op = f.op
      /\ h.index = f.index
  BY <1>1, <1>5 DEF FlowType
<1>7. Sincere(h)
  BY <1>6 DEF Sincere
<1> QED BY <1>2, <1>4, <1>5, <1>7

LEMMA MinedSincere ==
    ASSUME NEW f, Sincere(f), f.op = "approve" => milestones'[1][f.index].status = "Approved",
           Served, NEW g, g = [f EXCEPT !.stage = "mined"]
    PROVE  Sincere(g)'
<1>1. f \in FlowType /\ Sincere(f)'
  BY DEF Sincere, Served
<1>2. g \in FlowType /\ g.stage = "mined" /\ g.answer = f.answer /\ g.op = f.op /\ g.index = f.index
  BY <1>1 DEF FlowType, FlowStage
<1> QED BY <1>1, <1>2 DEF Sincere

LEMMA AnsweredSincere ==
    ASSUME NEW f, Sincere(f), Served, NEW a, a = Nothing \/ Full(a)',
           NEW stage \in {"ok", "error"},
           stage = "ok" /\ f.op \in {"sign", "fund", "submit"} => Full(a)',
           NEW g, g = [f EXCEPT !.stage = stage, !.answer = a]
    PROVE  Sincere(g)'
<1>1. f \in FlowType /\ a \in Copy \union {Nothing}
  BY DEF Sincere, Full, Honest
<1>2. g \in FlowType /\ g.stage = stage /\ g.answer = a /\ g.op = f.op
  BY <1>1 DEF FlowType, FlowStage
<1> QED BY <1>2 DEF Sincere

LEMMA ConfirmStep ==
    ASSUME ServerInv, ViewInv, NEW f \in flows, WalletConfirms(f)
    PROVE  PagesInv'
<1>1. Sincere(f) /\ f.index \in Indices
  BY DEF ViewInv, Sincere, FlowType
<1>2. scene' = scene /\ Mined /\ UNCHANGED <<row, dispute, list, modal, cache>>
  BY DEF WalletConfirms, viewVars
<1>3. Served /\ (f.op = "approve" => milestones'[1][f.index].status = "Approved")
  <2>1. CASE f.op = "approve" /\ ApproveMilestone(Client, 1, f.index)
    BY <1>1, <1>2, <2>1, ApproveServed
  <2>2. CASE f.op = "fund" /\ Deposit
    BY <1>2, <2>2, DepositServed
  <2> QED BY <2>1, <2>2 DEF WalletConfirms
<1>4. PICK g : g = [f EXCEPT !.stage = "mined"]
  OBVIOUS
<1>5. Sincere(g)'
  BY <1>1, <1>3, <1>4, MinedSincere
<1>6. \A h \in flows' : h \in flows \/ h = g
  BY <1>4 DEF WalletConfirms, AfterWallet, Move, Drop
<1>7. \A h \in flows' : Sincere(h) \/ Sincere(h)'
  BY <1>5, <1>6 DEF ViewInv
<1> QED BY <1>2, <1>3, <1>7, FlowsOnly

\* A funding that the wallet refuses has failed.
LEMMA ErrorSincere ==
    ASSUME NEW f, Sincere(f), f.stage = "wallet", NEW g, g = [f EXCEPT !.stage = "error"]
    PROVE  Sincere(g)
<1>1. f \in FlowType
  BY DEF Sincere
<1>2. g \in FlowType /\ g.stage = "error" /\ g.answer = f.answer
  BY <1>1 DEF FlowType, FlowStage
<1> QED BY <1>2 DEF Sincere

LEMMA RefuseStep ==
    ASSUME ServerInv, ViewInv, NEW f \in flows, WalletRefuses(f)
    PROVE  PagesInv'
<1>1. Served /\ UNCHANGED <<list, modal, cache>>
  BY SameServed DEF WalletRefuses, viewVars
<1>2. Sincere(f) /\ f.stage = "wallet"
  BY DEF ViewInv, WalletRefuses
<1>3. PICK g : g = [f EXCEPT !.stage = "error"]
  OBVIOUS
<1>4. flows' \subseteq flows \union {g}
  BY <1>3 DEF WalletRefuses, Move, Drop
<1>5. \A h \in flows' : Sincere(h)
  BY <1>2, <1>3, <1>4, ErrorSincere DEF ViewInv
<1> QED BY <1>1, <1>5, FlowsOnly

LEMMA PostStep ==
    ASSUME ServerInv, ViewInv, NEW f \in flows, PostAfterWallet(f)
    PROVE  PagesInv'
<1>1. Served /\ UNCHANGED <<modal, cache>>
  BY SameServed DEF PostAfterWallet
<1>2. Sincere(f) /\ f.index \in Indices /\ f.stage = "mined"
  BY DEF ViewInv, Sincere, FlowType, PostAfterWallet
<1>3. f.op = "approve" => milestones[1][f.index].status = "Approved"
  BY <1>2 DEF Sincere
<1>4. PICK l : l = list'
  OBVIOUS
<1>5. l = Nothing \/ Honest(l)
  <2>1. CASE f.op = "approve"
    <3>1. PICK i \in Indices : i = f.index
      BY <1>2
    <3>2. l = ShowMilestone(i, "approved") /\ milestones[1][i].status = "Approved"
      BY <1>3, <1>4, <2>1, <3>1 DEF PostAfterWallet
    <3> QED BY <3>2, ShownHonest
  <2>2. CASE f.op # "approve"
    BY <1>4, <2>2 DEF PostAfterWallet, ViewInv
  <2> QED BY <2>1, <2>2
<1>6. \A h \in flows' : Sincere(h)
  BY <1>2, MoveSincere DEF PostAfterWallet, Move, ViewInv
<1> QED BY <1>1, <1>4, <1>5, <1>6, ListOnly

LEMMA UploadStep ==
    ASSUME ServerInv, ViewInv, NEW f \in flows, Uploaded(f)
    PROVE  PagesInv'
<1>1. Served /\ UNCHANGED <<list, modal, cache>>
  BY SameServed DEF Uploaded
<1>2. \A h \in flows' : Sincere(h)
  BY MoveSincere DEF Uploaded, Move, Drop, ViewInv
<1> QED BY <1>1, <1>2, FlowsOnly

\* The handler goes on to read its list: what it waits for then is honest.
LEMMA ReaskStep ==
    ASSUME ServerInv, ViewInv, Served, NEW f \in flows,
           flows' = (flows \ {f}) \union {AskList(f)}, UNCHANGED <<list, modal, cache>>
    PROVE  PagesInv'
<1>1. f \in FlowType
  BY DEF ViewInv, Sincere
<1>2. PICK g : g = AskList(f)
  OBVIOUS
<1>3. \A h \in flows' : Sincere(h)
  BY <1>1, <1>2, AskSincere DEF ViewInv
<1> QED BY <1>3, FlowsOnly

LEMMA FailStep ==
    ASSUME ServerInv, ViewInv, NEW f \in flows, Fail(f)
    PROVE  PagesInv'
<1>1. Served /\ UNCHANGED modal
  BY SameServed DEF Fail
<1>2. CASE Get(flows \ {f})
  BY <1>1, <1>2, GetStep
<1>3. CASE flows' = (flows \ {f}) \union {AskList(f)} /\ UNCHANGED <<list, cache>>
  BY <1>1, <1>3, ReaskStep
<1>4. CASE Drop(f) /\ UNCHANGED <<list, cache>>
  BY <1>1, <1>4, FlowsOnly DEF ViewInv, Drop
<1> QED BY <1>2, <1>3, <1>4 DEF Fail, ReadAgain, AdminFails

\* The answer to a read, of whatever age.
LEMMA ArriveStep ==
    ASSUME ServerInv, ViewInv, NEW f \in flows, ReadArrives(f)
    PROVE  PagesInv'
<1>1. Served /\ UNCHANGED modal
  BY SameServed DEF ReadArrives
<1>2. Sincere(f) /\ \A g \in flows' : Sincere(g)
  BY DEF ReadArrives, Drop, ViewInv
<1>3. CASE UNCHANGED <<list, cache>>
  BY <1>1, <1>2, <1>3, FlowsOnly
<1>4. CASE ~UNCHANGED <<list, cache>>
  <2>1. PICK a : a = f.answer
    OBVIOUS
  <2>2. /\ lens # "admin" /\ list' \in {list, a}
        /\ cache' = [age |-> "fresh", copy |-> a]
    BY <1>4, <2>1 DEF ReadArrives
  <2>3. a = Nothing \/ Full(a)
    BY <1>2, <2>1, <2>2 DEF Sincere
  <2>4. PICK l : l = list'
    OBVIOUS
  <2>5. PICK m : m = modal'
    OBVIOUS
  <2>6. PICK c : c = cache'
    OBVIOUS
  <2>7. (l = Nothing \/ Honest(l)) /\ (m = Nothing \/ Honest(m))
    BY <1>1, <2>2, <2>3, <2>4, <2>5 DEF ViewInv, Full
  <2>8. c = [age |-> "fresh", copy |-> a]
    BY <2>2, <2>6
  <2> QED BY <1>1, <1>2, <2>3, <2>4, <2>5, <2>6, <2>7, <2>8, ViewLater
<1> QED BY <1>3, <1>4

\* The answer to an API call is the row as the handler left it.
LEMMA ServeStep ==
    ASSUME ServerInv, ViewInv, NEW f \in flows, Serve(f)
    PROVE  PagesInv'
<1>1. Sincere(f) /\ f \in FlowType
  BY DEF ViewInv, Sincere
<1>2. scene' = scene /\ UNCHANGED <<list, modal, cache>>
  BY DEF Serve, viewVars
<1>3. Served
  <2>1. CASE Handle(f) /\ Mined
    BY <1>1, <1>2, <2>1, HandleServed
  <2>2. CASE UNCHANGED serverVars
    BY <1>2, <2>2, SameServed
  <2> QED BY <2>1, <2>2 DEF Serve
<1>4. PICK a : a = row'
  OBVIOUS
<1>5. Full(a)'
  <2>1. Full(row)'
    BY <1>3 DEF Served, ServerInv
  <2> QED BY <1>4, <2>1 DEF Full, Honest
<1>6. ASSUME NEW stage \in {"ok", "error"}, NEW b \in {a, Nothing}, Answer(f, stage, b),
             stage = "ok" /\ f.op \in {"sign", "fund", "submit"} => b = a
      PROVE  \A h \in flows' : Sincere(h) \/ Sincere(h)'
  <2>1. PICK g : g = [f EXCEPT !.stage = stage, !.answer = b]
    OBVIOUS
  <2>2. Sincere(g)'
    BY <1>1, <1>3, <1>5, <1>6, <2>1, AnsweredSincere
  <2> QED BY <1>6, <2>1, <2>2 DEF Answer, ViewInv
<1>7. PICK stage \in {"ok", "error"}, b \in {a, Nothing} :
          /\ Answer(f, stage, b)
          /\ stage = "ok" /\ f.op \in {"sign", "fund", "submit"} => b = a
  BY <1>4 DEF Serve
<1> QED BY <1>2, <1>3, <1>6, <1>7, FlowsOnly

\* A party's page goes on with the answer.
LEMMA PartySucceeds ==
    ASSUME ServerInv, ViewInv, Served, cache' = cache, NEW f \in flows, f.stage = "ok",
           \/ lens = "client" /\ ClientSucceeds(f)
           \/ lens = "freelancer" /\ FreelancerSucceeds(f)
    PROVE  PagesInv'
<1>1. \A g \in flows' : Sincere(g)
  BY DEF ClientSucceeds, FreelancerSucceeds, Drop, ViewInv
<1>2. f \in FlowType /\ f.index \in Indices
      /\ (f.op \in {"sign", "fund", "submit"} => Full(f.answer))
  BY DEF ViewInv, Sincere, FlowType
<1>3. PICK l : l = list'
  OBVIOUS
<1>4. PICK m : m = modal'
  OBVIOUS
<1>5. PICK c : c = cache'
  OBVIOUS
<1>6. PICK a : a = f.answer
  OBVIOUS
<1>7. (m = Nothing \/ Honest(m)) /\ c \in {NoCache, cache}
  BY <1>4, <1>5 DEF ClientSucceeds, FreelancerSucceeds, ViewInv
<1>8. l = Nothing \/ Honest(l)
  <2>0. CASE l = list
    BY <2>0 DEF ViewInv
  <2>1. ASSUME list # Nothing, l = [list EXCEPT !.hired = TRUE] PROVE Honest(l)
    <3>1. Honest(list) /\ list \in Copy
      BY <2>1 DEF ViewInv, Honest
    <3>2. l \in Copy /\ l.ms = list.ms /\ l.status = list.status
      BY <2>1, <3>1 DEF Copy
    <3> QED BY <3>1, <3>2 DEF Honest
  <2>2. ASSUME f.op \in {"sign", "fund"}, l = formatContract(a) PROVE Honest(l)
    <3>1. Honest(a) /\ a \in Copy
      BY <1>2, <1>6, <2>2 DEF Full, Honest
    <3>2. l \in Copy /\ l.ms = <<>> /\ l.status = a.status
      BY <2>2, <3>1 DEF Copy, formatContract
    <3>3. \A i : i \notin DOMAIN l.ms
      BY <3>2
    <3> QED BY <3>1, <3>2, <3>3 DEF Honest
  <2>3. ASSUME lens = "freelancer", f.op = "submit", Has(list, f.index),
               l = [list EXCEPT !.ms[f.index] = a.ms[f.index]]
        PROVE  Honest(l)
    <3>1. Honest(a) /\ a.ms \in [Indices -> MsRow]
      BY <1>2, <1>6, <2>3 DEF Full
    <3>2. Honest(list) /\ list \in Copy /\ f.index \in DOMAIN list.ms
      BY <2>3 DEF ViewInv, Honest, Has
    <3>3. list.ms \in [Indices -> MsRow]
      BY <3>2 DEF Copy
    <3>4. PICK i \in Indices : i = f.index
      BY <1>2
    <3>5. PICK ms \in [Indices -> MsRow] : ms = [list.ms EXCEPT ![i] = a.ms[i]]
      BY <3>1, <3>3
    <3>6. l = [list EXCEPT !.ms = ms]
      BY <2>3, <3>2, <3>4, <3>5 DEF Copy
    <3>7. l \in Copy /\ l.ms = ms /\ l.status = list.status
      BY <3>2, <3>6 DEF Copy
    <3>8. DOMAIN ms = Indices /\ ms[i] = a.ms[i] /\ \A j \in Indices \ {i} : ms[j] = list.ms[j]
      BY <3>3, <3>5
    <3>9. \A j \in DOMAIN l.ms : l.ms[j].status = "approved" => milestones[1][j].status = "Approved"
      BY <3>1, <3>2, <3>3, <3>7, <3>8 DEF Honest
    <3> QED BY <3>2, <3>7, <3>9 DEF Honest
  <2>4. ASSUME f.op = "sign", l = a PROVE Honest(l)
    BY <1>2, <1>6, <2>4 DEF Full
  <2>5. CASE lens = "client" /\ ClientSucceeds(f)
    BY <1>3, <1>6, <2>0, <2>1, <2>2, <2>5 DEF ClientSucceeds
  <2>6. CASE lens = "freelancer" /\ FreelancerSucceeds(f)
    BY <1>3, <1>6, <2>0, <2>3, <2>4, <2>6 DEF FreelancerSucceeds
  <2> QED BY <2>5, <2>6
<1> QED BY <1>1, <1>3, <1>4, <1>5, <1>7, <1>8, ViewLater

LEMMA SucceedStep ==
    ASSUME ServerInv, ViewInv, NEW f \in flows, Succeed(f)
    PROVE  PagesInv'
<1>1. Served /\ cache' = cache /\ f.stage = "ok"
  BY SameServed DEF Succeed
<1>2. CASE lens = "admin" /\ AdminSucceeds(f)
  BY <1>1, <1>2, ReaskStep DEF AdminSucceeds
<1>3. CASE \/ lens = "client" /\ ClientSucceeds(f)
           \/ lens = "freelancer" /\ FreelancerSucceeds(f)
  BY <1>1, <1>3, PartySucceeds
<1> QED BY <1>2, <1>3 DEF Succeed

LEMMA ReloadStep ==
    ASSUME ServerInv, ViewInv, Reload
    PROVE  PagesInv'
<1>1. Served
  BY SameServed DEF Reload
<1>2. PICK l : l = list'
  OBVIOUS
<1>3. PICK m : m = modal'
  OBVIOUS
<1>4. PICK c : c = cache'
  OBVIOUS
<1>5. l = Nothing /\ m = Nothing /\ c \in {NoCache, cache}
  BY <1>2, <1>3, <1>4 DEF Reload
<1>6. \A f \in flows' : Sincere(f)
  BY MoveSincere DEF Reload, ViewInv
<1> QED BY <1>1, <1>2, <1>3, <1>4, <1>5, <1>6, ViewLater

-----------------------------------------------------------------------------
(* The pages' promises.                                                    *)

LEMMA InitPages == PagesInit => PagesInv
<1> SUFFICES ASSUME PagesInit PROVE PagesInv
  OBVIOUS
<1> USE Constants
<1>1. PICK e : e = contracts[1]
  OBVIOUS
<1>2. PICK cm : cm = milestones[1]
  OBVIOUS
<1>3. /\ e = [NoEscrow EXCEPT !.client = Client, !.totalAmount = Deal,
                              !.freelancer = IF scene.signed THEN Freelancer ELSE @,
                              !.milestoneCount = Len(Amounts)]
      /\ cm = [i \in Indices |-> [NoMilestone EXCEPT !.amount = Amounts[i + 1]]]
      /\ \A c \in Ids \ {1} : contracts[c] = NoEscrow /\ milestones[c] = [i \in Indices |-> NoMilestone]
      /\ \A c \in Ids : deposited[c] = 0 /\ paid[c] = NothingPaid
  BY <1>1, <1>2 DEF PagesInit
<1>4. /\ e \in EscrowContract /\ e.status = "Created" /\ e.completedMilestones = 0
      /\ e.milestoneCount = MaxMilestones /\ e.totalAmount = Deal
  BY <1>3, ZeroValues DEF NoEscrow, EscrowContract, Party
<1>5. \A i \in Indices : Amounts[i + 1] \in Nat /\ i < MaxMilestones
  BY AmountAssumption DEF Indices
<1>6. /\ cm \in [Indices -> Milestone]
      /\ \A i \in Indices : /\ cm[i].status = "Pending" /\ cm[i].deliverableCID = NoCid
                            /\ cm[i].amount = Amounts[i + 1]
  BY <1>3, <1>5, ZeroValues DEF NoMilestone, Milestone
<1>7. Agree(e, cm)
  BY <1>4, <1>5, <1>6, NewAgrees
<1>8. TypeOK
  <2>1. contracts \in [Ids -> EscrowContract] /\ milestones \in [Ids -> [Indices -> Milestone]]
    <3>1. \A c \in Ids : contracts[c] \in EscrowContract /\ milestones[c] \in [Indices -> Milestone]
      <4> SUFFICES ASSUME NEW c \in Ids
                   PROVE  contracts[c] \in EscrowContract /\ milestones[c] \in [Indices -> Milestone]
        OBVIOUS
      <4>1. CASE c = 1
        BY <1>1, <1>2, <1>4, <1>6, <4>1
      <4>2. CASE c # 1
        BY <1>3, <4>2, ZeroValues
      <4> QED BY <4>1, <4>2
    <3>2. DOMAIN contracts = Ids /\ DOMAIN milestones = Ids
      BY DEF PagesInit
    <3>3. contracts = [c \in Ids |-> contracts[c]] /\ milestones = [c \in Ids |-> milestones[c]]
      BY DEF PagesInit
    <3> QED BY <3>1, <3>3
  <2>2. contractCounter \in 0 .. MaxContracts
    BY BoundAssumption, PageDealAssumption DEF PagesInit
  <2>3. balance \in Nat /\ emitted \in Seq(Event) /\ deposited \in [Ids -> Nat]
        /\ paid \in [Ids -> [client : Nat, freelancer : Nat, owner : Nat]]
    BY DEF PagesInit, NothingPaid
  <2> QED BY <2>1, <2>2, <2>3 DEF TypeOK
<1>9. contractExists(1) /\ \A c \in Ids \ {1} : ~contractExists(c)
  BY DEF PagesInit, contractExists, Ids
<1>10. EscrowInv
  <2> SUFFICES ASSUME NEW c \in Ids PROVE Entry(c)
    BY <1>8 DEF EscrowInv
  <2>1. CASE c = 1
    BY <1>1, <1>2, <1>4, <1>7, <1>9, <2>1 DEF Entry
  <2>2. CASE c # 1
    <3>1. PICK z : z = milestones[c]
      OBVIOUS
    <3>2. Agree(NoEscrow, z)
      BY <1>3, <2>2, <3>1, ZeroValues, NewAgrees DEF NoEscrow, NoMilestone
    <3> QED BY <1>3, <1>9, <2>2, <3>1, <3>2 DEF Entry
  <2> QED BY <2>1, <2>2
<1>11. ASSUME NEW z, \A i \in Indices : z[i] = NoMilestone
       PROVE  Books(NoEscrow, z, 0, NothingPaid)
  <2>1. ApprovedSum(z) = 0
    <3>1. ApprovedIn(z) = {}
      BY <1>11 DEF ApprovedIn, NoMilestone
    <3> QED BY <3>1, FS_EmptySet, SumFirst DEF ApprovedSum
  <2>2. SumFunctionOnSet(AmountsOf(z), Indices) = 0
    <3>1. \A i \in Indices : AmountsOf(z)[i] = 0
      BY <1>11 DEF AmountsOf, NoMilestone
    <3> QED BY <3>1, IdsFinite, SumZero
  <2> QED BY <1>11, <2>1, <2>2 DEF Books, NoEscrow, NoMilestone, NothingPaid, PLATFORM_FEE_BPS
<1>12. Books(e, cm, 0, NothingPaid)
  <2>1. PICK z : z = [i \in Indices |-> NoMilestone]
    OBVIOUS
  <2>2. Books(NoEscrow, z, 0, NothingPaid) /\ \A i \in Indices : z[i] = NoMilestone
    BY <1>11, <2>1
  <2>3. NothingPaid \in Payment
    BY DEF NothingPaid, Payment
  <2>4. PICK p \in Payment : p = NothingPaid
    BY <2>3
  <2>5. \A i \in Indices : /\ cm[i].status = "Pending"
                           /\ cm[i].amount = IF i < Len(Amounts) THEN Amounts[i + 1] ELSE 0
    BY <1>5, <1>6
  <2>6. e.totalAmount = SumFunction(Amounts) /\ e.milestoneCount = Len(Amounts)
    BY <1>4 DEF Deal
  <2> QED BY <1>4, <2>2, <2>4, <2>5, <2>6, CreateBooks
<1>13. MoneyInv
  <2> SUFFICES ASSUME NEW c \in Ids
               PROVE  Books(contracts[c], milestones[c], deposited[c], paid[c])
    BY DEF MoneyInv
  <2>1. CASE c = 1
    BY <1>1, <1>2, <1>3, <1>12, <2>1
  <2>2. CASE c # 1
    <3>1. PICK z : z = milestones[c]
      OBVIOUS
    <3>2. \A i \in Indices : z[i] = NoMilestone
      BY <1>3, <2>2, <3>1
    <3> QED BY <1>3, <1>11, <2>2, <3>1, <3>2
  <2> QED BY <2>1, <2>2
<1>14. Full(row)
  <2>1. PICK ms \in [Indices -> MsRow] : ms = [i \in Indices |-> [status |-> "pending", cid |-> NoCid]]
    BY DEF MsRow
  <2>2. PICK b \in BOOLEAN : b = scene.signed
    BY SceneAssumption DEF PagesInit
  <2>3. PICK st \in {"pending_funding", "pending_signatures"} :
           st = IF scene.signed THEN "pending_funding" ELSE "pending_signatures"
    OBVIOUS
  <2>4. row = [status |-> st, hired |-> b,
               signed |-> [p \in {"client", "freelancer"} |-> b], ms |-> ms]
    BY <2>1, <2>2, <2>3 DEF PagesInit
  <2>5. row \in Copy /\ row.ms = ms /\ row.status = st
    BY <2>4 DEF Copy, RowStatus
  <2>6. \A i \in DOMAIN ms : ms[i].status # "approved"
    BY <2>1
  <2> QED BY <2>5, <2>6 DEF Full, Honest
<1>15. contracts[1].totalAmount = Deal /\ scene \in Scenes
  BY <1>1, <1>4 DEF PagesInit
<1>16. ViewInv
  BY DEF ViewInv, PagesInit, NoCache
<1>17. Heard /\ dispute \in DisputeStatus
  BY DEF PagesInit, Heard, DisputeStatus
<1> QED BY <1>9, <1>10, <1>13, <1>14, <1>15, <1>16, <1>17 DEF PagesInv, ServerInv

LEMMA PagesStep == PagesInv /\ [PagesNext]_pageVars => PagesInv'
<1> SUFFICES ASSUME ServerInv, ViewInv, [PagesNext]_pageVars PROVE PagesInv'
  BY DEF PagesInv
<1>1. CASE UNCHANGED pageVars
  <2>1. UNCHANGED <<serverVars, scene, list, modal, cache, flows>>
    BY <1>1 DEF pageVars, serverVars
  <2> QED BY <2>1, SameServed, FlowsOnly DEF ViewInv
<1>2. CASE Elsewhere
  BY <1>2, ElsewhereStep DEF PagesInv
<1>3. CASE Age \/ Fetch
  BY <1>3, AgeStep, FetchStep DEF PagesInv
<1>4. CASE ClientClicks \/ FreelancerClicks \/ AdminClicks
  BY <1>4, ClickStep
<1>5. ASSUME NEW f \in flows, WalletConfirms(f) \/ WalletRefuses(f) \/ Serve(f) \/ Continue(f)
      PROVE  PagesInv'
  BY <1>5, ConfirmStep, RefuseStep, ServeStep, PostStep, UploadStep, SucceedStep, FailStep
  DEF Continue
<1>6. CASE Reload
  BY <1>6, ReloadStep
<1>7. ASSUME NEW f \in flows, ReadArrives(f) PROVE PagesInv'
  BY <1>7, ArriveStep
<1> QED BY <1>1, <1>2, <1>3, <1>4, <1>5, <1>6, <1>7 DEF PagesNext, Meanwhile

\* The copies, the handlers and the row agree with the chain as PagesInv says.
THEOREM PagesInvCorrect == PagesSpec => []PagesInv
  BY InitPages, PagesStep, PTL DEF PagesSpec

LEMMA HonestPages == PagesInv => PagesNeverAhead
  BY DEF PagesInv, ViewInv, Honest, PagesNeverAhead

\* No page shows as paid, funded or settled what the chain has not, whatever it wrote
\* into its copy before the answer came and however old the answer was.
THEOREM NeverAhead == PagesSpec => []PagesNeverAhead
  BY HonestPages, PagesInvCorrect, PTL

-----------------------------------------------------------------------------
(* The pages' wallets and handlers call the chain as anyone may.           *)

\* Every transaction a handler or a wallet makes.
LEMMA ServerCalls ==
    ASSUME \/ Accept \/ Deposit \/ Dispute \/ DeleteDispute \/ Listen \/ RecordFunding
           \/ \E p \in {"client", "freelancer", "admin"} : Sign(p)
           \/ \E i \in Indices, cid \in Cid \union {NoCid} : Deliver(i, cid)
           \/ \E i \in Indices : SendBack(i) \/ ApproveMilestone(Client, 1, i)
           \/ \E release \in BOOLEAN : Decide(release)
    PROVE  [Next]_chainVars
<1>1. CASE Accept
  BY <1>1, Constants, OneCall DEF Accept, Call
<1>2. CASE Deposit
  BY <1>2, Constants, OneCall DEF Deposit, Call
<1>3. CASE Dispute
  BY <1>3, Constants, OneCall DEF Dispute, Call
<1>4. CASE \E i \in Indices, cid \in Cid \union {NoCid} : Deliver(i, cid)
  BY <1>4, Constants, OneCall DEF Deliver, SubmitMilestone, CanSubmit, Call
<1>5. CASE \E i \in Indices : SendBack(i) \/ ApproveMilestone(Client, 1, i)
  BY <1>5, Constants, OneCall DEF SendBack, Call
<1>6. CASE \E release \in BOOLEAN : Decide(release)
  BY <1>6, Constants, OneCall DEF Decide, Call
<1>7. CASE \/ DeleteDispute \/ Listen \/ RecordFunding
           \/ \E p \in {"client", "freelancer", "admin"} : Sign(p)
  BY <1>7 DEF DeleteDispute, Listen, RecordFunding, Sign
<1> QED BY <1>1, <1>2, <1>3, <1>4, <1>5, <1>6, <1>7

LEMMA PagesCall ==
    ASSUME PagesInv, [PagesNext]_pageVars
    PROVE  [Next]_chainVars
<1>1. ServerInv /\ ViewInv
  BY DEF PagesInv
<1>2. CASE Elsewhere
  <2>1. CASE FreelancerElsewhere
    BY <2>1, ServerCalls DEF FreelancerElsewhere
  <2>2. CASE ClientElsewhere
    BY <2>2, ServerCalls DEF ClientElsewhere
  <2>3. CASE AdminElsewhere \/ Listen
    BY <2>3, ServerCalls DEF AdminElsewhere
  <2>4. CASE RejectedElsewhere
    BY <2>4, ServerCalls DEF RejectedElsewhere
  <2> QED BY <1>2, <2>1, <2>2, <2>3, <2>4 DEF Elsewhere, PartiesElsewhere
<1>3. ASSUME UNCHANGED serverVars PROVE UNCHANGED chainVars
  BY <1>3 DEF serverVars
<1>4. CASE UNCHANGED pageVars
  BY <1>4 DEF pageVars
<1>5. CASE Age \/ Fetch \/ Reload
  BY <1>3, <1>5 DEF Age, Fetch, ClientFetch, FreelancerFetch, AdminFetch, Reload
<1>6. CASE ClientClicks \/ FreelancerClicks \/ AdminClicks
  BY <1>3, <1>6 DEF Begin, ClientClicks, OpenDetails, CloseDetails, ClickApprove, ClickReject,
     ClickHire, ClickFund, ClientSigns, ClientDisputes, FreelancerClicks, ClickSubmit,
     FreelancerSigns, FreelancerDisputes, AdminClicks, ClickDecide, ClickDelete
<1>7. ASSUME NEW f \in flows, WalletConfirms(f) \/ WalletRefuses(f) \/ Serve(f) \/ Continue(f)
      PROVE  [Next]_chainVars
  <2>1. f.index \in Indices /\ f.cid \in Cid \union {NoCid}
    BY <1>1 DEF ViewInv, Sincere, FlowType
  <2>2. CASE WalletConfirms(f)
    BY <2>1, <2>2, ServerCalls DEF WalletConfirms
  <2>3. CASE WalletRefuses(f) \/ Continue(f)
    BY <1>3, <2>3 DEF WalletRefuses, Continue, PostAfterWallet, Uploaded, Succeed, Fail
  <2>4. CASE Handle(f)
    <3>1. lens \in {"client", "freelancer", "admin"}
      BY <1>1, SceneAssumption DEF ServerInv, lens
    <3>2. CASE f.op = "sign" /\ Sign(lens)
      BY <3>1, <3>2, ServerCalls
    <3>3. CASE Decide(f.op = "release")
      <4>1. PICK release \in BOOLEAN : release <=> (f.op = "release")
        OBVIOUS
      <4>2. Decide(release)
        BY <3>3, <4>1 DEF Decide, ResolveDispute
      <4> QED BY <4>2, ServerCalls
    <3> QED BY <2>1, <2>4, <3>2, <3>3, ServerCalls DEF Handle
  <2>5. CASE Serve(f)
    BY <1>3, <2>4, <2>5 DEF Serve
  <2> QED BY <1>7, <2>2, <2>3, <2>5
<1>8. ASSUME NEW f \in flows, ReadArrives(f) PROVE [Next]_chainVars
  BY <1>3, <1>8 DEF ReadArrives
<1> QED BY <1>2, <1>4, <1>5, <1>6, <1>7, <1>8 DEF PagesNext, Meanwhile

\* Whatever the pages show and ask for, and whatever their wallets confirm late, the chain
\* behind them takes its own steps only.
THEOREM PagesKeepChain == PagesSpec => [][Next]_chainVars
<1>1. PagesInv /\ [PagesNext]_pageVars => [Next]_chainVars
  BY PagesCall
<1> QED BY <1>1, PagesInvCorrect, PTL DEF PagesSpec
-----------------------------------------------------------------------------
(* Types.  The bounds count no more than they allow.                       *)

Flags == /\ disputes \in DisputeStatus /\ busy \in BOOLEAN
         /\ rejects \in 0 .. scene.rejects /\ mishaps \in 0 .. scene.mishaps

LEMMA SceneTypes ==
    ASSUME ServerInv
    PROVE  /\ scene.mishaps \in Nat /\ scene.rejects \in Nat
           /\ lens \in {"client", "freelancer", "admin"}
  BY SceneAssumption DEF ServerInv, lens

\* A step counts one rejection more, or one mishap more, and within the bounds.
Bounded ==
    /\ rejects' = rejects \/ (rejects < scene.rejects /\ rejects' = rejects + 1)
    /\ mishaps' = mishaps \/ (mishaps < scene.mishaps /\ mishaps' = mishaps + 1)
    /\ scene' = scene

LEMMA BoundedFlags ==
    ASSUME ServerInv, Flags, Bounded, disputes' \in DisputeStatus, busy' \in BOOLEAN
    PROVE  Flags'
<1>1. scene.mishaps \in Nat /\ scene.rejects \in Nat
  BY SceneTypes
<1>2. rejects' \in 0 .. scene'.rejects /\ mishaps' \in 0 .. scene'.mishaps
  BY <1>1 DEF Flags, Bounded
<1> QED BY <1>2 DEF Flags

LEMMA ClickFlags ==
    ASSUME ServerInv, Flags, ClientClicks \/ FreelancerClicks \/ AdminClicks
    PROVE  Flags'
<1>1. CASE OpenDetails \/ CloseDetails
  BY <1>1, BoundedFlags DEF OpenDetails, CloseDetails, Bounded, boundVars, Flags
<1>2. ASSUME NEW op, NEW i, NEW cid, NEW stage, Begin(op, i, cid, stage), busy' \in BOOLEAN,
             rejects' = rejects \/ (rejects < scene.rejects /\ rejects' = rejects + 1)
      PROVE  Flags'
  BY <1>2, BoundedFlags DEF Begin, Bounded, Flags
<1>3. busy \in BOOLEAN
  BY DEF Flags
<1>4. ASSUME NEW i \in Indices, ClickApprove(i) \/ ClickReject(i) PROVE Flags'
  BY <1>2, <1>3, <1>4 DEF ClickApprove, ClickReject
<1>5. CASE ClickHire \/ ClickFund \/ ClientSigns \/ ClientDisputes
  BY <1>2, <1>5 DEF ClickHire, ClickFund, ClientSigns, ClientDisputes
<1>6. CASE FreelancerClicks
  BY <1>2, <1>3, <1>6 DEF FreelancerClicks, ClickSubmit, FreelancerSigns, FreelancerDisputes
<1>7. CASE AdminClicks
  BY <1>2, <1>3, <1>7 DEF AdminClicks, ClickDecide, ClickDelete
<1> QED BY <1>1, <1>4, <1>5, <1>6, <1>7 DEF ClientClicks

LEMMA HandlerFlags ==
    ASSUME ServerInv, ViewInv, Flags, NEW f \in flows,
           WalletConfirms(f) \/ WalletRefuses(f) \/ Serve(f) \/ Continue(f) \/ ReadArrives(f)
    PROVE  Flags'
<1>1. busy \in BOOLEAN /\ disputes \in DisputeStatus /\ Sincere(f)
  BY DEF Flags, ViewInv
<1>2. CASE WalletConfirms(f) \/ WalletRefuses(f) \/ Serve(f)
  <2>1. UNCHANGED <<scene, disputes, busy>> /\ (UNCHANGED boundVars \/ Mishap)
    BY <1>2 DEF WalletConfirms, WalletRefuses, Serve, viewVars
  <2>2. Bounded
    BY <2>1 DEF Bounded, boundVars, Mishap
  <2> QED BY <1>1, <2>1, <2>2, BoundedFlags
<1>3. CASE PostAfterWallet(f) \/ Uploaded(f) \/ Succeed(f) \/ Fail(f)
  <2>1. Bounded /\ disputes' = disputes
    BY <1>3 DEF PostAfterWallet, Uploaded, Succeed, Fail, ClientSucceeds, FreelancerSucceeds,
       AdminSucceeds, Bounded, boundVars
  <2>2. busy' \in BOOLEAN
    BY <1>1, <1>3 DEF PostAfterWallet, Uploaded, Succeed, Fail, ClientSucceeds,
       FreelancerSucceeds, AdminSucceeds, AdminFails, ReadAgain, Freed
  <2> QED BY <1>1, <2>1, <2>2, BoundedFlags
<1>4. CASE ReadArrives(f)
  <2>1. Bounded
    BY <1>4 DEF ReadArrives, Bounded, boundVars, Mishap
  <2>2. disputes' \in DisputeStatus
    <3>1. lens = "admin" => f.answer.status \in DisputeStatus
      BY <1>1, <1>4 DEF ReadArrives, Sincere, AdminAnswer
    <3> QED BY <1>1, <1>4, <3>1 DEF ReadArrives
  <2>3. busy' \in BOOLEAN
    BY <1>1, <1>4 DEF ReadArrives, Freed
  <2> QED BY <2>1, <2>2, <2>3, BoundedFlags
<1> QED BY <1>2, <1>3, <1>4 DEF Continue

LEMMA FlagsStep ==
    ASSUME PagesInv, Flags, [PagesNext]_pageVars PROVE Flags'
<1>1. ServerInv /\ ViewInv
  BY DEF PagesInv
<1>2. CASE UNCHANGED pageVars
  BY <1>2 DEF pageVars, Flags
<1>3. CASE Elsewhere
  <2>1. UNCHANGED <<scene, disputes, busy>>
    BY <1>3 DEF Elsewhere, viewVars
  <2>2. Bounded
    <3>1. CASE Listen
      BY <2>1, <3>1 DEF Listen, Bounded, boundVars, Mishap
    <3>2. CASE PartiesElsewhere
      BY <2>1, <3>2 DEF PartiesElsewhere, ClientElsewhere, RejectedElsewhere, Bounded
    <3> QED BY <1>3, <3>1, <3>2 DEF Elsewhere
  <2> QED BY <1>1, <2>1, <2>2, BoundedFlags DEF Flags
<1>4. CASE Age \/ Fetch
  <2>1. UNCHANGED <<scene, disputes, busy, boundVars>>
    BY <1>4 DEF Age, Fetch, ClientFetch, FreelancerFetch, AdminFetch
  <2> QED BY <1>1, <2>1, BoundedFlags DEF Bounded, boundVars, Flags
<1>5. CASE Reload
  <2>1. Bounded /\ disputes' = "none" /\ busy' = FALSE
    BY <1>5 DEF Reload, Bounded, Mishap
  <2> QED BY <1>1, <2>1, BoundedFlags DEF DisputeStatus
<1>6. CASE ClientClicks \/ FreelancerClicks \/ AdminClicks
  BY <1>1, <1>6, ClickFlags
<1>7. ASSUME NEW f \in flows, WalletConfirms(f) \/ WalletRefuses(f) \/ Serve(f) \/ Continue(f)
                              \/ ReadArrives(f)
      PROVE  Flags'
  BY <1>1, <1>7, HandlerFlags
<1> QED BY <1>2, <1>3, <1>4, <1>5, <1>6, <1>7 DEF PagesNext, Meanwhile

LEMMA InitFlags ==
    ASSUME PagesInit PROVE Flags
<1>1. scene.mishaps \in Nat /\ scene.rejects \in Nat
  BY SceneAssumption DEF PagesInit
<1>2. disputes = "none" /\ busy = FALSE /\ rejects = 0 /\ mishaps = 0
  BY DEF PagesInit
<1>3. rejects \in 0 .. scene.rejects /\ mishaps \in 0 .. scene.mishaps
  BY <1>1, <1>2
<1> QED BY <1>2, <1>3 DEF Flags, DisputeStatus

LEMMA PagesTypes ==
    ASSUME PagesInv, Flags PROVE PagesTypeOK
<1>1. ServerInv /\ ViewInv
  BY DEF PagesInv
<1>2. ASSUME NEW copy, Honest(copy) PROVE copy \in Copy
  BY <1>2 DEF Honest
<1>3. row # Nothing
  <2>1. row.status # Nothing.status
    BY <1>1, ChainFacts DEF RowStatus, Nothing
  <2> QED BY <2>1
<1>4. {row} \union {list, modal, cache.copy} \subseteq Copy \union {Nothing}
  BY <1>1, <1>2 DEF ServerInv, ViewInv, Full
<1>5. cache.age \in {"none", "fresh", "stale"} /\ (cache.age = "none" => cache = NoCache)
  BY <1>1 DEF ViewInv
<1>6. Len(unread) \in Nat /\ \A b \in 1 .. Len(unread) : unread[b] \in Block
  <2>1. unread \in Seq(Block)
    BY <1>1 DEF ServerInv, Heard
  <2> QED BY <2>1
<1>7. flows \subseteq FlowType
  BY <1>1 DEF ViewInv, Sincere
<1>8. TypeOK /\ scene \in Scenes /\ dispute \in DisputeStatus
  BY <1>1 DEF ServerInv, EscrowInv
<1> QED BY <1>3, <1>4, <1>5, <1>6, <1>7, <1>8 DEF PagesTypeOK, Flags, FlowType, AdminAnswer

\* The chain, the row, the blocks the listener has not read, every copy and every handler
\* keep to their types, and the counts to their bounds: an answer that is still on its way
\* when the page is reloaded, or that a refresh brings, is one the page can show.
THEOREM PagesTypeCorrect == PagesSpec => []PagesTypeOK
<1>1. PagesInit => PagesInv /\ Flags
  BY InitPages, InitFlags
<1>2. PagesInv /\ Flags /\ [PagesNext]_pageVars => (PagesInv /\ Flags)'
  BY PagesStep, FlagsStep
<1> QED BY <1>1, <1>2, PagesTypes, PTL DEF PagesSpec
=============================================================================
