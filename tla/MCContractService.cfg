\* Two requests at a time on a contract of two milestones, one answer lost.
SPECIFICATION ServiceSpec
CONSTANTS
    client = client
    freelancer = freelancer
    owner = owner
    r1 = r1
    q1 = q1
    q2 = q2
    Owner = owner
    ZeroAddress = zero
    NoCid = nocid
    Cid = {cid}
    Address <- MCAddress
    MaxContracts = 1
    MaxMilestones = 2
    AmountLists <- TwoMilestones
    Totals = {60}
    Row <- MCRow
    Deal <- MCDeal
    Caller = {client}
    Request <- MCRequest
    MaxLost = 1
INVARIANTS
    ServiceTypeOK
    ApprovedOnChain
    SettledOnChain
    DisputeOnChain
    DecisionCarriedOut
    ActiveDeposited
SYMMETRY RequestSymmetry
VIEW WithoutLogs
CHECK_DEADLOCK FALSE
