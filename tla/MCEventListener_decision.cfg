\* A refund decided by an admin, then seen by the listener.
SPECIFICATION SyncSpec
CONSTANTS
    client = client
    freelancer = freelancer
    owner = owner
    r1 = r1
    q1 = q1
    Owner = owner
    ZeroAddress = zero
    NoCid = nocid
    Cid = {cid}
    Address <- MCAddress
    MaxContracts = 1
    MaxMilestones = 1
    AmountLists <- OneMilestone
    Totals = {60}
    Row <- MCRow
    Deal <- MCDeal
    Caller = {client}
    Request <- MCRequest
    MaxLost = 0
    Job = {j1, j2}
    MaxBlocks = 4
    MaxMishaps = 0
INVARIANT DecisionMirrored
CHECK_DEADLOCK FALSE
