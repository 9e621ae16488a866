\* A milestone submitted, rejected and submitted again within one poll.
SPECIFICATION SyncSpec
CONSTANTS
    client = client
    freelancer = freelancer
    owner = owner
    r1 = r1
    q1 = q1
    Owner = owner
    ZeroAddress = zero
    NoCid = nocid
    Cid = {cid}
    Address <- MCAddress
    MaxContracts = 1
    MaxMilestones = 1
    AmountLists <- OneMilestone
    Totals = {60}
    Row <- MCRow
    Deal <- MCDeal
    Caller = {client, freelancer}
    Request <- MCRequest
    MaxLost = 0
    Job = {j1, j2}
    MaxBlocks = 5
    MaxMishaps = 0
PROPERTY BatchInChainOrder
CHECK_DEADLOCK FALSE
