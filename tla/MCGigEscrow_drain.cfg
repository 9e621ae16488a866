\* Two contracts: resolving one sends the deposit of the other.
SPECIFICATION Spec
CONSTANTS
    client = client
    freelancer = freelancer
    owner = owner
    Owner = owner
    ZeroAddress = zero
    NoCid = nocid
    Cid = {cid}
    Address <- MCAddress
    MaxContracts = 2
    MaxMilestones = 1
    AmountLists <- OneMilestone
    Totals <- MCTotals
INVARIANT LockedFundsHeld
CHECK_DEADLOCK FALSE
