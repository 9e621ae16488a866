\* One contract: a milestone changes while the contract is disputed.
SPECIFICATION Spec
CONSTANTS
    client = client
    freelancer = freelancer
    owner = owner
    Owner = owner
    ZeroAddress = zero
    NoCid = nocid
    Cid = {cid}
    Address <- MCAddress
    MaxContracts = 1
    MaxMilestones = 1
    AmountLists <- OneMilestone
    Totals <- MCTotals
PROPERTY DisputePauses
CHECK_DEADLOCK FALSE
