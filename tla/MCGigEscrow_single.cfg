\* One contract alone in the pool, up to three milestones.
SPECIFICATION Spec
CONSTANTS
    client = client
    freelancer = freelancer
    owner = owner
    Owner = owner
    ZeroAddress = zero
    NoCid = nocid
    Cid = {cid1, cid2}
    Address <- MCAddress
    MaxContracts = 1
    MaxMilestones = 3
    AmountLists <- OneToThreeMilestones
    Totals <- MCTotals
INVARIANTS
    LockedFundsHeld
    CompletedPaidInFull
PROPERTIES
    LedgerSpec
CHECK_DEADLOCK FALSE
