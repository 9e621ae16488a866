\* Two contracts share the pool.
SPECIFICATION Spec
CONSTANTS
    client = client
    freelancer = freelancer
    owner = owner
    Owner = owner
    ZeroAddress = zero
    NoCid = nocid
    Cid = {cid}
    Address <- MCAddress
    MaxContracts = 2
    MaxMilestones = 2
    AmountLists <- OneOrTwoMilestones
    Totals <- MCTotals
SYMMETRY UserSymmetry
INVARIANTS
    TypeOK
    MilestonesFollowContract
    CompletionCounted
    PaidForApprovedWork
PROPERTIES
    ApprovalsFinal
    SettledFinal
    LedgerSteps
    ChangesAnnounced
CHECK_DEADLOCK FALSE
