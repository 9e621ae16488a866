\* Three freelancers apply, three acceptances at a time, two answers lost.
SPECIFICATION HiringSpec
CONSTANTS
    client = client
    owner = owner
    f1 = f1
    f2 = f2
    f3 = f3
    r1 = r1
    q1 = q1
    q2 = q2
    q3 = q3
    Owner = owner
    ZeroAddress = zero
    NoCid = nocid
    Cid = {cid}
    Address <- MCAddress
    MaxContracts = 3
    MaxMilestones = 1
    AmountLists <- OneMilestone
    Totals = {60}
    Row <- MCRow
    Freelancer <- MCFreelancer
    Deal <- MCDeal
    Request <- MCRequest
    MaxLost = 2
INVARIANTS
    HiringTypeOK
    HiredOnChain
    OneHired
    HireCanBeRepeated
SYMMETRY FreelancerRequestSymmetry
CHECK_DEADLOCK FALSE
