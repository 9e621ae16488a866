\* Two requests approve the two milestones of a contract at once.
SPECIFICATION ServiceSpec
CONSTANTS
    client = client
    freelancer = freelancer
    owner = owner
    r1 = r1
    q1 = q1
    q2 = q2
    Owner = owner
    ZeroAddress = zero
    NoCid = nocid
    Cid = {cid}
    Address <- MCAddress
    MaxContracts = 1
    MaxMilestones = 2
    AmountLists <- TwoMilestones
    Totals = {60}
    Row <- MCRow
    Deal <- MCDeal
    Caller = {client}
    Request <- MCRequest
    MaxLost = 0
INVARIANT CompletionShown
CHECK_DEADLOCK FALSE
