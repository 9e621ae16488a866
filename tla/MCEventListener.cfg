\* One contract and its requests, the wallet of the client, a lost answer, and a crash of the
\* listener or a failed read.
SPECIFICATION SyncSpec
CONSTANTS
    client = client
    freelancer = freelancer
    owner = owner
    r1 = r1
    q1 = q1
    Owner = owner
    ZeroAddress = zero
    NoCid = nocid
    Cid = {cid}
    Address <- MCAddress
    MaxContracts = 1
    MaxMilestones = 1
    AmountLists <- OneMilestone
    Totals = {60}
    Row <- MCRow
    Deal <- MCDeal
    Caller = {client}
    Request <- MCRequest
    MaxLost = 1
    Job = {j1, j2}
    MaxBlocks = 4
    MaxMishaps = 1
INVARIANTS
    SyncTypeOK
    NothingSkipped
    RowsNeverAhead
    SettledMirrored
    DisputesEnd
    OneJobPerContract
PROPERTIES
    EventuallyCaughtUp
CHECK_DEADLOCK FALSE
