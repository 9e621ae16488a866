SPECIFICATION BrowserSpec
CONSTANTS
    owner = owner
    client = client
    freelancer = freelancer
    ann = ann
    bob = bob
    root = root
    t1 = t1
    t2 = t2
    n1 = n1
    n2 = n2
    Owner = owner
    ZeroAddress = zero
    NoCid = nocid
    Cid = {cid1}
    Address <- MCAddress
    MaxContracts = 1
    MaxMilestones = 1
    AmountLists <- MCAmountLists
    Totals = {60}
    Client = client
    Freelancer = freelancer
    Amounts <- MCAmounts
    Scenes <- MCScenes
    Accounts <- MCAccounts
    Admins = {root}
    Tabs = {t1, t2}
    Calls = {n1, n2}
    Browsers <- MCBrowsers
    Panels = {t1, t2}
    Leavers = {t1}
    MaxSecrets = 2
    BackupCodes = 1
    Window = 3
    MaxAttempts = 2
    MaxTicks = 13
    Windows = {t1}
    Posts = {n1, n2}
    Chats <- MCChats
    Staff = {admin1, admin2}
    Parties = {party1, party2}
    MaxNotes = 2
    MaxLosses = 1
INVARIANTS
    BrowserTypeOK
    PagesNeverAhead
    TokensMatchUser
    ShownCodesStored
    CooldownCovers
    ShownOnce
    AcceptedOnce
PROPERTIES
    DepositRecorded
    PageCatchesUp
    EveryCallEnds
    AdminChatCatchesUp
CHECK_DEADLOCK FALSE
