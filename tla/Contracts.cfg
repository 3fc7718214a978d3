CONSTANTS
    Nodes = {n1, n2, n3}
    Quorum = 2
    BreakerWindows = {1, 2}
    BreakerLedger = 4
    n1 = n1
    n2 = n2
    n3 = n3
    Accounts = {a, b}
    None = None
    Pays = {0, 1, 2}
    Durations = {1, 2}
    DisputeTimeout = 1
    MaxJobs = 2
    MaxCreated = 1
    AdminWindows = {1}
    LastApproval = 2
    NotProposed = NotProposed
    Nobody = Nobody
    NoWinner = NoWinner
    PriceScale = 2
    BpsDenominator = 20
    MaxSlippageBps = 1
    MaxRouteHops = 2
    Owners = {o}
    Agents = {a}
    Recipients = {r}
    Tokens = {"USDC", "XLM"}
    Self = "self"
    Keys = {k}
    NoKey = NoKey
    NoSettlement = NoSettlement
    Periods = {"PerLedger", "Hourly"}
    MinDispute = 1
    DefaultDispute = 1
    Amounts = {1, 2}
    Prices = {0, 2}
    MaxChannels = 1
    MaxFunding = 5
    MaxLedger = 4
    LastClose = 0
    Others = {}
    Windows = {}
    PeriodLedgers <- LedgersOf
    Routes <- SomeRoutes
SPECIFICATION MCSpec
INVARIANTS
    StaleStaysStale
    EscrowsPayOnce
    SpendingIsBounded
PROPERTIES
    SwitchIsApproved
    NoEarlyRefund
    EscrowsSettle
CHECK_DEADLOCK FALSE
