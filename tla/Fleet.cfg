CONSTANTS
    a1 = a1
    a2 = a2
    c1 = c1
    c2 = c2
    c3 = c3
    key = key
    NoKey = NoKey
    NoAccount = NoAccount
    Accounts = {a1, a2}
    InitialAccounts = {a1, a2}
    Callers = {c1, c2, c3}
    Tasks = {c1, c2, c3}
    KeyOf <- Key
    MaxSize = 2
    Factory = TRUE
    ReclaimMayFail = TRUE
    Concurrency = 2
    MaxQueueSize = 1
    MaxAttempts = 1
    MaxSends = 2
    MaxPolls = 2
    BumpMode = "on_expiry"
    BumpAfter = 1
    MaxBumps = 1
    Askers = {1, 2}
    Congestion = {8, 20}
    BaseFee = 10
    MinimumFee = 10
    MaximumFee = 15
    FallbackFee = 12
    Percent = 110
    CacheTime = 2
    LoadTime = 2
    LastTime = 6
SPECIFICATION MCSpec
INVARIANTS
    PoolSafe
    QueueSafe
    CallsAreReported
    ModesAreSafe
PROPERTIES
    AgentsAreAnswered
CHECK_DEADLOCK FALSE
