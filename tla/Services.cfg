CONSTANTS
    Targets = {1}
    LifecycleSends = 2
    LifecyclePolls = 1
    MaxLifecycles = 2
    Operators = {o1}
    MaxRuns = 2
    Identities = {i1}
    Tries = 1
    MaxSeeds = 1
    Unresolved = Unresolved
    Torn = Torn
    Fallback = Fallback
    Elsewhere = Elsewhere
    MaxSwitches = 2
    MaxPays = 1
    MaxInFlight = 2
    MaxErrors = 1
    MaxClicks = 1
    Top = 3
    MaxCalls = 3
    Absent = Absent
    Heads = {1, 3, 4}
    RollbackWindow = 1
    FinalityLag = 1
    IndexRuns = 4
    MaxRestarts = 1
    Unknown = Unknown
    Subjects = {"a"}
    LedgerFields = {1, Blank}
    Blank = Blank
    MaxRequests = 3
    MaxEdits = 1
    History = 2
    Lookback = 3
    FixtureSpend = 1
    MaxHours = 1
    MaxRows = 2
    MaxActs = 2
    ToolCalls = {1, 2}
    Budget = 2
    MaxPrice = 2
    Limit = 100
    Period = 1
    HourLimits = {100, Absent}
    Amounts = {45}
    Deadline = 1
    LedgersPerHour = 1
    EventPageSize = 2
    LastLedger = 1
    MaxPayments = 2
    MaxFailures = 1
    Unread = Unread
    Broken = Broken
    PageSize = 2
    MaxEvents = 3
    MaxFaults = 1
    MaxResumes = 1
SPECIFICATION MCSpec
INVARIANTS
    RecordsMatchLedger
    DeploymentIsSound
    
    
    PolicyIsKept
PROPERTIES
    StepsAreLawful
    WhatIsAwaitedComes
CHECK_DEADLOCK FALSE
