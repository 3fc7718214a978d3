CONSTANTS
    h1 = h1
    h2 = h2
    shared = shared
    own = own
    Apps = {1, 2, 3}
    Scale = 100
    Price = {1, 2}
    SlippageBps = 100
    QuoteValidity = 1
    Offset = 2
    Limit = 150
    Period = 1
    LastLedger = 1
    Holders = {h1, h2}
    Envelopes = {shared, own}
    Threshold = 2
    MaxSignings = 2
    Validity = 1
    MaxPolls = 1
    LastSecond = 2
    Bps = 10000
    Policy <- SomePolicy
    ValidityLedgers = 5
    ToleranceBps = 100
    DivScale = 1000
    ScoreScale = 100
    Ttl = 3
    Pairs <- SomePairs
    Rates = {0, 98, 103}
    PathOffers <- SomePathOffers
    CustomOffers <- SomeCustomOffers
    Destinations = {1, 4}
    Allowances = {{1, 2, 3, 4}, {2}}
    HopLimits = {1, 2, 3}
    CandidateLimits = {1, 8}
    Oracles <- SomeOracles
    Bids <- SomeBids
    Weightings <- SomeWeightings
    Delays = {0, 3, 4}
    ChannelStates <- SomeChannels
    LimitStates <- SomeLimits
    ProposedAmounts = {0, 1, 2, 3}
    Ledgers = {5, 6, 7, 8, 9}
    Samples <- SomeSamples
    Calls = {1, 2}
    Works = 2
    Attempts = 2
SPECIFICATION MCSpec
INVARIANTS
    
    SubmittersAreToldTheTruth
    Decisive
CHECK_DEADLOCK FALSE
