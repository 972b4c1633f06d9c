SPECIFICATION FairSpec
CONSTANTS
    LaneCount = 2
    TiersEnabled <- MCTiers
    ExpiriesPerTier = 1
    MinLookaheadMs = 0
    PriceCacheStaleMs = 3000
    SafetyWindowMs = 5000
    DrainTimeoutMs = 15000
    LatencyMs = 5000
    DelayMs = 0
    Instants <- MCInstants
    Horizon = 3600000
    MaxOracles = 2
    FaultBudget = 1
INVARIANTS
    SviMarkHonest
    PushNeverSettles
    OneOraclePerExpiry
PROPERTIES
    LanesGated
    EventuallyCompacted
    PushNotStarved
CHECK_DEADLOCK FALSE
