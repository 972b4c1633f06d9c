SPECIFICATION FairSpec
CONSTANTS
    a = a
    b = b
    c = c
    Oracles <- MCOracles
    ExpiryOf <- MCExpiryOf
    MaxSubsPerBatch = 2
    MaxTime = 1
    MaxDrops = 2
    MaxSyncs = 3
INVARIANTS
    AllSubscribed
PROPERTIES
    EventuallyQuoted
CHECK_DEADLOCK FALSE
