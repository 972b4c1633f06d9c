SPECIFICATION GaugeSpec
CONSTANTS
    U64Max = 8
    Amounts <- MCAmounts
    Capacities <- MCCapacities
    Rates <- MCRates
    MaxTime = 4
    MaxCount = 6
    NoBucket = NoBucket
    NoView = NoView
    MaxReads = 1
CONSTRAINT CountBound
INVARIANTS
    WindowBound
    GaugeHonest
