SPECIFICATION EventSpec
CONSTANTS
    alice = alice
    bob = bob
    o1 = o1
    o2 = o2
    Users <- MCUsers
    Admin = alice
    U64Max = 24
    SeedQuote = 8
    VirtualShares = 4
    NavScale = 4
    BpsScale = 4
    FloatScaling = 2
    CooldownMs = 1
    RollTriggerMs = 3
    RegistryCap = 2
    RingCap = 3
    StalenessMs = 1
    Defaults <- HedgeDefaults
    Oracles <- HedgeOracles
    ExpiryOf <- HedgeExpiry
    Grid <- HedgeGrid
    InitialOracles <- HedgeInitialOracles
    Forwards <- HedgeForwards
    Deposits <- ExitDeposits
    RequestAmounts <- None
    TransferAmounts <- None
    FairValues <- HedgeFair
    TuneValues <- HedgeTuning
    TradeQuantities <- None
    MaxTime = 3
INVARIANTS
    RegistryIndexed
    ExposureSound
CHECK_DEADLOCK FALSE
