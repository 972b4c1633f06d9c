SPECIFICATION Spec
CONSTANTS
    alice = alice
    bob = bob
    o1 = o1
    o2 = o2
    Users <- MCUsers
    Admin = alice
    U64Max = 6
    SeedQuote = 2
    VirtualShares = 1
    NavScale = 4
    BpsScale = 4
    FloatScaling = 2
    CooldownMs = 1
    RollTriggerMs = 3
    RegistryCap = 1
    StalenessMs = 1
    Defaults <- HedgeDefaults
    Oracles <- ExitOracles
    ExpiryOf <- MarketExpiry
    Grid <- ExitGrid
    InitialOracles <- MarketInitialOracles
    Forwards <- MarketForwards
    Deposits <- ExitDeposits
    RequestAmounts <- None
    TransferAmounts <- None
    FairValues <- ExitFair
    TuneValues <- MarketTuning
    TradeQuantities <- MarketTrades
    MaxTime = 4
PROPERTIES
    RegistryMovesWithCustody
CHECK_DEADLOCK FALSE
