SPECIFICATION Spec
CONSTANTS
    alice = alice
    bob = bob
    o1 = o1
    o2 = o2
    Users <- MCUsers
    Admin = alice
    U64Max = 19
    SeedQuote = 8
    VirtualShares = 4
    NavScale = 4
    BpsScale = 4
    FloatScaling = 2
    CooldownMs = 1
    RollTriggerMs = 1
    RegistryCap = 2
    StalenessMs = 10
    Defaults <- MCDefaults
    Oracles <- ExitOracles
    ExpiryOf <- ExitExpiry
    Grid <- ExitGrid
    InitialOracles <- ExitInitialOracles
    Forwards <- None
    Deposits <- ExitDeposits
    RequestAmounts <- ExitRequests
    TransferAmounts <- ExitTransfers
    FairValues <- ExitFair
    TuneValues <- ExitTuning
    TradeQuantities <- None
    MaxTime = 3
INVARIANTS
    TypeOK
    BookBalanced
    SharesBacked
    ExitNotBlocked
PROPERTIES
    ImplementsShareLedger
    FullPayoutClosesSlot
CHECK_DEADLOCK FALSE
