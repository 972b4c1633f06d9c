SPECIFICATION ClientsSpec
CONSTANTS
    signer = signer
    user = user
    o1 = o1
    o2 = o2
    Users <- MCUsers
    Admin = signer
    U64Max = 250
    SeedQuote = 10
    VirtualShares = 1
    NavScale = 20
    BpsScale = 200
    FloatScaling = 2
    CooldownMs = 1
    RollTriggerMs = 1
    RegistryCap = 5
    StalenessMs = 10
    Defaults <- MCDefaults
    Oracles <- MCOracles
    ExpiryOf <- MCExpiry
    Grid <- MCGrid
    InitialOracles <- MCInitialOracles
    Forwards <- None
    Deposits <- MCDeposits
    RequestAmounts <- None
    TransferAmounts <- None
    FairValues <- MCFair
    TuneValues <- NoTuning
    TradeQuantities <- None
    MaxTime = 3
    InitialQuote <- MCQuote
    Signer = signer
    Scripts <- MCAllScripts
    Deploy <- MCDeploy
    SupplyAmount <- MCSupplyAmount
    WaitSlackMs = 0
    SlackBps = 1
    NavToleranceBps = 8
    CollateralAmount = 1
    BorrowAmount = 50
    PoolLiquidity = 60
    MaxAttempts = 3
    MaxRuns = 2
    Follows <- MCFollows
    PanelUser = user
    Inputs <- MCInputs
    MaxSigned = 3
    MaxActs = 3
    UserSteps <- MCUserSteps
INVARIANTS
    GreenIsPaid
    OnePayoutPerRun
    TraceReplays
PROPERTIES
    DepositsWhatItShows
CHECK_DEADLOCK FALSE
