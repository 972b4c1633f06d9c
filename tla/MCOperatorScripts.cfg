SPECIFICATION Spec
CONSTANTS
    MaxKills = 2
    MaxGen = 2
    Expiries <- MCExpiries
    Rows <- MCRows
    MaxAttempts = 5
    MaxSimGen = 2
    PoolLanes = 2
    GasLaneMin = 5
    GasPoolFloor = 1
    Fee = 2
    Funding = 16
    TopUps <- MCTopUps
    CoinIds = {1, 2, 3, 4}
    CapIds = {1, 2, 3, 4}
    MaxThrows = 1
INVARIANTS
    NamesExist
    AnnouncedIsDeployed
    RedeployNeverRefused
    ResultsAreOneReplay
    LanesKeepTheirCaps
    LanesPayable
    RefreshSettles
CHECK_DEADLOCK FALSE
