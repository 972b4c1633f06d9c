SPECIFICATION LiveSpec
CONSTANTS
    oracle = oracle
    supply = supply
    c1 = c1
    Streams <- MCStreams
    OracleStream = oracle
    Clients <- NoClients
    PageLimit = 2
    RingMaxCount = 2
    RingMaxAge = 1
    Wipes <- Kept
    MaxEvents <- MCMaxEvents
    Unparsable <- BadSupply
    MaxRestarts = 0
    MaxTime = 0
PROPERTIES
    EventuallyServed
CHECK_DEADLOCK FALSE
