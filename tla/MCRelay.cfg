SPECIFICATION Spec
CONSTANTS
    oracle = oracle
    supply = supply
    c1 = c1
    Streams <- MCStreams
    OracleStream = oracle
    Clients <- MCClients
    PageLimit = 2
    RingMaxCount = 2
    RingMaxAge = 0
    Wipes = {TRUE, FALSE}
    MaxEvents <- MCMaxEvents
    Unparsable <- BadSupply
    MaxRestarts = 1
    MaxTime = 1
INVARIANTS
    NoEventSkipped
    RingFaithful
    FeedJoinsUp
CHECK_DEADLOCK FALSE
