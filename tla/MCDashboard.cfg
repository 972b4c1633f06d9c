SPECIFICATION Spec
CONSTANTS
    NoSnapshot = NoSnapshot
    RingCap = 2
    HeartbeatEvery = 2
    ReconnectAfter = 3
    DownAfter = 5
    MaxDelay = 2
    MaxQueue = 2
    MaxEvents = 3
    MaxFaults = 2
INVARIANTS
    LiveEndsWithSocket
    LiveIsRecent
    ClientCoversRelay
    OneAttempt
PROPERTIES
    EventuallyLive
CHECK_DEADLOCK FALSE
