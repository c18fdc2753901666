SPECIFICATION FairSpec
CONSTANTS
    A = A
    B = B
    Null = Null
    m_connections <- TwoServers
    m_rev0 = 9
    OldestRev = 1
    InitialRev = 2
    MaxRev = 3
    MaxFault = 2
    KeepAlive = TRUE
    CallbackThrows = TRUE
INVARIANTS TypeOK OneServer NoUpdateTwice SyncedCaughtUp
PROPERTIES NoUpdateMissed SessionSyncs StopEnds
CHECK_DEADLOCK FALSE
