SPECIFICATION FairSpec
CONSTANTS
    A = A
    B = B
    Null = Null
    m_connections <- OneServerOnly
    m_rev0 = 9
    OldestRev = 1
    InitialRev = 1
    MaxRev = 1
    MaxFault = 1
    KeepAlive = FALSE
    CallbackThrows = FALSE
PROPERTY Reconnects
CHECK_DEADLOCK FALSE
