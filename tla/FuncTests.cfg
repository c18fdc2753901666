CONSTANTS
    x = x  y = y  z = z  spare = spare
    User = {me, other}
    Me = me
    Other = other
    Null = Null
    Key = {x, y, z, spare}
    Data = {"1", "2", "3", "4", "5", "10", "20", "30", "42", "50", "99", "999",
            "alive1", "alive2", "ghost", "ghost2", "forced"}
    Tx = {1, 2, 3, 4, 5, 6, 7, 8}
    Levels <- AnyLevel
    ReadOnly = {7, 8}
    Droppable = {1, 2, 3, 4, 5, 6, 7, 8}
    Pattern = {}
    Forcing = {}
    Ensuring = {}
    CanForce = TRUE
    permissions <- Everything
    MaxActiveTxs = 3
    InitialData <- Leftover
    OtherCommit <- OtherKey
    TryLater = FALSE
    ConnectionLoss = FALSE
    MaxOther = 1
    MaxSubmit = 8
SPECIFICATION TestSpec
INVARIANTS
    ChecksPass
PROPERTIES
    TestsEnd
CHECK_DEADLOCK FALSE
