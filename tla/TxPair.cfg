CONSTANTS
    t1 = t1  t2 = t2  k1 = k1  k2 = k2  a = a  b = b
    User = {me, other}
    Me = me
    Other = other
    Null = Null
    Key = {k1}
    Data = {a}
    Tx = {t1, t2}
    Levels <- TwoRRSER
    ReadOnly = {}
    Droppable = {t2}
    Pattern = {}
    Forcing = {FALSE}
    Ensuring = {FALSE}
    CanForce = FALSE
    permissions <- NoDelete
    MaxActiveTxs = 2
    InitialData <- MCInitialData
    OtherCommit <- OtherSameData
    TryLater = FALSE
    ConnectionLoss = TRUE
    MaxOther = 1
    MaxSubmit = 2
SPECIFICATION Spec
INVARIANTS
    AcceptedAhead
    FutureTruthful
    RequestsAligned
    ReplicaInSync
CHECK_DEADLOCK FALSE
