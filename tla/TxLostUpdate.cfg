CONSTANTS
    t1 = t1  t2 = t2  k1 = k1  k2 = k2  a = a  b = b
    User = {me, other}
    Me = me
    Other = other
    Null = Null
    Key = {k1}
    Data = {a, b}
    Tx = {t1}
    Levels <- OneRR
    ReadOnly = {}
    Droppable = {}
    Pattern = {}
    Forcing = {FALSE}
    Ensuring = {FALSE}
    CanForce = FALSE
    permissions <- AllOnK1
    MaxActiveTxs = 1
    InitialData <- MCInitialData
    OtherCommit <- OtherOneKey
    TryLater = FALSE
    ConnectionLoss = FALSE
    MaxOther = 1
    MaxSubmit = 1
SPECIFICATION Spec
INVARIANTS
    NoLostUpdate
CHECK_DEADLOCK FALSE
