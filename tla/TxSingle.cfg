CONSTANTS
    t1 = t1  t2 = t2  k1 = k1  k2 = k2  a = a  b = b
    User = {me, other}
    Me = me
    Other = other
    Null = Null
    Key = {k1, k2}
    Data = {a, b}
    Tx = {t1}
    Levels <- OneAny
    ReadOnly = {}
    Droppable = {}
    Pattern = {{k1, k2}}
    Forcing = {FALSE, TRUE}
    Ensuring = {FALSE, TRUE}
    CanForce = TRUE
    permissions <- TwoEntries
    MaxActiveTxs = 1
    InitialData <- MCInitialData
    OtherCommit <- OtherTwoKeys
    TryLater = TRUE
    ConnectionLoss = FALSE
    MaxOther = 1
    MaxSubmit = 2
SPECIFICATION Spec
INVARIANTS
    TypeOK
    RepeatableReads
    DirtySound
    OverwritesOnlyMissed
    SerializableCommits
CHECK_DEADLOCK FALSE
