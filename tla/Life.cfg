CONSTANTS
    Tx = {t1, t2}
    Discarding = {t1}
    max_active_txs = 0
    Modulus = 16
    MaxPing = 1
    Closing = TRUE
    ConnectionLoss = TRUE
    Null = Null
SPECIFICATION FairSpec
INVARIANTS
    TypeOK
    SubmittedTracked
    ClosedResolved
PROPERTIES
    CommandsDrain
CHECK_DEADLOCK FALSE
