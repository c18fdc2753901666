CONSTANTS
    Tx = {t1}
    Discarding = {t1}
    max_active_txs = 2
    Modulus = 16
    MaxPing = 1
    Closing = FALSE
    ConnectionLoss = FALSE
    Null = Null
SPECIFICATION Spec
INVARIANTS
    LoopSurvives
CHECK_DEADLOCK FALSE
