CONSTANTS
    Field = 2
    Frame <- Frames
    OutLen = {7, 8}
    InputBuffer = 14
    MaxUnackMsgs = 2
    MaxUnackBytes = 15
    Unlimited = 1000
    MaxServed = 2
    MaxSent = 3
    MaxConnects = 2
SPECIFICATION FairSpec
INVARIANTS
    UnackExact
    UnackBounded
    NothingWaits
PROPERTIES
    ImplementsFifo
    AllArrive
    DisconnectEnds
CHECK_DEADLOCK FALSE
