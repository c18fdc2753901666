CONSTANTS
    Key = {k1, k2, bad}
    InvalidKey = {bad}
    Data = {a}
    User = {alice, bob}
    MaxRev = 3
    MaxEntries = 2
    Update <- MCUpdate
    Snapshot <- MCSnapshot
    NoSnapshot = NoSnapshot
    NoUser = NoUser
SPECIFICATION Spec
INVARIANTS
    TypeOK
    RefsExact
    MetasExact
    UsersCover
    StoreInv
PROPERTIES
    ChangesUndo
    ImplementsReplica
