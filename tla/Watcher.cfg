CONSTANTS
    k1 = k1  k2 = k2  text = text  binary = binary
    Programs = {"watcher", "data_only", "sessions_only", "once", "data_once", "example1", "populated"}
    InitialData <- MCInitialData
    Commits <- MCCommits
    Utf8 = {text}
    Self = self
    Others = {other}
    CanMonitor = TRUE
    MaxEvent = 2
    Faults = TRUE
    Signals = {"SIGINT", "SIGTERM"}
    Null = Null
SPECIFICATION FairSpec
INVARIANTS
    PrintedRebuilds
    SessionsMirrored
    OncePrintsAll
PROPERTIES
    RequestEnds
    ClosedEnds
CHECK_DEADLOCK FALSE
