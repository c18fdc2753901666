CONSTANTS
    k1 = k1  k2 = k2  text = text  binary = binary
    Programs = {"data_only"}
    InitialData <- MCInitialData
    Commits <- MCCommits
    Utf8 = {text}
    Self = self
    Others = {}
    CanMonitor = TRUE
    MaxEvent = 0
    Faults = FALSE
    Signals = {}
    Null = Null
SPECIFICATION FairSpec
PROPERTIES
    SyncedWakes
CHECK_DEADLOCK FALSE
