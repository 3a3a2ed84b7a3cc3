SPECIFICATION FairSpec
CONSTANTS
    MaxExec = 2
    MaxRequests = 1
    Platforms = {"windows"}
PROPERTIES
    ExecuteReturns
    ShutdownKillsSidecar
CHECK_DEADLOCK FALSE
