SPECIFICATION Spec
CONSTANTS
    MaxExec = 3
    MaxRequests = 1
    Platforms = {"posix", "windows"}
INVARIANTS
    CallbackHasOneOwner
    ResultIsOwn
    ScriptFindsIdleSidecar
    ShutdownLeavesNothing
PROPERTIES
    ImplementsChannel
\* Closed, failed and killed bridges stop; so does one that waits for the user
\* or for a watchdog that missed its stop request.
CHECK_DEADLOCK FALSE
