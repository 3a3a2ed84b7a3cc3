SPECIFICATION Spec
CONSTANTS
    Kinds = {"plain", "ask", "menu", "script", "exit", "request", "run_script"}
    Faults = {"cancel", "timeout", "disconnect"}
    MaxMessages = 3
    MaxLaunch = 2
    MaxBacklog = 1
INVARIANTS
    OneWaiter
    CancelReportedOnce
    TuiAgreesAtRest
PROPERTY
    EngineComesBack
\* A session ends, or waits for a user who types nothing more.
CHECK_DEADLOCK FALSE
