SPECIFICATION Spec
CONSTANTS
    MaxCommands = 1
    MaxWorker = 1
    MaxThrows = 1
    MaxBuffered = 2
INVARIANTS
    OutputIsKept
    HandshakeLeads
    NoFrameAwaitsHeartbeat
PROPERTY
    LossEndsSession
\* The engine may have ended, or aborted, and the peer closed.
CHECK_DEADLOCK FALSE
