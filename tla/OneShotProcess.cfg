SPECIFICATION FairSpec
CONSTANTS
    Clients = {"executor", "python", "sandbox"}
    MaxRuns = 2
    MaxChunks <- MCChunks
    MaxCancels = 1
INVARIANTS
    SandboxCapturesAll
    ExitCodeIsOwn
    ThreadSafeUncancelled
PROPERTIES
    RunReturns
    PromptGetsAnswer
\* A session ends when the user runs nothing more, or when the engine is dead.
CHECK_DEADLOCK FALSE
