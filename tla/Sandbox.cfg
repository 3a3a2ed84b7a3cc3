SPECIFICATION SandboxSpec
CONSTANTS
    Dirs <- MCDirs
    Roots <- MCRoots
    Entry <- MCEntry
    Files <- MCFiles
    Extension <- MCExtension
    Commands <- MCCommands
    Normalized <- MCNormalized
    Installable = {"js"}
    Targets <- MCTargets
    Builds = {"tool", "none"}
    MaxInputs = 2
INVARIANTS
    SeenStays
PROPERTIES
    EveryModuleListed
\* The engine ends.
CHECK_DEADLOCK FALSE
