SPECIFICATION CommandsSpec
CONSTANTS
    Names <- MCNames
    GlobalNames = {"help"}
    Catalog <- MCCatalog
    Contexts = {"code", "customcommand", "js", "math"}
    Languages = {"js"}
    Lines <- MCLines
    Stores <- MCStores
    MaxDepth = 3
    MaxLines = 5
INVARIANTS
    FailFast
PROPERTIES
    TableChangesOnlyByCommand
    InvocationIsMostSpecific
    LineEnds
\* The user may leave, and is given MaxLines lines.
CHECK_DEADLOCK FALSE
