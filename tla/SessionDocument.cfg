SPECIFICATION DocumentSpec
CONSTANTS
    Texts <- MCTexts
    Variables = {"x"}
    SetCommands <- MCSetCommands
    Numbers <- MCNumbers
    Booleans <- MCBooleans
    Results <- MCResults
    Definitions <- MCDefinitions
    Uses <- MCUses
    Trimmed <- MCTrimmed
    Updates <- MCUpdates
    Stores <- MCStores
    SharedValues <- MCSharedValues
    Edited <- MCEdited
    MaxSteps = 5
INVARIANTS
    ExportIsAccepted
    RoundTripKeepsSession
PROPERTIES
    DocumentsAreTakenWhole
\* The steps are bounded.
CHECK_DEADLOCK FALSE
