SPECIFICATION Spec
CONSTANTS
    Nothing = Nothing
    Torn = Torn
    Foreign = Foreign
    MaxEdits = 3
    Engines = {e1}
    Inodes = {i1, i2, i3}
    Faults = {"crash", "error", "damage"}
INVARIANTS
    StateFileIsLastSave
    SavedSessionOnDisk
    CleanExitSurvivesDamage
SYMMETRY InodeSymmetry
