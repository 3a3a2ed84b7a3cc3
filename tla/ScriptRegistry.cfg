SPECIFICATION Spec
CONSTANTS
    Names <- MCNames
    Codes = {c1}
    Numeral <- MCNumeral
    Empty = Empty
    Garbled = Garbled
    None = None
    MaxVersion = 3
    MaxSnapshots = 3
    MaxKept = 1
    a = a
    b = b
SYMMETRY Symmetry
INVARIANTS
    HistoryIsWhole
    ListedIffLoadable
PROPERTIES
    SnapshotsAreImmutable
