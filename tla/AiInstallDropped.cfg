CONSTANTS
    Installers = {p1, p2}
    Folders = {f1, f2}
    Entries = {a, b}
    MaxStarts = 2
    Droppable = TRUE
    NoOne = NoOne
    NoMarker = NoMarker
SPECIFICATION Spec
SYMMETRY EntrySymmetry
CHECK_DEADLOCK FALSE
INVARIANT MarkerComplete
