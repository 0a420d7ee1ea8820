CONSTANTS
    Installers = {p1, p2}
    Folders = {f1, f2}
    Entries = {a, b}
    MaxStarts = 2
    Droppable = FALSE
    NoOne = NoOne
    NoMarker = NoMarker
SPECIFICATION FairSpec
CHECK_DEADLOCK FALSE
INVARIANT MarkerComplete
INVARIANT SuccessIsIntact
PROPERTY InstallEnds
