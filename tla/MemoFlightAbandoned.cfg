CONSTANTS
    Callers = {s1, a1}
    AsyncCallers = {a1}
    Keys = {k1}
    Types = {t1}
    Values = {v1}
    CallIds = {i1, i2, i3}
    BlockingStore = TRUE
    MaxOrphans = 1
    NoCall = NoCall
    NoOutcome = NoOutcome
    NoEntry = NoEntry
    NoOne = NoOne
    Raw = Raw
SPECIFICATION Spec
SYMMETRY Interchangeable
INVARIANT NothingCachedWhenAbandoned
