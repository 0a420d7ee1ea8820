CONSTANTS
    Callers = {s1, a1, a2}
    AsyncCallers = {a1, a2}
    Keys = {k1}
    Types = {t1, t2}
    Values = {v1}
    CallIds = {i1, i2}
    BlockingStore = FALSE
    MaxOrphans = 0
    NoCall = NoCall
    NoOutcome = NoOutcome
    NoEntry = NoEntry
    NoOne = NoOne
    Raw = Raw
SPECIFICATION Spec
SYMMETRY Interchangeable
INVARIANT SingleFlight
INVARIANT NobodyStranded
INVARIANT NoWastedCompute
 
