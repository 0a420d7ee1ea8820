CONSTANTS
    Workers = {p, q}
    Futures = {f, g}
    MaxSpans = 3
    NoSpan = NoSpan
SPECIFICATION SpansSpec
CHECK_DEADLOCK FALSE
INVARIANT EndedIsExported
