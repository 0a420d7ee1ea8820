CONSTANTS
    v1 = v1
    v2 = v2
    e1 = e1
    e2 = e2
    u1 = u1
    u2 = u2
    k1 = k1
    Urls = {u1}
    Versions = {v1, v2}
    Length <- MCLength
    Validator <- MCValidator
    Keys = {k1}
    Requests <- OneRequest
    Retries = 1
    MaxChanges = 1
    ShortRanges = TRUE
    NoKey = NoKey
    NoValidator = NoValidator
    NoLength = NoLength
    NoFile = NoFile
    Torn = Torn
    NoSide = NoSide
    NoHash = NoHash
    NoResponse = NoResponse
SPECIFICATION Spec
INVARIANT NoShortTarget
