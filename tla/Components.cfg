\* Threads, processes, handles, futures: p and q in every component.
CONSTANTS
    Threads = {p, q}
    Keys = {k1}
    Sizes = {"fits"}
    Ttls = {0, 2}
    PromoteTtl = 2
    FlushEvery = 2
    FlushInterval = 2
    MaxWrites = 2
    MaxTime = 2
    None = None
    Unknown = Unknown
    Openers = {p, q, o}
    MaxStores = 3
    MaxAttempts = 2
    Nobody = Nobody
    Elsewhere = Elsewhere
    Procs = {p, q}
    m1 = m1
    m2 = m2
    c1 = c1
    c2 = c2
    c3 = c3
    Names = {m1, m2}
    Contents = {c1, c2, c3}
    Listings <- MCListings
    SizeOf <- MCSizeOf
    ByPrefix = TRUE
    MaxStarts = 2
    MaxEdits = 1
    Nil = Nil
    Paths <- MCPaths
    Bytes = {1, 2}
    Modes = {"open", "shut"}
    Searchable = {"open"}
    MaxEntries = 3
    Unlimited = Unlimited
    Vacant = Vacant
    Tree <- MCTree
    Existing <- MCExisting
    Nothing = Nothing
    Handles = {p, q}
    MaxFiles = 2
    MaxClock = 3
    Tolerance = 1
    Absent = Absent
    MaxComponents = 4
    Rejected = Rejected
    Fetchers = {p, q}
    Requests = {p, q}
    RetryCounts = {2}
    Limits = {0}
    Asks = {9}
    MaxBackoff = 3
    MaxBody = 1
    MaxReconfigures = 1
    NotSet = NotSet
    MaxUpdates = 2
    Loaders = {p, q}
    Requested <- MCRequested
    CoreMlHere = FALSE
    MaxRecords = 2
    MaxExits = 1
    NoLoader = NoLoader
    Urls <- MCUrls
    HubFor <- MCRepo
    Pages <- MCPages
    Unhashed = 0
    Invalid = Invalid
    Recorders = {p, q}
    TagLists <- MCTags
    Samples = {1, 2}
    Layouts <- MCLayouts
    DEFAULT_BOUNDS <- MCDefaultBounds
    MAX_SERIES = 1
    MaxSamples = 3
    Instruments = {m1, m2, c1}
    MIN_PRUNE_AT = 2
    Unset = Unset
    Workers = {p, q}
    Futures = {p, q}
    MaxSpans = 3
    NoSpan = NoSpan
    Tasks = {c1}
    Remotes = {c2}
    Fields = {"k"}
    MaxTree = 3
    MaxFrames = 2
    NoContext = NoContext
SPECIFICATION MCSpec
SYMMETRY Alike
CHECK_DEADLOCK FALSE
 
INVARIANT CrashLosesOnlyDeferred
INVARIANT PromotedNoLonger
INVARIANT LiveIsRegistered
 
INVARIANT DerivedFresh
INVARIANT NoHalfFile
INVARIANT AccountsAgree
 
INVARIANT NothingLost
INVARIANT TrashFaithful
 
INVARIANT WaitsAsAsked
INVARIANT OneClient
INVARIANT TimingHealed
INVARIANT OomIsOwn
 
INVARIANT NoSampleLost
INVARIANT StacksBalance
PROPERTY TreePreserved
PROPERTY TruthfulJoin
