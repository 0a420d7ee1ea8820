CONSTANTS
    Threads = {t1, t2}
    Recorders = {t1}
    Flushers = {t1}
    Stoppers = {t2}
    Worker = Worker
    Capacity = 2
    MaxBatch = 2
    MaxRecords = 3
    MaxFlushes = 1
    MaxTicks = 1
SPECIFICATION FairSpec
INVARIANT FlushDrains
INVARIANT ShutdownDrains
INVARIANT NobodyOversleeps
INVARIANT GatesFollowWorker
PROPERTY CallsReturn
