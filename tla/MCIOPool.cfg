SPECIFICATION PoolSpec
CONSTANTS
    a = a
    b = b
    c = c
    w1 = w1
    w2 = w2
    NoKey = NoKey
    Keys <- MCKeys
    Bytes <- MCBytes
    LruBytes = 1
    PrefetchBytes = 1
    FillerBytes = 1
    ShrinkTo = {}
    Workers = {w1, w2}
    Prios = {1}
    Batch = 1
    Saturation = 1
    MinFree = 0
    Missing <- MCMissing
    Faulty <- MCFaulty
    AllowStop = TRUE
    MaxInterrupts = 1
INVARIANTS PoolTypeOK InFlightOwned FillerBounded
PROPERTIES TopPriorityServed StopEndsWorkers
CHECK_DEADLOCK FALSE
