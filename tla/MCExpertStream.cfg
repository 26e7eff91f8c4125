SPECIFICATION StreamSpec
CONSTANTS
    a = a
    b = b
    w1 = w1
    w2 = w2
    NoKey = NoKey
    Keys <- MCKeys
    Bytes <- MCBytes
    LruBytes = 1
    PrefetchBytes = 1
    FillerBytes = 1
    ShrinkTo = {0}
    Workers = {w1}
    Prios = {1}
    Saturation = 1
    Batch = 1
    MinFree = 0
    Missing = {}
    Faulty <- MCFaulty
    AllowStop = FALSE
    MaxInterrupts = 1
    Slots = 1
    Width = 1
    MaxPolls = 1
INVARIANTS ArenaNotInLru
PROPERTIES ForwardEnds
CHECK_DEADLOCK FALSE
