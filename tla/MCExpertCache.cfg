SPECIFICATION CacheSpec
CONSTANTS
    a = a
    b = b
    c = c
    d = d
    Keys <- MCKeys
    Bytes <- MCBytes
    LruBytes = 4
    PrefetchBytes = 2
    FillerBytes = 3
    ShrinkTo = {1, 2}
INVARIANTS CacheTypeOK OneTier Accounting
PROPERTIES GentleEviction
CHECK_DEADLOCK FALSE
