SPECIFICATION ArenaSpec
CONSTANTS
    None = None
    a = a
    b = b
    c = c
    d = d
    e = e
    Experts <- MCExperts
    Slots = 4
    TopK = 2
    MaxInterrupts = 0
INVARIANTS ArenaTypeOK SlotsSound TableMirrors GatherSound
CHECK_DEADLOCK FALSE
