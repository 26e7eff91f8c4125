SPECIFICATION ArenaSpecInterrupted
CONSTANTS
    None = None
    a = a
    b = b
    c = c
    d = d
    e = e
    Experts <- MCExperts
    Slots = 2
    TopK = 2
    MaxInterrupts = 1
INVARIANTS GatherSound
CHECK_DEADLOCK FALSE
