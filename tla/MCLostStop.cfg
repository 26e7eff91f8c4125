SPECIFICATION ServerSpec
CONSTANTS
    c1 = c1
    c2 = c2
    j1 = j1
    j2 = j2
    Chats = {c1}
    Worker = Worker
    NoOne = NoOne
    MaxPieces = 2
    JobIds = {j1}
    Wave = 1
    MaxSteps = 2
    MaxItems = 2
    MaxStops = 1
INVARIANTS StopTakes
CHECK_DEADLOCK FALSE
