SPECIFICATION OrchSpec
CONSTANTS
    f = f
    g = g
    i1 = i1
    i2 = i2
    i3 = i3
    NoText = NoText
    Symbols <- MCSymbols
    OpenMark <- MCOpenMark
    CloseMark <- MCCloseMark
    Pieces <- MCPieces
    MaxText = 5
    MinSpan = 1
    MinTotal = 2
    Reps = 2
    TailMax = 4
    TailMin = 3
    Fase = "fase"
    Dash = "dash"
    Goal = "goal"
    Caps = {1, 2}
    Files = {f, g}
    Outside = {g}
    Instrs = {i1, i2, i3}
    FileLines = 2
    MaxJobs = 2
    MaxRedos = 2
INVARIANTS OrchTypeOK FilterExact LoopsStopped PlanSound FilesOfCoders LessonsHold
PROPERTIES OrchestrateEnds
CHECK_DEADLOCK FALSE
