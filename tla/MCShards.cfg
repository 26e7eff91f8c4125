SPECIFICATION ShardsSpec
CONSTANTS
    new = new
    old = old
    NoFile = NoFile
    Layers = {0, 1}
    NExperts = 2
    Components <- MCComponents
    Rows <- MCRows
    Checkpoints = {new, old}
    NFiles = 2
    MaxRuns = 2
INVARIANTS ShardsTypeOK ShardsWhole DoneMeansAll
PROPERTIES NeverLoses
CHECK_DEADLOCK FALSE
