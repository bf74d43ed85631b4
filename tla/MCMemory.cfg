SPECIFICATION Spec
CONSTANTS
    k1 = k1
    k2 = k2
    k3 = k3
    Procs = {p1, p2}
    Keys <- MCKeys
    Sizes = {1, 2}
    DefaultPolicy <- Lru
    InitialFiles <- MCFiles
    MaxCommands = 2
    MaxTime = 1
SYMMETRY Alike
INVARIANTS CapacityKept AgentsFollow
PROPERTIES ImplementsMap PutSurvives OkIsDurable
CHECK_DEADLOCK FALSE
