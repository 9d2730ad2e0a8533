CONSTANTS
    NumThreads = 2
    NumCores = 2
    AffinityMasks = {{0}, {1}, {0, 1}}
    InitialAffinities = {{0}, {1}}
    Quantum = 5
    Interval = 10
    LocalTimes = {5}
    MaxAge = 20
    AppCalls = {"yield", "affinity"}
    EarlyJoin = FALSE
SPECIFICATION LiveSpec
PROPERTIES NoStarvation
CHECK_DEADLOCK FALSE
