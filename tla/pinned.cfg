CONSTANTS
    NumThreads = 3
    NumCores = 2
    AffinityMasks = {{0}, {1}, {0, 1}}
    InitialAffinities = {{0, 1}}
    Quantum = 10
    Interval = 10
    LocalTimes = {5}
    MaxAge = 10
    AppCalls = {"sync", "join", "exit", "syscall"}
    EarlyJoin = FALSE
SPECIFICATION Spec
INVARIANTS MapsAgree NoCoreForStalled NoLostWakeup
PROPERTIES PreemptedOnlyAtBarrier ImplementsCoreAssignment
CHECK_DEADLOCK FALSE
