SPECIFICATION Spec
CONSTANTS
    NumCores = 3
    NumThreads = 3
    HostCores = 1
    Interval = 1
    Steps = {1, 2}
    MaxTime = 2
    Setups <- SafeSetups
    PromptFutex = TRUE
INVARIANTS AssertionsHold NobodyForgotten ClockSkewBounded
CHECK_DEADLOCK FALSE
