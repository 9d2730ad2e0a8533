SPECIFICATION LiveSpec
CONSTANTS
    NumCores = 2
    NumThreads = 2
    HostCores = 1
    Interval = 1
    Steps = {1}
    MaxTime = 3
    Setups <- ExitsOnly
    PromptFutex = FALSE
PROPERTIES SleepersWake
CHECK_DEADLOCK FALSE
