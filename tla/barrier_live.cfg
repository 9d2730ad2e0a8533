SPECIFICATION LiveSpec
CONSTANTS
    NumCores = 2
    NumThreads = 2
    HostCores = 1
    Interval = 1
    Steps = {1}
    MaxTime = 2
    Setups <- LiveSetups
    PromptFutex = FALSE
PROPERTIES EveryoneGoesOn
CHECK_DEADLOCK FALSE
