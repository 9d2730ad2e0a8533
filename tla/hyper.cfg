SPECIFICATION LiveSpec
CONSTANTS
    NumCores = 2
    NumPeriods = 2
    AppsPerPeriod = 2
    ThreadsOf <- TwoAndOne
    Mappings <- MainsApart
INVARIANTS PeriodsApart
PROPERTIES AllPeriodsFinish
