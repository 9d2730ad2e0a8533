SPECIFICATION Spec
CONSTANTS
    NumCores = 2
    NumPeriods = 2
    AppsPerPeriod = 2
    ThreadsOf <- TwoAndOne
    Mappings <- MainsApart
INVARIANTS EvaluatedUnderOwnNumber
