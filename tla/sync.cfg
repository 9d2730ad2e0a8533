SPECIFICATION LiveSpec
CONSTANTS
    Threads = {t1, t2, t3}
    Mutexes = {m1, m2}
    Conds = {cv}
    BarrierUsers = {t1, t2, t3}
    MaxRounds = 2
    None = None
INVARIANTS LocksSound RoundsSeparate
PROPERTIES ImplementsMonitor LockGranted
CHECK_DEADLOCK FALSE
