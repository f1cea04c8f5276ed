\* Two requests, two tasks, a crash also during recovery, and a purge.
SPECIFICATION FairSpec
CONSTANTS
    t1 = t1  t2 = t2  t3 = t3  k1 = k1  k2 = k2
    Threads = {t1, t2}
    Keys = {k1, k2}
    TaskOf <- OwnTask
    MaxAttempts = 2
    NoKey = NoKey
    MayFail = TRUE
    MaxPurges = 1
    MaxCrashes = 1
INVARIANTS OneComputation ResultKept AnswersAgree
PROPERTY InFlightResolved
