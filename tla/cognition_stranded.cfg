\* One request releases the row another one waits for.
SPECIFICATION FairSpec
CONSTANTS
    t1 = t1  t2 = t2  t3 = t3  k1 = k1  k2 = k2
    Threads = {t1, t2, t3}
    Keys = {k1, k2}
    TaskOf <- OwnTask
    MaxAttempts = 2
    NoKey = NoKey
    MayFail = FALSE
    MaxPurges = 0
    MaxCrashes = 0
PROPERTY RetriesGoOn
