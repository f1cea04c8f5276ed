\* One task id under two idempotency keys.
SPECIFICATION Spec
CONSTANTS
    t1 = t1  t2 = t2  t3 = t3  k1 = k1  k2 = k2
    Threads = {t1}
    Keys = {k1, k2}
    TaskOf <- SharedTask
    MaxAttempts = 1
    NoKey = NoKey
    MayFail = FALSE
    MaxPurges = 0
    MaxCrashes = 0
INVARIANT CompletedHasReceipt
