\* A second crash during startup recovery.
SPECIFICATION FairSpec
CONSTANTS
    t1 = t1  t2 = t2  k1 = k1  k2 = k2  b1 = b1  b2 = b2  c1 = c1  c2 = c2
    Threads = {t1}
    Recovery = recovery
    Keys = {k1}
    Bodies = {b1}
    Targets = {c1}
    NoRequest = NoRequest
    ProbeInstalled = FALSE
    ProbeTruthful = TRUE
    LegacyRows <- NoLegacyRows
    MaxCrashes = 2
PROPERTY ReceiptHeals
