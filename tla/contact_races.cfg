\* Two concurrent requests for one key, two bodies, two routes, one crash.
SPECIFICATION Spec
CONSTANTS
    t1 = t1  t2 = t2  k1 = k1  k2 = k2  b1 = b1  b2 = b2  c1 = c1  c2 = c2
    Threads = {t1, t2}
    Recovery = recovery
    Keys = {k1}
    Bodies = {b1, b2}
    Targets = {c1, c2}
    NoRequest = NoRequest
    ProbeInstalled = TRUE
    ProbeTruthful = TRUE
    LegacyRows <- LegacyRow
    MaxCrashes = 1
SYMMETRY ThreadSymmetry
INVARIANTS AtMostOneSend LedgerMatchesProvider CompletionHasEvidence
    FreshDecisionIsSafe DeliveredAnswerIsTrue
PROPERTIES UnknownNeedsEvidence ImplementsPromise
