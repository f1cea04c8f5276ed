\* An unrelated contact arrives, but its outcome stays unknown.
SPECIFICATION Spec
CONSTANTS
    t1 = t1  t2 = t2  e1 = e1  e2 = e2
    None = None
    Contacts = {1, 2}
    CreatedAt <- PairCreatedAt
    TargetOf <- PairTargetOf
    EventOf <- PairWithOther
    Sessions = {s1}
    Targets = {t1}
    Decisions = {accept}
    Calls = {w1}
    Window = 2
    MaxRoutes = 1
    RouteTtl = 0
    MaxTime = 0
PROPERTY NeverReachesBack
