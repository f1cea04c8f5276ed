\* Three contacts on two routes, one session, a window of two rows.
SPECIFICATION Spec
CONSTANTS
    t1 = t1  t2 = t2  e1 = e1  e2 = e2
    None = None
    Contacts = {1, 2, 3}
    CreatedAt <- MCCreatedAt
    TargetOf <- MCTargetOf
    EventOf <- MCEventOf
    Sessions = {s1}
    Targets = {t1, t2}
    Decisions = {accept}
    Calls = {w1}
    Window = 2
    MaxRoutes = 1
    RouteTtl = 0
    MaxTime = 0
INVARIANT EventOfOwnRoute
PROPERTY RecordedContactHidesOlder
