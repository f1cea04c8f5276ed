\* Two contacts on one route, two sessions that share a cache of one entry;
\* one decision or the other.
SPECIFICATION Spec
CONSTANTS
    t1 = t1  t2 = t2  e1 = e1  e2 = e2
    None = None
    Contacts = {1, 2}
    CreatedAt <- PairCreatedAt
    TargetOf <- PairTargetOf
    EventOf <- PairWithOther
    Sessions = {s1, s2}
    Targets = {t1, t2}
    Decisions = {accept, decline}
    Calls = {w1}
    Window = 2
    MaxRoutes = 1
    RouteTtl = 0
    MaxTime = 1
INVARIANTS EventOfOwnRoute AcceptedMeansTaken
PROPERTIES RecordedContactHidesOlder RouteIsCurrent
