\* Given-up percepts fill the window the pump delivers from.
SPECIFICATION FairSpec
CONSTANTS
    s1 = s1  s2 = s2  p1 = p1  p2 = p2
    Submitters = {s1}
    Pumps = {p1}
    Keys = {1, 2}
    MaxAttempts = 2
    Limit = 1
    MaxRows = 2
    MaxCrashes = 0
PROPERTY PendingIsPumped
