CONSTANTS
    Ids = {1, 2, 3}
    Keys = {"k1", "k2", "k3"}
    Sessions = {"s1", "s2"}
    Times = {0, 1, 2, 3}
    Facts <- MCFacts
    Delays = {1, 2}
    Limit = 2
    MaxEpoch = 2
    MaxReplays = 1
    None = None
SPECIFICATION Spec
INVARIANT TablesAgree
PROPERTIES
    CandidateWasIdle
    DecisionsAreFinal
CHECK_DEADLOCK FALSE
