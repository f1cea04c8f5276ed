\* Two submitters of one percept and the recovery daemon.
SPECIFICATION Spec
CONSTANTS
    s1 = s1  s2 = s2  p1 = p1  p2 = p2
    Submitters = {s1, s2}
    Pumps = {p1}
    Keys = {1}
    MaxAttempts = 2
    Limit = 2
    MaxRows = 2
    MaxCrashes = 1
SYMMETRY WorkerSymmetry
INVARIANTS CompletedWasAcknowledged PayloadKept SendsAreRecorded
