\* One run of the script under one worker fails before anything is swapped.
SPECIFICATION UpdateSpec
CONSTANTS
    u1 = u1  u2 = u2
    NoDoc = NoDoc  Gone = Gone
    Gateway = gateway
    Hosts = {gateway}
    Units = {u1}
    MaxRuns = 1
    MaxFaults = 0
INVARIANT FailureLeavesItRunning
