\* Two workers, two runs of the script, one fault; a command line that loads
\* the plugin while the gateway does.
SPECIFICATION UpdateSpec
CONSTANTS
    u1 = u1  u2 = u2
    NoDoc = NoDoc  Gone = Gone
    Gateway = gateway
    Hosts = {gateway, cli}
    Units = {u1, u2}
    MaxRuns = 2
    MaxFaults = 1
SYMMETRY UnitSymmetry
INVARIANTS AlwaysAWayBack WorkersRunWholeCode EvidenceKept
PROPERTIES SuccessMeansNew RollbackRestores
