\* A migration that is killed after redacting, and run again.
SPECIFICATION MigrationSpec
CONSTANTS
    w1 = w1  w2 = w2
    Writers = {w1}
    Nobody = Nobody
    Capacity = 2
    BackupCount = 2
    MaxRecords = 3
    MaxFailures = 0
    History = {1, 3}
    MaxRuns = 2
PROPERTY RouteRecoverable
