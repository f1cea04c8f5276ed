\* Two writers and a reader of a trace with two rotated files; two runs of
\* the migration, cut off anywhere; one failed emit.
SPECIFICATION MigrationSpec
CONSTANTS
    w1 = w1  w2 = w2
    Writers = {w1, w2}
    Nobody = Nobody
    Capacity = 2
    BackupCount = 2
    MaxRecords = 7
    MaxFailures = 1
    History = {1, 3}
    MaxRuns = 2
SYMMETRY WriterSymmetry
INVARIANTS LogInOrder RedactingLosesNothing TailInOrder
PROPERTIES MigratesInOrder RouteSurvives
