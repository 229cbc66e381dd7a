\* Two migrators, every reported failure, crashes at every point.
SPECIFICATION MigSpec
CONSTANTS
  Migrators = {m1, m2}
  Versions <- MCVersions
  NoTx <- MCNoTx
  Faults = {"begin", "track", "commit", "restore", "unrestored"}
  MaxRuns = 2
INVARIANTS
  MigTypeOK
  RecordedIffInEffect
  ListStaysTrue
PROPERTIES
  RecordedAfterBatch
  RunsEnd
CHECK_DEADLOCK FALSE
