\* The tracking row of a migration that was run cannot be written.
SPECIFICATION MigSpec
CONSTANTS
  Migrators = {m1}
  Versions <- MCVersions
  NoTx <- MCNoTx
  Faults = {"track"}
  MaxRuns = 1
INVARIANT LeftOutsideTransaction
CHECK_DEADLOCK FALSE
