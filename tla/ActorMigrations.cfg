\* Migrations between and inside transactions, with every failure but one
\* that ROLLBACK hides.
SPECIFICATION MigratingSpec
CONSTANTS
  w1 = w1
  tx = tx
  notx = notx
  Scripts <- MCScripts
  NoTx <- MCNoTx
  Work <- MCWork
  Faults = {"begin", "save", "commit", "rollback", "restore", "rollback_to", "abort"}
  IgnoredFaults = {"rollback", "rollback_to"}
  MigrationFaults = {"begin", "track", "commit", "restore", "unrestored"}
  MaxDepth = 3
  MaxLog = 4
INVARIANTS
  ActorTypeOK
  WholeAndRecorded
  CleanAtRest
