\* Streams read to the end, cut short, failing; prepared or not.
SPECIFICATION CacheSpec
CONSTANTS
  MaxQueries = 2
  Batches <- MCTexts
  Capacity = 1
  RowSetSizes = {2}
  Faults = {"execute", "inspect", "fetch", "unbind", "advance"}
  CacheSize = 2
INVARIANTS
  CacheTypeOK
  PendingOnlyIfCutShort
CHECK_DEADLOCK FALSE
