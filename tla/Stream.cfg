\* Row by row and in rowsets of two rows, with every failure.
SPECIFICATION StreamSpec
CONSTANTS
  MaxQueries = 2
  Batches <- MCBatches
  Capacity = 2
  RowSetSizes = {1, 2}
  Faults = {"execute", "inspect", "fetch", "unbind", "advance"}
INVARIANTS
  StreamTypeOK
  SentInOrder
PROPERTIES
  ImplementsResultDelivery
  DroppedFreesActor
  OptionalReturns
CHECK_DEADLOCK FALSE
