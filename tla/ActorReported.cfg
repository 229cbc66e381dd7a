\* Every reported fault, no ignored one, no server-side abort.
SPECIFICATION ActorSpec
CONSTANTS
  w1 = w1
  w2 = w2
  w3 = w3
  Work <- MCWork
  Faults = {"begin", "save", "commit", "rollback", "restore", "rollback_to"}
  IgnoredFaults = {}
  MaxDepth = 4
  MaxLog = 5
INVARIANTS
  ManualModeIffOpen
  SavepointsInPlace
PROPERTIES
  OnlyOutermostCommits
  ImplementsNestedTransactions
  RepliesAreTrue
