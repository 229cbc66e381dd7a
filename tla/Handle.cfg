\* Reported failures; transactions dropped at every level.
SPECIFICATION HandleSpec
CONSTANTS
  w1 = w1
  w2 = w2
  Work <- MCWork
  Faults = {"begin", "commit", "rollback", "rollback_to", "restore"}
  IgnoredFaults = {}
  MaxDepth = 4
  MaxOpen = 3
  MaxQueue = 3
  MaxLog = 4
INVARIANTS
  HandleTypeOK
  DepthsAgree
  KeptIsDurableAtFirst
  DiscardedNeverDurable
  OpenNotDurable
  ReleasedClean
  HandleNeverAhead
PROPERTIES
  CallsReturn
  ActorExits
CHECK_DEADLOCK FALSE
