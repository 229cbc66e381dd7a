\* A dropped nested transaction against what its outer one is told.
SPECIFICATION HandleSpec
CONSTANTS
  w1 = w1
  w2 = w2
  Work <- MCWork
  Faults = {}
  IgnoredFaults = {}
  MaxDepth = 4
  MaxOpen = 3
  MaxQueue = 3
  MaxLog = 4
INVARIANT KeptIsDurable
CHECK_DEADLOCK FALSE
