\* Two programs that create, drop, look for, open and prepare databases of one
\* server, which may refuse any connection or statement.
SPECIFICATION SetupSpec
CONSTANTS
  c1 = c1
  c2 = c2
  Units <- MCUnits
  Clients = {c1, c2}
  Requests <- MCRequestsOf
  DefaultSchema <- MCDefaultSchema
  Schemas <- MCSchemas
  Tables <- MCTables
  MaxCalls <- MCMaxCalls
  MaxObjects = 2
INVARIANTS
  SetupTypeOK
  ReadsAsAsked
  PreparedOnce
PROPERTIES
  SetupHitsItsTarget
  ExistsWasSo
CHECK_DEADLOCK FALSE
