SPECIFICATION CSpec
CONSTANTS
  Documents <- MCDocuments
  Messages <- MCMessages
  MaxCalls = 2
  MaxMessages = 2
INVARIANTS
  SchemaSafe
  PacketsWalk
  RoundTrip
  OracleMeant
CHECK_DEADLOCK FALSE
