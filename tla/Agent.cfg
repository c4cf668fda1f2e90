SPECIFICATION Spec
CONSTANTS
  MaxLoops = 3
  MaxCalls = 2
  MaxRetries = 1
  Tool = {"read", "act"}
INVARIANTS
  RequestsWhole
  NeverBlank
  RetriesLoseNothing
PROPERTIES
  StopIsFinal
  StopEnds
CHECK_DEADLOCK FALSE
