SPECIFICATION Spec
CONSTANTS
  MaxLoops = 3
  MaxCalls = 2
  MaxRetries = 1
  Tool = {"read", "act", "quiet"}
INVARIANTS
  ToolsRunOnce
CHECK_DEADLOCK FALSE
