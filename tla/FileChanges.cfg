SPECIFICATION Spec
CONSTANTS
  Path = {"p", "q"}
  Content = {"x", "y"}
  NotText = {"x"}
  Misses = TRUE
  MaxChanges = 2
  MaxOthers = 1
  MaxFailures = 1
INVARIANTS
  UndoPossible
  NothingLost
  UndoLeadsBack
CHECK_DEADLOCK FALSE
