SPECIFICATION Spec
CONSTANTS
  Job = {1, 2}
  Model = {"sd", "flux"}
  MaxProc = 3
  MaxChats = 1
  StopMay = TRUE
INVARIANTS
  NoOrphan
  OwnPicture
  EvictionRemembered
PROPERTIES
  HoldsUntilStopped
CHECK_DEADLOCK FALSE
