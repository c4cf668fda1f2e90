SPECIFICATION Spec
CONSTANTS
  Model <- TwoModels
  Call = {1, 2, 3}
  MaxProc = 4
  MaxWindow = 2
  DefaultWindow = 1
  Fits <- MCFits
  Roomy <- MCRoomy
  Incomplete = {}
  Extras <- MCExtras
  Foreign = {"silent"}
  Overlap = FALSE
INVARIANTS
  NoOrphan
  StatusTrue
PROPERTIES
  SuccessServes
CHECK_DEADLOCK FALSE
