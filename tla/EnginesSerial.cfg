SPECIFICATION EnginesSpec
CONSTANTS
  Model <- TwoModels
  Call = {1, 2}
  MaxProc = 3
  MaxWindow = 1
  DefaultWindow = 1
  Fits <- MCFits
  Roomy <- MCRoomy
  Incomplete = {}
  Extras <- MCExtras
  Foreign = {}
  Attempt = {1}
  Overlap = FALSE
INVARIANTS
  OneEngine

  
CHECK_DEADLOCK FALSE
