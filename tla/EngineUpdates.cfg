SPECIFICATION UpdaterSpec
CONSTANTS
  MaxBuild = 3
  Bad = {2}
  MayCrash = TRUE
  MayLock = TRUE
INVARIANTS
  SomethingToRun
  

  
CHECK_DEADLOCK FALSE
