CONSTANTS
  Chat = {c1, c2}
  c1 = c1
  c2 = c2
  MaxEdits = 3
  MaxFails = 1
  MaxRuns = 2
  SameTick = FALSE
SPECIFICATION StoreFairSpec
INVARIANTS QuitKeeps
PROPERTIES DiskOnlyForward DiskCatchesUp 
CHECK_DEADLOCK FALSE
