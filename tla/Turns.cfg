CONSTANTS
  Chat = {c1, c2}
  c1 = c1
  c2 = c2
  MaxTurns = 3
  MaxMsgs = 2
  MaxReports = 1
  MaxOps = 2
  MaxWakes = 1
  Retries = 1
  Windows = 1
  EditWaits = FALSE
SPECIFICATION FairSpec
INVARIANTS  OneAtATime NothingStranded
CHECK_DEADLOCK FALSE
PROPERTY LineMoves
