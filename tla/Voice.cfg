SPECIFICATION Spec
CONSTANTS
  MaxBursts = 3
  MaxWords = 1
  MaxPieces = 2
  MaxEvents = 3
  Voice = {"local", "cloud"}
INVARIANTS
  NothingOfCut
  NoRepetition
  HistoryTrue
PROPERTIES
  SuspensionEnds
CHECK_DEADLOCK FALSE
