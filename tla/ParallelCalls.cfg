SPECIFICATION Spec
CONSTANTS
  N = 5
  Width = 2
PROPERTIES
  ComesBack
  KeepsThePromise
CHECK_DEADLOCK FALSE
