SPECIFICATION Spec
CONSTANTS
  TopLevelArrays = TRUE
  MaxText = 11
CHECK_DEADLOCK FALSE
INVARIANTS
  NoneLost
