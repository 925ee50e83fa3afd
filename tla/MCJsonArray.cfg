SPECIFICATION Spec
CONSTANTS
  TopLevelArrays = FALSE
  MaxText = 11
CHECK_DEADLOCK FALSE
INVARIANTS
  InSync
  YieldsObjects
