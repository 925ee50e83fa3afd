SPECIFICATION FairSpec
CONSTANTS
  Steps <- MCSteps
  Input = "input"
  Kind <- MCKind
  Upstream <- MCUpstream
  Pos <- MCPos
  MaxConc <- MCMaxConc
  Strict = {}
  CustomKey = {}
  KeyRaises = {}
  MayFail = {}
  QueueMax = 2
  Yields <- MCYields
  MaxItems = 6
  MaxCancels = 1
CHECK_DEADLOCK FALSE
INVARIANTS
  PermitsConserved
  ExactlyOnce
  Backpressure
  MergeJoins
PROPERTIES
  
  CloseWaitsOnlyForRoom
  ImplementsJobStream
