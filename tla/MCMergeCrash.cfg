SPECIFICATION FairOpenSpec
CONSTANTS
  Steps <- MCSteps
  Input = "input"
  Kind <- MCKind
  Upstream <- MCUpstream
  Pos <- MCPos
  MaxConc <- MCMaxConc
  Strict = {"join"}
  CustomKey = {"join"}
  KeyRaises = {"join"}
  MayFail = {"join"}
  QueueMax = 2
  Yields <- MCYieldsFull
  MaxItems = 3
  MaxCancels = 0
CHECK_DEADLOCK FALSE
PROPERTIES
  EventuallyComplete
