SPECIFICATION FairOpenSpec
CONSTANTS
  Steps <- MCSteps
  Input = "input"
  Kind <- MCKind
  Upstream <- MCUpstream
  Pos <- MCPos
  MaxConc <- MCMaxConc
  Strict = {"join"}
  CustomKey = {"join"}
  KeyRaises = {}
  MayFail = {"join"}
  QueueMax = 4
  Yields <- MCYields
  MaxItems = 2
  MaxCancels = 0
INVARIANTS
  FirstWriteWins
