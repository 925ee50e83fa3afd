SPECIFICATION FairOpenSpec
CONSTANTS
  Steps <- MCSteps
  Input = "input"
  Kind <- MCKind
  Upstream <- MCUpstream
  Pos <- MCPos
  MaxConc <- MCMaxConc
  Strict = {"join"}
  CustomKey = {"join"}
  KeyRaises = {}
  MayFail = {"one"}
  QueueMax = 2
  Yields <- MCYields
  MaxItems = 2
  MaxCancels = 0
INVARIANTS
  TypeOK
  PermitsConserved
  ExactlyOnce
  EndOfStream
  MergeAccounting
  MergeJoins
  AllDelivered
PROPERTIES
  EventuallyComplete
  ImplementsJobStream
