SPECIFICATION CallSpec
CONSTANTS
  Calls = {c1, c2}
  NoCall = NoCall
  Usages <- MCUsages
  MaxPieces = 3
  MaxLines = 2
  MaxTools = 2
  Requests <- MCRequests
INVARIANTS
  DecoderInSync
  ContentIsReply
  DoneTellsWhole
  UsageAddsUp
  StreamAgreesWithComplete
  RequestKeepsConversation
  WarnedOnce
PROPERTIES
  ImplementsReply
