SPECIFICATION Spec
CONSTANTS
  Names <- MCNames
  Refs <- MCRefs
  Rank <- MCRank
  Declared <- MCDeclared
INVARIANTS
  TypeOK
  OrderIsFresh
  CycleIsReal
  NoEntryMeansEmpty
  LoopEnds
