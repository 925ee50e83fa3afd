SPECIFICATION Spec
CONSTANTS
  MaxAttempts <- MCMaxAttempts
  Errors <- MCErrors
  BaseDelay = 2
  MaxJitter = 1
INVARIANTS
  LastErrorSurfaces
  RetriesAreEarned
  BackoffGrows
