SPECIFICATION Spec
CONSTANTS
  Providers = {anthropic, openai}
  Tasks = {t1, t2, t3}
  MaxCreated = 3
CHECK_DEADLOCK FALSE
INVARIANTS
  ReturnedHasClosed
  ClosedOnlyBecauseOfAclose
  LeaksOnlyLate
