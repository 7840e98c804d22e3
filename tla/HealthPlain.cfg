SPECIFICATION Spec
CONSTANTS
  Requests = {r1, r2}
  MaxLen = 2
INVARIANTS
  StatusAsDocumented
  AttemptsAreAccounted
CHECK_DEADLOCK FALSE
