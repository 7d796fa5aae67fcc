SPECIFICATION Spec
CONSTANTS
  Requests = {r1, r2, r3, r4}
  Limit = 2
  Window = 3
  MaxDelay = 1
  MaxTime = 5
CHECK_DEADLOCK FALSE
INVARIANTS
  WindowBound
  RefusedForCause
