SPECIFICATION SessionSpec
CONSTANTS
  Sessions = {s1}
  Callers = {h1}
  MaxCalls = 2
CHECK_DEADLOCK FALSE
INVARIANT ReuseIsReuse
