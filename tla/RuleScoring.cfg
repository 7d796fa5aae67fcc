SPECIFICATION Spec
CONSTANTS
  Rules = {r1, r2}
  Handlers = {h1}
  MaxOps = 1
  Workers = {w1}
  MaxScores = 1
INVARIANT TriggeredRulesAnswered
CHECK_DEADLOCK FALSE
