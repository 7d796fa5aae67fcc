SPECIFICATION Spec
CONSTANTS
  Rules = {r1}
  Handlers = {h1, h2}
  MaxOps = 3
  Loads = {q1, q2}
  MaxLoads = 2
SYMMETRY Symmetry
INVARIANTS EngineFresh PageReleased
CHECK_DEADLOCK FALSE
