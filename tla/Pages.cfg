SPECIFICATION PagesSpec
CONSTANTS
  e1 = e1
  e2 = e2
  s1 = s1
  Ids <- MCIds
  Action <- MCAction
  Score <- MCScore
  EventType <- MCEventType
  Located <- MCLocated
  Sources <- MCSources
  Source <- MCSource
  Services <- MCServices
  Window = 2
  MaxChanges = 2
  MaxVisits = 1
  Runs = {k1, k2}
  Kept = 1
  RollupNames = {"fraudRate"}
  Links <- MCLinks
  Fetches = {f1, f2}
  MaxOthers = 2
INVARIANTS AlertedOnce NoStickyToast MapComplete  FiguresAgree
PROPERTIES HealthConverges RollupsConverge
CHECK_DEADLOCK FALSE
