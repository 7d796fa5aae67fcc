SPECIFICATION FairHubSpec
CONSTANTS
  Clients = {c1, c2}
  ClientBuffer = 1
  BroadcastCap = 1
  MaxEvents = 2
CHECK_DEADLOCK FALSE
INVARIANTS
  InOrder
PROPERTIES
  NeverStalls
  GoneIsRemoved
