SPECIFICATION FairSpec
CONSTANTS
  Topics = {t1}
  Requests = {r1}
  BatchSize = 2
  ChanCap = 1
  MaxAttempts = 2
  MaxLog = 2
  MaxBoots = 2
CHECK_DEADLOCK FALSE
INVARIANTS
  NoSendOnClosedChannel
PROPERTIES
  ImplementsDurableIngest
  RequestsAnswered
  ShutdownCompletes
