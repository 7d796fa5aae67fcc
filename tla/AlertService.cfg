SPECIFICATION FairSpec
CONSTANTS
  a1 = a1
  a2 = a2
  u1 = u1
  AlertIDs <- MCAlertIDs
  Users <- MCUsers
  UserOf <- MCUserOf
  Invalid = Invalid
  MaxRetries = 2
  RateLimit = 1
  MaxLog = 2
  MaxBoots = 2
CHECK_DEADLOCK FALSE
INVARIANTS
  PostsBounded
  DedupBacked
PROPERTY
  NoHeadOfLineBlocking
