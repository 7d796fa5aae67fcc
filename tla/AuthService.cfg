SPECIFICATION AuthSpec
CONSTANTS
  Emails = {e1, e2}
  Handlers = {h1, h2}
  MaxFailed = 2
  MaxRequests = 6
  Sessions = {s1, s2}
  Callers = {h1, h2}
  MaxCalls = 5
CHECK_DEADLOCK FALSE
INVARIANTS
  AdminExists
  LatecomersAreUsers
  LockedAtLimit
  GuessesBounded
  UsableIsListed
  RevocationIsFinal
  LogoutIsFinal
