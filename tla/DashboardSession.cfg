SPECIFICATION Spec
CONSTANTS
  Tabs = {t1, t2}
  Requests = {r1}
  MaxBlocked = 2
  MaxVisits = 2
PROPERTIES SignOutHolds NeverSpins
