SPECIFICATION FairSpec
CONSTANTS
  k1 = k1
  k2 = k2
  a1 = a1
  s1 = s1
  a2 = a2
  b1 = b1
  None = None
  Clients = {k1, k2}
  Requests = {a1, s1, a2, b1}
  ActionOf <- ActionOfAll
  ClientOf <- ClientOfAll
CHECK_DEADLOCK FALSE
INVARIANTS
  CommandsMeetTheirState
  ClientHearsItsOwn
  DominationMatchesConnection
PROPERTY
  AbandonedEnds
