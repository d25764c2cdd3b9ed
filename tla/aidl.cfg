SPECIFICATION FairSpec
CONSTANTS
  k1 = k1
  k2 = k2
  None = None
  Clients = {k1, k2}
  MaxSessions = 3
  MaxCommands = 2
CHECK_DEADLOCK FALSE
INVARIANTS
  TypeOK
PROPERTIES
  ResetSparesTheValidSession
  EveryCallReturns
