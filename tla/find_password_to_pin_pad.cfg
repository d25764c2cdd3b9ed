SPECIFICATION Spec
CONSTANTS
  c1 = c1
  c2 = c2
  r1 = r1
  r2 = r2
  Cards = {c1}
  Readers = {r1, r2}
  ComfortReaders = {r2}
  Deactivated = {}
  Unreadable = {}
  NoCard = NoCard
  NoReader = NoReader
  NoPassword = NoPassword
  WrongPassword = WrongPassword
  UiHolds <- QmlHolds
  EarlyKill = FALSE
  RepositionLimit = 2
  PukUses = 1
  MaxJobs = 3
CHECK_DEADLOCK FALSE
INVARIANT
  PasswordGoesToItsReader
