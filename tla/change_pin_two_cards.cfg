SPECIFICATION Spec
CONSTANTS
  c1 = c1
  c2 = c2
  r1 = r1
  r2 = r2
  Cards = {c1, c2}
  Readers = {r1}
  ComfortReaders = {}
  Deactivated = {}
  Unreadable = {c1, c2}
  NoCard = NoCard
  NoReader = NoReader
  NoPassword = NoPassword
  WrongPassword = WrongPassword
  UiHolds <- QmlHolds
  EarlyKill = TRUE
  RepositionLimit = 1
  PukUses = 0
  MaxJobs = 2
SYMMETRY CardSymmetry
INVARIANTS
  CounterKnown
  PasswordFitsCounter
  PasswordsClearedAtEnd
PROPERTIES
  OneTryPerTypedPin
  ImplementsWorkflow
