SPECIFICATION Spec
CONSTANTS
  c1 = c1
  c2 = c2
  r1 = r1
  Cards = {c1, c2}
  Readers = {r1}
  ComfortReaders = {}
  Deactivated = {c2}
  Unreadable = {}
  NoCard = NoCard
  NoReader = NoReader
  NoPassword = NoPassword
  WrongPassword = WrongPassword
  UiHolds <- QmlHolds
  EarlyKill = TRUE
  RepositionLimit = 1
  PukUses = 0
  MaxJobs = 1
  AsksByName = TRUE
  MaxTransmits = 1
  ServerHeedsErrors = TRUE
  SurveyPending = TRUE
  SelfAuths = {TRUE, FALSE}
INVARIANTS
  NoPasswordInDialogue
  EacInsideChannel
  BrowserAnswered
  HistoryIsTrue
PROPERTIES
  AnswerIsTrue
  ImplementsWorkflow
