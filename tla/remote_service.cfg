SPECIFICATION Spec
CONSTANTS
  MaxConnections = 2
  MaxRequests = 4
  MaxMoves = 1
CHECK_DEADLOCK FALSE
INVARIANTS
  DialogHasItsClient
  PasswordStaysWithItsClient
  AnswersToRequester
PROPERTIES
  AnswerFits
