SPECIFICATION ConnectorFairSpec
CONSTANTS
  MaxRuns = 1
  MaxMoves = 0
  Capacity = 10
CHECK_DEADLOCK FALSE
PROPERTY
  ResultIsReturned
