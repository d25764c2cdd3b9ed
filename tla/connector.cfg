SPECIFICATION ConnectorFairSpec
CONSTANTS
  MaxRuns = 2
  MaxMoves = 2
  Capacity = 10
CHECK_DEADLOCK FALSE
INVARIANT
  OneTryPerRun
PROPERTY
  RemovalEndsRun
