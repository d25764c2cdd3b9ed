SPECIFICATION FairSpec
CONSTANTS
  MaxAttempts = 2
  MaxUses = 1
  MaxQueue = 1
  RefusalLimit = 2
INVARIANT
  ReaderIsWatched
PROPERTIES
  PairingAnswered
  Reconnects
CHECK_DEADLOCK FALSE
