SPECIFICATION FairSpec
CONSTANTS
  List = list
  Icons = {icon}
  Json = json
  Notes = notes
  Null = null
  MaxVersion = 2
  MaxUpdates = 2
  MaxFaults = 2
  MaxChecks = 2
  MaxPending = 2
PROPERTIES
  MarkIsServed
  PicturesSettle
  CheckIsAnswered
CHECK_DEADLOCK FALSE
