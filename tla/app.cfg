SPECIFICATION FairSpec
CONSTANTS
  a1 = a1
  p1 = p1
  p2 = p2
  s1 = s1
  None = None
  Requests = {a1, p1, p2, s1}
  ActionOf <- ActionOfAll
  MaxQuits = 1
INVARIANTS
  NoRequestLost
  EndsFindTheirWorkflow
  WaitingIsNext
PROPERTIES
  ShutdownQuitsUnlessDeaf
