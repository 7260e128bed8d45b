SPECIFICATION FairSpec
CONSTANTS
  p1 = p1
  p2 = p2
  p3 = p3
  Project = {p1, p2, p3}
  Requests <- SomeRequests
  MaxFaults = 1
INVARIANTS
  TypeOK
  EndedIsQuiet
  SuccessIsEarned
PROPERTIES
  
  CancellationConverges
  FlatRunSettles
CHECK_DEADLOCK FALSE
