SPECIFICATION FairSpec
CONSTANTS
  p1 = p1
  p2 = p2
  p3 = p3
  proxy = proxy
  deploy = deploy
  Process = {p1, p2, p3}
  NoProcess = NoProcess
  Client = {proxy, deploy}
  BuildOf <- OldAndNew
  Deployer = {deploy}
  MaxWork = 1
  MaxFaults = 2
  Overlaps = FALSE

  
PROPERTY
  ServiceReturns
CHECK_DEADLOCK FALSE
