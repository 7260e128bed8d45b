SPECIFICATION FairSpec
CONSTANTS
  t1 = t1
  Task = {t1}
  Contracts <- SomeContracts
  Outcomes <- SomeOutcomes
  Opinions <- SomeOpinions
  MaxAttempts = 2
  MaxFaults = 3
  Careful = TRUE
  Listed = 4
INVARIANTS
  TypeOK
PROPERTIES
  
  BlockedIsUnapplied
  StartSettlesIntegration
CHECK_DEADLOCK FALSE
