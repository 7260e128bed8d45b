SPECIFICATION FairSpec
CONSTANTS
  t1 = t1
  t2 = t2
  Task = {t1, t2}
  Contracts <- JustWork
  Outcomes <- OneOutcome
  Opinions <- OneOpinion
  MaxAttempts = 1
  MaxFaults = 1
  Careful = TRUE
  Listed = 1
PROPERTIES
  StartSettlesIntegration
CHECK_DEADLOCK FALSE
