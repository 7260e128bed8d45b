SPECIFICATION FairSpec
CONSTANTS
  head = head
  rescue = rescue
  sequel = sequel
  Task = {head}
  Deps <- NoDeps
  Policy <- AllSuccess
  Criteria = {head}
  Integrates = {head}
  ReplaySafe = {head}
  MaxAttempts <- Two
  MaxClaims = 3
  MaxRepairs = 1
  MaxBoots = 2
INVARIANTS
  TypeOK
  OwnedIffActive
  RetryHasBudget
PROPERTIES
  ImplementsClaims
  
CHECK_DEADLOCK FALSE
