SPECIFICATION Spec
CONSTANTS
  head = head
  rescue = rescue
  sequel = sequel
  Task = {head, rescue, sequel}
  Deps <- Fallback
  Policy <- FallbackPolicy
  Criteria = {}
  Integrates = {}
  ReplaySafe = {sequel}
  MaxAttempts <- One
  MaxClaims = 3
  MaxRepairs = 1
  MaxBoots = 1
INVARIANTS
  SuccessorsFollowSuccess
  
CHECK_DEADLOCK FALSE
