SPECIFICATION FairSpec
CONSTANTS
  MaxBoots = 2
  MaxRepairs = 1
INVARIANTS
  TypeOK
  CancelledRunIsOver
  
PROPERTIES
  ReopenedOnlyByRepair
  
  PreparationEnds
CHECK_DEADLOCK FALSE
