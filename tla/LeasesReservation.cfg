SPECIFICATION FairSpec
CONSTANTS
  left = left
  right = right
  t1 = t1
  Task = {left, right}
  Thread = {t1}
  Managed = {}
  KeyOf <- SharedKey
  NoKey = "none"
  NoThread = NoThread
  Worktree = {right}
  Ephemeral = {right}
  NoTask = NoTask
  Pinned <- NonePinned
  MaxFaults = 2
PROPERTIES
  ReservationRecovers
CHECK_DEADLOCK FALSE
