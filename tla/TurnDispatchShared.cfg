SPECIFICATION Spec
CONSTANTS
  plan = plan
  work = work
  close = close
  c1 = c1
  c2 = c2
  t1 = t1
  t2 = t2
  r1 = r1
  k1 = k1
  Dispatch = {plan, close}
  Caller = {c1, c2}
  CallersOf <- SharedCallers
  Thread = {t1, t2}
  ThreadsOf <- AnyThread
  Parent = {r1}
  ParentOf <- RunOrTask
  TaskDispatch = {}
  WorkerDispatch = {}
  ClosingDispatch = {close}
  MaxRows = 1
  MaxBoots = 1
SYMMETRY CallerSymmetry
INVARIANTS
  TypeOK
  SubmissionIsRecorded
  RunningIsBound
PROPERTIES
  TerminalIsFinal
CHECK_DEADLOCK FALSE
