SPECIFICATION Spec
CONSTANTS
  plan = plan
  work = work
  close = close
  c1 = c1
  c2 = c2
  t1 = t1
  t2 = t2
  r1 = r1
  k1 = k1
  Dispatch = {plan}
  Caller = {c1}
  CallersOf <- OneCaller
  Thread = {t1}
  ThreadsOf <- OneThread
  Parent = {r1}
  ParentOf <- RunOrTask
  TaskDispatch = {}
  WorkerDispatch = {}
  ClosingDispatch = {}
  MaxRows = 1
  MaxBoots = 2
INVARIANTS
  SubmittedOnce
CHECK_DEADLOCK FALSE
