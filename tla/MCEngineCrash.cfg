\* The queue has a slot for each task, one URL cannot be requested; two processes may
\* die or fail in NewAttempt.
CONSTANTS
  TaskId = {t1, t2}
  AttemptId = {1, 2, 3, 4}
  QueueId = {default}
  None = None
  NameOf <- OwnName
  QueueOf <- OneQueue
  Limit <- TwoSlots
  MaxAttempts = 2
  BadUrl = {t2}
  Worker = {w1, w2}
  Fixer = {f1}
  Client = {c1}
  Cleaner = {}
  Calls = {"create"}
  Schedules <- Mixed
  Actives <- Yes
  MaxCalls = 2
  MaxCrashes = 2
  LateCrashes = FALSE
SPECIFICATION Spec
SYMMETRY Symm
INVARIANTS
  OneAtATime
  SlotsComeBack
PROPERTY
  ResultIsFinal
CHECK_DEADLOCK FALSE
