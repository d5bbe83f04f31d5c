\* One task; a worker may die between its update of the task and the acknowledgement.
CONSTANTS
  TaskId = {t1}
  AttemptId = {1, 2, 3, 4}
  QueueId = {default}
  None = None
  NameOf <- OwnName
  QueueOf <- OneQueue
  Limit <- OneSlot
  MaxAttempts = 3
  BadUrl = {}
  Worker = {w1, w2}
  Fixer = {f1}
  Client = {c1}
  Cleaner = {}
  Calls = {"create"}
  Schedules <- No
  Actives <- Yes
  MaxCalls = 2
  MaxCrashes = 1
  LateCrashes = TRUE
SPECIFICATION Spec
SYMMETRY Symm
INVARIANT
  RetryBudget
CHECK_DEADLOCK FALSE
