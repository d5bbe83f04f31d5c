\* One client updates the task while its attempt is executed; nothing fails.
CONSTANTS
  TaskId = {t1}
  AttemptId = {1, 2, 3, 4}
  QueueId = {default}
  None = None
  NameOf <- OwnName
  QueueOf <- OneQueue
  Limit <- OneSlot
  MaxAttempts = 2
  BadUrl = {}
  Worker = {w1, w2}
  Fixer = {f1}
  Client = {c1}
  Cleaner = {}
  Calls = {"create", "update"}
  Schedules <- No
  Actives <- Yes
  MaxCalls = 2
  MaxCrashes = 0
  LateCrashes = FALSE
SPECIFICATION Spec
SYMMETRY Symm
INVARIANT
  NoTaskForgotten
CHECK_DEADLOCK FALSE
