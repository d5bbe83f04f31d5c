\* A client deletes one of two tasks; the cleaner takes the slot of its attempt.
CONSTANTS
  TaskId = {t1, t2}
  AttemptId = {1, 2, 3, 4, 5, 6}
  QueueId = {default}
  None = None
  NameOf <- OwnName
  QueueOf <- OneQueue
  Limit <- OneSlot
  MaxAttempts = 2
  BadUrl = {}
  Worker = {w1, w2}
  Fixer = {f1}
  Client = {c1}
  Cleaner = {k1}
  Calls = {"create", "delete"}
  Schedules <- No
  Actives <- Yes
  MaxCalls = 3
  MaxCrashes = 0
  LateCrashes = FALSE
SPECIFICATION Spec
SYMMETRY Symm
INVARIANT
  ConcurrencyLimit
CHECK_DEADLOCK FALSE
