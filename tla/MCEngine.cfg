\* Two tasks share the one slot of a queue; two workers and the fixer; one process dies.
CONSTANTS
  TaskId = {t1, t2}
  AttemptId = {1, 2, 3, 4, 5, 6}
  QueueId = {default}
  None = None
  NameOf <- OwnName
  QueueOf <- OneQueue
  Limit <- OneSlot
  MaxAttempts = 2
  BadUrl = {}
  Worker = {w1, w2}
  Fixer = {f1}
  Client = {c1}
  Cleaner = {}
  Calls = {"create"}
  Schedules <- No
  Actives <- Yes
  MaxCalls = 2
  MaxCrashes = 1
  LateCrashes = FALSE
SPECIFICATION Spec
SYMMETRY Symm
INVARIANTS
  TypeOK
  ConcurrencyLimit
  NoTaskForgotten
  RetryBudget
  DoneStaysDone
CHECK_DEADLOCK FALSE
