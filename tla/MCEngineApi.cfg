\* Every call of the API on one task, with two fixers that repair it at the same time.
CONSTANTS
  TaskId = {t1}
  AttemptId = {1, 2, 3, 4}
  QueueId = {default}
  None = None
  NameOf <- OwnName
  QueueOf <- OneQueue
  Limit <- TwoSlots
  MaxAttempts = 2
  BadUrl = {}
  Worker = {w1}
  Fixer = {f1, f2}
  Client = {c1, c2}
  Cleaner = {}
  Calls = {"create", "update", "delete", "force"}
  Schedules <- No
  Actives <- Mixed
  MaxCalls = 3
  MaxCrashes = 0
  LateCrashes = FALSE
SPECIFICATION Spec
SYMMETRY Symm
INVARIANTS
  QueuedWasInserted
  AckedIsFinished
CHECK_DEADLOCK FALSE
