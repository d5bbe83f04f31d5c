\* One worker, one fixer, one cleaner; one of them or a client may die.
CONSTANTS
  TaskId = {t1}
  AttemptId = {1, 2}
  QueueId = {default}
  None = None
  NameOf <- OwnName
  QueueOf <- OneQueue
  Limit <- OneSlot
  MaxAttempts = 2
  BadUrl = {}
  Worker = {w1}
  Fixer = {f1}
  Client = {c1}
  Cleaner = {k1}
  Calls = {"create", "delete"}
  Schedules <- Mixed
  Actives <- Yes
  MaxCalls = 2
  MaxCrashes = 1
  LateCrashes = FALSE
SPECIFICATION FairSpec
PROPERTIES
  ActiveIsExecuted
  ResultsAreActedOn
  SlotsGivenBack
  DeletedGoesAway
CHECK_DEADLOCK FALSE
