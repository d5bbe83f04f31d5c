CONSTANTS
  App = {"default", "x"}
  q1 = q1
  QName = {"default", q1}
  t1 = t1
  t2 = t2
  TName = {t1, t2}
  None = None
  Client = {c1}
  Request <- Requests
  MaxCalls = 6
  MaxFails = 1
  SyncApp = "x"
  File <- OneFile
  FileQueue <- AnyQueue
  PageLimit = 1
CHECK_DEADLOCK FALSE
SPECIFICATION Spec
INVARIANTS
  TypeOK
  ChildrenGoFirst
  TaskHasQueue
  SyncedExactly
PROPERTIES
  DefaultApplicationStays
  DeletedIsRemoved
