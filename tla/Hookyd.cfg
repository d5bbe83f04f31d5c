CONSTANTS
  Attempt = {a1}
  None = None
  Querier = {g1, g2}
  MaxQuerier = 2
  MaxWorker = 1
  Conn = {c1}
SPECIFICATION Spec
INVARIANTS
  TypeOK
  PlacesBounded
  StopWaitsForLeased
  HandlersFinish
PROPERTIES
  SignalEndsProcess
  ReadyIsLeased
  WorkersEnd
