\* Two queues of which one admits nothing, two workers, one death; a step takes
\* up to one unit of time, a renewal is due after four.
CONSTANTS
  a1 = a1
  a2 = a2
  closed = closed
  open = open
  Attempt = {a1, a2}
  Queue = {closed, open}
  Worker = {w1, w2}
  None = None
  QueueOf <- OwnQueue
  Limit <- Limits
  TouchInterval = 4
  Latency = 1
  Delay = {0}
  MaxDeaths = 1
SPECIFICATION Spec
INVARIANTS
  TypeOK
  RenewedInTime
  OneExecutor
PROPERTIES
  TakenUpAgain
  OthersNotStarved
