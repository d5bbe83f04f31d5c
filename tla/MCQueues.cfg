\* One client at a time resizes the queue; workers, deaths and the cleaner race.
CONSTANTS
  QueueId = {q1, q2}
  AttemptId = {a1, a2, a3}
  Worker = {w1, w2}
  Admin = {c1}
  Sizes = {1, 2}
SPECIFICATION Spec
SYMMETRY Symm
INVARIANTS
  TypeOK
  Balanced
  InFlightWithinAnyRequest
PROPERTY
  ImplementsBoundedSlots
