\* Two clients resize the queue at the same time.
CONSTANTS
  QueueId = {q1, q2}
  AttemptId = {a1, a2, a3}
  Worker = {w1, w2}
  Admin = {c1, c2}
  Sizes = {1, 2}
SPECIFICATION Spec
SYMMETRY Symm
INVARIANT
  InFlightWithinAnyRequest
