------------------------------ MODULE QueueDoc ------------------------------
(***************************************************************************)
(* The document of a queue (models/queue.go) and the single-document       *)
(* updates MongoDB applies to it.  Each update is atomic: the query of the *)
(* update selects the document, the update changes all its fields at once. *)
(*                                                                         *)
(* attempts_in_flight is an array in the code.  Its only writer pushes an  *)
(* id under the condition that the array does not have it, so a set of ids *)
(* says as much.                                                           *)
(***************************************************************************)
EXTENDS Integers, FiniteSets

\* The slots of a queue: max_in_flight, available_in_flight, attempts_in_flight.
SlotsOf(Ids) == [max : Int, available : Int, inflight : SUBSET Ids]

\* A freshly inserted queue of n slots.
NewSlots(n) == [max |-> n, available |-> n, inflight |-> {}]

\* The attempt already holds a slot.
Holds(q, a) == a \in q.inflight

\* The query under which EnQueue takes a slot.
CanAdmitOffByOne(q, a) == q.available >= 0 /\ ~Holds(q, a)   \* mutant

CanAdmit(q, a) == q.available > 0 /\ ~Holds(q, a)

Admit(q, a) ==
  [max |-> q.max, available |-> q.available - 1, inflight |-> q.inflight \cup {a}]

\* DeQueue: an attempt that holds no slot gives none back.
ReleaseUnchecked(q, a) ==                                       \* mutant
  [q EXCEPT !.available = @ + 1, !.inflight = @ \ {a}]

Release(q, a) ==
  IF Holds(q, a)
  THEN [max |-> q.max, available |-> q.available + 1, inflight |-> q.inflight \ {a}]
  ELSE q

\* NewQueue on a queue that exists: both counters move by the same increment.
ResizeResets(q, inc) ==                                         \* mutant
  [q EXCEPT !.max = @ + inc, !.available = q.max + inc]

Resize(q, inc) ==
  [max |-> q.max + inc, available |-> q.available + inc, inflight |-> q.inflight]

\* The counter of free slots agrees with the list of attempts.
BalancedSlots(q) == q.available = q.max - Cardinality(q.inflight)
=============================================================================
