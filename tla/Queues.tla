------------------------------- MODULE Queues -------------------------------
(***************************************************************************)
(* The queues of models/queue.go, seen from one queue name.                *)
(*                                                                         *)
(* MongoDB gives the document a new id each time the name is created after *)
(* a removal; tasks and attempts keep the id they were created with, so    *)
(* EnQueue and DeQueue go to an id while NewQueue and DeleteQueue go to    *)
(* the name.  A unique index keeps at most one stored document per name.   *)
(*                                                                         *)
(* A call of several database operations is several steps: EnQueue counts  *)
(* and then updates, NewQueue inserts, reads and then applies.  Workers,   *)
(* clients and the cleaner of every hookyd interleave between them.        *)
(***************************************************************************)
EXTENDS QueueDoc

CONSTANTS
  QueueId,    \* ids a queue document can get: bounds the re-creations
  AttemptId,  \* attempts that ask for a slot
  Worker,     \* goroutines that call EnQueue and DeQueue
  Admin,      \* clients that PUT the queue
  Sizes       \* values of max_in_flight a client asks for

ASSUME SizesAssumption == Sizes \subseteq Int

VARIABLES
  queues,     \* [QueueId -> state and slots of the document]
  worker,     \* [Worker -> where its EnQueue or execution is]
  admin,      \* [Admin -> where its NewQueue is]
  reply       \* [Admin -> answer to its last PUT]

vars == <<queues, worker, admin, reply>>

Idle == [pc |-> "idle"]
Call == {Idle} \cup [pc : {"counted", "holding"}, q : QueueId, a : AttemptId]

NoPut == [pc |-> "none"]
Put == {NoPut} \cup [pc : {"dup"}, asked : Sizes]
               \cup [pc : {"found"}, asked : Sizes, read : Int]

\* "unused": the id was not drawn yet; "removed": the cleaner removed the document.
DocState == {"unused", "live", "deleted", "removed"}

QueueDocs == [state : DocState, slots : SlotsOf(AttemptId)]

Stored(q) == queues[q].state \in {"live", "deleted"}

\* The id under which the name is found, when there is one.
Current == {q \in QueueId : Stored(q)}

SetSlots(q, s) == queues' = [queues EXCEPT ![q].slots = s]

TypeOK ==
  /\ queues \in [QueueId -> QueueDocs]
  /\ worker \in [Worker -> Call]
  /\ admin \in [Admin -> Put]
  /\ reply \in [Admin -> {"none", "ok", "notfound", "error"}]

Init ==
  /\ queues = [q \in QueueId |-> [state |-> "unused", slots |-> NewSlots(0)]]
  /\ worker = [w \in Worker |-> Idle]
  /\ admin = [c \in Admin |-> NoPut]
  /\ reply = [c \in Admin |-> "none"]
-----------------------------------------------------------------------------
(* EnQueue and DeQueue *)

\* EnQueue, first operation: an attempt that holds a slot keeps it.  The worker
\* took q from an attempt, so the document may be gone by now.
EnQueueCount(w, q, a) ==
  /\ worker[w] = Idle
  /\ queues[q].state # "unused"
  /\ LET next == IF Stored(q) /\ Holds(queues[q].slots, a) THEN "holding" ELSE "counted"
     IN  worker' = [worker EXCEPT ![w] = [pc |-> next, q |-> q, a |-> a]]
  /\ UNCHANGED <<queues, admin, reply>>

\* EnQueue, second operation, when the update matches.
EnQueueAdmit(w) ==
  /\ worker[w].pc = "counted"
  /\ LET q == worker[w].q
         a == worker[w].a
     IN  /\ Stored(q) /\ CanAdmit(queues[q].slots, a)
         /\ SetSlots(q, Admit(queues[q].slots, a))
  /\ worker' = [worker EXCEPT ![w].pc = "holding"]
  /\ UNCHANGED <<admin, reply>>

\* EnQueue, second operation, when nothing matches: the caller is told "full".
EnQueueFull(w) ==
  /\ worker[w].pc = "counted"
  /\ ~(Stored(worker[w].q) /\ CanAdmit(queues[worker[w].q].slots, worker[w].a))
  /\ worker' = [worker EXCEPT ![w] = Idle]
  /\ UNCHANGED <<queues, admin, reply>>

Release1(q, a) == IF Stored(q) THEN Release(queues[q].slots, a) ELSE queues[q].slots

DeQueue(w) ==
  /\ worker[w].pc = "holding"
  /\ SetSlots(worker[w].q, Release1(worker[w].q, worker[w].a))
  /\ worker' = [worker EXCEPT ![w] = Idle]
  /\ UNCHANGED <<admin, reply>>

\* The process of the worker dies, or its request cannot be built: no DeQueue.
WorkerGone(w) ==
  /\ worker[w] # Idle
  /\ worker' = [worker EXCEPT ![w] = Idle]
  /\ UNCHANGED <<queues, admin, reply>>

\* The cleaner takes the slot of a deleted attempt away, running or not.
CleanAttempt(q, a) ==
  /\ Stored(q) /\ Holds(queues[q].slots, a)
  /\ SetSlots(q, Release1(q, a))
  /\ UNCHANGED <<worker, admin, reply>>
-----------------------------------------------------------------------------
(* NewQueue, DeleteQueue and the removal of deleted queues *)

\* The insert succeeds: NewQueue drops the queue it built, PutQueue says 404.
NewQueueInsert(c, q, n) ==
  /\ admin[c] = NoPut
  /\ Current = {}
  /\ queues[q].state = "unused"
  /\ queues' = [queues EXCEPT ![q] = [state |-> "live", slots |-> NewSlots(n)]]
  /\ reply' = [reply EXCEPT ![c] = "notfound"]
  /\ UNCHANGED <<worker, admin>>

\* The insert meets the unique index.
NewQueueDup(c, n) ==
  /\ admin[c] = NoPut
  /\ Current # {}
  /\ admin' = [admin EXCEPT ![c] = [pc |-> "dup", asked |-> n]]
  /\ reply' = [reply EXCEPT ![c] = "none"]
  /\ UNCHANGED <<queues, worker>>

\* NewQueue reads the document to compute the increment.
NewQueueFind(c) ==
  /\ admin[c].pc = "dup"
  /\ \E q \in Current :
       admin' = [admin EXCEPT ![c] = [pc |-> "found", asked |-> admin[c].asked,
                                      read |-> queues[q].slots.max]]
  /\ UNCHANGED <<queues, worker, reply>>

\* The increment is applied to the document of that name, whatever its id.
NewQueueApply(c) ==
  /\ admin[c].pc = "found"
  /\ \E q \in Current :
       SetSlots(q, Resize(queues[q].slots, admin[c].asked - admin[c].read))
  /\ admin' = [admin EXCEPT ![c] = NoPut]
  /\ reply' = [reply EXCEPT ![c] = "ok"]
  /\ UNCHANGED worker

\* The read or the update finds no document any more.
NewQueueGoneKeepsRequest(c) ==                                  \* mutant
  /\ admin[c] # NoPut
  /\ Current = {}
  /\ admin' = [admin EXCEPT ![c].pc = "none"]
  /\ reply' = [reply EXCEPT ![c] = "error"]
  /\ UNCHANGED <<queues, worker>>

NewQueueGone(c) ==
  /\ admin[c] # NoPut
  /\ Current = {}
  /\ admin' = [admin EXCEPT ![c] = NoPut]
  /\ reply' = [reply EXCEPT ![c] = "error"]
  /\ UNCHANGED <<queues, worker>>

\* DeleteQueue, the part that touches the queue; its tasks and attempts are
\* flagged before.
DeleteQueue(q) ==
  /\ queues[q].state = "live"
  /\ queues' = [queues EXCEPT ![q].state = "deleted"]
  /\ UNCHANGED <<worker, admin, reply>>

CleanQueue(q) ==
  /\ queues[q].state = "deleted"
  /\ queues' = [queues EXCEPT ![q].state = "removed"]
  /\ UNCHANGED <<worker, admin, reply>>
-----------------------------------------------------------------------------
Next ==
  \/ \E w \in Worker :
       \/ \E q \in QueueId, a \in AttemptId : EnQueueCount(w, q, a)
       \/ EnQueueAdmit(w) \/ EnQueueFull(w) \/ DeQueue(w) \/ WorkerGone(w)
  \/ \E q \in QueueId, a \in AttemptId : CleanAttempt(q, a)
  \/ \E c \in Admin :
       \/ \E q \in QueueId, n \in Sizes : NewQueueInsert(c, q, n)
       \/ \E n \in Sizes : NewQueueDup(c, n)
       \/ NewQueueFind(c) \/ NewQueueApply(c) \/ NewQueueGone(c)
  \/ \E q \in QueueId : DeleteQueue(q) \/ CleanQueue(q)

Spec == Init /\ [][Next]_vars
-----------------------------------------------------------------------------
(* Properties *)

\* available_in_flight is always what max_in_flight leaves after the attempts
\* in flight, through every interleaving of EnQueue, DeQueue, NewQueue, the
\* cleaner and dying workers.  EnQueue trusts this counter alone.
Balanced == \A q \in QueueId : BalancedSlots(queues[q].slots)

\* A queue never lets more attempts in flight than the largest max_in_flight
\* some client asked for.  NewQueue computes the change of the limit from a
\* read that another client's PUT can make stale.
InFlightWithinAnyRequest ==
  \A q \in QueueId :
    queues[q].slots.inflight = {} \/
      \E n \in Sizes : Cardinality(queues[q].slots.inflight) <= n

\* swagger.yml: a PUT of a queue that creates it is a "successful operation"
\* that answers with the queue; NewQueue returns nil when its insert succeeds.
PutIsAnswered == \A c \in Admin : reply[c] # "notfound"

\* The queue documents implement bounded slots: an attempt enters only under
\* the limit of that moment, although EnQueue never looks at max_in_flight and
\* NewQueue moves it concurrently.
Slots == INSTANCE BoundedSlots
           WITH Pool <- QueueId, Client <- AttemptId,
                limit <- [q \in QueueId |-> queues[q].slots.max],
                holders <- [q \in QueueId |-> queues[q].slots.inflight]

ImplementsBoundedSlots == Slots!Spec
=============================================================================
