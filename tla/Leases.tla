------------------------------- MODULE Leases -------------------------------
(***************************************************************************)
(* Leases on attempts, with a clock: NextAttempt and TouchAttempt of       *)
(* models/attempt.go as the workers and touchers of scheduler/scheduler.go *)
(* call them, in any number of hookyd processes.                           *)
(*                                                                         *)
(* Instead of the time there is, for each attempt, how far its `reserved'  *)
(* lies ahead (`left', negative once it has passed) and, for each worker,  *)
(* how long ago it read the clock.  EnQueue and DeQueue are single steps   *)
(* on bounded slots, which Queues is proved to implement.  A due attempt   *)
(* that is given up, or whose retry or next execution is stored later, is  *)
(* one attempt of this module that becomes pending again.                  *)
(***************************************************************************)
EXTENDS Integers, FiniteSets

CONSTANTS
  Attempt, Queue, Worker,
  None,
  QueueOf,         \* [Attempt -> Queue]
  Limit,           \* [Queue -> max_in_flight]
  TouchInterval,   \* the lease is twice as long
  Latency,         \* within which a step of a live worker is done
  Delay,           \* how far ahead the next execution of a task may lie
  MaxDeaths        \* bound on the workers that die

\* A worker may find all queues but one full before it succeeds; one step more
\* is the renewal, and one is for a renewal by somebody else that read the
\* clock before.
ASSUME LeaseAssumption ==
  /\ None \notin Attempt
  /\ IsFiniteSet(Queue) /\ QueueOf \in [Attempt -> Queue]
  /\ TouchInterval \in Nat /\ Latency \in Nat \ {0}
  /\ TouchInterval >= Latency * (Cardinality(Queue) + 2)
  /\ Delay \subseteq Nat /\ MaxDeaths \in Nat

Lease == 2 * TouchInterval

VARIABLES
  status,     \* [Attempt -> "pending", "running" or "finished"]
  left,       \* [Attempt -> time until reserved]
  sooner,     \* pairs of attempts in the order of the index on reserved
  inFlight,   \* [Queue -> attempts that hold a slot]
  proc,       \* [Worker -> local state]
  deaths

vars == <<status, left, sooner, inFlight, proc, deaths>>

\* clock: time since NextAttempt read it ("find", "enqueue"), since the toucher
\* entered its select ("run"), since TouchAttempt read it ("touch").
Locals ==
  [pc : {"idle", "find", "enqueue", "run", "touch"}, a : Attempt \cup {None},
   full : SUBSET Queue, clock : Nat, missed : BOOLEAN]

Rest == [pc |-> "idle", a |-> None, full |-> {}, clock |-> 0, missed |-> FALSE]

\* Further back than any reading of the clock that is still used.
Floor == -(Latency * Cardinality(Queue) + 1)

\* The orders an index may have, when d is the time until reserved.
Orders(d) ==
  {o \in SUBSET (Attempt \X Attempt) :
     /\ \A a, b \in Attempt : IF a = b THEN <<a, b>> \notin o ELSE <<a, b>> \in o <=> <<b, a>> \notin o
     /\ \A a, b, c \in Attempt : <<a, b>> \in o /\ <<b, c>> \in o => <<a, c>> \in o
     /\ \A a, b \in Attempt : <<a, b>> \in o => d[a] <= d[b]}

TypeOK ==
  /\ status \in [Attempt -> {"pending", "running", "finished"}]
  /\ left \in [Attempt -> Int]
  /\ sooner \in Orders(left)
  /\ inFlight \in [Queue -> SUBSET Attempt]
  /\ proc \in [Worker -> Locals]
  /\ \A w \in Worker : proc[w].a # None <=> proc[w].pc \in {"enqueue", "run", "touch"}
  /\ deaths \in Nat

Init ==
  /\ status = [a \in Attempt |-> "pending"]
  /\ left = [a \in Attempt |-> 0]
  /\ sooner \in Orders(left)
  /\ inFlight = [q \in Queue |-> {}]
  /\ proc = [w \in Worker |-> Rest]
  /\ deaths = 0

At(w, step) == proc[w].pc = step
Become(w, local) == proc' = [proc EXCEPT ![w] = local]

\* A live worker's NextAttempt has leased a and found it a slot; or is about to.
Works(w, a) == proc[w].a = a
Held(a) == \E w \in Worker : Works(w, a)

InPlay(a) == status[a] \in {"pending", "running"}

\* reserved := now + d, where now was read `ago' before.
Reserve(a, d, ago) ==
  /\ left' = [left EXCEPT ![a] = d - ago]
  /\ sooner' \in Orders(left')
  /\ \A b, c \in Attempt \ {a} : <<b, c>> \in sooner' <=> <<b, c>> \in sooner
-----------------------------------------------------------------------------
(* NextAttempt *)

\* The clock is read once for the whole call.
Ask(w) ==
  /\ At(w, "idle")
  /\ Become(w, [Rest EXCEPT !.pc = "find"])
  /\ UNCHANGED <<status, left, sooner, inFlight, deaths>>

\* Mutant: an attempt that is marked running is left to its worker, dead or not.
FoundPending(w, a) ==
  /\ status[a] = "pending"
  /\ left[a] < -proc[w].clock
  /\ QueueOf[a] \notin proc[w].full

\* The attempts the query selects: reserved has passed when the clock was read.
Found(w, a) ==
  /\ InPlay(a)
  /\ left[a] < -proc[w].clock
  /\ QueueOf[a] \notin proc[w].full

Oldest(w, a) ==
  /\ Found(w, a)
  /\ \A b \in Attempt \ {a} : Found(w, b) => <<a, b>> \in sooner

\* Mutant: the lease is as long as the interval between renewals.
FindShort(w, a) ==
  /\ At(w, "find") /\ Oldest(w, a)
  /\ status' = [status EXCEPT ![a] = "running"]
  /\ Reserve(a, TouchInterval, proc[w].clock)
  /\ Become(w, [proc[w] EXCEPT !.pc = "enqueue", !.a = a])
  /\ UNCHANGED <<inFlight, deaths>>

\* One findAndModify leases the oldest.
Find(w, a) ==
  /\ At(w, "find") /\ Oldest(w, a)
  /\ status' = [status EXCEPT ![a] = "running"]
  /\ Reserve(a, Lease, proc[w].clock)
  /\ Become(w, [proc[w] EXCEPT !.pc = "enqueue", !.a = a])
  /\ UNCHANGED <<inFlight, deaths>>

FindNone(w) ==
  /\ At(w, "find")
  /\ ~\E a \in Attempt : Found(w, a)
  /\ Become(w, Rest)
  /\ UNCHANGED <<status, left, sooner, inFlight, deaths>>

Slot(q, a) == a \in inFlight[q] \/ Cardinality(inFlight[q]) < Limit[q]

\* A slot, or the one a dead worker left: the worker starts with its toucher.
EnQueue(w) ==
  /\ At(w, "enqueue")
  /\ LET a == proc[w].a
         q == QueueOf[a] IN
       /\ Slot(q, a)
       /\ inFlight' = [inFlight EXCEPT ![q] = @ \cup {a}]
       /\ Become(w, [Rest EXCEPT !.pc = "run", !.a = a])
  /\ UNCHANGED <<status, left, sooner, deaths>>

\* Mutant: EnQueue waits for a slot.
EnQueueWaits(w) ==
  /\ At(w, "enqueue") /\ ~Slot(QueueOf[proc[w].a], proc[w].a)
  /\ Become(w, [proc[w] EXCEPT !.clock = 0])
  /\ UNCHANGED <<status, left, sooner, inFlight, deaths>>

\* Mutant: the worker would go on with the attempt it could not place.
EnQueueFullKeeps(w) ==
  /\ At(w, "enqueue")
  /\ LET q == QueueOf[proc[w].a] IN
       /\ ~Slot(q, proc[w].a)
       /\ Become(w, [proc[w] EXCEPT !.pc = "find", !.full = @ \cup {q}])
  /\ UNCHANGED <<status, left, sooner, inFlight, deaths>>

\* The queue is full: the attempt keeps its lease, and the next is looked for.
EnQueueFull(w) ==
  /\ At(w, "enqueue")
  /\ LET a == proc[w].a
         q == QueueOf[a] IN
       /\ ~Slot(q, a)
       /\ Become(w, [proc[w] EXCEPT !.pc = "find", !.a = None, !.full = @ \cup {q}])
  /\ UNCHANGED <<status, left, sooner, inFlight, deaths>>
-----------------------------------------------------------------------------
(* The worker and its toucher *)

\* touchInterval has passed in the toucher's select.
TouchStarts(w) ==
  /\ At(w, "run") /\ proc[w].clock = TouchInterval
  /\ Become(w, [proc[w] EXCEPT !.pc = "touch", !.clock = 0])
  /\ UNCHANGED <<status, left, sooner, inFlight, deaths>>

\* Mutant: the lease is renewed for one interval only.
TouchShort(w) ==
  /\ At(w, "touch")
  /\ Reserve(proc[w].a, TouchInterval, proc[w].clock)
  /\ Become(w, [proc[w] EXCEPT !.pc = "run", !.clock = 0])
  /\ UNCHANGED <<status, inFlight, deaths>>

Touch(w) ==
  /\ At(w, "touch")
  /\ Reserve(proc[w].a, Lease, proc[w].clock)
  /\ Become(w, [proc[w] EXCEPT !.pc = "run", !.clock = 0])
  /\ UNCHANGED <<status, inFlight, deaths>>

\* The database fails; the toucher takes no notice.
TouchFails(w) ==
  /\ At(w, "touch")
  /\ Become(w, [proc[w] EXCEPT !.pc = "run", !.clock = 0, !.missed = TRUE])
  /\ UNCHANGED <<status, left, sooner, inFlight, deaths>>

\* The endpoint answers, if it ever does: DeQueue, then the result.
Answer(w) ==
  /\ proc[w].pc \in {"run", "touch"}
  /\ LET a == proc[w].a IN
       /\ inFlight' = [inFlight EXCEPT ![QueueOf[a]] = @ \ {a}]
       /\ status' = [status EXCEPT ![a] = "finished"]
  /\ Become(w, Rest)
  /\ UNCHANGED <<left, sooner, deaths>>

\* The worker dies, or an operation fails and it gives up.
Die(w) ==
  /\ ~At(w, "idle") /\ deaths < MaxDeaths
  /\ deaths' = deaths + 1
  /\ Become(w, Rest)
  /\ UNCHANGED <<status, left, sooner, inFlight>>
-----------------------------------------------------------------------------
\* The next attempt of the task is stored: a retry, a recurrence, a PUT.
Again(a) ==
  /\ status[a] = "finished" /\ ~Held(a)
  /\ status' = [status EXCEPT ![a] = "pending"]
  /\ \E d \in Delay : Reserve(a, d, 0)
  /\ UNCHANGED <<inFlight, proc, deaths>>

\* What a live worker has to do by now is done.
Punctual(w) ==
  /\ proc[w].pc \in {"find", "enqueue"} => proc[w].clock < Latency * (Cardinality(proc[w].full) + 1)
  /\ At(w, "run") => proc[w].clock < TouchInterval
  /\ At(w, "touch") => proc[w].clock < Latency

Tick ==
  /\ \A w \in Worker : Punctual(w)
  /\ left' = [a \in Attempt |-> IF left[a] > Floor THEN left[a] - 1 ELSE left[a]]
  /\ proc' = [w \in Worker |-> IF At(w, "idle") THEN proc[w]
                               ELSE [proc[w] EXCEPT !.clock = @ + 1]]
  /\ UNCHANGED <<status, sooner, inFlight, deaths>>

GoesOn(w) ==
  \/ Ask(w)
  \/ \E a \in Attempt : Find(w, a)
  \/ FindNone(w)
  \/ EnQueue(w)
  \/ EnQueueFull(w)
  \/ TouchStarts(w)
  \/ Touch(w)
  \/ TouchFails(w)

Next ==
  \/ \E w \in Worker : GoesOn(w) \/ Answer(w) \/ Die(w)
  \/ \E a \in Attempt : Again(a)
  \/ Tick

\* Workers ask again and again and go on; time passes.  Endpoints need not answer.
Fairness ==
  /\ WF_vars(Tick)
  /\ \A w \in Worker : WF_vars(GoesOn(w))

Spec == Init /\ [][Next]_vars /\ Fairness
-----------------------------------------------------------------------------
(* Properties *)

\* The lease of a live worker's attempt does not lapse, as long as none of its
\* renewals failed: what Engine assumes of Held.
RenewedInTime ==
  \A w \in Worker : proc[w].a # None /\ ~proc[w].missed => left[proc[w].a] >= 0

\* Two workers are on one attempt only when the renewal of one of them failed.
OneExecutor ==
  \A v, w \in Worker :
    v # w /\ proc[v].a = proc[w].a /\ proc[v].a # None => proc[v].missed \/ proc[w].missed

Missed == \E w \in Worker : proc[w].missed

\* An attempt whose worker died, or that found its queue full, is taken up
\* again, also when it is marked running.
TakenUpAgain == \A a \in Attempt : (InPlay(a) /\ ~Missed) ~> (Held(a) \/ Missed)

\* A queue that admits nothing any more - full of requests that are never
\* answered, removed, closed - keeps no attempt of another queue from being
\* executed.
OthersNotStarved ==
  \A a \in Attempt :
    (InPlay(a) /\ Limit[QueueOf[a]] > 0 /\ ~Missed) ~>
      (Missed \/ \E w \in Worker : Works(w, a) /\ proc[w].pc \in {"run", "touch"})
=============================================================================
