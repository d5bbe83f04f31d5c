----------------------------- MODULE Scheduler -----------------------------
(***************************************************************************)
(* The goroutines of scheduler/scheduler.go in one hookyd process, what    *)
(* they wait for from one another - two channels used as semaphores, the   *)
(* quit channel, a wait group, and the unbuffered channel between a worker *)
(* and its toucher - and what they do to the attempts.                     *)
(*                                                                         *)
(* The operations on the database are single steps here; Engine takes them *)
(* apart.  An attempt is identified with its task: when its result is      *)
(* followed up the task's next attempt may take its place, and is found    *)
(* once the goroutine of the last one is gone.                             *)
(***************************************************************************)
EXTENDS Integers, FiniteSets

CONSTANTS
  Attempt,
  None,
  Querier,      \* goroutines that may look for an attempt: bounds those not gone yet
  MaxQuerier,   \* capacity of querierSem
  MaxWorker     \* capacity of workerSem

ASSUME SchedulerAssumption ==
  /\ None \notin Attempt
  /\ MaxQuerier \in Nat \ {0} /\ MaxWorker \in Nat \ {0}

VARIABLES
  db,           \* [Attempt -> state of its document]
  quit,         \* the quit channel is closed
  loop,         \* the loop of the attempts scheduler: "select" or "gone"
  querierSem, workerSem,   \* elements in the channels
  wg,           \* counter of the wait group
  querier,      \* [Querier -> where the goroutine is and the attempt it got]
  worker,       \* [Attempt -> where its worker goroutine is]
  toucher,      \* [Attempt -> where the toucher goroutine is]
  early         \* history: attempts leased for a goroutine before Stop

schedVars ==
  <<db, quit, loop, querierSem, workerSem, wg, querier, worker, toucher, early>>

DbStates == {"absent", "ready", "leased", "answered"}
QuerierSteps == {"gone", "acquire", "register", "ask", "found", "none", "release", "leave"}
WorkerSteps == {"gone", "request", "sendResult", "sendNil", "join", "free", "leave"}
ToucherSteps == {"gone", "select", "touch", "follow", "done"}

SchedTypeOK ==
  /\ db \in [Attempt -> DbStates]
  /\ quit \in BOOLEAN
  /\ loop \in {"select", "gone"}
  /\ querierSem \in 0..MaxQuerier
  /\ workerSem \in 0..MaxWorker
  /\ wg \in Nat
  /\ querier \in [Querier -> [pc : QuerierSteps, a : Attempt \cup {None}]]
  /\ worker \in [Attempt -> WorkerSteps]
  /\ toucher \in [Attempt -> ToucherSteps]
  /\ early \subseteq Attempt

Gone == [pc |-> "gone", a |-> None]

SchedInit ==
  /\ db \in [Attempt -> {"absent", "ready"}]
  /\ quit = FALSE
  /\ loop = "select"
  /\ querierSem = 0 /\ workerSem = 0
  /\ wg = 0
  /\ querier = [g \in Querier |-> Gone]
  /\ worker = [a \in Attempt |-> "gone"]
  /\ toucher = [a \in Attempt |-> "gone"]
  /\ early = {}

QuerierAt(g, step) == querier[g].pc = step
QuerierGoes(g, step) == querier' = [querier EXCEPT ![g].pc = step]
WorkerGoes(a, step) == worker' = [worker EXCEPT ![a] = step]
ToucherGoes(a, step) == toucher' = [toucher EXCEPT ![a] = step]

\* Queriers that hold a place in querierSem; queriers and workers that hold one
\* in workerSem; goroutines the wait group counts.
Querying == {g \in Querier : querier[g].pc \in {"acquire", "register", "ask", "found", "none", "release"}}
Workless == {g \in Querier : querier[g].pc \in {"register", "ask", "found", "none"}}
Working == {a \in Attempt : worker[a] \in {"request", "sendResult", "sendNil", "join", "free"}}

\* A goroutine of this process works on attempt a.
InHand(a) == worker[a] # "gone" \/ \E g \in Querier : querier[g].a = a
-----------------------------------------------------------------------------
(* The loop that starts queriers: select between quit and a free place.     *)

LoopQuits ==
  /\ loop = "select" /\ quit
  /\ loop' = "gone"
  /\ UNCHANGED <<db, quit, querierSem, workerSem, wg, querier, worker, toucher, early>>

LoopSpawns(g) ==
  /\ loop = "select" /\ querierSem < MaxQuerier
  /\ QuerierAt(g, "gone")
  /\ querierSem' = querierSem + 1
  /\ QuerierGoes(g, "acquire")
  /\ UNCHANGED <<db, quit, loop, workerSem, wg, worker, toucher, early>>
-----------------------------------------------------------------------------
(* A querier.  It is counted in the wait group only once it has a place     *)
(* among the workers.                                                       *)

Acquire(g) ==
  /\ QuerierAt(g, "acquire") /\ workerSem < MaxWorker
  /\ workerSem' = workerSem + 1
  /\ QuerierGoes(g, "register")
  /\ UNCHANGED <<db, quit, loop, querierSem, wg, worker, toucher, early>>

Register(g) ==
  /\ QuerierAt(g, "register")
  /\ wg' = wg + 1
  /\ QuerierGoes(g, "ask")
  /\ UNCHANGED <<db, quit, loop, querierSem, workerSem, worker, toucher, early>>

\* NextAttempt leases an attempt - a task's next one not before the goroutine
\* of the last one is gone: it has the name.
AskFinds(g, a) ==
  /\ QuerierAt(g, "ask") /\ db[a] = "ready" /\ ~InHand(a)
  /\ db' = [db EXCEPT ![a] = "leased"]
  /\ querier' = [querier EXCEPT ![g] = [pc |-> "found", a |-> a]]
  /\ early' = IF quit THEN early ELSE early \cup {a}
  /\ UNCHANGED <<quit, loop, querierSem, workerSem, wg, worker, toucher>>

\* Nothing is ready, its queue is full, or the database failed.
AskFindsNone(g) ==
  /\ QuerierAt(g, "ask")
  /\ QuerierGoes(g, "none")
  /\ UNCHANGED <<db, quit, loop, querierSem, workerSem, wg, worker, toucher, early>>

\* Mutant: the worker would be counted by its own goroutine, once that runs.
SpawnUncounted(g) ==
  /\ QuerierAt(g, "found")
  /\ LET a == querier[g].a IN
       /\ WorkerGoes(a, "request")
       /\ ToucherGoes(a, "select")
  /\ querier' = [querier EXCEPT ![g] = [pc |-> "release", a |-> None]]
  /\ UNCHANGED <<db, quit, loop, querierSem, workerSem, wg, early>>

\* Mutant: the querier gives back the place that its worker goes on using.
SpawnFrees(g) ==
  /\ QuerierAt(g, "found")
  /\ LET a == querier[g].a IN
       /\ WorkerGoes(a, "request")
       /\ ToucherGoes(a, "select")
  /\ wg' = wg + 1
  /\ workerSem' = workerSem - 1
  /\ querier' = [querier EXCEPT ![g] = [pc |-> "release", a |-> None]]
  /\ UNCHANGED <<db, quit, loop, querierSem, early>>

\* Counts the worker and starts it; the worker starts its toucher.
SpawnWorker(g) ==
  /\ QuerierAt(g, "found")
  /\ LET a == querier[g].a IN
       /\ WorkerGoes(a, "request")
       /\ ToucherGoes(a, "select")
  /\ wg' = wg + 1
  /\ querier' = [querier EXCEPT ![g] = [pc |-> "release", a |-> None]]
  /\ UNCHANGED <<db, quit, loop, querierSem, workerSem, early>>

\* Mutant: the place among the workers is not given back.
FreeWorkerKeeps(g) ==
  /\ QuerierAt(g, "none")
  /\ QuerierGoes(g, "release")
  /\ UNCHANGED <<db, quit, loop, querierSem, workerSem, wg, worker, toucher, early>>

\* Without an attempt the querier gives back the worker's place itself.
FreeWorker(g) ==
  /\ QuerierAt(g, "none")
  /\ workerSem' = workerSem - 1
  /\ QuerierGoes(g, "release")
  /\ UNCHANGED <<db, quit, loop, querierSem, wg, worker, toucher, early>>

ReleaseQuerier(g) ==
  /\ QuerierAt(g, "release")
  /\ querierSem' = querierSem - 1
  /\ QuerierGoes(g, "leave")
  /\ UNCHANGED <<db, quit, loop, workerSem, wg, worker, toucher, early>>

\* The deferred wg.Done.
QuerierLeaves(g) ==
  /\ QuerierAt(g, "leave")
  /\ wg' = wg - 1
  /\ QuerierGoes(g, "gone")
  /\ UNCHANGED <<db, quit, loop, querierSem, workerSem, worker, toucher, early>>
-----------------------------------------------------------------------------
(* A worker and its toucher *)

\* DoAttempt writes the outcome of the request ...
Answered(a) ==
  /\ worker[a] = "request"
  /\ db' = [db EXCEPT ![a] = "answered"]
  /\ WorkerGoes(a, "sendResult")
  /\ UNCHANGED <<quit, loop, querierSem, workerSem, wg, querier, toucher, early>>

\* ... or returns an error: a URL that cannot be requested, a failed operation.
RequestFails(a) ==
  /\ worker[a] = "request"
  /\ WorkerGoes(a, "sendNil")
  /\ UNCHANGED <<db, quit, loop, querierSem, workerSem, wg, querier, toucher, early>>

\* touchInterval has passed in the select: TouchAttempt is called.
TouchStarts(a) ==
  /\ toucher[a] = "select"
  /\ ToucherGoes(a, "touch")
  /\ UNCHANGED <<db, quit, loop, querierSem, workerSem, wg, querier, worker, early>>

TouchEnds(a) ==
  /\ toucher[a] = "touch"
  /\ ToucherGoes(a, "select")
  /\ UNCHANGED <<db, quit, loop, querierSem, workerSem, wg, querier, worker, early>>

\* Mutant: a failed attempt is not reported to the toucher.
PassResultOnly(a) ==
  /\ toucher[a] = "select"
  /\ \/ /\ worker[a] = "sendResult" /\ ToucherGoes(a, "follow")
     \/ /\ worker[a] = "sendNil" /\ UNCHANGED toucher
  /\ WorkerGoes(a, "join")
  /\ UNCHANGED <<db, quit, loop, querierSem, workerSem, wg, querier, early>>

\* The unbuffered channel: both sides go on together.
PassResult(a) ==
  /\ toucher[a] = "select"
  /\ \/ /\ worker[a] = "sendResult" /\ ToucherGoes(a, "follow")
     \/ /\ worker[a] = "sendNil" /\ ToucherGoes(a, "done")
  /\ WorkerGoes(a, "join")
  /\ UNCHANGED <<db, quit, loop, querierSem, workerSem, wg, querier, early>>

\* NextAttemptForTask: a task that is due again has its next attempt stored,
\* and the result is acknowledged; any of its operations may fail.
Followed(a) == \E d \in {"answered", "absent", "ready"} : db' = [db EXCEPT ![a] = d]

\* What fails is left to the fixer.
FollowUp(a) ==
  /\ toucher[a] = "follow"
  /\ ToucherGoes(a, "done")
  /\ Followed(a)
  /\ UNCHANGED <<quit, loop, querierSem, workerSem, wg, querier, worker, early>>

\* The worker's own wait group: worker() returns.
JoinToucher(a) ==
  /\ worker[a] = "join" /\ toucher[a] = "done"
  /\ WorkerGoes(a, "free") /\ ToucherGoes(a, "gone")
  /\ UNCHANGED <<db, quit, loop, querierSem, workerSem, wg, querier, early>>

WorkerFrees(a) ==
  /\ worker[a] = "free"
  /\ workerSem' = workerSem - 1
  /\ WorkerGoes(a, "leave")
  /\ UNCHANGED <<db, quit, loop, querierSem, wg, querier, toucher, early>>

\* The deferred wg.Done.
WorkerLeaves(a) ==
  /\ worker[a] = "leave"
  /\ wg' = wg - 1
  /\ WorkerGoes(a, "gone")
  /\ early' = early \ {a}
  /\ UNCHANGED <<db, quit, loop, querierSem, workerSem, querier, toucher>>
-----------------------------------------------------------------------------
(* The fixer, at the start and every sixty seconds until it sees quit: a    *)
(* result left behind is followed up.  Neither it nor the cleaner is in the *)
(* wait group, and nobody sees them return.                                 *)

FixerFollowsUp(a) ==
  /\ db[a] = "answered" /\ ~InHand(a)
  /\ Followed(a)
  /\ UNCHANGED <<quit, loop, querierSem, workerSem, wg, querier, worker, toucher, early>>
-----------------------------------------------------------------------------
(* The attempts, as others change them *)

\* The lease of an attempt nobody works on lapses.  (Leases says when that of
\* a live worker does not.)
Lapse(a) ==
  /\ db[a] = "leased" /\ ~InHand(a)
  /\ db' = [db EXCEPT ![a] = "ready"]
  /\ UNCHANGED <<quit, loop, querierSem, workerSem, wg, querier, worker, toucher, early>>

\* A PUT stores an attempt.
Create(a) ==
  /\ db[a] = "absent"
  /\ db' = [db EXCEPT ![a] = "ready"]
  /\ UNCHANGED <<quit, loop, querierSem, workerSem, wg, querier, worker, toucher, early>>

\* Stop closes the quit channel; its wait is CanReturn.
CloseQuit ==
  /\ quit' = TRUE
  /\ UNCHANGED <<db, loop, querierSem, workerSem, wg, querier, worker, toucher, early>>

CanReturn == quit /\ wg = 0

\* The process ends: only the documents are left.
Vanish ==
  /\ loop' = "gone"
  /\ querierSem' = 0 /\ workerSem' = 0
  /\ wg' = 0
  /\ querier' = [g \in Querier |-> Gone]
  /\ worker' = [a \in Attempt |-> "gone"]
  /\ toucher' = [a \in Attempt |-> "gone"]
  /\ early' = {}
  /\ UNCHANGED <<db, quit>>
-----------------------------------------------------------------------------
\* A querier that waits for nobody.
QuerierGoesOn(g) ==
  \/ Register(g)
  \/ \E a \in Attempt : AskFinds(g, a)
  \/ AskFindsNone(g)
  \/ SpawnWorker(g)
  \/ FreeWorker(g)
  \/ ReleaseQuerier(g)
  \/ QuerierLeaves(g)

\* The request comes back.  Its client has no timeout: that is up to the endpoint.
RequestEnds(a) == Answered(a) \/ RequestFails(a)

\* A worker that waits neither for the endpoint nor for its toucher to come
\* back to the select.
WorkerGoesOn(a) ==
  \/ FollowUp(a)
  \/ JoinToucher(a)
  \/ WorkerFrees(a)
  \/ WorkerLeaves(a)

SchedNext ==
  \/ LoopQuits
  \/ \E g \in Querier : LoopSpawns(g) \/ Acquire(g) \/ QuerierGoesOn(g)
  \/ \E a \in Attempt :
       \/ RequestEnds(a) \/ WorkerGoesOn(a) \/ PassResult(a) \/ TouchStarts(a) \/ TouchEnds(a)
       \/ FixerFollowsUp(a) \/ Lapse(a)

=============================================================================
