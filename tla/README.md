# hooky in TLA+

hooky runs webhooks: clients PUT *tasks* over a REST API, a scheduler in each
`hookyd` process executes them as *attempts*, and *queues* limit how many
attempts run at once. All state is in MongoDB, shared by any number of
`hookyd` processes and goroutines. MongoDB makes an operation on one document
atomic and nothing more; every handler is a sequence of such operations, and
its correctness is a matter of what other handlers do between two of them and
of what is left behind when a process dies there. That is what is modelled.

## Inventory

| Part | Source | State | Operations |
| --- | --- | --- | --- |
| Queue slots | `models/queue.go` | `max_in_flight`, `available_in_flight`, `attempts_in_flight`, `deleted` | `NewQueue`, `DeleteQueue(s)`, `EnQueue`, `DeQueue`, `FixQueues` (empty) |
| Tasks | `models/task.go` | `active`, `at`, `schedule`, `retry.attempts`, `current_attempt`, `attempt_queued`, `attempt_updated`, `deleted` | `NewTask`, `NextAttemptForTask`, `ForceAttemptForTask`, `DeleteTask(s)`, `FixIntegrity` |
| Attempts | `models/attempt.go` | `status`, `reserved`, `acked`, `finished`, `deleted` | `NewAttempt`, `NextAttempt`, `DoAttempt`, `TouchAttempt`, `AckAttempt`, `DeletePendingAttempts`, `CleanFinishedAttempts` |
| Retries | `models/retry.go` | inside the task | `NextAttempt`, `SetDefault` |
| Scheduler | `scheduler/scheduler.go` | two semaphores, `quit`, a wait group | `Start` (querier, workers, touchers, fixer, cleaner), `Stop` |
| Cleaner | `models/base.go` | - | `CleanDeletedRessources` |
| Accounts, applications | `models/account.go`, `models/application.go` | documents with `deleted` | create, update, delete with everything below |
| Process set-up | `cmd/hookyd/main.go` | - | starts scheduler and server, stops them after a signal |
| HTTP server shutdown | vendored `graceful` | open connections, four channels | `Serve`, `manageConnections`, `handleInterrupt`, `shutdown` |
| REST API | `restapi/` | - | decodes a request, calls `models` |
| Authentication | `restapi/auth.go`, `models/account.go` | the accounts' keys | `authenticate`, `authorize` |
| Crontab client | `client/crontab.go` | - | `SyncCrontab`: makes the tasks of an account those of a file |

How they interact. A PUT runs `NewTask`, which stores the task and then its
first attempt (`NewAttempt`: `DeletePendingAttempts`, insert, mark the task
queued). A worker leases the oldest attempt whose `reserved` has passed
(`NextAttempt`), takes a slot of its queue (`EnQueue`), makes the request
(`DoAttempt`, while a toucher renews the lease), gives the slot back
(`DeQueue`), writes the result and runs `NextAttemptForTask`: read the task,
compute from that copy whether it goes on, update it, create the next attempt,
acknowledge the finished one. Every minute the fixer (`FixIntegrity`) makes the
missing attempt of an active task that has none queued, and runs
`NextAttemptForTask` for results nobody acknowledged; every minute the cleaner
removes what was flagged deleted, giving back the slots of deleted attempts.
Deleting an account, an application or a queue flags one collection after the
other. Inside a process a querier takes a place in two semaphores, asks for an
attempt, and hands one of the places to the worker it starts; a signal closes
the listener, `Serve` returns when the open connections are done or a timeout
has passed, and `main` then stops the scheduler and ends.

What is hard: the copy of a task used after it changed; two handlers that each
create or delete the attempt of one task; a process that dies between two
operations and the fixer that must tell done from half done; slots that outlive
their worker, or do not; leases that lapse; a shutdown in which six kinds of
goroutines wait for one another; a cascade that stops halfway. `PROJECT.json` lists these hazards
with their lines.

What makes the parts correct:

- queues: the counter of free slots agrees with the attempts in flight; nothing
  enters above the limit; slots come back;
- tasks: an active task is never forgotten, and is executed; retries stay in
  their budget; a task that is done stays done; the queued flag is only set for
  an attempt that exists;
- attempts: the executions of a task do not overlap; a result is final and is
  acted on; only results are acknowledged;
- leases: a live worker's lease is renewed before it lapses, so that an attempt
  has one executor; what a dead worker leaves is taken up again; a full queue
  does not keep the others from their attempts;
- scheduler and server: queriers and workers keep to the two capacities and
  give their places back; `Stop` returns only when what was leased before it is
  done; handlers get their grace period; a signal ends the process;
- resources: nothing live stands under something deleted, however far a cascade
  got; a task's queue is the one it was created for; the default application
  stays; what is deleted is removed and its name free again;
- crontab: after a synchronisation the scheduled tasks are those of the file;
- cleaner: what is deleted goes away.

## Modules

| Module | What it is |
| --- | --- |
| `QueueDoc` | the slots of one queue document and the atomic updates on them |
| `BoundedSlots` | the abstract promise of the queues: pools with holders and a movable limit |
| `Queues` | `models/queue.go` with its callers: workers, clients, cleaner; refines `BoundedSlots` |
| `Engine` | tasks and attempts: workers, fixers, clients, cleaners, deaths; uses `QueueDoc` |
| `Leases` | `NextAttempt` and `TouchAttempt` with a clock: what `Engine` assumes of leases |
| `Scheduler` | `scheduler/scheduler.go`: goroutines, semaphores, `quit`, wait group, `Start` and `Stop` |
| `Graceful` | the HTTP server and its shutdown |
| `Hookyd` | `Scheduler` and `Graceful` under `main`: one process from start to exit |
| `Resources` | account, applications, queues, tasks, attempts: creation, cascades, cleaner |
| `Crontab` | `SyncCrontab` as a client of `Resources` |
| `MCQueues`, `MCEngine`, `MCLeases`, `MCCrontab` | instances for TLC |
| `QueueDocProofs` | lemmas: what each update of a queue document does to its counter and list |
| `QueuesProofs`, `LeasesProofs`, `HookydProofs` | theorems about these components |
| `EngineProofs`, `ResultsProofs`, `TasksProofs` | theorems about `Engine`: limits; results and slots; the life of a task |
| `CrontabProofs` | theorems about `Resources` and `Crontab` |

### Queues

`queues[q]` is the document with id `q`. The ids are those one queue name gets
in the course of removals and re-creations: `EnQueue` and `DeQueue` go by id,
`NewQueue` and `DeleteQueue` by name, and at most one id is stored at a time
(the unique index). `worker[w]` is between the two operations of `EnQueue`
(`counted`) or holds a slot; `admin[c]` is between the operations of `NewQueue`
and remembers what it asked for and what it read; `reply[c]` is what the PUT
answered (`NewQueue` returns nil when it *creates*, which `PutQueue` answers
with 404; `PutIsAnswered` states the documented answer and is not in a run).
A worker may be `WorkerGone` at any point: the process dies, or `DoAttempt`
returns before its `DeQueue`.

### Engine

`tasks`, `attempts` and `slots` are the documents; `proc[p]` is where a process
is and what its Go function holds in local variables: `a` and `t` the attempt
and task at hand, `out` the result, `copy` what was read of the task (for
`NextAttemptForTask`) or what `NewAttempt` was given. A task's `active` implies
a nonzero `at`, since every write of one sets the other, so `at` is left out;
so are dates, counters and the payload.

| Process | Steps (`pc`) | Code |
| --- | --- | --- |
| worker | idle → count → push → http → dequeue → finish → read → apply → (purge → insert → mark →) ack | `NextAttempt`, `EnQueue`, `DoAttempt`, `NextAttemptForTask`, `NewAttempt` |
| client | idle → (purge →) insert → mark; idle → delete | `NewTask`, `DeleteTask`, `ForceAttemptForTask` |
| fixer | idle → lookup → purge → insert → mark; idle → read → … → ack | `FixIntegrity` |
| cleaner | idle → remove; tasks and old attempts in one step | `CleanDeletedRessources`, `CleanFinishedAttempts` |

Time. `due` says that an attempt's `reserved` lies in the past; `Due` lets it
pass, except while the attempt's worker lives (`Held`: `TouchAttempt` renews
the lease at half its length; a live worker is taken to do so in time, which
`Leases` justifies). The
180 seconds the fixer waits and the seven days the cleaner waits are guards: no
live process is still between its update of the task and the end of its
`NewAttempt` (`TaskAtRest`); a worker still busy with a finished attempt keeps
the fixer away; an attempt is old enough to be removed only when nobody but a
fixer works on it and its result was handled or cannot be.

Failure. `Crash` drops a process's local state at any step, which also is what
a database error does that makes the handler return. `NewAttemptFails` is the
database error in `NewAttempt` that `NextAttemptForTask` overwrites with the
outcome of its acknowledgement; it counts as one of the `MaxCrashes`. A worker
that leaves because the URL cannot be requested (`Reject`) leaves its slot
behind, as the code does: the attempt is leased and left again for ever, and
keeps its slot until its task is deleted (`Stranded`). `SlotsComeBack` names it
as its exception.

`LateCrashes` tells whether a process may also die where the code has no
repair: after it updated the task and before it acknowledged the attempt, or
halfway through `DeleteTask`. The runs that exclude this say what holds
otherwise; `engine_late_crash` shows what happens with it.

Abstractions to know: an update of several documents (`UpdateAll`,
`RemoveAll`) is one step; which ready attempt a worker takes is left open (the
code takes the oldest); a negative `max_attempts` sets no limit, as in
`retry.go:34`, and zero stands for the default and is not stored; one `QueueId`
per task for its life; the Go ids of new
attempts are drawn from the ids that nothing mentions (`Unused`), and a process
that needs one while there is none waits.

### Leases

`Engine` takes for granted that the lease of a live worker does not lapse
(`~Held` in `Due`) and that an attempt nobody holds becomes due. `Leases` has the clock that shows when
this is so. Time enters as differences only: `left[a]` is how far `reserved`
lies ahead, `clock` how long ago the worker read the time, and `Tick` moves all
of them. `Find`, `EnQueue`, `EnQueueFull` and `FindNone` are the loop of
`NextAttempt`, which reads the clock once for all of its rounds
(`attempt.go:207`): a lease it gets after several full queues is shorter by the
time those took. `TouchStarts`, `Touch` and `TouchFails` are the toucher, which
ignores the error of `TouchAttempt` (`scheduler.go:150`), so that one failed
renewal is enough for two workers to execute one attempt; `missed` remembers
it. `sooner` is the order of the index on `reserved`; `Orders` leaves open which of
two equal ones comes first.

`LeaseAssumption` bounds the latency of one step: a worker may find all queues
but one full, and one renewal has to fit into what is then left. The defaults do
not imply it. The socket timeout of a database operation is 20 seconds
(`store.go:18`), the default lease 10: an operation that slow is outside the
model, and leads to what `TouchFails` leads to.

### Hookyd, Scheduler, Graceful

One process. `db` has one state for each attempt; what the operations on it do
inside is `Engine`'s and `Leases`'. A querier's steps are those of the closure
in `Start` (acquire a worker's place, `wg.Add`, ask, start the worker or give
the place back, release the querier's place, `wg.Done`), a worker's and a
toucher's those of `worker` and `toucher`, which meet on an unbuffered channel.
`Graceful` has the four goroutines of the server likewise, from `net.Listen` on,
which may fail (`ListenFails`: `main` goes on to `Stop` without a signal), as may
the accept of a connection at any time (`AcceptFails`). The channels are not
state: a rendezvous is one step of both sides. An attempt stands for its task:
when its result is followed up, by the worker's toucher (`FollowUp`) or by the
fixer (`FixerFollowsUp`), the next one may take its place at once (`Followed`), and
is found when the goroutine of the last one is gone.

| Go | TLA+ |
| --- | --- |
| `querierSem`, `workerSem` (buffered channels) | number of elements |
| `sched.wg` | its counter; `CanReturn` is what `Stop` waits for |
| `select` on `quit` and `querierSem` | `LoopQuits`, `LoopSpawns` |
| `result` in `worker` | `PassResult` |
| `add`, `remove`, `shutdown`, `done`, `kill` of the server | `Accept`, `Remove`, `AskShutdown`, `AllClosed`, `KillAll` |

Known while reading it. A querier that waits for a worker's place is not in the
wait group (`scheduler.go:112-114`): after `Stop` it may still lease an attempt
that the exit cuts off; the lease lapses and another process executes it again.
`StopWaitsForLeased` speaks of attempts leased before `Stop` for this reason.
That the wait group may be used again while `Stop` waits on it is as in Go 1.4,
where `Wait` returns at zero; later versions may panic. Fixer and cleaner are in
no wait group. A manager that sends its last word after the timeout, and
connections that close after the manager is gone, block for ever, which the exit
ends. Switching keep-alives off is one step with the reception of the signal.
A signal does not end the process while an endpoint leaves a request unanswered:
`DoAttempt`'s client has no timeout (`attempt.go:287`), its worker stays in the wait
group, `Stop` waits for it (`scheduler.go:38`) and `main` for `Stop`
(`main.go:110`). The server's grace period does not cover this.

### Resources, Crontab

The documents of one account: `account`, `apps`, `queues`, `tasks`, `attempts`.
A call (`proc[c].call`) is a list of database operations still to do (`todo`),
taken from `Plan` in the order of the handler and of the functions it calls; an
operation that fails ends the call and leaves the rest undone (`Fail`). The
cleaner removes the flagged documents of five collections, one after the other.
An attempt stands for all of its task and queue; `Purge` may flag any of them,
since which are pending is `Engine`'s business. `revived` and `closing` are
history: the task was PUT again after it had been flagged; a `DeleteAccount` has
begun. `older` is the order of the stored tasks by `_id`, which is that of their
inserts, since an update and a second PUT keep it.

`Crontab` puts `SyncCrontab` on top: its calls are calls of `Resources`, made in
the order of the code, and its list of scheduled tasks is the first page of
`GET tasks`, the newest first (`NewerThan`, `InListOrder`). A task of the file names
its queue (`FileQueue`), which `SyncCrontab` does not create: where it is missing the
PUT fails, is printed, and the synchronisation goes on. The list may fail too
(`SyncListFails`): a lost connection ends it, an answer that is an error decodes as
an empty list. Other clients of the account are those of `Request`.

A PUT that creates a queue is answered with 404 and does not count as a success.
`UpdateQueue` joins the Find and the Apply of `NewQueue`, which with one client is the
same; `Queues` has them apart. `Authorized` lets only the account itself make the
calls on its resources, while an administrator may make them as well, also when the
account is deleted; `ChildrenGoFirst` and `DeletedIsRemoved` say nothing of that.

## Runs

| Run | Instance | Shows |
| --- | --- | --- |
| `queues` | 2 ids of the name, 3 attempts, 2 workers, 1 client, limits 1 and 2 | `Balanced`, `InFlightWithinAnyRequest`, refinement of `BoundedSlots` |
| `queues_race` | the same with 2 clients | violated: `InFlightWithinAnyRequest` |
| `engine_core` | 2 tasks, 1 slot, 2 workers, 1 fixer, 1 death, 2 attempts per task | `ConcurrencyLimit`, `NoTaskForgotten`, `RetryBudget`, `DoneStaysDone` |
| `engine_crash` | 2 tasks, one with a bad URL, 2 slots, recurring or not, 2 deaths or failures of `NewAttempt`, none late | `OneAtATime`, `SlotsComeBack`, `ResultIsFinal` |
| `engine_api` | 1 task, 3 calls of every kind by 2 clients, 1 worker, 2 fixers | `QueuedWasInserted`, `AckedIsFinished` |
| `engine_live` | 1 task, recurring or not, 1 worker, fixer, cleaner, 1 death, a create and a delete | `ActiveIsExecuted`, `ResultsAreActedOn`, `SlotsGivenBack`, `DeletedGoesAway` |
| `hookyd` | 1 attempt, 2 queriers with 2 places, 1 worker's place, 1 connection, a signal at any time, endpoints that need not answer | `PlacesBounded`, `StopWaitsForLeased`, `HandlersFinish`, `SignalEndsProcess`, `ReadyIsLeased`, `WorkersEnd` |
| `leases` | an attempt in a closed queue, one in an open queue of 1 slot, 2 workers, 1 death | `RenewedInTime`, `OneExecutor`, `TakenUpAgain`, `OthersNotStarved` |
| `crontab` | 2 applications, 2 queues, 2 tasks, 1 client with 6 calls, 1 failure | `ChildrenGoFirst`, `TaskHasQueue`, `SyncedExactly`, `DefaultApplicationStays`, `DeletedIsRemoved` |
| `engine_put_race` | 1 task, create and update, no failure | violated: `NoTaskForgotten` |
| `engine_late_crash` | 1 task, 3 attempts, 1 late death | violated: `RetryBudget` |
| `engine_delete_limit` | 2 tasks, 1 slot, a delete, a cleaner | violated: `ConcurrencyLimit` |

Bounds. Two workers and two attempts are what it takes to fill a queue of one
slot and to overlap two executions; three attempts let a slot go round. Two
attempts per task exercise the first try, a retry and exhaustion. `MaxCalls`
and `MaxCrashes` bound the environment: one death suffices to strand any
handler at any of its operations, since the others go on; `engine_crash` allows a
second one, at the process that takes over. It has no late deaths: with two of them
`OneAtATime` fails, since the second result that is counted again writes back the
`current_attempt` of an old copy (`task.go:407`), and the third counts as the latest.
`AttemptId` is large
enough in the runs without a cleaner for all attempts the tasks may have (six
ids for two tasks of two attempts, each with the id drawn ahead of it); in
`engine_live` ids are used again once the cleaner has removed the attempt,
and a result waits for that. The engine runs have `CHECK_DEADLOCK FALSE`: when
every task is done and no call is left, nothing happens any more.
Workers, fixers and clients are interchangeable (`SYMMETRY`), which
`engine_live` does not use.

In `hookyd` two queriers compete for one worker's place, so that one of them
waits for it while the other's worker runs, which is where `Stop` and the exit
find them in every combination; the attempt comes back through lapse, fixer and
PUT. The process that has ended stutters (`Exited`), hence any other state
without a successor would be a deadlock. In `leases` a step takes up to one unit
(`Latency`) and the interval of the touchers is the least that the assumption
allows for two queues, four units; one queue admits nothing (a negative limit
closes a queue, which the API accepts), so that `NextAttempt` goes its second
round; one death, at any step, strands a lease and maybe a slot. In `crontab`
six calls are a POST, a PUT of the application, of a queue, of the task, a deletion
and a PUT after it, or a synchronisation of tasks that others made; one failure may
end any of them at any operation. A page holds one task where the code has a
hundred, so that two tasks overflow it. There is one client, since two break
`ChildrenGoFirst` (below); its calls are bounded, so the run stops
(`CHECK_DEADLOCK FALSE`).

Fairness. In `engine_live`, a process that has begun goes on (`WF`): the
handlers are straight-line code between database operations, and endpoints are
taken to answer (the HTTP client has no timeout, so without this assumption
nothing would be live). The workers ask for attempts, the fixer looks for
tasks and results, the cleaner for deleted attempts again and again, every
minute or faster; what each looks for may come and go, hence `SF`. The clock
advances (`Due`, `CleanFinished`). Clients need not call, nothing has to die.

In `hookyd`, Go runs every goroutine that can run (`WF`). Endpoints are under no
fairness: a request may stay open for ever. What needs them says so as a
premise: `SignalEndsProcess` that every request comes back (`RequestsEnd`),
`ReadyIsLeased` and `WorkersEnd` that they do not take all the places for ever
(`SomeRequestEnds`). Without their premises TLC refutes `SignalEndsProcess` and
`WorkersEnd` in this instance, and `ReadyIsLeased` with two attempts and no
connection, where with its premise it holds. `SF` is for what a goroutine waits
for together with others: a `select` that is ready in two cases again and again
picks each of them some time (the worker meets its toucher between two
renewals), and a channel serves its waiters in their order (`Acquire`).
`NextAttempt` takes the oldest attempt, so every ready one has its turn
(`AskFinds`). The loop of the scheduler sees `quit` whenever it is at its
`select` (`WF`, since nothing takes that away). Handlers, clients and the signal
have no fairness: that `Serve` returns without them is the work of its timeout.

In `leases`, time passes and workers go on; `Answer` has no fairness, an
endpoint may never answer, and the worker on it renews its lease for ever
(`DoAttempt` sets no timeout, `attempt.go:287`). As many such endpoints as there
are workers stop everything; `OthersNotStarved` holds as long as the closed
queue lets its attempt be leased but not executed. In `crontab` only the cleaner
is fair, which runs every minute.

### Disagreements with the documentation

1. `queues_race`: `NewQueue` applies with `$inc` a difference it computed from
   an earlier read. Two clients that PUT the limit 2 at once over a limit of 1
   leave 3.
2. `engine_put_race`: a worker that finishes an attempt has updated the task
   and is about to delete its pending attempts; a PUT stores its new attempt;
   the worker deletes it; the PUT marks the task queued. The task is active and
   queued without an attempt, and the fixer looks only at tasks not queued.
3. `engine_late_crash`: the acknowledgement is the last operation of
   `NextAttemptForTask`. When the process dies before it, the fixer counts the
   same result again, maybe after later attempts: an error re-activates a task
   that succeeded or was given up. Two fixers do the same after
   a death that is not late.
4. `engine_delete_limit`: the cleaner takes the slot of a deleted attempt
   although it is being executed.

Also met while modelling, without a run of their own.

Tasks and attempts:

- A slot can be lost for good: the cleaner gives back the slot of a deleted attempt
  (`base.go:127`) while its worker is between the count of `EnQueue` and its push
  (`queue.go:230`), removes the attempt, the worker admits it again and dies. No
  document names the attempt any more, and `FixQueues` is empty. `SlotsGivenBack`
  leaves deleted attempts out for this.
- An attempt whose URL cannot be requested keeps its slot until its task is deleted
  (`attempt.go:270`).
- A client that dies halfway through `DeleteTask` leaves a task that is active,
  marked queued and without attempts (`ActiveIsExecuted` fails when `LateCrashes`
  is set and clients delete).
- A `DELETE` during `NewAttempt` leaves an attempt that is executed although its
  task is gone.
- A PUT of a task that was deleted and not cleaned yet revives it with its old
  queue and `queue_id` (`task.go:209-226`); when that queue is gone it is never
  executed. Likewise a PUT of a task with another queue leaves the old one.
- `nextRun` of a date that does not occur, and a very large back-off, overflow
  the 64 bits of `at`; the task is stored inactive.

Resources:

- With two clients `ChildrenGoFirst` fails: a PUT looks for its application and
  queue and stores its task after a `DELETE` has flagged them.
- A PUT of a queue that is flagged deleted answers success and leaves it deleted
  (`queue.go:82-106`). A PUT of an application that exists, or was just deleted,
  is answered with 500.
- `DeleteApplications` flags the default application's default queue with the
  others (`application.go:121`), although `ErrDeleteDefaultQueue` (`queue.go:16`)
  says it cannot be deleted; `restapi/queue.go:122` compares with
  `ErrDeleteDefaultApplication` and answers 500 to an attempt to do so.
- `DeleteAccount` flags the queues before the tasks. Calls of the administrator
  on a deleted account are not refused.
- When `PostAccount` or `PutApplication` fails halfway the application has no
  default queue until somebody PUTs it.

- A PUT that creates a queue is answered with 404 (`restapi/queue.go`, since
  `NewQueue` returns nil).

Crontab and listing: `SyncCrontab` deletes only what the first page shows, prints
what the API refuses and goes on, takes an error for an empty list (`crontab.go:200`), `main` ignores its error, and `TaskDefaults` is
never applied; the order a list is asked for is never parsed, and its limit may
be zero or negative. Process: `main.go:101` reads a flag `bind-host`, the flag is
`bind-address`.

## Proofs

TLC checks the instances above; `tlapm` proves the following for all values of
the constants that satisfy `SizesAssumption` (module `Queues`) or
`EngineAssumption` (module `Engine`): any finite or infinite sets of queues,
attempts, tasks and processes, any limits. `LeaseAssumption` asks in addition
for finitely many queues and a bound on the latency, `SchedulerAssumption` for
capacities that are not zero, `ResourcesAssumption` for finitely many names of
applications, queues and tasks, so that there is always an id that nothing
mentions (`FreshId`). All safety properties of the passing runs are theorems; some
under premises on the environment, which are the theorem's hypotheses and are
explained below with what happens without them.

`QueueDocProofs` is the common ground. `Sound` says that the list of attempts in
flight is finite, and that free slots and list add up to the limit; it is proved
of a new document and across `EnQueue`'s, `DeQueue`'s, the cleaner's and
`NewQueue`'s updates, each once. Both components cite it.

`QueuesProofs`. The invariant is `Inv`: `TypeOK`, finite lists in flight (without
which `Cardinality` says nothing) and `Balanced`. It is inductive, one step of
the proof per action.

- `BalancedAlways`, `TypesAlways`: `Balanced` and `TypeOK` always hold.
- `RefinesBoundedSlots`: `Queues` implements `BoundedSlots`. With `UnusedEmpty`
  (a queue id not drawn yet has nobody in flight) every step maps to a step of
  the pools or leaves them alone. `EnQueue` compares a counter with zero, the pool
  its holders with its limit: that is where `Balanced` is needed.
- `WithinRequestAlways`: if there is at most one client (`OneAdmin`), then
  `InFlightWithinAnyRequest` always holds. It rests on what the limit can be
  (`LimitAsked`), and the increment of `NewQueue` is computed from an earlier read:
  `ReadFresh` says that this read still agrees with the document, and `OneCurrent`
  that one document at a time has the name. With two clients the read goes stale,
  as `queues_race` shows.

`EngineProofs`.

- `EngineTypes`: `TypeOK` always holds. It is not inductive, since a worker that
  takes a slot or writes a result needs an attempt at hand, and `NewAttempt` a
  task. `TypeInv` adds `GoodLocals` (what a process holds at each step) and
  `HasTask` (a stored attempt belongs to a task).
- `LimitAlways`: if limits are naturals and there is no cleaner, then
  `ConcurrencyLimit` always holds. The code bounds slots, not executions. The
  invariant `LimitInv` connects them: a busy worker's attempt is stored, leased
  and nobody else's (`Leases`), slots are counted and none is negative
  (`Counted`), and who executes holds a slot under his attempt (`HoldsSlot`).
  Executions then map one to one into a list that is no longer than the limit.
  Without the premise on the cleaner `HoldsSlot` fails, as `engine_delete_limit`
  shows; a negative `max_in_flight` leaves no queue that could be said to keep
  it. That leases are exclusive rests on `Due`, that is, on live workers renewing
  them in time.

`ResultsProofs`, all four under the premises of `LimitAlways`.

- `AckedAlways`, `QueuedAlways`, `FinalAlways`: `AckedIsFinished` and
  `QueuedWasInserted` always hold, and every step keeps `ResultIsFinal`.
  `FinishAttempt` looks at no status and `ackAttempt` at no result, so none of the
  three is kept by its own step. The invariant `ResultInv` says who holds an
  attempt in which state: a busy worker's is running (`Running`), whoever is in
  `NextAttemptForTask` with one has a finished one (`Handled`), and who is about
  to mark a task has inserted the attempt (`MarksStored`). `Leases` of
  `EngineProofs` makes the running attempt the worker's alone, so that his result
  goes over nobody's; `Named` says that a stored task has the id of an attempt,
  which whoever is about to insert one knows.
  With a cleaner at work on deleted tasks `QueuedWasInserted` and
  `AckedIsFinished` fail: it removes the attempts of a task before the task, and the
  fixer then inserts the missing attempt again, under an id that a worker may still
  hold. `TasksProofs` says where a cleaner does no harm.
- `SlotsAlwaysComeBack`: `SlotsComeBack` always holds, with its exception for
  attempts whose URL cannot be requested. `SlotInv` says which
  attempts may be in a queue's list: those in play and those their worker has not
  given back yet; a worker that dies in between leaves one that is in play and is
  leased again, since the result is written after `DeQueue`.

`TasksProofs`. Four properties of a task's life are one argument about whose turn
it is. `LifeInv` says that one process at a time works on a task (`Alone`) and what
it knows then (`Known`): its copy is what is stored, its result is the one of the
attempt that the task wants. The other attempts of the task are finished, and
acknowledged or about to be (`InTurn`); the result of the wanted one is still to be
acted on (`Outstanding`); a task does not share its attempts (`Owned`); the task of a
wanted attempt is active (`StillActive`); the retry counter bounds the attempts, where
`max_attempts` is a limit (`Spent`); a task that goes on had no success (`Succeeded`).

A cleaner removes attempts that were acknowledged some time ago (`CleanFinished`; its
guard trusts that no worker is on one for days, but not that no fixer is). `HandInv`
shows that nobody is: who has an attempt at hand executes it, or has its result and
is the only one about to acknowledge it. `Tidy` says that, where nothing is deleted,
no document is flagged and `NewAttempt` finds no pending attempt to flag, so that what
the cleaner removes is always such an old result. `AllInv`, the invariant of the
theorems, joins these to the invariants of `EngineProofs` and `ResultsProofs`: a step
that is not the cleaner's keeps them as before (`NoCleaning`), one that is removes an
attempt that none of them needs (`CleanedSlots`, `CleanedLife`).

- `OneAtATimeAlways`, `BudgetAlways`, `DoneAlways`: `OneAtATime`, `RetryBudget` and
  `DoneStaysDone` always hold, if the system is `Undisturbed`.
- `ForgottenNever`: so does `NoTaskForgotten`, if moreover nothing is deleted.
- `CleanerKeepsSlots`, `CleanerKeepsResults`: what `EngineProofs` and `ResultsProofs`
  show without a cleaner holds with one, if the system is `Undisturbed`.

`Undisturbed` has four parts, and TLC finds what happens without each of them. The
clients create and delete (an update breaks all four properties: `engine_put_race`).
One fixer: two of them break all four, as soon as a process dies. Deaths are not
late: late ones break `RetryBudget` (`engine_late_crash`), `DoneStaysDone` and
`NoTaskForgotten`, and two of them with more attempts also `OneAtATime`. The number
of deaths that are not late, and of failures of `NewAttempt`, is not limited. The fourth: no cleaner
runs, or nothing is deleted. With a cleaner and deletions TLC refutes `OneAtATime`,
`RetryBudget`, `DoneStaysDone`, `ConcurrencyLimit`, `SlotsComeBack`,
`QueuedWasInserted` and `AckedIsFinished`: the cleaner removes the attempt of a deleted
task while its worker executes it, and until the task is removed too the fixer
inserts the attempt anew. What happens then is left to the runs `engine_delete_limit`
and `engine_live`. `RetryBudget` counts the attempts that are stored; the counter of
the task, which a cleaner leaves alone, is bounded by `Spent` in the same way.

`CrontabProofs`. `TypeInv` is `TypeOK` with what calls are under way: `Left` lists the
steps a call of each kind may still have to make, and `UnderWay` says that no other
is found. `TreeInv` has two parts besides the properties themselves. `Found`: what a
PUT has found is still there when it stores what belongs under it. `Swept`: what a
cascade has flagged stays flagged or goes, so that its next collection finds no live
child. `AttemptsInQueue` is needed since a cascade by queue selects attempts by their
own field. `SyncInv` follows a synchronisation: while it PUTs, each task of the file
is listed, on the agenda or being put (`PutPhase`); while it deletes, each listed task
that is not in the file is on the agenda, being deleted, or was beyond the page
(`DeletePhase`); both as long as every answer was a success.

- `TypesAlways`, `DefaultAlwaysStays`: `TypeOK` always holds, and every step keeps
  `DefaultApplicationStays`, for any number of clients.
- `ChildrenAlwaysGoFirst`, `TaskAlwaysHasQueue`, `SyncedAlwaysExactly`:
  `ChildrenGoFirst`, `TaskHasQueue` and `SyncedExactly` always hold, if there is at
  most one client. With two, TLC finds each of the three violated, even when nothing
  fails: a PUT does not look again, and two synchronisations undo each other.

`LeasesProofs`.

- `RenewedAlways`, `OneExecutorAlways`: `RenewedInTime` and `OneExecutor` always
  hold. That a lease has not lapsed is not inductive: one has to know how much of
  it may be used before the next renewal. `Need` is that amount for each step of
  a worker, `Enough` says that `left` is at least as much. `Sound` bounds the
  clock readings it is computed from: `Budget`, one latency for each queue found
  full and one more, for `NextAttempt`. `BudgetFits`, which needs
  `LeaseAssumption` and finitely many queues, says that the interval has room for
  any budget and two latencies more.
  `OneExecutor` is kept with it: `Find` takes only attempts whose lease has lapsed at the
  time the finder read, and that of a worker whose renewals succeeded has not.
- `TypesAlways`: `TypeOK` always holds; in particular `sooner` is a strict total
  order that agrees with the leases, also when time passes and what lies at the
  floor stays there (`TickKeepsOrder`).

`HookydProofs`. The invariant `IInv` has four parts. `Counts`: the semaphores and
the wait group are the cardinalities of sets of goroutines (`Workless`,
`Working`, `Querying`, and those between their `wg.Add` and `wg.Done`), so that a
step of one goroutine adds or removes one element. `Hands`: who has an attempt has
it alone, it is not ready, and every attempt of `early` is in somebody's hands. `ServerInv`: what `serve`,
`manager` and `asked` say of one another. `Stopping`: when `Stop`
has returned, `early` is empty.

- `TypesAlways`: no semaphore exceeds its capacity, the wait group is never
  negative (Go would panic).
- `PlacesAlways`, `StopWaitsAlways`, `HandlersFinishAlways`: the safety
  properties of the run `hookyd`, for any number of attempts, queriers,
  connections and any capacities.

Only model-checked: liveness (`ActiveIsExecuted`, `ResultsAreActedOn`,
`SlotsGivenBack`, `DeletedGoesAway`, `SignalEndsProcess`, `ReadyIsLeased`, `WorkersEnd`, `TakenUpAgain`,
`OthersNotStarved`, `DeletedIsRemoved`), which is out of the prover's reach.

## Plan

1. Done: `QueueDoc`, `Queues`, `BoundedSlots`, `Engine`, their runs and the
   proofs above.
2. Done: `Leases`, which justifies what `Engine` assumes of `Held`; `Scheduler`,
   `Graceful` and `Hookyd`, which say what a shutdown guarantees; their proofs.
3. Done: `Resources` and `Crontab`, checked with TLC.
4. Done: proofs about `Resources` and `Crontab`, and about the life of a task.
5. Done: the theorems of `ResultsProofs` and `TasksProofs` with a cleaner where
   nothing is deleted. Left: deletions with a cleaner, for what still holds there.
6. `Retry.NextAttempt` and `nextRun` as functions on numbers, with the width of
   the integers.

## Not modelled

- The vendored libraries: MongoDB driver, YAML, cron expressions, REST routing,
  command line. They are some 26,500 of the repository's 30,200 lines of Go. What
  the program needs of them is in the models as what it relies on: an operation
  on one document is atomic, may fail, and respects a unique index. The
  exception is the HTTP server's shutdown, whose goroutines decide what a signal
  does to hooky.
- Routing, JSON, the parsing of the authentication header: stateless. Lists and
  counts other than the page that `SyncCrontab` reads.
- `migrate`, which rewrites documents of older releases once at start-up; the PATCH
  of an account's display name; statistics.
- Durations of back-offs and dates of schedules: a model says whether a task is
  active, not when.
- The database session: losing it is a failed operation.
- `status`, `executions`, `errors` and the other fields kept for display.
