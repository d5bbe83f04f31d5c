------------------------------- MODULE Engine -------------------------------
(***************************************************************************)
(* Tasks and attempts: models/task.go and models/attempt.go, as driven by  *)
(* the workers, fixer and cleaner of scheduler/scheduler.go and by the API *)
(* handlers of restapi/task.go and restapi/attempt.go.                     *)
(*                                                                         *)
(* MongoDB makes each operation on a document atomic and nothing more, so  *)
(* every handler is a sequence of steps, one per database operation, and   *)
(* a process carries from one step to the next what the Go function keeps  *)
(* in local variables.                                                     *)
(*                                                                         *)
(* Time is what the properties tell apart: `due' says that an attempt's    *)
(* `reserved' lies in the past, and the ages the fixer and the cleaner     *)
(* look at are guards on what may still be going on.                       *)
(***************************************************************************)
EXTENDS QueueDoc

CONSTANTS
  TaskId,       \* task documents: bounds how often a name is created again
  AttemptId,    \* attempt ids; one is drawn again once nothing mentions it
  QueueId,
  None,         \* no task, no attempt
  NameOf,       \* [TaskId -> name], the name a task id is drawn for
  QueueOf,      \* [TaskId -> QueueId]
  Limit,        \* [QueueId -> max_in_flight]
  MaxAttempts,  \* retry.max_attempts: negative is unlimited, SetDefault makes 0 ten
  BadUrl,       \* tasks whose URL http.NewRequest refuses
  Worker, Fixer, Client, Cleaner,
  Calls,        \* what clients do: "create", "update", "delete", "force"
  Schedules,    \* SUBSET BOOLEAN: may a PUT bring a CRON schedule
  Actives,      \* SUBSET BOOLEAN: may a PUT bring active = false
  MaxCalls,     \* bound on the API calls
  MaxCrashes,   \* bound on the calls that die or fail half-way
  LateCrashes   \* may one die where the code has no repair (IsLate)

Proc == Worker \cup Fixer \cup Client \cup Cleaner

ASSUME EngineAssumption ==
  /\ None \notin TaskId /\ None \notin AttemptId
  /\ DOMAIN NameOf = TaskId
  /\ QueueOf \in [TaskId -> QueueId]
  /\ Limit \in [QueueId -> Int]
  /\ MaxAttempts \in Int \ {0}
  /\ Schedules \subseteq BOOLEAN /\ Actives \subseteq BOOLEAN
  /\ MaxCalls \in Nat /\ MaxCrashes \in Nat

VARIABLES
  tasks,      \* [TaskId -> task document]
  attempts,   \* [AttemptId -> attempt document]
  slots,      \* [QueueId -> slots of the queue]
  proc,       \* [Proc -> local state]
  calls,      \* API calls made
  crashes     \* processes that died

vars == <<tasks, attempts, slots, proc, calls, crashes>>
-----------------------------------------------------------------------------
(* Documents *)

\* `active' implies a nonzero `at': every write of the one sets the other, so
\* `at' is left out.  attempt_queued is `queued', retry.attempts is `retry'.
TaskDocs ==
  [state : {"unused", "stored", "removed"}, active : BOOLEAN, schedule : BOOLEAN,
   retry : Int, current : AttemptId \cup {None}, queued : BOOLEAN, deleted : BOOLEAN]

Statuses == {"absent", "pending", "running", "success", "error"}

AttemptDocs ==
  [status : Statuses, task : TaskId \cup {None}, due : BOOLEAN, acked : BOOLEAN,
   deleted : BOOLEAN]

NoTask(s) ==
  [state |-> s, active |-> FALSE, schedule |-> FALSE, retry |-> 0, current |-> None,
   queued |-> FALSE, deleted |-> FALSE]

NoAttempt ==
  [status |-> "absent", task |-> None, due |-> FALSE, acked |-> FALSE, deleted |-> FALSE]

Stored(t) == t \in TaskId /\ tasks[t].state = "stored"
Exists(a) == a \in AttemptId /\ attempts[a].status # "absent"
InPlay(a) == a \in AttemptId /\ attempts[a].status \in {"pending", "running"}
Finished(a) == a \in AttemptId /\ attempts[a].status \in {"success", "error"}

\* Task ids of the same name: what a query by name selects.
Namesakes(t) == {u \in TaskId : NameOf[u] = NameOf[t]}
-----------------------------------------------------------------------------
(* Processes *)

\* What NextAttemptForTask and NewAttempt read of their copy of the task.
Copies == [active : BOOLEAN, schedule : BOOLEAN, retry : Int, current : AttemptId \cup {None}]

NoCopy == [active |-> FALSE, schedule |-> FALSE, retry |-> 0, current |-> None]

\* The task as NextAttemptForTask reads it.
CopyOf(d) ==
  [active |-> d.active, schedule |-> d.schedule, retry |-> d.retry, current |-> d.current]

\* The task as NewAttempt reads it: may an attempt be inserted, and under which id.
Wanted(d) ==
  [active |-> d.active /\ ~d.deleted, schedule |-> FALSE, retry |-> 0, current |-> d.current]

Steps ==
  {"idle",
   "count", "push", "http", "dequeue", "finish",    \* worker: EnQueue, DoAttempt
   "read", "apply", "ack",                          \* NextAttemptForTask
   "purge", "insert", "mark",                       \* NewAttempt
   "lookup", "delete", "remove"}                    \* FixIntegrity, DeleteTask, cleaner

Locals ==
  [pc : Steps, a : AttemptId \cup {None}, t : TaskId \cup {None},
   out : {"none", "success", "error"}, copy : Copies, full : SUBSET QueueId]

Rest == [pc |-> "idle", a |-> None, t |-> None, out |-> "none", copy |-> NoCopy, full |-> {}]

At(p, step) == proc[p].pc = step

Become(p, local) == proc' = [proc EXCEPT ![p] = local]

Goto(p, step) == Become(p, [proc[p] EXCEPT !.pc = step])

\* NewAttempt returns: NextAttemptForTask acknowledges its attempt whatever
\* NewAttempt said, PUT and the fixer are done.
AfterNewAttempt(p) ==
  IF proc[p].a = None THEN Rest
  ELSE [Rest EXCEPT !.pc = "ack", !.a = proc[p].a, !.t = proc[p].t]

\* bson.NewObjectId: an id that no document and no process mentions.
Unused ==
  {a \in AttemptId :
     /\ ~Exists(a)
     /\ \A t \in TaskId : tasks[t].current # a
     /\ \A p \in Proc : proc[p].a # a /\ proc[p].copy.current # a
     /\ \A q \in QueueId : ~Holds(slots[q], a)}

Fresh == CHOOSE a \in AttemptId : a \in Unused

\* The worker of attempt a is alive: TouchAttempt renews its lease in time.
Held(a) ==
  \E w \in Worker : proc[w].a = a /\ proc[w].pc \in {"count", "push", "http", "dequeue", "finish"}

TypeOK ==
  /\ tasks \in [TaskId -> TaskDocs]
  /\ attempts \in [AttemptId -> AttemptDocs]
  /\ slots \in [QueueId -> SlotsOf(AttemptId)]
  /\ proc \in [Proc -> Locals]
  /\ calls \in Nat
  /\ crashes \in Nat

Init ==
  /\ tasks = [t \in TaskId |-> NoTask("unused")]
  /\ attempts = [a \in AttemptId |-> NoAttempt]
  /\ slots = [q \in QueueId |-> NewSlots(Limit[q])]
  /\ proc = [p \in Proc |-> Rest]
  /\ calls = 0
  /\ crashes = 0
-----------------------------------------------------------------------------
(* Scheduler: NextAttempt, EnQueue *)

\* The attempts NextAttempt's query selects for w.  The code takes the one with
\* the oldest `reserved'; which one that is, is left open.
Ready(w) ==
  {a \in AttemptId :
     /\ InPlay(a) /\ attempts[a].due /\ ~attempts[a].deleted
     /\ QueueOf[attempts[a].task] \notin proc[w].full}

\* Mutant: the lease is not moved.
ReserveNoLease(w, a) ==
  /\ At(w, "idle") /\ a \in Ready(w)
  /\ attempts' = [attempts EXCEPT ![a].status = "running"]
  /\ Become(w, [proc[w] EXCEPT !.pc = "count", !.a = a, !.t = attempts[a].task])
  /\ UNCHANGED <<tasks, slots, calls, crashes>>

\* One findAndModify leases the attempt and marks it running.
Reserve(w, a) ==
  /\ At(w, "idle") /\ a \in Ready(w)
  /\ attempts' = [attempts EXCEPT ![a].status = "running", ![a].due = FALSE]
  /\ Become(w, [proc[w] EXCEPT !.pc = "count", !.a = a, !.t = attempts[a].task])
  /\ UNCHANGED <<tasks, slots, calls, crashes>>

\* Nothing left outside the full queues: the next NextAttempt starts over.
GiveUp(w) ==
  /\ At(w, "idle") /\ proc[w].full # {} /\ Ready(w) = {}
  /\ Become(w, Rest)
  /\ UNCHANGED <<tasks, attempts, slots, calls, crashes>>

\* Mutant: an attempt that holds a slot is taken for executed.
EnQueueCountSkips(w) ==
  /\ At(w, "count")
  /\ Goto(w, IF Holds(slots[QueueOf[proc[w].t]], proc[w].a) THEN "finish" ELSE "push")
  /\ UNCHANGED <<tasks, attempts, slots, calls, crashes>>

\* EnQueue, first operation: an attempt that holds a slot, from a worker that
\* died, keeps it.
EnQueueCount(w) ==
  /\ At(w, "count")
  /\ Goto(w, IF Holds(slots[QueueOf[proc[w].t]], proc[w].a) THEN "http" ELSE "push")
  /\ UNCHANGED <<tasks, attempts, slots, calls, crashes>>

EnQueueAdmit(w) ==
  /\ At(w, "push")
  /\ LET q == QueueOf[proc[w].t]
     IN  /\ CanAdmit(slots[q], proc[w].a)
         /\ slots' = [slots EXCEPT ![q] = Admit(@, proc[w].a)]
  /\ Goto(w, "http")
  /\ UNCHANGED <<tasks, attempts, calls, crashes>>

\* "full": the attempt stays marked running, leased to nobody, and NextAttempt
\* goes on with the other queues.
EnQueueFull(w) ==
  /\ At(w, "push")
  /\ LET q == QueueOf[proc[w].t]
     IN  /\ ~CanAdmit(slots[q], proc[w].a)
         /\ Become(w, [Rest EXCEPT !.full = proc[w].full \cup {q}])
  /\ UNCHANGED <<tasks, attempts, slots, calls, crashes>>
-----------------------------------------------------------------------------
(* Worker: DoAttempt *)

\* The request is made and the endpoint answers, or the connection fails.
Execute(w, result) ==
  /\ At(w, "http") /\ proc[w].t \notin BadUrl
  /\ Become(w, [proc[w] EXCEPT !.pc = "dequeue", !.out = result])
  /\ UNCHANGED <<tasks, attempts, slots, calls, crashes>>

\* The request cannot be built: DoAttempt returns before its DeQueue.
Reject(w) ==
  /\ At(w, "http") /\ proc[w].t \in BadUrl
  /\ Become(w, Rest)
  /\ UNCHANGED <<tasks, attempts, slots, calls, crashes>>

\* Mutant: only a success gives the slot back.
DeQueueLeaks(w) ==
  /\ At(w, "dequeue")
  /\ slots' = IF proc[w].out = "error" THEN slots
              ELSE [slots EXCEPT ![QueueOf[proc[w].t]] = Release(@, proc[w].a)]
  /\ Goto(w, "finish")
  /\ UNCHANGED <<tasks, attempts, calls, crashes>>

DeQueue(w) ==
  /\ At(w, "dequeue")
  /\ slots' = [slots EXCEPT ![QueueOf[proc[w].t]] = Release(@, proc[w].a)]
  /\ Goto(w, "finish")
  /\ UNCHANGED <<tasks, attempts, calls, crashes>>

\* The result is written whatever the status was meanwhile.
Finish(w) ==
  /\ At(w, "finish") /\ Exists(proc[w].a)
  /\ attempts' = [attempts EXCEPT ![proc[w].a].status = proc[w].out]
  /\ Goto(w, "read")
  /\ UNCHANGED <<tasks, slots, calls, crashes>>

\* The attempt was removed: the result is lost.
FinishGone(w) ==
  /\ At(w, "finish") /\ ~Exists(proc[w].a)
  /\ Become(w, Rest)
  /\ UNCHANGED <<tasks, attempts, slots, calls, crashes>>

\* Mutant: nobody renews the lease of an execution.
DueWhileHeld(a) ==
  /\ InPlay(a) /\ ~attempts[a].due /\ ~attempts[a].deleted
  /\ attempts' = [attempts EXCEPT ![a].due = TRUE]
  /\ UNCHANGED <<tasks, slots, proc, calls, crashes>>

\* The clock passes an attempt's `reserved': its date comes or its lease lapses.
Due(a) ==
  /\ InPlay(a) /\ ~attempts[a].due /\ ~attempts[a].deleted
  /\ ~Held(a)
  /\ attempts' = [attempts EXCEPT ![a].due = TRUE]
  /\ UNCHANGED <<tasks, slots, proc, calls, crashes>>
-----------------------------------------------------------------------------
(* NextAttemptForTask, by a worker or by the fixer, for attempt proc[p].a *)

ReadTask(p) ==
  /\ At(p, "read") /\ Stored(proc[p].t)
  /\ Become(p, [proc[p] EXCEPT !.pc = "apply", !.copy = CopyOf(tasks[proc[p].t])])
  /\ UNCHANGED <<tasks, attempts, slots, calls, crashes>>

\* The task is gone at the read or at the update: no acknowledgement.
TaskGone(p) ==
  /\ proc[p].pc \in {"read", "apply"} /\ ~Stored(proc[p].t)
  /\ Become(p, Rest)
  /\ UNCHANGED <<tasks, attempts, slots, calls, crashes>>

ExhaustedLate(copy) == MaxAttempts > 0 /\ copy.retry >= MaxAttempts    \* mutant

\* Retry.NextAttempt: no further attempt.
Exhausted(copy) == MaxAttempts > 0 /\ copy.retry + 1 >= MaxAttempts

StaysActiveAlways(copy, out) ==                        \* mutant
  IF out = "error" THEN ~Exhausted(copy) ELSE copy.active

\* Is the task active after this result?  An error retries even a task that the
\* copy shows inactive; a success goes on only under a schedule.
StaysActive(copy, out) ==
  IF out = "error" THEN ~Exhausted(copy) ELSE copy.active /\ copy.schedule

\* The $inc of retry.attempts, from the copy as well.
RetryIncrement(copy, out) == IF out = "error" THEN 1 ELSE -copy.retry

\* Mutant: attempt_queued is left as it was.
ApplyKeepsQueued(p) ==
  LET t == proc[p].t
      copy == proc[p].copy
      latest == copy.current = proc[p].a
      next == [tasks[t] EXCEPT
                 !.active = StaysActive(copy, proc[p].out),
                 !.retry = @ + RetryIncrement(copy, proc[p].out),
                 !.current = IF latest THEN Fresh ELSE copy.current]
  IN  /\ At(p, "apply") /\ Stored(t)
      /\ latest => Unused # {}
      /\ tasks' = [tasks EXCEPT ![t] = next]
      /\ Become(p, [Rest EXCEPT !.pc = IF latest THEN "purge" ELSE "ack",
                                !.a = proc[p].a, !.t = t,
                                !.copy = IF latest THEN Wanted(next) ELSE NoCopy])
      /\ UNCHANGED <<attempts, slots, calls, crashes>>

\* The update is computed from the copy and applied to the document of that id,
\* whatever happened to it since the read.
Apply(p) ==
  LET t == proc[p].t
      copy == proc[p].copy
      latest == copy.current = proc[p].a
      next == [tasks[t] EXCEPT
                 !.active = StaysActive(copy, proc[p].out),
                 !.retry = @ + RetryIncrement(copy, proc[p].out),
                 !.current = IF latest THEN Fresh ELSE copy.current,
                 !.queued = FALSE]
  IN  /\ At(p, "apply") /\ Stored(t)
      /\ latest => Unused # {}
      /\ tasks' = [tasks EXCEPT ![t] = next]
      /\ Become(p, [Rest EXCEPT !.pc = IF latest THEN "purge" ELSE "ack",
                                !.a = proc[p].a, !.t = t,
                                !.copy = IF latest THEN Wanted(next) ELSE NoCopy])
      /\ UNCHANGED <<attempts, slots, calls, crashes>>

Ack(p) ==
  /\ At(p, "ack")
  /\ attempts' = IF Exists(proc[p].a)
                 THEN [attempts EXCEPT ![proc[p].a].acked = TRUE]
                 ELSE attempts
  /\ Become(p, Rest)
  /\ UNCHANGED <<tasks, slots, calls, crashes>>
-----------------------------------------------------------------------------
(* NewAttempt *)

\* DeletePendingAttempts; without an active task there is nothing more to do.
Purge(p) ==
  /\ At(p, "purge")
  /\ attempts' = [a \in AttemptId |->
       IF attempts[a].task = proc[p].t /\ attempts[a].status = "pending"
       THEN [attempts[a] EXCEPT !.deleted = TRUE] ELSE attempts[a]]
  /\ IF proc[p].copy.active THEN Goto(p, "insert") ELSE Become(p, AfterNewAttempt(p))
  /\ UNCHANGED <<tasks, slots, calls, crashes>>

Insert(p) ==
  LET new == proc[p].copy.current
  IN  /\ At(p, "insert") /\ ~Exists(new)
      /\ attempts' = [attempts EXCEPT ![new] =
           [NoAttempt EXCEPT !.status = "pending", !.task = proc[p].t]]
      /\ Goto(p, "mark")
      /\ UNCHANGED <<tasks, slots, calls, crashes>>

\* The id is taken: another process inserted this attempt first.
InsertDup(p) ==
  /\ At(p, "insert") /\ Exists(proc[p].copy.current)
  /\ Become(p, AfterNewAttempt(p))
  /\ UNCHANGED <<tasks, attempts, slots, calls, crashes>>

\* Mutant: the task is marked whatever attempt it wants by now.
MarkUnchecked(p) ==
  /\ At(p, "mark")
  /\ tasks' = [t \in TaskId |->
       IF t = proc[p].t /\ Stored(t) THEN [tasks[t] EXCEPT !.queued = TRUE] ELSE tasks[t]]
  /\ Become(p, AfterNewAttempt(p))
  /\ UNCHANGED <<attempts, slots, calls, crashes>>

\* SetAttemptQueuedForTask: only while the task still wants this attempt.
Mark(p) ==
  /\ At(p, "mark")
  /\ tasks' = [t \in TaskId |->
       IF t = proc[p].t /\ Stored(t) /\ tasks[t].current = proc[p].copy.current
       THEN [tasks[t] EXCEPT !.queued = TRUE] ELSE tasks[t]]
  /\ Become(p, AfterNewAttempt(p))
  /\ UNCHANGED <<attempts, slots, calls, crashes>>
-----------------------------------------------------------------------------
(* API: NewTask, DeleteTask, ForceAttemptForTask *)

Call(c, kind) ==
  /\ At(c, "idle") /\ kind \in Calls
  /\ calls < MaxCalls
  /\ calls' = calls + 1

\* What NewTask stores, whether it inserts the task or updates it.
PutDoc(schedule, active) ==
  [NoTask("stored") EXCEPT !.active = active, !.schedule = schedule, !.current = Fresh]

\* Mutant: the task is inserted as if its attempt were queued already.
PutNewQueued(c, t, schedule, active) ==
  LET new == [PutDoc(schedule, active) EXCEPT !.queued = TRUE]
  IN  /\ Call(c, "create")
      /\ tasks[t].state = "unused" /\ ~\E u \in Namesakes(t) : Stored(u)
      /\ Unused # {}
      /\ tasks' = [tasks EXCEPT ![t] = new]
      /\ Become(c, IF active THEN [Rest EXCEPT !.pc = "insert", !.t = t, !.copy = Wanted(new)]
                   ELSE Rest)
      /\ UNCHANGED <<attempts, slots, crashes>>

\* The insert of NewTask succeeds: the name was free.
PutNew(c, t, schedule, active) ==
  LET new == PutDoc(schedule, active)
  IN  /\ Call(c, "create")
      /\ tasks[t].state = "unused" /\ ~\E u \in Namesakes(t) : Stored(u)
      /\ Unused # {}
      /\ tasks' = [tasks EXCEPT ![t] = new]
      /\ Become(c, IF active THEN [Rest EXCEPT !.pc = "insert", !.t = t, !.copy = Wanted(new)]
                   ELSE Rest)
      /\ UNCHANGED <<attempts, slots, crashes>>

\* The insert meets the unique index and NewTask updates the document instead;
\* a task that was deleted and not yet removed comes back.
PutAgain(c, t, schedule, active) ==
  LET new == PutDoc(schedule, active)
  IN  /\ Call(c, "update") /\ Stored(t)
      /\ Unused # {}
      /\ tasks' = [tasks EXCEPT ![t] = new]
      /\ Become(c, [Rest EXCEPT !.pc = "purge", !.t = t, !.copy = Wanted(new)])
      /\ UNCHANGED <<attempts, slots, crashes>>

\* DeleteTask flags the attempts of that name ...
DeleteAttempts(c, t) ==
  /\ Call(c, "delete") /\ tasks[t].state # "unused"
  /\ attempts' = [a \in AttemptId |->
       IF Exists(a) /\ attempts[a].task \in Namesakes(t)
       THEN [attempts[a] EXCEPT !.deleted = TRUE] ELSE attempts[a]]
  /\ Become(c, [Rest EXCEPT !.pc = "delete", !.t = t])
  /\ UNCHANGED <<tasks, slots, crashes>>

\* ... and then the task of that name.
DeleteTask(c) ==
  /\ At(c, "delete")
  /\ tasks' = [t \in TaskId |->
       IF Stored(t) /\ t \in Namesakes(proc[c].t)
       THEN [tasks[t] EXCEPT !.deleted = TRUE] ELSE tasks[t]]
  /\ Become(c, Rest)
  /\ UNCHANGED <<attempts, slots, calls, crashes>>

\* ForceAttemptForTask decodes the updated task into a nil pointer: Apply has
\* changed the document and returns an error, and no attempt is created.
ForceAttempt(c, t) ==
  /\ Call(c, "force") /\ Stored(t) /\ ~tasks[t].deleted
  /\ Unused # {}
  /\ tasks' = [tasks EXCEPT ![t].current = Fresh, ![t].queued = FALSE]
  /\ UNCHANGED <<attempts, slots, proc, crashes>>
-----------------------------------------------------------------------------
(* Fixer: FixIntegrity *)

\* No live process is between its update of task t and the end of its NewAttempt:
\* the fixer looks only at tasks whose last update is 180 seconds old.  Another
\* fixer that works on the task has not updated it.
TaskAtRest(t) ==
  \A p \in Proc :
    proc[p].t = t /\ proc[p].pc \in {"purge", "insert", "mark"}
      => p \in Fixer /\ proc[p].a = None

\* An active task without a queued attempt.
FixTask(f, t) ==
  /\ At(f, "idle")
  /\ Stored(t) /\ tasks[t].active /\ ~tasks[t].deleted /\ ~tasks[t].queued
  /\ TaskAtRest(t)
  /\ Become(f, [Rest EXCEPT !.pc = "lookup", !.t = t, !.copy = Wanted(tasks[t])])
  /\ UNCHANGED <<tasks, attempts, slots, calls, crashes>>

\* A new attempt is made unless one is stored, in whatever state.
Lookup(f) ==
  /\ At(f, "lookup")
  /\ IF Exists(proc[f].copy.current) THEN Become(f, Rest) ELSE Goto(f, "purge")
  /\ UNCHANGED <<tasks, attempts, slots, calls, crashes>>

\* Mutants: the fixer takes any unacknowledged attempt, or only failed ones.
FixUnfinished(f, a) ==
  /\ At(f, "idle")
  /\ Exists(a) /\ ~attempts[a].acked
  /\ \A w \in Worker : proc[w].a # a
  /\ Become(f, [Rest EXCEPT !.pc = "read", !.a = a, !.t = attempts[a].task,
                            !.out = attempts[a].status])
  /\ UNCHANGED <<tasks, attempts, slots, calls, crashes>>

FixErrorsOnly(f, a) ==
  /\ At(f, "idle")
  /\ attempts[a].status = "error" /\ ~attempts[a].acked
  /\ \A w \in Worker : proc[w].a # a
  /\ Become(f, [Rest EXCEPT !.pc = "read", !.a = a, !.t = attempts[a].task,
                            !.out = attempts[a].status])
  /\ UNCHANGED <<tasks, attempts, slots, calls, crashes>>

\* A finished attempt that nobody acknowledged for 180 seconds: the fixer runs
\* NextAttemptForTask in place of the worker that is gone.
FixAttempt(f, a) ==
  /\ At(f, "idle")
  /\ Finished(a) /\ ~attempts[a].acked
  /\ \A w \in Worker : proc[w].a # a
  /\ Become(f, [Rest EXCEPT !.pc = "read", !.a = a, !.t = attempts[a].task,
                            !.out = attempts[a].status])
  /\ UNCHANGED <<tasks, attempts, slots, calls, crashes>>
-----------------------------------------------------------------------------
(* Cleaner: CleanDeletedRessources, CleanFinishedAttempts *)

\* Mutant: only attempts that hold a slot are cleaned.
CleanSlotsOnly(k, a) ==
  /\ At(k, "idle")
  /\ Exists(a) /\ attempts[a].deleted
  /\ LET q == QueueOf[attempts[a].task]
     IN  /\ Holds(slots[q], a)
         /\ slots' = [slots EXCEPT ![q] = Release(@, a)]
  /\ Become(k, [Rest EXCEPT !.pc = "remove", !.a = a])
  /\ UNCHANGED <<tasks, attempts, calls, crashes>>

\* For each deleted attempt: its slot first, then the document.
CleanAttempt(k, a) ==
  /\ At(k, "idle")
  /\ Exists(a) /\ attempts[a].deleted
  /\ LET q == QueueOf[attempts[a].task]
     IN  slots' = [slots EXCEPT ![q] = Release(@, a)]
  /\ Become(k, [Rest EXCEPT !.pc = "remove", !.a = a])
  /\ UNCHANGED <<tasks, attempts, calls, crashes>>

RemoveAttempt(k) ==
  /\ At(k, "remove")
  /\ attempts' = [attempts EXCEPT ![proc[k].a] = NoAttempt]
  /\ Become(k, Rest)
  /\ UNCHANGED <<tasks, slots, calls, crashes>>

CleanTask(t) ==
  /\ Cleaner # {}
  /\ Stored(t) /\ tasks[t].deleted
  /\ tasks' = [tasks EXCEPT ![t] = NoTask("removed")]
  /\ UNCHANGED <<attempts, slots, proc, calls, crashes>>

\* Finished seven days ago.  By then who worked on it is done, and it was
\* acknowledged unless its task is gone and the fixer tries in vain.
CleanFinished(a) ==
  /\ Cleaner # {}
  /\ Finished(a)
  /\ attempts[a].acked \/ ~Stored(attempts[a].task)
  /\ \A p \in Proc : proc[p].copy.current # a /\ (proc[p].a = a => p \in Fixer)
  /\ attempts' = [attempts EXCEPT ![a] = NoAttempt]
  /\ UNCHANGED <<tasks, slots, proc, calls, crashes>>
-----------------------------------------------------------------------------
(* Failures *)

\* p has updated its task in NextAttemptForTask and not yet acknowledged.
Unacknowledged(p) == proc[p].a # None /\ proc[p].pc \in {"purge", "insert", "mark", "ack"}

\* What p has half done cannot be told from what is done or not begun: the fixer
\* does it again, or DeleteTask has taken the attempts of a task that stays.
IsLate(p) == Unacknowledged(p) \/ At(p, "delete")

MayFail(p) ==
  /\ ~At(p, "idle")
  /\ crashes < MaxCrashes
  /\ crashes' = crashes + 1

\* The hookyd dies, or a database error makes the handler return.
Crash(p) ==
  /\ MayFail(p)
  /\ LateCrashes \/ ~IsLate(p)
  /\ Become(p, Rest)
  /\ UNCHANGED <<tasks, attempts, slots, calls>>

\* A database error in NewAttempt, which NextAttemptForTask overwrites with the
\* outcome of its acknowledgement: the fixer makes the attempt that is missing.
NewAttemptFails(p) ==
  /\ MayFail(p)
  /\ Unacknowledged(p) /\ ~At(p, "ack")
  /\ Become(p, AfterNewAttempt(p))
  /\ UNCHANGED <<tasks, attempts, slots, calls>>
-----------------------------------------------------------------------------
\* What a process that has begun does next.
WorkerGoesOn(w) ==
  \/ EnQueueCount(w) \/ EnQueueAdmit(w) \/ EnQueueFull(w) \/ GiveUp(w)
  \/ \E result \in {"success", "error"} : Execute(w, result)
  \/ Reject(w) \/ DeQueue(w) \/ Finish(w) \/ FinishGone(w)

GoesOn(p) ==
  \/ p \in Worker /\ WorkerGoesOn(p)
  \/ ReadTask(p) \/ TaskGone(p) \/ Apply(p) \/ Ack(p)
  \/ Purge(p) \/ Insert(p) \/ InsertDup(p) \/ Mark(p)
  \/ p \in Client /\ DeleteTask(p)
  \/ p \in Fixer /\ Lookup(p)
  \/ p \in Cleaner /\ RemoveAttempt(p)

ClientStep(c) ==
  \E t \in TaskId :
    \/ \E schedule \in Schedules, active \in Actives :
         PutNew(c, t, schedule, active) \/ PutAgain(c, t, schedule, active)
    \/ DeleteAttempts(c, t) \/ ForceAttempt(c, t)

Next ==
  \/ \E p \in Proc : GoesOn(p) \/ Crash(p) \/ NewAttemptFails(p)
  \/ \E w \in Worker, a \in AttemptId : Reserve(w, a)
  \/ \E c \in Client : ClientStep(c)
  \/ \E f \in Fixer, t \in TaskId : FixTask(f, t)
  \/ \E f \in Fixer, a \in AttemptId : FixAttempt(f, a)
  \/ \E k \in Cleaner, a \in AttemptId : CleanAttempt(k, a)
  \/ \E t \in TaskId : CleanTask(t)
  \/ \E a \in AttemptId : CleanFinished(a) \/ Due(a)

Spec == Init /\ [][Next]_vars

\* Every process that has begun goes on (endpoints answer, the database does), the
\* loops of the workers, the fixer and the cleaner come round again, and the clock
\* advances.  A loop may find its work gone for a while, hence strong fairness.
\* Nothing obliges clients to call or processes to die.
Fairness ==
  /\ \A p \in Proc : WF_vars(GoesOn(p))
  /\ \A w \in Worker : SF_vars(\E a \in AttemptId : Reserve(w, a))
  /\ \A f \in Fixer : /\ SF_vars(\E t \in TaskId : FixTask(f, t))
                      /\ SF_vars(\E a \in AttemptId : FixAttempt(f, a))
  /\ \A k \in Cleaner : SF_vars(\E a \in AttemptId : CleanAttempt(k, a))
  /\ WF_vars(\E t \in TaskId : CleanTask(t))
  /\ WF_vars(\E a \in AttemptId : CleanFinished(a))
  /\ WF_vars(\E a \in AttemptId : Due(a))

FairSpec == Spec /\ Fairness
-----------------------------------------------------------------------------
(* Properties *)

Executing(q) == {w \in Worker : At(w, "http") /\ QueueOf[proc[w].t] = q}

\* swagger.yml, max_in_flight: "Maximum number of attempts executed in parallel."
\* The code never counts executions: it trusts the slots, across workers that
\* die with theirs and cleaners that take them away.
ConcurrencyLimit == \A q \in QueueId : Cardinality(Executing(q)) <= Limit[q]

\* A task is executed by one worker at a time: retries, recurrences and what the
\* fixer repairs never overlap, whoever dies and whichever NewAttempt fails.  It
\* does not survive late deaths: who takes a result over from two of them writes an
\* old attempt_id back over the task and makes an attempt beside the one that runs.
OneAtATime ==
  \A v, w \in Worker :
    At(v, "http") /\ At(w, "http") /\ proc[v].t = proc[w].t => v = w

\* README: "Our task is queued and will be executed".  An active task always has
\* somebody who will look after it: an attempt the workers will take, a missing
\* attempt the fixer will make, or a result that will be acted on.
NoTaskForgotten ==
  \A t \in TaskId :
    LET d == tasks[t]
    IN  Stored(t) /\ d.active /\ ~d.deleted =>
          \/ InPlay(d.current) /\ ~attempts[d.current].deleted
          \/ ~Exists(d.current) /\ ~d.queued
          \/ Finished(d.current) /\ ~attempts[d.current].acked

AttemptsOf(t) == {a \in AttemptId : Exists(a) /\ attempts[a].task = t}

\* README: "you can have up to 10 attempts by default".  A task without schedule
\* gets at most max_attempts attempts from one PUT, whoever dies in between.
RetryBudget ==
  MaxAttempts > 0 =>
    \A t \in TaskId :
      Stored(t) /\ ~tasks[t].schedule => Cardinality(AttemptsOf(t)) <= MaxAttempts

\* A task without schedule that succeeded is done: no further attempt is waiting
\* or running.
DoneStaysDone ==
  \A t \in TaskId :
    Stored(t) /\ ~tasks[t].schedule /\ (\E a \in AttemptsOf(t) : attempts[a].status = "success")
      => \A a \in AttemptsOf(t) : ~InPlay(a)

\* The request of a cannot be built: each worker that leases a returns before its
\* DeQueue, and whatever slot a has it keeps until its task is deleted.
Stranded(a) == InPlay(a) /\ attempts[a].task \in BadUrl

\* A slot in use comes back to its queue, but for stranded attempts: who has it is
\* being executed, or will be leased and executed again, or was deleted and will
\* be cleaned.  FixQueues repairs nothing.
SlotsComeBack ==
  \A q \in QueueId : \A a \in slots[q].inflight :
    \/ \E w \in Worker : proc[w].a = a /\ proc[w].pc \in {"http", "dequeue"}
    \/ InPlay(a) /\ attempts[a].task \notin BadUrl
    \/ Exists(a) /\ attempts[a].deleted
    \/ Stranded(a)

\* task.go: attempt_queued "is set to true when the attempt as been successfully
\* created".  Without a cleaner the attempt is still there.
QueuedWasInserted ==
  \A t \in TaskId : Stored(t) /\ tasks[t].queued => Exists(tasks[t].current)

\* Only results are acknowledged.  The fixer never looks at an acknowledged
\* attempt again, so one that is still to run would end unnoticed.
AckedIsFinished == \A a \in AttemptId : Exists(a) /\ attempts[a].acked => Finished(a)

\* A result is final: no later lease, duplicate execution or lost worker changes
\* the status of a finished attempt.
ResultIsFinal ==
  [][\A a \in AttemptId :
       Finished(a) => attempts'[a].status \in {attempts[a].status, "absent"}]_vars

\* An active task is executed eventually, or stops being active: the worker or
\* the client that was on it may die at any point.
ActiveIsExecuted ==
  \A t \in TaskId :
    Stored(t) /\ tasks[t].active /\ ~tasks[t].deleted
      ~> \/ \E w \in Worker : At(w, "http") /\ proc[w].t = t
         \/ ~(Stored(t) /\ tasks[t].active /\ ~tasks[t].deleted)

\* A finished attempt is acted on: acknowledged, or removed with its task.
ResultsAreActedOn ==
  \A a \in AttemptId : Finished(a) ~> ~Finished(a) \/ attempts[a].acked

\* The slot of an attempt that can be requested is given back, by the worker that
\* executes it or by one that executes it again after a death.  What is deleted
\* under its worker is left out: the cleaner gives the slot back, the worker may
\* take another one, and should it die then, nothing names the attempt any more.
SlotsGivenBack ==
  \A q \in QueueId, a \in AttemptId :
    Holds(slots[q], a) /\ Exists(a) /\ attempts[a].task \notin BadUrl
      ~> ~Holds(slots[q], a) \/ attempts[a].deleted

\* What was deleted goes away, workers and dying processes notwithstanding.
DeletedGoesAway ==
  /\ \A t \in TaskId : (Stored(t) /\ tasks[t].deleted) ~> ~Stored(t)
  /\ \A a \in AttemptId : (Exists(a) /\ attempts[a].deleted) ~> ~Exists(a)
=============================================================================
