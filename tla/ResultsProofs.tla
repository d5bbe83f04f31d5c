--------------------------- MODULE ResultsProofs ---------------------------
(***************************************************************************)
(* What becomes of a result in Engine: it is final, only results are       *)
(* acknowledged, and a task is marked queued only for an attempt that was  *)
(* inserted; and what becomes of slots: they come back.                    *)
(*                                                                         *)
(* All four rest on who holds an attempt while it is in which state: a     *)
(* busy worker's is running, and whoever is in NextAttemptForTask with an  *)
(* attempt has a finished one.  The leases of EngineProofs make the busy   *)
(* worker's attempt his alone.  A cleaner takes attempts from under both.  *)
(***************************************************************************)
EXTENDS EngineProofs

\* NextAttemptForTask and NewAttempt, from the first read to the acknowledgement.
HandlingSteps == {"read", "apply", "lookup", "purge", "insert", "mark", "ack"}

Running == \A w \in Worker : Busy(w) => attempts[proc[w].a].status = "running"

Handled ==
  \A p \in Proc : proc[p].pc \in HandlingSteps /\ proc[p].a # None => Finished(proc[p].a)

MarksStored == \A p \in Proc : At(p, "mark") => Exists(proc[p].copy.current)

ResultInv == Running /\ Handled /\ MarksStored /\ AckedIsFinished /\ QueuedWasInserted

\* No attempt goes away or changes its status, only finished ones are acknowledged.
Settled ==
  \A a \in AttemptId :
    /\ Exists(a) => attempts'[a].status = attempts[a].status
    /\ Exists(a)' /\ attempts'[a].acked => Finished(a)'

\* A result is not written over.
StatusKept ==
  \A a \in AttemptId : Finished(a) => attempts'[a].status = attempts[a].status

\* No queued flag is set, and who has one keeps its attempt.
FlagsKept ==
  \A t \in TaskId : Stored(t)' /\ tasks'[t].queued =>
    Stored(t) /\ tasks[t].queued /\ tasks'[t].current = tasks[t].current
-----------------------------------------------------------------------------
(* A task has the id of an attempt, and who is about to insert one knows it. *)

NamedSteps == {"apply", "lookup", "purge", "insert"}

NamedTask(t) == Stored(t) => tasks[t].current \in AttemptId
NamedLocal(l) == l.pc \in NamedSteps => l.copy.current \in AttemptId

Named ==
  /\ \A t \in TaskId : NamedTask(t)
  /\ \A p \in Proc : NamedLocal(proc[p])

\* One process goes on, with the ids it needs, and no task loses its id.
LEMMA NamedStep ==
  ASSUME TypeInv, Named, NEW p \in Proc, NEW l, Become(p, l), NamedLocal(l),
         \A t \in TaskId : Stored(t)' => tasks'[t].current \in AttemptId
  PROVE  Named'
<1>1. \A x \in Proc : proc'[x] = IF x = p THEN l ELSE proc[x]
  BY DEF Become, TypeInv, TypeOK
<1> QED BY <1>1 DEF Named, NamedTask, NamedLocal

\* In particular one that goes on with the copy it has, or drops it.
LEMMA NamedGo ==
  ASSUME TypeInv, Named, NEW p \in Proc, NEW l, Become(p, l), UNCHANGED tasks,
         l.pc \in NamedSteps => proc[p].pc \in NamedSteps /\ l.copy = proc[p].copy
  PROVE  Named'
<1>1. NamedLocal(l) BY DEF Named, NamedLocal
<1>2. \A t \in TaskId : Stored(t)' => tasks'[t].current \in AttemptId
  BY DEF Named, NamedTask, Stored
<1> QED BY <1>1, <1>2, NamedStep

\* NewAttempt is given the id of the task.
LEMMA WantedNamed == ASSUME NEW d PROVE Wanted(d).current = d.current
BY DEF Wanted

\* The processes that write no task.
LEMMA NamedLocals ==
  ASSUME TypeInv, Named, NEW p \in Proc,
         \/ WorkerGoesOn(p) \/ (\E a \in AttemptId : Reserve(p, a))
         \/ ReadTask(p) \/ TaskGone(p) \/ Ack(p)
         \/ Purge(p) \/ Insert(p) \/ InsertDup(p)
         \/ Lookup(p) \/ RemoveAttempt(p)
         \/ \E a \in AttemptId : CleanAttempt(p, a) \/ FixAttempt(p, a)
         \/ \E t \in TaskId : FixTask(p, t) \/ DeleteAttempts(p, t)
         \/ Crash(p) \/ NewAttemptFails(p)
  PROVE  Named'
<1>0. proc[p] \in Locals BY DEF TypeInv, TypeOK
<1>1. Rest.pc = "idle" BY DEF Rest
<1>2. AfterNewAttempt(p).pc \in {"idle", "ack"} BY DEF AfterNewAttempt, Rest
<1>3. \A step : /\ [proc[p] EXCEPT !.pc = step].pc = step
                /\ [proc[p] EXCEPT !.pc = step].copy = proc[p].copy
  BY <1>0 DEF Locals
<1>4. CASE WorkerGoesOn(p) \/ \E a \in AttemptId : Reserve(p, a)
  <2>1. UNCHANGED tasks
    BY <1>4 DEF WorkerGoesOn, Reserve, GiveUp, EnQueueCount, EnQueueAdmit, EnQueueFull,
                Execute, Reject, DeQueue, Finish, FinishGone
  <2>2. \A a, t : [proc[p] EXCEPT !.pc = "count", !.a = a, !.t = t].pc = "count"
    BY <1>0 DEF Locals
  <2>3. \A r : [proc[p] EXCEPT !.pc = "dequeue", !.out = r].pc = "dequeue"
    BY <1>0 DEF Locals
  <2>4. \A f : [Rest EXCEPT !.full = f].pc = "idle" BY DEF Rest
  <2>5. CASE \E a \in AttemptId : Reserve(p, a)
    BY <2>1, <2>2, <2>5, NamedGo DEF Reserve, NamedSteps
  <2>6. CASE \E result \in {"success", "error"} : Execute(p, result)
    BY <2>1, <2>3, <2>6, NamedGo DEF Execute, NamedSteps
  <2>7. CASE GiveUp(p) \/ EnQueueFull(p) \/ Reject(p) \/ FinishGone(p)
    BY <1>1, <2>1, <2>4, <2>7, NamedGo DEF GiveUp, EnQueueFull, Reject, FinishGone, NamedSteps
  <2>8. CASE EnQueueCount(p) \/ EnQueueAdmit(p) \/ DeQueue(p) \/ Finish(p)
    <3>1. PICK step \in {"http", "push", "finish", "read"} :
            Become(p, [proc[p] EXCEPT !.pc = step])
      BY <2>8 DEF EnQueueCount, EnQueueAdmit, DeQueue, Finish, Goto
    <3> QED BY <1>3, <2>1, <3>1, NamedGo DEF NamedSteps
  <2> QED BY <1>4, <2>5, <2>6, <2>7, <2>8 DEF WorkerGoesOn
<1>5. CASE ReadTask(p)
  <2> DEFINE l == [proc[p] EXCEPT !.pc = "apply", !.copy = CopyOf(tasks[proc[p].t])]
  <2>1. Become(p, l) /\ UNCHANGED tasks /\ Stored(proc[p].t) BY <1>5 DEF ReadTask
  <2>2. l.copy.current \in AttemptId
    BY <1>0, <2>1 DEF Named, NamedTask, Stored, Locals, CopyOf
  <2> HIDE DEF l
  <2>3. NamedLocal(l) BY <2>2 DEF NamedLocal
  <2>4. \A t \in TaskId : Stored(t)' => tasks'[t].current \in AttemptId
    BY <2>1 DEF Named, NamedTask, Stored
  <2> QED BY <2>1, <2>3, <2>4, NamedStep
<1>6. CASE TaskGone(p) \/ Ack(p) \/ RemoveAttempt(p) \/ Crash(p)
  BY <1>1, <1>6, NamedGo DEF TaskGone, Ack, RemoveAttempt, Crash, NamedSteps
<1>7. CASE InsertDup(p) \/ NewAttemptFails(p)
  BY <1>2, <1>7, NamedGo DEF InsertDup, NewAttemptFails, NamedSteps
<1>8. CASE Purge(p) \/ Insert(p) \/ Lookup(p)
  <2>1. UNCHANGED tasks /\ proc[p].pc \in NamedSteps
    BY <1>8 DEF Purge, Insert, Lookup, At, NamedSteps
  <2>2. \/ Become(p, Rest) \/ Become(p, AfterNewAttempt(p))
        \/ \E step : Become(p, [proc[p] EXCEPT !.pc = step])
    BY <1>8 DEF Purge, Insert, Lookup, Goto
  <2> QED BY <1>1, <1>2, <1>3, <2>1, <2>2, NamedGo DEF NamedSteps
<1>9. ASSUME NEW a \in AttemptId, CleanAttempt(p, a) \/ FixAttempt(p, a) PROVE Named'
  <2>1. \A t, out : /\ [Rest EXCEPT !.pc = "read", !.a = a, !.t = t, !.out = out].pc = "read"
                    /\ [Rest EXCEPT !.pc = "remove", !.a = a].pc = "remove"
    BY DEF Rest
  <2> QED BY <1>9, <2>1, NamedGo DEF CleanAttempt, FixAttempt, NamedSteps
<1>10. ASSUME NEW t \in TaskId, FixTask(p, t) PROVE Named'
  <2> DEFINE l == [Rest EXCEPT !.pc = "lookup", !.t = t, !.copy = Wanted(tasks[t])]
  <2>1. Become(p, l) /\ UNCHANGED tasks /\ Stored(t) BY <1>10 DEF FixTask
  <2>2. l.copy.current \in AttemptId BY <2>1, WantedNamed DEF Named, NamedTask, Rest
  <2> HIDE DEF l
  <2>3. NamedLocal(l) BY <2>2 DEF NamedLocal
  <2>4. \A u \in TaskId : Stored(u)' => tasks'[u].current \in AttemptId
    BY <2>1 DEF Named, NamedTask, Stored
  <2> QED BY <2>1, <2>3, <2>4, NamedStep
<1>11. ASSUME NEW t \in TaskId, DeleteAttempts(p, t) PROVE Named'
  <2>1. [Rest EXCEPT !.pc = "delete", !.t = t].pc = "delete" BY DEF Rest
  <2> QED BY <1>11, <2>1, NamedGo DEF DeleteAttempts, NamedSteps
<1> QED BY <1>4, <1>5, <1>6, <1>7, <1>8, <1>9, <1>10, <1>11

\* The processes that write a task.
LEMMA NamedTasks ==
  ASSUME TypeInv, Named, NEW p \in Proc,
         \/ Apply(p) \/ Mark(p) \/ DeleteTask(p)
         \/ \E t \in TaskId : \E schedule \in Schedules, active \in Actives :
              PutNew(p, t, schedule, active) \/ PutAgain(p, t, schedule, active)
  PROVE  Named'
<1>0. proc[p] \in Locals BY DEF TypeInv, TypeOK
<1>1. Rest.pc = "idle" BY DEF Rest
<1>2. CASE Apply(p)
  <2> DEFINE t == proc[p].t
             latest == proc[p].copy.current = proc[p].a
             next == [tasks[t] EXCEPT
                        !.active = StaysActive(proc[p].copy, proc[p].out),
                        !.retry = @ + RetryIncrement(proc[p].copy, proc[p].out),
                        !.current = IF latest THEN Fresh ELSE proc[p].copy.current,
                        !.queued = FALSE]
             l == [Rest EXCEPT !.pc = IF latest THEN "purge" ELSE "ack",
                               !.a = proc[p].a, !.t = t,
                               !.copy = IF latest THEN Wanted(next) ELSE NoCopy]
  <2>1. /\ t \in TaskId /\ tasks' = [tasks EXCEPT ![t] = next]
        /\ Become(p, l) /\ (latest => Unused # {}) /\ proc[p].pc = "apply"
    BY <1>2 DEF Apply, Stored, At
  <2>2. next.current = IF latest THEN Fresh ELSE proc[p].copy.current
    BY <2>1 DEF TypeInv, TypeOK, TaskDocs
  <2>3. next.current \in AttemptId
    BY <2>1, <2>2, FreshTyped DEF Named, NamedLocal, NamedSteps
  <2>4. l.pc = "purge" => l.copy.current = next.current BY WantedNamed DEF Rest
  <2>5. l.pc \in {"purge", "ack"} BY DEF Rest
  <2> HIDE DEF next, l
  <2>6. NamedLocal(l) BY <2>3, <2>4, <2>5 DEF NamedLocal, NamedSteps
  <2>7. \A u \in TaskId : Stored(u)' => tasks'[u].current \in AttemptId
    BY <2>1, <2>3 DEF Named, NamedTask, Stored, TypeInv, TypeOK
  <2> QED BY <2>1, <2>6, <2>7, NamedStep
<1>3. CASE Mark(p) \/ DeleteTask(p)
  <2>1. Become(p, AfterNewAttempt(p)) \/ Become(p, Rest) BY <1>3 DEF Mark, DeleteTask
  <2>2. AfterNewAttempt(p).pc \in {"idle", "ack"} BY DEF AfterNewAttempt, Rest
  <2>3. NamedLocal(Rest) /\ NamedLocal(AfterNewAttempt(p))
    BY <1>1, <2>2 DEF NamedLocal, NamedSteps
  <2>4. \A u \in TaskId : /\ tasks'[u].state = tasks[u].state
                          /\ tasks'[u].current = tasks[u].current
    BY <1>3 DEF Mark, DeleteTask, TypeInv, TypeOK, TaskDocs
  <2>5. \A u \in TaskId : Stored(u)' => tasks'[u].current \in AttemptId
    BY <2>4 DEF Named, NamedTask, Stored
  <2> QED BY <2>1, <2>3, <2>5, NamedStep
<1>4. ASSUME NEW t \in TaskId, NEW schedule \in Schedules, NEW active \in Actives,
             PutNew(p, t, schedule, active) \/ PutAgain(p, t, schedule, active)
      PROVE  Named'
  <2> DEFINE new == PutDoc(schedule, active)
             l(step) == [Rest EXCEPT !.pc = step, !.t = t, !.copy = Wanted(new)]
  <2>1. /\ Unused # {} /\ tasks' = [tasks EXCEPT ![t] = new]
        /\ Become(p, Rest) \/ \E step : Become(p, l(step))
    BY <1>4 DEF PutNew, PutAgain
  <2>2. new.current \in AttemptId BY <2>1, FreshTyped DEF PutDoc, NoTask
  <2>3. \A step : l(step).copy.current = new.current BY WantedNamed DEF Rest
  <2> HIDE DEF new, l
  <2>4. NamedLocal(Rest) /\ \A step : NamedLocal(l(step))
    BY <1>1, <2>2, <2>3 DEF NamedLocal, NamedSteps
  <2>5. \A u \in TaskId : Stored(u)' => tasks'[u].current \in AttemptId
    BY <2>1, <2>2 DEF Named, NamedTask, Stored, TypeInv, TypeOK
  <2> QED BY <2>1, <2>4, <2>5, NamedStep
<1> QED BY <1>2, <1>3, <1>4

\* Every step keeps the ids.
LEMMA NamedNext == ASSUME TypeInv, Named, [Next]_vars PROVE Named'
<1>1. ASSUME NEW p \in Proc, GoesOn(p) PROVE Named'
  BY <1>1, NamedLocals, NamedTasks DEF GoesOn
<1>2. ASSUME NEW p \in Proc, Crash(p) \/ NewAttemptFails(p) PROVE Named'
  BY <1>2, NamedLocals
<1>3. ASSUME NEW w \in Worker, NEW a \in AttemptId, Reserve(w, a) PROVE Named'
  BY <1>3, NamedLocals DEF Proc
<1>4. ASSUME NEW c \in Client, ClientStep(c) PROVE Named'
  <2> c \in Proc BY DEF Proc
  <2>1. ASSUME NEW t \in TaskId, ForceAttempt(c, t) PROVE Named'
    <3>1. /\ Unused # {} /\ UNCHANGED proc
          /\ tasks' = [tasks EXCEPT ![t].current = Fresh, ![t].queued = FALSE]
      BY <2>1 DEF ForceAttempt
    <3>2. \A u \in TaskId : /\ tasks'[u].state = tasks[u].state
                            /\ tasks'[u].current \in {Fresh, tasks[u].current}
      BY <3>1 DEF TypeInv, TypeOK, TaskDocs
    <3> QED BY <3>1, <3>2, FreshTyped DEF Named, NamedTask, NamedLocal, Stored
  <2> QED BY <1>4, <2>1, NamedLocals, NamedTasks DEF ClientStep
<1>5. ASSUME NEW f \in Fixer, \/ \E t \in TaskId : FixTask(f, t)
                              \/ \E a \in AttemptId : FixAttempt(f, a)
      PROVE  Named'
  BY <1>5, NamedLocals DEF Proc
<1>6. ASSUME NEW k \in Cleaner, NEW a \in AttemptId, CleanAttempt(k, a) PROVE Named'
  BY <1>6, NamedLocals DEF Proc
<1>7. ASSUME NEW t \in TaskId, CleanTask(t) PROVE Named'
  <2>1. UNCHANGED proc /\ tasks' = [tasks EXCEPT ![t] = NoTask("removed")]
    BY <1>7 DEF CleanTask
  <2>2. NoTask("removed").state # "stored" BY DEF NoTask
  <2> HIDE DEF NoTask
  <2>3. \A u \in TaskId : Stored(u)' => tasks'[u] = tasks[u] /\ Stored(u)
    BY <2>1, <2>2 DEF Stored, TypeInv, TypeOK
  <2> QED BY <2>1, <2>3 DEF Named, NamedTask, NamedLocal
<1>8. ASSUME UNCHANGED <<tasks, proc>> PROVE Named'
  BY <1>8 DEF Named, NamedTask, NamedLocal, Stored
<1>9. ASSUME \/ \E a \in AttemptId : CleanFinished(a) \/ Due(a)
             \/ UNCHANGED vars
      PROVE  UNCHANGED <<tasks, proc>>
  BY <1>9 DEF CleanFinished, Due, vars
<1> QED BY <1>1, <1>2, <1>3, <1>4, <1>5, <1>6, <1>7, <1>8, <1>9 DEF Next
-----------------------------------------------------------------------------
\* Without a write to the attempts.
LEMMA SettledUnchanged == ASSUME ResultInv, UNCHANGED attempts PROVE Settled
BY DEF Settled, ResultInv, AckedIsFinished, Exists, Finished

\* Flags that are kept are right.
LEMMA FlagsRight ==
  ASSUME ResultInv, Settled, FlagsKept PROVE QueuedWasInserted'
<1> SUFFICES ASSUME NEW t \in TaskId, Stored(t)', tasks'[t].queued
             PROVE  Exists(tasks[t].current)'
  BY DEF QueuedWasInserted
<1>1. Exists(tasks[t].current) /\ tasks'[t].current = tasks[t].current
  BY DEF FlagsKept, ResultInv, QueuedWasInserted
<1> QED BY <1>1 DEF Settled, Exists

\* Without a write to the tasks.
LEMMA FlagsUnchanged == ASSUME UNCHANGED tasks PROVE FlagsKept
BY DEF FlagsKept, Stored

\* One process goes on, and no attempt changes its status.
LEMMA SettledStep ==
  ASSUME TypeInv, ResultInv, NEW p \in Proc, NEW l, Become(p, l), Settled, QueuedWasInserted',
         l.pc \in BusySteps => proc[p].pc \in BusySteps /\ l.a = proc[p].a,
         l.pc \in HandlingSteps /\ l.a # None => Finished(l.a)',
         l.pc = "mark" => Exists(l.copy.current)'
  PROVE  ResultInv' /\ StatusKept
<1> USE DEF ResultInv
<1>1. \A x \in Proc : proc'[x] = IF x = p THEN l ELSE proc[x]
  BY DEF Become, TypeInv, TypeOK
<1>2. Running'
  <2> SUFFICES ASSUME NEW w \in Worker, Busy(w)' PROVE attempts'[proc'[w].a].status = "running"
    BY DEF Running
  <2>1. w \in Proc BY DEF Proc
  <2>2. Busy(w) /\ proc'[w].a = proc[w].a BY <1>1, <2>1 DEF Busy
  <2>3. proc[w].a \in AttemptId /\ attempts[proc[w].a].status = "running"
    BY <2>1, <2>2 DEF Running, Busy, TypeInv, GoodLocals, Good
  <2> QED BY <2>2, <2>3 DEF Settled, Exists
<1>3. Handled'
  <2> SUFFICES ASSUME NEW x \in Proc, proc'[x].pc \in HandlingSteps, proc'[x].a # None
               PROVE  Finished(proc[x].a)'
    BY DEF Handled
  <2>1. CASE x = p BY <1>1, <2>1
  <2>2. CASE x # p
    <3>1. proc'[x] = proc[x] /\ Finished(proc[x].a) BY <1>1, <2>2 DEF Handled
    <3> QED BY <3>1 DEF Settled, Exists, Finished
  <2> QED BY <2>1, <2>2
<1>4. MarksStored'
  <2> SUFFICES ASSUME NEW x \in Proc, At(x, "mark")' PROVE Exists(proc[x].copy.current)'
    BY DEF MarksStored
  <2>1. CASE x = p BY <1>1, <2>1 DEF At
  <2>2. CASE x # p
    <3>1. proc'[x] = proc[x] /\ Exists(proc[x].copy.current)
      BY <1>1, <2>2 DEF MarksStored, At
    <3> QED BY <3>1 DEF Settled, Exists
  <2> QED BY <2>1, <2>2
<1>5. AckedIsFinished' BY DEF AckedIsFinished, Settled
<1>6. StatusKept BY DEF StatusKept, Settled, Exists, Finished
<1> QED BY <1>2, <1>3, <1>4, <1>5, <1>6

\* In particular when it has no attempt at hand that it had not before.
LEMMA GoStep ==
  ASSUME TypeInv, ResultInv, NEW p \in Proc, NEW l, Become(p, l), Settled, FlagsKept,
         l.pc \in BusySteps => proc[p].pc \in BusySteps /\ l.a = proc[p].a,
         l.pc \in HandlingSteps /\ l.a # None =>
           proc[p].pc \in HandlingSteps /\ l.a = proc[p].a,
         l.pc = "mark" => Exists(l.copy.current)'
  PROVE  ResultInv' /\ StatusKept
<1>1. QueuedWasInserted' BY FlagsRight
<1>2. l.pc \in HandlingSteps /\ l.a # None => Finished(l.a)
  BY DEF ResultInv, Handled
<1>3. l.pc \in HandlingSteps /\ l.a # None => Finished(l.a)'
  BY <1>2 DEF Settled, Exists, Finished
<1> QED BY <1>1, <1>3, SettledStep

\* Or the next step of the same function, with nothing written.
LEMMA QuietGo ==
  ASSUME TypeInv, ResultInv, NEW p \in Proc, NEW l, Become(p, l),
         UNCHANGED <<tasks, attempts>>,
         l.pc \in BusySteps => proc[p].pc \in BusySteps /\ l.a = proc[p].a,
         l.pc \in HandlingSteps /\ l.a # None =>
           proc[p].pc \in HandlingSteps /\ l.a = proc[p].a,
         l.pc # "mark"
  PROVE  ResultInv' /\ StatusKept
BY SettledUnchanged, FlagsUnchanged, GoStep
-----------------------------------------------------------------------------
(* The two steps that change a status *)

\* A lease finds no attempt that is finished, or another worker's.
LEMMA ReserveResult ==
  ASSUME LimitInv, ResultInv, NEW w \in Worker, NEW a \in AttemptId, Reserve(w, a)
  PROVE  ResultInv' /\ StatusKept
<1> USE DEF LimitInv, TypeInv, TypeOK, ResultInv
<1>0. w \in Proc /\ proc[w] \in Locals BY DEF Proc
<1>1. attempts' = [attempts EXCEPT ![a].status = "running", ![a].due = FALSE]
  BY DEF Reserve
<1>2. InPlay(a) /\ attempts[a].due BY DEF Reserve, Ready
<1>3. proc' = [proc EXCEPT ![w] =
                 [proc[w] EXCEPT !.pc = "count", !.a = a, !.t = attempts[a].task]]
  BY DEF Reserve, Become
<1>4. \A x \in Proc : x # w => proc'[x] = proc[x] BY <1>3
<1>5. proc'[w].a = a /\ proc'[w].pc = "count" BY <1>0, <1>3 DEF Locals
<1>6. \A b \in AttemptId : b # a => attempts'[b] = attempts[b] BY <1>1
<1>7. attempts'[a].status = "running" /\ attempts'[a].acked = attempts[a].acked
  BY <1>1 DEF AttemptDocs
<1>8. ~Finished(a) /\ Exists(a) BY <1>2 DEF Finished, InPlay, Exists
<1>9. \A b : (Finished(b) => Finished(b)') /\ (Exists(b) => Exists(b)')
  BY <1>6, <1>7, <1>8 DEF Finished, Exists
<1>10. Running'
  <2> SUFFICES ASSUME NEW v \in Worker, Busy(v)' PROVE attempts'[proc'[v].a].status = "running"
    BY DEF Running
  <2>1. CASE v = w BY <1>5, <1>7, <2>1
  <2>2. CASE v # w
    <3>1. v \in Proc /\ proc'[v] = proc[v] BY <1>4, <2>2 DEF Proc
    <3>2. Busy(v) BY <3>1 DEF Busy
    <3>3. proc[v].a \in AttemptId BY <3>1, <3>2 DEF Busy, GoodLocals, Good
    <3> QED BY <1>6, <1>7, <3>1, <3>2, <3>3 DEF Running
  <2> QED BY <2>1, <2>2
<1>11. Handled'
  <2> SUFFICES ASSUME NEW x \in Proc, proc'[x].pc \in HandlingSteps, proc'[x].a # None
               PROVE  Finished(proc[x].a)'
    BY DEF Handled
  <2>1. x # w BY <1>5 DEF HandlingSteps
  <2>2. proc'[x] = proc[x] /\ Finished(proc[x].a) BY <1>4, <2>1 DEF Handled
  <2> QED BY <1>9, <2>2
<1>12. MarksStored'
  <2> SUFFICES ASSUME NEW x \in Proc, At(x, "mark")' PROVE Exists(proc[x].copy.current)'
    BY DEF MarksStored
  <2>1. x # w BY <1>5 DEF At
  <2>2. proc'[x] = proc[x] /\ Exists(proc[x].copy.current) BY <1>4, <2>1 DEF MarksStored, At
  <2> QED BY <1>9, <2>2
<1>13. AckedIsFinished'
  <2>1. ~attempts[a].acked BY <1>8 DEF AckedIsFinished
  <2> QED BY <1>6, <1>7, <2>1 DEF AckedIsFinished, Exists, Finished
<1>14. QueuedWasInserted'
  <2>1. tasks' = tasks BY DEF Reserve
  <2> QED BY <1>9, <2>1 DEF QueuedWasInserted, Stored
<1>15. StatusKept BY <1>6, <1>8 DEF StatusKept
<1> QED BY <1>10, <1>11, <1>12, <1>13, <1>14, <1>15

\* A result goes to the running attempt of its worker, which is nobody else's.
LEMMA FinishResult ==
  ASSUME LimitInv, ResultInv, NEW w \in Worker, Finish(w)
  PROVE  ResultInv' /\ StatusKept
<1> USE DEF LimitInv, TypeInv, TypeOK, ResultInv
<1>a. PICK a : a = proc[w].a OBVIOUS
<1>0. w \in Proc /\ proc[w] \in Locals /\ Good(proc[w]) BY DEF Proc, GoodLocals
<1>1. proc[w].pc = "finish" /\ Busy(w) BY DEF Finish, At, Busy, BusySteps
<1>2. attempts' = [attempts EXCEPT ![a].status = proc[w].out] /\ a \in AttemptId
  BY <1>a DEF Finish, Exists
<1>3. proc[w].out \in {"success", "error"} BY <1>0, <1>1 DEF Good
<1>4. proc' = [proc EXCEPT ![w] = [proc[w] EXCEPT !.pc = "read"]]
  BY DEF Finish, Goto, Become
<1>5. \A x \in Proc : x # w => proc'[x] = proc[x] BY <1>4
<1>6. proc'[w].a = a /\ proc'[w].pc = "read" BY <1>a, <1>0, <1>4 DEF Locals
<1>7. \A b \in AttemptId : b # a => attempts'[b] = attempts[b] BY <1>2
<1>8. attempts'[a].status \in {"success", "error"} BY <1>2, <1>3 DEF AttemptDocs
<1>9. attempts[a].status = "running" BY <1>a, <1>1 DEF Running
<1>10. \A b : (Finished(b) => Finished(b)') /\ (Exists(b) => Exists(b)')
  BY <1>7, <1>8 DEF Finished, Exists
<1>11. Finished(a)' BY <1>2, <1>8 DEF Finished
<1>12. Running'
  <2> SUFFICES ASSUME NEW v \in Worker, Busy(v)' PROVE attempts'[proc'[v].a].status = "running"
    BY DEF Running
  <2>1. v # w BY <1>6 DEF Busy, BusySteps
  <2>2. v \in Proc /\ proc'[v] = proc[v] /\ Busy(v) BY <1>5, <2>1 DEF Proc, Busy
  <2>3. proc[v].a # a BY <1>a, <1>1, <2>1, <2>2 DEF Leases
  <2>4. proc[v].a \in AttemptId BY <2>2 DEF Busy, GoodLocals, Good
  <2> QED BY <1>7, <2>2, <2>3, <2>4 DEF Running
<1>13. Handled'
  <2> SUFFICES ASSUME NEW x \in Proc, proc'[x].pc \in HandlingSteps, proc'[x].a # None
               PROVE  Finished(proc[x].a)'
    BY DEF Handled
  <2>1. CASE x = w BY <1>6, <1>11, <2>1 DEF Finished
  <2>2. CASE x # w
    <3>1. proc'[x] = proc[x] /\ Finished(proc[x].a) BY <1>5, <2>2 DEF Handled
    <3> QED BY <1>10, <3>1
  <2> QED BY <2>1, <2>2
<1>14. MarksStored'
  <2> SUFFICES ASSUME NEW x \in Proc, At(x, "mark")' PROVE Exists(proc[x].copy.current)'
    BY DEF MarksStored
  <2>1. x # w BY <1>6 DEF At
  <2>2. proc'[x] = proc[x] /\ Exists(proc[x].copy.current) BY <1>5, <2>1 DEF MarksStored, At
  <2> QED BY <1>10, <2>2
<1>15. AckedIsFinished' BY <1>7, <1>11 DEF AckedIsFinished, Exists, Finished
<1>16. QueuedWasInserted'
  <2>1. tasks' = tasks BY DEF Finish
  <2> QED BY <1>10, <2>1 DEF QueuedWasInserted, Stored
<1>17. StatusKept BY <1>7, <1>9 DEF StatusKept, Finished
<1> QED BY <1>12, <1>13, <1>14, <1>15, <1>16, <1>17
-----------------------------------------------------------------------------
(* The steps that leave every status alone *)

\* Where a process goes after NewAttempt.
LEMMA AfterKeeps ==
  ASSUME NEW p \in Proc
  PROVE  /\ AfterNewAttempt(p).pc \in {"idle", "ack"}
         /\ AfterNewAttempt(p).a \in {None, proc[p].a}
BY DEF AfterNewAttempt, Rest

\* A worker with its attempt, from the slot to the result.
LEMMA WorkerResult ==
  ASSUME TypeInv, ResultInv, NEW w \in Worker,
         \/ GiveUp(w) \/ EnQueueCount(w) \/ EnQueueAdmit(w) \/ EnQueueFull(w)
         \/ \E result \in {"success", "error"} : Execute(w, result)
         \/ Reject(w) \/ DeQueue(w) \/ FinishGone(w)
  PROVE  ResultInv' /\ StatusKept
<1>0. w \in Proc /\ proc[w] \in Locals BY DEF Proc, TypeInv, TypeOK
<1>1. UNCHANGED <<tasks, attempts>>
  BY DEF GiveUp, EnQueueCount, EnQueueAdmit, EnQueueFull, Execute, Reject, DeQueue, FinishGone
<1>2. CASE GiveUp(w) \/ Reject(w) \/ FinishGone(w) \/ EnQueueFull(w)
  <2>1. Rest.pc = "idle" /\ \A f : [Rest EXCEPT !.full = f].pc = "idle" BY DEF Rest
  <2>2. \E l : Become(w, l) /\ l.pc = "idle"
    BY <1>2, <2>1 DEF GiveUp, Reject, FinishGone, EnQueueFull
  <2> QED BY <1>0, <1>1, <2>2, QuietGo DEF BusySteps, HandlingSteps
<1>3. CASE EnQueueCount(w) \/ EnQueueAdmit(w) \/ DeQueue(w)
  <2>1. proc[w].pc \in BusySteps
    BY <1>3 DEF EnQueueCount, EnQueueAdmit, DeQueue, At, BusySteps
  <2>2. PICK step \in {"http", "push", "finish"} : Become(w, [proc[w] EXCEPT !.pc = step])
    BY <1>3 DEF EnQueueCount, EnQueueAdmit, DeQueue, Goto
  <2>3. [proc[w] EXCEPT !.pc = step].pc = step /\ [proc[w] EXCEPT !.pc = step].a = proc[w].a
    BY <1>0 DEF Locals
  <2> QED BY <1>0, <1>1, <2>1, <2>2, <2>3, QuietGo DEF HandlingSteps
<1>4. ASSUME NEW result \in {"success", "error"}, Execute(w, result)
      PROVE  ResultInv' /\ StatusKept
  <2> DEFINE l == [proc[w] EXCEPT !.pc = "dequeue", !.out = result]
  <2>1. proc[w].pc \in BusySteps /\ Become(w, l) BY <1>4 DEF Execute, At, BusySteps
  <2>2. l.pc = "dequeue" /\ l.a = proc[w].a BY <1>0 DEF Locals
  <2> HIDE DEF l
  <2> QED BY <1>0, <1>1, <2>1, <2>2, QuietGo DEF HandlingSteps
<1> QED BY <1>2, <1>3, <1>4

\* NextAttemptForTask but for its acknowledgement.
LEMMA NextAttemptResult ==
  ASSUME TypeInv, ResultInv, NEW p \in Proc, ReadTask(p) \/ TaskGone(p) \/ Apply(p)
  PROVE  ResultInv' /\ StatusKept
<1>0. proc[p] \in Locals BY DEF TypeInv, TypeOK
<1>1. CASE ReadTask(p)
  <2> DEFINE l == [proc[p] EXCEPT !.pc = "apply", !.copy = CopyOf(tasks[proc[p].t])]
  <2>1. /\ Become(p, l) /\ UNCHANGED <<tasks, attempts>> /\ proc[p].pc \in HandlingSteps
    BY <1>1 DEF ReadTask, At, HandlingSteps
  <2>2. l.pc = "apply" /\ l.a = proc[p].a BY <1>0 DEF Locals
  <2> HIDE DEF l
  <2> QED BY <2>1, <2>2, QuietGo DEF BusySteps
<1>2. CASE TaskGone(p)
  <2>1. Rest.pc = "idle" BY DEF Rest
  <2> QED BY <1>2, <2>1, QuietGo DEF TaskGone, BusySteps, HandlingSteps
<1>3. CASE Apply(p)
  <2> DEFINE t == proc[p].t
             latest == proc[p].copy.current = proc[p].a
             next == [tasks[t] EXCEPT
                        !.active = StaysActive(proc[p].copy, proc[p].out),
                        !.retry = @ + RetryIncrement(proc[p].copy, proc[p].out),
                        !.current = IF latest THEN Fresh ELSE proc[p].copy.current,
                        !.queued = FALSE]
             l == [Rest EXCEPT !.pc = IF latest THEN "purge" ELSE "ack",
                               !.a = proc[p].a, !.t = t,
                               !.copy = IF latest THEN Wanted(next) ELSE NoCopy]
  <2>1. /\ t \in TaskId /\ tasks' = [tasks EXCEPT ![t] = next]
        /\ Become(p, l) /\ UNCHANGED attempts /\ proc[p].pc \in HandlingSteps
    BY <1>3 DEF Apply, Stored, At, HandlingSteps
  <2>2. next.queued = FALSE BY <2>1 DEF TypeInv, TypeOK, TaskDocs
  <2>3. l.pc \in {"purge", "ack"} /\ l.a = proc[p].a BY DEF Rest
  <2> HIDE DEF next, l
  <2>4. FlagsKept BY <2>1, <2>2 DEF FlagsKept, Stored, TypeInv, TypeOK
  <2>5. Settled BY <2>1, SettledUnchanged
  <2> QED BY <2>1, <2>3, <2>4, <2>5, GoStep DEF BusySteps
<1> QED BY <1>1, <1>2, <1>3

\* The acknowledgement is of a finished attempt.
LEMMA AckResult ==
  ASSUME TypeInv, ResultInv, NEW p \in Proc, Ack(p) PROVE ResultInv' /\ StatusKept
<1>1. /\ proc[p].pc = "ack" /\ Become(p, Rest) /\ UNCHANGED tasks
      /\ attempts' = IF Exists(proc[p].a) THEN [attempts EXCEPT ![proc[p].a].acked = TRUE]
                     ELSE attempts
  BY DEF Ack, At
<1>2. Exists(proc[p].a) => Finished(proc[p].a)
  BY <1>1, EngineAssumption DEF ResultInv, Handled, HandlingSteps, Exists
<1>3. \A a \in AttemptId :
        /\ attempts'[a].status = attempts[a].status
        /\ attempts'[a].acked => attempts[a].acked \/ Finished(a)
  BY <1>1, <1>2 DEF TypeInv, TypeOK, AttemptDocs
<1>4. Settled BY <1>3 DEF Settled, ResultInv, AckedIsFinished, Exists, Finished
<1>5. Rest.pc = "idle" BY DEF Rest
<1> QED BY <1>1, <1>4, <1>5, FlagsUnchanged, GoStep DEF BusySteps, HandlingSteps

\* NewAttempt.
LEMMA NewAttemptResult ==
  ASSUME TypeInv, ResultInv, Named, NEW p \in Proc,
         Purge(p) \/ Insert(p) \/ InsertDup(p) \/ Mark(p)
  PROVE  ResultInv' /\ StatusKept
<1>0. proc[p] \in Locals BY DEF TypeInv, TypeOK
<1>a. PICK after : after = AfterNewAttempt(p) OBVIOUS
<1> DEFINE on(step) == [proc[p] EXCEPT !.pc = step]
<1>1. after.pc \in {"idle", "ack"} /\ after.a \in {None, proc[p].a} BY <1>a, AfterKeeps
<1>2. \A step : /\ on(step).pc = step /\ on(step).a = proc[p].a
                /\ on(step).copy = proc[p].copy
  BY <1>0 DEF Locals
<1>3. proc[p].pc \in HandlingSteps
  BY DEF Purge, Insert, InsertDup, Mark, At, HandlingSteps
<1> HIDE DEF on
<1>4. CASE Purge(p)
  <2>1. attempts' = [a \in AttemptId |->
          IF attempts[a].task = proc[p].t /\ attempts[a].status = "pending"
          THEN [attempts[a] EXCEPT !.deleted = TRUE] ELSE attempts[a]]
    BY <1>4 DEF Purge
  <2>2. \A a \in AttemptId : /\ attempts'[a].status = attempts[a].status
                             /\ attempts'[a].acked = attempts[a].acked
    BY <2>1 DEF TypeInv, TypeOK, AttemptDocs
  <2>3. Settled BY <2>2 DEF Settled, ResultInv, AckedIsFinished, Exists, Finished
  <2>4. FlagsKept BY <1>4, FlagsUnchanged DEF Purge
  <2>5. Become(p, on("insert")) \/ Become(p, after)
    BY <1>a, <1>4 DEF Purge, Goto, on
  <2> QED BY <1>1, <1>2, <1>3, <2>3, <2>4, <2>5, GoStep DEF BusySteps
<1>5. CASE Insert(p)
  <2> DEFINE new == proc[p].copy.current
             doc == [NoAttempt EXCEPT !.status = "pending", !.task = proc[p].t]
  <2>a. PICK l : l = on("mark") OBVIOUS
  <2>b. l.pc = "mark" /\ l.a = proc[p].a /\ l.copy.current = new BY <1>2, <2>a
  <2>1. /\ ~Exists(new) /\ attempts' = [attempts EXCEPT ![new] = doc]
        /\ Become(p, l) /\ UNCHANGED tasks
    BY <1>5, <2>a DEF Insert, Goto, on
  <2>2. doc.status = "pending" /\ doc.acked = FALSE BY DEF NoAttempt
  <2> HIDE DEF doc
  <2>3. \A a \in AttemptId : attempts'[a] = IF a = new THEN doc ELSE attempts[a]
    BY <2>1 DEF TypeInv, TypeOK
  <2>4. Settled BY <2>1, <2>2, <2>3 DEF Settled, ResultInv, AckedIsFinished, Exists, Finished
  <2>5. new \in AttemptId
    BY <1>5 DEF Insert, At, Named, NamedLocal, NamedSteps
  <2>c. PICK id : id = new OBVIOUS
  <2>6. Exists(id)' BY <2>2, <2>3, <2>5, <2>c DEF Exists
  <2>7. Exists(l.copy.current)' BY <2>6, <2>b, <2>c
  <2> QED BY <1>3, <2>1, <2>4, <2>7, <2>b, FlagsUnchanged, GoStep DEF BusySteps
<1>6. CASE InsertDup(p)
  BY <1>a, <1>1, <1>3, <1>6, QuietGo DEF InsertDup, BusySteps
<1>7. CASE Mark(p)
  <2>1. /\ tasks' = [t \in TaskId |->
             IF t = proc[p].t /\ Stored(t) /\ tasks[t].current = proc[p].copy.current
             THEN [tasks[t] EXCEPT !.queued = TRUE] ELSE tasks[t]]
        /\ UNCHANGED attempts /\ Become(p, after) /\ At(p, "mark")
    BY <1>a, <1>7 DEF Mark
  <2>2. Exists(proc[p].copy.current) BY <2>1 DEF ResultInv, MarksStored
  <2>3. \A t \in TaskId : /\ Stored(t)' => Stored(t)
                          /\ tasks'[t].current = tasks[t].current
                          /\ tasks'[t].queued =>
                               tasks[t].queued \/ tasks[t].current = proc[p].copy.current
    BY <2>1 DEF Stored, TypeInv, TypeOK, TaskDocs
  <2>4. QueuedWasInserted'
    BY <2>1, <2>2, <2>3 DEF ResultInv, QueuedWasInserted, Stored, Exists
  <2>5. Settled BY <2>1, SettledUnchanged
  <2>6. after.pc \in HandlingSteps /\ after.a # None => Finished(after.a)
    BY <1>1, <1>3 DEF ResultInv, Handled
  <2>7. after.pc \in HandlingSteps /\ after.a # None => Finished(after.a)'
    BY <2>1, <2>6 DEF Finished
  <2> QED BY <1>1, <2>1, <2>4, <2>5, <2>7, SettledStep DEF BusySteps
<1> QED BY <1>4, <1>5, <1>6, <1>7

\* Without a move of a process.
LEMMA StillStep ==
  ASSUME ResultInv, UNCHANGED proc, FlagsKept, Settled,
         \A w \in Worker : Busy(w) => proc[w].a \in AttemptId
  PROVE  ResultInv' /\ StatusKept
<1> USE DEF ResultInv
<1>1. \A a : Exists(a) => Exists(a)' BY DEF Exists, Settled
<1>2. \A a : Finished(a) => Finished(a)' BY DEF Finished, Exists, Settled
<1>3. Running' BY DEF Running, Busy, Settled, Exists
<1>4. Handled' BY <1>2 DEF Handled
<1>5. MarksStored' BY <1>1 DEF MarksStored, At
<1>6. AckedIsFinished' BY DEF AckedIsFinished, Settled
<1>7. QueuedWasInserted' BY FlagsRight
<1>8. StatusKept BY DEF StatusKept, Settled, Exists, Finished
<1> QED BY <1>3, <1>4, <1>5, <1>6, <1>7, <1>8

\* A busy worker has an attempt.
LEMMA BusyHas == ASSUME TypeInv PROVE \A w \in Worker : Busy(w) => proc[w].a \in AttemptId
BY DEF Busy, TypeInv, GoodLocals, Good, Proc

\* The API: a PUT and a force take the flag away, a delete flags attempts and tasks.
LEMMA CallResult ==
  ASSUME TypeInv, ResultInv, NEW c \in Proc, ClientStep(c) \/ DeleteTask(c)
  PROVE  ResultInv' /\ StatusKept
<1> USE DEF TypeInv, TypeOK
<1>0. Rest.pc = "idle" /\ Rest.a = None BY DEF Rest
<1>1. ASSUME NEW t \in TaskId, NEW schedule \in Schedules, NEW active \in Actives,
             PutNew(c, t, schedule, active) \/ PutAgain(c, t, schedule, active)
      PROVE  ResultInv' /\ StatusKept
  <2> DEFINE new == PutDoc(schedule, active)
  <2>1. UNCHANGED attempts /\ tasks' = [tasks EXCEPT ![t] = new]
    BY <1>1 DEF PutNew, PutAgain
  <2>2. new.queued = FALSE BY DEF PutDoc, NoTask
  <2>3. PICK l : Become(c, l) /\ l.pc \in {"idle", "insert", "purge"} /\ l.a = None
    <3> DEFINE m(step, copy) == [Rest EXCEPT !.pc = step, !.t = t, !.copy = copy]
    <3>1. \A step, copy : m(step, copy).pc = step /\ m(step, copy).a = None BY DEF Rest
    <3>2. \/ Become(c, Rest)
          \/ \E step \in {"insert", "purge"} : \E copy : Become(c, m(step, copy))
      BY <1>1 DEF PutNew, PutAgain
    <3> HIDE DEF m
    <3> QED BY <1>0, <3>1, <3>2
  <2> HIDE DEF new
  <2>4. FlagsKept BY <2>1, <2>2 DEF FlagsKept, Stored
  <2>5. Settled BY <2>1, SettledUnchanged
  <2> QED BY <2>3, <2>4, <2>5, GoStep DEF BusySteps
<1>2. ASSUME NEW t \in TaskId, DeleteAttempts(c, t) PROVE ResultInv' /\ StatusKept
  <2> DEFINE l == [Rest EXCEPT !.pc = "delete", !.t = t]
  <2>1. /\ Become(c, l) /\ UNCHANGED tasks
        /\ attempts' = [a \in AttemptId |->
             IF Exists(a) /\ attempts[a].task \in Namesakes(t)
             THEN [attempts[a] EXCEPT !.deleted = TRUE] ELSE attempts[a]]
    BY <1>2 DEF DeleteAttempts
  <2>2. \A a \in AttemptId : /\ attempts'[a].status = attempts[a].status
                             /\ attempts'[a].acked = attempts[a].acked
    BY <2>1 DEF AttemptDocs
  <2>3. Settled BY <2>2 DEF Settled, ResultInv, AckedIsFinished, Exists, Finished
  <2>4. l.pc = "delete" BY DEF Rest
  <2> HIDE DEF l
  <2> QED BY <2>1, <2>3, <2>4, FlagsUnchanged, GoStep DEF BusySteps, HandlingSteps
<1>3. CASE DeleteTask(c)
  <2>1. /\ tasks' = [t \in TaskId |-> IF Stored(t) /\ t \in Namesakes(proc[c].t)
                                      THEN [tasks[t] EXCEPT !.deleted = TRUE] ELSE tasks[t]]
        /\ UNCHANGED attempts /\ Become(c, Rest)
    BY <1>3 DEF DeleteTask
  <2>2. FlagsKept BY <2>1 DEF FlagsKept, Stored, TaskDocs
  <2>3. Settled BY <2>1, SettledUnchanged
  <2> QED BY <1>0, <2>1, <2>2, <2>3, GoStep DEF BusySteps, HandlingSteps
<1>4. ASSUME NEW t \in TaskId, ForceAttempt(c, t) PROVE ResultInv' /\ StatusKept
  <2>1. /\ tasks' = [tasks EXCEPT ![t].current = Fresh, ![t].queued = FALSE]
        /\ UNCHANGED <<attempts, proc>>
    BY <1>4 DEF ForceAttempt
  <2>2. FlagsKept BY <2>1 DEF FlagsKept, Stored, TaskDocs
  <2>3. Settled BY <2>1, SettledUnchanged
  <2> QED BY <2>1, <2>2, <2>3, StillStep, BusyHas
<1> QED BY <1>1, <1>2, <1>3, <1>4 DEF ClientStep

\* The fixer takes up tasks and finished attempts, and a process that fails is
\* at rest or at its acknowledgement.
LEMMA RepairResult ==
  ASSUME TypeInv, ResultInv, NEW p \in Proc,
         \/ Lookup(p) \/ Crash(p) \/ NewAttemptFails(p)
         \/ \E t \in TaskId : FixTask(p, t)
         \/ \E a \in AttemptId : FixAttempt(p, a)
  PROVE  ResultInv' /\ StatusKept
<1>0. proc[p] \in Locals BY DEF TypeInv, TypeOK
<1>1. Rest.pc = "idle" /\ Rest.a = None BY DEF Rest
<1>2. CASE Lookup(p)
  <2> DEFINE l == [proc[p] EXCEPT !.pc = "purge"]
  <2>1. Become(p, Rest) \/ Become(p, l) BY <1>2 DEF Lookup, Goto
  <2>2. UNCHANGED <<tasks, attempts>> /\ proc[p].pc \in HandlingSteps
    BY <1>2 DEF Lookup, At, HandlingSteps
  <2>3. l.pc = "purge" /\ l.a = proc[p].a BY <1>0 DEF Locals
  <2>4. "purge" \notin BusySteps \cup {"mark"} /\ "idle" \notin BusySteps \cup {"mark"}
    BY DEF BusySteps
  <2>5. "idle" \notin HandlingSteps BY DEF HandlingSteps
  <2> HIDE DEF l
  <2>6. CASE Become(p, Rest) BY <1>1, <2>2, <2>4, <2>5, <2>6, QuietGo
  <2>7. CASE Become(p, l) BY <2>2, <2>3, <2>4, <2>7, QuietGo
  <2> QED BY <2>1, <2>6, <2>7
<1>3. CASE Crash(p)
  BY <1>1, <1>3, QuietGo DEF Crash, BusySteps, HandlingSteps
<1>4. CASE NewAttemptFails(p)
  <2>1. proc[p].pc \in HandlingSteps
    BY <1>4 DEF NewAttemptFails, Unacknowledged, HandlingSteps
  <2> QED BY <1>4, <2>1, AfterKeeps, QuietGo DEF NewAttemptFails, BusySteps
<1>5. ASSUME NEW t \in TaskId, FixTask(p, t) PROVE ResultInv' /\ StatusKept
  <2> DEFINE l == [Rest EXCEPT !.pc = "lookup", !.t = t, !.copy = Wanted(tasks[t])]
  <2>1. l.pc = "lookup" /\ l.a = None BY DEF Rest
  <2>2. Become(p, l) /\ UNCHANGED <<tasks, attempts>> BY <1>5 DEF FixTask
  <2> HIDE DEF l
  <2> QED BY <2>1, <2>2, QuietGo DEF BusySteps
<1>6. ASSUME NEW a \in AttemptId, FixAttempt(p, a) PROVE ResultInv' /\ StatusKept
  <2>1. PICK l : l = [Rest EXCEPT !.pc = "read", !.a = a, !.t = attempts[a].task,
                                  !.out = attempts[a].status]
    OBVIOUS
  <2>2. Become(p, l) /\ UNCHANGED <<tasks, attempts>> /\ Finished(a)
    BY <1>6, <2>1 DEF FixAttempt
  <2>3. l.pc = "read" /\ l.a = a BY <2>1 DEF Rest
  <2>4. Settled BY <2>2, SettledUnchanged
  <2>5. QueuedWasInserted' BY <2>2, <2>4, FlagsUnchanged, FlagsRight
  <2>6. Finished(l.a)' BY <2>2, <2>3 DEF Finished
  <2> QED BY <2>2, <2>3, <2>4, <2>5, <2>6, SettledStep DEF BusySteps
<1> QED BY <1>2, <1>3, <1>4, <1>5, <1>6

\* Every step but the cleaner's, by the lemmas above.
LEMMA ResultNext ==
  ASSUME NoCleaning, LimitInv, Named, ResultInv, [Next]_vars
  PROVE  ResultInv' /\ StatusKept
<1>0. TypeInv BY DEF LimitInv
<1>1. ASSUME NEW p \in Proc, GoesOn(p) PROVE ResultInv' /\ StatusKept
  <2>1. CASE p \in Worker /\ WorkerGoesOn(p)
    BY <1>0, <2>1, WorkerResult, FinishResult DEF WorkerGoesOn
  <2>2. CASE ReadTask(p) \/ TaskGone(p) \/ Apply(p) BY <1>0, <2>2, NextAttemptResult
  <2>3. CASE Ack(p) BY <1>0, <2>3, AckResult
  <2>4. CASE Purge(p) \/ Insert(p) \/ InsertDup(p) \/ Mark(p) BY <1>0, <2>4, NewAttemptResult
  <2>5. CASE DeleteTask(p) BY <1>0, <2>5, CallResult
  <2>6. CASE Lookup(p) BY <1>0, <2>6, RepairResult
  <2> QED BY <1>1, <2>1, <2>2, <2>3, <2>4, <2>5, <2>6 DEF GoesOn, NoCleaning
<1>2. ASSUME NEW p \in Proc, Crash(p) \/ NewAttemptFails(p) PROVE ResultInv' /\ StatusKept
  BY <1>0, <1>2, RepairResult
<1>3. ASSUME NEW w \in Worker, NEW a \in AttemptId, Reserve(w, a)
      PROVE  ResultInv' /\ StatusKept
  BY <1>3, ReserveResult
<1>4. ASSUME NEW c \in Client, ClientStep(c) PROVE ResultInv' /\ StatusKept
  BY <1>0, <1>4, CallResult DEF Proc
<1>5. ASSUME NEW f \in Fixer, \/ \E t \in TaskId : FixTask(f, t)
                              \/ \E a \in AttemptId : FixAttempt(f, a)
      PROVE  ResultInv' /\ StatusKept
  BY <1>0, <1>5, RepairResult DEF Proc
<1>6. /\ \A t \in TaskId : ~CleanTask(t)
      /\ \A a \in AttemptId : ~CleanFinished(a)
      /\ \A k \in Cleaner, a \in AttemptId : ~CleanAttempt(k, a)
  BY DEF NoCleaning
<1>7. ASSUME NEW a \in AttemptId, Due(a) PROVE ResultInv' /\ StatusKept
  <2>1. attempts' = [attempts EXCEPT ![a].due = TRUE] /\ UNCHANGED <<tasks, proc>>
    BY <1>7 DEF Due
  <2>2. \A b \in AttemptId : /\ attempts'[b].status = attempts[b].status
                             /\ attempts'[b].acked = attempts[b].acked
    BY <1>0, <2>1 DEF TypeInv, TypeOK, AttemptDocs
  <2>3. Settled BY <2>2 DEF Settled, ResultInv, AckedIsFinished, Exists, Finished
  <2> QED BY <1>0, <2>1, <2>3, FlagsUnchanged, StillStep, BusyHas
<1>8. CASE UNCHANGED vars
  <2>1. UNCHANGED <<tasks, attempts, proc>> BY <1>8 DEF vars
  <2> QED BY <1>0, <2>1, SettledUnchanged, FlagsUnchanged, StillStep, BusyHas
<1> QED BY <1>1, <1>2, <1>3, <1>4, <1>5, <1>6, <1>7, <1>8 DEF Next

\* Before anything happened there are no results.
LEMMA ResultInit == Init => Named /\ ResultInv
<1> SUFFICES ASSUME Init PROVE Named /\ ResultInv OBVIOUS
<1>1. \A p \in Proc : proc[p].pc = "idle" BY DEF Init, Rest
<1>2. \A t \in TaskId : tasks[t].state = "unused" BY DEF Init, NoTask
<1>3. \A a \in AttemptId : attempts[a].status = "absent" BY DEF Init, NoAttempt
<1>4. Named BY <1>1, <1>2 DEF Named, NamedTask, NamedLocal, NamedSteps, Stored
<1>5. Running /\ Handled /\ MarksStored
  BY <1>1 DEF Running, Handled, MarksStored, Busy, BusySteps, HandlingSteps, At, Proc
<1>6. AckedIsFinished /\ QueuedWasInserted
  BY <1>2, <1>3 DEF AckedIsFinished, QueuedWasInserted, Exists, Stored
<1> QED BY <1>4, <1>5, <1>6 DEF ResultInv

\* The invariant of the three theorems.
LEMMA ResultInvariant ==
  ASSUME Cleaner = {}, Limit \in [QueueId -> Nat]
  PROVE  Spec => [](LimitInv /\ Named /\ ResultInv)
<1> DEFINE Inv == LimitInv /\ Named /\ ResultInv
<1>1. Init => Inv BY LimitInit, ResultInit
<1>2. Inv /\ [Next]_vars => Inv'
  BY NoCleaner, LimitNext, NamedNext, ResultNext DEF LimitInv
<1> QED BY <1>1, <1>2, PTL DEF Spec
-----------------------------------------------------------------------------
\* Without a cleaner only results are acknowledged, for any number of workers,
\* fixers and clients and wherever they die: the fixer, which never looks at an
\* acknowledged attempt again, misses none that is still to run
\* (models/attempt.go ackAttempt under scheduler.go FixIntegrity).
THEOREM AckedAlways ==
  ASSUME Cleaner = {}, Limit \in [QueueId -> Nat]
  PROVE  Spec => []AckedIsFinished
<1>1. LimitInv /\ Named /\ ResultInv => AckedIsFinished BY DEF ResultInv
<1> QED BY <1>1, ResultInvariant, PTL

\* Without a cleaner a task is marked attempt_queued only while the attempt it
\* wants is stored, though a PUT, a force or another NextAttemptForTask may give
\* it another between the insert and the mark (models/task.go
\* SetAttemptQueuedForTask).
THEOREM QueuedAlways ==
  ASSUME Cleaner = {}, Limit \in [QueueId -> Nat]
  PROVE  Spec => []QueuedWasInserted
<1>1. LimitInv /\ Named /\ ResultInv => QueuedWasInserted BY DEF ResultInv
<1> QED BY <1>1, ResultInvariant, PTL

\* Without a cleaner a result is never written over: FinishAttempt looks at no
\* status, and the leases alone keep a second worker from it (models/attempt.go
\* NextAttempt, DoAttempt).
THEOREM FinalAlways ==
  ASSUME Cleaner = {}, Limit \in [QueueId -> Nat]
  PROVE  Spec => ResultIsFinal
<1>1. LimitInv /\ Named /\ ResultInv /\ [Next]_vars =>
        [\A a \in AttemptId :
           Finished(a) => attempts'[a].status \in {attempts[a].status, "absent"}]_vars
  BY NoCleaner, ResultNext DEF StatusKept
<1> QED BY <1>1, ResultInvariant, PTL DEF Spec, ResultIsFinal
-----------------------------------------------------------------------------
(* A slot comes back.  It is held for an attempt that is still to run, in    *)
(* the queue of its task, and who writes a result has given it back before.  *)

HeldInPlay ==
  \A q \in QueueId : \A a \in slots[q].inflight :
    InPlay(a) /\ QueueOf[attempts[a].task] = q

TaskAtHand == \A w \in Worker : Busy(w) => proc[w].t = attempts[proc[w].a].task

GivenBack ==
  \A w \in Worker : At(w, "finish") => \A q \in QueueId : ~Holds(slots[q], proc[w].a)

SlotInv == HeldInPlay /\ TaskAtHand /\ GivenBack

\* No attempt changes its task, or leaves play.
Plays ==
  \A a \in AttemptId : Exists(a) =>
    attempts'[a].task = attempts[a].task /\ (InPlay(a) => InPlay(a)')

\* A step that leaves the slots alone, and brings no worker to his result.
LEMMA SlotStill ==
  ASSUME LimitInv, SlotInv, UNCHANGED slots, Plays,
         \A w \in Worker : Busy(w)' =>
           /\ Busy(w) /\ proc'[w].a = proc[w].a /\ proc'[w].t = proc[w].t
           /\ At(w, "finish")' => At(w, "finish")
  PROVE  SlotInv'
<1>0. \A a : InPlay(a) => a \in AttemptId /\ Exists(a) BY DEF InPlay, Exists
<1>1. HeldInPlay' BY <1>0 DEF SlotInv, HeldInPlay, Plays
<1>2. TaskAtHand'
  <2>1. \A w \in Worker : Busy(w) => Exists(proc[w].a) /\ proc[w].a \in AttemptId
    BY DEF LimitInv, Leases, Exists
  <2> QED BY <2>1 DEF SlotInv, TaskAtHand, Plays
<1>3. GivenBack'
  <2>1. \A w \in Worker : At(w, "finish")' => Busy(w)' BY DEF At, Busy, BusySteps
  <2> QED BY <2>1 DEF SlotInv, GivenBack
<1> QED BY <1>1, <1>2, <1>3 DEF SlotInv

\* In particular one where a process goes on with what it has, or with nothing.
LEMMA SlotGo ==
  ASSUME LimitInv, SlotInv, UNCHANGED slots, Plays, NEW p \in Proc, NEW l, Become(p, l),
         l.pc \in BusySteps => /\ proc[p].pc \in BusySteps
                               /\ l.a = proc[p].a /\ l.t = proc[p].t
                               /\ l.pc # "finish"
  PROVE  SlotInv'
<1>1. \A x \in Proc : proc'[x] = IF x = p THEN l ELSE proc[x]
  BY DEF Become, LimitInv, TypeInv, TypeOK
<1>2. \A w \in Worker : Busy(w)' =>
        /\ Busy(w) /\ proc'[w].a = proc[w].a /\ proc'[w].t = proc[w].t
        /\ At(w, "finish")' => At(w, "finish")
  BY <1>1 DEF Busy, At, Proc
<1> QED BY <1>2, SlotStill

\* Without a write to the attempts.
LEMMA PlaysUnchanged == UNCHANGED attempts => Plays
BY DEF Plays, InPlay

\* A lease, of an attempt in play.
LEMMA ReserveSlots ==
  ASSUME LimitInv, SlotInv, NEW w \in Worker, NEW a \in AttemptId, Reserve(w, a)
  PROVE  SlotInv'
<1> USE DEF LimitInv, TypeInv, TypeOK
<1>0. w \in Proc /\ proc[w] \in Locals BY DEF Proc
<1>1. PICK l : l = [proc[w] EXCEPT !.pc = "count", !.a = a, !.t = attempts[a].task]
  OBVIOUS
<1>2. l.pc = "count" /\ l.a = a /\ l.t = attempts[a].task BY <1>0, <1>1 DEF Locals
<1>3. /\ Become(w, l) /\ UNCHANGED slots
      /\ attempts' = [attempts EXCEPT ![a].status = "running", ![a].due = FALSE]
  BY <1>1 DEF Reserve
<1>4. \A x \in Proc : proc'[x] = IF x = w THEN l ELSE proc[x] BY <1>3 DEF Become
<1>5. \A b \in AttemptId : /\ attempts'[b].task = attempts[b].task
                           /\ InPlay(b) => InPlay(b)'
  BY <1>3 DEF InPlay, AttemptDocs
<1>6. HeldInPlay' BY <1>3, <1>5 DEF SlotInv, HeldInPlay, InPlay
<1>7. TaskAtHand'
  <2> SUFFICES ASSUME NEW v \in Worker, Busy(v)' PROVE proc'[v].t = attempts'[proc'[v].a].task
    BY DEF TaskAtHand
  <2>1. CASE v = w BY <1>0, <1>2, <1>4, <1>5, <2>1
  <2>2. CASE v # w
    <3>1. v \in Proc /\ proc'[v] = proc[v] BY <1>4, <2>2 DEF Proc
    <3>2. Busy(v) /\ proc[v].a \in AttemptId BY <3>1, BusyHas DEF Busy
    <3> QED BY <1>5, <3>1, <3>2 DEF SlotInv, TaskAtHand
  <2> QED BY <2>1, <2>2
<1>8. GivenBack'
  BY <1>2, <1>3, <1>4 DEF SlotInv, GivenBack, At, Proc
<1> QED BY <1>6, <1>7, <1>8 DEF SlotInv

\* A slot is taken for the worker's attempt, in the queue of its task.
LEMMA AdmitSlots ==
  ASSUME LimitInv, ResultInv, SlotInv, NEW w \in Worker, EnQueueAdmit(w)
  PROVE  SlotInv'
<1> USE DEF LimitInv, TypeInv, TypeOK
<1>0. w \in Proc /\ proc[w] \in Locals BY DEF Proc
<1>a. PICK a, q : a = proc[w].a /\ q = QueueOf[proc[w].t] OBVIOUS
<1>1. Busy(w) /\ At(w, "push") BY DEF EnQueueAdmit, At, Busy, BusySteps
<1>2. /\ slots' = [slots EXCEPT ![q] = Admit(slots[q], a)] /\ UNCHANGED attempts
      /\ proc' = [proc EXCEPT ![w] = [proc[w] EXCEPT !.pc = "http"]]
  BY <1>a DEF EnQueueAdmit, Goto, Become
<1>3. InPlay(a) /\ QueueOf[attempts[a].task] = q
  BY <1>1, <1>a, BusyHas DEF ResultInv, Running, InPlay, SlotInv, TaskAtHand
<1>4. \A r \in QueueId : slots'[r].inflight \subseteq slots[r].inflight \cup {a}
  BY <1>2 DEF Admit
<1>5. \A r \in QueueId : r # q => slots'[r] = slots[r] BY <1>2
<1>6. HeldInPlay' BY <1>2, <1>3, <1>4, <1>5 DEF SlotInv, HeldInPlay, InPlay
<1>7. \A x \in Proc : x # w => proc'[x] = proc[x] BY <1>2
<1>8. proc'[w].pc = "http" /\ proc'[w].a = proc[w].a /\ proc'[w].t = proc[w].t
  BY <1>0, <1>2 DEF Locals
<1>9. TaskAtHand' BY <1>1, <1>2, <1>7, <1>8 DEF SlotInv, TaskAtHand, Busy, Proc
<1>10. GivenBack'
  <2> SUFFICES ASSUME NEW v \in Worker, At(v, "finish")', NEW r \in QueueId
               PROVE  ~Holds(slots'[r], proc'[v].a)
    BY DEF GivenBack
  <2>1. v # w /\ v \in Proc BY <1>8 DEF At, Proc
  <2>2. At(v, "finish") /\ proc'[v] = proc[v] /\ Busy(v)
    BY <1>7, <2>1 DEF At, Busy, BusySteps
  <2>3. proc[v].a # a BY <1>1, <1>a, <2>1, <2>2 DEF Leases
  <2> QED BY <1>4, <2>2, <2>3 DEF SlotInv, GivenBack, Holds
<1> QED BY <1>6, <1>9, <1>10 DEF SlotInv

\* A slot is given back, and it was the only one.
LEMMA DeQueueSlots ==
  ASSUME LimitInv, SlotInv, NEW w \in Worker, DeQueue(w)
  PROVE  SlotInv'
<1> USE DEF LimitInv, TypeInv, TypeOK
<1>0. w \in Proc /\ proc[w] \in Locals BY DEF Proc
<1>a. PICK a, q : a = proc[w].a /\ q = QueueOf[proc[w].t] OBVIOUS
<1>1. Busy(w) BY DEF DeQueue, At, Busy, BusySteps
<1>2. /\ slots' = [slots EXCEPT ![q] = Release(slots[q], a)] /\ UNCHANGED attempts
      /\ proc' = [proc EXCEPT ![w] = [proc[w] EXCEPT !.pc = "finish"]]
  BY <1>a DEF DeQueue, Goto, Become
<1>3. \A r \in QueueId : slots'[r].inflight \subseteq slots[r].inflight
  BY <1>2 DEF Release, Holds
<1>4. \A r \in QueueId : ~Holds(slots'[r], a)
  <2> SUFFICES ASSUME NEW r \in QueueId, Holds(slots'[r], a) PROVE FALSE OBVIOUS
  <2>1. a \in slots[r].inflight BY <1>3 DEF Holds
  <2>2. r = q BY <1>1, <1>a, <2>1 DEF SlotInv, HeldInPlay, TaskAtHand
  <2> QED BY <1>2, <2>2 DEF Release, Holds
<1>5. HeldInPlay' BY <1>2, <1>3 DEF SlotInv, HeldInPlay, InPlay
<1>6. \A x \in Proc : x # w => proc'[x] = proc[x] BY <1>2
<1>7. proc'[w].pc = "finish" /\ proc'[w].a = proc[w].a /\ proc'[w].t = proc[w].t
  BY <1>0, <1>2 DEF Locals
<1>8. TaskAtHand' BY <1>1, <1>2, <1>6, <1>7 DEF SlotInv, TaskAtHand, Busy, Proc
<1>9. GivenBack'
  BY <1>3, <1>4, <1>6, <1>7, <1>a DEF SlotInv, GivenBack, At, Holds, Proc
<1> QED BY <1>5, <1>8, <1>9 DEF SlotInv

\* A result is written for an attempt that holds no slot.
LEMMA FinishSlots ==
  ASSUME LimitInv, SlotInv, NEW w \in Worker, Finish(w)
  PROVE  SlotInv'
<1> USE DEF LimitInv, TypeInv, TypeOK
<1>0. w \in Proc /\ proc[w] \in Locals BY DEF Proc
<1>a. PICK a : a = proc[w].a OBVIOUS
<1>1. /\ At(w, "finish") /\ UNCHANGED slots
      /\ attempts' = [attempts EXCEPT ![a].status = proc[w].out]
      /\ proc' = [proc EXCEPT ![w] = [proc[w] EXCEPT !.pc = "read"]]
  BY <1>a DEF Finish, Goto, Become
<1>2. \A b \in AttemptId : /\ attempts'[b].task = attempts[b].task
                           /\ b # a => attempts'[b] = attempts[b]
  BY <1>1 DEF AttemptDocs
<1>3. HeldInPlay'
  <2> SUFFICES ASSUME NEW q \in QueueId, NEW b \in slots[q].inflight
               PROVE  InPlay(b)' /\ QueueOf[attempts'[b].task] = q
    BY <1>1 DEF HeldInPlay
  <2>1. b # a BY <1>1, <1>a DEF SlotInv, GivenBack, Holds
  <2>2. InPlay(b) /\ QueueOf[attempts[b].task] = q /\ b \in AttemptId
    BY DEF SlotInv, HeldInPlay, InPlay
  <2> QED BY <1>2, <2>1, <2>2 DEF InPlay
<1>4. \A x \in Proc : x # w => proc'[x] = proc[x] BY <1>1
<1>5. proc'[w].pc = "read" BY <1>0, <1>1 DEF Locals
<1>6. TaskAtHand'
  <2> SUFFICES ASSUME NEW v \in Worker, Busy(v)' PROVE proc'[v].t = attempts'[proc'[v].a].task
    BY DEF TaskAtHand
  <2>1. v # w /\ v \in Proc BY <1>5 DEF Busy, BusySteps, Proc
  <2>2. proc'[v] = proc[v] /\ Busy(v) /\ proc[v].a \in AttemptId
    BY <1>4, <2>1, BusyHas DEF Busy
  <2> QED BY <1>2, <2>2 DEF SlotInv, TaskAtHand
<1>7. GivenBack' BY <1>1, <1>4, <1>5 DEF SlotInv, GivenBack, At, Proc
<1> QED BY <1>3, <1>6, <1>7 DEF SlotInv

\* A process moves outside the worker's steps.
LEMMA SlotAway ==
  ASSUME LimitInv, SlotInv, UNCHANGED slots, Plays,
         NEW p \in Proc, NEW l, Become(p, l), l.pc \notin BusySteps
  PROVE  SlotInv'
BY SlotGo

\* A worker with its attempt, but for the slot and the result.
LEMMA WorkerSlots ==
  ASSUME LimitInv, SlotInv, NEW w \in Worker,
         \/ GiveUp(w) \/ EnQueueCount(w) \/ EnQueueFull(w)
         \/ \E result \in {"success", "error"} : Execute(w, result)
         \/ Reject(w) \/ FinishGone(w)
  PROVE  SlotInv'
<1>0. w \in Proc /\ proc[w] \in Locals BY DEF Proc, LimitInv, TypeInv, TypeOK
<1>1. UNCHANGED <<attempts, slots>>
  BY DEF GiveUp, EnQueueCount, EnQueueFull, Execute, Reject, FinishGone
<1>2. CASE GiveUp(w) \/ Reject(w) \/ FinishGone(w) \/ EnQueueFull(w)
  <2> DEFINE m(f) == [Rest EXCEPT !.full = f]
  <2>1. Rest.pc = "idle" /\ \A f : m(f).pc = "idle" BY DEF Rest
  <2>2. Become(w, Rest) \/ \E f : Become(w, m(f))
    BY <1>2 DEF GiveUp, Reject, FinishGone, EnQueueFull
  <2> HIDE DEF m
  <2>3. \E l : Become(w, l) /\ l.pc = "idle" BY <2>1, <2>2
  <2> QED BY <1>0, <1>1, <2>3, PlaysUnchanged, SlotAway DEF BusySteps
<1>3. CASE EnQueueCount(w)
  <2>1. PICK step \in {"http", "push"} : Become(w, [proc[w] EXCEPT !.pc = step])
    BY <1>3 DEF EnQueueCount, Goto
  <2>2. PICK l : l = [proc[w] EXCEPT !.pc = step] OBVIOUS
  <2>3. l.pc = step /\ l.a = proc[w].a /\ l.t = proc[w].t BY <1>0, <2>2 DEF Locals
  <2>4. proc[w].pc \in BusySteps BY <1>3 DEF EnQueueCount, At, BusySteps
  <2> QED BY <1>0, <1>1, <2>1, <2>2, <2>3, <2>4, PlaysUnchanged, SlotGo
<1>4. ASSUME NEW result \in {"success", "error"}, Execute(w, result) PROVE SlotInv'
  <2>1. PICK l : l = [proc[w] EXCEPT !.pc = "dequeue", !.out = result] OBVIOUS
  <2>2. l.pc = "dequeue" /\ l.a = proc[w].a /\ l.t = proc[w].t BY <1>0, <2>1 DEF Locals
  <2>3. Become(w, l) /\ proc[w].pc \in BusySteps
    BY <1>4, <2>1 DEF Execute, At, BusySteps
  <2> QED BY <1>0, <1>1, <2>2, <2>3, PlaysUnchanged, SlotGo
<1> QED BY <1>2, <1>3, <1>4

\* NextAttemptForTask and NewAttempt have to do with no slot.
LEMMA NextAttemptSlots ==
  ASSUME LimitInv, SlotInv, NEW p \in Proc,
         \/ ReadTask(p) \/ TaskGone(p) \/ Apply(p) \/ Ack(p)
         \/ Purge(p) \/ Insert(p) \/ InsertDup(p) \/ Mark(p)
  PROVE  SlotInv'
<1> USE DEF LimitInv, TypeInv, TypeOK
<1>0. proc[p] \in Locals OBVIOUS
<1>1. UNCHANGED slots
  BY DEF ReadTask, TaskGone, Apply, Ack, Purge, Insert, InsertDup, Mark
<1>2. Plays
  <2>1. CASE ReadTask(p) \/ TaskGone(p) \/ Apply(p) \/ InsertDup(p) \/ Mark(p)
    BY <2>1, PlaysUnchanged DEF ReadTask, TaskGone, Apply, InsertDup, Mark
  <2>2. CASE Ack(p) BY <2>2 DEF Ack, Plays, InPlay, AttemptDocs
  <2>3. CASE Purge(p) BY <2>3 DEF Purge, Plays, InPlay, AttemptDocs
  <2>4. CASE Insert(p)
    <3>1. PICK new, doc : /\ attempts' = [attempts EXCEPT ![new] = doc]
                          /\ new = proc[p].copy.current /\ ~Exists(new)
      BY <2>4 DEF Insert
    <3>2. \A b \in AttemptId : b # new => attempts'[b] = attempts[b] BY <3>1
    <3> QED BY <3>1, <3>2 DEF Plays, InPlay
  <2> QED BY <2>1, <2>2, <2>3, <2>4
<1>3. \E l : Become(p, l) /\ l.pc \notin BusySteps
  <2> DEFINE on(step) == [proc[p] EXCEPT !.pc = step]
             m(copy) == [proc[p] EXCEPT !.pc = "apply", !.copy = copy]
             n(step, a, t, copy) == [Rest EXCEPT !.pc = step, !.a = a, !.t = t, !.copy = copy]
  <2>1. /\ \A step : on(step).pc = step
        /\ \A copy : m(copy).pc = "apply"
        /\ \A step, a, t, copy : n(step, a, t, copy).pc = step
        /\ Rest.pc = "idle"
    BY DEF Locals, Rest
  <2>2. AfterNewAttempt(p).pc \in {"idle", "ack"} BY AfterKeeps
  <2>3. \/ Become(p, Rest) \/ Become(p, AfterNewAttempt(p))
        \/ \E step \in {"insert", "mark"} : Become(p, on(step))
        \/ \E copy : Become(p, m(copy))
        \/ \E step \in {"purge", "ack"} : \E a, t, copy : Become(p, n(step, a, t, copy))
    <3>1. CASE ReadTask(p) BY <3>1 DEF ReadTask
    <3>2. CASE TaskGone(p) \/ Ack(p) BY <3>2 DEF TaskGone, Ack
    <3>3. CASE Apply(p)
      <4>1. PICK step \in {"purge", "ack"} :
              \E copy : Become(p, n(step, proc[p].a, proc[p].t, copy))
        BY <3>3 DEF Apply
      <4> QED BY <4>1
    <3>4. CASE Purge(p) \/ Insert(p) BY <3>4 DEF Purge, Insert, Goto
    <3>5. CASE InsertDup(p) \/ Mark(p) BY <3>5 DEF InsertDup, Mark
    <3> QED BY <3>1, <3>2, <3>3, <3>4, <3>5
  <2> HIDE DEF on, m, n
  <2> QED BY <2>1, <2>2, <2>3 DEF BusySteps
<1> QED BY <1>1, <1>2, <1>3, SlotAway

\* Nor have the API, the fixer and a process that fails.
LEMMA OthersSlots ==
  ASSUME LimitInv, SlotInv, NEW p \in Proc,
         \/ ClientStep(p) \/ DeleteTask(p) \/ Lookup(p)
         \/ \E t \in TaskId : FixTask(p, t)
         \/ \E a \in AttemptId : FixAttempt(p, a)
         \/ Crash(p) \/ NewAttemptFails(p)
  PROVE  SlotInv'
<1> USE DEF LimitInv, TypeInv, TypeOK
<1>0. proc[p] \in Locals OBVIOUS
<1>1. UNCHANGED slots
  BY DEF ClientStep, PutNew, PutAgain, DeleteAttempts, ForceAttempt, DeleteTask, Lookup,
         FixTask, FixAttempt, Crash, NewAttemptFails
<1>2. Plays
  <2>1. CASE \E t \in TaskId : DeleteAttempts(p, t)
    BY <2>1 DEF DeleteAttempts, Plays, InPlay, AttemptDocs
  <2>2. CASE ~\E t \in TaskId : DeleteAttempts(p, t)
    BY <2>2, PlaysUnchanged
    DEF ClientStep, PutNew, PutAgain, ForceAttempt, DeleteTask, Lookup, FixTask, FixAttempt,
        Crash, NewAttemptFails
  <2> QED BY <2>1, <2>2
<1>3. CASE \E t \in TaskId : ForceAttempt(p, t)
  <2>1. UNCHANGED proc BY <1>3 DEF ForceAttempt
  <2> QED BY <1>1, <1>2, <2>1, SlotStill DEF Busy, At
<1>4. CASE ~\E t \in TaskId : ForceAttempt(p, t)
  <2> DEFINE n(step, t, copy) == [Rest EXCEPT !.pc = step, !.t = t, !.copy = copy]
             d(t) == [Rest EXCEPT !.pc = "delete", !.t = t]
             r(a, t, out) == [Rest EXCEPT !.pc = "read", !.a = a, !.t = t, !.out = out]
             on == [proc[p] EXCEPT !.pc = "purge"]
  <2>1. /\ \A step, t, copy : n(step, t, copy).pc = step
        /\ \A t : d(t).pc = "delete"
        /\ \A a, t, out : r(a, t, out).pc = "read"
        /\ on.pc = "purge" /\ Rest.pc = "idle"
    BY DEF Locals, Rest
  <2>2. AfterNewAttempt(p).pc \in {"idle", "ack"} BY AfterKeeps
  <2>3. \/ Become(p, Rest) \/ Become(p, AfterNewAttempt(p)) \/ Become(p, on)
        \/ \E step \in {"insert", "purge", "lookup"} : \E t, copy : Become(p, n(step, t, copy))
        \/ \E t : Become(p, d(t))
        \/ \E a, t, out : Become(p, r(a, t, out))
    <3>1. CASE ClientStep(p)
      <4>1. PICK t \in TaskId :
              \/ \E schedule \in Schedules, active \in Actives :
                   PutNew(p, t, schedule, active) \/ PutAgain(p, t, schedule, active)
              \/ DeleteAttempts(p, t)
        BY <1>4, <3>1 DEF ClientStep
      <4>2. CASE DeleteAttempts(p, t) BY <4>2 DEF DeleteAttempts
      <4>3. ASSUME NEW schedule \in Schedules, NEW active \in Actives,
                   PutNew(p, t, schedule, active) \/ PutAgain(p, t, schedule, active)
            PROVE  \/ Become(p, Rest)
                   \/ \E step \in {"insert", "purge"} : \E copy : Become(p, n(step, t, copy))
        BY <4>3 DEF PutNew, PutAgain
      <4> QED BY <4>1, <4>2, <4>3
    <3>2. CASE DeleteTask(p) \/ Crash(p) \/ NewAttemptFails(p)
      BY <3>2 DEF DeleteTask, Crash, NewAttemptFails
    <3>3. CASE Lookup(p) BY <3>3 DEF Lookup, Goto
    <3>4. CASE \E t \in TaskId : FixTask(p, t) BY <3>4 DEF FixTask
    <3>5. CASE \E a \in AttemptId : FixAttempt(p, a) BY <3>5 DEF FixAttempt
    <3> QED BY <3>1, <3>2, <3>3, <3>4, <3>5
  <2> HIDE DEF n, d, r, on
  <2>4. \E l : Become(p, l) /\ l.pc \notin BusySteps BY <2>1, <2>2, <2>3 DEF BusySteps
  <2> QED BY <1>1, <1>2, <2>4, SlotAway
<1> QED BY <1>3, <1>4

\* Every step but the cleaner's, by the lemmas above.
LEMMA SlotNext ==
  ASSUME NoCleaning, LimitInv, ResultInv, SlotInv, [Next]_vars
  PROVE  SlotInv'
<1>1. ASSUME NEW p \in Proc, GoesOn(p) PROVE SlotInv'
  <2>1. CASE p \in Worker /\ WorkerGoesOn(p)
    BY <2>1, WorkerSlots, AdmitSlots, DeQueueSlots, FinishSlots DEF WorkerGoesOn
  <2>2. CASE ~(p \in Worker /\ WorkerGoesOn(p))
    BY <1>1, <2>2, NextAttemptSlots, OthersSlots DEF GoesOn, NoCleaning
  <2> QED BY <2>1, <2>2
<1>2. ASSUME NEW p \in Proc, Crash(p) \/ NewAttemptFails(p) PROVE SlotInv'
  BY <1>2, OthersSlots
<1>3. ASSUME NEW w \in Worker, NEW a \in AttemptId, Reserve(w, a) PROVE SlotInv'
  BY <1>3, ReserveSlots
<1>4. ASSUME NEW c \in Client, ClientStep(c) PROVE SlotInv' BY <1>4, OthersSlots DEF Proc
<1>5. ASSUME NEW f \in Fixer, \/ \E t \in TaskId : FixTask(f, t)
                              \/ \E a \in AttemptId : FixAttempt(f, a)
      PROVE  SlotInv'
  BY <1>5, OthersSlots DEF Proc
<1>6. /\ \A t \in TaskId : ~CleanTask(t)
      /\ \A a \in AttemptId : ~CleanFinished(a)
      /\ \A k \in Cleaner, a \in AttemptId : ~CleanAttempt(k, a)
  BY DEF NoCleaning
<1>7. ASSUME NEW a \in AttemptId, Due(a) PROVE SlotInv'
  <2>1. Plays BY <1>7 DEF Due, Plays, InPlay, LimitInv, TypeInv, TypeOK, AttemptDocs
  <2>2. UNCHANGED <<slots, proc>> BY <1>7 DEF Due
  <2> QED BY <2>1, <2>2, SlotStill DEF Busy, At
<1>8. CASE UNCHANGED vars
  <2>1. UNCHANGED <<attempts, slots, proc>> BY <1>8 DEF vars
  <2> QED BY <2>1, PlaysUnchanged, SlotStill DEF Busy, At
<1> QED BY <1>1, <1>2, <1>3, <1>4, <1>5, <1>6, <1>7, <1>8 DEF Next

\* Before anything happened no slot is in use.
LEMMA SlotInit == Init => SlotInv
<1> SUFFICES ASSUME Init PROVE SlotInv OBVIOUS
<1>1. \A w \in Worker : proc[w].pc = "idle" BY DEF Init, Rest, Proc
<1>2. \A q \in QueueId : slots[q].inflight = {} BY DEF Init, NewSlots
<1> QED BY <1>1, <1>2 DEF SlotInv, HeldInPlay, TaskAtHand, GivenBack, Busy, BusySteps, At

\* Without a cleaner, a slot in use is one of an attempt that waits or runs,
\* for any number of workers and whatever clients, fixers and deaths do: who
\* dies leaves an attempt that will be leased again, and nobody writes a result
\* before the slot is given back (models/attempt.go DoAttempt,
\* models/queue.go DeQueue).  Only those of stranded attempts never come back.
THEOREM SlotsAlwaysComeBack ==
  ASSUME Cleaner = {}, Limit \in [QueueId -> Nat]
  PROVE  Spec => []SlotsComeBack
<1> DEFINE Inv == LimitInv /\ Named /\ ResultInv
<1>1. Init => SlotInv BY SlotInit
<1>2. Inv /\ SlotInv /\ [Next]_vars => SlotInv' BY NoCleaner, SlotNext
<1>3. SlotInv => SlotsComeBack BY DEF SlotInv, HeldInPlay, SlotsComeBack, Stranded
<1>4. Spec => []Inv BY ResultInvariant
<1> HIDE DEF Inv
<1> QED BY <1>1, <1>2, <1>3, <1>4, PTL DEF Spec
=============================================================================
