---------------------------- MODULE EngineProofs ----------------------------
(***************************************************************************)
(* Theorems about Engine, for every set of tasks, attempts, queues and     *)
(* processes, and any number of calls and deaths.                          *)
(***************************************************************************)
EXTENDS Engine, QueueDocProofs

-----------------------------------------------------------------------------
(* Types.  TypeOK is not inductive: a worker that takes a slot must have an *)
(* attempt at hand, one that writes a result must have one, and NewAttempt  *)
(* must know its task.                                                      *)

BusySteps == {"count", "push", "http", "dequeue", "finish"}

Good(l) ==
  /\ l \in Locals
  /\ l.pc \in BusySteps => l.a \in AttemptId /\ l.t \in TaskId
  /\ l.pc \in {"dequeue", "finish"} => l.out \in {"success", "error"}
  /\ l.pc \in {"lookup", "purge", "insert", "mark"} => l.t \in TaskId

GoodLocals == \A p \in Proc : Good(proc[p])

\* What is stored as an attempt belongs to a task.
HasTask == \A a \in AttemptId : Exists(a) => attempts[a].task \in TaskId

TypeInv == TypeOK /\ GoodLocals /\ HasTask

\* The local states that every process may take.
LEMMA RestGood == Good(Rest)
BY DEF Good, Locals, Steps, Rest, NoCopy, Copies, BusySteps

\* What NewAttempt is given is a task copy.
LEMMA WantedTyped == ASSUME NEW d \in TaskDocs PROVE Wanted(d) \in Copies
<1>1. (d.active /\ ~d.deleted) \in BOOLEAN OBVIOUS
<1> QED BY <1>1 DEF TaskDocs, Wanted, Copies

\* What NextAttemptForTask reads is a task copy.
LEMMA CopyTyped == ASSUME NEW d \in TaskDocs PROVE CopyOf(d) \in Copies
BY DEF TaskDocs, CopyOf, Copies

\* After NewAttempt: at rest, or about to acknowledge.
LEMMA AfterGood ==
  ASSUME NEW p \in Proc, Good(proc[p])
  PROVE  Good(AfterNewAttempt(p)) /\ AfterNewAttempt(p).pc \in {"idle", "ack"}
<1>1. CASE proc[p].a = None
  BY <1>1, RestGood DEF AfterNewAttempt, Rest
<1>2. CASE proc[p].a # None
  <2>1. proc[p].a \in AttemptId \cup {None} /\ proc[p].t \in TaskId \cup {None}
    BY DEF Good, Locals
  <2>2. AfterNewAttempt(p) =
          [pc |-> "ack", a |-> proc[p].a, t |-> proc[p].t, out |-> "none", copy |-> NoCopy, full |-> {}]
    BY <1>2 DEF AfterNewAttempt, Rest
  <2> QED BY <2>1, <2>2 DEF Good, Locals, Steps, NoCopy, Copies, BusySteps
<1> QED BY <1>1, <1>2

\* A new id is an attempt id.
LEMMA FreshTyped == Unused # {} => Fresh \in AttemptId
<1> SUFFICES ASSUME Unused # {} PROVE Fresh \in AttemptId OBVIOUS
<1>1. \E a \in AttemptId : a \in Unused BY DEF Unused
<1> QED BY <1>1 DEF Fresh

\* A step that gives one process a good local state.
LEMMA BecomeGood ==
  ASSUME TypeInv, NEW p \in Proc, NEW l, Good(l), Become(p, l)
  PROVE  proc' \in [Proc -> Locals] /\ GoodLocals'
<1>1. proc' = [proc EXCEPT ![p] = l] BY DEF Become
<1>2. l \in Locals BY DEF Good
<1>3. proc' \in [Proc -> Locals] BY <1>1, <1>2 DEF TypeInv, TypeOK
<1>4. ASSUME NEW x \in Proc PROVE Good(proc'[x])
  BY <1>1, <1>4 DEF TypeInv, TypeOK, GoodLocals
<1> QED BY <1>3, <1>4 DEF GoodLocals

\* TypeInv from its parts: the document types and one good local state.
LEMMA TypeStep ==
  ASSUME TypeInv, NEW p \in Proc, NEW l, Good(l), Become(p, l),
         tasks' \in [TaskId -> TaskDocs], attempts' \in [AttemptId -> AttemptDocs],
         slots' \in [QueueId -> SlotsOf(AttemptId)], calls' \in Nat, crashes' \in Nat, HasTask'
  PROVE  TypeInv'
BY BecomeGood DEF TypeInv, TypeOK

\* The frequent case: only the process moves.
LEMMA LocalStep ==
  ASSUME TypeInv, NEW p \in Proc, NEW l, Good(l), Become(p, l),
         UNCHANGED <<tasks, attempts, slots>>, calls' \in Nat, crashes' \in Nat
  PROVE  TypeInv'
<1>1. HasTask' BY DEF TypeInv, HasTask, Exists
<1> QED BY <1>1, BecomeGood DEF TypeInv, TypeOK

\* An attempt document whose task is kept keeps HasTask.
LEMMA KeepsTask ==
  ASSUME TypeInv, \A a \in AttemptId : Exists(a)' => attempts'[a].task = attempts[a].task /\ Exists(a)
  PROVE  HasTask'
BY DEF TypeInv, HasTask

\* Before anything happened: nothing stored, nobody at work.
LEMMA TypeInit == Init => TypeInv
<1> SUFFICES ASSUME Init PROVE TypeInv OBVIOUS
<1>1. tasks \in [TaskId -> TaskDocs] BY DEF Init, NoTask, TaskDocs
<1>2. attempts \in [AttemptId -> AttemptDocs] BY DEF Init, NoAttempt, AttemptDocs, Statuses
<1>3. \A q \in QueueId : Limit[q] \in Int BY EngineAssumption
<1>4. slots \in [QueueId -> SlotsOf(AttemptId)] BY <1>3 DEF Init, NewSlots, SlotsOf
<1>5. GoodLocals /\ proc \in [Proc -> Locals] BY RestGood DEF Init, GoodLocals, Good
<1>6. HasTask BY DEF Init, HasTask, Exists, NoAttempt
<1> QED BY <1>1, <1>2, <1>4, <1>5, <1>6 DEF TypeInv, TypeOK, Init

\* The step of a process only: the next step needs no more than this one had.
LEMMA GotoGood ==
  ASSUME NEW l, Good(l), NEW step \in Steps,
         step \in BusySteps => l.pc \in BusySteps,
         step \in {"dequeue", "finish"} => l.out \in {"success", "error"},
         step \in {"lookup", "purge", "insert", "mark"} => l.t \in TaskId
  PROVE  Good([l EXCEPT !.pc = step])
<1>1. l \in Locals BY DEF Good
<1>2. [l EXCEPT !.pc = step] \in Locals BY <1>1 DEF Locals
<1> QED BY <1>1, <1>2 DEF Good, Locals

\* Workers up to the slot.
LEMMA LeaseTypes ==
  ASSUME TypeInv, NEW w \in Worker,
         \/ \E a \in AttemptId : Reserve(w, a)
         \/ GiveUp(w) \/ EnQueueCount(w) \/ EnQueueAdmit(w) \/ EnQueueFull(w)
  PROVE  TypeInv'
<1> w \in Proc BY DEF Proc
<1> USE DEF TypeInv, TypeOK
<1>0. Good(proc[w]) /\ proc[w] \in Locals BY DEF GoodLocals, Good
<1>1. ASSUME NEW a \in AttemptId, Reserve(w, a) PROVE TypeInv'
  <2> DEFINE l == [proc[w] EXCEPT !.pc = "count", !.a = a, !.t = attempts[a].task]
  <2>1. a \in Ready(w) /\ Become(w, l) BY <1>1 DEF Reserve
  <2>2. attempts[a].task \in TaskId BY <2>1 DEF HasTask, Exists, Ready, InPlay
  <2>3. l \in Locals BY <1>0, <2>2 DEF Locals, Steps
  <2>4. l.pc = "count" /\ l.a = a /\ l.t = attempts[a].task BY <1>0 DEF Locals
  <2>5. Good(l) BY <2>2, <2>3, <2>4 DEF Good
  <2>6. attempts' = [attempts EXCEPT ![a].status = "running", ![a].due = FALSE]
    BY <1>1 DEF Reserve
  <2>7. attempts' \in [AttemptId -> AttemptDocs] BY <2>6 DEF AttemptDocs, Statuses
  <2>8. HasTask' BY <2>2, <2>6 DEF HasTask, Exists, AttemptDocs
  <2> QED BY <1>1, <2>1, <2>5, <2>7, <2>8, TypeStep DEF Reserve
<1>2. ASSUME GiveUp(w) PROVE TypeInv'
  BY <1>2, RestGood, LocalStep DEF GiveUp
<1>3. ASSUME EnQueueCount(w) PROVE TypeInv'
  <2> DEFINE step == IF Holds(slots[QueueOf[proc[w].t]], proc[w].a) THEN "http" ELSE "push"
  <2>1. Become(w, [proc[w] EXCEPT !.pc = step]) BY <1>3 DEF EnQueueCount, Goto
  <2>2. step \in {"http", "push"} OBVIOUS
  <2>3. proc[w].pc \in BusySteps BY <1>3 DEF EnQueueCount, At, BusySteps
  <2> HIDE DEF step
  <2>4. Good([proc[w] EXCEPT !.pc = step]) BY <1>0, <2>2, <2>3, GotoGood DEF Steps, BusySteps
  <2> QED BY <1>3, <2>1, <2>4, LocalStep DEF EnQueueCount
<1>4. ASSUME EnQueueAdmit(w) PROVE TypeInv'
  <2> DEFINE q == QueueOf[proc[w].t]
  <2>1. proc[w].pc \in BusySteps BY <1>4 DEF EnQueueAdmit, At, BusySteps
  <2>2. Become(w, [proc[w] EXCEPT !.pc = "http"]) BY <1>4 DEF EnQueueAdmit, Goto
  <2>3. Good([proc[w] EXCEPT !.pc = "http"]) BY <1>0, <2>1, GotoGood DEF Steps
  <2>4. proc[w].a \in AttemptId /\ q \in QueueId BY <1>0, <2>1, EngineAssumption DEF Good
  <2>5. slots' = [slots EXCEPT ![q] = Admit(slots[q], proc[w].a)] BY <1>4 DEF EnQueueAdmit
  <2>6. Admit(slots[q], proc[w].a) \in SlotsOf(AttemptId) BY <2>4 DEF Admit, SlotsOf
  <2>7. slots' \in [QueueId -> SlotsOf(AttemptId)] BY <2>5, <2>6
  <2>8. HasTask' BY <1>4 DEF EnQueueAdmit, HasTask, Exists
  <2> QED BY <1>4, <2>2, <2>3, <2>7, <2>8, TypeStep DEF EnQueueAdmit
<1>5. ASSUME EnQueueFull(w) PROVE TypeInv'
  <2> DEFINE q == QueueOf[proc[w].t]
             l == [Rest EXCEPT !.full = proc[w].full \cup {q}]
  <2>1. Become(w, l) BY <1>5 DEF EnQueueFull
  <2>2. proc[w].pc \in BusySteps BY <1>5 DEF EnQueueFull, At, BusySteps
  <2>3. q \in QueueId BY <1>0, <2>2, EngineAssumption DEF Good
  <2>4. l \in Locals BY <1>0, <2>3, RestGood DEF Good, Locals
  <2>5. l.pc = "idle" BY DEF Rest
  <2>6. Good(l) BY <2>4, <2>5 DEF Good, BusySteps
  <2> QED BY <1>5, <2>1, <2>6, LocalStep DEF EnQueueFull
<1> QED BY <1>1, <1>2, <1>3, <1>4, <1>5

\* Workers from the request to the result, and the clock.
LEMMA DoTypes ==
  ASSUME TypeInv, NEW w \in Worker,
         \/ \E result \in {"success", "error"} : Execute(w, result)
         \/ Reject(w) \/ DeQueue(w) \/ Finish(w) \/ FinishGone(w)
  PROVE  TypeInv'
<1> w \in Proc BY DEF Proc
<1> USE DEF TypeInv, TypeOK
<1>0. Good(proc[w]) /\ proc[w] \in Locals BY DEF GoodLocals, Good
<1>1. ASSUME NEW result \in {"success", "error"}, Execute(w, result) PROVE TypeInv'
  <2> DEFINE l == [proc[w] EXCEPT !.pc = "dequeue", !.out = result]
  <2>1. Become(w, l) BY <1>1 DEF Execute
  <2>2. l \in Locals BY <1>0 DEF Locals, Steps
  <2>3. /\ l.pc = "dequeue" /\ l.out = result
        /\ l.a = proc[w].a /\ l.t = proc[w].t
    BY <1>0 DEF Locals
  <2>4. proc[w].pc \in BusySteps BY <1>1 DEF Execute, At, BusySteps
  <2>5. Good(l) BY <1>0, <2>2, <2>3, <2>4 DEF Good
  <2> QED BY <1>1, <2>1, <2>5, LocalStep DEF Execute
<1>2. ASSUME Reject(w) \/ FinishGone(w) PROVE TypeInv'
  BY <1>2, RestGood, LocalStep DEF Reject, FinishGone
<1>3. ASSUME DeQueue(w) PROVE TypeInv'
  <2> DEFINE q == QueueOf[proc[w].t]
  <2>1. proc[w].pc = "dequeue" /\ Become(w, [proc[w] EXCEPT !.pc = "finish"])
    BY <1>3 DEF DeQueue, At, Goto
  <2>2. Good([proc[w] EXCEPT !.pc = "finish"])
    BY <1>0, <2>1, GotoGood DEF Steps, BusySteps, Good
  <2>3. slots' = [slots EXCEPT ![q] = Release(slots[q], proc[w].a)] BY <1>3 DEF DeQueue
  <2>4. q \in QueueId BY <1>0, <2>1, EngineAssumption DEF Good, BusySteps
  <2>5. Release(slots[q], proc[w].a) \in SlotsOf(AttemptId) BY <2>4 DEF Release, SlotsOf
  <2>6. slots' \in [QueueId -> SlotsOf(AttemptId)] BY <2>3, <2>5
  <2>7. HasTask' BY <1>3 DEF DeQueue, HasTask, Exists
  <2> QED BY <1>3, <2>1, <2>2, <2>6, <2>7, TypeStep DEF DeQueue
<1>4. ASSUME Finish(w) PROVE TypeInv'
  <2>1. proc[w].pc = "finish" /\ Become(w, [proc[w] EXCEPT !.pc = "read"])
    BY <1>4 DEF Finish, At, Goto
  <2>2. Good([proc[w] EXCEPT !.pc = "read"]) BY <1>0, GotoGood DEF Steps, BusySteps
  <2>3. attempts' = [attempts EXCEPT ![proc[w].a].status = proc[w].out] BY <1>4 DEF Finish
  <2>4. Exists(proc[w].a) /\ proc[w].a \in AttemptId BY <1>4 DEF Finish, Exists
  <2>5. proc[w].out \in Statuses BY <1>0, <2>1 DEF Good, Statuses
  <2>6. attempts' \in [AttemptId -> AttemptDocs] BY <2>3, <2>4, <2>5 DEF AttemptDocs
  <2>7. HasTask' BY <2>3, <2>4 DEF HasTask, Exists, AttemptDocs
  <2> QED BY <1>4, <2>1, <2>2, <2>6, <2>7, TypeStep DEF Finish
<1> QED BY <1>1, <1>2, <1>3, <1>4

\* The clock changes no type.
LEMMA DueTypes == ASSUME TypeInv, NEW a \in AttemptId, Due(a) PROVE TypeInv'
<1> USE DEF TypeInv, TypeOK
<1>1. attempts' = [attempts EXCEPT ![a].due = TRUE] BY DEF Due
<1>2. attempts' \in [AttemptId -> AttemptDocs] BY <1>1 DEF AttemptDocs
<1>3. HasTask' BY <1>1 DEF HasTask, Exists, AttemptDocs
<1> QED BY <1>2, <1>3 DEF Due, GoodLocals

\* Edits of a task document.
LEMMA TaskQueued ==
  ASSUME NEW d \in TaskDocs, NEW b \in BOOLEAN PROVE [d EXCEPT !.queued = b] \in TaskDocs
BY DEF TaskDocs

\* The task after a result is a task document.
LEMMA TaskNext ==
  ASSUME NEW d \in TaskDocs, NEW act \in BOOLEAN, NEW ret \in Int,
         NEW cur \in AttemptId \cup {None}
  PROVE  [d EXCEPT !.active = act, !.retry = ret, !.current = cur, !.queued = FALSE] \in TaskDocs
BY DEF TaskDocs

\* NextAttemptForTask.
LEMMA NextAttemptTypes ==
  ASSUME TypeInv, NEW p \in Proc, ReadTask(p) \/ TaskGone(p) \/ Apply(p) \/ Ack(p)
  PROVE  TypeInv'
<1> USE DEF TypeInv, TypeOK
<1>0. Good(proc[p]) /\ proc[p] \in Locals BY DEF GoodLocals, Good
<1>1. ASSUME ReadTask(p) PROVE TypeInv'
  <2> DEFINE l == [proc[p] EXCEPT !.pc = "apply", !.copy = CopyOf(tasks[proc[p].t])]
  <2>1. Become(p, l) /\ proc[p].t \in TaskId BY <1>1 DEF ReadTask, Stored
  <2>2. CopyOf(tasks[proc[p].t]) \in Copies BY <2>1, CopyTyped
  <2>3. l \in Locals BY <1>0, <2>2 DEF Locals, Steps
  <2>4. l.pc = "apply" BY <1>0 DEF Locals
  <2>5. Good(l) BY <2>3, <2>4 DEF Good, BusySteps
  <2> QED BY <1>1, <2>1, <2>5, LocalStep DEF ReadTask
<1>2. ASSUME TaskGone(p) PROVE TypeInv'
  BY <1>2, RestGood, LocalStep DEF TaskGone
<1>3. ASSUME Apply(p) PROVE TypeInv'
  <2> DEFINE t == proc[p].t
             copy == proc[p].copy
             latest == copy.current = proc[p].a
             act == StaysActive(copy, proc[p].out)
             ret == tasks[t].retry + RetryIncrement(copy, proc[p].out)
             cur == IF latest THEN Fresh ELSE copy.current
             next == [tasks[t] EXCEPT !.active = StaysActive(copy, proc[p].out),
                        !.retry = @ + RetryIncrement(copy, proc[p].out),
                        !.current = IF latest THEN Fresh ELSE copy.current,
                        !.queued = FALSE]
             l == [Rest EXCEPT !.pc = IF latest THEN "purge" ELSE "ack",
                               !.a = proc[p].a, !.t = t,
                               !.copy = IF latest THEN Wanted(next) ELSE NoCopy]
  <2>1. /\ t \in TaskId /\ (latest => Unused # {})
        /\ tasks' = [tasks EXCEPT ![t] = next]
        /\ Become(p, l) /\ UNCHANGED <<attempts, slots, calls, crashes>>
    BY <1>3 DEF Apply, Stored
  <2>2. copy \in Copies /\ proc[p].a \in AttemptId \cup {None} BY <1>0 DEF Locals
  <2>3. act \in BOOLEAN BY <2>2 DEF StaysActive, Copies
  <2>4. ret \in Int BY <2>1, <2>2 DEF RetryIncrement, Copies, TaskDocs
  <2>5. cur \in AttemptId \cup {None} BY <2>1, <2>2, FreshTyped DEF Copies
  <2>6. next = [tasks[t] EXCEPT !.active = act, !.retry = ret, !.current = cur, !.queued = FALSE]
    OBVIOUS
  <2> HIDE DEF act, ret, cur, next
  <2>7. next \in TaskDocs BY <2>1, <2>3, <2>4, <2>5, <2>6, TaskNext
  <2>8. Wanted(next) \in Copies /\ NoCopy \in Copies BY <2>7, WantedTyped DEF NoCopy, Copies
  <2>9. l \in Locals BY <2>1, <2>2, <2>8, RestGood DEF Good, Locals, Steps
  <2>10. l.pc \in {"purge", "ack"} /\ l.t = t BY DEF Rest
  <2>11. Good(l) BY <2>1, <2>9, <2>10 DEF Good, BusySteps
  <2>12. tasks' \in [TaskId -> TaskDocs] BY <2>1, <2>7
  <2>13. HasTask' BY <2>1 DEF HasTask, Exists
  <2> QED BY <2>1, <2>11, <2>12, <2>13, TypeStep
<1>4. ASSUME Ack(p) PROVE TypeInv'
  <2>1. attempts' = IF Exists(proc[p].a) THEN [attempts EXCEPT ![proc[p].a].acked = TRUE]
                    ELSE attempts
    BY <1>4 DEF Ack
  <2>2. attempts' \in [AttemptId -> AttemptDocs] BY <2>1 DEF Exists, AttemptDocs
  <2>3. HasTask' BY <2>1 DEF HasTask, Exists, AttemptDocs
  <2> QED BY <1>4, <2>2, <2>3, RestGood, TypeStep DEF Ack
<1> QED BY <1>1, <1>2, <1>3, <1>4

\* NewAttempt.
LEMMA NewAttemptTypes ==
  ASSUME TypeInv, NEW p \in Proc, Purge(p) \/ Insert(p) \/ InsertDup(p) \/ Mark(p)
  PROVE  TypeInv'
<1> USE DEF TypeInv, TypeOK
<1>0. Good(proc[p]) /\ proc[p] \in Locals BY DEF GoodLocals, Good
<1>a. Good(AfterNewAttempt(p)) BY <1>0, AfterGood
<1>1. ASSUME Purge(p) PROVE TypeInv'
  <2>1. attempts' = [a \in AttemptId |->
          IF attempts[a].task = proc[p].t /\ attempts[a].status = "pending"
          THEN [attempts[a] EXCEPT !.deleted = TRUE] ELSE attempts[a]]
    BY <1>1 DEF Purge
  <2>2. attempts' \in [AttemptId -> AttemptDocs] BY <2>1 DEF AttemptDocs
  <2>3. HasTask' BY <2>1 DEF HasTask, Exists, AttemptDocs
  <2>4. proc[p].pc = "purge" BY <1>1 DEF Purge, At
  <2>5. Good([proc[p] EXCEPT !.pc = "insert"])
    BY <1>0, <2>4, GotoGood DEF Steps, BusySteps, Good
  <2>6. CASE proc[p].copy.active
    BY <1>1, <2>2, <2>3, <2>5, <2>6, TypeStep DEF Purge, Goto
  <2>7. CASE ~proc[p].copy.active
    BY <1>1, <1>a, <2>2, <2>3, <2>7, TypeStep DEF Purge
  <2> QED BY <2>6, <2>7
<1>2. ASSUME Insert(p) PROVE TypeInv'
  <2> DEFINE new == proc[p].copy.current
             doc == [NoAttempt EXCEPT !.status = "pending", !.task = proc[p].t]
  <2>1. /\ proc[p].pc = "insert" /\ attempts' = [attempts EXCEPT ![new] = doc]
        /\ Become(p, [proc[p] EXCEPT !.pc = "mark"])
    BY <1>2 DEF Insert, At, Goto
  <2>2. proc[p].t \in TaskId BY <1>0, <2>1 DEF Good
  <2>3. NoAttempt \in AttemptDocs BY DEF NoAttempt, AttemptDocs, Statuses
  <2>4. doc \in AttemptDocs /\ doc.task = proc[p].t BY <2>2, <2>3 DEF AttemptDocs, Statuses
  <2> HIDE DEF doc
  <2>5. attempts' \in [AttemptId -> AttemptDocs] BY <2>1, <2>4
  <2>6. HasTask' BY <2>1, <2>2, <2>4 DEF HasTask, Exists
  <2>7. Good([proc[p] EXCEPT !.pc = "mark"])
    BY <1>0, <2>1, GotoGood DEF Steps, BusySteps, Good
  <2> QED BY <1>2, <2>1, <2>5, <2>6, <2>7, TypeStep DEF Insert
<1>3. ASSUME InsertDup(p) PROVE TypeInv'
  BY <1>3, <1>a, LocalStep DEF InsertDup
<1>4. ASSUME Mark(p) PROVE TypeInv'
  <2>1. tasks' = [t \in TaskId |->
          IF t = proc[p].t /\ Stored(t) /\ tasks[t].current = proc[p].copy.current
          THEN [tasks[t] EXCEPT !.queued = TRUE] ELSE tasks[t]]
    BY <1>4 DEF Mark
  <2>2. \A t \in TaskId : [tasks[t] EXCEPT !.queued = TRUE] \in TaskDocs BY TaskQueued
  <2>4. tasks' \in [TaskId -> TaskDocs] BY <2>1, <2>2
  <2>3. HasTask' BY <1>4 DEF Mark, HasTask, Exists
  <2> QED BY <1>4, <1>a, <2>4, <2>3, TypeStep DEF Mark
<1> QED BY <1>1, <1>2, <1>3, <1>4

\* The API calls.
LEMMA NoTaskTyped ==
  ASSUME NEW s \in {"unused", "stored", "removed"} PROVE NoTask(s) \in TaskDocs
BY DEF NoTask, TaskDocs

\* The task a PUT creates is a task document.
LEMMA TaskCreated ==
  ASSUME NEW d \in TaskDocs, NEW act \in BOOLEAN, NEW sched \in BOOLEAN, NEW cur \in AttemptId
  PROVE  [d EXCEPT !.active = act, !.schedule = sched, !.current = cur] \in TaskDocs
BY DEF TaskDocs

\* What a PUT stores, new or over an older one, is a task document.
LEMMA PutTyped ==
  ASSUME NEW schedule \in Schedules, NEW active \in Actives, Unused # {}
  PROVE  PutDoc(schedule, active) \in TaskDocs
<1>1. schedule \in BOOLEAN /\ active \in BOOLEAN BY EngineAssumption
<1>2. Fresh \in AttemptId BY FreshTyped
<1> QED BY <1>1, <1>2, NoTaskTyped, TaskCreated DEF PutDoc

\* A process that begins NewAttempt with what is stored.
LEMMA BeginGood ==
  ASSUME NEW d \in TaskDocs, NEW t \in TaskId, NEW step \in {"insert", "purge", "lookup"}
  PROVE  Good([Rest EXCEPT !.pc = step, !.t = t, !.copy = Wanted(d)])
<1> DEFINE l == [Rest EXCEPT !.pc = step, !.t = t, !.copy = Wanted(d)]
<1>1. Wanted(d) \in Copies BY WantedTyped
<1>2. l \in Locals BY <1>1, RestGood DEF Good, Locals, Steps
<1>3. l.pc = step /\ l.t = t BY DEF Rest
<1> QED BY <1>2, <1>3 DEF Good, BusySteps

\* The clients' steps up to NewAttempt, and both halves of DeleteTask.
LEMMA CallTypes ==
  ASSUME TypeInv, NEW c \in Client, ClientStep(c) \/ DeleteTask(c)
  PROVE  TypeInv'
<1> c \in Proc BY DEF Proc
<1> USE DEF TypeInv, TypeOK
<1>0. \A kind : Call(c, kind) => calls' \in Nat BY DEF Call
<1>1. ASSUME NEW t \in TaskId, NEW schedule \in Schedules, NEW active \in Actives,
             PutNew(c, t, schedule, active)
      PROVE  TypeInv'
  <2> DEFINE new == PutDoc(schedule, active)
             l == IF active THEN [Rest EXCEPT !.pc = "insert", !.t = t, !.copy = Wanted(new)]
                  ELSE Rest
  <2>1. /\ Call(c, "create") /\ Unused # {} /\ tasks' = [tasks EXCEPT ![t] = new]
        /\ Become(c, l) /\ UNCHANGED <<attempts, slots, crashes>>
    BY <1>1 DEF PutNew
  <2>2. new \in TaskDocs BY <2>1, PutTyped
  <2>3. Good(l) BY <2>2, BeginGood, RestGood
  <2> HIDE DEF new, l
  <2>4. tasks' \in [TaskId -> TaskDocs] BY <2>1, <2>2
  <2>5. HasTask' BY <2>1 DEF HasTask, Exists
  <2> QED BY <1>0, <2>1, <2>3, <2>4, <2>5, TypeStep
<1>2. ASSUME NEW t \in TaskId, NEW schedule \in Schedules, NEW active \in Actives,
             PutAgain(c, t, schedule, active)
      PROVE  TypeInv'
  <2> DEFINE new == PutDoc(schedule, active)
             l == [Rest EXCEPT !.pc = "purge", !.t = t, !.copy = Wanted(new)]
  <2>1. /\ Call(c, "update") /\ Unused # {} /\ tasks' = [tasks EXCEPT ![t] = new]
        /\ Become(c, l) /\ UNCHANGED <<attempts, slots, crashes>>
    BY <1>2 DEF PutAgain
  <2>2. new \in TaskDocs BY <2>1, PutTyped
  <2>3. Good(l) BY <2>2, BeginGood
  <2> HIDE DEF new, l
  <2>4. tasks' \in [TaskId -> TaskDocs] BY <2>1, <2>2
  <2>5. HasTask' BY <2>1 DEF HasTask, Exists
  <2> QED BY <1>0, <2>1, <2>3, <2>4, <2>5, TypeStep
<1>3. ASSUME NEW t \in TaskId, DeleteAttempts(c, t) PROVE TypeInv'
  <2> DEFINE l == [Rest EXCEPT !.pc = "delete", !.t = t]
  <2>1. attempts' = [a \in AttemptId |->
          IF Exists(a) /\ attempts[a].task \in Namesakes(t)
          THEN [attempts[a] EXCEPT !.deleted = TRUE] ELSE attempts[a]]
    BY <1>3 DEF DeleteAttempts
  <2>2. attempts' \in [AttemptId -> AttemptDocs] BY <2>1 DEF AttemptDocs
  <2>3. HasTask' BY <2>1 DEF HasTask, Exists, AttemptDocs
  <2>4. l \in Locals BY RestGood DEF Good, Locals, Steps
  <2>5. l.pc = "delete" BY DEF Rest
  <2>6. Good(l) BY <2>4, <2>5 DEF Good, BusySteps
  <2>7. Become(c, l) BY <1>3 DEF DeleteAttempts
  <2> QED BY <1>0, <1>3, <2>2, <2>3, <2>6, <2>7, TypeStep DEF DeleteAttempts
<1>4. ASSUME NEW t \in TaskId, ForceAttempt(c, t) PROVE TypeInv'
  <2>1. /\ Unused # {} /\ UNCHANGED <<attempts, slots, proc, crashes>> /\ calls' \in Nat
        /\ tasks' = [tasks EXCEPT ![t].current = Fresh, ![t].queued = FALSE]
    BY <1>0, <1>4 DEF ForceAttempt
  <2>2. Fresh \in AttemptId BY <2>1, FreshTyped
  <2>3. [tasks[t] EXCEPT !.current = Fresh, !.queued = FALSE] \in TaskDocs
    BY <2>2 DEF TaskDocs
  <2>4. tasks' \in [TaskId -> TaskDocs] BY <2>1, <2>3
  <2>5. HasTask' /\ GoodLocals' BY <2>1 DEF HasTask, Exists, GoodLocals
  <2> QED BY <2>1, <2>4, <2>5
<1>5. ASSUME DeleteTask(c) PROVE TypeInv'
  <2>1. tasks' = [t \in TaskId |->
          IF Stored(t) /\ t \in Namesakes(proc[c].t)
          THEN [tasks[t] EXCEPT !.deleted = TRUE] ELSE tasks[t]]
    BY <1>5 DEF DeleteTask
  <2>2. \A t \in TaskId : [tasks[t] EXCEPT !.deleted = TRUE] \in TaskDocs BY DEF TaskDocs
  <2>3. tasks' \in [TaskId -> TaskDocs] BY <2>1, <2>2
  <2>4. HasTask' BY <1>5 DEF DeleteTask, HasTask, Exists
  <2> QED BY <1>5, <2>3, <2>4, RestGood, TypeStep DEF DeleteTask
<1> QED BY <1>1, <1>2, <1>3, <1>4, <1>5 DEF ClientStep

\* The fixer.
LEMMA FixTypes ==
  ASSUME TypeInv, NEW f \in Fixer,
         \/ \E t \in TaskId : FixTask(f, t)
         \/ Lookup(f)
         \/ \E a \in AttemptId : FixAttempt(f, a)
  PROVE  TypeInv'
<1> f \in Proc BY DEF Proc
<1> USE DEF TypeInv, TypeOK
<1>0. Good(proc[f]) /\ proc[f] \in Locals BY DEF GoodLocals, Good
<1>1. ASSUME NEW t \in TaskId, FixTask(f, t) PROVE TypeInv'
  BY <1>1, BeginGood, LocalStep DEF FixTask
<1>2. ASSUME Lookup(f) PROVE TypeInv'
  <2>1. proc[f].pc = "lookup" BY <1>2 DEF Lookup, At
  <2>2. Good([proc[f] EXCEPT !.pc = "purge"])
    BY <1>0, <2>1, GotoGood DEF Steps, BusySteps, Good
  <2> QED BY <1>2, <2>2, RestGood, LocalStep DEF Lookup, Goto
<1>3. ASSUME NEW a \in AttemptId, FixAttempt(f, a) PROVE TypeInv'
  <2> DEFINE l == [Rest EXCEPT !.pc = "read", !.a = a, !.t = attempts[a].task,
                               !.out = attempts[a].status]
  <2>1. Finished(a) /\ Become(f, l) BY <1>3 DEF FixAttempt
  <2>2. attempts[a].status \in {"success", "error"} /\ attempts[a].task \in TaskId \cup {None}
    BY <2>1 DEF Finished, AttemptDocs
  <2>3. l \in Locals BY <2>2, RestGood DEF Good, Locals, Steps
  <2>4. l.pc = "read" BY DEF Rest
  <2>5. Good(l) BY <2>3, <2>4 DEF Good, BusySteps
  <2> QED BY <1>3, <2>1, <2>5, LocalStep DEF FixAttempt
<1> QED BY <1>1, <1>2, <1>3

\* The cleaner.
LEMMA CleanTypes ==
  ASSUME TypeInv,
         \/ \E k \in Cleaner : RemoveAttempt(k) \/ \E a \in AttemptId : CleanAttempt(k, a)
         \/ \E t \in TaskId : CleanTask(t)
         \/ \E a \in AttemptId : CleanFinished(a)
  PROVE  TypeInv'
<1> USE DEF TypeInv, TypeOK
<1>0. NoAttempt \in AttemptDocs BY DEF NoAttempt, AttemptDocs, Statuses
<1>1. ASSUME NEW k \in Cleaner, RemoveAttempt(k) PROVE TypeInv'
  <2> k \in Proc BY DEF Proc
  <2>1. attempts' = [attempts EXCEPT ![proc[k].a] = NoAttempt] BY <1>1 DEF RemoveAttempt
  <2>2. attempts' \in [AttemptId -> AttemptDocs] BY <1>0, <2>1
  <2>3. HasTask' BY <2>1 DEF HasTask, Exists, NoAttempt
  <2> QED BY <1>1, <2>2, <2>3, RestGood, TypeStep DEF RemoveAttempt
<1>2. ASSUME NEW k \in Cleaner, NEW a \in AttemptId, CleanAttempt(k, a) PROVE TypeInv'
  <2> k \in Proc BY DEF Proc
  <2> DEFINE q == QueueOf[attempts[a].task]
             l == [Rest EXCEPT !.pc = "remove", !.a = a]
  <2>1. /\ Exists(a) /\ slots' = [slots EXCEPT ![q] = Release(slots[q], a)] /\ Become(k, l)
    BY <1>2 DEF CleanAttempt
  <2>2. q \in QueueId BY <2>1, EngineAssumption DEF HasTask
  <2>3. Release(slots[q], a) \in SlotsOf(AttemptId) BY <2>2 DEF Release, SlotsOf
  <2>4. slots' \in [QueueId -> SlotsOf(AttemptId)] BY <2>1, <2>3
  <2>5. l \in Locals BY RestGood DEF Good, Locals, Steps
  <2>6. l.pc = "remove" BY DEF Rest
  <2>7. Good(l) BY <2>5, <2>6 DEF Good, BusySteps
  <2>8. HasTask' BY <1>2 DEF CleanAttempt, HasTask, Exists
  <2> QED BY <1>2, <2>1, <2>4, <2>7, <2>8, TypeStep DEF CleanAttempt
<1>3. ASSUME NEW t \in TaskId, CleanTask(t) PROVE TypeInv'
  <2>1. tasks' \in [TaskId -> TaskDocs] BY <1>3, NoTaskTyped DEF CleanTask
  <2> QED BY <1>3, <2>1 DEF CleanTask, GoodLocals, HasTask, Exists
<1>4. ASSUME NEW a \in AttemptId, CleanFinished(a) PROVE TypeInv'
  <2>1. attempts' = [attempts EXCEPT ![a] = NoAttempt] BY <1>4 DEF CleanFinished
  <2>2. attempts' \in [AttemptId -> AttemptDocs] BY <1>0, <2>1
  <2>3. HasTask' BY <2>1 DEF HasTask, Exists, NoAttempt
  <2> QED BY <1>4, <2>2, <2>3 DEF CleanFinished, GoodLocals
<1> QED BY <1>1, <1>2, <1>3, <1>4

\* Deaths and errors.
LEMMA FailTypes ==
  ASSUME TypeInv, NEW p \in Proc, Crash(p) \/ NewAttemptFails(p) PROVE TypeInv'
<1> USE DEF TypeInv, TypeOK
<1>1. Good(proc[p]) BY DEF GoodLocals
<1>2. crashes' \in Nat BY DEF Crash, NewAttemptFails, MayFail
<1>3. ASSUME Crash(p) PROVE TypeInv' BY <1>2, <1>3, RestGood, LocalStep DEF Crash
<1>4. ASSUME NewAttemptFails(p) PROVE TypeInv'
  BY <1>1, <1>2, <1>4, AfterGood, LocalStep DEF NewAttemptFails
<1> QED BY <1>3, <1>4

\* Every step keeps the types, by the lemmas above.
LEMMA TypeNext == TypeInv /\ [Next]_vars => TypeInv'
<1> SUFFICES ASSUME TypeInv, [Next]_vars PROVE TypeInv' OBVIOUS
<1>1. ASSUME NEW p \in Proc, GoesOn(p) PROVE TypeInv'
  BY <1>1, LeaseTypes, DoTypes, NextAttemptTypes, NewAttemptTypes, CallTypes, FixTypes,
     CleanTypes DEF GoesOn, WorkerGoesOn
<1>2. ASSUME NEW p \in Proc, Crash(p) \/ NewAttemptFails(p) PROVE TypeInv'
  BY <1>2, FailTypes
<1>3. ASSUME NEW w \in Worker, NEW a \in AttemptId, Reserve(w, a) PROVE TypeInv'
  BY <1>3, LeaseTypes
<1>4. ASSUME NEW c \in Client, ClientStep(c) PROVE TypeInv'
  BY <1>4, CallTypes
<1>5. ASSUME NEW f \in Fixer, \/ \E t \in TaskId : FixTask(f, t)
                              \/ \E a \in AttemptId : FixAttempt(f, a)
      PROVE  TypeInv'
  BY <1>5, FixTypes
<1>6. ASSUME \/ \E k \in Cleaner, a \in AttemptId : CleanAttempt(k, a)
             \/ \E t \in TaskId : CleanTask(t)
             \/ \E a \in AttemptId : CleanFinished(a)
      PROVE  TypeInv'
  BY <1>6, CleanTypes
<1>7. ASSUME NEW a \in AttemptId, Due(a) PROVE TypeInv'
  BY <1>7, DueTypes
<1>8. ASSUME UNCHANGED vars PROVE TypeInv'
  BY <1>8 DEF vars, TypeInv, TypeOK, GoodLocals, HasTask, Exists
<1> QED BY <1>1, <1>2, <1>3, <1>4, <1>5, <1>6, <1>7, <1>8 DEF Next

\* Every reachable state of Engine is of its types: documents, slots and what
\* the processes hold, whatever interleaves and whoever dies.
THEOREM EngineTypes == Spec => []TypeOK
<1>1. TypeInv => TypeOK BY DEF TypeInv
<1> QED BY TypeInit, TypeNext, <1>1, PTL DEF Spec
-----------------------------------------------------------------------------
(* The limit of a queue.  The code counts slots, not executions: what makes *)
(* the two agree is that a lease is exclusive, that who executes holds a    *)
(* slot under his attempt, and that nobody else gives that slot back.  The  *)
(* last holds without a cleaner only.                                       *)

Busy(w) == proc[w].pc \in BusySteps

\* A worker's attempt is stored, its lease has not lapsed, and it is his alone.
Leases ==
  \A w \in Worker : Busy(w) =>
    /\ Exists(proc[w].a) /\ ~attempts[proc[w].a].due
    /\ \A v \in Worker : Busy(v) /\ proc[v].a = proc[w].a => v = w

\* The slots of a queue are counted, and none is negative.
Counted ==
  \A q \in QueueId :
    Sound(slots[q], AttemptId) /\ slots[q].max = Limit[q] /\ slots[q].available >= 0

\* Who executes holds a slot.
HoldsSlot ==
  \A w \in Worker : At(w, "http") => Holds(slots[QueueOf[proc[w].t]], proc[w].a)

LimitInv == TypeInv /\ Leases /\ Counted /\ HoldsSlot

\* No attempt goes away, none becomes ready.
Keeps ==
  \A a \in AttemptId : Exists(a) => Exists(a)' /\ (attempts'[a].due => attempts[a].due)

\* A step that leaves slots and leases alone and starts no execution.
LEMMA QuietStep ==
  ASSUME LimitInv, TypeInv', Keeps, UNCHANGED slots,
         \A w \in Worker : Busy(w)' =>
           /\ Busy(w) /\ proc'[w].a = proc[w].a /\ proc'[w].t = proc[w].t
           /\ At(w, "http")' => At(w, "http")
  PROVE  LimitInv'
<1>1. \A w \in Worker : Busy(w) => proc[w].a \in AttemptId
  BY DEF LimitInv, TypeInv, GoodLocals, Good, Busy, Proc
<1>2. Leases' BY <1>1 DEF LimitInv, Leases, Keeps
<1>3. Counted' BY DEF LimitInv, Counted
<1>4. HoldsSlot' BY DEF LimitInv, HoldsSlot, At, Busy, BusySteps
<1> QED BY <1>2, <1>3, <1>4 DEF LimitInv

\* In particular one after which the process is not busy.
LEMMA IdleStep ==
  ASSUME LimitInv, TypeInv', Keeps, UNCHANGED slots,
         NEW p \in Proc, NEW l, Become(p, l), l.pc \notin BusySteps
  PROVE  LimitInv'
<1>1. \A x \in Proc : proc'[x] = IF x = p THEN l ELSE proc[x]
  BY DEF Become, LimitInv, TypeInv, TypeOK
<1>2. \A w \in Worker : Busy(w)' => proc'[w] = proc[w] BY <1>1 DEF Busy, Proc
<1> QED BY <1>2, QuietStep DEF Busy, At

\* Steps that write no attempt.
LEMMA KeepsUnchanged == UNCHANGED attempts => Keeps
BY DEF Keeps, Exists

\* The worker's steps that need a look: the lease, the slot taken, used and
\* given back.
LEMMA LeaseLimit ==
  ASSUME LimitInv, TypeInv', NEW w \in Worker, NEW a \in AttemptId, Reserve(w, a)
  PROVE  LimitInv'
<1> USE DEF LimitInv, TypeInv, TypeOK
<1>0. w \in Proc /\ proc[w] \in Locals BY DEF GoodLocals, Good, Proc
<1>1. attempts' = [attempts EXCEPT ![a].status = "running", ![a].due = FALSE]
  BY DEF Reserve
<1>2. Exists(a) /\ attempts[a].due BY DEF Reserve, Ready, InPlay, Exists
<1>3. proc' = [proc EXCEPT ![w] = [proc[w] EXCEPT !.pc = "count", !.a = a, !.t = attempts[a].task]]
  BY DEF Reserve, Become
<1>4. \A v \in Worker : v # w => proc'[v] = proc[v] BY <1>3 DEF Proc
<1>5. proc'[w].a = a /\ proc'[w].pc = "count" BY <1>0, <1>3 DEF Locals
<1>6. \A v \in Worker : Busy(v) => proc[v].a # a BY <1>2 DEF Leases
<1>7. \A b \in AttemptId : b # a => attempts'[b] = attempts[b] BY <1>1
<1>8. Exists(a)' /\ ~attempts'[a].due BY <1>1 DEF Exists, AttemptDocs
<1>9. \A v \in Worker : Busy(v) => proc[v].a \in AttemptId BY DEF GoodLocals, Good, Busy, Proc
<1>10. Leases' BY <1>4, <1>5, <1>6, <1>7, <1>8, <1>9 DEF Leases, Busy, Exists
<1>11. Counted' BY DEF Reserve, Counted
<1>12. HoldsSlot' BY <1>4, <1>5 DEF Reserve, HoldsSlot, At
<1> QED BY <1>10, <1>11, <1>12

\* A step by which a busy worker stays busy with its attempt keeps the leases.
LEMMA BusyStep ==
  ASSUME LimitInv, TypeInv', NEW w \in Worker, Busy(w), NEW step \in BusySteps,
         proc' = [proc EXCEPT ![w].pc = step], UNCHANGED attempts
  PROVE  /\ Leases'
         /\ \A v \in Worker : v # w => proc'[v] = proc[v]
         /\ proc'[w].pc = step /\ proc'[w].a = proc[w].a /\ proc'[w].t = proc[w].t
         /\ proc[w].a \in AttemptId /\ QueueOf[proc[w].t] \in QueueId
<1> USE DEF LimitInv, TypeInv, TypeOK
<1>0. w \in Proc /\ Good(proc[w]) /\ proc[w] \in Locals BY DEF GoodLocals, Good, Proc
<1>1. \A v \in Worker : v # w => proc'[v] = proc[v] BY DEF Proc
<1>2. proc'[w].pc = step /\ proc'[w].a = proc[w].a /\ proc'[w].t = proc[w].t
  BY <1>0 DEF Locals
<1>3. Leases' BY <1>1, <1>2 DEF Leases, Busy, Exists
<1>4. proc[w].a \in AttemptId /\ QueueOf[proc[w].t] \in QueueId
  BY <1>0, EngineAssumption DEF Good, Busy
<1> QED BY <1>1, <1>2, <1>3, <1>4

\* The slot: taken only when one is free, given back only by its holder.
LEMMA SlotLimit ==
  ASSUME LimitInv, TypeInv', NEW w \in Worker,
         EnQueueCount(w) \/ EnQueueAdmit(w) \/ DeQueue(w)
  PROVE  LimitInv'
<1> DEFINE q == QueueOf[proc[w].t]
           a == proc[w].a
<1> USE DEF LimitInv
<1>1. CASE EnQueueCount(w)
  <2> DEFINE step == IF Holds(slots[q], a) THEN "http" ELSE "push"
  <2>1. proc' = [proc EXCEPT ![w].pc = step] /\ Busy(w) /\ UNCHANGED <<attempts, slots>>
    BY <1>1 DEF EnQueueCount, Goto, Become, At, Busy, BusySteps
  <2>2. step \in BusySteps BY DEF BusySteps
  <2>3. step = "http" => Holds(slots[q], a) OBVIOUS
  <2> HIDE DEF step
  <2>4. /\ Leases' /\ proc'[w].pc = step /\ proc'[w].a = a /\ proc'[w].t = proc[w].t
        /\ \A v \in Worker : v # w => proc'[v] = proc[v]
    BY <2>1, <2>2, BusyStep
  <2>5. HoldsSlot' BY <2>1, <2>3, <2>4 DEF HoldsSlot, At
  <2>6. Counted' BY <2>1 DEF Counted
  <2> QED BY <2>4, <2>5, <2>6
<1>2. CASE EnQueueAdmit(w)
  <2>1. /\ proc' = [proc EXCEPT ![w].pc = "http"] /\ Busy(w) /\ UNCHANGED attempts
        /\ CanAdmit(slots[q], a) /\ slots' = [slots EXCEPT ![q] = Admit(slots[q], a)]
    BY <1>2 DEF EnQueueAdmit, Goto, Become, At, Busy, BusySteps
  <2>2. /\ Leases' /\ proc'[w].pc = "http" /\ proc'[w].a = a /\ proc'[w].t = proc[w].t
        /\ \A v \in Worker : v # w => proc'[v] = proc[v]
        /\ a \in AttemptId /\ q \in QueueId
    BY <2>1, BusyStep DEF BusySteps
  <2>3. /\ Sound(Admit(slots[q], a), AttemptId)
        /\ Admit(slots[q], a).max = slots[q].max
        /\ Admit(slots[q], a).inflight = slots[q].inflight \cup {a}
    BY <2>1, <2>2, AdmitSound DEF Counted
  <2>4. Admit(slots[q], a).available >= 0
    BY <2>1, <2>2 DEF Admit, CanAdmit, Counted, Sound, SlotsOf
  <2>5. \A r \in QueueId : slots'[r] = IF r = q THEN Admit(slots[q], a) ELSE slots[r]
    BY <2>1 DEF TypeInv, TypeOK
  <2>6. Counted' BY <2>3, <2>4, <2>5 DEF Counted
  <2>7. \A v \in Worker : At(v, "http") => QueueOf[proc[v].t] \in QueueId
    BY EngineAssumption DEF At, TypeInv, GoodLocals, Good, BusySteps, Proc
  <2>8. HoldsSlot' BY <2>2, <2>3, <2>5, <2>7 DEF HoldsSlot, At, Holds
  <2> QED BY <2>2, <2>6, <2>8
<1>3. CASE DeQueue(w)
  <2>1. /\ proc' = [proc EXCEPT ![w].pc = "finish"] /\ Busy(w) /\ UNCHANGED attempts
        /\ slots' = [slots EXCEPT ![q] = Release(slots[q], a)]
    BY <1>3 DEF DeQueue, Goto, Become, At, Busy, BusySteps
  <2>2. /\ Leases' /\ proc'[w].pc = "finish" /\ proc'[w].a = a /\ proc'[w].t = proc[w].t
        /\ \A v \in Worker : v # w => proc'[v] = proc[v]
        /\ a \in AttemptId /\ q \in QueueId
    BY <2>1, BusyStep DEF BusySteps
  <2>3. /\ Sound(Release(slots[q], a), AttemptId)
        /\ Release(slots[q], a).max = slots[q].max
        /\ Release(slots[q], a).inflight = slots[q].inflight \ {a}
    BY <2>2, ReleaseSound DEF Counted
  <2>4. Release(slots[q], a).available >= 0
    BY <2>2 DEF Release, Counted, Sound, SlotsOf
  <2>5. \A r \in QueueId : slots'[r] = IF r = q THEN Release(slots[q], a) ELSE slots[r]
    BY <2>1 DEF TypeInv, TypeOK
  <2>6. Counted' BY <2>3, <2>4, <2>5 DEF Counted
  <2>7. \A v \in Worker : At(v, "http") => Busy(v) /\ QueueOf[proc[v].t] \in QueueId
    BY EngineAssumption DEF At, Busy, TypeInv, GoodLocals, Good, BusySteps, Proc
  <2>8. \A v \in Worker : v # w /\ Busy(v) => proc[v].a # a BY <2>1 DEF Leases
  <2>9. HoldsSlot' BY <2>2, <2>3, <2>5, <2>7, <2>8 DEF HoldsSlot, At, Holds
  <2> QED BY <2>2, <2>6, <2>9
<1> QED BY <1>1, <1>2, <1>3

\* The clock passes only dates that no worker's lease depends on.
LEMMA DueLimit ==
  ASSUME LimitInv, TypeInv', NEW a \in AttemptId, Due(a) PROVE LimitInv'
<1> USE DEF LimitInv
<1>1. attempts' = [attempts EXCEPT ![a].due = TRUE] /\ UNCHANGED <<proc, slots>> BY DEF Due
<1>2. \A w \in Worker : Busy(w) => proc[w].a # a BY DEF Due, Held, Busy, BusySteps
<1>3. \A b \in AttemptId : b # a => attempts'[b] = attempts[b] BY <1>1 DEF TypeInv, TypeOK
<1>4. \A w \in Worker : Busy(w) => proc[w].a \in AttemptId
  BY DEF TypeInv, GoodLocals, Good, Busy, Proc
<1>5. Leases' BY <1>1, <1>2, <1>3, <1>4 DEF Leases, Busy, Exists
<1> QED BY <1>1, <1>5 DEF Counted, HoldsSlot, At

\* The worker's other steps.
LEMMA WorkerLimit ==
  ASSUME LimitInv, TypeInv', NEW w \in Worker,
         \/ GiveUp(w) \/ EnQueueFull(w) \/ Reject(w) \/ FinishGone(w) \/ Finish(w)
         \/ \E result \in {"success", "error"} : Execute(w, result)
  PROVE  LimitInv'
<1> USE DEF LimitInv, TypeInv, TypeOK
<1>0. w \in Proc /\ proc[w] \in Locals /\ Good(proc[w]) BY DEF GoodLocals, Good, Proc
<1>1. CASE GiveUp(w) \/ EnQueueFull(w) \/ Reject(w) \/ FinishGone(w)
  <2>1. UNCHANGED <<attempts, slots>> BY <1>1 DEF GiveUp, EnQueueFull, Reject, FinishGone
  <2>2. \E l : Become(w, l) /\ l.pc = "idle"
    <3>1. CASE EnQueueFull(w)
      <4> DEFINE l == [Rest EXCEPT !.full = proc[w].full \cup {QueueOf[proc[w].t]}]
      <4>1. Become(w, l) BY <3>1 DEF EnQueueFull
      <4>2. l.pc = "idle" BY DEF Rest
      <4> QED BY <4>1, <4>2
    <3>2. CASE GiveUp(w) \/ Reject(w) \/ FinishGone(w)
      <4>1. Become(w, Rest) BY <3>2 DEF GiveUp, Reject, FinishGone
      <4>2. Rest.pc = "idle" BY DEF Rest
      <4> QED BY <4>1, <4>2
    <3> QED BY <1>1, <3>1, <3>2
  <2>3. PICK l : Become(w, l) /\ l.pc = "idle" BY <2>2
  <2>4. l.pc \notin BusySteps BY <2>3 DEF BusySteps
  <2> QED BY <1>0, <2>1, <2>3, <2>4, IdleStep, KeepsUnchanged
<1>2. CASE Finish(w)
  <2>1. attempts' = [attempts EXCEPT ![proc[w].a].status = proc[w].out] /\ proc[w].pc = "finish"
    BY <1>2 DEF Finish, At
  <2>2. proc[w].out \in {"success", "error"} BY <1>0, <2>1 DEF Good
  <2>3. Keeps BY <2>1, <2>2 DEF Keeps, Exists, AttemptDocs
  <2> DEFINE l == [proc[w] EXCEPT !.pc = "read"]
  <2>4. Become(w, l) /\ UNCHANGED slots BY <1>2 DEF Finish, Goto
  <2>5. l.pc \notin BusySteps BY <1>0 DEF Locals, BusySteps
  <2> QED BY <1>0, <2>3, <2>4, <2>5, IdleStep
<1>3. ASSUME NEW result \in {"success", "error"}, Execute(w, result) PROVE LimitInv'
  <2> DEFINE l == [proc[w] EXCEPT !.pc = "dequeue", !.out = result]
  <2>1. /\ proc' = [proc EXCEPT ![w] = l] /\ proc[w].pc = "http"
        /\ UNCHANGED <<attempts, slots>>
    BY <1>3 DEF Execute, Become, At
  <2>2. l.pc = "dequeue" /\ l.a = proc[w].a /\ l.t = proc[w].t BY <1>0 DEF Locals
  <2> HIDE DEF l
  <2>3. \A v \in Worker : Busy(v)' =>
          /\ Busy(v) /\ proc'[v].a = proc[v].a /\ proc'[v].t = proc[v].t
          /\ At(v, "http")' => At(v, "http")
    BY <1>0, <2>1, <2>2 DEF Busy, BusySteps, At, Proc
  <2> QED BY <2>1, <2>3, QuietStep, KeepsUnchanged
<1> QED BY <1>1, <1>2, <1>3

\* NextAttemptForTask and NewAttempt add attempts and remove none.
LEMMA NextAttemptLimit ==
  ASSUME LimitInv, TypeInv', NEW p \in Proc,
         \/ ReadTask(p) \/ TaskGone(p) \/ Apply(p) \/ Ack(p)
         \/ Purge(p) \/ Insert(p) \/ InsertDup(p) \/ Mark(p)
  PROVE  LimitInv'
<1> USE DEF LimitInv, TypeInv, TypeOK
<1>0. proc[p] \in Locals /\ Good(proc[p]) BY DEF GoodLocals, Good
<1>1. Rest.pc \notin BusySteps /\ AfterNewAttempt(p).pc \notin BusySteps
  BY <1>0, AfterGood DEF Rest, BusySteps
<1>2. \A step \in {"apply", "insert", "mark"} : [proc[p] EXCEPT !.pc = step].pc \notin BusySteps
  BY <1>0 DEF Locals, BusySteps
<1>3. CASE ReadTask(p)
  <2> DEFINE l == [proc[p] EXCEPT !.pc = "apply", !.copy = CopyOf(tasks[proc[p].t])]
  <2>1. Become(p, l) /\ UNCHANGED <<attempts, slots>> BY <1>3 DEF ReadTask
  <2>2. l.pc \notin BusySteps BY <1>0 DEF Locals, BusySteps
  <2> QED BY <2>1, <2>2, IdleStep, KeepsUnchanged
<1>4. CASE TaskGone(p) BY <1>1, <1>4, IdleStep, KeepsUnchanged DEF TaskGone
<1>5. CASE Apply(p)
  <2>1. UNCHANGED <<attempts, slots>> BY <1>5 DEF Apply
  <2> DEFINE l(step, c) == [Rest EXCEPT !.pc = step, !.a = proc[p].a, !.t = proc[p].t,
                                        !.copy = c]
  <2>2. PICK step \in {"purge", "ack"} : \E c : Become(p, l(step, c)) BY <1>5 DEF Apply
  <2>3. PICK c : Become(p, l(step, c)) BY <2>2
  <2>4. l(step, c).pc \notin BusySteps BY DEF Rest, BusySteps
  <2> QED BY <2>1, <2>3, <2>4, IdleStep, KeepsUnchanged
<1>6. CASE Ack(p)
  <2>1. attempts' = IF Exists(proc[p].a) THEN [attempts EXCEPT ![proc[p].a].acked = TRUE]
                    ELSE attempts
    BY <1>6 DEF Ack
  <2>2. Keeps BY <2>1 DEF Keeps, Exists, AttemptDocs
  <2> QED BY <1>1, <1>6, <2>2, IdleStep DEF Ack
<1>7. CASE Purge(p)
  <2>1. attempts' = [a \in AttemptId |->
          IF attempts[a].task = proc[p].t /\ attempts[a].status = "pending"
          THEN [attempts[a] EXCEPT !.deleted = TRUE] ELSE attempts[a]]
    BY <1>7 DEF Purge
  <2>2. Keeps BY <2>1 DEF Keeps, Exists, AttemptDocs
  <2> QED BY <1>1, <1>2, <1>7, <2>2, IdleStep DEF Purge, Goto
<1>8. CASE Insert(p)
  <2> DEFINE new == proc[p].copy.current
  <2>1. ~Exists(new) /\ \A a \in AttemptId : a # new => attempts'[a] = attempts[a]
    BY <1>8 DEF Insert
  <2>2. Keeps BY <2>1 DEF Keeps, Exists
  <2> QED BY <1>2, <1>8, <2>2, IdleStep DEF Insert, Goto
<1>9. CASE InsertDup(p) BY <1>1, <1>9, IdleStep, KeepsUnchanged DEF InsertDup
<1>10. CASE Mark(p) BY <1>1, <1>10, IdleStep, KeepsUnchanged DEF Mark
<1> QED BY <1>3, <1>4, <1>5, <1>6, <1>7, <1>8, <1>9, <1>10

\* Clients flag attempts and remove none; fixers start no execution.
LEMMA OthersLimit ==
  ASSUME LimitInv, TypeInv', NEW p \in Proc,
         \/ ClientStep(p) \/ DeleteTask(p) \/ Lookup(p)
         \/ \E t \in TaskId : FixTask(p, t)
         \/ \E a \in AttemptId : FixAttempt(p, a)
         \/ Crash(p) \/ NewAttemptFails(p)
  PROVE  LimitInv'
<1> USE DEF LimitInv, TypeInv, TypeOK
<1>0. proc[p] \in Locals /\ Good(proc[p]) BY DEF GoodLocals, Good
<1>1. Rest.pc \notin BusySteps /\ AfterNewAttempt(p).pc \notin BusySteps
  BY <1>0, AfterGood DEF Rest, BusySteps
<1>2. \A step \in {"insert", "purge", "lookup"} : \A t, copy :
        [Rest EXCEPT !.pc = step, !.t = t, !.copy = copy].pc \notin BusySteps
  BY DEF Rest, BusySteps
<1>3. ASSUME NEW t \in TaskId, NEW schedule \in Schedules, NEW active \in Actives,
             PutNew(p, t, schedule, active) \/ PutAgain(p, t, schedule, active)
      PROVE  LimitInv'
  <2>1. UNCHANGED <<attempts, slots>> BY <1>3 DEF PutNew, PutAgain
  <2>2. \/ Become(p, Rest)
        \/ \E step \in {"insert", "purge"} : \E copy :
             Become(p, [Rest EXCEPT !.pc = step, !.t = t, !.copy = copy])
    BY <1>3 DEF PutNew, PutAgain
  <2> QED BY <1>1, <1>2, <2>1, <2>2, IdleStep, KeepsUnchanged
<1>4. ASSUME NEW t \in TaskId, DeleteAttempts(p, t) PROVE LimitInv'
  <2> DEFINE l == [Rest EXCEPT !.pc = "delete", !.t = t]
  <2>1. attempts' = [a \in AttemptId |->
          IF Exists(a) /\ attempts[a].task \in Namesakes(t)
          THEN [attempts[a] EXCEPT !.deleted = TRUE] ELSE attempts[a]]
    BY <1>4 DEF DeleteAttempts
  <2>2. Keeps BY <2>1 DEF Keeps, Exists, AttemptDocs
  <2>3. Become(p, l) /\ UNCHANGED slots BY <1>4 DEF DeleteAttempts
  <2>4. l.pc \notin BusySteps BY DEF Rest, BusySteps
  <2> QED BY <2>2, <2>3, <2>4, IdleStep
<1>5. ASSUME NEW t \in TaskId, ForceAttempt(p, t) PROVE LimitInv'
  <2>1. UNCHANGED <<attempts, slots, proc>> BY <1>5 DEF ForceAttempt
  <2> QED BY <2>1, QuietStep, KeepsUnchanged DEF Busy, At
<1>6. CASE DeleteTask(p) BY <1>1, <1>6, IdleStep, KeepsUnchanged DEF DeleteTask
<1>7. CASE Lookup(p)
  <2>1. [proc[p] EXCEPT !.pc = "purge"].pc \notin BusySteps BY <1>0 DEF Locals, BusySteps
  <2> QED BY <1>1, <1>7, <2>1, IdleStep, KeepsUnchanged DEF Lookup, Goto
<1>8. ASSUME NEW t \in TaskId, FixTask(p, t) PROVE LimitInv'
  BY <1>2, <1>8, IdleStep, KeepsUnchanged DEF FixTask
<1>9. ASSUME NEW a \in AttemptId, FixAttempt(p, a) PROVE LimitInv'
  <2> DEFINE l == [Rest EXCEPT !.pc = "read", !.a = a, !.t = attempts[a].task,
                               !.out = attempts[a].status]
  <2>1. Become(p, l) /\ UNCHANGED <<attempts, slots>> BY <1>9 DEF FixAttempt
  <2>2. l.pc \notin BusySteps BY DEF Rest, BusySteps
  <2> QED BY <2>1, <2>2, IdleStep, KeepsUnchanged
<1>10. CASE Crash(p) \/ NewAttemptFails(p)
  BY <1>1, <1>10, IdleStep, KeepsUnchanged DEF Crash, NewAttemptFails
<1> QED BY <1>3, <1>4, <1>5, <1>6, <1>7, <1>8, <1>9, <1>10 DEF ClientStep

\* A step that is not the cleaner's.
NoCleaning ==
  /\ \A k \in Cleaner : ~RemoveAttempt(k) /\ \A a \in AttemptId : ~CleanAttempt(k, a)
  /\ \A t \in TaskId : ~CleanTask(t)
  /\ \A a \in AttemptId : ~CleanFinished(a)

LEMMA NoCleaner == Cleaner = {} => NoCleaning
BY DEF NoCleaning, CleanTask, CleanFinished

\* Every step but the cleaner's keeps the limit, by the lemmas above.
LEMMA LimitNext ==
  ASSUME NoCleaning, LimitInv, [Next]_vars
  PROVE  LimitInv'
<1>0. TypeInv' BY TypeNext DEF LimitInv
<1>1. ASSUME NEW p \in Proc, GoesOn(p) PROVE LimitInv'
  BY <1>0, <1>1, SlotLimit, WorkerLimit, NextAttemptLimit, OthersLimit
  DEF GoesOn, WorkerGoesOn, NoCleaning
<1>2. ASSUME NEW p \in Proc, Crash(p) \/ NewAttemptFails(p) PROVE LimitInv'
  BY <1>0, <1>2, OthersLimit
<1>3. ASSUME NEW w \in Worker, NEW a \in AttemptId, Reserve(w, a) PROVE LimitInv'
  BY <1>0, <1>3, LeaseLimit
<1>4. ASSUME NEW c \in Client, ClientStep(c) PROVE LimitInv'
  BY <1>0, <1>4, OthersLimit DEF Proc
<1>5. ASSUME NEW f \in Fixer, \/ \E t \in TaskId : FixTask(f, t)
                              \/ \E a \in AttemptId : FixAttempt(f, a)
      PROVE  LimitInv'
  BY <1>0, <1>5, OthersLimit DEF Proc
<1>6. /\ \A t \in TaskId : ~CleanTask(t)
      /\ \A a \in AttemptId : ~CleanFinished(a)
      /\ \A k \in Cleaner, a \in AttemptId : ~CleanAttempt(k, a)
  BY DEF NoCleaning
<1>7. ASSUME NEW a \in AttemptId, Due(a) PROVE LimitInv'
  BY <1>0, <1>7, DueLimit
<1>8. ASSUME UNCHANGED vars PROVE LimitInv'
  BY <1>0, <1>8, QuietStep, KeepsUnchanged DEF vars, Busy, At
<1> QED BY <1>1, <1>2, <1>3, <1>4, <1>5, <1>6, <1>7, <1>8 DEF Next

\* A new queue has all its slots free.
LEMMA NewSlotsFull == \A n \in Nat : NewSlots(n).max = n /\ NewSlots(n).available = n
BY DEF NewSlots

\* Before anything happened all slots are free.
LEMMA LimitInit ==
  ASSUME Limit \in [QueueId -> Nat] PROVE Init => LimitInv
<1> SUFFICES ASSUME Init PROVE LimitInv OBVIOUS
<1>1. \A w \in Worker : proc[w].pc = "idle" BY DEF Init, Rest, Proc
<1>2. Leases /\ HoldsSlot BY <1>1 DEF Leases, HoldsSlot, Busy, BusySteps, At
<1>3. \A q \in QueueId : slots[q] = NewSlots(Limit[q]) /\ Limit[q] \in Nat BY DEF Init
<1>4. \A q \in QueueId : Sound(slots[q], AttemptId) BY <1>3, NewSlotsSound
<1>5. \A q \in QueueId : slots[q].max = Limit[q] /\ slots[q].available = Limit[q]
  BY <1>3, NewSlotsFull
<1>6. \A q \in QueueId : slots[q].available >= 0
  <2> TAKE q \in QueueId
  <2>1. slots[q].available \in Nat BY <1>3, <1>5
  <2> QED BY <2>1
<1>7. Counted BY <1>4, <1>5, <1>6 DEF Counted
<1> QED BY <1>2, <1>7, TypeInit DEF LimitInv

\* Executions of a queue map one to one to slots in use.
LEMMA LimitHolds == ASSUME LimitInv PROVE ConcurrencyLimit
<1> SUFFICES ASSUME NEW q \in QueueId PROVE Cardinality(Executing(q)) <= Limit[q]
  BY DEF ConcurrencyLimit
<1> DEFINE I == slots[q].inflight
           f == [w \in Executing(q) |-> proc[w].a]
<1>1. IsFiniteSet(I) /\ Cardinality(I) \in Nat BY FS_CardinalityType DEF LimitInv, Counted, Sound
<1>2. \A w \in Executing(q) : proc[w].a \in I
  BY DEF Executing, LimitInv, HoldsSlot, Holds
<1>3. \A v, w \in Executing(q) : proc[v].a = proc[w].a => v = w
  BY DEF Executing, LimitInv, Leases, Busy, BusySteps, At
<1>4. f \in Injection(Executing(q), I)
  BY <1>2, <1>3 DEF Injection, IsInjective
<1>5. Cardinality(Executing(q)) <= Cardinality(I) /\ IsFiniteSet(Executing(q))
  BY <1>1, <1>4, FS_Injection
<1>6. Cardinality(Executing(q)) \in Nat BY <1>5, FS_CardinalityType
<1>7. Cardinality(I) <= Limit[q]
  <2>1. /\ slots[q].available \in Int /\ slots[q].max \in Int
        /\ slots[q].available = slots[q].max - Cardinality(I)
        /\ slots[q].max = Limit[q] /\ slots[q].available >= 0
    BY DEF LimitInv, Counted, Sound, BalancedSlots, SlotsOf
  <2> QED BY <1>1, <2>1
<1>8. Limit[q] \in Int BY EngineAssumption
<1> QED BY <1>1, <1>5, <1>6, <1>7, <1>8

\* Without a cleaner no queue ever executes more attempts at once than its
\* max_in_flight, for any number of workers, fixers and clients and wherever
\* they die (models/queue.go EnQueue and DeQueue under models/attempt.go).
THEOREM LimitAlways ==
  ASSUME Cleaner = {}, Limit \in [QueueId -> Nat]
  PROVE  Spec => []ConcurrencyLimit
<1>1. Init => LimitInv BY LimitInit
<1>2. LimitInv /\ [Next]_vars => LimitInv' BY NoCleaner, LimitNext
<1>3. LimitInv => ConcurrencyLimit BY LimitHolds
<1> QED BY <1>1, <1>2, <1>3, PTL DEF Spec
=============================================================================
