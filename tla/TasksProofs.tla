---------------------------- MODULE TasksProofs ----------------------------
(***************************************************************************)
(* The life of a task in Engine, from its PUT to its last attempt: there   *)
(* is always somebody who will look after it, its attempts come one after  *)
(* the other, no more than max_attempts of them, and none after a success. *)
(*                                                                         *)
(* All four are one argument about whose turn it is (LifeInv).  It holds   *)
(* where nobody writes the task from a copy that has become stale: without *)
(* PUTs of an existing task or forced attempts, with one fixer, and with   *)
(* no process lost between its update of the task and its acknowledgement; *)
(* and with a cleaner, as long as nothing is deleted.                      *)
(***************************************************************************)
EXTENDS ResultsProofs

OneFixer == \A f, g \in Fixer : f = g

\* No copy of a task becomes stale, and no deletion meets a cleaner.
Undisturbed ==
  /\ OneFixer
  /\ LateCrashes = FALSE
  /\ Calls \subseteq {"create", "delete"}
  /\ Cleaner = {} \/ Calls \subseteq {"create"}
-----------------------------------------------------------------------------
(* Whose turn it is *)

\* Has updated its task for the attempt l.a and will acknowledge it.
HandsOver(l) == l.a # None /\ l.pc \in {"purge", "insert", "mark", "ack"}

Acting(l) == l.pc \in {"read", "apply"}

\* Will insert the attempt its task wants.
Making(l) == l.pc \in {"purge", "insert"} \/ (l.pc = "lookup" /\ ~Exists(l.copy.current))

On(l) == Acting(l) \/ Making(l)

\* What process p knows of the documents in local state l.
Knows(p, l) ==
  /\ l.a # None => Exists(l.a) /\ attempts[l.a].task = l.t /\ p \in Worker \cup Fixer
  /\ l.pc = "lookup" => p \in Fixer
  /\ Acting(l) => /\ l.a # None /\ l.a = tasks[l.t].current
                  /\ ~attempts[l.a].acked /\ l.out = attempts[l.a].status
  /\ l.pc = "apply" => l.copy = CopyOf(tasks[l.t])
  /\ HandsOver(l) => l.a # tasks[l.t].current
  /\ Making(l) => /\ Stored(l.t) /\ ~Exists(l.copy.current)
                  /\ l.copy.current = tasks[l.t].current
                  /\ l.copy.active => tasks[l.t].active
  /\ l.pc = "insert" => l.copy.active

Known == \A p \in Proc : Knows(p, proc[p])

\* One process at a time is on a task.
Alone == \A p, q \in Proc : On(proc[p]) /\ On(proc[q]) /\ proc[p].t = proc[q].t => p = q

\* The attempt a task wants is its own.
Owned ==
  /\ \A t, u \in TaskId :
       Stored(t) /\ Stored(u) /\ tasks[t].current = tasks[u].current => t = u
  /\ \A t \in TaskId :
       Stored(t) /\ Exists(tasks[t].current) => attempts[tasks[t].current].task = t
  /\ \A a \in AttemptId : Exists(a) => Stored(attempts[a].task)

\* The other attempts of a task are done with, or about to be.
InTurn ==
  \A a \in AttemptId : Exists(a) /\ a # tasks[attempts[a].task].current =>
    Finished(a) /\ (attempts[a].acked \/ \E p \in Proc : proc[p].a = a /\ HandsOver(proc[p]))

\* The result of the attempt a task wants is still to be acted on.
Outstanding ==
  \A a \in AttemptId : Exists(a) /\ attempts[a].acked => a # tasks[attempts[a].task].current

StillActive == \A t \in TaskId : Stored(t) /\ Exists(tasks[t].current) => tasks[t].active

\* The attempts of a task that does not recur, against its counter, where their
\* number is limited.
Spent ==
  MaxAttempts > 0 =>
    \A t \in TaskId : Stored(t) /\ ~tasks[t].schedule =>
      /\ IsFiniteSet(AttemptsOf(t)) /\ Cardinality(AttemptsOf(t)) <= MaxAttempts
      /\ tasks[t].active =>
           /\ tasks[t].retry + 1 <= MaxAttempts
           /\ Cardinality(AttemptsOf(t)) <= tasks[t].retry + 1
           /\ ~Exists(tasks[t].current) => Cardinality(AttemptsOf(t)) <= tasks[t].retry

\* It goes on after errors only.
Succeeded ==
  \A t \in TaskId : Stored(t) /\ ~tasks[t].schedule =>
    \A a \in AttemptsOf(t) :
      attempts[a].status = "success" /\ a # tasks[t].current => ~tasks[t].active

LifeInv ==
  /\ Known /\ Alone /\ Owned /\ InTurn /\ Outstanding
  /\ StillActive /\ Spent /\ Succeeded
-----------------------------------------------------------------------------
(* Steps that leave alone what LifeInv says of the documents *)

SameTasks ==
  \A t \in TaskId :
    /\ tasks'[t].state = tasks[t].state /\ tasks'[t].current = tasks[t].current
    /\ tasks'[t].active = tasks[t].active /\ tasks'[t].schedule = tasks[t].schedule
    /\ tasks'[t].retry = tasks[t].retry

SameAttempts ==
  \A a \in AttemptId :
    /\ attempts'[a].task = attempts[a].task /\ attempts'[a].acked = attempts[a].acked
    /\ \/ attempts'[a].status = attempts[a].status
       \/ InPlay(a) /\ InPlay(a)'

\* Then the same attempts are stored and finished.
LEMMA SameViews ==
  ASSUME SameAttempts
  PROVE  /\ \A a : Exists(a)' <=> Exists(a)
         /\ \A a : Finished(a)' <=> Finished(a)
         /\ \A a : Finished(a) => attempts'[a].status = attempts[a].status
         /\ \A t : AttemptsOf(t)' = AttemptsOf(t)
<1>1. \A a : Exists(a)' <=> Exists(a) BY DEF SameAttempts, Exists, InPlay
<1>2. \A a : Finished(a)' <=> Finished(a) BY DEF SameAttempts, Finished, InPlay
<1>3. \A a : Finished(a) => attempts'[a].status = attempts[a].status
  BY DEF SameAttempts, Finished, InPlay
<1>4. \A t : AttemptsOf(t)' = AttemptsOf(t) BY <1>1 DEF AttemptsOf, SameAttempts
<1> QED BY <1>1, <1>2, <1>3, <1>4

\* What the documents say of one another stays true.
LEMMA DocumentsStay ==
  ASSUME TypeInv, LifeInv, SameTasks, SameAttempts
  PROVE  Owned' /\ Outstanding' /\ StillActive' /\ Spent' /\ Succeeded'
<1> USE SameViews DEF LifeInv
<1>0. /\ \A t : Stored(t)' <=> Stored(t)
      /\ \A a \in AttemptId : Exists(a) => attempts[a].task \in TaskId
  BY DEF Stored, SameTasks, TypeInv, HasTask
<1>1. Owned' BY <1>0 DEF Owned, SameTasks, SameAttempts, Exists
<1>2. Outstanding' BY <1>0 DEF Outstanding, SameTasks, SameAttempts
<1>3. StillActive' BY <1>0 DEF StillActive, SameTasks
<1>4. Spent' BY <1>0 DEF Spent, SameTasks
<1>5. Succeeded'
  <2> SUFFICES ASSUME NEW t \in TaskId, Stored(t)', ~tasks'[t].schedule,
                      NEW a \in AttemptsOf(t)', attempts'[a].status = "success",
                      a # tasks'[t].current
               PROVE  ~tasks'[t].active
    BY DEF Succeeded
  <2>1. a \in AttemptsOf(t) /\ a \in AttemptId BY DEF AttemptsOf, Exists
  <2>2. attempts[a].status = "success" BY <2>1 DEF SameAttempts, InPlay, Finished
  <2> QED BY <1>0, <2>1, <2>2 DEF Succeeded, SameTasks
<1> QED BY <1>1, <1>2, <1>3, <1>4, <1>5

\* And so does what a process knows.
LEMMA KnowledgeStays ==
  ASSUME TypeInv, SameTasks, SameAttempts, NEW p \in Proc, NEW l, Knows(p, l),
         l.t \in TaskId \cup {None}, Acting(l) => Finished(l.a)
  PROVE  Knows(p, l)'
<1> USE SameViews
<1>0. \A t : Stored(t)' <=> Stored(t) BY DEF Stored, SameTasks
<1>1. Making(l)' <=> Making(l) BY DEF Making
<1>2. Exists(l.a) => l.a \in AttemptId /\ attempts'[l.a].task = attempts[l.a].task
                     /\ attempts'[l.a].acked = attempts[l.a].acked
                     /\ attempts[l.a].task \in TaskId
  BY DEF Exists, SameAttempts, TypeInv, HasTask
<1>3. l.t \in TaskId => CopyOf(tasks'[l.t]) = CopyOf(tasks[l.t])
  BY DEF CopyOf, SameTasks
<1>4. Acting(l) \/ HandsOver(l) \/ Making(l) => l.t \in TaskId
  BY <1>2 DEF Knows, HandsOver, Stored
<1> QED BY <1>0, <1>1, <1>2, <1>3, <1>4 DEF Knows, HandsOver, Acting, Making, SameTasks

\* The invariant, when besides no process forgets the attempt it has to
\* acknowledge.
LEMMA LifeFrame ==
  ASSUME TypeInv, LifeInv, SameTasks, SameAttempts, Known', Alone',
         \A x \in Proc : HandsOver(proc[x]) =>
           HandsOver(proc'[x]) /\ proc'[x].a = proc[x].a
  PROVE  LifeInv'
<1>1. InTurn'
  <2> SUFFICES ASSUME NEW a \in AttemptId, Exists(a)',
                      a # tasks'[attempts'[a].task].current
               PROVE  /\ Finished(a)'
                      /\ attempts'[a].acked \/ \E x \in Proc : proc'[x].a = a /\ HandsOver(proc'[x])
    BY DEF InTurn, HandsOver
  <2>1. Exists(a) /\ attempts'[a].task = attempts[a].task /\ attempts[a].task \in TaskId
        /\ attempts'[a].acked = attempts[a].acked
    BY SameViews DEF SameAttempts, TypeInv, HasTask
  <2>2. a # tasks[attempts[a].task].current BY <2>1 DEF SameTasks
  <2>3. /\ Finished(a)
        /\ attempts[a].acked \/ \E x \in Proc : proc[x].a = a /\ HandsOver(proc[x])
    BY <2>1, <2>2 DEF LifeInv, InTurn
  <2> QED BY <2>1, <2>3, SameViews
<1> QED BY <1>1, DocumentsStay DEF LifeInv

\* What the others know when one process moves, or none.
LEMMA OthersKnow ==
  ASSUME TypeInv, ResultInv, LifeInv, SameTasks, SameAttempts,
         NEW x \in Proc, proc'[x] = proc[x]
  PROVE  Knows(x, proc[x])'
<1>1. PICK m : m = proc[x] OBVIOUS
<1>2. Knows(x, m) BY <1>1 DEF LifeInv, Known
<1>3. m.t \in TaskId \cup {None} BY <1>1 DEF TypeInv, TypeOK, Locals
<1>4. Acting(m) => Finished(m.a)
  BY <1>1, <1>2 DEF ResultInv, Handled, HandlingSteps, Acting, Knows
<1>5. Knows(x, m)' BY <1>2, <1>3, <1>4, KnowledgeStays
<1> QED BY <1>1, <1>5 DEF Knows, HandsOver, Acting, Making

\* One process moves.
LEMMA LifeStep ==
  ASSUME TypeInv, ResultInv, LifeInv, SameTasks, SameAttempts,
         NEW p \in Proc, NEW l, Become(p, l),
         Knows(p, l), l.t \in TaskId \cup {None}, Acting(l) => Finished(l.a),
         On(l) => \A q \in Proc : q # p /\ On(proc[q]) => proc[q].t # l.t,
         HandsOver(proc[p]) => HandsOver(l) /\ l.a = proc[p].a
  PROVE  LifeInv'
<1>1. \A x \in Proc : proc'[x] = IF x = p THEN l ELSE proc[x]
  BY DEF Become, TypeInv, TypeOK
<1>2. Known'
  <2> SUFFICES ASSUME NEW x \in Proc PROVE Knows(x, proc[x])' BY DEF Known
  <2>1. CASE x = p
    <3>1. Knows(p, l)' BY KnowledgeStays
    <3> QED BY <1>1, <2>1, <3>1 DEF Knows, HandsOver, Acting, Making
  <2>2. CASE x # p BY <1>1, <2>2, OthersKnow
  <2> QED BY <2>1, <2>2
<1>3. Alone'
  <2>1. \A a : Exists(a)' <=> Exists(a) BY SameViews
  <2> QED BY <1>1, <2>1 DEF LifeInv, Alone, On, Making
<1>4. \A x \in Proc : HandsOver(proc[x]) => HandsOver(proc'[x]) /\ proc'[x].a = proc[x].a
  BY <1>1
<1> QED BY <1>2, <1>3, <1>4, LifeFrame

\* No process moves.
LEMMA LifeStill ==
  ASSUME TypeInv, ResultInv, LifeInv, SameTasks, SameAttempts, UNCHANGED proc
  PROVE  LifeInv'
<1>1. Known' BY OthersKnow DEF Known
<1>2. Alone' BY SameViews DEF LifeInv, Alone, On, Making, Acting
<1> QED BY <1>1, <1>2, LifeFrame
-----------------------------------------------------------------------------
(* The steps that take no task on *)

\* Without a write.
LEMMA SameUnchanged == ASSUME UNCHANGED <<tasks, attempts>> PROVE SameTasks /\ SameAttempts
BY DEF SameTasks, SameAttempts

\* A process goes to a step outside NextAttemptForTask and NewAttempt.
LEMMA LifeQuiet ==
  ASSUME TypeInv, ResultInv, LifeInv, SameTasks, SameAttempts,
         NEW p \in Proc, NEW l, Become(p, l), l.pc \notin HandlingSteps,
         l.t \in TaskId \cup {None}, l.a = None \/ (l.a = proc[p].a /\ l.t = proc[p].t),
         ~HandsOver(proc[p])
  PROVE  LifeInv'
<1>1. l.pc \notin {"read", "apply", "lookup", "purge", "insert", "mark", "ack"}
  BY DEF HandlingSteps
<1>2. ~On(l) /\ ~Acting(l) BY <1>1 DEF On, Acting, Making
<1>3. Knows(p, l)
  BY <1>1 DEF LifeInv, Known, Knows, Acting, Making, HandsOver
<1> QED BY <1>2, <1>3, LifeStep

\* At rest.
LEMMA LifeRest ==
  ASSUME TypeInv, ResultInv, LifeInv, SameTasks, SameAttempts,
         NEW p \in Proc, NEW l, Become(p, l), l.pc = "idle", l.a = None, l.t = None,
         ~HandsOver(proc[p])
  PROVE  LifeInv'
BY LifeQuiet DEF HandlingSteps

\* A worker leases an attempt.
LEMMA LifeReserve ==
  ASSUME TypeInv, ResultInv, LifeInv, NEW w \in Worker, NEW a \in AttemptId, Reserve(w, a)
  PROVE  LifeInv'
<1>0. w \in Proc /\ proc[w] \in Locals BY DEF Proc, TypeInv, TypeOK
<1>1. PICK l : l = [proc[w] EXCEPT !.pc = "count", !.a = a, !.t = attempts[a].task]
  OBVIOUS
<1>2. l.pc = "count" /\ l.a = a /\ l.t = attempts[a].task BY <1>0, <1>1 DEF Locals
<1>3. /\ At(w, "idle") /\ InPlay(a) /\ Become(w, l) /\ UNCHANGED tasks
      /\ attempts' = [attempts EXCEPT ![a].status = "running", ![a].due = FALSE]
  BY <1>1 DEF Reserve, Ready
<1>4. SameTasks BY <1>3 DEF SameTasks
<1>5. SameAttempts
  BY <1>3 DEF SameAttempts, InPlay, TypeInv, TypeOK, AttemptDocs
<1>6. Exists(a) /\ attempts[a].task \in TaskId BY <1>3 DEF TypeInv, HasTask, Exists, InPlay
<1>7. ~HandsOver(proc[w]) /\ ~HandsOver(l) BY <1>2, <1>3 DEF HandsOver, At
<1>8. ~On(l) /\ ~Acting(l) /\ ~Making(l) BY <1>2 DEF On, Acting, Making
<1>9. Knows(w, l) BY <1>2, <1>6, <1>7, <1>8 DEF Knows
<1> QED BY <1>0, <1>2, <1>3, <1>4, <1>5, <1>6, <1>7, <1>8, <1>9, LifeStep

\* A worker with its attempt, but for the result.
LEMMA LifeWorker ==
  ASSUME TypeInv, ResultInv, LifeInv, NEW w \in Worker,
         \/ GiveUp(w) \/ EnQueueCount(w) \/ EnQueueAdmit(w) \/ EnQueueFull(w)
         \/ \E result \in {"success", "error"} : Execute(w, result)
         \/ Reject(w) \/ DeQueue(w) \/ FinishGone(w)
  PROVE  LifeInv'
<1>0. w \in Proc /\ proc[w] \in Locals BY DEF Proc, TypeInv, TypeOK
<1>1. UNCHANGED <<tasks, attempts>> /\ proc[w].pc \in BusySteps \cup {"idle"}
  BY DEF GiveUp, EnQueueCount, EnQueueAdmit, EnQueueFull, Execute, Reject, DeQueue,
         FinishGone, At, BusySteps
<1>2. ~HandsOver(proc[w]) BY <1>1 DEF HandsOver, BusySteps
<1>3. CASE GiveUp(w) \/ Reject(w) \/ FinishGone(w) \/ EnQueueFull(w)
  <2> DEFINE m(f) == [Rest EXCEPT !.full = f]
  <2>1. \A f : m(f).pc = "idle" /\ m(f).a = None /\ m(f).t = None BY DEF Rest
  <2>2. Rest.pc = "idle" /\ Rest.a = None /\ Rest.t = None BY DEF Rest
  <2>3. Become(w, Rest) \/ \E f : Become(w, m(f))
    BY <1>3 DEF GiveUp, Reject, FinishGone, EnQueueFull
  <2> HIDE DEF m
  <2>4. \E l : Become(w, l) /\ l.pc = "idle" /\ l.a = None /\ l.t = None
    BY <2>1, <2>2, <2>3
  <2> QED BY <1>0, <1>1, <1>2, <2>4, SameUnchanged, LifeRest
<1>4. CASE EnQueueCount(w) \/ EnQueueAdmit(w) \/ DeQueue(w)
  <2>1. PICK step \in {"http", "push", "finish"} : Become(w, [proc[w] EXCEPT !.pc = step])
    BY <1>4 DEF EnQueueCount, EnQueueAdmit, DeQueue, Goto
  <2>2. PICK l : l = [proc[w] EXCEPT !.pc = step] OBVIOUS
  <2>3. l.pc = step /\ l.a = proc[w].a /\ l.t = proc[w].t /\ l.t \in TaskId \cup {None}
    BY <1>0, <2>2 DEF Locals
  <2> QED BY <1>0, <1>1, <1>2, <2>1, <2>2, <2>3, SameUnchanged, LifeQuiet DEF HandlingSteps
<1>5. ASSUME NEW result \in {"success", "error"}, Execute(w, result) PROVE LifeInv'
  <2>1. PICK l : l = [proc[w] EXCEPT !.pc = "dequeue", !.out = result] OBVIOUS
  <2>2. /\ l.pc = "dequeue" /\ l.a = proc[w].a /\ l.t = proc[w].t
        /\ l.t \in TaskId \cup {None}
    BY <1>0, <2>1 DEF Locals
  <2>3. Become(w, l) BY <1>5, <2>1 DEF Execute
  <2> QED BY <1>0, <1>1, <1>2, <2>2, <2>3, SameUnchanged, LifeQuiet DEF HandlingSteps
<1> QED BY <1>3, <1>4, <1>5

\* A task is read for the attempt it wants, or is gone.
LEMMA LifeRead ==
  ASSUME TypeInv, ResultInv, LifeInv, NEW p \in Proc, ReadTask(p) \/ TaskGone(p)
  PROVE  LifeInv'
<1>0. proc[p] \in Locals /\ Knows(p, proc[p]) BY DEF TypeInv, TypeOK, LifeInv, Known
<1>1. UNCHANGED <<tasks, attempts>> /\ proc[p].pc \in {"read", "apply"}
  BY DEF ReadTask, TaskGone, At
<1>2. ~HandsOver(proc[p]) /\ On(proc[p]) /\ Acting(proc[p])
  BY <1>1 DEF HandsOver, On, Acting
<1>3. CASE ReadTask(p)
  <2>1. PICK l : l = [proc[p] EXCEPT !.pc = "apply", !.copy = CopyOf(tasks[proc[p].t])]
    OBVIOUS
  <2>2. /\ l.pc = "apply" /\ l.a = proc[p].a /\ l.t = proc[p].t /\ l.out = proc[p].out
        /\ l.copy = CopyOf(tasks[l.t]) /\ l.t \in TaskId \cup {None}
    BY <1>0, <2>1 DEF Locals
  <2>3. Become(p, l) BY <1>3, <2>1 DEF ReadTask
  <2>4. Acting(l) /\ On(l) /\ ~HandsOver(l) /\ ~Making(l)
    BY <2>2 DEF Acting, On, HandsOver, Making
  <2>5. Knows(p, l) BY <1>0, <1>2, <2>2, <2>4 DEF Knows
  <2>6. Finished(l.a)
    BY <1>0, <1>1, <1>2, <2>2 DEF Knows, ResultInv, Handled, HandlingSteps
  <2>7. \A q \in Proc : q # p /\ On(proc[q]) => proc[q].t # l.t
    BY <1>2, <2>2 DEF LifeInv, Alone
  <2> QED BY <1>1, <1>2, <2>2, <2>3, <2>5, <2>6, <2>7, SameUnchanged, LifeStep
<1>4. CASE TaskGone(p)
  <2>1. Rest.pc = "idle" /\ Rest.a = None /\ Rest.t = None BY DEF Rest
  <2> QED BY <1>1, <1>2, <1>4, <2>1, SameUnchanged, LifeRest DEF TaskGone
<1> QED BY <1>3, <1>4

\* NewAttempt returns, and NextAttemptForTask goes on to its acknowledgement.
LEMMA LifeAfter ==
  ASSUME TypeInv, ResultInv, LifeInv, SameTasks, SameAttempts,
         NEW p \in Proc, proc[p].pc \in {"purge", "insert", "mark"},
         Become(p, AfterNewAttempt(p))
  PROVE  LifeInv'
<1>0. proc[p] \in Locals /\ Knows(p, proc[p]) BY DEF TypeInv, TypeOK, LifeInv, Known
<1>1. PICK l : l = AfterNewAttempt(p) OBVIOUS
<1>2. CASE proc[p].a = None
  <2>1. l.pc = "idle" /\ l.a = None /\ l.t = None BY <1>1, <1>2 DEF AfterNewAttempt, Rest
  <2>2. ~HandsOver(proc[p]) BY <1>2 DEF HandsOver
  <2> QED BY <1>1, <2>1, <2>2, LifeRest
<1>3. CASE proc[p].a # None
  <2>1. l.pc = "ack" /\ l.a = proc[p].a /\ l.t = proc[p].t /\ l.t \in TaskId \cup {None}
    BY <1>0, <1>1, <1>3 DEF AfterNewAttempt, Rest, Locals
  <2>2. HandsOver(proc[p]) /\ HandsOver(l) BY <1>3, <2>1 DEF HandsOver
  <2>3. ~On(l) /\ ~Acting(l) /\ ~Making(l) BY <2>1 DEF On, Acting, Making
  <2>4. Knows(p, l) BY <1>0, <2>1, <2>2, <2>3 DEF Knows
  <2> QED BY <1>1, <2>1, <2>2, <2>3, <2>4, LifeStep
<1> QED BY <1>2, <1>3

\* NewAttempt, but for the insert itself.
LEMMA LifePurge ==
  ASSUME TypeInv, ResultInv, LifeInv, NEW p \in Proc, Purge(p) \/ InsertDup(p) \/ Mark(p)
  PROVE  LifeInv'
<1>0. proc[p] \in Locals /\ Knows(p, proc[p]) BY DEF TypeInv, TypeOK, LifeInv, Known
<1>1. CASE Purge(p)
  <2>1. /\ attempts' = [a \in AttemptId |->
             IF attempts[a].task = proc[p].t /\ attempts[a].status = "pending"
             THEN [attempts[a] EXCEPT !.deleted = TRUE] ELSE attempts[a]]
        /\ UNCHANGED tasks /\ proc[p].pc = "purge"
    BY <1>1 DEF Purge, At
  <2>2. SameTasks BY <2>1 DEF SameTasks
  <2>3. SameAttempts BY <2>1 DEF SameAttempts, TypeInv, TypeOK, AttemptDocs
  <2>4. CASE ~proc[p].copy.active
    BY <1>1, <2>1, <2>2, <2>3, <2>4, LifeAfter DEF Purge
  <2>5. CASE proc[p].copy.active
    <3>1. PICK l : l = [proc[p] EXCEPT !.pc = "insert"] OBVIOUS
    <3>2. /\ l.pc = "insert" /\ l.a = proc[p].a /\ l.t = proc[p].t
          /\ l.copy = proc[p].copy /\ l.t \in TaskId \cup {None}
      BY <1>0, <3>1 DEF Locals
    <3>3. Become(p, l) BY <1>1, <2>5, <3>1 DEF Purge, Goto
    <3>4. On(proc[p]) /\ Making(proc[p]) /\ Making(l) /\ ~Acting(l)
      BY <2>1, <3>2 DEF On, Making, Acting
    <3>5. HandsOver(proc[p]) <=> HandsOver(l) BY <2>1, <3>2 DEF HandsOver
    <3>6. Knows(p, l) BY <1>0, <2>5, <3>2, <3>4, <3>5 DEF Knows
    <3>7. \A q \in Proc : q # p /\ On(proc[q]) => proc[q].t # l.t
      BY <3>2, <3>4 DEF LifeInv, Alone
    <3> QED BY <2>2, <2>3, <3>2, <3>3, <3>4, <3>5, <3>6, <3>7, LifeStep
  <2> QED BY <2>4, <2>5
<1>2. CASE InsertDup(p)
  <2>1. Exists(proc[p].copy.current) /\ Making(proc[p])
    BY <1>2 DEF InsertDup, At, Making
  <2> QED BY <1>0, <2>1 DEF Knows
<1>3. CASE Mark(p)
  <2>1. /\ tasks' = [t \in TaskId |->
             IF t = proc[p].t /\ Stored(t) /\ tasks[t].current = proc[p].copy.current
             THEN [tasks[t] EXCEPT !.queued = TRUE] ELSE tasks[t]]
        /\ UNCHANGED attempts /\ Become(p, AfterNewAttempt(p)) /\ proc[p].pc = "mark"
    BY <1>3 DEF Mark, At
  <2>2. SameTasks BY <2>1 DEF SameTasks, TypeInv, TypeOK, TaskDocs
  <2>3. SameAttempts BY <2>1 DEF SameAttempts
  <2> QED BY <2>1, <2>2, <2>3, LifeAfter
<1> QED BY <1>1, <1>2, <1>3

\* A task or its attempts are flagged as deleted, and a process dies that has
\* no result to acknowledge.
LEMMA LifeDelete ==
  ASSUME TypeInv, ResultInv, LifeInv, LateCrashes = FALSE, NEW p \in Proc,
         DeleteTask(p) \/ Crash(p) \/ \E t \in TaskId : DeleteAttempts(p, t)
  PROVE  LifeInv'
<1>0. Rest.pc = "idle" /\ Rest.a = None /\ Rest.t = None BY DEF Rest
<1>1. CASE DeleteTask(p)
  <2>1. /\ tasks' = [t \in TaskId |-> IF Stored(t) /\ t \in Namesakes(proc[p].t)
                                      THEN [tasks[t] EXCEPT !.deleted = TRUE] ELSE tasks[t]]
        /\ UNCHANGED attempts /\ Become(p, Rest) /\ proc[p].pc = "delete"
    BY <1>1 DEF DeleteTask, At
  <2>2. SameTasks BY <2>1 DEF SameTasks, TypeInv, TypeOK, TaskDocs
  <2>3. SameAttempts BY <2>1 DEF SameAttempts
  <2>4. ~HandsOver(proc[p]) BY <2>1 DEF HandsOver
  <2> QED BY <1>0, <2>1, <2>2, <2>3, <2>4, LifeRest
<1>2. CASE Crash(p)
  <2>1. Become(p, Rest) /\ UNCHANGED <<tasks, attempts>> /\ ~HandsOver(proc[p])
    BY <1>2 DEF Crash, MayFail, IsLate, Unacknowledged, HandsOver
  <2> QED BY <1>0, <2>1, SameUnchanged, LifeRest
<1>3. ASSUME NEW t \in TaskId, DeleteAttempts(p, t) PROVE LifeInv'
  <2>1. PICK l : l = [Rest EXCEPT !.pc = "delete", !.t = t] OBVIOUS
  <2>2. l.pc = "delete" /\ l.a = None /\ l.t = t BY <2>1 DEF Rest
  <2>3. /\ Become(p, l) /\ UNCHANGED tasks /\ proc[p].pc = "idle"
        /\ attempts' = [a \in AttemptId |->
             IF Exists(a) /\ attempts[a].task \in Namesakes(t)
             THEN [attempts[a] EXCEPT !.deleted = TRUE] ELSE attempts[a]]
    BY <1>3, <2>1 DEF DeleteAttempts, Call, At
  <2>4. SameTasks BY <2>3 DEF SameTasks
  <2>5. SameAttempts BY <2>3 DEF SameAttempts, TypeInv, TypeOK, AttemptDocs
  <2>6. ~HandsOver(proc[p]) BY <2>3 DEF HandsOver
  <2> QED BY <2>2, <2>3, <2>4, <2>5, <2>6, LifeQuiet DEF HandlingSteps
<1> QED BY <1>1, <1>2, <1>3

\* The clock, or nothing.
LEMMA LifeDue ==
  ASSUME TypeInv, ResultInv, LifeInv, UNCHANGED vars \/ \E a \in AttemptId : Due(a)
  PROVE  LifeInv'
<1>1. UNCHANGED <<tasks, proc>> BY DEF vars, Due
<1>2. SameTasks BY <1>1 DEF SameTasks
<1>3. SameAttempts
  <2>1. CASE UNCHANGED vars BY <2>1 DEF SameAttempts, vars
  <2>2. ASSUME NEW a \in AttemptId, Due(a) PROVE SameAttempts
    BY <2>2 DEF Due, SameAttempts, TypeInv, TypeOK, AttemptDocs
  <2> QED BY <2>1, <2>2
<1> QED BY <1>1, <1>2, <1>3, LifeStill
-----------------------------------------------------------------------------
(* The fixer *)

\* It takes a task that nobody is on ...
LEMMA LifeFixTask ==
  ASSUME TypeInv, ResultInv, LifeInv, OneFixer, NEW f \in Fixer,
         Lookup(f) \/ \E t \in TaskId : FixTask(f, t)
  PROVE  LifeInv'
<1>0. f \in Proc /\ proc[f] \in Locals /\ Knows(f, proc[f])
  BY DEF Proc, TypeInv, TypeOK, LifeInv, Known
<1>1. CASE Lookup(f)
  <2>1. UNCHANGED <<tasks, attempts>> /\ proc[f].pc = "lookup" BY <1>1 DEF Lookup, At
  <2>2. ~HandsOver(proc[f]) BY <2>1 DEF HandsOver
  <2>3. CASE Exists(proc[f].copy.current)
    <3>1. Rest.pc = "idle" /\ Rest.a = None /\ Rest.t = None BY DEF Rest
    <3> QED BY <1>0, <1>1, <2>1, <2>2, <2>3, <3>1, SameUnchanged, LifeRest DEF Lookup
  <2>4. CASE ~Exists(proc[f].copy.current)
    <3>1. PICK l : l = [proc[f] EXCEPT !.pc = "purge"] OBVIOUS
    <3>2. /\ l.pc = "purge" /\ l.a = proc[f].a /\ l.t = proc[f].t
          /\ l.copy = proc[f].copy /\ l.t \in TaskId \cup {None}
      BY <1>0, <3>1 DEF Locals
    <3>3. Become(f, l) BY <1>1, <2>4, <3>1 DEF Lookup, Goto
    <3>4. On(proc[f]) /\ Making(proc[f]) /\ Making(l) /\ ~Acting(l)
      BY <2>1, <2>4, <3>2 DEF On, Making, Acting
    <3>5. l.a # None => l.a # tasks[l.t].current BY <1>0, <3>2, <3>4 DEF Knows
    <3>6. Knows(f, l)
      <4>1. l.a # None => Exists(l.a) /\ attempts[l.a].task = l.t /\ f \in Worker \cup Fixer
        BY <1>0, <3>2 DEF Knows
      <4>2. /\ Stored(l.t) /\ ~Exists(l.copy.current)
            /\ l.copy.current = tasks[l.t].current
            /\ l.copy.active => tasks[l.t].active
        BY <1>0, <3>2, <3>4 DEF Knows
      <4> QED BY <3>2, <3>4, <3>5, <4>1, <4>2 DEF Knows, HandsOver
    <3>7. \A q \in Proc : q # f /\ On(proc[q]) => proc[q].t # l.t
      BY <1>0, <3>2, <3>4 DEF LifeInv, Alone
    <3> QED BY <1>0, <2>1, <2>2, <3>2, <3>3, <3>4, <3>6, <3>7, SameUnchanged, LifeStep
  <2> QED BY <2>3, <2>4
<1>2. ASSUME NEW t \in TaskId, FixTask(f, t) PROVE LifeInv'
  <2>1. PICK l : l = [Rest EXCEPT !.pc = "lookup", !.t = t, !.copy = Wanted(tasks[t])]
    OBVIOUS
  <2>2. /\ l.pc = "lookup" /\ l.a = None /\ l.t = t /\ l.copy.current = tasks[t].current
        /\ l.copy.active => tasks[t].active
    BY <2>1 DEF Rest, Wanted
  <2>3. /\ Become(f, l) /\ UNCHANGED <<tasks, attempts>> /\ proc[f].pc = "idle"
        /\ Stored(t) /\ TaskAtRest(t)
    BY <1>2, <2>1 DEF FixTask, At
  <2>4. ~HandsOver(proc[f]) /\ ~HandsOver(l) /\ ~Acting(l)
    BY <2>2, <2>3 DEF HandsOver, Acting
  <2>5. Knows(f, l) BY <2>2, <2>3, <2>4 DEF Knows, Making
  <2>6. ASSUME On(l), NEW q \in Proc, q # f, On(proc[q]), proc[q].t = t PROVE FALSE
    <3>1. Knows(q, proc[q]) /\ ~Exists(tasks[t].current)
      BY <2>2, <2>6 DEF LifeInv, Known, On, Acting, Making
    <3>2. ~Acting(proc[q]) BY <2>6, <3>1 DEF Knows
    <3>3. proc[q].pc \in {"purge", "insert", "lookup"} BY <2>6, <3>2 DEF On, Making
    <3>4. q \in Fixer BY <2>3, <2>6, <3>1, <3>3 DEF TaskAtRest, Knows
    <3> QED BY <2>6, <3>4 DEF OneFixer
  <2> QED BY <1>0, <2>2, <2>3, <2>4, <2>5, <2>6, SameUnchanged, LifeStep
<1> QED BY <1>1, <1>2

\* ... or a result that is nobody's: that of the attempt its task wants.
LEMMA LifeFixAttempt ==
  ASSUME TypeInv, ResultInv, LifeInv, OneFixer,
         NEW f \in Fixer, NEW a \in AttemptId, FixAttempt(f, a)
  PROVE  LifeInv'
<1> DEFINE t == attempts[a].task
<1>1. PICK l : l = [Rest EXCEPT !.pc = "read", !.a = a, !.t = attempts[a].task,
                                !.out = attempts[a].status]
  OBVIOUS
<1>2. l.pc = "read" /\ l.a = a /\ l.t = t /\ l.out = attempts[a].status BY <1>1 DEF Rest
<1>3. /\ Become(f, l) /\ UNCHANGED <<tasks, attempts>> /\ proc[f].pc = "idle"
      /\ Finished(a) /\ ~attempts[a].acked
      /\ \A w \in Worker : proc[w].a # a
  BY <1>1 DEF FixAttempt, At
<1>4. Exists(a) /\ t \in TaskId /\ a # None /\ f \in Proc
  BY <1>3, EngineAssumption DEF Exists, Finished, TypeInv, HasTask, Proc
<1>5. ASSUME NEW x \in Proc, proc[x].a = a PROVE x = f
  <2>1. Knows(x, proc[x]) BY DEF LifeInv, Known
  <2> QED BY <1>3, <1>4, <1>5, <2>1 DEF Knows, OneFixer
<1>6. ~HandsOver(proc[f]) /\ ~HandsOver(l) /\ ~Making(l) /\ Acting(l)
  BY <1>2, <1>3 DEF HandsOver, Making, Acting
<1>7. a = tasks[t].current BY <1>3, <1>4, <1>5, <1>6 DEF LifeInv, InTurn
<1>8. Knows(f, l) BY <1>2, <1>3, <1>4, <1>6, <1>7 DEF Knows
<1>9. ASSUME NEW q \in Proc, q # f, On(proc[q]), proc[q].t = t PROVE FALSE
  <2>1. Knows(q, proc[q]) BY DEF LifeInv, Known
  <2>2. ~Acting(proc[q]) BY <1>5, <1>7, <1>9, <2>1 DEF Knows
  <2> QED BY <1>4, <1>7, <1>9, <2>1, <2>2 DEF On, Knows
<1> HIDE DEF t
<1> QED BY <1>2, <1>3, <1>4, <1>6, <1>8, <1>9, SameUnchanged, LifeStep
-----------------------------------------------------------------------------
(* The steps a task lives by *)

\* A result is written: its worker will act on it.
LEMMA LifeFinish ==
  ASSUME TypeInv, ResultInv, LifeInv, NEW w \in Worker, Finish(w)
  PROVE  LifeInv'
<1>0. w \in Proc /\ proc[w] \in Locals /\ Knows(w, proc[w]) /\ Good(proc[w])
  BY DEF Proc, TypeInv, TypeOK, LifeInv, Known, GoodLocals
<1>1. PICK l : l = [proc[w] EXCEPT !.pc = "read"] OBVIOUS
<1>2. PICK a : a = proc[w].a OBVIOUS
<1>3. PICK t : t = proc[w].t OBVIOUS
<1>4. l.pc = "read" /\ l.a = a /\ l.t = t /\ l.out = proc[w].out
  BY <1>0, <1>1, <1>2, <1>3 DEF Locals
<1>5. /\ proc[w].pc = "finish" /\ Exists(a) /\ Become(w, l) /\ UNCHANGED tasks
      /\ attempts' = [attempts EXCEPT ![a].status = l.out]
  BY <1>1, <1>2, <1>4 DEF Finish, At, Goto
<1>6. a \in AttemptId /\ a # None /\ t \in TaskId /\ l.out \in {"success", "error"}
  BY <1>0, <1>2, <1>3, <1>4, <1>5, EngineAssumption DEF Good, BusySteps
<1>7. attempts[a].status = "running" /\ ~Finished(a)
  BY <1>2, <1>5 DEF ResultInv, Running, Busy, BusySteps, Finished
<1>8. attempts[a].task = t /\ ~attempts[a].acked
  BY <1>0, <1>2, <1>3, <1>5, <1>6, <1>7 DEF Knows, ResultInv, AckedIsFinished
<1>9. a = tasks[t].current BY <1>5, <1>6, <1>7, <1>8 DEF LifeInv, InTurn
<1>10. \A x \in Proc : proc'[x] = IF x = w THEN l ELSE proc[x]
  BY <1>5 DEF Become, TypeInv, TypeOK
<1>11. \A b \in AttemptId :
         /\ attempts'[b].task = attempts[b].task /\ attempts'[b].acked = attempts[b].acked
         /\ attempts'[b].status = IF b = a THEN l.out ELSE attempts[b].status
  BY <1>5, <1>6 DEF TypeInv, TypeOK, AttemptDocs
<1>12. \A b : Exists(b)' <=> Exists(b) BY <1>5, <1>6, <1>11 DEF Exists
<1>13. \A b : b # a => (Finished(b)' <=> Finished(b)) BY <1>11 DEF Finished
<1>14. \A u : AttemptsOf(u)' = AttemptsOf(u) BY <1>11, <1>12 DEF AttemptsOf
<1>15. \A u : Stored(u)' <=> Stored(u) BY <1>5 DEF Stored
<1>16. ~Making(l) /\ ~HandsOver(l) /\ ~HandsOver(proc[w])
  BY <1>4, <1>5 DEF Making, HandsOver
\* Nobody else has a result of a.
<1>17. ASSUME NEW x \in Proc, Acting(proc[x]) PROVE proc[x].a # a
  <2>1. Knows(x, proc[x]) BY DEF LifeInv, Known
  <2> QED BY <1>7, <1>17, <2>1 DEF Knows, Acting, ResultInv, Handled, HandlingSteps
<1>18. Known'
  <2> SUFFICES ASSUME NEW x \in Proc PROVE Knows(x, proc[x])' BY DEF Known
  <2>1. CASE x = w
    <3>1. Exists(a)' /\ attempts'[a].task = t /\ ~attempts'[a].acked
          /\ attempts'[a].status = l.out /\ a = tasks'[t].current
      BY <1>5, <1>6, <1>8, <1>9, <1>11, <1>12
    <3> QED BY <1>4, <1>6, <1>10, <1>16, <2>1, <3>1 DEF Knows, Acting, Making, HandsOver
  <2>2. CASE x # w
    <3>1. PICK m : m = proc[x] OBVIOUS
    <3>2. Knows(x, m) /\ proc'[x] = m BY <1>10, <2>2, <3>1 DEF LifeInv, Known
    <3>3. Acting(m) => m.a # a BY <1>17, <3>1
    <3>4. Exists(m.a) => m.a \in AttemptId BY DEF Exists
    <3> QED BY <1>5, <1>11, <1>12, <1>15, <3>2, <3>3, <3>4
            DEF Knows, Acting, Making, HandsOver
  <2> QED BY <2>1, <2>2
<1>19. ASSUME NEW q \in Proc, q # w, On(proc[q]), proc[q].t = t PROVE FALSE
  <2>1. Knows(q, proc[q]) BY DEF LifeInv, Known
  <2>2. ~Acting(proc[q]) BY <1>9, <1>17, <1>19, <2>1 DEF Knows
  <2> QED BY <1>5, <1>9, <1>19, <2>1, <2>2 DEF On, Knows
<1>20. Alone'
  BY <1>4, <1>10, <1>12, <1>19 DEF LifeInv, Alone, On, Making, Acting
<1>21. Owned' BY <1>5, <1>11, <1>12, <1>15 DEF LifeInv, Owned, Exists
<1>22. InTurn'
  <2> SUFFICES ASSUME NEW b \in AttemptId, Exists(b)', b # tasks[attempts'[b].task].current
               PROVE  /\ Finished(b)'
                      /\ \/ attempts'[b].acked
                         \/ \E x \in Proc : proc'[x].a = b /\ HandsOver(proc'[x])
    BY <1>5 DEF InTurn, HandsOver
  <2>1. Exists(b) /\ b # a /\ b # tasks[attempts[b].task].current
    BY <1>8, <1>9, <1>11, <1>12
  <2>2. /\ Finished(b)
        /\ attempts[b].acked \/ \E x \in Proc : proc[x].a = b /\ HandsOver(proc[x])
    BY <2>1 DEF LifeInv, InTurn
  <2> QED BY <1>10, <1>11, <1>13, <1>16, <2>1, <2>2
<1>23. Outstanding' BY <1>5, <1>11, <1>12 DEF LifeInv, Outstanding
<1>24. StillActive' BY <1>5, <1>12, <1>15 DEF LifeInv, StillActive
<1>25. Spent' BY <1>5, <1>12, <1>14, <1>15 DEF LifeInv, Spent
<1>26. Succeeded'
  <2> SUFFICES ASSUME NEW u \in TaskId, Stored(u)', ~tasks[u].schedule,
                      NEW b \in AttemptsOf(u)', attempts'[b].status = "success",
                      b # tasks[u].current
               PROVE  ~tasks[u].active
    BY <1>5 DEF Succeeded
  <2>1. b \in AttemptsOf(u) /\ b \in AttemptId /\ attempts[b].task = u
    BY <1>14 DEF AttemptsOf, Exists
  <2>2. b # a BY <1>8, <1>9, <2>1
  <2> QED BY <1>11, <1>15, <2>1, <2>2 DEF LifeInv, Succeeded
<1> QED BY <1>18, <1>20, <1>21, <1>22, <1>23, <1>24, <1>25, <1>26 DEF LifeInv

\* A result is acknowledged: its task wants another attempt by now.
LEMMA LifeAck ==
  ASSUME TypeInv, ResultInv, LifeInv, NEW p \in Proc, Ack(p)
  PROVE  LifeInv'
<1>0. proc[p] \in Locals /\ Knows(p, proc[p]) BY DEF TypeInv, TypeOK, LifeInv, Known
<1>1. PICK a : a = proc[p].a OBVIOUS
<1>2. PICK t : t = proc[p].t OBVIOUS
<1>3. PICK l : l = Rest OBVIOUS
<1>4. l.pc = "idle" /\ l.a = None /\ l.t = None BY <1>3 DEF Rest
<1>5. /\ proc[p].pc = "ack" /\ Become(p, l) /\ UNCHANGED tasks
      /\ attempts' = IF Exists(a) THEN [attempts EXCEPT ![a].acked = TRUE] ELSE attempts
  BY <1>1, <1>3 DEF Ack, At
<1>6. CASE a = None
  <2>1. ~Exists(a) BY <1>6, EngineAssumption DEF Exists
  <2>2. UNCHANGED <<tasks, attempts>> /\ ~HandsOver(proc[p])
    BY <1>1, <1>5, <1>6, <2>1 DEF HandsOver
  <2> QED BY <1>4, <1>5, <2>2, SameUnchanged, LifeRest
<1>7. CASE a # None
  <2>1. Exists(a) /\ attempts[a].task = t /\ a # tasks[t].current
    BY <1>0, <1>1, <1>2, <1>5, <1>7 DEF Knows, HandsOver
  <2>2. Finished(a) BY <1>1, <1>5, <1>7 DEF ResultInv, Handled, HandlingSteps
  <2>3. \A b \in AttemptId :
          /\ attempts'[b].task = attempts[b].task /\ attempts'[b].status = attempts[b].status
          /\ attempts'[b].acked = (b = a \/ attempts[b].acked)
    BY <1>5, <2>1 DEF TypeInv, TypeOK, AttemptDocs
  <2>4. \A b : (Exists(b)' <=> Exists(b)) /\ (Finished(b)' <=> Finished(b))
    BY <2>3 DEF Exists, Finished
  <2>5. \A u : AttemptsOf(u)' = AttemptsOf(u) BY <2>3, <2>4 DEF AttemptsOf
  <2>6. \A u : Stored(u)' <=> Stored(u) BY <1>5 DEF Stored
  <2>7. \A x \in Proc : proc'[x] = IF x = p THEN l ELSE proc[x]
    BY <1>5 DEF Become, TypeInv, TypeOK
  <2>8. ~On(l) /\ ~Acting(l) /\ ~Making(l) /\ ~HandsOver(l)
    BY <1>4 DEF On, Acting, Making, HandsOver
  <2>9. Known'
    <3> SUFFICES ASSUME NEW x \in Proc PROVE Knows(x, proc[x])' BY DEF Known
    <3>1. CASE x = p
      BY <1>4, <2>7, <2>8, <3>1 DEF Knows, HandsOver, Acting, Making
    <3>2. CASE x # p
      <4>1. PICK m : m = proc[x] OBVIOUS
      <4>2. Knows(x, m) /\ proc'[x] = m BY <2>7, <3>2, <4>1 DEF LifeInv, Known
      <4>3. Acting(m) => m.a # a BY <2>1, <4>2 DEF Knows
      <4>4. Exists(m.a) => m.a \in AttemptId BY DEF Exists
      <4> QED BY <1>5, <2>3, <2>4, <2>6, <4>2, <4>3, <4>4
              DEF Knows, Acting, Making, HandsOver
    <3> QED BY <3>1, <3>2
  <2>10. Alone' BY <1>4, <2>4, <2>7 DEF LifeInv, Alone, On, Making, Acting
  <2>11. Owned' BY <1>5, <2>3, <2>4, <2>6 DEF LifeInv, Owned, Exists
  <2>12. InTurn'
    <3> SUFFICES ASSUME NEW b \in AttemptId, Exists(b)', b # tasks[attempts'[b].task].current
                 PROVE  /\ Finished(b)'
                        /\ \/ attempts'[b].acked
                           \/ \E x \in Proc : proc'[x].a = b /\ HandsOver(proc'[x])
      BY <1>5 DEF InTurn, HandsOver
    <3>1. CASE b = a BY <2>2, <2>3, <2>4, <3>1
    <3>2. CASE b # a
      <4>1. Exists(b) /\ b # tasks[attempts[b].task].current BY <2>3, <2>4
      <4>2. /\ Finished(b)
            /\ attempts[b].acked \/ \E x \in Proc : proc[x].a = b /\ HandsOver(proc[x])
        BY <4>1 DEF LifeInv, InTurn
      <4> QED BY <1>1, <2>3, <2>4, <2>7, <3>2, <4>2
    <3> QED BY <3>1, <3>2
  <2>13. Outstanding' BY <1>5, <2>1, <2>3, <2>4 DEF LifeInv, Outstanding
  <2>14. StillActive' BY <1>5, <2>4, <2>6 DEF LifeInv, StillActive
  <2>15. Spent' BY <1>5, <2>4, <2>5, <2>6 DEF LifeInv, Spent
  <2>16. Succeeded'
    <3> SUFFICES ASSUME NEW u \in TaskId, Stored(u)', ~tasks[u].schedule,
                        NEW b \in AttemptsOf(u)', attempts'[b].status = "success",
                        b # tasks[u].current
                 PROVE  ~tasks[u].active
      BY <1>5 DEF Succeeded
    <3>1. b \in AttemptsOf(u) /\ b \in AttemptId BY <2>5 DEF AttemptsOf, Exists
    <3> QED BY <2>3, <2>6, <3>1 DEF LifeInv, Succeeded
  <2> QED BY <2>9, <2>10, <2>11, <2>12, <2>13, <2>14, <2>15, <2>16 DEF LifeInv
<1> QED BY <1>6, <1>7

\* What nobody mentions yet.
LEMMA FreshUnused ==
  ASSUME Unused # {}
  PROVE  /\ Fresh \in AttemptId /\ ~Exists(Fresh)
         /\ \A t \in TaskId : tasks[t].current # Fresh
         /\ \A p \in Proc : proc[p].a # Fresh /\ proc[p].copy.current # Fresh
<1>1. \E a \in AttemptId : a \in Unused BY DEF Unused
<1>2. Fresh \in Unused BY <1>1 DEF Fresh
<1> QED BY <1>2 DEF Unused

\* What a task becomes of a result: it wants a new attempt.
LEMMA Applied ==
  ASSUME TypeInv, ResultInv, LifeInv, NEW p \in Proc, Apply(p)
  PROVE  /\ Stored(proc[p].t) /\ Exists(proc[p].a) /\ Finished(proc[p].a)
         /\ attempts[proc[p].a].task = proc[p].t /\ Unused # {}
         /\ proc[p].a = tasks[proc[p].t].current
         /\ \E next, l :
              /\ tasks' = [tasks EXCEPT ![proc[p].t] = next] /\ Become(p, l)
              /\ next.state = "stored" /\ next.schedule = tasks[proc[p].t].schedule
              /\ next.current = Fresh
              /\ attempts[proc[p].a].status = "success" =>
                   (next.active => next.schedule)
              /\ attempts[proc[p].a].status = "error" =>
                   /\ next.retry = tasks[proc[p].t].retry + 1
                   /\ MaxAttempts > 0 /\ next.active => tasks[proc[p].t].retry + 1 < MaxAttempts
              /\ l.pc = "purge" /\ l.a = proc[p].a /\ l.t = proc[p].t
              /\ l.copy.current = Fresh /\ (l.copy.active => next.active)
<1> DEFINE t == proc[p].t
           a == proc[p].a
           copy == proc[p].copy
           latest == copy.current = a
           next == [tasks[t] EXCEPT
                      !.active = StaysActive(copy, proc[p].out),
                      !.retry = @ + RetryIncrement(copy, proc[p].out),
                      !.current = IF latest THEN Fresh ELSE copy.current,
                      !.queued = FALSE]
           l == [Rest EXCEPT !.pc = IF latest THEN "purge" ELSE "ack",
                             !.a = a, !.t = t,
                             !.copy = IF latest THEN Wanted(next) ELSE NoCopy]
<1>0. proc[p] \in Locals /\ Knows(p, proc[p]) BY DEF TypeInv, TypeOK, LifeInv, Known
<1>1. /\ proc[p].pc = "apply" /\ Stored(t) /\ (latest => Unused # {})
      /\ tasks' = [tasks EXCEPT ![t] = next] /\ Become(p, l)
  BY DEF Apply, At
<1>2. t \in TaskId /\ tasks[t] \in TaskDocs /\ tasks[t].state = "stored"
  BY <1>1 DEF Stored, TypeInv, TypeOK
<1>3. /\ a # None /\ Exists(a) /\ attempts[a].task = t /\ a = tasks[t].current
      /\ proc[p].out = attempts[a].status /\ copy = CopyOf(tasks[t])
  BY <1>0, <1>1 DEF Knows, Acting
<1>4. Finished(a) BY <1>1, <1>3 DEF ResultInv, Handled, HandlingSteps
<1>5. copy.retry = tasks[t].retry /\ copy.schedule = tasks[t].schedule /\ latest
  BY <1>3 DEF CopyOf
<1>6. /\ next.state = "stored" /\ next.schedule = tasks[t].schedule /\ next.current = Fresh
      /\ next.active = StaysActive(copy, proc[p].out)
      /\ next.retry = tasks[t].retry + RetryIncrement(copy, proc[p].out)
  BY <1>2, <1>5 DEF TaskDocs
<1>7. attempts[a].status = "success" => (next.active => next.schedule)
  BY <1>3, <1>5, <1>6 DEF StaysActive
<1>8. attempts[a].status = "error" =>
        /\ next.retry = tasks[t].retry + 1
        /\ MaxAttempts > 0 /\ next.active => tasks[t].retry + 1 < MaxAttempts
  <2> SUFFICES ASSUME attempts[a].status = "error"
               PROVE  /\ next.retry = tasks[t].retry + 1
                      /\ MaxAttempts > 0 /\ next.active => tasks[t].retry + 1 < MaxAttempts
    OBVIOUS
  <2>1. tasks[t].retry \in Int /\ MaxAttempts \in Int
    BY <1>2, EngineAssumption DEF TaskDocs
  <2>2. proc[p].out = "error" BY <1>3
  <2>3. next.retry = tasks[t].retry + 1 BY <1>6, <2>2 DEF RetryIncrement
  <2>4. MaxAttempts > 0 /\ next.active => ~(copy.retry + 1 >= MaxAttempts)
    BY <1>6, <2>2 DEF StaysActive, Exhausted
  <2>5. MaxAttempts > 0 /\ next.active => ~(tasks[t].retry + 1 >= MaxAttempts) BY <1>5, <2>4
  <2> HIDE DEF next
  <2> QED BY <2>1, <2>3, <2>5
<1>9. /\ l.pc = "purge" /\ l.a = a /\ l.t = t
      /\ l.copy.current = next.current /\ (l.copy.active => next.active)
  BY <1>5 DEF Rest, Wanted
<1> HIDE DEF next, l
<1> QED BY <1>1, <1>3, <1>4, <1>5, <1>6, <1>7, <1>8, <1>9

\* A result is acted on: its task wants another attempt, or is done, and the
\* same process will insert that attempt.
LEMMA LifeApply ==
  ASSUME TypeInv, ResultInv, LifeInv, NEW p \in Proc, Apply(p)
  PROVE  LifeInv'
<1>0. PICK a, t, old : a = proc[p].a /\ t = proc[p].t /\ old = tasks[t] OBVIOUS
<1>1. /\ Stored(t) /\ Exists(a) /\ Finished(a) /\ attempts[a].task = t
      /\ Unused # {} /\ a = old.current
      /\ proc[p].pc = "apply" /\ UNCHANGED attempts
  BY <1>0, Applied DEF Apply, At
<1>2. PICK next, l :
        /\ tasks' = [tasks EXCEPT ![t] = next] /\ Become(p, l)
        /\ next.state = "stored" /\ next.schedule = old.schedule
        /\ next.current = Fresh
        /\ attempts[a].status = "success" => (next.active => next.schedule)
        /\ attempts[a].status = "error" =>
             /\ next.retry = old.retry + 1
             /\ MaxAttempts > 0 /\ next.active => old.retry + 1 < MaxAttempts
        /\ l.pc = "purge" /\ l.a = a /\ l.t = t
        /\ l.copy.current = Fresh /\ (l.copy.active => next.active)
  BY <1>0, Applied
<1>3. PICK new : new = Fresh OBVIOUS
<1>4. /\ new \in AttemptId /\ ~Exists(new)
      /\ \A u \in TaskId : tasks[u].current # new
      /\ \A q \in Proc : proc[q].a # new
  BY <1>1, <1>3, FreshUnused
<1>5. t \in TaskId /\ a \in AttemptId /\ a # None /\ a # new
  BY <1>1, <1>4, EngineAssumption DEF Stored, Exists
<1>6. \A u \in TaskId : tasks'[u] = IF u = t THEN next ELSE tasks[u]
  BY <1>2 DEF TypeInv, TypeOK
<1>7. \A x \in Proc : proc'[x] = IF x = p THEN l ELSE proc[x]
  BY <1>2 DEF Become, TypeInv, TypeOK
<1>8. /\ \A b : (Exists(b)' <=> Exists(b)) /\ (Finished(b)' <=> Finished(b))
      /\ \A u : AttemptsOf(u)' = AttemptsOf(u)
  BY <1>1 DEF Exists, Finished, AttemptsOf
<1>9. \A u : Stored(u)' <=> Stored(u) BY <1>1, <1>2, <1>6 DEF Stored
<1>10. /\ Making(l) /\ HandsOver(l) /\ ~Acting(l) /\ On(proc[p]) /\ ~HandsOver(proc[p])
  BY <1>1, <1>2, <1>5 DEF Making, HandsOver, Acting, On
<1>11. \A q \in Proc : q # p /\ On(proc[q]) => proc[q].t # t
  BY <1>0, <1>10 DEF LifeInv, Alone
<1>12. Known'
  <2> SUFFICES ASSUME NEW x \in Proc PROVE Knows(x, proc[x])' BY DEF Known
  <2>1. CASE x = p
    <3>1. x \in Worker \cup Fixer
      BY <1>0, <1>5, <2>1 DEF LifeInv, Known, Knows
    <3>2. Stored(t)' /\ Exists(a)' /\ ~Exists(new)' BY <1>1, <1>4, <1>8, <1>9
    <3>3. tasks'[t].current = new /\ attempts'[a].task = t /\ tasks'[t].active = next.active
      BY <1>1, <1>2, <1>3, <1>5, <1>6
    <3> QED BY <1>2, <1>3, <1>5, <1>7, <2>1, <3>1, <3>2, <3>3
            DEF Knows, Acting, Making, HandsOver
  <2>2. CASE x # p
    <3>1. PICK m : m = proc[x] OBVIOUS
    <3>2. Knows(x, m) /\ proc'[x] = m /\ m.a # new
      BY <1>4, <1>7, <2>2, <3>1 DEF LifeInv, Known
    <3>3. On(m) => m.t # t BY <1>11, <2>2, <3>1
    <3>4. CASE m.t = t
      <4>1. ~Acting(m) /\ ~Making(m) BY <3>3, <3>4 DEF On
      <4>2. ~Acting(m)' /\ ~Making(m)' BY <1>8, <4>1 DEF Acting, Making
      <4>3. tasks'[m.t].current = new BY <1>2, <1>3, <1>5, <1>6, <3>4
      <4> QED BY <1>1, <1>8, <3>2, <4>1, <4>2, <4>3 DEF Knows, HandsOver, Acting, Making
    <3>5. CASE m.t # t
      <4>1. m.t \in TaskId \cup {None} BY <3>1 DEF TypeInv, TypeOK, Locals
      <4>2. m.t \in TaskId => tasks'[m.t] = tasks[m.t] BY <1>6, <3>5
      <4>3. Acting(m) \/ HandsOver(m) \/ Making(m) => m.t \in TaskId
        BY <3>2 DEF Knows, HandsOver, Stored, TypeInv, HasTask, Exists
      <4> QED BY <1>1, <1>8, <1>9, <3>2, <4>2, <4>3 DEF Knows, HandsOver, Acting, Making
    <3> QED BY <3>4, <3>5
  <2> QED BY <2>1, <2>2
<1>13. Alone'
  BY <1>2, <1>7, <1>8, <1>11 DEF LifeInv, Alone, On, Making, Acting
<1>14. Owned' BY <1>1, <1>2, <1>3, <1>4, <1>6, <1>8, <1>9 DEF LifeInv, Owned, Exists
<1>15. InTurn'
  <2> SUFFICES ASSUME NEW b \in AttemptId, Exists(b)', b # tasks'[attempts[b].task].current
               PROVE  /\ Finished(b)'
                      /\ \/ attempts[b].acked
                         \/ \E x \in Proc : proc'[x].a = b /\ HandsOver(proc'[x])
    BY <1>1 DEF InTurn, HandsOver
  <2>1. CASE b = a BY <1>1, <1>2, <1>7, <1>8, <1>10, <2>1
  <2>2. CASE b # a
    <3>1. Exists(b) /\ attempts[b].task \in TaskId BY <1>8 DEF TypeInv, HasTask
    <3>2. b # tasks[attempts[b].task].current BY <1>0, <1>1, <1>6, <2>2, <3>1
    <3>3. /\ Finished(b)
          /\ attempts[b].acked \/ \E x \in Proc : proc[x].a = b /\ HandsOver(proc[x])
      BY <3>1, <3>2 DEF LifeInv, InTurn
    <3> QED BY <1>7, <1>8, <1>10, <3>3
  <2> QED BY <2>1, <2>2
<1>16. Outstanding'
  <2>1. \A b \in AttemptId : Exists(b) => attempts[b].task \in TaskId
    BY DEF TypeInv, HasTask
  <2> QED BY <1>1, <1>2, <1>3, <1>4, <1>6, <1>8, <2>1 DEF LifeInv, Outstanding
<1>17. StillActive' BY <1>2, <1>3, <1>4, <1>6, <1>8, <1>9 DEF LifeInv, StillActive
<1>18. old.active BY <1>0, <1>1, <1>5 DEF LifeInv, StillActive
<1>19. Spent'
  <2> SUFFICES ASSUME MaxAttempts > 0, NEW u \in TaskId, Stored(u)', ~tasks'[u].schedule
               PROVE  /\ IsFiniteSet(AttemptsOf(u)) /\ Cardinality(AttemptsOf(u)) <= MaxAttempts
                      /\ tasks'[u].active =>
                           /\ tasks'[u].retry + 1 <= MaxAttempts
                           /\ Cardinality(AttemptsOf(u)) <= tasks'[u].retry + 1
                           /\ ~Exists(tasks'[u].current) =>
                                Cardinality(AttemptsOf(u)) <= tasks'[u].retry
    BY <1>8 DEF Spent
  <2>1. CASE u # t BY <1>6, <1>9, <2>1 DEF LifeInv, Spent
  <2>2. CASE u = t
    <3>1. tasks'[u] = next /\ ~old.schedule BY <1>2, <1>6, <2>2
    <3>2. /\ IsFiniteSet(AttemptsOf(u)) /\ Cardinality(AttemptsOf(u)) <= MaxAttempts
          /\ Cardinality(AttemptsOf(u)) <= old.retry + 1
      BY <1>0, <1>1, <1>18, <2>2, <3>1 DEF LifeInv, Spent
    <3>3. Cardinality(AttemptsOf(u)) \in Int /\ old.retry \in Int /\ MaxAttempts \in Int
      BY <1>0, <1>5, <3>2, FS_CardinalityType, EngineAssumption
      DEF TypeInv, TypeOK, TaskDocs
    <3>4. ASSUME next.active PROVE attempts[a].status = "error"
      BY <1>1, <1>2, <3>1, <3>4 DEF Finished
    <3> HIDE DEF AttemptsOf
    <3>5. ASSUME next.active
          PROVE  /\ next.retry = old.retry + 1 /\ next.retry + 1 <= MaxAttempts
                 /\ Cardinality(AttemptsOf(u)) <= next.retry
      <4>1. next.retry = old.retry + 1 /\ old.retry + 1 < MaxAttempts
        BY <1>2, <3>4, <3>5
      <4> QED BY <3>2, <3>3, <4>1
    <3> QED BY <3>1, <3>2, <3>3, <3>5
  <2> QED BY <2>1, <2>2
<1>20. Succeeded'
  <2> SUFFICES ASSUME NEW u \in TaskId, Stored(u)', ~tasks'[u].schedule,
                      NEW b \in AttemptsOf(u), attempts[b].status = "success",
                      b # tasks'[u].current
               PROVE  ~tasks'[u].active
    BY <1>1, <1>8 DEF Succeeded
  <2>1. CASE u # t BY <1>6, <1>9, <2>1 DEF LifeInv, Succeeded
  <2>2. CASE u = t
    <3>1. tasks'[u] = next /\ ~old.schedule BY <1>2, <1>6, <2>2
    <3>2. b = a
      BY <1>0, <1>1, <1>18, <2>2, <3>1 DEF LifeInv, Succeeded
    <3> QED BY <1>2, <3>1, <3>2
  <2> QED BY <2>1, <2>2
<1> QED BY <1>12, <1>13, <1>14, <1>15, <1>16, <1>17, <1>19, <1>20 DEF LifeInv

\* The attempt a task wants is inserted, with nobody else on the task.
LEMMA LifeInsert ==
  ASSUME TypeInv, ResultInv, Named, LifeInv, NEW p \in Proc, Insert(p)
  PROVE  LifeInv'
<1>0. proc[p] \in Locals /\ Knows(p, proc[p]) BY DEF TypeInv, TypeOK, LifeInv, Known
<1>a. PICK new, t, a : new = proc[p].copy.current /\ t = proc[p].t /\ a = proc[p].a OBVIOUS
<1>b. PICK l : l = [proc[p] EXCEPT !.pc = "mark"] OBVIOUS
<1>c. PICK doc : doc = [NoAttempt EXCEPT !.status = "pending", !.task = proc[p].t] OBVIOUS
<1>1. /\ proc[p].pc = "insert" /\ ~Exists(new) /\ Become(p, l) /\ UNCHANGED tasks
      /\ attempts' = [attempts EXCEPT ![new] = doc]
  BY <1>a, <1>b, <1>c DEF Insert, At, Goto
<1>2. doc.status = "pending" /\ doc.task = t /\ doc.acked = FALSE
  BY <1>a, <1>c DEF NoAttempt
<1>3. l.pc = "mark" /\ l.a = a /\ l.t = t BY <1>0, <1>a, <1>b DEF Locals
<1>4. /\ Stored(t) /\ t \in TaskId /\ new = tasks[t].current /\ tasks[t].active
      /\ On(proc[p]) /\ Making(proc[p])
  BY <1>0, <1>1, <1>a DEF Knows, Making, On, Stored
<1>5. new \in AttemptId BY <1>1, <1>a DEF Named, NamedLocal, NamedSteps
<1>6. \A b \in AttemptId : attempts'[b] = IF b = new THEN doc ELSE attempts[b]
  BY <1>1 DEF TypeInv, TypeOK
<1>7. \A b : Exists(b)' <=> Exists(b) \/ b = new BY <1>2, <1>5, <1>6 DEF Exists
<1>8. \A b : b # new => (Finished(b)' <=> Finished(b)) BY <1>6 DEF Finished
<1>9. \A u : Stored(u)' <=> Stored(u) BY <1>1 DEF Stored
<1>10. \A x \in Proc : proc'[x] = IF x = p THEN l ELSE proc[x]
  BY <1>1 DEF Become, TypeInv, TypeOK
<1>11. ~On(l) /\ ~Acting(l) /\ ~Making(l) BY <1>3 DEF On, Acting, Making
<1>12. HandsOver(l) <=> HandsOver(proc[p]) BY <1>1, <1>3, <1>a DEF HandsOver
<1>13. \A u \in TaskId : Stored(u) /\ tasks[u].current = new => u = t
  BY <1>4 DEF LifeInv, Owned
\* Nobody else will insert it.
<1>14. ASSUME NEW x \in Proc, x # p, Making(proc[x]) PROVE proc[x].copy.current # new
  <2>1. Knows(x, proc[x]) /\ On(proc[x]) BY <1>14 DEF LifeInv, Known, On
  <2>2. proc[x].t # t BY <1>4, <1>a, <1>14, <2>1 DEF LifeInv, Alone
  <2> QED BY <1>13, <1>14, <2>1, <2>2 DEF Knows, Stored
<1>15. Known'
  <2> SUFFICES ASSUME NEW x \in Proc PROVE Knows(x, proc[x])' BY DEF Known
  <2>1. CASE x = p
    <3>1. a # None => /\ Exists(a) /\ attempts[a].task = t /\ p \in Worker \cup Fixer
                      /\ a \in AttemptId /\ a # new
      BY <1>0, <1>1, <1>a DEF Knows, Exists
    <3>2. a # None => Exists(a)' /\ attempts'[a].task = t BY <1>6, <1>7, <3>1
    <3>3. HandsOver(l) => l.a # tasks'[t].current
      BY <1>0, <1>1, <1>12, <1>3, <1>a DEF Knows
    <3> QED BY <1>3, <1>10, <1>11, <2>1, <3>1, <3>2, <3>3
            DEF Knows, HandsOver, Acting, Making
  <2>2. CASE x # p
    <3>1. PICK m : m = proc[x] OBVIOUS
    <3>2. Knows(x, m) /\ proc'[x] = m BY <1>10, <2>2, <3>1 DEF LifeInv, Known
    <3>3. Making(m)' => Making(m) BY <1>7 DEF Making
    <3>4. Making(m) => m.copy.current # new BY <1>14, <2>2, <3>1
    <3>5. Exists(m.a) => m.a \in AttemptId /\ m.a # new /\ Exists(m.a)'
      BY <1>1, <1>7 DEF Exists
    <3>6. Exists(m.a) => attempts'[m.a] = attempts[m.a] BY <1>6, <3>5
    <3>7. Making(m)' => /\ Stored(m.t)' /\ ~Exists(m.copy.current)'
                        /\ m.copy.current = tasks'[m.t].current
                        /\ m.copy.active => tasks'[m.t].active
      BY <1>1, <1>7, <1>9, <3>2, <3>3, <3>4 DEF Knows
    <3>8. Acting(m)' <=> Acting(m) BY DEF Acting
    <3>9. HandsOver(m)' <=> HandsOver(m) BY DEF HandsOver
    <3> QED BY <1>1, <3>2, <3>5, <3>6, <3>7, <3>8, <3>9
            DEF Knows, Acting, Making, HandsOver
  <2> QED BY <2>1, <2>2
<1>16. Alone'
  BY <1>3, <1>7, <1>10 DEF LifeInv, Alone, On, Making, Acting
<1>17. Owned'
  <2>1. ASSUME NEW u \in TaskId, Stored(u), Exists(tasks[u].current)'
        PROVE  attempts'[tasks[u].current].task = u
    <3>1. CASE tasks[u].current = new BY <1>2, <1>5, <1>6, <1>13, <2>1, <3>1
    <3>2. CASE tasks[u].current # new
      <4>1. Exists(tasks[u].current) BY <1>1, <1>6, <2>1, <3>2 DEF Exists
      <4> QED BY <1>6, <2>1, <3>2, <4>1 DEF LifeInv, Owned, Exists
    <3> QED BY <3>1, <3>2
  <2>2. \A b \in AttemptId : Exists(b)' => Stored(attempts'[b].task)
    BY <1>2, <1>4, <1>6, <1>7 DEF LifeInv, Owned
  <2> QED BY <1>1, <1>9, <2>1, <2>2 DEF LifeInv, Owned
<1>18. InTurn'
  <2> SUFFICES ASSUME NEW b \in AttemptId, Exists(b)', b # tasks[attempts'[b].task].current
               PROVE  /\ Finished(b)'
                      /\ \/ attempts'[b].acked
                         \/ \E x \in Proc : proc'[x].a = b /\ HandsOver(proc'[x])
    BY <1>1 DEF InTurn, HandsOver
  <2>1. b # new BY <1>2, <1>4, <1>6
  <2>2. Exists(b) /\ attempts'[b] = attempts[b] BY <1>6, <1>7, <2>1
  <2>3. /\ Finished(b)
        /\ attempts[b].acked \/ \E x \in Proc : proc[x].a = b /\ HandsOver(proc[x])
    BY <2>2 DEF LifeInv, InTurn
  <2> QED BY <1>3, <1>8, <1>10, <1>12, <1>a, <2>1, <2>2, <2>3
<1>19. Outstanding' BY <1>1, <1>2, <1>6, <1>7 DEF LifeInv, Outstanding
<1>20. StillActive' BY <1>1, <1>4, <1>7, <1>9, <1>13 DEF LifeInv, StillActive
<1>21. \A u : u # t => AttemptsOf(u)' = AttemptsOf(u)
  BY <1>1, <1>2, <1>5, <1>6, <1>7 DEF AttemptsOf
<1>22. AttemptsOf(t)' = AttemptsOf(t) \cup {new} /\ new \notin AttemptsOf(t)
  BY <1>1, <1>2, <1>5, <1>6, <1>7 DEF AttemptsOf
<1>23. Spent'
  <2> SUFFICES ASSUME MaxAttempts > 0, NEW u \in TaskId, Stored(u)', ~tasks[u].schedule
               PROVE  /\ IsFiniteSet(AttemptsOf(u)') /\ Cardinality(AttemptsOf(u)') <= MaxAttempts
                      /\ tasks[u].active =>
                           /\ tasks[u].retry + 1 <= MaxAttempts
                           /\ Cardinality(AttemptsOf(u)') <= tasks[u].retry + 1
                           /\ ~Exists(tasks[u].current)' =>
                                Cardinality(AttemptsOf(u)') <= tasks[u].retry
    BY <1>1 DEF Spent
  <2>1. CASE u # t
    <3>1. AttemptsOf(u)' = AttemptsOf(u) BY <1>21, <2>1
    <3>2. Stored(u) BY <1>9
    <3>3. Exists(tasks[u].current)' <=> Exists(tasks[u].current)
      BY <1>1, <1>6, <1>13, <2>1, <3>2 DEF Exists
    <3> QED BY <3>1, <3>2, <3>3 DEF LifeInv, Spent
  <2>2. CASE u = t
    <3>1. /\ IsFiniteSet(AttemptsOf(t)) /\ tasks[t].retry + 1 <= MaxAttempts
          /\ Cardinality(AttemptsOf(t)) <= tasks[t].retry
      BY <1>1, <1>4, <2>2 DEF LifeInv, Spent
    <3>2. IsFiniteSet(AttemptsOf(t)') /\ Cardinality(AttemptsOf(t)') = Cardinality(AttemptsOf(t)) + 1
      BY <1>22, <3>1, FS_AddElement
    <3>3. Cardinality(AttemptsOf(t)) \in Int /\ tasks[t].retry \in Int /\ MaxAttempts \in Int
      BY <1>4, <3>1, FS_CardinalityType, EngineAssumption DEF TypeInv, TypeOK, TaskDocs
    <3>4. Exists(tasks[u].current)' BY <1>1, <1>2, <1>4, <1>5, <1>6, <2>2 DEF Exists
    <3> HIDE DEF AttemptsOf
    <3> QED BY <2>2, <3>1, <3>2, <3>3, <3>4
  <2> QED BY <2>1, <2>2
<1>24. Succeeded'
  <2> SUFFICES ASSUME NEW u \in TaskId, Stored(u)', ~tasks[u].schedule,
                      NEW b \in AttemptsOf(u)', attempts'[b].status = "success",
                      b # tasks[u].current
               PROVE  ~tasks[u].active
    BY <1>1 DEF Succeeded
  <2>1. b \in AttemptId BY DEF AttemptsOf, Exists
  <2>2. b # new BY <1>2, <1>6, <2>1
  <2>3. b \in AttemptsOf(u) BY <1>21, <1>22, <2>2
  <2> QED BY <1>6, <1>9, <2>1, <2>2, <2>3 DEF LifeInv, Succeeded
<1> QED BY <1>15, <1>16, <1>17, <1>18, <1>19, <1>20, <1>23, <1>24 DEF LifeInv

\* A task is created, with no attempts.
LEMMA LifePutNew ==
  ASSUME TypeInv, ResultInv, LifeInv, NEW c \in Proc, NEW t \in TaskId,
         NEW schedule \in Schedules, NEW active \in Actives, PutNew(c, t, schedule, active)
  PROVE  LifeInv'
<1>a. PICK new : new = PutDoc(schedule, active) OBVIOUS
<1>b. PICK l : l = IF active THEN [Rest EXCEPT !.pc = "insert", !.t = t, !.copy = Wanted(new)]
                   ELSE Rest
  OBVIOUS
<1>1. /\ proc[c].pc = "idle" /\ tasks[t].state = "unused" /\ Unused # {}
      /\ tasks' = [tasks EXCEPT ![t] = new] /\ Become(c, l) /\ UNCHANGED attempts
  BY <1>a, <1>b DEF PutNew, Call, At
<1>2. PICK id : id = Fresh OBVIOUS
<1>3. id \in AttemptId /\ ~Exists(id) /\ \A u \in TaskId : tasks[u].current # id
  BY <1>1, <1>2, FreshUnused
<1>4. /\ new.state = "stored" /\ new.current = id /\ new.retry = 0
      /\ new.active = active /\ new.deleted = FALSE
  BY <1>2, <1>a DEF PutDoc, NoTask
<1>5. /\ l.a = None /\ l.pc \in {"idle", "insert"}
      /\ l.pc = "insert" => /\ l.t = t /\ l.copy.current = id
                            /\ l.copy.active /\ new.active
  <2>1. active \in BOOLEAN BY EngineAssumption
  <2>2. Wanted(new).active = (new.active /\ ~new.deleted) /\ Wanted(new).current = new.current
    BY DEF Wanted
  <2>3. CASE active
    <3>1. l = [Rest EXCEPT !.pc = "insert", !.t = t, !.copy = Wanted(new)] BY <1>b, <2>3
    <3>2. l.a = None /\ l.pc = "insert" /\ l.t = t /\ l.copy = Wanted(new) BY <3>1 DEF Rest
    <3> QED BY <1>4, <2>2, <2>3, <3>2
  <2>4. CASE ~active
    <3>1. l.a = None /\ l.pc = "idle" BY <1>b, <2>4 DEF Rest
    <3> QED BY <3>1
  <2> QED BY <2>1, <2>3, <2>4
<1>6. \A u \in TaskId : tasks'[u] = IF u = t THEN new ELSE tasks[u]
  BY <1>1 DEF TypeInv, TypeOK
<1>7. \A x \in Proc : proc'[x] = IF x = c THEN l ELSE proc[x]
  BY <1>1 DEF Become, TypeInv, TypeOK
<1>8. /\ \A b : (Exists(b)' <=> Exists(b)) /\ (Finished(b)' <=> Finished(b))
      /\ \A u : AttemptsOf(u)' = AttemptsOf(u)
  BY <1>1 DEF Exists, Finished, AttemptsOf
<1>9. \A u : Stored(u)' <=> Stored(u) \/ u = t BY <1>1, <1>4, <1>6 DEF Stored
<1>10. ~Stored(t) BY <1>1 DEF Stored
<1>11. ~HandsOver(l) /\ ~Acting(l) /\ ~HandsOver(proc[c])
  BY <1>1, <1>5 DEF HandsOver, Acting
\* Nobody has to do with it yet.
<1>12. \A b \in AttemptId : Exists(b) => attempts[b].task \in TaskId /\ attempts[b].task # t
  BY <1>10 DEF LifeInv, Owned, Stored
<1>13. ASSUME NEW x \in Proc, Acting(proc[x]) \/ HandsOver(proc[x]) \/ Making(proc[x])
       PROVE  proc[x].t # t /\ proc[x].t \in TaskId
  <2>1. Knows(x, proc[x]) BY DEF LifeInv, Known
  <2> QED BY <1>10, <1>12, <1>13, <2>1 DEF Knows, HandsOver, Stored, Exists
<1>14. Known'
  <2> SUFFICES ASSUME NEW x \in Proc PROVE Knows(x, proc[x])' BY DEF Known
  <2>1. CASE x = c
    <3>1. Stored(t)' /\ ~Exists(id)' /\ tasks'[t] = new BY <1>3, <1>6, <1>8, <1>9
    <3> QED BY <1>4, <1>5, <1>7, <1>11, <2>1, <3>1 DEF Knows, HandsOver, Acting, Making
  <2>2. CASE x # c
    <3>1. PICK m : m = proc[x] OBVIOUS
    <3>2. Knows(x, m) /\ proc'[x] = m BY <1>7, <2>2, <3>1 DEF LifeInv, Known
    <3>3. Acting(m) \/ HandsOver(m) \/ Making(m) => tasks'[m.t] = tasks[m.t]
      BY <1>6, <1>13, <3>1
    <3> QED BY <1>1, <1>8, <1>9, <3>2, <3>3 DEF Knows, HandsOver, Acting, Making
  <2> QED BY <2>1, <2>2
<1>15. Alone'
  <2>1. \A x \in Proc : On(proc[x]) => proc[x].t # t BY <1>13 DEF On
  <2> QED BY <1>5, <1>7, <1>8, <2>1 DEF LifeInv, Alone, On, Making, Acting
<1>16. Owned' BY <1>1, <1>3, <1>4, <1>6, <1>8, <1>9, <1>12 DEF LifeInv, Owned, Exists
<1>17. InTurn'
  <2> SUFFICES ASSUME NEW b \in AttemptId, Exists(b)', b # tasks'[attempts[b].task].current
               PROVE  /\ Finished(b)'
                      /\ \/ attempts[b].acked
                         \/ \E x \in Proc : proc'[x].a = b /\ HandsOver(proc'[x])
    BY <1>1 DEF InTurn, HandsOver
  <2>1. Exists(b) /\ b # tasks[attempts[b].task].current BY <1>6, <1>8, <1>12
  <2>2. /\ Finished(b)
        /\ attempts[b].acked \/ \E x \in Proc : proc[x].a = b /\ HandsOver(proc[x])
    BY <2>1 DEF LifeInv, InTurn
  <2> QED BY <1>7, <1>8, <1>11, <2>2
<1>18. Outstanding' BY <1>1, <1>6, <1>8, <1>12 DEF LifeInv, Outstanding
<1>19. StillActive' BY <1>3, <1>4, <1>6, <1>8, <1>9 DEF LifeInv, StillActive
<1>20. AttemptsOf(t) = {} BY <1>12 DEF AttemptsOf, Exists
<1>21. Spent'
  <2> SUFFICES ASSUME MaxAttempts > 0, NEW u \in TaskId, Stored(u)', ~tasks'[u].schedule
               PROVE  /\ IsFiniteSet(AttemptsOf(u)) /\ Cardinality(AttemptsOf(u)) <= MaxAttempts
                      /\ tasks'[u].active =>
                           /\ tasks'[u].retry + 1 <= MaxAttempts
                           /\ Cardinality(AttemptsOf(u)) <= tasks'[u].retry + 1
                           /\ ~Exists(tasks'[u].current) =>
                                Cardinality(AttemptsOf(u)) <= tasks'[u].retry
    BY <1>8 DEF Spent
  <2>1. CASE u # t BY <1>6, <1>9, <2>1 DEF LifeInv, Spent
  <2>2. CASE u = t
    <3>1. tasks'[u].retry = 0 BY <1>4, <1>6, <2>2
    <3>2. IsFiniteSet(AttemptsOf(u)) /\ Cardinality(AttemptsOf(u)) = 0
      BY <1>20, <2>2, FS_EmptySet
    <3> HIDE DEF AttemptsOf
    <3> QED BY <3>1, <3>2, EngineAssumption
  <2> QED BY <2>1, <2>2
<1>22. Succeeded' BY <1>1, <1>6, <1>8, <1>9, <1>20 DEF LifeInv, Succeeded
<1> QED BY <1>14, <1>15, <1>16, <1>17, <1>18, <1>19, <1>21, <1>22 DEF LifeInv
-----------------------------------------------------------------------------
\* Before anything happened there are no tasks.
LEMMA LifeInit == Init => LifeInv
<1> SUFFICES ASSUME Init PROVE LifeInv OBVIOUS
<1>1. \A p \in Proc : proc[p].pc = "idle" /\ proc[p].a = None BY DEF Init, Rest
<1>2. \A t \in TaskId : ~Stored(t) BY DEF Init, NoTask, Stored
<1>3. \A a \in AttemptId : ~Exists(a) BY DEF Init, NoAttempt, Exists
<1>4. Known BY <1>1 DEF Known, Knows, Acting, Making, HandsOver
<1>5. Alone BY <1>1 DEF Alone, On, Acting, Making
<1>6. Owned /\ InTurn /\ Outstanding BY <1>2, <1>3 DEF Owned, InTurn, Outstanding
<1>7. StillActive /\ Spent /\ Succeeded BY <1>2 DEF StillActive, Spent, Succeeded
<1> QED BY <1>4, <1>5, <1>6, <1>7 DEF LifeInv

\* Every step but the cleaner's, by the lemmas above.
LEMMA LifeNext ==
  ASSUME Undisturbed, NoCleaning, TypeInv, Named, ResultInv, LifeInv, [Next]_vars
  PROVE  LifeInv'
<1> USE DEF Undisturbed
<1>1. ASSUME NEW p \in Proc, GoesOn(p) PROVE LifeInv'
  <2>1. CASE p \in Worker /\ WorkerGoesOn(p)
    BY <2>1, LifeWorker, LifeFinish DEF WorkerGoesOn
  <2>2. CASE ReadTask(p) \/ TaskGone(p) BY <2>2, LifeRead
  <2>3. CASE Apply(p) BY <2>3, LifeApply
  <2>4. CASE Ack(p) BY <2>4, LifeAck
  <2>5. CASE Purge(p) \/ InsertDup(p) \/ Mark(p) BY <2>5, LifePurge
  <2>6. CASE Insert(p) BY <2>6, LifeInsert
  <2>7. CASE DeleteTask(p) BY <2>7, LifeDelete
  <2>8. CASE p \in Fixer /\ Lookup(p) BY <2>8, LifeFixTask
  <2> QED BY <1>1, <2>1, <2>2, <2>3, <2>4, <2>5, <2>6, <2>7, <2>8 DEF GoesOn, NoCleaning
<1>2. ASSUME NEW p \in Proc, Crash(p) PROVE LifeInv' BY <1>2, LifeDelete
<1>3. ASSUME NEW p \in Proc, NewAttemptFails(p) PROVE LifeInv'
  <2>1. /\ proc[p].pc \in {"purge", "insert", "mark"}
        /\ Become(p, AfterNewAttempt(p)) /\ UNCHANGED <<tasks, attempts>>
    BY <1>3 DEF NewAttemptFails, Unacknowledged, At
  <2> QED BY <2>1, SameUnchanged, LifeAfter
<1>4. ASSUME NEW w \in Worker, NEW a \in AttemptId, Reserve(w, a) PROVE LifeInv'
  BY <1>4, LifeReserve
<1>5. ASSUME NEW c \in Client, ClientStep(c) PROVE LifeInv'
  <2>1. c \in Proc BY DEF Proc
  <2>2. \A t \in TaskId : /\ ~ForceAttempt(c, t)
                          /\ \A schedule, active : ~PutAgain(c, t, schedule, active)
    BY DEF ForceAttempt, PutAgain, Call
  <2> QED BY <1>5, <2>1, <2>2, LifePutNew, LifeDelete DEF ClientStep
<1>6. ASSUME NEW f \in Fixer, NEW t \in TaskId, FixTask(f, t) PROVE LifeInv'
  BY <1>6, LifeFixTask
<1>7. ASSUME NEW f \in Fixer, NEW a \in AttemptId, FixAttempt(f, a) PROVE LifeInv'
  BY <1>7, LifeFixAttempt
<1>8. /\ \A t \in TaskId : ~CleanTask(t)
      /\ \A a \in AttemptId : ~CleanFinished(a)
      /\ \A k \in Cleaner, a \in AttemptId : ~CleanAttempt(k, a)
  BY DEF NoCleaning
<1>9. ASSUME UNCHANGED vars \/ \E a \in AttemptId : Due(a) PROVE LifeInv' BY <1>9, LifeDue
<1> QED BY <1>1, <1>2, <1>3, <1>4, <1>5, <1>6, <1>7, <1>8, <1>9 DEF Next

-----------------------------------------------------------------------------
(* Attempts at hand.  The cleaner takes attempts that were acknowledged: it *)
(* must be shown that nobody still has such an attempt at hand.             *)

\* Who has an attempt at hand executes it, or has its result and did not
\* acknowledge it yet.
Holding(p, l) ==
  l.a # None =>
    \/ Acting(l)
    \/ p \in Worker /\ l.pc \in BusySteps
    \/ HandsOver(l) /\ ~attempts[l.a].acked

HandInv ==
  /\ \A p \in Proc : Holding(p, proc[p])
  /\ \A p, q \in Proc :
       HandsOver(proc[p]) /\ HandsOver(proc[q]) /\ proc[p].a = proc[q].a => p = q

AcksKept == \A a \in AttemptId : Exists(a) => attempts'[a].acked = attempts[a].acked

\* A process goes on, acknowledging nothing and taking no result on.
LEMMA HandStep ==
  ASSUME TypeInv, LifeInv, HandInv, AcksKept, NEW p \in Proc, NEW l, Become(p, l),
         Holding(p, l), HandsOver(l) => HandsOver(proc[p]) /\ l.a = proc[p].a
  PROVE  HandInv'
<1>1. \A x \in Proc : proc'[x] = IF x = p THEN l ELSE proc[x]
  BY DEF Become, TypeInv, TypeOK
<1>2. \A x \in Proc : HandsOver(proc'[x]) => HandsOver(proc[x]) /\ proc'[x].a = proc[x].a
  BY <1>1
<1>3. ASSUME NEW x \in Proc PROVE Holding(x, proc[x])'
  <2>1. PICK m : m = proc'[x] OBVIOUS
  <2>2. Holding(x, m) BY <1>1, <1>3, <2>1 DEF HandInv
  <2>3. HandsOver(m) => m.a \in AttemptId /\ Exists(m.a)
    BY <1>2, <1>3, <2>1 DEF LifeInv, Known, Knows, HandsOver, Exists
  <2>4. HandsOver(m) => attempts'[m.a].acked = attempts[m.a].acked BY <2>3 DEF AcksKept
  <2> QED BY <2>1, <2>2, <2>4 DEF Holding, HandsOver, Acting
<1>4. \A x, y \in Proc :
        HandsOver(proc'[x]) /\ HandsOver(proc'[y]) /\ proc'[x].a = proc'[y].a => x = y
  BY <1>2 DEF HandInv
<1> QED BY <1>3, <1>4 DEF HandInv, HandsOver

\* In particular without a result at hand that it has acted on.
LEMMA HandFree ==
  ASSUME TypeInv, LifeInv, HandInv, AcksKept, NEW p \in Proc, NEW l, Become(p, l),
         l.a = None \/ Acting(l) \/ (p \in Worker /\ l.pc \in BusySteps)
  PROVE  HandInv'
<1>1. ~HandsOver(l) BY DEF HandsOver, Acting, BusySteps
<1> QED BY <1>1, HandStep DEF Holding

\* Or within NewAttempt, up to the acknowledgement.
LEMMA HandOn ==
  ASSUME TypeInv, LifeInv, HandInv, AcksKept, NEW p \in Proc, NEW l, Become(p, l),
         l.a = proc[p].a, proc[p].pc \in {"purge", "insert", "mark"},
         l.pc \in {"purge", "insert", "mark", "ack"}
  PROVE  HandInv'
<1>1. HandsOver(proc[p]) <=> HandsOver(l) BY DEF HandsOver
<1>2. Holding(p, l)
  BY <1>1 DEF HandInv, Holding, Acting, HandsOver, BusySteps
<1> QED BY <1>1, <1>2, HandStep

\* NewAttempt returns.
LEMMA HandAfter ==
  ASSUME TypeInv, LifeInv, HandInv, AcksKept, NEW p \in Proc,
         proc[p].pc \in {"purge", "insert", "mark"}, Become(p, AfterNewAttempt(p))
  PROVE  HandInv'
<1>1. PICK l : l = AfterNewAttempt(p) OBVIOUS
<1>2. CASE proc[p].a = None
  <2>1. l.a = None BY <1>1, <1>2 DEF AfterNewAttempt, Rest
  <2> QED BY <1>1, <2>1, HandFree
<1>3. CASE proc[p].a # None
  <2>1. l.pc = "ack" /\ l.a = proc[p].a BY <1>1, <1>3 DEF AfterNewAttempt, Rest
  <2> QED BY <1>1, <2>1, HandOn
<1> QED BY <1>2, <1>3

\* Without a write to the attempts.
LEMMA AcksUnchanged == UNCHANGED attempts => AcksKept
BY DEF AcksKept

\* Workers.
LEMMA HandWorker ==
  ASSUME TypeInv, LifeInv, HandInv, NEW w \in Worker,
         WorkerGoesOn(w) \/ \E a \in AttemptId : Reserve(w, a)
  PROVE  HandInv'
<1>0. w \in Proc /\ proc[w] \in Locals BY DEF Proc, TypeInv, TypeOK
<1>1. AcksKept
  <2>1. CASE Finish(w)
    <3> SUFFICES ASSUME NEW b \in AttemptId PROVE attempts'[b].acked = attempts[b].acked
      BY DEF AcksKept
    <3> QED BY <2>1 DEF Finish, TypeInv, TypeOK, AttemptDocs
  <2>2. CASE \E a \in AttemptId : Reserve(w, a)
    <3>1. PICK a \in AttemptId : Reserve(w, a) BY <2>2
    <3>2. /\ attempts' = [attempts EXCEPT ![a].status = "running", ![a].due = FALSE]
          /\ attempts \in [AttemptId -> AttemptDocs]
      BY <3>1 DEF Reserve, TypeInv, TypeOK
    <3>3. \A b \in AttemptId : attempts'[b].acked = attempts[b].acked
      BY <3>2 DEF AttemptDocs
    <3> QED BY <3>3 DEF AcksKept
  <2>3. CASE WorkerGoesOn(w) /\ ~Finish(w)
    BY <2>3, AcksUnchanged
    DEF WorkerGoesOn, GiveUp, EnQueueCount, EnQueueAdmit, EnQueueFull, Execute, Reject,
        DeQueue, FinishGone
  <2> QED BY <2>1, <2>2, <2>3
<1> DEFINE m(step) == [proc[w] EXCEPT !.pc = step]
           e(result) == [proc[w] EXCEPT !.pc = "dequeue", !.out = result]
           r(a, t) == [proc[w] EXCEPT !.pc = "count", !.a = a, !.t = t]
           g(full) == [Rest EXCEPT !.full = full]
<1>2. /\ \A step : m(step).pc = step
      /\ \A result : e(result).pc = "dequeue"
      /\ \A a, t : r(a, t).pc = "count"
      /\ \A full : g(full).a = None
      /\ Rest.a = None
  BY <1>0 DEF Locals, Rest
<1>3. \/ \E step \in {"http", "push", "finish", "read"} : Become(w, m(step))
      \/ \E result : Become(w, e(result))
      \/ \E a, t : Become(w, r(a, t))
      \/ \E full : Become(w, g(full))
      \/ Become(w, Rest)
  BY DEF WorkerGoesOn, Reserve, GiveUp, EnQueueCount, EnQueueAdmit, EnQueueFull, Execute,
         Reject, DeQueue, Finish, FinishGone, Goto
<1> HIDE DEF m, e, r, g
<1>4. \E l : /\ Become(w, l)
             /\ l.a = None \/ l.pc = "read" \/ l.pc \in BusySteps
  BY <1>2, <1>3 DEF BusySteps
<1> QED BY <1>0, <1>1, <1>4, HandFree DEF Acting

\* A result is acted on.  It is that of the attempt its task wanted, so nobody
\* had acted on it before.
LEMMA HandApply ==
  ASSUME TypeInv, ResultInv, LifeInv, HandInv, NEW p \in Proc, Apply(p)
  PROVE  HandInv'
<1>1. PICK a, t : a = proc[p].a /\ t = proc[p].t OBVIOUS
<1>2. /\ UNCHANGED attempts /\ At(p, "apply") /\ Acting(proc[p])
      /\ \E l : Become(p, l) /\ l.a = a
  <2> DEFINE l(step, c) == [Rest EXCEPT !.pc = step, !.a = proc[p].a, !.t = proc[p].t,
                                        !.copy = c]
  <2>1. UNCHANGED attempts /\ At(p, "apply") BY DEF Apply
  <2>2. \E step, c : Become(p, l(step, c)) BY DEF Apply
  <2>3. \A step, c : l(step, c).a = a BY <1>1 DEF Rest
  <2> HIDE DEF l
  <2> QED BY <2>1, <2>2, <2>3 DEF Acting, At
<1>3. PICK l : Become(p, l) /\ l.a = a BY <1>2
<1>4. /\ Exists(a) /\ attempts[a].task = t /\ a = tasks[t].current /\ ~attempts[a].acked
      /\ a # None
  BY <1>1, <1>2 DEF LifeInv, Known, Knows
<1>5. l.pc \in {"purge", "ack"}
  <2>1. PICK step \in {"purge", "ack"} : \E c :
          Become(p, [Rest EXCEPT !.pc = step, !.a = proc[p].a, !.t = proc[p].t, !.copy = c])
    BY DEF Apply
  <2>2. PICK c :
          Become(p, [Rest EXCEPT !.pc = step, !.a = proc[p].a, !.t = proc[p].t, !.copy = c])
    BY <2>1
  <2>3. l = [Rest EXCEPT !.pc = step, !.a = proc[p].a, !.t = proc[p].t, !.copy = c]
    BY <1>3, <2>2 DEF Become, TypeInv, TypeOK
  <2> QED BY <2>3 DEF Rest
<1>6. \A x \in Proc : proc'[x] = IF x = p THEN l ELSE proc[x]
  BY <1>3 DEF Become, TypeInv, TypeOK
<1>7. ASSUME NEW x \in Proc, HandsOver(proc[x]) PROVE proc[x].a # a
  <2>1. Knows(x, proc[x]) BY DEF LifeInv, Known
  <2> QED BY <1>4, <1>7, <2>1 DEF Knows, HandsOver
<1>8. ASSUME NEW x \in Proc PROVE Holding(x, proc[x])'
  BY <1>2, <1>3, <1>4, <1>5, <1>6, <1>8 DEF HandInv, Holding, HandsOver, Acting
<1>9. \A x, y \in Proc :
        HandsOver(proc'[x]) /\ HandsOver(proc'[y]) /\ proc'[x].a = proc'[y].a => x = y
  BY <1>3, <1>6, <1>7 DEF HandInv
<1> QED BY <1>8, <1>9 DEF HandInv, HandsOver

\* A result is acknowledged, by the only one who has it.
LEMMA HandAck ==
  ASSUME TypeInv, ResultInv, LifeInv, HandInv, NEW p \in Proc, Ack(p)
  PROVE  HandInv'
<1>1. PICK a : a = proc[p].a OBVIOUS
<1>2. PICK l : l = Rest OBVIOUS
<1>3. /\ l.a = None /\ Become(p, l) /\ At(p, "ack")
      /\ attempts' = IF Exists(a) THEN [attempts EXCEPT ![a].acked = TRUE] ELSE attempts
  BY <1>1, <1>2 DEF Ack, Rest
<1>4. CASE a = None
  <2>1. ~Exists(a) BY <1>4, EngineAssumption DEF Exists
  <2> QED BY <1>3, <2>1, AcksUnchanged, HandFree
<1>5. CASE a # None
  <2>1. HandsOver(proc[p]) BY <1>1, <1>3, <1>5 DEF HandsOver, At
  <2>2. \A x \in Proc : x # p /\ HandsOver(proc[x]) => proc[x].a # a
    BY <1>1, <2>1 DEF HandInv
  <2>3. \A b \in AttemptId : b # a => attempts'[b] = attempts[b]
    BY <1>3 DEF TypeInv, TypeOK
  <2>4. \A x \in Proc : proc'[x] = IF x = p THEN l ELSE proc[x]
    BY <1>3 DEF Become, TypeInv, TypeOK
  <2>5. ASSUME NEW x \in Proc PROVE Holding(x, proc[x])'
    <3>1. CASE x = p BY <1>3, <2>4, <3>1 DEF Holding
    <3>2. CASE x # p
      <4>1. PICK m : m = proc[x] OBVIOUS
      <4>2. Holding(x, m) /\ proc'[x] = m BY <2>4, <3>2, <4>1 DEF HandInv
      <4>3. HandsOver(m) => m.a \in AttemptId /\ m.a # a
        BY <2>2, <3>2, <4>1 DEF LifeInv, Known, Knows, HandsOver, Exists
      <4>4. HandsOver(m) => attempts'[m.a] = attempts[m.a] BY <2>3, <4>3
      <4> QED BY <4>2, <4>4 DEF Holding, HandsOver, Acting
    <3> QED BY <3>1, <3>2
  <2>6. \A x, y \in Proc :
          HandsOver(proc'[x]) /\ HandsOver(proc'[y]) /\ proc'[x].a = proc'[y].a => x = y
    BY <1>3, <2>4 DEF HandInv, HandsOver
  <2> QED BY <2>5, <2>6 DEF HandInv, HandsOver
<1> QED BY <1>4, <1>5

\* NewAttempt.
LEMMA HandNewAttempt ==
  ASSUME TypeInv, LifeInv, HandInv, NEW p \in Proc,
         Purge(p) \/ Insert(p) \/ InsertDup(p) \/ Mark(p) \/ NewAttemptFails(p)
  PROVE  HandInv'
<1>0. proc[p] \in Locals BY DEF TypeInv, TypeOK
<1>1. AcksKept
  <2>1. CASE Purge(p) BY <2>1 DEF Purge, AcksKept, TypeInv, TypeOK, AttemptDocs
  <2>2. CASE Insert(p) BY <2>2 DEF Insert, AcksKept, TypeInv, TypeOK
  <2>3. CASE InsertDup(p) \/ Mark(p) \/ NewAttemptFails(p)
    BY <2>3, AcksUnchanged DEF InsertDup, Mark, NewAttemptFails
  <2> QED BY <2>1, <2>2, <2>3
<1>2. proc[p].pc \in {"purge", "insert", "mark"}
  BY DEF Purge, Insert, InsertDup, Mark, NewAttemptFails, Unacknowledged, At
<1>3. \/ Become(p, AfterNewAttempt(p))
      \/ \E step \in {"insert", "mark"} : Become(p, [proc[p] EXCEPT !.pc = step])
  BY DEF Purge, Insert, InsertDup, Mark, NewAttemptFails, Goto
<1>4. ASSUME NEW step \in {"insert", "mark"}, Become(p, [proc[p] EXCEPT !.pc = step])
      PROVE  HandInv'
  <2>1. PICK l : l = [proc[p] EXCEPT !.pc = step] OBVIOUS
  <2>2. l.pc = step /\ l.a = proc[p].a BY <1>0, <2>1 DEF Locals
  <2> QED BY <1>1, <1>2, <1>4, <2>1, <2>2, HandOn
<1> QED BY <1>1, <1>2, <1>3, <1>4, HandAfter

\* The others have no attempt at hand, or take a result on.
LEMMA HandOthers ==
  ASSUME TypeInv, LifeInv, HandInv, NEW p \in Proc,
         \/ ReadTask(p) \/ TaskGone(p) \/ DeleteTask(p) \/ Lookup(p) \/ Crash(p)
         \/ ClientStep(p)
         \/ \E t \in TaskId : FixTask(p, t)
         \/ \E a \in AttemptId : FixAttempt(p, a)
  PROVE  HandInv'
<1>0. proc[p] \in Locals BY DEF TypeInv, TypeOK
<1> DEFINE n(step, t, copy) == [Rest EXCEPT !.pc = step, !.t = t, !.copy = copy]
           d(t) == [Rest EXCEPT !.pc = "delete", !.t = t]
           k(copy) == [proc[p] EXCEPT !.pc = "apply", !.copy = copy]
           r(a, t, out) == [Rest EXCEPT !.pc = "read", !.a = a, !.t = t, !.out = out]
           u == [proc[p] EXCEPT !.pc = "purge"]
<1>1. /\ Rest.a = None
      /\ \A step, t, copy : n(step, t, copy).a = None
      /\ \A t : d(t).a = None
      /\ \A copy : k(copy).pc = "apply"
      /\ \A a, t, out : r(a, t, out).pc = "read"
      /\ u.a = proc[p].a
  BY <1>0 DEF Locals, Rest
<1>2. CASE ClientStep(p)
  <2>1. PICK t \in TaskId :
          \/ \E schedule \in Schedules, active \in Actives :
               PutNew(p, t, schedule, active) \/ PutAgain(p, t, schedule, active)
          \/ DeleteAttempts(p, t) \/ ForceAttempt(p, t)
    BY <1>2 DEF ClientStep
  <2>2. CASE ForceAttempt(p, t)
    BY <2>2 DEF ForceAttempt, HandInv, Holding, HandsOver, Acting
  <2>3. CASE DeleteAttempts(p, t)
    <3>1. AcksKept BY <2>3 DEF DeleteAttempts, AcksKept, TypeInv, TypeOK, AttemptDocs
    <3>2. Become(p, d(t)) BY <2>3 DEF DeleteAttempts
    <3> HIDE DEF d
    <3> QED BY <1>1, <3>1, <3>2, HandFree
  <2>4. ASSUME NEW schedule \in Schedules, NEW active \in Actives,
               PutNew(p, t, schedule, active) \/ PutAgain(p, t, schedule, active)
        PROVE  HandInv'
    <3>1. AcksKept BY <2>4, AcksUnchanged DEF PutNew, PutAgain
    <3>2. Become(p, Rest) \/ \E step, copy : Become(p, n(step, t, copy))
      BY <2>4 DEF PutNew, PutAgain
    <3> HIDE DEF n
    <3> QED BY <1>1, <3>1, <3>2, HandFree
  <2> QED BY <2>1, <2>2, <2>3, <2>4
<1>3. CASE ~ClientStep(p)
  <2>1. AcksKept
    BY <1>3, AcksUnchanged
    DEF ReadTask, TaskGone, DeleteTask, Lookup, Crash, FixTask, FixAttempt
  <2>2. CASE Lookup(p)
    <3>1. proc[p].a = None
      BY <2>2 DEF Lookup, At, HandInv, Holding, HandsOver, Acting, BusySteps
    <3>2. Become(p, Rest) \/ Become(p, u) BY <2>2 DEF Lookup, Goto
    <3> HIDE DEF u
    <3> QED BY <1>1, <2>1, <3>1, <3>2, HandFree
  <2>3. CASE ~Lookup(p)
    <3>1. \/ Become(p, Rest) \/ \E copy : Become(p, k(copy))
          \/ \E step, t, copy : Become(p, n(step, t, copy))
          \/ \E a, t, out : Become(p, r(a, t, out))
      BY <1>3, <2>3 DEF ReadTask, TaskGone, DeleteTask, Crash, FixTask, FixAttempt
    <3> HIDE DEF n, k, r
    <3>2. \E l : Become(p, l) /\ (l.a = None \/ l.pc \in {"read", "apply"})
      BY <1>1, <3>1
    <3> QED BY <2>1, <3>2, HandFree DEF Acting
  <2> QED BY <2>2, <2>3
<1> QED BY <1>2, <1>3

\* Every step but the cleaner's.
LEMMA HandNext ==
  ASSUME NoCleaning, TypeInv, ResultInv, LifeInv, HandInv, [Next]_vars
  PROVE  HandInv'
<1>1. ASSUME NEW p \in Proc, GoesOn(p) PROVE HandInv'
  BY <1>1, HandWorker, HandApply, HandAck, HandNewAttempt, HandOthers DEF GoesOn, NoCleaning
<1>2. ASSUME NEW p \in Proc, Crash(p) \/ NewAttemptFails(p) PROVE HandInv'
  BY <1>2, HandOthers, HandNewAttempt
<1>3. ASSUME NEW w \in Worker, NEW a \in AttemptId, Reserve(w, a) PROVE HandInv'
  BY <1>3, HandWorker
<1>4. ASSUME NEW p \in Client \cup Fixer,
             \/ ClientStep(p) \/ \E t \in TaskId : FixTask(p, t)
             \/ \E a \in AttemptId : FixAttempt(p, a)
      PROVE  HandInv'
  BY <1>4, HandOthers DEF Proc
<1>5. ASSUME UNCHANGED vars \/ \E a \in AttemptId : Due(a) PROVE HandInv'
  <2>1. UNCHANGED proc BY <1>5 DEF vars, Due
  <2>2. \A a \in AttemptId : attempts'[a].acked = attempts[a].acked
    BY <1>5 DEF vars, Due, TypeInv, TypeOK, AttemptDocs
  <2>3. \A x \in Proc : HandsOver(proc[x]) => proc[x].a \in AttemptId
    BY DEF LifeInv, Known, Knows, HandsOver, Exists
  <2> QED BY <2>1, <2>2, <2>3 DEF HandInv, Holding, HandsOver, Acting
<1> QED BY <1>1, <1>2, <1>3, <1>4, <1>5 DEF Next, NoCleaning
-----------------------------------------------------------------------------
(* Where nothing is deleted *)

NoneDeleted == \A a \in AttemptId : Exists(a) => ~attempts[a].deleted

NoTaskDeleted == \A t \in TaskId : Stored(t) => ~tasks[t].deleted

\* Then the cleaner finds nothing but old results.
Tidy ==
  /\ NoneDeleted /\ NoTaskDeleted
  /\ \A p \in Proc : proc[p].pc \notin {"delete", "remove"}

\* DeletePendingAttempts finds none: an attempt that is still to run is the one
\* its task wants, and that is missing where NewAttempt is under way.
LEMMA PurgesNothing ==
  ASSUME TypeInv, LifeInv, NEW p \in Proc, Purge(p) PROVE UNCHANGED attempts
<1>1. Knows(p, proc[p]) /\ Making(proc[p]) BY DEF LifeInv, Known, Purge, At, Making
<1>2. attempts' = [a \in AttemptId |->
        IF attempts[a].task = proc[p].t /\ attempts[a].status = "pending"
        THEN [attempts[a] EXCEPT !.deleted = TRUE] ELSE attempts[a]]
  BY DEF Purge
<1>3. ASSUME NEW a \in AttemptId, attempts[a].task = proc[p].t,
             attempts[a].status = "pending"
      PROVE  FALSE
  <2>1. Exists(a) /\ ~Finished(a) BY <1>3 DEF Exists, Finished
  <2>2. a = tasks[proc[p].t].current BY <1>3, <2>1 DEF LifeInv, InTurn
  <2> QED BY <1>1, <2>1, <2>2 DEF Knows
<1> QED BY <1>2, <1>3 DEF TypeInv, TypeOK

LEMMA TidyCleaner ==
  ASSUME Tidy PROVE NoCleaning \/ \E a \in AttemptId : CleanFinished(a)
BY DEF Tidy, NoneDeleted, NoTaskDeleted, NoCleaning, RemoveAttempt, CleanAttempt, CleanTask,
       At, Proc

\* No other step of these calls flags an attempt.
LEMMA DeletesNothing ==
  ASSUME Calls \subseteq {"create"}, TypeInv, LifeInv, Tidy, [Next]_vars
  PROVE  NoneDeleted'
<1> USE DEF Tidy
<1>1. ASSUME UNCHANGED attempts PROVE NoneDeleted' BY <1>1 DEF NoneDeleted, Exists
<1>2. ASSUME NEW p \in Proc, GoesOn(p) PROVE NoneDeleted'
  <2>1. CASE Purge(p) BY <1>1, <2>1, PurgesNothing
  <2>2. CASE Insert(p)
    <3>1. PICK doc : doc = [NoAttempt EXCEPT !.status = "pending", !.task = proc[p].t]
      OBVIOUS
    <3>2. attempts' = [attempts EXCEPT ![proc[p].copy.current] = doc] BY <2>2, <3>1 DEF Insert
    <3>3. doc.deleted = FALSE BY <3>1 DEF NoAttempt
    <3> QED BY <3>2, <3>3 DEF NoneDeleted, Exists, TypeInv, TypeOK
  <2>3. CASE Ack(p) \/ Finish(p)
    <3>1. \A a \in AttemptId : /\ attempts'[a].deleted = attempts[a].deleted
                               /\ Exists(a)' => Exists(a)
      BY <2>3 DEF Ack, Finish, Exists, TypeInv, TypeOK, AttemptDocs
    <3> QED BY <3>1 DEF NoneDeleted
  <2>4. CASE p \in Worker /\ WorkerGoesOn(p) /\ ~Finish(p)
    BY <1>1, <2>4 DEF WorkerGoesOn, GiveUp, EnQueueCount, EnQueueAdmit, EnQueueFull,
                      Execute, Reject, DeQueue, FinishGone
  <2>5. CASE \/ ReadTask(p) \/ TaskGone(p) \/ Apply(p) \/ InsertDup(p) \/ Mark(p)
             \/ DeleteTask(p) \/ Lookup(p)
    BY <1>1, <2>5 DEF ReadTask, TaskGone, Apply, InsertDup, Mark, DeleteTask, Lookup
  <2>6. ~RemoveAttempt(p) BY DEF RemoveAttempt, At
  <2> QED BY <1>2, <2>1, <2>2, <2>3, <2>4, <2>5, <2>6 DEF GoesOn
<1>3. ASSUME NEW w \in Worker, NEW a \in AttemptId, Reserve(w, a) PROVE NoneDeleted'
  BY <1>3 DEF Reserve, Ready, InPlay, NoneDeleted, Exists, TypeInv, TypeOK, AttemptDocs
<1>4. ASSUME NEW c \in Client, ClientStep(c) PROVE UNCHANGED attempts
  <2>1. \A t \in TaskId : ~DeleteAttempts(c, t) BY DEF DeleteAttempts, Call
  <2> QED BY <1>4, <2>1 DEF ClientStep, PutNew, PutAgain, ForceAttempt
<1>5. ASSUME NEW a \in AttemptId, Due(a) PROVE NoneDeleted'
  BY <1>5 DEF Due, NoneDeleted, Exists, TypeInv, TypeOK, AttemptDocs
<1>6. ASSUME \/ \E p \in Proc : Crash(p) \/ NewAttemptFails(p)
             \/ \E f \in Fixer, t \in TaskId : FixTask(f, t)
             \/ \E f \in Fixer, a \in AttemptId : FixAttempt(f, a)
             \/ UNCHANGED vars
      PROVE  UNCHANGED attempts
  BY <1>6 DEF Crash, NewAttemptFails, FixTask, FixAttempt, vars
<1>7. ASSUME NEW a \in AttemptId, CleanFinished(a) PROVE NoneDeleted'
  BY <1>7 DEF CleanFinished, NoneDeleted, NoAttempt, Exists, TypeInv, TypeOK
<1>8. NoCleaning \/ \E a \in AttemptId : CleanFinished(a) BY TidyCleaner
<1> QED BY <1>1, <1>2, <1>3, <1>4, <1>5, <1>6, <1>7, <1>8 DEF Next, NoCleaning

\* No task is flagged.
LEMMA FlagsNoTask ==
  ASSUME TypeInv, Tidy, [Next]_vars PROVE NoTaskDeleted'
<1>1. ASSUME \A t \in TaskId : Stored(t)' => tasks'[t].deleted = tasks[t].deleted /\ Stored(t)
      PROVE  NoTaskDeleted'
  BY <1>1 DEF Tidy, NoTaskDeleted
<1>2. ASSUME UNCHANGED tasks PROVE NoTaskDeleted' BY <1>1, <1>2 DEF Stored
<1>3. ASSUME NEW p \in Proc, GoesOn(p) PROVE NoTaskDeleted'
  <2>1. ~DeleteTask(p) BY DEF DeleteTask, At, Tidy
  <2>2. CASE Apply(p)
    <3>1. tasks'[proc[p].t].deleted = tasks[proc[p].t].deleted
          /\ Stored(proc[p].t) /\ \A u \in TaskId : u # proc[p].t => tasks'[u] = tasks[u]
      BY <2>2 DEF Apply, Stored, TypeInv, TypeOK, TaskDocs
    <3> QED BY <1>1, <3>1 DEF Stored
  <2>3. CASE Mark(p)
    BY <1>1, <2>3 DEF Mark, Stored, TypeInv, TypeOK, TaskDocs
  <2>4. CASE ~Apply(p) /\ ~Mark(p)
    <3>1. UNCHANGED tasks
      BY <1>3, <2>1, <2>4
      DEF GoesOn, WorkerGoesOn, GiveUp, EnQueueCount, EnQueueAdmit, EnQueueFull, Execute,
          Reject, DeQueue, Finish, FinishGone, ReadTask, TaskGone, Ack, Purge, Insert,
          InsertDup, Lookup, RemoveAttempt
    <3> QED BY <1>2, <3>1
  <2> QED BY <2>2, <2>3, <2>4
<1>4. ASSUME NEW c \in Client, ClientStep(c) PROVE NoTaskDeleted'
  <2>1. PICK t \in TaskId :
          \/ \E schedule \in Schedules, active \in Actives :
               PutNew(c, t, schedule, active) \/ PutAgain(c, t, schedule, active)
          \/ DeleteAttempts(c, t) \/ ForceAttempt(c, t)
    BY <1>4 DEF ClientStep
  <2>2. CASE DeleteAttempts(c, t) BY <1>2, <2>2 DEF DeleteAttempts
  <2>3. CASE ForceAttempt(c, t)
    BY <1>1, <2>3 DEF ForceAttempt, Stored, TypeInv, TypeOK, TaskDocs
  <2>4. ASSUME NEW schedule \in Schedules, NEW active \in Actives,
               PutNew(c, t, schedule, active) \/ PutAgain(c, t, schedule, active)
        PROVE  NoTaskDeleted'
    <3>1. PICK new : new = PutDoc(schedule, active) OBVIOUS
    <3>2. new.deleted = FALSE BY <3>1 DEF PutDoc, NoTask
    <3>3. tasks' = [tasks EXCEPT ![t] = new] BY <2>4, <3>1 DEF PutNew, PutAgain
    <3>4. \A u \in TaskId : tasks'[u] = IF u = t THEN new ELSE tasks[u]
      BY <3>3 DEF TypeInv, TypeOK
    <3> QED BY <3>2, <3>4 DEF Tidy, NoTaskDeleted, Stored
  <2> QED BY <2>1, <2>2, <2>3, <2>4
<1>5. ASSUME \/ \E p \in Proc : Crash(p) \/ NewAttemptFails(p)
             \/ \E w \in Worker, a \in AttemptId : Reserve(w, a)
             \/ \E f \in Fixer, t \in TaskId : FixTask(f, t)
             \/ \E f \in Fixer, a \in AttemptId : FixAttempt(f, a)
             \/ \E a \in AttemptId : CleanFinished(a) \/ Due(a)
             \/ UNCHANGED vars
      PROVE  NoTaskDeleted'
  BY <1>2, <1>5
  DEF Crash, NewAttemptFails, Reserve, FixTask, FixAttempt, CleanFinished, Due, vars
<1>6. NoCleaning \/ \E a \in AttemptId : CleanFinished(a) BY TidyCleaner
<1> QED BY <1>3, <1>4, <1>5, <1>6 DEF Next, NoCleaning

\* No deletion is begun.
LEMMA BeginsNothing ==
  ASSUME Calls \subseteq {"create"}, TypeInv, Tidy, [Next]_vars, NEW x \in Proc
  PROVE  proc'[x].pc \notin {"delete", "remove"}
<1> DEFINE Fine(pc) == pc \notin {"delete", "remove"}
           Moves(p) == \E l : Become(p, l) /\ Fine(l.pc)
<1>1. ASSUME NEW p \in Proc, Moves(p) PROVE Fine(proc'[x].pc)
  BY <1>1 DEF Become, Tidy, TypeInv, TypeOK
<1>2. ASSUME UNCHANGED proc PROVE Fine(proc'[x].pc) BY <1>2 DEF Tidy
<1>3. ASSUME NEW p \in Proc,
             \/ GoesOn(p) /\ ~RemoveAttempt(p) /\ ~DeleteTask(p)
             \/ ClientStep(p) \/ Crash(p) \/ NewAttemptFails(p)
             \/ \E a \in AttemptId : Reserve(p, a) \/ FixAttempt(p, a)
             \/ \E t \in TaskId : FixTask(p, t)
      PROVE  UNCHANGED proc \/ Moves(p)
  <2>0. proc[p] \in Locals BY DEF TypeInv, TypeOK
  <2> DEFINE S == {"http", "push", "finish", "read", "insert", "mark", "purge", "lookup",
                   "ack"}
             m(step) == [proc[p] EXCEPT !.pc = step]
             e(result) == [proc[p] EXCEPT !.pc = "dequeue", !.out = result]
             c(a, t) == [proc[p] EXCEPT !.pc = "count", !.a = a, !.t = t]
             k(copy) == [proc[p] EXCEPT !.pc = "apply", !.copy = copy]
             g(full) == [Rest EXCEPT !.full = full]
             n(step, t, copy) == [Rest EXCEPT !.pc = step, !.t = t, !.copy = copy]
             h(step, a, t, copy) == [Rest EXCEPT !.pc = step, !.a = a, !.t = t, !.copy = copy]
             r(a, t, out) == [Rest EXCEPT !.pc = "read", !.a = a, !.t = t, !.out = out]
  <2>1. /\ \A step : m(step).pc = step
        /\ \A result : e(result).pc = "dequeue"
        /\ \A a, t : c(a, t).pc = "count"
        /\ \A copy : k(copy).pc = "apply"
    BY <2>0 DEF Locals
  <2>2. /\ \A full : g(full).pc = "idle"
        /\ \A step, t, copy : n(step, t, copy).pc = step
        /\ \A step, a, t, copy : h(step, a, t, copy).pc = step
        /\ \A a, t, out : r(a, t, out).pc = "read"
        /\ Rest.pc = "idle"
    BY DEF Rest
  <2>3. AfterNewAttempt(p).pc \in {"idle", "ack"} BY DEF AfterNewAttempt, Rest
  <2>4. CASE (p \in Worker /\ WorkerGoesOn(p)) \/ \E a \in AttemptId : Reserve(p, a)
    <3>1. \/ Become(p, Rest) \/ \E step \in S : Become(p, m(step))
          \/ \E result : Become(p, e(result)) \/ \E a, t : Become(p, c(a, t))
          \/ \E full : Become(p, g(full))
      BY <2>4 DEF WorkerGoesOn, Reserve, GiveUp, EnQueueCount, EnQueueAdmit, EnQueueFull,
                  Execute, Reject, DeQueue, Finish, FinishGone, Goto
    <3> HIDE DEF m, e, c, g
    <3> QED BY <2>1, <2>2, <3>1
  <2>5. CASE ReadTask(p) \/ TaskGone(p) \/ Apply(p) \/ Ack(p)
    <3>1. \/ Become(p, Rest) \/ \E copy : Become(p, k(copy))
          \/ \E step \in S : \E a, t, copy : Become(p, h(step, a, t, copy))
      BY <2>5 DEF ReadTask, TaskGone, Apply, Ack
    <3> HIDE DEF k, h
    <3> QED BY <2>1, <2>2, <3>1
  <2>6. CASE \/ Purge(p) \/ Insert(p) \/ InsertDup(p) \/ Mark(p) \/ Lookup(p)
             \/ Crash(p) \/ NewAttemptFails(p)
    <3>1. \/ Become(p, Rest) \/ Become(p, AfterNewAttempt(p))
          \/ \E step \in S : Become(p, m(step))
      BY <2>6 DEF Purge, Insert, InsertDup, Mark, Lookup, Crash, NewAttemptFails, Goto
    <3> HIDE DEF m
    <3> QED BY <2>1, <2>2, <2>3, <3>1
  <2>7. CASE ClientStep(p)
    <3>1. PICK t \in TaskId :
            \/ \E schedule \in Schedules, active \in Actives :
                 PutNew(p, t, schedule, active) \/ PutAgain(p, t, schedule, active)
            \/ DeleteAttempts(p, t) \/ ForceAttempt(p, t)
      BY <2>7 DEF ClientStep
    <3>2. ~DeleteAttempts(p, t) BY DEF DeleteAttempts, Call
    <3>3. \/ Become(p, Rest) \/ UNCHANGED proc
          \/ \E step \in S : \E copy : Become(p, n(step, t, copy))
      BY <3>1, <3>2 DEF PutNew, PutAgain, ForceAttempt
    <3> HIDE DEF n
    <3> QED BY <2>2, <3>3
  <2>8. CASE (\E t \in TaskId : FixTask(p, t)) \/ \E a \in AttemptId : FixAttempt(p, a)
    <3>1. \/ \E step \in S : \E t, copy : Become(p, n(step, t, copy))
          \/ \E a, t, out : Become(p, r(a, t, out))
      BY <2>8 DEF FixTask, FixAttempt
    <3> HIDE DEF n, r
    <3> QED BY <2>2, <3>1
  <2> QED BY <1>3, <2>4, <2>5, <2>6, <2>7, <2>8 DEF GoesOn
<1>4. NoCleaning \/ \E a \in AttemptId : CleanFinished(a) BY TidyCleaner
<1>5. \A p \in Proc : ~RemoveAttempt(p) /\ ~DeleteTask(p)
  BY DEF RemoveAttempt, DeleteTask, At, Tidy
<1>6. ASSUME UNCHANGED vars \/ \E a \in AttemptId : CleanFinished(a) \/ Due(a)
      PROVE  UNCHANGED proc
  BY <1>6 DEF vars, CleanFinished, Due
<1> HIDE DEF Moves
<1> QED BY <1>1, <1>2, <1>3, <1>4, <1>5, <1>6 DEF Next, NoCleaning, Proc

\* So nothing is ever to be deleted.
LEMMA TidyNext ==
  ASSUME Calls \subseteq {"create"}, TypeInv, LifeInv, Tidy, [Next]_vars
  PROVE  Tidy'
BY DeletesNothing, FlagsNoTask, BeginsNothing DEF Tidy
-----------------------------------------------------------------------------
(* An old result is removed *)

\* Nothing and nobody refers to it.
LEMMA CleanedIsFree ==
  ASSUME TypeInv, ResultInv, SlotInv, LifeInv, HandInv, NEW a \in AttemptId, CleanFinished(a)
  PROVE  /\ Finished(a) /\ Exists(a)
         /\ \A t \in TaskId : Stored(t) => tasks[t].current # a
         /\ \A p \in Proc : proc[p].a # a /\ proc[p].copy.current # a
         /\ \A q \in QueueId : a \notin slots[q].inflight
         /\ \A b \in AttemptId : attempts'[b] = IF b = a THEN NoAttempt ELSE attempts[b]
         /\ UNCHANGED <<tasks, slots, proc>>
<1>1. /\ Finished(a) /\ Exists(a) /\ UNCHANGED <<tasks, slots, proc>>
      /\ \A p \in Proc : proc[p].copy.current # a
      /\ \A b \in AttemptId : attempts'[b] = IF b = a THEN NoAttempt ELSE attempts[b]
  BY DEF CleanFinished, Finished, Exists, TypeInv, TypeOK
<1>2. attempts[a].acked BY <1>1 DEF CleanFinished, LifeInv, Owned
<1>3. \A t \in TaskId : Stored(t) => tasks[t].current # a
  BY <1>1, <1>2 DEF LifeInv, Owned, Outstanding
<1>4. ASSUME NEW p \in Proc, proc[p].a = a PROVE FALSE
  <2>1. a # None BY EngineAssumption
  <2>2. ~Acting(proc[p]) BY <1>2, <1>4 DEF LifeInv, Known, Knows
  <2>3. ~(p \in Worker /\ proc[p].pc \in BusySteps)
    BY <1>1, <1>4 DEF ResultInv, Running, Busy, Finished
  <2> QED BY <1>2, <1>4, <2>1, <2>2, <2>3 DEF HandInv, Holding
<1>5. \A q \in QueueId : a \notin slots[q].inflight
  BY <1>1 DEF SlotInv, HeldInPlay, InPlay, Finished
<1> QED BY <1>1, <1>3, <1>4, <1>5

\* The limit, results and slots are not concerned.
LEMMA CleanedSlots ==
  ASSUME LimitInv, ResultInv, SlotInv, LifeInv, HandInv, TypeInv',
         NEW a \in AttemptId, CleanFinished(a)
  PROVE  LimitInv' /\ ResultInv' /\ SlotInv'
<1>0. TypeInv BY DEF LimitInv
<1>1. /\ Finished(a) /\ Exists(a)
      /\ \A t \in TaskId : Stored(t) => tasks[t].current # a
      /\ \A p \in Proc : proc[p].a # a /\ proc[p].copy.current # a
      /\ \A q \in QueueId : a \notin slots[q].inflight
      /\ \A b \in AttemptId : attempts'[b] = IF b = a THEN NoAttempt ELSE attempts[b]
      /\ UNCHANGED <<tasks, slots, proc>>
  BY <1>0, CleanedIsFree
<1>2. \A b : b # a => /\ Exists(b)' <=> Exists(b)
                      /\ Finished(b)' <=> Finished(b)
                      /\ InPlay(b)' <=> InPlay(b)
  BY <1>1 DEF Exists, Finished, InPlay
<1>3. ~Exists(a)' BY <1>1 DEF Exists, NoAttempt
<1>4. \A w \in Worker : w \in Proc /\ (Busy(w) => proc[w].a \in AttemptId /\ proc[w].a # a)
  BY <1>0, <1>1 DEF TypeInv, GoodLocals, Good, Busy, Proc
<1>5. Leases' BY <1>1, <1>2, <1>4 DEF LimitInv, Leases, Busy
<1>6. Counted' /\ HoldsSlot' BY <1>1 DEF LimitInv, Counted, HoldsSlot, At
<1>7. Running' BY <1>1, <1>4 DEF ResultInv, Running, Busy
<1>8. Handled' BY <1>1, <1>2 DEF ResultInv, Handled
<1>9. MarksStored' BY <1>1, <1>2 DEF ResultInv, MarksStored, At
<1>10. AckedIsFinished' BY <1>1, <1>2, <1>3 DEF ResultInv, AckedIsFinished
<1>11. QueuedWasInserted' BY <1>1, <1>2 DEF ResultInv, QueuedWasInserted, Stored
<1>12. HeldInPlay' BY <1>1, <1>2 DEF SlotInv, HeldInPlay, InPlay
<1>13. TaskAtHand' BY <1>1, <1>4 DEF SlotInv, TaskAtHand, Busy
<1>14. GivenBack' BY <1>1 DEF SlotInv, GivenBack, At
<1> QED BY <1>5, <1>6, <1>7, <1>8, <1>9, <1>10, <1>11, <1>12, <1>13, <1>14
        DEF LimitInv, ResultInv, SlotInv

\* Nor is a task: it wants another attempt by now, or none.
LEMMA CleanedLife ==
  ASSUME TypeInv, ResultInv, SlotInv, LifeInv, HandInv, NEW a \in AttemptId, CleanFinished(a)
  PROVE  LifeInv' /\ HandInv'
<1>1. /\ Finished(a) /\ Exists(a)
      /\ \A t \in TaskId : Stored(t) => tasks[t].current # a
      /\ \A p \in Proc : proc[p].a # a /\ proc[p].copy.current # a
      /\ \A b \in AttemptId : attempts'[b] = IF b = a THEN NoAttempt ELSE attempts[b]
      /\ UNCHANGED <<tasks, proc>>
  BY CleanedIsFree
<1>2. \A b : b # a => /\ Exists(b)' <=> Exists(b)
                      /\ Finished(b)' <=> Finished(b)
                      /\ Exists(b) => b \in AttemptId /\ attempts'[b] = attempts[b]
  BY <1>1 DEF Exists, Finished
<1>3. ~Exists(a)' BY <1>1 DEF Exists, NoAttempt
<1>4. \A t : Stored(t)' <=> Stored(t) BY <1>1 DEF Stored
<1>5. Known'
  <2> SUFFICES ASSUME NEW p \in Proc PROVE Knows(p, proc[p])' BY DEF Known
  <2>1. PICK m : m = proc[p] OBVIOUS
  <2>2. Knows(p, m) /\ proc'[p] = m /\ m.a # a /\ m.copy.current # a
    BY <1>1, <2>1 DEF LifeInv, Known
  <2>3. Making(m)' <=> Making(m) BY <1>2, <2>2 DEF Making
  <2>4. (Acting(m)' <=> Acting(m)) /\ (HandsOver(m)' <=> HandsOver(m))
    BY DEF Acting, HandsOver
  <2> QED BY <1>1, <1>2, <1>4, <2>2, <2>3, <2>4 DEF Knows, Acting, Making, HandsOver
<1>6. Alone' BY <1>1, <1>2 DEF LifeInv, Alone, On, Making, Acting
<1>7. Owned' BY <1>1, <1>2, <1>3, <1>4 DEF LifeInv, Owned
<1>8. InTurn'
  <2> SUFFICES ASSUME NEW b \in AttemptId, Exists(b)', b # tasks[attempts'[b].task].current
               PROVE  /\ Finished(b)'
                      /\ \/ attempts'[b].acked
                         \/ \E x \in Proc : proc[x].a = b /\ HandsOver(proc[x])
    BY <1>1 DEF InTurn, HandsOver
  <2>1. b # a /\ Exists(b) /\ attempts'[b] = attempts[b] BY <1>2, <1>3
  <2> QED BY <1>2, <2>1 DEF LifeInv, InTurn
<1>9. Outstanding' BY <1>1, <1>2, <1>3 DEF LifeInv, Outstanding
<1>10. StillActive' BY <1>1, <1>2, <1>3, <1>4 DEF LifeInv, StillActive
<1>11. \A t : AttemptsOf(t)' = AttemptsOf(t) \ {a} BY <1>2, <1>3 DEF AttemptsOf
<1>12. Spent'
  <2> SUFFICES ASSUME MaxAttempts > 0, NEW t \in TaskId, Stored(t), ~tasks[t].schedule
               PROVE  /\ IsFiniteSet(AttemptsOf(t)')
                      /\ Cardinality(AttemptsOf(t)') <= MaxAttempts
                      /\ tasks[t].active =>
                           /\ tasks[t].retry + 1 <= MaxAttempts
                           /\ Cardinality(AttemptsOf(t)') <= tasks[t].retry + 1
                           /\ ~Exists(tasks[t].current)' =>
                                Cardinality(AttemptsOf(t)') <= tasks[t].retry
    BY <1>1, <1>4 DEF Spent
  <2>1. /\ IsFiniteSet(AttemptsOf(t)) /\ Cardinality(AttemptsOf(t)) <= MaxAttempts
        /\ tasks[t].active =>
             /\ tasks[t].retry + 1 <= MaxAttempts
             /\ Cardinality(AttemptsOf(t)) <= tasks[t].retry + 1
             /\ ~Exists(tasks[t].current) => Cardinality(AttemptsOf(t)) <= tasks[t].retry
    BY DEF LifeInv, Spent
  <2>2. Exists(tasks[t].current)' <=> Exists(tasks[t].current) BY <1>1, <1>2
  <2>3. /\ IsFiniteSet(AttemptsOf(t)') /\ Cardinality(AttemptsOf(t)') \in Nat
        /\ Cardinality(AttemptsOf(t)') <= Cardinality(AttemptsOf(t))
        /\ Cardinality(AttemptsOf(t)) \in Nat
    BY <1>11, <2>1, FS_Subset, FS_CardinalityType
  <2>4. tasks[t].retry \in Int /\ MaxAttempts \in Int
    BY EngineAssumption DEF TypeInv, TypeOK, TaskDocs
  <2> QED BY <2>1, <2>2, <2>3, <2>4
<1>13. Succeeded'
  <2> SUFFICES ASSUME NEW t \in TaskId, Stored(t), ~tasks[t].schedule,
                      NEW b \in AttemptsOf(t)', attempts'[b].status = "success",
                      b # tasks[t].current
               PROVE  ~tasks[t].active
    BY <1>1, <1>4 DEF Succeeded
  <2>1. b \in AttemptsOf(t) /\ b # a BY <1>11
  <2>2. attempts'[b] = attempts[b] BY <1>2, <2>1 DEF AttemptsOf
  <2> QED BY <2>1, <2>2 DEF LifeInv, Succeeded
<1>14. HandInv'
  <2>1. \A p \in Proc : HandsOver(proc[p]) => attempts'[proc[p].a] = attempts[proc[p].a]
    BY <1>1, <1>2 DEF LifeInv, Known, Knows, HandsOver
  <2> QED BY <1>1, <2>1 DEF HandInv, Holding, HandsOver, Acting
<1> QED BY <1>5, <1>6, <1>7, <1>8, <1>9, <1>10, <1>12, <1>13, <1>14 DEF LifeInv
-----------------------------------------------------------------------------
\* The invariant of the theorems, with those it rests on.
AllInv ==
  /\ LimitInv /\ Named /\ ResultInv /\ SlotInv /\ LifeInv /\ HandInv
  /\ Calls \subseteq {"create"} => Tidy

\* A step is the cleaner's only where nothing is deleted, and then it removes
\* an old result.
LEMMA AllNext ==
  ASSUME Undisturbed, AllInv, [Next]_vars PROVE AllInv'
<1> USE DEF AllInv
<1>1. TypeInv /\ TypeInv' BY TypeNext DEF LimitInv
<1>2. Named' BY <1>1, NamedNext
<1>3. Calls \subseteq {"create"} => Tidy' BY <1>1, TidyNext
<1>4. CASE NoCleaning
  <2>1. LimitInv' BY <1>4, LimitNext
  <2>2. ResultInv' BY <1>4, ResultNext
  <2>3. SlotInv' BY <1>4, SlotNext
  <2>4. LifeInv' BY <1>1, <1>4, LifeNext
  <2>5. HandInv' BY <1>1, <1>4, HandNext
  <2> QED BY <1>2, <1>3, <2>1, <2>2, <2>3, <2>4, <2>5
<1>5. ASSUME NEW a \in AttemptId, CleanFinished(a) PROVE AllInv'
  <2>1. LimitInv' /\ ResultInv' /\ SlotInv' BY <1>1, <1>5, CleanedSlots
  <2>2. LifeInv' /\ HandInv' BY <1>1, <1>5, CleanedLife
  <2> QED BY <1>2, <1>3, <2>1, <2>2
<1>6. NoCleaning \/ \E a \in AttemptId : CleanFinished(a)
  BY NoCleaner, TidyCleaner DEF Undisturbed
<1> QED BY <1>4, <1>5, <1>6

LEMMA LifeInvariant ==
  ASSUME Undisturbed, Limit \in [QueueId -> Nat]
  PROVE  Spec => []AllInv
<1>1. Init => AllInv
  <2> SUFFICES ASSUME Init PROVE AllInv OBVIOUS
  <2>1. \A p \in Proc : proc[p].pc = "idle" /\ proc[p].a = None BY DEF Init, Rest
  <2>2. HandInv BY <2>1 DEF HandInv, Holding, HandsOver
  <2>3. Tidy
    BY <2>1 DEF Init, NoAttempt, NoTask, Tidy, NoneDeleted, NoTaskDeleted, Exists, Stored
  <2> QED BY <2>2, <2>3, LimitInit, ResultInit, SlotInit, LifeInit DEF AllInv
<1>2. AllInv /\ [Next]_vars => AllInv' BY AllNext
<1> QED BY <1>1, <1>2, PTL DEF Spec

-----------------------------------------------------------------------------
\* Undisturbed, a task is executed by one worker at a time, whoever dies
\* before its update of the task: the next attempt is inserted after the one
\* before has finished, and the fixer inserts none that a worker will insert
\* (models/task.go NextAttemptForTask, scheduler.go FixIntegrity).
THEOREM OneAtATimeAlways ==
  ASSUME Undisturbed, Limit \in [QueueId -> Nat]
  PROVE  Spec => []OneAtATime
<1>1. AllInv => OneAtATime
  <2> SUFFICES ASSUME LimitInv, ResultInv, LifeInv, NEW v \in Worker, NEW w \in Worker,
                      At(v, "http"), At(w, "http"), proc[v].t = proc[w].t
               PROVE  v = w
    BY DEF AllInv, OneAtATime
  <2>1. ASSUME NEW x \in Worker, At(x, "http") PROVE proc[x].a = tasks[proc[x].t].current
    <3>1. Busy(x) /\ x \in Proc BY <2>1 DEF Busy, BusySteps, At, Proc
    <3>2. Exists(proc[x].a) /\ proc[x].a \in AttemptId /\ ~Finished(proc[x].a)
      BY <3>1 DEF LimitInv, Leases, Exists, ResultInv, Running, Finished
    <3>3. attempts[proc[x].a].task = proc[x].t
      BY <3>1, <3>2, EngineAssumption DEF LifeInv, Known, Knows
    <3> QED BY <3>2, <3>3 DEF LifeInv, InTurn
  <2>2. proc[v].a = proc[w].a BY <2>1
  <2> QED BY <2>2 DEF LimitInv, Leases, Busy, BusySteps, At
<1> QED BY <1>1, LifeInvariant, PTL

\* Undisturbed, a task without schedule gets at most max_attempts attempts,
\* for any max_attempts: an attempt that a lost worker left is taken up again
\* and not counted twice (models/task.go NextAttemptForTask, Retry.NextAttempt).
THEOREM BudgetAlways ==
  ASSUME Undisturbed, Limit \in [QueueId -> Nat]
  PROVE  Spec => []RetryBudget
<1>1. AllInv => RetryBudget
  BY DEF AllInv, LifeInv, Spent, RetryBudget
<1> QED BY <1>1, LifeInvariant, PTL

\* Undisturbed, a task without schedule that succeeded has no attempt that waits
\* or runs, and gets none (models/task.go NextAttemptForTask).
THEOREM DoneAlways ==
  ASSUME Undisturbed, Limit \in [QueueId -> Nat]
  PROVE  Spec => []DoneStaysDone
<1>1. AllInv => DoneStaysDone
  <2> SUFFICES ASSUME LifeInv, NEW t \in TaskId, Stored(t), ~tasks[t].schedule,
                      NEW b \in AttemptsOf(t), attempts[b].status = "success",
                      NEW a \in AttemptsOf(t), InPlay(a)
               PROVE  FALSE
    BY DEF AllInv, DoneStaysDone
  <2>1. a \in AttemptId /\ Exists(a) /\ attempts[a].task = t /\ ~Finished(a) /\ a # b
    BY DEF AttemptsOf, InPlay, Finished
  <2>2. a = tasks[t].current BY <2>1 DEF LifeInv, InTurn
  <2>3. tasks[t].active BY <2>1, <2>2 DEF LifeInv, StillActive
  <2> QED BY <2>1, <2>2, <2>3 DEF LifeInv, Succeeded
<1> QED BY <1>1, LifeInvariant, PTL
-----------------------------------------------------------------------------
\* Undisturbed, and where nothing is deleted, no active task is forgotten:
\* there is always an attempt the workers will take, a missing attempt the fixer
\* will make, or a result that will be acted on, whichever process dies before
\* its update of the task (models/task.go, scheduler.go FixIntegrity).
THEOREM ForgottenNever ==
  ASSUME Undisturbed, Calls \subseteq {"create"}, Limit \in [QueueId -> Nat]
  PROVE  Spec => []NoTaskForgotten
<1>1. AllInv => NoTaskForgotten
  <2> SUFFICES ASSUME LimitInv, ResultInv, LifeInv, NoneDeleted, NEW t \in TaskId, Stored(t),
                      NEW a, a = tasks[t].current
               PROVE  \/ InPlay(a) /\ ~attempts[a].deleted
                      \/ ~Exists(a) /\ ~tasks[t].queued
                      \/ Finished(a) /\ ~attempts[a].acked
    BY DEF AllInv, Tidy, NoTaskForgotten
  <2>1. CASE ~Exists(a) BY <2>1 DEF ResultInv, QueuedWasInserted
  <2>2. CASE Exists(a)
    <3>1. a \in AttemptId /\ attempts[a].task = t BY <2>2 DEF LifeInv, Owned, Exists
    <3>2. InPlay(a) \/ Finished(a)
      BY <2>2, <3>1 DEF Exists, InPlay, Finished, LimitInv, TypeInv, TypeOK, AttemptDocs,
                        Statuses
    <3>3. ~attempts[a].acked /\ ~attempts[a].deleted
      BY <2>2, <3>1 DEF LifeInv, Outstanding, NoneDeleted
    <3> QED BY <3>2, <3>3
  <2> QED BY <2>1, <2>2
<1> QED BY <1>1, LifeInvariant, PTL

\* Undisturbed, a cleaner at work where nothing is deleted does no harm: no queue
\* executes more than max_in_flight, and every slot in use comes back
\* (models/base.go CleanDeletedRessources, models/attempt.go
\* CleanFinishedAttempts).
THEOREM CleanerKeepsSlots ==
  ASSUME Undisturbed, Limit \in [QueueId -> Nat]
  PROVE  Spec => [](ConcurrencyLimit /\ SlotsComeBack)
<1>1. AllInv => ConcurrencyLimit BY LimitHolds DEF AllInv
<1>2. AllInv => SlotsComeBack BY DEF AllInv, SlotInv, HeldInPlay, SlotsComeBack, Stranded
<1> QED BY <1>1, <1>2, LifeInvariant, PTL

\* And it takes only attempts that were acknowledged and are in nobody's hands:
\* a task marked attempt_queued keeps the attempt it wants, only results are
\* acknowledged, and none is written over before it is removed
\* (models/attempt.go CleanFinishedAttempts under models/task.go).
THEOREM CleanerKeepsResults ==
  ASSUME Undisturbed, Limit \in [QueueId -> Nat]
  PROVE  Spec => [](QueuedWasInserted /\ AckedIsFinished) /\ ResultIsFinal
<1>1. AllInv => QueuedWasInserted /\ AckedIsFinished BY DEF AllInv, ResultInv
<1>2. AllInv /\ [Next]_vars =>
        [\A a \in AttemptId :
           Finished(a) => attempts'[a].status \in {attempts[a].status, "absent"}]_vars
  <2> SUFFICES ASSUME AllInv, [Next]_vars, NEW a \in AttemptId, Finished(a)
               PROVE  attempts'[a].status \in {attempts[a].status, "absent"}
    OBVIOUS
  <2>1. CASE NoCleaning BY <2>1, ResultNext DEF AllInv, StatusKept
  <2>2. ASSUME NEW b \in AttemptId, CleanFinished(b)
        PROVE  attempts'[a].status \in {attempts[a].status, "absent"}
    BY <2>2 DEF CleanFinished, NoAttempt, AllInv, LimitInv, TypeInv, TypeOK
  <2> QED BY <2>1, <2>2, NoCleaner, TidyCleaner DEF Undisturbed, AllInv
<1> QED BY <1>1, <1>2, LifeInvariant, PTL DEF Spec, ResultIsFinal
=============================================================================
