----------------------------- MODULE Resources -----------------------------
(***************************************************************************)
(* The tree of resources of one account - applications, their queues and   *)
(* tasks, the tasks' attempts - as the handlers of restapi/*.go create and *)
(* flag it through models/*.go, one database operation at a time, and as   *)
(* CleanDeletedRessources removes what is flagged.                         *)
(*                                                                         *)
(* A document is found by its name; a queue has besides the id its tasks   *)
(* refer to.  An attempt is identified with the others of its task and     *)
(* queue.  What happens to tasks and attempts between their creation and   *)
(* their end is Engine's, the slots of a queue are Queues'.                *)
(***************************************************************************)
EXTENDS Integers, FiniteSets, Sequences

CONSTANTS
  App, QName, TName,   \* names; "default" is one of an application and a queue
  None,                \* a field that a call, or its query, does not have
  Client,
  Request,             \* calls the clients make
  MaxCalls, MaxFails   \* bounds

Ops == {"PostAccount", "DeleteAccount", "PutApplication", "DeleteApplication",
        "DeleteApplications", "PutQueue", "DeleteQueue", "DeleteQueues",
        "PutTask", "DeleteTask", "DeleteTasks"}

\* What the route of a call names; a POST of an account and a PUT of an
\* application name the default queue, and application, they create.
Calls ==
  {r \in [op : Ops, app : App \cup {None}, queue : QName \cup {None},
          task : TName \cup {None}, scheduled : BOOLEAN] :
     /\ r.app = None <=> r.op \in {"DeleteAccount", "DeleteApplications"}
     /\ r.queue # None <=>
          r.op \in {"PostAccount", "PutApplication", "PutQueue", "PutTask", "DeleteQueue"}
     /\ r.task # None <=> r.op \in {"PutTask", "DeleteTask"}
     /\ r.op = "PostAccount" => r.app = "default"
     /\ r.op \in {"PostAccount", "PutApplication"} => r.queue = "default"}

ASSUME ResourcesAssumption ==
  /\ "default" \in App /\ "default" \in QName
  /\ None \notin App \cup QName \cup TName
  /\ IsFiniteSet(App) /\ IsFiniteSet(QName) /\ IsFiniteSet(TName)
  /\ Request \subseteq Calls
  /\ MaxCalls \in Nat /\ MaxFails \in Nat

VARIABLES
  account,    \* "none", "live", "flagged", "gone" (its id is not used again)
  apps,       \* [App -> "none", "live" or "flagged"]
  queues,     \* [App \X QName -> state and id]
  tasks,      \* [App \X TName -> state, queue and its id, schedule]
  older,      \* pairs of tasks in the collection, the one with the smaller _id first
  attempts,   \* the attempts in the collection
  proc,       \* [Client -> its call, the queue id it read, the steps left of it,
              \*   whether it succeeds]
  cleaner,    \* the steps left of CleanDeletedRessources
  calls, fails,
  closing     \* history: a DeleteAccount has begun

resVars == <<account, apps, queues, tasks, older, attempts, proc, cleaner, calls, fails, closing>>

States == {"none", "live", "flagged"}
TaskKeys == App \X TName
QueueKeys == App \X QName

\* revived is history: the document was flagged once, and then PUT again.
TaskDocs ==
  [state : States, queue : QName \cup {None}, qid : Nat, scheduled : BOOLEAN, revived : BOOLEAN]
AttemptDocs == [task : TaskKeys, queue : QName \cup {None}, flagged : BOOLEAN]

NoQueue == [state |-> "none", id |-> 0]
NoTask == [state |-> "none", queue |-> None, qid |-> 0, scheduled |-> FALSE, revived |-> FALSE]
NoCall == [op |-> "PostAccount", app |-> None, queue |-> None, task |-> None, scheduled |-> FALSE]
Rest(ok) == [call |-> NoCall, qid |-> 0, todo |-> <<>>, ok |-> ok]

\* The operations of each call on the database, in their order.
Plan ==
  [PostAccount |-> <<"insertAccount", "insertApp", "findApp", "insertQueue">>,
   PutApplication |-> <<"insertApp", "findApp", "insertQueue">>,
   PutQueue |-> <<"findApp", "insertQueue">>,
   PutTask |-> <<"findApp", "findQueue", "insertTask", "insertAttempt">>,
   DeleteAccount |-> <<"attempts", "queues", "tasks", "apps", "account">>,
   DeleteApplication |-> <<"attempts", "tasks", "queues", "apps">>,
   DeleteApplications |-> <<"attempts", "tasks", "queues", "apps">>,
   DeleteQueue |-> <<"attempts", "tasks", "queues">>,
   DeleteQueues |-> <<"attempts", "tasks", "queues">>,
   DeleteTask |-> <<"attempts", "tasks">>,
   DeleteTasks |-> <<"attempts", "tasks">>]

Steps == {"insertAccount", "insertApp", "findApp", "insertQueue", "updateQueue",
          "findQueue", "insertTask", "updateTask", "purge", "insertAttempt",
          "attempts", "queues", "tasks", "apps", "account"}

StoredTask(k) == tasks[k].state # "none"

ResTypeOK ==
  /\ account \in States \cup {"gone"}
  /\ apps \in [App -> States]
  /\ queues \in [QueueKeys -> [state : States, id : Nat]]
  /\ tasks \in [TaskKeys -> TaskDocs]
  /\ older \in SUBSET (TaskKeys \X TaskKeys)
  /\ \A j, k \in TaskKeys :
       IF StoredTask(j) /\ StoredTask(k) /\ j # k
       THEN <<j, k>> \in older <=> <<k, j>> \notin older
       ELSE <<j, k>> \notin older
  /\ attempts \subseteq AttemptDocs
  /\ proc \in [Client -> [call : Calls \cup {NoCall}, qid : Nat, todo : Seq(Steps), ok : BOOLEAN]]
  /\ cleaner \in Seq(Steps)
  /\ calls \in Nat /\ fails \in Nat /\ closing \in BOOLEAN

ResInit ==
  /\ account = "none"
  /\ apps = [x \in App |-> "none"]
  /\ queues = [k \in QueueKeys |-> NoQueue]
  /\ tasks = [k \in TaskKeys |-> NoTask]
  /\ older = {}
  /\ attempts = {}
  /\ proc = [c \in Client |-> Rest(TRUE)]
  /\ cleaner = <<>>
  /\ calls = 0 /\ fails = 0
  /\ closing = FALSE
-----------------------------------------------------------------------------
(* The calls *)

Idle(c) == proc[c].todo = <<>>
Doing(c, step) == ~Idle(c) /\ Head(proc[c].todo) = step
Call(c) == proc[c].call
QueueOf(c) == <<Call(c).app, Call(c).queue>>
TaskOf(c) == <<Call(c).app, Call(c).task>>

\* The next step of the call, or its answer: 200, or an error.
GoesOn(c) ==
  IF Len(proc[c].todo) = 1
  THEN proc' = [proc EXCEPT ![c] = Rest(TRUE)]
  ELSE proc' = [proc EXCEPT ![c].todo = Tail(@)]
GoesTo(c, steps) == proc' = [proc EXCEPT ![c].todo = steps]
Fails(c) == proc' = [proc EXCEPT ![c] = Rest(FALSE)]

\* ErrDeleteDefaultApplication, ErrDeleteDefaultQueue
Forbidden(r) ==
  \/ r.op = "DeleteApplication" /\ r.app = "default"
  \/ r.op = "DeleteQueue" /\ r.queue = "default"

\* The account makes its calls itself; an administrator creates and deletes it.
Authorized(r) ==
  \/ r.op = "PostAccount" /\ account = "none"
  \/ r.op = "DeleteAccount" /\ account \in {"live", "flagged"}
  \/ r.op \notin {"PostAccount", "DeleteAccount"} /\ account = "live"

Issue(c, r) ==
  IF Forbidden(r) \/ ~Authorized(r) THEN Fails(c)
  ELSE proc' = [proc EXCEPT ![c] = [call |-> r, qid |-> 0, todo |-> Plan[r.op], ok |-> TRUE]]

Begin(c, r) ==
  /\ Idle(c) /\ Authorized(r) /\ calls < MaxCalls
  /\ calls' = calls + 1
  /\ Issue(c, r)
  /\ closing' = (closing \/ r.op = "DeleteAccount")
  /\ UNCHANGED <<account, apps, queues, tasks, older, attempts, cleaner, fails>>

\* An operation fails, or the process dies: what was done stays done.  NewTask
\* only logs that its NewAttempt failed.
Fail(c) ==
  /\ ~Idle(c) /\ fails < MaxFails
  /\ fails' = fails + 1
  /\ \/ Fails(c)
     \/ Head(proc[c].todo) \in {"purge", "insertAttempt"} /\ proc' = [proc EXCEPT ![c] = Rest(TRUE)]
  /\ UNCHANGED <<account, apps, queues, tasks, older, attempts, cleaner, calls, closing>>
-----------------------------------------------------------------------------
(* Creation *)

InsertAccount(c) ==
  /\ Doing(c, "insertAccount")
  /\ account' = "live"
  /\ GoesOn(c)
  /\ UNCHANGED <<apps, queues, tasks, older, attempts, cleaner, calls, fails, closing>>

\* The name is taken as long as the document is there, flagged or not.
InsertApp(c) ==
  /\ Doing(c, "insertApp")
  /\ LET x == Call(c).app IN
       IF apps[x] = "none"
       THEN apps' = [apps EXCEPT ![x] = "live"] /\ GoesOn(c)
       ELSE Fails(c) /\ UNCHANGED apps
  /\ UNCHANGED <<account, queues, tasks, older, attempts, cleaner, calls, fails, closing>>

FindApp(c) ==
  /\ Doing(c, "findApp")
  /\ IF apps[Call(c).app] = "live" THEN GoesOn(c) ELSE Fails(c)
  /\ UNCHANGED <<account, apps, queues, tasks, older, attempts, cleaner, calls, fails, closing>>

Mentioned == {queues[k].id : k \in QueueKeys} \cup {tasks[k].qid : k \in TaskKeys}
FreshId == CHOOSE i \in 1..(Cardinality(QueueKeys) + Cardinality(TaskKeys) + 1) : i \notin Mentioned

\* NewQueue returns the queue it found, and none when it has inserted one: a PUT
\* of a queue is then answered with 404.
InsertQueue(c) ==
  /\ Doing(c, "insertQueue")
  /\ LET k == QueueOf(c) IN
       IF queues[k].state = "none"
       THEN /\ queues' = [queues EXCEPT ![k] = [state |-> "live", id |-> FreshId]]
            /\ IF Call(c).op = "PutQueue" THEN Fails(c) ELSE GoesOn(c)
       ELSE GoesTo(c, <<"updateQueue">>) /\ UNCHANGED queues
  /\ UNCHANGED <<account, apps, tasks, older, attempts, cleaner, calls, fails, closing>>

\* The limit and the retry strategy change, not the flag.  A Find and an Apply in
\* the code: whichever of the two misses the document, the call fails.
UpdateQueue(c) ==
  /\ Doing(c, "updateQueue")
  /\ IF queues[QueueOf(c)].state # "none" THEN GoesOn(c) ELSE Fails(c)
  /\ UNCHANGED <<account, apps, queues, tasks, older, attempts, cleaner, calls, fails, closing>>

\* Mutant: GetQueue would also find a queue that is deleted.
FindQueueAny(c) ==
  /\ Doing(c, "findQueue")
  /\ IF queues[QueueOf(c)].state # "none"
     THEN proc' = [proc EXCEPT ![c].qid = queues[QueueOf(c)].id, ![c].todo = Tail(@)]
     ELSE Fails(c)
  /\ UNCHANGED <<account, apps, queues, tasks, older, attempts, cleaner, calls, fails, closing>>

FindQueue(c) ==
  /\ Doing(c, "findQueue")
  /\ IF queues[QueueOf(c)].state = "live"
     THEN proc' = [proc EXCEPT ![c].qid = queues[QueueOf(c)].id, ![c].todo = Tail(@)]
     ELSE Fails(c)
  /\ UNCHANGED <<account, apps, queues, tasks, older, attempts, cleaner, calls, fails, closing>>

\* Mutant: without its unique index the collection takes every insert.
InsertTaskTwice(c) ==
  /\ Doing(c, "insertTask")
  /\ LET k == TaskOf(c) IN
       /\ tasks' = [tasks EXCEPT ![k] =
            [state |-> "live", queue |-> Call(c).queue, qid |-> proc[c].qid,
             scheduled |-> Call(c).scheduled, revived |-> FALSE]]
       /\ older' = older \cup ({j \in TaskKeys : StoredTask(j)} \X {k})
       /\ GoesOn(c)
  /\ UNCHANGED <<account, apps, queues, attempts, cleaner, calls, fails, closing>>

InsertTask(c) ==
  /\ Doing(c, "insertTask")
  /\ LET k == TaskOf(c) IN
       IF tasks[k].state = "none"
       THEN /\ tasks' = [tasks EXCEPT ![k] =
                 [state |-> "live", queue |-> Call(c).queue, qid |-> proc[c].qid,
                  scheduled |-> Call(c).scheduled, revived |-> FALSE]]
            /\ older' = older \cup ({j \in TaskKeys : StoredTask(j)} \X {k})
            /\ GoesOn(c)
       ELSE /\ GoesTo(c, <<"updateTask", "purge", "insertAttempt">>)
            /\ UNCHANGED <<tasks, older>>
  /\ UNCHANGED <<account, apps, queues, attempts, cleaner, calls, fails, closing>>

\* A flagged task is live again.  It keeps its queue and that queue's id, and
\* the rest of the call goes by them.
UpdateTask(c) ==
  /\ Doing(c, "updateTask")
  /\ LET k == TaskOf(c)
         t == tasks[k] IN
       IF t.state # "none"
       THEN /\ tasks' = [tasks EXCEPT ![k] =
                 [t EXCEPT !.state = "live", !.scheduled = Call(c).scheduled,
                           !.revived = @ \/ t.state = "flagged"]]
            /\ proc' = [proc EXCEPT ![c].call.queue = t.queue, ![c].todo = Tail(@)]
       ELSE Fails(c) /\ UNCHANGED tasks
  /\ UNCHANGED <<account, apps, queues, older, attempts, cleaner, calls, fails, closing>>

Flagged(a) == [a EXCEPT !.flagged = TRUE]
FlagAll(S) == attempts' = (attempts \ S) \cup {Flagged(a) : a \in S}

\* DeletePendingAttempts; one that a worker has leased is not pending.
Purge(c) ==
  /\ Doing(c, "purge")
  /\ \E S \in SUBSET {a \in attempts : a.task = TaskOf(c) /\ ~a.flagged} : FlagAll(S)
  /\ GoesOn(c)
  /\ UNCHANGED <<account, apps, queues, tasks, older, cleaner, calls, fails, closing>>

InsertAttempt(c) ==
  /\ Doing(c, "insertAttempt")
  /\ attempts' = attempts \cup {[task |-> TaskOf(c), queue |-> Call(c).queue, flagged |-> FALSE]}
  /\ GoesOn(c)
  /\ UNCHANGED <<account, apps, queues, tasks, older, cleaner, calls, fails, closing>>
-----------------------------------------------------------------------------
(* Deletion: one UpdateAll for each collection *)

\* A field the query does not have matches every document.
Matches(field, value) == field \in {None, value}

FlagState(s) == IF s = "none" THEN "none" ELSE "flagged"

\* Mutant: a cascade would start with the tasks.
FlagAttemptsNot(c) ==
  /\ Doing(c, "attempts")
  /\ GoesOn(c)
  /\ UNCHANGED <<account, apps, queues, tasks, older, attempts, cleaner, calls, fails, closing>>

FlagAttempts(c) ==
  /\ Doing(c, "attempts")
  /\ FlagAll({a \in attempts : /\ Matches(Call(c).app, a.task[1])
                               /\ Matches(Call(c).task, a.task[2])
                               /\ Matches(Call(c).queue, a.queue)})
  /\ GoesOn(c)
  /\ UNCHANGED <<account, apps, queues, tasks, older, cleaner, calls, fails, closing>>

FlagTasks(c) ==
  /\ Doing(c, "tasks")
  /\ tasks' = [k \in TaskKeys |->
       IF /\ Matches(Call(c).app, k[1])
          /\ Matches(Call(c).task, k[2])
          /\ Matches(Call(c).queue, tasks[k].queue)
       THEN [tasks[k] EXCEPT !.state = FlagState(@)]
       ELSE tasks[k]]
  /\ GoesOn(c)
  /\ UNCHANGED <<account, apps, queues, older, attempts, cleaner, calls, fails, closing>>

\* DeleteQueues spares the default queue; the others take it with its application.
FlagQueues(c) ==
  /\ Doing(c, "queues")
  /\ queues' = [k \in QueueKeys |->
       IF /\ Matches(Call(c).app, k[1])
          /\ Matches(Call(c).queue, k[2])
          /\ Call(c).op = "DeleteQueues" => k[2] # "default"
       THEN [queues[k] EXCEPT !.state = FlagState(@)]
       ELSE queues[k]]
  /\ GoesOn(c)
  /\ UNCHANGED <<account, apps, tasks, older, attempts, cleaner, calls, fails, closing>>

\* Mutant: DeleteApplications does not spare the default application.
FlagAppsAll(c) ==
  /\ Doing(c, "apps")
  /\ apps' = [x \in App |->
       IF Matches(Call(c).app, x) THEN FlagState(apps[x]) ELSE apps[x]]
  /\ GoesOn(c)
  /\ UNCHANGED <<account, queues, tasks, older, attempts, cleaner, calls, fails, closing>>

FlagApps(c) ==
  /\ Doing(c, "apps")
  /\ apps' = [x \in App |->
       IF /\ Matches(Call(c).app, x)
          /\ Call(c).op = "DeleteApplications" => x # "default"
       THEN FlagState(apps[x])
       ELSE apps[x]]
  /\ GoesOn(c)
  /\ UNCHANGED <<account, queues, tasks, older, attempts, cleaner, calls, fails, closing>>

FlagAccount(c) ==
  /\ Doing(c, "account")
  /\ IF account \in {"live", "flagged"}
     THEN account' = "flagged" /\ GoesOn(c)
     ELSE Fails(c) /\ UNCHANGED account
  /\ UNCHANGED <<apps, queues, tasks, older, attempts, cleaner, calls, fails, closing>>
-----------------------------------------------------------------------------
(* The cleaner: one collection after the other *)

Cleans(step) ==
  /\ cleaner # <<>> /\ Head(cleaner) = step
  /\ cleaner' = Tail(cleaner)

\* Something is flagged.
Litter ==
  \/ account = "flagged"
  \/ \E x \in App : apps[x] = "flagged"
  \/ \E k \in QueueKeys : queues[k].state = "flagged"
  \/ \E k \in TaskKeys : tasks[k].state = "flagged"
  \/ \E a \in attempts : a.flagged

CleanerStarts ==
  /\ cleaner = <<>> /\ Litter
  /\ cleaner' = <<"attempts", "tasks", "queues", "apps", "account">>
  /\ UNCHANGED <<account, apps, queues, tasks, older, attempts, proc, calls, fails, closing>>

\* One after the other, their slots with them (Engine, Queues).
CleanAttempts ==
  /\ Cleans("attempts")
  /\ attempts' = {a \in attempts : ~a.flagged}
  /\ UNCHANGED <<account, apps, queues, tasks, older, proc, calls, fails, closing>>

CleanTasks ==
  /\ Cleans("tasks")
  /\ tasks' = [k \in TaskKeys |-> IF tasks[k].state = "flagged" THEN NoTask ELSE tasks[k]]
  /\ older' = {p \in older : tasks[p[1]].state # "flagged" /\ tasks[p[2]].state # "flagged"}
  /\ UNCHANGED <<account, apps, queues, attempts, proc, calls, fails, closing>>

\* Mutant: the queues are left out.
CleanQueuesNot ==
  /\ Cleans("queues")
  /\ UNCHANGED <<account, apps, queues, tasks, older, attempts, proc, calls, fails, closing>>

CleanQueues ==
  /\ Cleans("queues")
  /\ queues' = [k \in QueueKeys |-> IF queues[k].state = "flagged" THEN NoQueue ELSE queues[k]]
  /\ UNCHANGED <<account, apps, tasks, older, attempts, proc, calls, fails, closing>>

CleanApps ==
  /\ Cleans("apps")
  /\ apps' = [x \in App |-> IF apps[x] = "flagged" THEN "none" ELSE apps[x]]
  /\ UNCHANGED <<account, queues, tasks, older, attempts, proc, calls, fails, closing>>

CleanAccount ==
  /\ Cleans("account")
  /\ account' = IF account = "flagged" THEN "gone" ELSE account
  /\ UNCHANGED <<apps, queues, tasks, older, attempts, proc, calls, fails, closing>>

CleanerFails ==
  /\ cleaner # <<>> /\ fails < MaxFails
  /\ cleaner' = <<>>
  /\ fails' = fails + 1
  /\ UNCHANGED <<account, apps, queues, tasks, older, attempts, proc, calls, closing>>
-----------------------------------------------------------------------------
CallStep(c) ==
  \/ InsertAccount(c)
  \/ InsertApp(c)
  \/ FindApp(c)
  \/ InsertQueue(c)
  \/ UpdateQueue(c)
  \/ FindQueue(c)
  \/ InsertTask(c)
  \/ UpdateTask(c)
  \/ Purge(c)
  \/ InsertAttempt(c)
  \/ FlagAttempts(c)
  \/ FlagTasks(c)
  \/ FlagQueues(c)
  \/ FlagApps(c)
  \/ FlagAccount(c)

CleanerStep ==
  \/ CleanerStarts
  \/ CleanAttempts
  \/ CleanTasks
  \/ CleanQueues
  \/ CleanApps
  \/ CleanAccount

ResStep ==
  \/ \E c \in Client : CallStep(c) \/ Fail(c)
  \/ CleanerStep
  \/ CleanerFails
-----------------------------------------------------------------------------
(* Properties *)

\* Whatever is left half done, nothing live stands under something deleted:
\* each cascade flags the children first, and a call that finds its parents
\* flagged stores nothing.  (With one client: a PUT that has found its
\* application or queue does not look again.)
ChildrenGoFirst ==
  /\ \A x \in App : apps[x] = "live" => account = "live"
  /\ \A k \in QueueKeys : queues[k].state = "live" => apps[k[1]] = "live"
  /\ \A k \in TaskKeys : tasks[k].state = "live" => apps[k[1]] = "live"
  /\ \A a \in attempts : ~a.flagged => tasks[a.task].state = "live"

\* A task's queue is the one it was created for: its attempts can be executed.
\* (Not so for a task that was deleted and PUT again before it was cleaned, nor
\* while an account is deleted, which flags the queues before the tasks.)
TaskHasQueue ==
  closing \/ \A k \in TaskKeys :
    LET t == tasks[k] IN
      t.state = "live" /\ ~t.revived =>
        LET q == queues[<<k[1], t.queue>>] IN q.state = "live" /\ q.id = t.qid

\* Only the deletion of the account takes its default application.
DefaultApplicationStays ==
  [][apps["default"] = "live" => apps'["default"] = "live" \/ closing']_resVars

\* A deleted application is removed, and so is a default queue that was deleted
\* with its application: a PUT of that name stores something again.
DeletedIsRemoved ==
  \A x \in App :
    /\ (apps[x] = "flagged") ~> (apps[x] # "flagged")
    /\ (queues[<<x, "default">>].state = "flagged") ~> (queues[<<x, "default">>].state # "flagged")
=============================================================================
