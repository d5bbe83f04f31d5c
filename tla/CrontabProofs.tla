---------------------------- MODULE CrontabProofs ----------------------------
(***************************************************************************)
(* Theorems about Resources and Crontab, for every set of names, requests  *)
(* and failures, every file and every length of a page.                    *)
(*                                                                         *)
(* Types and the default application are for any number of clients.  The   *)
(* rest is for one: a PUT that has found its application or its queue does *)
(* not look again, and two synchronisations undo each other.               *)
(***************************************************************************)
EXTENDS Crontab, FunctionTheorems, FiniteSetTheorems, TLAPS

OneClient == \A c, d \in Client : c = d

Op(c) == Call(c).op
DoingOneOf(c, steps) == ~Idle(c) /\ Head(proc[c].todo) \in steps
-----------------------------------------------------------------------------
(* The invariants *)

QueuePuts == {<<"findApp", "insertQueue">>, <<"insertQueue">>, <<"updateQueue">>}

\* The steps a call of each kind may still have to make.
Left ==
  [PostAccount |-> {<<"insertAccount", "insertApp", "findApp", "insertQueue">>,
                    <<"insertApp", "findApp", "insertQueue">>} \cup QueuePuts,
   PutApplication |-> {<<"insertApp", "findApp", "insertQueue">>} \cup QueuePuts,
   PutQueue |-> QueuePuts,
   PutTask |-> {<<"findApp", "findQueue", "insertTask", "insertAttempt">>,
                <<"findQueue", "insertTask", "insertAttempt">>,
                <<"insertTask", "insertAttempt">>,
                <<"updateTask", "purge", "insertAttempt">>,
                <<"purge", "insertAttempt">>, <<"insertAttempt">>},
   DeleteAccount |-> {<<"attempts", "queues", "tasks", "apps", "account">>,
                      <<"queues", "tasks", "apps", "account">>, <<"tasks", "apps", "account">>,
                      <<"apps", "account">>, <<"account">>},
   DeleteApplication |-> {<<"attempts", "tasks", "queues", "apps">>,
                          <<"tasks", "queues", "apps">>, <<"queues", "apps">>, <<"apps">>},
   DeleteApplications |-> {<<"attempts", "tasks", "queues", "apps">>,
                           <<"tasks", "queues", "apps">>, <<"queues", "apps">>, <<"apps">>},
   DeleteQueue |-> {<<"attempts", "tasks", "queues">>, <<"tasks", "queues">>, <<"queues">>},
   DeleteQueues |-> {<<"attempts", "tasks", "queues">>, <<"tasks", "queues">>, <<"queues">>},
   DeleteTask |-> {<<"attempts", "tasks">>, <<"tasks">>},
   DeleteTasks |-> {<<"attempts", "tasks">>, <<"tasks">>}]

\* A call under way is one that was let through, at a step of its plan; a
\* DeleteAccount is known to have begun.
UnderWay(c) ==
  ~Idle(c) =>
    /\ Call(c) \in Calls /\ ~Forbidden(Call(c))
    /\ proc[c].todo \in Left[Op(c)]
    /\ proc[c].ok = TRUE
    /\ Op(c) = "DeleteAccount" => closing

\* A synchronisation makes three kinds of calls.
AgendaOps(c) ==
  \A i \in DOMAIN sync[c].agenda :
    sync[c].agenda[i].op \in {"PutApplication", "PutTask", "DeleteTask"}

QueuesNamed == \A k \in TaskKeys : StoredTask(k) => tasks[k].queue \in QName

TypeInv ==
  /\ TypeOK
  /\ QueuesNamed
  /\ \A c \in Client : UnderWay(c)
  /\ \A c \in Client : AgendaOps(c)

\* An attempt that may run is of its task's queue: a query by queue finds both.
AttemptsInQueue == \A a \in attempts : ~a.flagged => a.queue = tasks[a.task].queue

\* What a PUT has found is still there.
Found(c) ==
  /\ Doing(c, "insertApp") => account = "live"
  /\ DoingOneOf(c, {"insertQueue", "findQueue", "insertTask", "updateTask"}) =>
       apps[Call(c).app] = "live"
  /\ Doing(c, "insertTask") => queues[QueueOf(c)] = [state |-> "live", id |-> proc[c].qid]
  /\ DoingOneOf(c, {"purge", "insertAttempt"}) =>
       LET t == tasks[TaskOf(c)] IN
         t.state = "live" /\ t.queue = Call(c).queue /\ t.scheduled = Call(c).scheduled

AttemptMatches(r, a) ==
  Matches(r.app, a.task[1]) /\ Matches(r.task, a.task[2]) /\ Matches(r.queue, a.queue)
TaskMatches(r, k) ==
  Matches(r.app, k[1]) /\ Matches(r.task, k[2]) /\ Matches(r.queue, tasks[k].queue)
QueueMatches(r, k) == Matches(r.app, k[1]) /\ Matches(r.queue, k[2])

AttemptsSwept(r) == \A a \in attempts : AttemptMatches(r, a) => a.flagged
TasksSwept(r) == \A k \in TaskKeys : TaskMatches(r, k) => tasks[k].state # "live"
QueuesSwept(r) == \A k \in QueueKeys : QueueMatches(r, k) => queues[k].state # "live"
AppsSwept == \A x \in App : apps[x] # "live"

\* What a cascade has flagged stays flagged or goes.
Swept(c) ==
  /\ Doing(c, "tasks") \/ (Doing(c, "queues") /\ Op(c) = "DeleteAccount") =>
       AttemptsSwept(Call(c))
  /\ Doing(c, "apps") \/ (Doing(c, "queues") /\ Op(c) # "DeleteAccount") =>
       TasksSwept(Call(c))
  /\ Doing(c, "apps") \/ (Doing(c, "tasks") /\ Op(c) = "DeleteAccount") =>
       QueuesSwept(Call(c))
  /\ Doing(c, "account") => AppsSwept

TreeInv ==
  /\ ChildrenGoFirst /\ TaskHasQueue /\ AttemptsInQueue
  /\ \A c \in Client : Found(c)
  /\ \A c \in Client : Swept(c)

\* The call under way puts task t of the file, or deletes task t.
Putting(c, t) ==
  /\ ~Idle(c)
  /\ Op(c) = "PutTask" /\ Call(c).app = SyncApp /\ Call(c).task = t /\ Call(c).scheduled
Deleting(c, t) == ~Idle(c) /\ Call(c) = DeleteTask(t)

OnAgenda(c, r) == \E i \in DOMAIN sync[c].agenda : sync[c].agenda[i] = r

PutPhase(c) ==
  At(c, "put") =>
    /\ \A i \in DOMAIN sync[c].agenda :
         sync[c].agenda[i] = PutApp \/ \E t \in Range(File) : sync[c].agenda[i] = PutTask(t)
    /\ ~Idle(c) => Op(c) = "PutApplication" \/ \E t \in Range(File) : Putting(c, t)
    /\ AllOk(c) => \A t \in Range(File) :
         t \in Listed \/ OnAgenda(c, PutTask(t)) \/ Putting(c, t)

DeletePhase(c) ==
  At(c, "delete") =>
    /\ \A i \in DOMAIN sync[c].agenda :
         \E t \in TName \ Range(File) : sync[c].agenda[i] = DeleteTask(t)
    /\ ~Idle(c) => \E t \in TName \ Range(File) : Deleting(c, t)
    /\ AllOk(c) =>
         /\ Range(File) \subseteq Listed
         /\ \A t \in (Listed \ Range(File)) \ sync[c].beyond :
              OnAgenda(c, DeleteTask(t)) \/ Deleting(c, t)

SyncInv ==
  /\ SyncedExactly
  /\ \A c \in Client : PutPhase(c) /\ DeletePhase(c) /\ (At(c, "done") => Idle(c))
-----------------------------------------------------------------------------
(* The course of a call *)

Follows(op, a, b) ==
  \/ op = "PostAccount" /\ a = "insertAccount" /\ b = "insertApp"
  \/ op \in {"PostAccount", "PutApplication"} /\ a = "insertApp" /\ b = "findApp"
  \/ op \in {"PostAccount", "PutApplication", "PutQueue"} /\ a = "findApp" /\ b = "insertQueue"
  \/ op = "PutTask" /\ a = "findApp" /\ b = "findQueue"
  \/ op = "PutTask" /\ a = "findQueue" /\ b = "insertTask"
  \/ op = "PutTask" /\ a = "updateTask" /\ b = "purge"
  \/ op = "PutTask" /\ a \in {"insertTask", "purge"} /\ b = "insertAttempt"
  \/ op = "DeleteAccount" /\ a = "attempts" /\ b = "queues"
  \/ op = "DeleteAccount" /\ a = "queues" /\ b = "tasks"
  \/ op = "DeleteAccount" /\ a = "tasks" /\ b = "apps"
  \/ op = "DeleteAccount" /\ a = "apps" /\ b = "account"
  \/ op \in {"DeleteApplication", "DeleteApplications", "DeleteQueue", "DeleteQueues",
             "DeleteTask", "DeleteTasks"} /\ a = "attempts" /\ b = "tasks"
  \/ op \in {"DeleteApplication", "DeleteApplications", "DeleteQueue", "DeleteQueues"}
       /\ a = "tasks" /\ b = "queues"
  \/ op \in {"DeleteApplication", "DeleteApplications"} /\ a = "queues" /\ b = "apps"

\* A plan is where a call starts.
LEMMA PlanLeft == ASSUME NEW op \in Ops PROVE Plan[op] \in Left[op] /\ Plan[op] # <<>>
<1>1. Plan[op] \in Left[op] BY DEF Plan, Left, Ops, QueuePuts
<1>2. Plan[op] # <<>> BY DEF Plan, Ops
<1> QED BY <1>1, <1>2

\* What is left of a call is a sequence of steps, and what follows its first
\* step is what the plan says.
LEMMA LeftNext ==
  ASSUME NEW op \in Ops, NEW s \in Left[op]
  PROVE  /\ s \in Seq(Steps) /\ s # <<>> /\ Len(s) \in Nat
         /\ Len(s) # 1 => Tail(s) \in Left[op] /\ Follows(op, Head(s), Head(Tail(s)))
<1> DEFINE Fine == /\ s \in Seq(Steps) /\ s # <<>> /\ Len(s) \in Nat
                   /\ Len(s) # 1 => Tail(s) \in Left[op] /\ Follows(op, Head(s), Head(Tail(s)))
<1> SUFFICES Fine OBVIOUS
<1> HIDE DEF Fine
<1>1. CASE op = "PostAccount"
  <2> USE <1>1
  <2>1. CASE s = <<"insertAccount", "insertApp", "findApp", "insertQueue">>
    BY <2>1 DEF Left, Follows, Steps, Fine, QueuePuts
  <2>2. CASE s = <<"insertApp", "findApp", "insertQueue">>
    BY <2>2 DEF Left, Follows, Steps, Fine, QueuePuts
  <2>3. CASE s = <<"findApp", "insertQueue">>
    BY <2>3 DEF Left, Follows, Steps, Fine, QueuePuts
  <2>4. CASE s = <<"insertQueue">>
    BY <2>4 DEF Left, Follows, Steps, Fine, QueuePuts
  <2>5. CASE s = <<"updateQueue">>
    BY <2>5 DEF Left, Follows, Steps, Fine, QueuePuts
  <2> QED BY <2>1, <2>2, <2>3, <2>4, <2>5 DEF Left, QueuePuts
<1>2. CASE op = "PutApplication"
  <2> USE <1>2
  <2>1. CASE s = <<"insertApp", "findApp", "insertQueue">>
    BY <2>1 DEF Left, Follows, Steps, Fine, QueuePuts
  <2>2. CASE s = <<"findApp", "insertQueue">>
    BY <2>2 DEF Left, Follows, Steps, Fine, QueuePuts
  <2>3. CASE s = <<"insertQueue">>
    BY <2>3 DEF Left, Follows, Steps, Fine, QueuePuts
  <2>4. CASE s = <<"updateQueue">>
    BY <2>4 DEF Left, Follows, Steps, Fine, QueuePuts
  <2> QED BY <2>1, <2>2, <2>3, <2>4 DEF Left, QueuePuts
<1>3. CASE op = "PutQueue"
  <2> USE <1>3
  <2>1. CASE s = <<"findApp", "insertQueue">>
    BY <2>1 DEF Left, Follows, Steps, Fine, QueuePuts
  <2>2. CASE s = <<"insertQueue">>
    BY <2>2 DEF Left, Follows, Steps, Fine, QueuePuts
  <2>3. CASE s = <<"updateQueue">>
    BY <2>3 DEF Left, Follows, Steps, Fine, QueuePuts
  <2> QED BY <2>1, <2>2, <2>3 DEF Left, QueuePuts
<1>4. CASE op = "PutTask"
  <2> USE <1>4
  <2>1. CASE s = <<"findApp", "findQueue", "insertTask", "insertAttempt">>
    BY <2>1 DEF Left, Follows, Steps, Fine
  <2>2. CASE s = <<"findQueue", "insertTask", "insertAttempt">>
    BY <2>2 DEF Left, Follows, Steps, Fine
  <2>3. CASE s = <<"insertTask", "insertAttempt">>
    BY <2>3 DEF Left, Follows, Steps, Fine
  <2>4. CASE s = <<"updateTask", "purge", "insertAttempt">>
    BY <2>4 DEF Left, Follows, Steps, Fine
  <2>5. CASE s = <<"purge", "insertAttempt">>
    BY <2>5 DEF Left, Follows, Steps, Fine
  <2>6. CASE s = <<"insertAttempt">>
    BY <2>6 DEF Left, Follows, Steps, Fine
  <2> QED BY <2>1, <2>2, <2>3, <2>4, <2>5, <2>6 DEF Left
<1>5. CASE op = "DeleteAccount"
  <2> USE <1>5
  <2>1. CASE s = <<"attempts", "queues", "tasks", "apps", "account">>
    BY <2>1 DEF Left, Follows, Steps, Fine
  <2>2. CASE s = <<"queues", "tasks", "apps", "account">>
    BY <2>2 DEF Left, Follows, Steps, Fine
  <2>3. CASE s = <<"tasks", "apps", "account">>
    BY <2>3 DEF Left, Follows, Steps, Fine
  <2>4. CASE s = <<"apps", "account">>
    BY <2>4 DEF Left, Follows, Steps, Fine
  <2>5. CASE s = <<"account">>
    BY <2>5 DEF Left, Follows, Steps, Fine
  <2> QED BY <2>1, <2>2, <2>3, <2>4, <2>5 DEF Left
<1>6. CASE op = "DeleteApplication"
  <2> USE <1>6
  <2>1. CASE s = <<"attempts", "tasks", "queues", "apps">>
    BY <2>1 DEF Left, Follows, Steps, Fine
  <2>2. CASE s = <<"tasks", "queues", "apps">>
    BY <2>2 DEF Left, Follows, Steps, Fine
  <2>3. CASE s = <<"queues", "apps">>
    BY <2>3 DEF Left, Follows, Steps, Fine
  <2>4. CASE s = <<"apps">>
    BY <2>4 DEF Left, Follows, Steps, Fine
  <2> QED BY <2>1, <2>2, <2>3, <2>4 DEF Left
<1>7. CASE op = "DeleteApplications"
  <2> USE <1>7
  <2>1. CASE s = <<"attempts", "tasks", "queues", "apps">>
    BY <2>1 DEF Left, Follows, Steps, Fine
  <2>2. CASE s = <<"tasks", "queues", "apps">>
    BY <2>2 DEF Left, Follows, Steps, Fine
  <2>3. CASE s = <<"queues", "apps">>
    BY <2>3 DEF Left, Follows, Steps, Fine
  <2>4. CASE s = <<"apps">>
    BY <2>4 DEF Left, Follows, Steps, Fine
  <2> QED BY <2>1, <2>2, <2>3, <2>4 DEF Left
<1>8. CASE op = "DeleteQueue"
  <2> USE <1>8
  <2>1. CASE s = <<"attempts", "tasks", "queues">>
    BY <2>1 DEF Left, Follows, Steps, Fine
  <2>2. CASE s = <<"tasks", "queues">>
    BY <2>2 DEF Left, Follows, Steps, Fine
  <2>3. CASE s = <<"queues">>
    BY <2>3 DEF Left, Follows, Steps, Fine
  <2> QED BY <2>1, <2>2, <2>3 DEF Left
<1>9. CASE op = "DeleteQueues"
  <2> USE <1>9
  <2>1. CASE s = <<"attempts", "tasks", "queues">>
    BY <2>1 DEF Left, Follows, Steps, Fine
  <2>2. CASE s = <<"tasks", "queues">>
    BY <2>2 DEF Left, Follows, Steps, Fine
  <2>3. CASE s = <<"queues">>
    BY <2>3 DEF Left, Follows, Steps, Fine
  <2> QED BY <2>1, <2>2, <2>3 DEF Left
<1>10. CASE op = "DeleteTask"
  <2> USE <1>10
  <2>1. CASE s = <<"attempts", "tasks">>
    BY <2>1 DEF Left, Follows, Steps, Fine
  <2>2. CASE s = <<"tasks">>
    BY <2>2 DEF Left, Follows, Steps, Fine
  <2> QED BY <2>1, <2>2 DEF Left
<1>11. CASE op = "DeleteTasks"
  <2> USE <1>11
  <2>1. CASE s = <<"attempts", "tasks">>
    BY <2>1 DEF Left, Follows, Steps, Fine
  <2>2. CASE s = <<"tasks">>
    BY <2>2 DEF Left, Follows, Steps, Fine
  <2> QED BY <2>1, <2>2 DEF Left
<1> QED BY <1>1, <1>2, <1>3, <1>4, <1>5, <1>6, <1>7, <1>8, <1>9, <1>10, <1>11 DEF Ops

Procs == [call : Calls \cup {NoCall}, qid : Nat, todo : Seq(Steps), ok : BOOLEAN]

\* A client that has ended its call is of its type.
LEMMA RestType == ASSUME NEW ok \in BOOLEAN PROVE Rest(ok) \in Procs
<1>1. <<>> \in Seq(Steps) OBVIOUS
<1> QED BY <1>1 DEF Rest, Procs

\* A call that goes on ends, or is at the step that follows.
LEMMA Onward ==
  ASSUME proc \in [Client -> Procs], NEW c \in Client, UnderWay(c), ~Idle(c), GoesOn(c)
  PROVE  /\ proc' \in [Client -> Procs]
         /\ \A d \in Client \ {c} : proc'[d] = proc[d]
         /\ \/ proc'[c] = Rest(TRUE)
            \/ /\ proc'[c] = [proc[c] EXCEPT !.todo = Tail(@)]
               /\ Tail(proc[c].todo) \in Left[Op(c)] /\ Tail(proc[c].todo) # <<>>
               /\ Follows(Op(c), Head(proc[c].todo), Head(Tail(proc[c].todo)))
<1>1. proc[c] \in Procs /\ Op(c) \in Ops /\ proc[c].todo \in Left[Op(c)]
  BY DEF UnderWay, Calls, Op
<1>2. CASE Len(proc[c].todo) = 1
  <2>1. proc' = [proc EXCEPT ![c] = Rest(TRUE)] BY <1>2 DEF GoesOn
  <2> QED BY <2>1, RestType
<1>3. CASE Len(proc[c].todo) # 1
  <2>1. /\ Tail(proc[c].todo) \in Left[Op(c)]
        /\ Follows(Op(c), Head(proc[c].todo), Head(Tail(proc[c].todo)))
    BY <1>1, <1>3, LeftNext
  <2>2. Tail(proc[c].todo) \in Seq(Steps) /\ Tail(proc[c].todo) # <<>> BY <1>1, <2>1, LeftNext
  <2>3. proc' = [proc EXCEPT ![c].todo = Tail(@)] BY <1>3 DEF GoesOn
  <2>4. proc' \in [Client -> Procs] BY <1>1, <2>2, <2>3 DEF Procs
  <2> QED BY <2>1, <2>2, <2>3, <2>4
<1> QED BY <1>2, <1>3

\* A client that rests, or whose call has gone on by a step, is under way as before.
LEMMA OnwardUnderWay ==
  ASSUME proc \in [Client -> Procs], NEW c \in Client, \A d \in Client : UnderWay(d),
         ~Idle(c), GoesOn(c), closing => closing'
  PROVE  proc' \in [Client -> Procs] /\ \A d \in Client : UnderWay(d)'
<1>1. /\ proc' \in [Client -> Procs]
      /\ \A d \in Client \ {c} : proc'[d] = proc[d]
      /\ \/ proc'[c] = Rest(TRUE)
         \/ /\ proc'[c] = [proc[c] EXCEPT !.todo = Tail(@)]
            /\ Tail(proc[c].todo) \in Left[Op(c)] /\ Tail(proc[c].todo) # <<>>
  BY Onward
<1>2. ASSUME NEW d \in Client \ {c} PROVE UnderWay(d)'
  BY <1>1, <1>2 DEF UnderWay, Idle, Call, Op
<1>3. CASE proc'[c] = Rest(TRUE)
  <2>1. UnderWay(c)' BY <1>3 DEF UnderWay, Idle, Rest
  <2> QED BY <1>1, <1>2, <2>1
<1>4. CASE /\ proc'[c] = [proc[c] EXCEPT !.todo = Tail(@)]
           /\ Tail(proc[c].todo) \in Left[Op(c)]
  <2>1. /\ proc'[c].call = proc[c].call /\ proc'[c].ok = proc[c].ok
        /\ proc'[c].todo = Tail(proc[c].todo)
    BY <1>1, <1>4 DEF Procs
  <2>2. UnderWay(c)' BY <1>4, <2>1 DEF UnderWay, Idle, Call, Op, Forbidden
  <2> QED BY <1>1, <1>2, <2>2
<1> QED BY <1>1, <1>3, <1>4

\* The same for a call that ends at once, well or not.
LEMMA RestUnderWay ==
  ASSUME proc \in [Client -> Procs], NEW c \in Client, \A d \in Client : UnderWay(d),
         NEW ok \in BOOLEAN, proc' = [proc EXCEPT ![c] = Rest(ok)], closing => closing'
  PROVE  proc' \in [Client -> Procs] /\ \A d \in Client : UnderWay(d)'
<1>1. proc' \in [Client -> Procs] BY RestType
<1>2. UnderWay(c)' BY DEF UnderWay, Idle, Rest
<1>3. ASSUME NEW d \in Client \ {c} PROVE UnderWay(d)'
  BY <1>3 DEF UnderWay, Idle, Call, Op
<1> QED BY <1>1, <1>2, <1>3

\* The same for a call that is let through or refused.
LEMMA IssueUnderWay ==
  ASSUME proc \in [Client -> Procs], NEW c \in Client, \A d \in Client : UnderWay(d),
         NEW r \in Calls, Issue(c, r), closing => closing', r.op = "DeleteAccount" => closing'
  PROVE  proc' \in [Client -> Procs] /\ \A d \in Client : UnderWay(d)'
<1>1. CASE Forbidden(r) \/ ~Authorized(r)
  <2>1. proc' = [proc EXCEPT ![c] = Rest(FALSE)] BY <1>1 DEF Issue, Fails
  <2> QED BY <2>1, RestUnderWay
<1>2. CASE ~Forbidden(r) /\ Authorized(r)
  <2> DEFINE p == [call |-> r, qid |-> 0, todo |-> Plan[r.op], ok |-> TRUE]
  <2>1. proc' = [proc EXCEPT ![c] = p] BY <1>2 DEF Issue
  <2>2. r.op \in Ops BY DEF Calls
  <2>3. Plan[r.op] \in Left[r.op] BY <2>2, PlanLeft
  <2>4. Plan[r.op] \in Seq(Steps) /\ Plan[r.op] # <<>> BY <2>2, <2>3, LeftNext
  <2>6. p \in Procs BY <2>4 DEF Procs
  <2>7. proc'[c] = p /\ \A d \in Client \ {c} : proc'[d] = proc[d] BY <2>1
  <2>8. UnderWay(c)' BY <1>2, <2>3, <2>7 DEF UnderWay, Call, Op
  <2>9. ASSUME NEW d \in Client \ {c} PROVE UnderWay(d)'
    BY <2>7, <2>9 DEF UnderWay, Idle, Call, Op
  <2> QED BY <2>1, <2>6, <2>8, <2>9
<1> QED BY <1>1, <1>2

\* Which calls make a step.
StepOf(op, step) ==
  /\ step = "insertAccount" => op = "PostAccount"
  /\ step = "insertApp" => op \in {"PostAccount", "PutApplication"}
  /\ step = "findApp" => op \in {"PostAccount", "PutApplication", "PutQueue", "PutTask"}
  /\ step \in {"insertQueue", "updateQueue"} => op \in {"PostAccount", "PutApplication", "PutQueue"}
  /\ step \in {"findQueue", "insertTask", "updateTask", "purge", "insertAttempt"} => op = "PutTask"
  /\ step \in {"attempts", "tasks"} =>
       op \in {"DeleteAccount", "DeleteApplication", "DeleteApplications", "DeleteQueue",
               "DeleteQueues", "DeleteTask", "DeleteTasks"}
  /\ step = "queues" =>
       op \in {"DeleteAccount", "DeleteApplication", "DeleteApplications", "DeleteQueue",
               "DeleteQueues"}
  /\ step = "apps" => op \in {"DeleteAccount", "DeleteApplication", "DeleteApplications"}
  /\ step = "account" => op = "DeleteAccount"

\* A step is one of a plan that has it.
LEMMA LeftHead == ASSUME NEW op \in Ops, NEW s \in Left[op] PROVE StepOf(op, Head(s))
<1>1. CASE op = "PostAccount" BY <1>1 DEF Left, StepOf, QueuePuts
<1>2. CASE op = "PutApplication" BY <1>2 DEF Left, StepOf, QueuePuts
<1>3. CASE op = "PutQueue" BY <1>3 DEF Left, StepOf, QueuePuts
<1>4. CASE op = "PutTask" BY <1>4 DEF Left, StepOf
<1>5. CASE op = "DeleteAccount" BY <1>5 DEF Left, StepOf
<1>6. CASE op = "DeleteApplication" BY <1>6 DEF Left, StepOf
<1>7. CASE op = "DeleteApplications" BY <1>7 DEF Left, StepOf
<1>8. CASE op = "DeleteQueue" BY <1>8 DEF Left, StepOf
<1>9. CASE op = "DeleteQueues" BY <1>9 DEF Left, StepOf
<1>10. CASE op = "DeleteTask" BY <1>10 DEF Left, StepOf
<1>11. CASE op = "DeleteTasks" BY <1>11 DEF Left, StepOf
<1> QED BY <1>1, <1>2, <1>3, <1>4, <1>5, <1>6, <1>7, <1>8, <1>9, <1>10, <1>11 DEF Ops

\* A call under way names what its route names.
LEMMA CallShape ==
  ASSUME NEW c \in Client, UnderWay(c), ~Idle(c)
  PROVE  /\ Op(c) \in Ops /\ StepOf(Op(c), Head(proc[c].todo))
         /\ Call(c).scheduled \in BOOLEAN
         /\ Op(c) \notin {"DeleteAccount", "DeleteApplications"} => Call(c).app \in App
         /\ Op(c) \in {"DeleteAccount", "DeleteApplications"} => Call(c).app = None
         /\ Op(c) \in {"PostAccount", "PutApplication", "PutQueue", "PutTask", "DeleteQueue"} =>
              Call(c).queue \in QName
         /\ Op(c) \in {"DeleteAccount", "DeleteApplication", "DeleteApplications",
                       "DeleteQueues", "DeleteTask", "DeleteTasks"} => Call(c).queue = None
         /\ Op(c) \in {"PutTask", "DeleteTask"} => Call(c).task \in TName
         /\ Op(c) \notin {"PutTask", "DeleteTask"} => Call(c).task = None
<1>1. Call(c) \in Calls /\ proc[c].todo \in Left[Op(c)] BY DEF UnderWay
<1>2. Op(c) \in Ops BY <1>1 DEF Calls, Op
<1>3. StepOf(Op(c), Head(proc[c].todo)) BY <1>1, <1>2, LeftHead
<1>4. /\ Call(c).scheduled \in BOOLEAN
      /\ Op(c) \notin {"DeleteAccount", "DeleteApplications"} => Call(c).app \in App
      /\ Op(c) \in {"DeleteAccount", "DeleteApplications"} => Call(c).app = None
  BY <1>1 DEF Calls, Op
<1>5. /\ Op(c) \in {"PostAccount", "PutApplication", "PutQueue", "PutTask", "DeleteQueue"} =>
           Call(c).queue \in QName
      /\ Op(c) \in {"DeleteAccount", "DeleteApplication", "DeleteApplications",
                    "DeleteQueues", "DeleteTask", "DeleteTasks"} => Call(c).queue = None
  BY <1>1, <1>2 DEF Calls, Op
<1>6. /\ Op(c) \in {"PutTask", "DeleteTask"} => Call(c).task \in TName
      /\ Op(c) \notin {"PutTask", "DeleteTask"} => Call(c).task = None
  BY <1>1, <1>2 DEF Calls, Op
<1> QED BY <1>2, <1>3, <1>4, <1>5, <1>6

\* There are more ids than queues and tasks mention: a fresh one exists.
LEMMA FreshIdType ==
  ASSUME DOMAIN queues = QueueKeys, DOMAIN tasks = TaskKeys
  PROVE  FreshId \in Nat
<1> DEFINE QI == {queues[k].id : k \in QueueKeys}
           TI == {tasks[k].qid : k \in TaskKeys}
           N == Cardinality(QueueKeys) + Cardinality(TaskKeys) + 1
<1>1. IsFiniteSet(QueueKeys) /\ IsFiniteSet(TaskKeys)
  BY ResourcesAssumption, FS_Product DEF QueueKeys, TaskKeys
<1>2. IsFiniteSet(QI) /\ Cardinality(QI) <= Cardinality(QueueKeys)
  <2> DEFINE f == [k \in QueueKeys |-> queues[k].id]
  <2>1. f \in Surjection(QueueKeys, QI) BY DEF Surjection
  <2> QED BY <1>1, <2>1, FS_Surjection
<1>3. IsFiniteSet(TI) /\ Cardinality(TI) <= Cardinality(TaskKeys)
  <2> DEFINE f == [k \in TaskKeys |-> tasks[k].qid]
  <2>1. f \in Surjection(TaskKeys, TI) BY DEF Surjection
  <2> QED BY <1>1, <2>1, FS_Surjection
<1>4. IsFiniteSet(QI \cap TI) BY <1>2, FS_Subset
<1>5. /\ IsFiniteSet(QI \cup TI)
      /\ Cardinality(QI \cup TI) = Cardinality(QI) + Cardinality(TI) - Cardinality(QI \cap TI)
  BY <1>2, <1>3, FS_Union
<1>6. /\ Cardinality(QueueKeys) \in Nat /\ Cardinality(TaskKeys) \in Nat
      /\ Cardinality(QI) \in Nat /\ Cardinality(TI) \in Nat /\ Cardinality(QI \cap TI) \in Nat
  BY <1>1, <1>2, <1>3, <1>4, FS_CardinalityType
<1>7. Cardinality(QI \cup TI) < N /\ N \in Nat BY <1>2, <1>3, <1>5, <1>6
<1>8. Mentioned = QI \cup TI BY DEF Mentioned
<1>9. \E i \in 1..N : i \notin Mentioned
  <2> SUFFICES ASSUME \A i \in 1..N : i \in Mentioned PROVE FALSE OBVIOUS
  <2>1. 1..N \in SUBSET (QI \cup TI) BY <1>8
  <2>2. Cardinality(1..N) <= Cardinality(QI \cup TI) BY <1>5, <2>1, FS_Subset
  <2>3. Cardinality(1..N) = N
    <3>1. N \in Int /\ 1 \in Int /\ ~(1 > N) BY <1>6
    <3>2. Cardinality(1..N) = N - 1 + 1 BY <3>1, FS_Interval
    <3> HIDE DEF N
    <3> QED BY <3>1, <3>2
  <2>4. Cardinality(QI \cup TI) \in Nat BY <1>5, FS_CardinalityType
  <2> QED BY <1>7, <2>2, <2>3, <2>4
<1> QED BY <1>7, <1>9 DEF FreshId

\* The last step of a call.
LastOf(op, step) ==
  /\ op \in {"PostAccount", "PutApplication", "PutQueue"} => step \in {"insertQueue", "updateQueue"}
  /\ op = "PutTask" => step = "insertAttempt"
  /\ op = "DeleteAccount" => step = "account"
  /\ op \in {"DeleteApplication", "DeleteApplications"} => step = "apps"
  /\ op \in {"DeleteQueue", "DeleteQueues"} => step = "queues"
  /\ op \in {"DeleteTask", "DeleteTasks"} => step = "tasks"

\* A call ends with the last step of its plan.
LEMMA LeftLast ==
  ASSUME NEW op \in Ops, NEW s \in Left[op], Len(s) = 1
  PROVE  LastOf(op, Head(s))
<1>1. CASE op = "PostAccount" BY <1>1 DEF Left, LastOf, QueuePuts
<1>2. CASE op = "PutApplication" BY <1>2 DEF Left, LastOf, QueuePuts
<1>3. CASE op = "PutQueue" BY <1>3 DEF Left, LastOf, QueuePuts
<1>4. CASE op = "PutTask" BY <1>4 DEF Left, LastOf
<1>5. CASE op = "DeleteAccount" BY <1>5 DEF Left, LastOf
<1>6. CASE op = "DeleteApplication" BY <1>6 DEF Left, LastOf
<1>7. CASE op = "DeleteApplications" BY <1>7 DEF Left, LastOf
<1>8. CASE op = "DeleteQueue" BY <1>8 DEF Left, LastOf
<1>9. CASE op = "DeleteQueues" BY <1>9 DEF Left, LastOf
<1>10. CASE op = "DeleteTask" BY <1>10 DEF Left, LastOf
<1>11. CASE op = "DeleteTasks" BY <1>11 DEF Left, LastOf
<1> QED BY <1>1, <1>2, <1>3, <1>4, <1>5, <1>6, <1>7, <1>8, <1>9, <1>10, <1>11 DEF Ops
-----------------------------------------------------------------------------
(* Types *)

DataInv ==
  /\ account \in States \cup {"gone"}
  /\ apps \in [App -> States]
  /\ queues \in [QueueKeys -> [state : States, id : Nat]]
  /\ tasks \in [TaskKeys -> TaskDocs]
  /\ QueuesNamed
  /\ attempts \subseteq AttemptDocs

OrderInv ==
  /\ older \in SUBSET (TaskKeys \X TaskKeys)
  /\ \A j, k \in TaskKeys :
       IF StoredTask(j) /\ StoredTask(k) /\ j # k
       THEN <<j, k>> \in older <=> <<k, j>> \notin older
       ELSE <<j, k>> \notin older

ProcInv == proc \in [Client -> Procs] /\ \A c \in Client : UnderWay(c)

CountInv == cleaner \in Seq(Steps) /\ calls \in Nat /\ fails \in Nat /\ closing \in BOOLEAN

SyncType == sync \in [Client -> Locals] /\ \A c \in Client : AgendaOps(c)

\* TypeInv, part by part.
LEMMA TypeParts == TypeInv <=> DataInv /\ OrderInv /\ ProcInv /\ CountInv /\ SyncType
BY DEF TypeInv, TypeOK, ResTypeOK, DataInv, OrderInv, ProcInv, CountInv, SyncType, Procs

\* A call that moves within its plan is under way as before.
LEMMA MoveUnderWay ==
  ASSUME ProcInv, NEW c \in Client, ~Idle(c), closing => closing',
         NEW p \in Procs, proc' = [proc EXCEPT ![c] = p],
         p.call \in Calls, p.call.op = Op(c), ~Forbidden(p.call),
         p.todo \in Left[Op(c)], p.ok = TRUE
  PROVE  ProcInv'
<1>1. proc' \in [Client -> Procs] BY DEF ProcInv
<1>2. proc'[c] = p /\ \A d \in Client \ {c} : proc'[d] = proc[d] BY DEF ProcInv
<1>3. UnderWay(c) BY DEF ProcInv
<1>4. UnderWay(c)' BY <1>2, <1>3 DEF UnderWay, Call, Op
<1>5. ASSUME NEW d \in Client \ {c} PROVE UnderWay(d)'
  <2>1. UnderWay(d) BY DEF ProcInv
  <2> QED BY <1>2, <2>1 DEF UnderWay, Idle, Call, Op
<1> QED BY <1>1, <1>4, <1>5 DEF ProcInv

\* A call that goes on, ends, is issued or is refused: nothing else happens to it.
LEMMA ProcMoves ==
  ASSUME ProcInv, NEW c \in Client, ~Idle(c), closing => closing',
         GoesOn(c) \/ Fails(c) \/ proc' = [proc EXCEPT ![c] = Rest(TRUE)]
  PROVE  ProcInv'
<1>1. CASE GoesOn(c) BY <1>1, OnwardUnderWay DEF ProcInv
<1>2. CASE Fails(c) BY <1>2, RestUnderWay DEF ProcInv, Fails
<1>3. CASE proc' = [proc EXCEPT ![c] = Rest(TRUE)] BY <1>3, RestUnderWay DEF ProcInv
<1> QED BY <1>1, <1>2, <1>3

\* Every step of a call keeps the calls under way.
LEMMA CallKeepsProc ==
  ASSUME DataInv, ProcInv, NEW c \in Client, CallStep(c) \/ Fail(c)
  PROVE  ProcInv'
<1>1. ~Idle(c) /\ (closing => closing') /\ UnderWay(c) /\ proc[c] \in Procs
  <2>1. UnderWay(c) /\ proc[c] \in Procs BY DEF ProcInv
  <2>2. ~Idle(c)
    BY DEF CallStep, Fail, Doing, InsertAccount, InsertApp, FindApp, InsertQueue, UpdateQueue,
           FindQueue, InsertTask, UpdateTask, Purge, InsertAttempt, FlagAttempts, FlagTasks,
           FlagQueues, FlagApps, FlagAccount
  <2>3. UNCHANGED closing
    BY DEF CallStep, Fail, InsertAccount, InsertApp, FindApp, InsertQueue, UpdateQueue,
           FindQueue, InsertTask, UpdateTask, Purge, InsertAttempt, FlagAttempts, FlagTasks,
           FlagQueues, FlagApps, FlagAccount
  <2> QED BY <2>1, <2>2, <2>3
<1> DEFINE Moves == GoesOn(c) \/ Fails(c) \/ proc' = [proc EXCEPT ![c] = Rest(TRUE)]
<1>2. Moves => ProcInv' BY <1>1, ProcMoves
<1>3. /\ proc[c].call \in Calls /\ ~Forbidden(proc[c].call) /\ proc[c].call.op = Op(c)
      /\ proc[c].todo \in Left[Op(c)] /\ proc[c].todo \in Seq(Steps) /\ proc[c].ok = TRUE
  BY <1>1 DEF UnderWay, Procs, Call, Op
<1>4. Op(c) \in Ops /\ StepOf(Op(c), Head(proc[c].todo)) BY <1>1, CallShape
<1>5. Head(proc[c].todo) \in {"findQueue", "updateTask"} =>
         Op(c) = "PutTask" /\ Tail(proc[c].todo) \in Left[Op(c)] /\ Tail(proc[c].todo) \in Seq(Steps)
  <2> SUFFICES ASSUME Head(proc[c].todo) \in {"findQueue", "updateTask"}
               PROVE  /\ Op(c) = "PutTask" /\ Tail(proc[c].todo) \in Left[Op(c)]
                      /\ Tail(proc[c].todo) \in Seq(Steps)
    OBVIOUS
  <2>1. Op(c) = "PutTask" BY <1>4 DEF StepOf
  <2>2. Len(proc[c].todo) # 1 BY <1>3, <1>4, <2>1, LeftLast DEF LastOf
  <2>3. Tail(proc[c].todo) \in Left[Op(c)] BY <1>3, <1>4, <2>2, LeftNext
  <2> QED BY <1>4, <2>1, <2>3, LeftNext
<1>6. CASE InsertQueue(c)
  <2>1. Moves \/ proc' = [proc EXCEPT ![c].todo = <<"updateQueue">>]
    BY <1>6 DEF InsertQueue, GoesTo
  <2>2. ASSUME proc' = [proc EXCEPT ![c].todo = <<"updateQueue">>] PROVE ProcInv'
    <3> DEFINE p == [proc[c] EXCEPT !.todo = <<"updateQueue">>]
    <3>1. proc' = [proc EXCEPT ![c] = p] BY <2>2
    <3>2. Op(c) \in {"PostAccount", "PutApplication", "PutQueue"}
      BY <1>4, <1>6 DEF InsertQueue, Doing, StepOf
    <3>3. <<"updateQueue">> \in Left[Op(c)] BY <3>2 DEF Left, QueuePuts
    <3>4. <<"updateQueue">> \in Seq(Steps) BY <1>4, <3>3, LeftNext
    <3>5. /\ p \in Procs /\ p.todo = <<"updateQueue">>
          /\ p.call = proc[c].call /\ p.ok = proc[c].ok
      BY <1>1, <3>4 DEF Procs
    <3> QED BY <1>1, <1>3, <3>1, <3>3, <3>5, MoveUnderWay
  <2> QED BY <1>2, <2>1, <2>2
<1>7. CASE InsertTask(c)
  <2>1. Moves \/ proc' = [proc EXCEPT ![c].todo = <<"updateTask", "purge", "insertAttempt">>]
    BY <1>7 DEF InsertTask, GoesTo
  <2>2. ASSUME proc' = [proc EXCEPT ![c].todo = <<"updateTask", "purge", "insertAttempt">>]
        PROVE  ProcInv'
    <3> DEFINE s == <<"updateTask", "purge", "insertAttempt">>
               p == [proc[c] EXCEPT !.todo = s]
    <3>1. proc' = [proc EXCEPT ![c] = p] BY <2>2
    <3>2. Op(c) = "PutTask" BY <1>4, <1>7 DEF InsertTask, Doing, StepOf
    <3>3. s \in Left[Op(c)] BY <3>2 DEF Left
    <3>4. s \in Seq(Steps) BY <1>4, <3>3, LeftNext
    <3>5. p \in Procs /\ p.todo = s /\ p.call = proc[c].call /\ p.ok = proc[c].ok
      BY <1>1, <3>4 DEF Procs
    <3> QED BY <1>1, <1>3, <3>1, <3>3, <3>5, MoveUnderWay
  <2> QED BY <1>2, <2>1, <2>2
<1>8. CASE FindQueue(c)
  <2>1. Head(proc[c].todo) = "findQueue" BY <1>8 DEF FindQueue, Doing
  <2>2. /\ Call(c).app \in App /\ Call(c).queue \in QName BY <1>1, <1>5, <2>1, CallShape
  <2> DEFINE i == queues[QueueOf(c)].id
  <2>3. i \in Nat BY <2>2 DEF DataInv, QueueOf, QueueKeys
  <2>4. ASSUME proc' = [proc EXCEPT ![c].qid = i, ![c].todo = Tail(@)] PROVE ProcInv'
    <3> HIDE DEF i
    <3> DEFINE p == [proc[c] EXCEPT !.qid = i, !.todo = Tail(@)]
    <3>1. proc' = [proc EXCEPT ![c] = p] BY <2>4
    <3>2. /\ p \in Procs /\ p.todo = Tail(proc[c].todo)
          /\ p.call = proc[c].call /\ p.ok = proc[c].ok
      BY <1>1, <1>5, <2>1, <2>3 DEF Procs
    <3> QED BY <1>1, <1>3, <1>5, <2>1, <3>1, <3>2, MoveUnderWay
  <2> QED BY <1>2, <1>8, <2>4 DEF FindQueue
<1>9. CASE UpdateTask(c)
  <2>1. Head(proc[c].todo) = "updateTask" BY <1>9 DEF UpdateTask, Doing
  <2>2. /\ Call(c).app \in App /\ Call(c).task \in TName BY <1>1, <1>5, <2>1, CallShape
  <2> DEFINE n == tasks[TaskOf(c)].queue
  <2>3. TaskOf(c) \in TaskKeys BY <2>2 DEF TaskOf, TaskKeys
  <2>4. ASSUME tasks[TaskOf(c)].state # "none",
               proc' = [proc EXCEPT ![c].call.queue = n, ![c].todo = Tail(@)]
        PROVE  ProcInv'
    <3>1. n \in QName BY <2>3, <2>4 DEF DataInv, QueuesNamed, StoredTask
    <3> HIDE DEF n
    <3> DEFINE r == [proc[c].call EXCEPT !.queue = n]
               p == [proc[c] EXCEPT !.call = r, !.todo = Tail(@)]
    <3>2. proc' = [proc EXCEPT ![c] = p] BY <1>1, <2>4 DEF Procs
    <3>3. r \in Calls /\ r.op = "PutTask"
      BY <1>3, <1>5, <2>1, <3>1, ResourcesAssumption DEF Calls
    <3>4. ~Forbidden(r) BY <3>3 DEF Forbidden
    <3>5. p \in Procs /\ p.todo = Tail(proc[c].todo) /\ p.call = r /\ p.ok = proc[c].ok
      BY <1>1, <1>5, <2>1, <3>3 DEF Procs
    <3> HIDE DEF p, r
    <3>6. p.call.op = Op(c) BY <1>5, <2>1, <3>3, <3>5
    <3>7. p.todo \in Left[Op(c)] /\ p.ok = TRUE BY <1>3, <1>5, <2>1, <3>5
    <3> QED BY <1>1, <3>2, <3>3, <3>4, <3>5, <3>6, <3>7, MoveUnderWay
  <2> QED BY <1>2, <1>9, <2>4 DEF UpdateTask
<1>10. CASE Fail(c) BY <1>2, <1>10 DEF Fail
<1> QED
  BY <1>2, <1>6, <1>7, <1>8, <1>9, <1>10
  DEF CallStep, InsertAccount, InsertApp, FindApp, UpdateQueue, Purge, InsertAttempt,
      FlagAttempts, FlagTasks, FlagQueues, FlagApps, FlagAccount

\* The calls of a synchronisation are calls.
LEMMA SyncCallTypes ==
  /\ PutApp \in Calls /\ \A t \in TName : PutTask(t) \in Calls /\ DeleteTask(t) \in Calls
  /\ Puts \in Seq(Calls)
  /\ \A i \in DOMAIN Puts : Puts[i].op = "PutTask"
<1>1. PutApp \in Calls
  BY ResourcesAssumption, CrontabAssumption DEF PutApp, Calls, Ops
<1>2. ASSUME NEW t \in TName PROVE PutTask(t) \in Calls
  BY ResourcesAssumption, CrontabAssumption DEF PutTask, Calls, Ops
<1>3. ASSUME NEW t \in TName PROVE DeleteTask(t) \in Calls
  BY ResourcesAssumption, CrontabAssumption DEF DeleteTask, Calls, Ops
<1>4. File \in Seq(TName) BY CrontabAssumption
<1>5. DOMAIN File = 1..Len(File) /\ Len(File) \in Nat /\ \A i \in DOMAIN File : File[i] \in TName
  BY <1>4
<1>6. Puts \in [1..Len(File) -> Calls] BY <1>2, <1>5 DEF Puts
<1>7. Puts \in Seq(Calls) BY <1>5, <1>6
<1>8. \A i \in DOMAIN Puts : Puts[i].op = "PutTask" BY DEF Puts, PutTask
<1> QED BY <1>1, <1>2, <1>3, <1>7, <1>8

\* The next call of a synchronisation is a call.
LEMMA AgendaHead ==
  ASSUME NEW c \in Client, sync[c].agenda \in Seq(Calls), AgendaOps(c), sync[c].agenda # <<>>
  PROVE  /\ Head(sync[c].agenda) \in Calls
         /\ Head(sync[c].agenda).op \in {"PutApplication", "PutTask", "DeleteTask"}
         /\ Tail(sync[c].agenda) \in Seq(Calls)
         /\ \A i \in DOMAIN Tail(sync[c].agenda) :
              /\ Tail(sync[c].agenda)[i] = sync[c].agenda[i + 1]
              /\ i + 1 \in DOMAIN sync[c].agenda
<1> DEFINE s == sync[c].agenda
<1>1. s \in Seq(Calls) /\ s # <<>> OBVIOUS
<1>2. 1 \in DOMAIN s /\ Head(s) = s[1] BY <1>1
<1>3. s[1].op \in {"PutApplication", "PutTask", "DeleteTask"} BY <1>2 DEF AgendaOps
<1> HIDE DEF s
<1>4. Head(s) \in Calls /\ Tail(s) \in Seq(Calls) BY <1>1
<1>5. \A i \in DOMAIN Tail(s) : Tail(s)[i] = s[i + 1] /\ i + 1 \in DOMAIN s BY <1>1
<1> QED BY <1>2, <1>3, <1>4, <1>5 DEF s

\* A page, and what a synchronisation deletes of it, is a sequence of tasks.
LEMMA ListOrderType ==
  ASSUME NEW S \in SUBSET TName, NEW s \in InListOrder(S)
  PROVE  /\ s \in Seq(S) /\ DOMAIN s = 1..Cardinality(S) /\ Cardinality(S) \in Nat
         /\ \A i \in DOMAIN s : s[i] \in S
         /\ [i \in DOMAIN s |-> DeleteTask(s[i])] \in Seq(Calls)
<1>1. s \in [1..Cardinality(S) -> S] BY DEF InListOrder
<1>2. IsFiniteSet(S) BY ResourcesAssumption, FS_Subset
<1>3. Cardinality(S) \in Nat BY <1>2, FS_CardinalityType
<1> DEFINE d == [i \in DOMAIN s |-> DeleteTask(s[i])]
<1>4. d \in [1..Cardinality(S) -> Calls] BY <1>1, SyncCallTypes
<1>5. d \in Seq(Calls) BY <1>3, <1>4
<1> QED BY <1>1, <1>3, <1>5

\* Every step of the specification keeps the calls under way.
LEMMA ProcNext ==
  ASSUME DataInv, ProcInv, SyncType, [Next]_vars
  PROVE  ProcInv'
<1>1. ASSUME UNCHANGED proc, closing => closing' PROVE ProcInv'
  BY <1>1 DEF ProcInv, UnderWay, Idle, Call, Op
<1>2. ASSUME NEW c \in Client, NEW r \in Request, Ask(c, r) PROVE ProcInv'
  <2>1. /\ Issue(c, r) /\ closing' = (closing \/ r.op = "DeleteAccount")
    BY <1>2 DEF Ask, Begin
  <2>2. r \in Calls BY ResourcesAssumption
  <2>3. closing => closing' BY <2>1
  <2>4. r.op = "DeleteAccount" => closing' BY <2>1
  <2> QED BY <2>1, <2>2, <2>3, <2>4, IssueUnderWay DEF ProcInv
<1>3. ASSUME NEW c \in Client, SyncStarts(c) PROVE ProcInv'
  <2>1. /\ proc' = [proc EXCEPT ![c].ok = TRUE] /\ UNCHANGED closing /\ proc[c].todo = <<>>
    BY <1>3 DEF SyncStarts, Idle
  <2>2. proc' \in [Client -> Procs] BY <2>1 DEF ProcInv, Procs
  <2>3. proc'[c].todo = <<>> /\ \A d \in Client \ {c} : proc'[d] = proc[d]
    BY <2>1 DEF ProcInv, Procs
  <2>4. UnderWay(c)' BY <2>3 DEF UnderWay, Idle
  <2>5. ASSUME NEW d \in Client \ {c} PROVE UnderWay(d)'
    <3>1. UnderWay(d) BY DEF ProcInv
    <3> QED BY <2>1, <2>3, <3>1 DEF UnderWay, Idle, Call, Op
  <2> QED BY <2>2, <2>4, <2>5 DEF ProcInv
<1>4. ASSUME NEW c \in Client, SyncCalls(c) PROVE ProcInv'
  <2>1. Issue(c, Head(sync[c].agenda)) /\ UNCHANGED closing /\ sync[c].agenda # <<>>
    BY <1>4 DEF SyncCalls
  <2>2. sync[c].agenda \in Seq(Calls) /\ AgendaOps(c) BY DEF SyncType, Locals
  <2>3. /\ Head(sync[c].agenda) \in Calls
        /\ Head(sync[c].agenda).op # "DeleteAccount"
    BY <2>1, <2>2, AgendaHead
  <2> QED BY <2>1, <2>3, IssueUnderWay DEF ProcInv
<1>5. ASSUME NEW c \in Client, SyncAborts(c) \/ SyncLists(c) \/ SyncListFails(c) \/ SyncEnds(c)
      PROVE  ProcInv'
  BY <1>1, <1>5 DEF SyncAborts, SyncLists, SyncListFails, SyncEnds, resVars
<1>6. ASSUME NEW c \in Client, CallStep(c) \/ Fail(c) PROVE ProcInv' BY <1>6, CallKeepsProc
<1>7. CASE CleanerStep \/ CleanerFails
  BY <1>1, <1>7 DEF CleanerStep, CleanerFails, CleanerStarts, CleanAttempts, CleanTasks,
                    CleanQueues, CleanApps, CleanAccount
<1>8. CASE UNCHANGED vars BY <1>1, <1>8 DEF vars, resVars
<1> QED BY <1>2, <1>3, <1>4, <1>5, <1>6, <1>7, <1>8 DEF Next, ResStep

\* Every step keeps the documents of their types.
LEMMA DataNext ==
  ASSUME DataInv, ProcInv, [Next]_vars
  PROVE  DataInv'
<1>1. ASSUME UNCHANGED <<account, apps, queues, tasks, attempts>> PROVE DataInv'
  BY <1>1 DEF DataInv, QueuesNamed, StoredTask
<1>2. ASSUME UNCHANGED <<tasks, attempts>>,
             account' \in States \cup {"gone"}, apps' \in [App -> States],
             queues' \in [QueueKeys -> [state : States, id : Nat]]
      PROVE  DataInv'
  BY <1>2 DEF DataInv, QueuesNamed, StoredTask
<1>3. ASSUME UNCHANGED <<account, apps, queues, tasks>>, attempts' \subseteq AttemptDocs
      PROVE  DataInv'
  BY <1>3 DEF DataInv, QueuesNamed, StoredTask
<1>4. ASSUME UNCHANGED <<account, apps, queues, attempts>>, tasks' \in [TaskKeys -> TaskDocs],
             \A k \in TaskKeys : tasks'[k].state # "none" => tasks'[k].queue \in QName
      PROVE  DataInv'
  BY <1>4 DEF DataInv, QueuesNamed, StoredTask
<1>5. \A s \in States : FlagState(s) \in States BY DEF FlagState, States
<1>6. ASSUME NEW c \in Client, CallStep(c) PROVE DataInv'
  <2>1. UnderWay(c) BY DEF ProcInv
  <2> DEFINE h == Head(proc[c].todo)
  <2>2. ~Idle(c) => Op(c) \in Ops /\ StepOf(Op(c), h) BY <2>1, CallShape
  <2>3. CASE InsertAccount(c) BY <1>2, <2>3 DEF InsertAccount, DataInv, States
  <2>4. CASE InsertApp(c) BY <1>2, <2>4 DEF InsertApp, DataInv, States
  <2>5. CASE InsertQueue(c)
    <3>1. FreshId \in Nat BY FreshIdType DEF DataInv
    <3>2. queues' \in [QueueKeys -> [state : States, id : Nat]]
      BY <2>5, <3>1 DEF InsertQueue, DataInv, States
    <3> QED BY <1>2, <2>5, <3>2 DEF InsertQueue, DataInv
  <2>6. CASE InsertTask(c)
    <3>1. h = "insertTask" /\ ~Idle(c) BY <2>6 DEF InsertTask, Doing
    <3>2. Op(c) = "PutTask" BY <2>2, <3>1 DEF StepOf
    <3>3. /\ Call(c).app \in App /\ Call(c).task \in TName /\ Call(c).queue \in QName
          /\ Call(c).scheduled \in BOOLEAN
      BY <2>1, <3>1, <3>2, CallShape
    <3>4. proc[c].qid \in Nat BY DEF ProcInv, Procs
    <3> DEFINE t == [state |-> "live", queue |-> Call(c).queue, qid |-> proc[c].qid,
                     scheduled |-> Call(c).scheduled, revived |-> FALSE]
    <3>5. t \in TaskDocs BY <3>3, <3>4 DEF TaskDocs, States
    <3>6. tasks' = [tasks EXCEPT ![TaskOf(c)] = t] \/ tasks' = tasks BY <2>6 DEF InsertTask
    <3>7. t.queue \in QName BY <3>3
    <3> HIDE DEF t
    <3>8. tasks' \in [TaskKeys -> TaskDocs] BY <3>5, <3>6 DEF DataInv
    <3>9. \A k \in TaskKeys : tasks'[k].state # "none" => tasks'[k].queue \in QName
      BY <3>6, <3>7 DEF DataInv, QueuesNamed, StoredTask
    <3> QED BY <1>4, <2>6, <3>8, <3>9 DEF InsertTask
  <2>7. CASE UpdateTask(c)
    <3>1. h = "updateTask" /\ ~Idle(c) BY <2>7 DEF UpdateTask, Doing
    <3>2. Op(c) = "PutTask" BY <2>2, <3>1 DEF StepOf
    <3>3. /\ Call(c).app \in App /\ Call(c).task \in TName /\ Call(c).scheduled \in BOOLEAN
      BY <2>1, <3>1, <3>2, CallShape
    <3>4. TaskOf(c) \in TaskKeys BY <3>3 DEF TaskOf, TaskKeys
    <3> DEFINE u == tasks[TaskOf(c)]
               t == [u EXCEPT !.state = "live", !.scheduled = Call(c).scheduled,
                              !.revived = @ \/ u.state = "flagged"]
    <3>5. u \in TaskDocs /\ (u.state # "none" => u.queue \in QName)
      BY <3>4 DEF DataInv, QueuesNamed, StoredTask
    <3>6. t \in TaskDocs /\ t.queue = u.queue BY <3>3, <3>5 DEF TaskDocs, States
    <3>7. (u.state # "none" /\ tasks' = [tasks EXCEPT ![TaskOf(c)] = t]) \/ tasks' = tasks
      BY <2>7 DEF UpdateTask
    <3> HIDE DEF t, u
    <3>8. tasks' \in [TaskKeys -> TaskDocs] BY <3>6, <3>7 DEF DataInv
    <3>9. \A k \in TaskKeys : tasks'[k].state # "none" => tasks'[k].queue \in QName
      BY <3>5, <3>6, <3>7 DEF DataInv, QueuesNamed, StoredTask
    <3> QED BY <1>4, <2>7, <3>8, <3>9 DEF UpdateTask
  <2>8. ASSUME NEW S \in SUBSET attempts, FlagAll(S) PROVE attempts' \subseteq AttemptDocs
    <3>1. \A a \in AttemptDocs : Flagged(a) \in AttemptDocs BY DEF Flagged, AttemptDocs
    <3> QED BY <2>8, <3>1 DEF FlagAll, DataInv
  <2>9. CASE Purge(c) BY <1>3, <2>8, <2>9 DEF Purge
  <2>10. CASE InsertAttempt(c)
    <3>1. h = "insertAttempt" /\ ~Idle(c) BY <2>10 DEF InsertAttempt, Doing
    <3>2. Op(c) = "PutTask" BY <2>2, <3>1 DEF StepOf
    <3>3. Call(c).app \in App /\ Call(c).task \in TName /\ Call(c).queue \in QName
      BY <2>1, <3>1, <3>2, CallShape
    <3>4. [task |-> TaskOf(c), queue |-> Call(c).queue, flagged |-> FALSE] \in AttemptDocs
      BY <3>3 DEF AttemptDocs, TaskOf, TaskKeys
    <3> QED BY <1>3, <2>10, <3>4 DEF InsertAttempt, DataInv
  <2>11. CASE FlagAttempts(c)
    <3>1. PICK S \in SUBSET attempts : FlagAll(S) BY <2>11 DEF FlagAttempts
    <3> QED BY <1>3, <2>8, <2>11, <3>1 DEF FlagAttempts
  <2>12. CASE FlagTasks(c)
    <3>1. \A k \in TaskKeys : \/ tasks'[k] = tasks[k]
                              \/ tasks'[k] = [tasks[k] EXCEPT !.state = FlagState(@)]
      BY <2>12 DEF FlagTasks
    <3>2. ASSUME NEW k \in TaskKeys
          PROVE  /\ tasks'[k] \in TaskDocs
                 /\ tasks'[k].state # "none" => tasks'[k].queue \in QName
      <4>1. tasks[k] \in TaskDocs /\ (tasks[k].state # "none" => tasks[k].queue \in QName)
        BY DEF DataInv, QueuesNamed, StoredTask
      <4>2. FlagState(tasks[k].state) = "none" <=> tasks[k].state = "none"
        BY <4>1 DEF FlagState
      <4>3. FlagState(tasks[k].state) \in States BY <1>5, <4>1 DEF TaskDocs
      <4> QED BY <3>1, <4>1, <4>2, <4>3 DEF TaskDocs
    <3>3. tasks' \in [TaskKeys -> TaskDocs] BY <2>12, <3>2 DEF FlagTasks
    <3> QED BY <1>4, <2>12, <3>2, <3>3 DEF FlagTasks
  <2>13. CASE FlagQueues(c)
    <3>1. queues' \in [QueueKeys -> [state : States, id : Nat]]
      BY <1>5, <2>13 DEF FlagQueues, DataInv
    <3> QED BY <1>2, <2>13, <3>1 DEF FlagQueues, DataInv
  <2>14. CASE FlagApps(c) BY <1>2, <1>5, <2>14 DEF FlagApps, DataInv
  <2>15. CASE FlagAccount(c) BY <1>2, <2>15 DEF FlagAccount, DataInv, States
  <2> QED
    BY <1>1, <1>6, <2>3, <2>4, <2>5, <2>6, <2>7, <2>9, <2>10, <2>11, <2>12, <2>13, <2>14, <2>15
    DEF CallStep, FindApp, UpdateQueue, FindQueue
<1>7. CASE CleanAttempts BY <1>3, <1>7 DEF CleanAttempts, DataInv
<1>8. CASE CleanTasks
  <2>1. NoTask \in TaskDocs /\ NoTask.state = "none" BY DEF NoTask, TaskDocs, States
  <2>2. tasks' \in [TaskKeys -> TaskDocs] BY <1>8, <2>1 DEF CleanTasks, DataInv
  <2>3. \A k \in TaskKeys : tasks'[k] = NoTask \/ tasks'[k] = tasks[k] BY <1>8 DEF CleanTasks
  <2> QED BY <1>4, <1>8, <2>1, <2>2, <2>3 DEF CleanTasks, DataInv, QueuesNamed, StoredTask
<1>9. CASE CleanQueues
  <2>1. NoQueue \in [state : States, id : Nat] BY DEF NoQueue, States
  <2>2. queues' \in [QueueKeys -> [state : States, id : Nat]]
    BY <1>9, <2>1 DEF CleanQueues, DataInv
  <2> QED BY <1>2, <1>9, <2>2 DEF CleanQueues, DataInv
<1>10. CASE CleanApps BY <1>2, <1>10 DEF CleanApps, DataInv, States
<1>11. CASE CleanAccount BY <1>2, <1>11 DEF CleanAccount, DataInv
<1>12. CASE CleanerStarts \/ CleanerFails BY <1>1, <1>12 DEF CleanerStarts, CleanerFails
<1>13. CASE \E c \in Client : Fail(c) BY <1>1, <1>13 DEF Fail
<1>14. CASE \E c \in Client, r \in Request : Ask(c, r) BY <1>1, <1>14 DEF Ask, Begin
<1>15. CASE \E c \in Client :
              \/ SyncStarts(c) \/ SyncCalls(c) \/ SyncAborts(c)
              \/ SyncLists(c) \/ SyncListFails(c) \/ SyncEnds(c)
  BY <1>1, <1>15 DEF SyncStarts, SyncCalls, SyncAborts, SyncLists, SyncListFails, SyncEnds,
         resVars
<1>16. CASE UNCHANGED vars BY <1>1, <1>16 DEF vars, resVars
<1> QED
  BY <1>6, <1>7, <1>8, <1>9, <1>10, <1>11, <1>12, <1>13, <1>14, <1>15, <1>16
  DEF Next, ResStep, CleanerStep

\* Every step keeps the tasks in the order of their ids: an insert comes last.
LEMMA OrderNext ==
  ASSUME DataInv, OrderInv, ProcInv, [Next]_vars
  PROVE  OrderInv'
<1>1. ASSUME UNCHANGED older, \A k \in TaskKeys : StoredTask(k)' <=> StoredTask(k)
      PROVE  OrderInv'
  BY <1>1 DEF OrderInv
<1>2. ASSUME UNCHANGED <<older, tasks>> PROVE OrderInv' BY <1>1, <1>2 DEF StoredTask
<1>3. ASSUME NEW c \in Client, InsertTask(c) PROVE OrderInv'
  <2> DEFINE k == TaskOf(c)
  <2>1. CASE ~StoredTask(k)
    <3>1. Head(proc[c].todo) = "insertTask" /\ ~Idle(c) /\ UnderWay(c)
      BY <1>3 DEF InsertTask, Doing, ProcInv
    <3>2. Call(c).app \in App /\ Call(c).task \in TName BY <3>1, CallShape DEF StepOf
    <3>3. k \in TaskKeys BY <3>2 DEF TaskOf, TaskKeys
    <3>4. /\ older' = older \cup ({j \in TaskKeys : StoredTask(j)} \X {k})
          /\ tasks' = [tasks EXCEPT ![k] =
               [state |-> "live", queue |-> Call(c).queue, qid |-> proc[c].qid,
                scheduled |-> Call(c).scheduled, revived |-> FALSE]]
      BY <1>3, <2>1 DEF InsertTask, StoredTask
    <3>5. \A j \in TaskKeys : StoredTask(j)' <=> StoredTask(j) \/ j = k
      BY <3>3, <3>4 DEF StoredTask, DataInv
    <3> HIDE DEF k
    <3>6. \A i, j \in TaskKeys :
            <<i, j>> \in older' <=> <<i, j>> \in older \/ (StoredTask(i) /\ j = k)
      BY <3>4
    <3>7. \A j \in TaskKeys : <<k, j>> \notin older /\ <<j, k>> \notin older
      BY <2>1, <3>3 DEF OrderInv, k
    <3>8. older' \in SUBSET (TaskKeys \X TaskKeys) BY <3>3, <3>4 DEF OrderInv
    <3>9. ~StoredTask(k) BY <2>1 DEF k
    <3>10. ASSUME NEW i \in TaskKeys, NEW j \in TaskKeys
           PROVE  IF StoredTask(i)' /\ StoredTask(j)' /\ i # j
                  THEN <<i, j>> \in older' <=> <<j, i>> \notin older'
                  ELSE <<i, j>> \notin older'
      <4>1. IF StoredTask(i) /\ StoredTask(j) /\ i # j
            THEN <<i, j>> \in older <=> <<j, i>> \notin older
            ELSE <<i, j>> \notin older
        BY DEF OrderInv
      <4>2. CASE i # k /\ j # k BY <3>5, <3>6, <4>1, <4>2
      <4>3. CASE i = k /\ j # k BY <3>3, <3>5, <3>6, <3>7, <3>9, <4>3
      <4>4. CASE i # k /\ j = k BY <3>3, <3>5, <3>6, <3>7, <3>9, <4>4
      <4>5. CASE i = k /\ j = k BY <3>3, <3>6, <3>7, <3>9, <4>5
      <4> QED BY <4>2, <4>3, <4>4, <4>5
    <3> QED BY <3>8, <3>10 DEF OrderInv
  <2>2. CASE StoredTask(k) BY <1>2, <1>3, <2>2 DEF InsertTask, StoredTask
  <2> QED BY <2>1, <2>2
<1>4. ASSUME NEW c \in Client, UpdateTask(c) PROVE OrderInv'
  <2> DEFINE k == TaskOf(c)
  <2>1. CASE StoredTask(k)
    <3>1. \A j \in TaskKeys \ {k} : tasks'[j] = tasks[j]
      BY <1>4, <2>1 DEF UpdateTask, StoredTask, DataInv
    <3>2. k \in TaskKeys => tasks'[k].state = "live"
      <4> SUFFICES ASSUME k \in TaskKeys PROVE tasks'[k].state = "live" OBVIOUS
      <4> DEFINE t == [tasks[k] EXCEPT !.state = "live", !.scheduled = Call(c).scheduled,
                                       !.revived = @ \/ tasks[k].state = "flagged"]
      <4>1. tasks' = [tasks EXCEPT ![k] = t] BY <1>4, <2>1 DEF UpdateTask, StoredTask
      <4>2. tasks[k] \in TaskDocs BY DEF DataInv
      <4>3. t.state = "live" BY <4>2 DEF TaskDocs
      <4> HIDE DEF t
      <4> QED BY <4>1, <4>3 DEF DataInv
    <3>3. \A j \in TaskKeys : StoredTask(j)' <=> StoredTask(j)
      BY <2>1, <3>1, <3>2 DEF StoredTask
    <3> QED BY <1>1, <1>4, <3>3 DEF UpdateTask
  <2>2. CASE ~StoredTask(k) BY <1>2, <1>4, <2>2 DEF UpdateTask, StoredTask
  <2> QED BY <2>1, <2>2
<1>5. ASSUME NEW c \in Client, FlagTasks(c) PROVE OrderInv'
  <2>1. \A k \in TaskKeys : tasks[k] \in TaskDocs BY DEF DataInv
  <2>2. \A k \in TaskKeys : tasks'[k].state \in {tasks[k].state, FlagState(tasks[k].state)}
    BY <1>5, <2>1 DEF FlagTasks, TaskDocs
  <2>3. \A k \in TaskKeys : StoredTask(k)' <=> StoredTask(k)
    BY <2>2 DEF StoredTask, FlagState
  <2> QED BY <1>1, <1>5, <2>3 DEF FlagTasks
<1>6. CASE CleanTasks
  <2>1. older' = {p \in older : tasks[p[1]].state # "flagged" /\ tasks[p[2]].state # "flagged"}
    BY <1>6 DEF CleanTasks
  <2>2. \A k \in TaskKeys : StoredTask(k)' <=> StoredTask(k) /\ tasks[k].state # "flagged"
    BY <1>6 DEF CleanTasks, StoredTask, NoTask
  <2>3. older' \in SUBSET (TaskKeys \X TaskKeys) BY <2>1 DEF OrderInv
  <2>4. \A i, j \in TaskKeys :
          <<i, j>> \in older' <=>
            <<i, j>> \in older /\ tasks[i].state # "flagged" /\ tasks[j].state # "flagged"
    BY <2>1
  <2>5. ASSUME NEW i \in TaskKeys, NEW j \in TaskKeys
        PROVE  IF StoredTask(i)' /\ StoredTask(j)' /\ i # j
               THEN <<i, j>> \in older' <=> <<j, i>> \notin older'
               ELSE <<i, j>> \notin older'
    <3>1. IF StoredTask(i) /\ StoredTask(j) /\ i # j
          THEN <<i, j>> \in older <=> <<j, i>> \notin older
          ELSE <<i, j>> \notin older
      BY DEF OrderInv
    <3> QED BY <2>2, <2>4, <3>1
  <2> QED BY <2>3, <2>5 DEF OrderInv
<1>7. ASSUME NEW c \in Client, CallStep(c) PROVE OrderInv'
  BY <1>2, <1>3, <1>4, <1>5, <1>7
  DEF CallStep, InsertAccount, InsertApp, FindApp, InsertQueue, UpdateQueue, FindQueue, Purge,
      InsertAttempt, FlagAttempts, FlagQueues, FlagApps, FlagAccount
<1>8. CASE CleanerStep \/ CleanerFails
  BY <1>2, <1>6, <1>8
  DEF CleanerStep, CleanerFails, CleanerStarts, CleanAttempts, CleanQueues, CleanApps, CleanAccount
<1>9. CASE \E c \in Client : Fail(c) BY <1>2, <1>9 DEF Fail
<1>10. CASE \E c \in Client, r \in Request : Ask(c, r) BY <1>2, <1>10 DEF Ask, Begin
<1>11. CASE \E c \in Client :
              \/ SyncStarts(c) \/ SyncCalls(c) \/ SyncAborts(c)
              \/ SyncLists(c) \/ SyncListFails(c) \/ SyncEnds(c)
  BY <1>2, <1>11 DEF SyncStarts, SyncCalls, SyncAborts, SyncLists, SyncListFails, SyncEnds,
         resVars
<1>12. CASE UNCHANGED vars BY <1>2, <1>12 DEF vars, resVars
<1> QED BY <1>7, <1>8, <1>9, <1>10, <1>11, <1>12 DEF Next, ResStep

\* Every step keeps the cleaner's list and the bounds of their types.
LEMMA CountNext ==
  ASSUME CountInv, [Next]_vars
  PROVE  CountInv'
<1>1. ASSUME UNCHANGED <<cleaner, calls, fails, closing>> PROVE CountInv' BY <1>1 DEF CountInv
<1>2. ASSUME NEW c \in Client, CallStep(c) PROVE CountInv'
  BY <1>1, <1>2
  DEF CallStep, InsertAccount, InsertApp, FindApp, InsertQueue, UpdateQueue, FindQueue,
      InsertTask, UpdateTask, Purge, InsertAttempt, FlagAttempts, FlagTasks, FlagQueues,
      FlagApps, FlagAccount
<1>3. CASE \E c \in Client : Fail(c) BY <1>3 DEF Fail, CountInv
<1>4. ASSUME NEW c \in Client, NEW r \in Request, Ask(c, r) PROVE CountInv'
  BY <1>4 DEF Ask, Begin, CountInv
<1>5. CASE \E c \in Client :
             \/ SyncStarts(c) \/ SyncCalls(c) \/ SyncAborts(c)
             \/ SyncLists(c) \/ SyncListFails(c) \/ SyncEnds(c)
  BY <1>5 DEF SyncStarts, SyncCalls, SyncAborts, SyncLists, SyncListFails, SyncEnds,
         resVars, CountInv
<1>6. CASE CleanerStarts
  <2>1. <<"attempts", "tasks", "queues", "apps", "account">> \in Seq(Steps) BY DEF Steps
  <2> QED BY <1>6, <2>1 DEF CleanerStarts, CountInv
<1>7. ASSUME NEW step, Cleans(step), UNCHANGED <<calls, fails, closing>> PROVE CountInv'
  BY <1>7 DEF Cleans, CountInv
<1>8. CASE CleanerStep
  BY <1>6, <1>7, <1>8
  DEF CleanerStep, CleanAttempts, CleanTasks, CleanQueues, CleanApps, CleanAccount
<1>9. CASE CleanerFails
  <2>1. <<>> \in Seq(Steps) OBVIOUS
  <2> QED BY <1>9, <2>1 DEF CleanerFails, CountInv
<1>10. CASE UNCHANGED vars BY <1>1, <1>10 DEF vars, resVars
<1> QED BY <1>2, <1>3, <1>4, <1>5, <1>8, <1>9, <1>10 DEF Next, ResStep

\* Every step keeps the synchronisations of their types.
LEMMA SyncTypeNext ==
  ASSUME SyncType, [Next]_vars
  PROVE  SyncType'
<1>1. CASE UNCHANGED sync BY <1>1 DEF SyncType, AgendaOps
<1>2. ASSUME NEW c \in Client, NEW l \in Locals, sync' = [sync EXCEPT ![c] = l],
             \A i \in DOMAIN l.agenda :
               l.agenda[i].op \in {"PutApplication", "PutTask", "DeleteTask"}
      PROVE  SyncType'
  <2>1. sync' \in [Client -> Locals] BY <1>2 DEF SyncType
  <2>2. sync'[c] = l /\ \A d \in Client \ {c} : sync'[d] = sync[d] BY <1>2 DEF SyncType
  <2>3. AgendaOps(c)' BY <1>2, <2>2 DEF AgendaOps
  <2>4. ASSUME NEW d \in Client \ {c} PROVE AgendaOps(d)'
    <3>1. AgendaOps(d) BY DEF SyncType
    <3> QED BY <2>2, <3>1 DEF AgendaOps
  <2> QED BY <2>1, <2>3, <2>4 DEF SyncType
<1>3. NoSync \in Locals /\ DOMAIN NoSync.agenda = {}
  <2>1. <<>> \in Seq(Calls) /\ DOMAIN <<>> = {} OBVIOUS
  <2> QED BY <2>1 DEF NoSync, Locals
<1>4. ASSUME NEW c \in Client, sync' = [sync EXCEPT ![c] = NoSync] PROVE SyncType'
  <2> DEFINE l == NoSync
  <2>1. l \in Locals /\ DOMAIN l.agenda = {} BY <1>3
  <2> HIDE DEF l
  <2>2. sync' = [sync EXCEPT ![c] = l] BY <1>4 DEF l
  <2> QED BY <1>2, <2>1, <2>2
<1>5. ASSUME NEW c \in Client, SyncStarts(c) PROVE SyncType'
  <2> DEFINE s == IF apps[SyncApp] = "live" THEN Puts ELSE <<PutApp>> \o Puts
             l == [NoSync EXCEPT !.pc = "put", !.agenda = s]
  <2>1. sync' = [sync EXCEPT ![c] = l] BY <1>5 DEF SyncStarts
  <2>2. Puts \in Seq(Calls) /\ PutApp \in Calls /\ \A i \in DOMAIN Puts : Puts[i].op = "PutTask"
    BY SyncCallTypes
  <2>3. PutApp.op = "PutApplication" BY DEF PutApp
  <2>4. <<PutApp>> \in Seq(Calls) BY <2>2
  <2>5. <<PutApp>> \o Puts \in Seq(Calls) BY <2>2, <2>4
  <2>6. \A i \in DOMAIN (<<PutApp>> \o Puts) :
          (<<PutApp>> \o Puts)[i].op \in {"PutApplication", "PutTask", "DeleteTask"}
    <3> HIDE DEF PutApp
    <3>1. ASSUME NEW i \in DOMAIN (<<PutApp>> \o Puts)
          PROVE  \/ (<<PutApp>> \o Puts)[i] = PutApp
                 \/ i - 1 \in DOMAIN Puts /\ (<<PutApp>> \o Puts)[i] = Puts[i - 1]
      BY <2>2, <2>4
    <3> QED BY <2>2, <2>3, <3>1
  <2>7. s \in Seq(Calls) BY <2>2, <2>5
  <2>8. \A i \in DOMAIN s : s[i].op \in {"PutApplication", "PutTask", "DeleteTask"}
    BY <2>2, <2>6
  <2> HIDE DEF s
  <2>9. l \in Locals /\ l.agenda = s BY <2>7 DEF NoSync, Locals
  <2> HIDE DEF l
  <2> QED BY <1>2, <2>1, <2>8, <2>9
<1>6. ASSUME NEW c \in Client, SyncCalls(c) PROVE SyncType'
  <2> DEFINE l == [sync[c] EXCEPT !.agenda = Tail(@), !.ok = AllOk(c)]
  <2>1. sync' = [sync EXCEPT ![c] = l] BY <1>6 DEF SyncCalls, SyncType
  <2>2. sync[c] \in Locals /\ AgendaOps(c) /\ sync[c].agenda # <<>>
    BY <1>6 DEF SyncCalls, SyncType
  <2>3. sync[c].agenda \in Seq(Calls) BY <2>2 DEF Locals
  <2>4. /\ Tail(sync[c].agenda) \in Seq(Calls)
        /\ \A i \in DOMAIN Tail(sync[c].agenda) :
             /\ Tail(sync[c].agenda)[i] = sync[c].agenda[i + 1]
             /\ i + 1 \in DOMAIN sync[c].agenda
    BY <2>2, <2>3, AgendaHead
  <2>5. AllOk(c) \in BOOLEAN BY DEF AllOk
  <2>6. l \in Locals /\ l.agenda = Tail(sync[c].agenda) BY <2>2, <2>4, <2>5 DEF Locals
  <2> HIDE DEF l
  <2>7. \A i \in DOMAIN l.agenda :
          l.agenda[i].op \in {"PutApplication", "PutTask", "DeleteTask"}
    BY <2>2, <2>4, <2>6 DEF AgendaOps
  <2> QED BY <1>2, <2>1, <2>6, <2>7
<1>7. ASSUME NEW c \in Client, SyncLists(c) PROVE SyncType'
  <2>1. PICK surplus \in InListOrder(FirstPage \ Range(File)) :
          sync' = [sync EXCEPT ![c] =
            [pc |-> "delete", ok |-> AllOk(c),
             agenda |-> [i \in DOMAIN surplus |-> DeleteTask(surplus[i])],
             beyond |-> Listed \ FirstPage]]
    BY <1>7 DEF SyncLists
  <2>2. FirstPage \ Range(File) \in SUBSET TName /\ Listed \ FirstPage \in SUBSET TName
    BY DEF FirstPage, Listed
  <2> DEFINE s == [i \in DOMAIN surplus |-> DeleteTask(surplus[i])]
             l == [pc |-> "delete", ok |-> AllOk(c), agenda |-> s, beyond |-> Listed \ FirstPage]
  <2>3. s \in Seq(Calls) BY <2>2, ListOrderType
  <2>4. \A i \in DOMAIN s : s[i].op = "DeleteTask" BY DEF DeleteTask
  <2>5. AllOk(c) \in BOOLEAN BY DEF AllOk
  <2>6. sync' = [sync EXCEPT ![c] = l] BY <2>1
  <2> HIDE DEF s
  <2>7. l \in Locals /\ l.agenda = s BY <2>2, <2>3, <2>5 DEF Locals
  <2> HIDE DEF l
  <2> QED BY <1>2, <2>4, <2>6, <2>7
<1>8. ASSUME NEW c \in Client, SyncEnds(c) PROVE SyncType'
  <2> DEFINE l == [sync[c] EXCEPT !.pc = "done", !.ok = AllOk(c)]
  <2>1. sync' = [sync EXCEPT ![c] = l] BY <1>8 DEF SyncEnds, SyncType
  <2>2. sync[c] \in Locals /\ AgendaOps(c) BY DEF SyncType
  <2>3. AllOk(c) \in BOOLEAN BY DEF AllOk
  <2>4. l \in Locals /\ l.agenda = sync[c].agenda BY <2>2, <2>3 DEF Locals
  <2> HIDE DEF l
  <2> QED BY <1>2, <2>1, <2>2, <2>4 DEF AgendaOps
<1>9. ASSUME NEW c \in Client, SyncAborts(c) PROVE SyncType' BY <1>4, <1>9 DEF SyncAborts
<1>10. ASSUME NEW c \in Client, NEW r \in Request, Ask(c, r) PROVE SyncType'
  BY <1>4, <1>10 DEF Ask
<1>11. ASSUME NEW c \in Client, SyncListFails(c) PROVE SyncType'
  <2> DEFINE none == [NoSync EXCEPT !.pc = "delete", !.ok = FALSE]
  <2>1. sync' = [sync EXCEPT ![c] = NoSync] \/ sync' = [sync EXCEPT ![c] = none]
    BY <1>11 DEF SyncListFails
  <2>2. NoSync \in Locals /\ none.agenda = NoSync.agenda BY <1>3 DEF NoSync
  <2>3. none \in Locals BY <2>2 DEF Locals
  <2>4. DOMAIN none.agenda = {} BY <1>3, <2>2
  <2> HIDE DEF none
  <2>5. ASSUME sync' = [sync EXCEPT ![c] = none] PROVE SyncType'
    <3>1. \A i \in DOMAIN none.agenda :
            none.agenda[i].op \in {"PutApplication", "PutTask", "DeleteTask"}
      BY <2>4
    <3> QED BY <1>2, <2>3, <2>5, <3>1
  <2> QED BY <1>4, <2>1, <2>5
<1> QED BY <1>1, <1>5, <1>6, <1>7, <1>8, <1>9, <1>10, <1>11 DEF Next, vars

\* At first there is nothing.
LEMMA TypeInit == Init => TypeInv
<1> SUFFICES ASSUME Init PROVE TypeInv OBVIOUS
<1>1. /\ account = "none" /\ apps = [x \in App |-> "none"]
      /\ queues = [k \in QueueKeys |-> NoQueue] /\ tasks = [k \in TaskKeys |-> NoTask]
      /\ older = {} /\ attempts = {} /\ proc = [c \in Client |-> Rest(TRUE)]
      /\ cleaner = <<>> /\ calls = 0 /\ fails = 0 /\ closing = FALSE
      /\ sync = [c \in Client |-> NoSync]
  BY DEF Init, ResInit
<1>2. NoTask \in TaskDocs /\ NoTask.state = "none" BY DEF NoTask, TaskDocs, States
<1>3. NoQueue \in [state : States, id : Nat] BY DEF NoQueue, States
<1>4. DataInv BY <1>1, <1>2, <1>3 DEF DataInv, QueuesNamed, StoredTask, States
<1>5. OrderInv BY <1>1, <1>2 DEF OrderInv, StoredTask
<1>6. ProcInv
  <2>1. \A c \in Client : proc[c].todo = <<>> BY <1>1 DEF Rest
  <2>2. proc \in [Client -> Procs] BY <1>1, RestType
  <2> QED BY <2>1, <2>2 DEF ProcInv, UnderWay, Idle
<1>7. CountInv
  <2>1. <<>> \in Seq(Steps) OBVIOUS
  <2> QED BY <1>1, <2>1 DEF CountInv
<1>8. SyncType
  <2>1. <<>> \in Seq(Calls) /\ DOMAIN <<>> = {} OBVIOUS
  <2>2. NoSync \in Locals BY <2>1 DEF NoSync, Locals
  <2>3. \A c \in Client : DOMAIN sync[c].agenda = {} BY <1>1, <2>1 DEF NoSync
  <2> QED BY <1>1, <2>2, <2>3 DEF SyncType, AgendaOps
<1> QED BY <1>4, <1>5, <1>6, <1>7, <1>8, TypeParts

\* Types, with what they rest on, are inductive.
LEMMA TypeNext == TypeInv /\ [Next]_vars => TypeInv'
<1> SUFFICES ASSUME TypeInv, [Next]_vars PROVE TypeInv' OBVIOUS
<1>1. DataInv /\ OrderInv /\ ProcInv /\ CountInv /\ SyncType BY TypeParts
<1>2. DataInv' BY <1>1, DataNext
<1>3. OrderInv' BY <1>1, OrderNext
<1>4. ProcInv' BY <1>1, ProcNext
<1>5. CountInv' BY <1>1, CountNext
<1>6. SyncType' BY <1>1, SyncTypeNext
<1> QED
  BY <1>2, <1>3, <1>4, <1>5, <1>6
  DEF TypeInv, TypeOK, ResTypeOK, DataInv, OrderInv, ProcInv, CountInv, SyncType, Procs

\* In every reachable state, with any number of clients, the documents, the
\* calls under way and the synchronisations are of their types, and the tasks
\* of the collection are ordered by their ids.
THEOREM TypesAlways == Spec => []TypeOK
<1>1. TypeInv => TypeOK BY DEF TypeInv
<1> QED BY TypeInit, TypeNext, <1>1, PTL DEF Spec
-----------------------------------------------------------------------------
(* The default application *)

\* No step takes the default application unless the account is being deleted:
\* DeleteApplication refuses its name, DeleteApplications spares it, and no
\* other call comes to the applications.
THEOREM DefaultAlwaysStays == Spec => DefaultApplicationStays
<1> DEFINE Stays == apps["default"] = "live" => apps'["default"] = "live" \/ closing'
<1>1. ASSUME TypeInv, [Next]_vars PROVE Stays
  <2>1. /\ DataInv /\ ProcInv /\ "default" \in App /\ None \notin App
    BY <1>1, TypeParts, ResourcesAssumption
  <2>2. CASE UNCHANGED apps BY <2>2
  <2>3. ASSUME NEW c \in Client, InsertApp(c) PROVE Stays
    BY <2>1, <2>3 DEF InsertApp, DataInv
  <2>4. ASSUME NEW c \in Client, FlagApps(c) PROVE Stays
    <3>1. Head(proc[c].todo) = "apps" /\ ~Idle(c) /\ UnderWay(c) /\ UNCHANGED closing
      BY <2>1, <2>4 DEF FlagApps, Doing, ProcInv
    <3>2. Op(c) \in {"DeleteAccount", "DeleteApplication", "DeleteApplications"}
      BY <3>1, CallShape DEF StepOf
    <3>3. CASE Op(c) = "DeleteAccount" BY <3>1, <3>3 DEF UnderWay
    <3>4. CASE Op(c) = "DeleteApplication"
      <4>1. Call(c).app \in App /\ Call(c).app # "default"
        BY <3>1, <3>4, CallShape DEF UnderWay, Forbidden, Op
      <4>2. ~Matches(Call(c).app, "default") BY <2>1, <4>1 DEF Matches
      <4> QED BY <2>1, <2>4, <4>2 DEF FlagApps
    <3>5. CASE Op(c) = "DeleteApplications" BY <2>1, <2>4, <3>5 DEF FlagApps, Op
    <3> QED BY <3>2, <3>3, <3>4, <3>5
  <2>5. CASE CleanApps BY <2>1, <2>5 DEF CleanApps
  <2> QED
    BY <1>1, <2>2, <2>3, <2>4, <2>5
    DEF Next, vars, resVars, Ask, Begin, SyncStarts, SyncCalls, SyncAborts, SyncLists,
        SyncListFails, SyncEnds, ResStep, CallStep, Fail, CleanerStep, CleanerFails, InsertAccount, FindApp, InsertQueue,
        UpdateQueue, FindQueue, InsertTask, UpdateTask, Purge, InsertAttempt, FlagAttempts,
        FlagTasks, FlagQueues, FlagAccount, CleanerStarts, CleanAttempts, CleanTasks, CleanQueues,
        CleanAccount
<1>2. TypeInv /\ [Next]_vars => [Stays]_resVars BY <1>1
<1> QED BY TypeInit, TypeNext, <1>2, PTL DEF Spec, DefaultApplicationStays
-----------------------------------------------------------------------------
(* The tree, with one client *)

\* A client without a call has found and swept nothing.
LEMMA CallerRests ==
  ASSUME OneClient, NEW c \in Client, proc'[c].todo = <<>>
  PROVE  (\A d \in Client : Found(d)') /\ (\A d \in Client : Swept(d)')
<1> SUFFICES ASSUME NEW d \in Client PROVE Found(d)' /\ Swept(d)' OBVIOUS
<1>1. proc'[d].todo = <<>> BY DEF OneClient
<1>2. Found(d)' BY <1>1 DEF Found, Doing, DoingOneOf, Idle
<1>3. Swept(d)' BY <1>1 DEF Swept, Doing, Idle
<1> QED BY <1>2, <1>3

\* A step that leaves the calls and everything live as it is.
LEMMA LiveStays ==
  ASSUME TypeInv, TreeInv, UNCHANGED <<proc, closing>>,
         account = "live" => account' = "live",
         \A x \in App : apps'[x] = "live" <=> apps[x] = "live",
         \A k \in QueueKeys :
           queues[k].state = "live" \/ queues'[k].state = "live" => queues'[k] = queues[k],
         \A k \in TaskKeys :
           tasks[k].state = "live" \/ tasks'[k].state = "live" => tasks'[k] = tasks[k],
         attempts' \subseteq attempts
  PROVE  TreeInv'
<1>0. DataInv BY TypeParts
<1>1. \A k \in TaskKeys : k[1] \in App BY DEF TaskKeys
<1>2. \A k \in QueueKeys : k[1] \in App BY DEF QueueKeys
<1>3. \A a \in attempts : a.task \in TaskKeys BY <1>0 DEF DataInv, AttemptDocs
<1>4. \A a \in attempts : ~a.flagged => tasks[a.task].state = "live" /\ tasks'[a.task] = tasks[a.task]
  BY <1>3 DEF TreeInv, ChildrenGoFirst
<1>5. ChildrenGoFirst'
  <2>1. \A x \in App : apps'[x] = "live" => account' = "live" BY DEF TreeInv, ChildrenGoFirst
  <2>2. \A k \in QueueKeys : queues'[k].state = "live" => apps'[k[1]] = "live"
    BY <1>2 DEF TreeInv, ChildrenGoFirst
  <2>3. \A k \in TaskKeys : tasks'[k].state = "live" => apps'[k[1]] = "live"
    BY <1>1 DEF TreeInv, ChildrenGoFirst
  <2>4. \A a \in attempts' : ~a.flagged => tasks'[a.task].state = "live" BY <1>4
  <2> QED BY <2>1, <2>2, <2>3, <2>4 DEF ChildrenGoFirst
<1>6. TaskHasQueue'
  <2> SUFFICES ASSUME ~closing', NEW k \in TaskKeys, tasks'[k].state = "live", ~tasks'[k].revived
               PROVE  /\ queues'[<<k[1], tasks'[k].queue>>].state = "live"
                      /\ queues'[<<k[1], tasks'[k].queue>>].id = tasks'[k].qid
    BY DEF TaskHasQueue
  <2>1. tasks'[k] = tasks[k] OBVIOUS
  <2>2. tasks[k].queue \in QName BY <1>0, <2>1 DEF DataInv, QueuesNamed, StoredTask
  <2>3. <<k[1], tasks[k].queue>> \in QueueKeys BY <1>1, <2>2 DEF QueueKeys
  <2>4. /\ queues[<<k[1], tasks[k].queue>>].state = "live"
        /\ queues[<<k[1], tasks[k].queue>>].id = tasks[k].qid
    BY <2>1 DEF TreeInv, TaskHasQueue
  <2> QED BY <2>1, <2>3, <2>4
<1>7. AttemptsInQueue' BY <1>4 DEF TreeInv, AttemptsInQueue
<1>8. ASSUME NEW c \in Client PROVE Found(c)'
  <2>1. Found(c) /\ UnderWay(c) BY DEF TreeInv, TypeInv
  <2>2. Doing(c, "insertApp")' => account' = "live" BY <2>1 DEF Found, Doing, Idle
  <2>3. DoingOneOf(c, {"insertQueue", "findQueue", "insertTask", "updateTask"}) =>
          Call(c).app \in App
    BY <2>1, CallShape DEF DoingOneOf, StepOf
  <2>4. DoingOneOf(c, {"insertQueue", "findQueue", "insertTask", "updateTask"})' =>
          apps'[Call(c)'.app] = "live"
    BY <2>1, <2>3 DEF Found, DoingOneOf, Idle, Call
  <2>5. Doing(c, "insertTask") => QueueOf(c) \in QueueKeys
    BY <2>1, CallShape DEF Doing, StepOf, QueueOf, QueueKeys
  <2>6. Doing(c, "insertTask")' => queues'[QueueOf(c)'] = [state |-> "live", id |-> proc'[c].qid]
    BY <2>1, <2>5 DEF Found, Doing, Idle, Call, QueueOf
  <2>7. DoingOneOf(c, {"purge", "insertAttempt"}) => TaskOf(c) \in TaskKeys
    BY <2>1, CallShape DEF DoingOneOf, StepOf, TaskOf, TaskKeys
  <2>8. DoingOneOf(c, {"purge", "insertAttempt"})' =>
          LET t == tasks'[TaskOf(c)'] IN
            /\ t.state = "live" /\ t.queue = Call(c)'.queue
            /\ t.scheduled = Call(c)'.scheduled
    BY <2>1, <2>7 DEF Found, DoingOneOf, Idle, Call, TaskOf
  <2> QED BY <2>2, <2>4, <2>6, <2>8 DEF Found
<1>9. ASSUME NEW c \in Client PROVE Swept(c)'
  <2>1. Swept(c) BY DEF TreeInv
  <2>2. \A r : AttemptsSwept(r) => AttemptsSwept(r)' BY DEF AttemptsSwept, AttemptMatches
  <2>3. \A r : TasksSwept(r) => TasksSwept(r)' BY DEF TasksSwept, TaskMatches
  <2>4. \A r : QueuesSwept(r) => QueuesSwept(r)' BY DEF QueuesSwept, QueueMatches
  <2>5. AppsSwept => AppsSwept' BY DEF AppsSwept
  <2>6. AttemptsSwept(Call(c)) => AttemptsSwept(Call(c))'
    BY DEF AttemptsSwept, AttemptMatches, Call
  <2>7. TasksSwept(Call(c)) => TasksSwept(Call(c))' BY DEF TasksSwept, TaskMatches, Call
  <2>8. QueuesSwept(Call(c)) => QueuesSwept(Call(c))' BY DEF QueuesSwept, QueueMatches, Call
  <2> QED BY <2>1, <2>5, <2>6, <2>7, <2>8 DEF Swept, Doing, Idle, Op, Call
<1> QED BY <1>5, <1>6, <1>7, <1>8, <1>9 DEF TreeInv

\* A call that goes on has found, or swept, what its step has seen to.
LEMMA CallerOnward ==
  ASSUME OneClient, ProcInv, NEW c \in Client, ~Idle(c), GoesOn(c),
         NEW r, r = Call(c), NEW h, h = Head(proc[c].todo),
         h = "insertAccount" => account' = "live",
         h = "findApp" => apps'[r.app] = "live",
         h \in {"insertTask", "purge"} =>
           /\ tasks'[<<r.app, r.task>>].state = "live"
           /\ tasks'[<<r.app, r.task>>].queue = r.queue
           /\ tasks'[<<r.app, r.task>>].scheduled = r.scheduled,
         h = "attempts" => AttemptsSwept(r)',
         h = "queues" /\ r.op = "DeleteAccount" => AttemptsSwept(r)' /\ QueuesSwept(r)',
         h = "tasks" /\ r.op = "DeleteAccount" => TasksSwept(r)' /\ QueuesSwept(r)',
         h = "tasks" => TasksSwept(r)',
         h = "queues" /\ r.op \in {"DeleteApplication", "DeleteApplications"} =>
           TasksSwept(r)' /\ QueuesSwept(r)',
         h = "apps" /\ r.op = "DeleteAccount" => AppsSwept',
         h \notin {"findQueue", "updateTask"}
  PROVE  (\A d \in Client : Found(d)') /\ (\A d \in Client : Swept(d)')
<1>1. UnderWay(c) /\ proc \in [Client -> Procs] BY DEF ProcInv
<1>2. CASE proc'[c] = Rest(TRUE)
  <2>1. proc'[c].todo = <<>> BY <1>2 DEF Rest
  <2> QED BY <2>1, CallerRests
<1>3. CASE /\ proc'[c] = [proc[c] EXCEPT !.todo = Tail(@)]
           /\ Tail(proc[c].todo) # <<>>
           /\ Follows(Op(c), Head(proc[c].todo), Head(Tail(proc[c].todo)))
  <2> DEFINE n == Head(Tail(proc[c].todo))
  <2>1. /\ proc'[c].call = r /\ proc'[c].todo = Tail(proc[c].todo)
    BY <1>1, <1>3 DEF Procs, Call
  <2>2. /\ Call(c)' = r /\ Op(c)' = r.op /\ Head(proc'[c].todo) = n
        /\ QueueOf(c)' = <<r.app, r.queue>> /\ TaskOf(c)' = <<r.app, r.task>>
    BY <2>1 DEF Call, Op, QueueOf, TaskOf
  <2>3. Follows(r.op, h, n) BY <1>3 DEF Op
  <2>4. \A step : Doing(c, step)' => step = n BY <2>2 DEF Doing
  <2>5. \A steps : DoingOneOf(c, steps)' => n \in steps BY <2>2 DEF DoingOneOf
  <2> HIDE DEF n
  <2>6. Found(c)'
    <3>1. Doing(c, "insertApp")' => account' = "live" BY <2>3, <2>4 DEF Follows
    <3>2. DoingOneOf(c, {"insertQueue", "findQueue", "insertTask", "updateTask"})' =>
            apps'[r.app] = "live"
      BY <2>3, <2>5 DEF Follows
    <3>3. ~Doing(c, "insertTask")' BY <2>3, <2>4 DEF Follows
    <3>4. DoingOneOf(c, {"purge", "insertAttempt"})' =>
            /\ tasks'[<<r.app, r.task>>].state = "live"
            /\ tasks'[<<r.app, r.task>>].queue = r.queue
            /\ tasks'[<<r.app, r.task>>].scheduled = r.scheduled
      BY <2>3, <2>5 DEF Follows
    <3> QED BY <2>2, <3>1, <3>2, <3>3, <3>4 DEF Found
  <2>7. Swept(c)'
    <3>1. Doing(c, "tasks")' \/ (Doing(c, "queues")' /\ r.op = "DeleteAccount") =>
            AttemptsSwept(r)'
      BY <2>3, <2>4 DEF Follows
    <3>2. Doing(c, "apps")' \/ (Doing(c, "queues")' /\ r.op # "DeleteAccount") =>
            TasksSwept(r)'
      BY <2>3, <2>4 DEF Follows
    <3>3. Doing(c, "apps")' \/ (Doing(c, "tasks")' /\ r.op = "DeleteAccount") =>
            QueuesSwept(r)'
      BY <2>3, <2>4 DEF Follows
    <3>4. Doing(c, "account")' => AppsSwept' BY <2>3, <2>4 DEF Follows
    <3>5. /\ AttemptsSwept(r)' <=> AttemptsSwept(Call(c))'
          /\ TasksSwept(r)' <=> TasksSwept(Call(c))'
          /\ QueuesSwept(r)' <=> QueuesSwept(Call(c))'
      BY <2>2 DEF AttemptsSwept, TasksSwept, QueuesSwept, AttemptMatches, TaskMatches, QueueMatches
    <3> QED BY <2>2, <3>1, <3>2, <3>3, <3>4, <3>5 DEF Swept
  <2>8. \A d \in Client : d = c BY DEF OneClient
  <2> QED BY <2>6, <2>7, <2>8
<1> QED BY <1>1, <1>2, <1>3, Onward

\* Live documents under live ones: a step that stores nothing and flags nothing.
LEMMA SameTree ==
  ASSUME TreeInv, UNCHANGED <<account, apps, queues, tasks, attempts>>, closing => closing'
  PROVE  ChildrenGoFirst' /\ TaskHasQueue' /\ AttemptsInQueue'
BY DEF TreeInv, ChildrenGoFirst, TaskHasQueue, AttemptsInQueue

\* What a creation stores stands under what it has found.
LEMMA CreationKeepsTree ==
  ASSUME OneClient, TypeInv, TreeInv, NEW c \in Client,
         \/ InsertAccount(c) \/ InsertApp(c) \/ FindApp(c) \/ InsertQueue(c)
         \/ UpdateQueue(c) \/ FindQueue(c) \/ Fail(c)
  PROVE  TreeInv'
<1> DEFINE r == Call(c)
           h == Head(proc[c].todo)
<1>1. DataInv /\ ProcInv /\ ~Idle(c) /\ UnderWay(c) /\ proc[c] \in Procs
  <2>1. ~Idle(c)
    BY DEF InsertAccount, InsertApp, FindApp, InsertQueue, UpdateQueue, FindQueue, Fail, Doing
  <2> QED BY <2>1, TypeParts DEF ProcInv
<1>2. Found(c) BY DEF TreeInv
<1>3. ASSUME proc'[c].todo = <<>>, ChildrenGoFirst', TaskHasQueue', AttemptsInQueue' PROVE TreeInv'
  BY <1>3, CallerRests DEF TreeInv
<1>4. proc' = [proc EXCEPT ![c] = Rest(TRUE)] \/ Fails(c) => proc'[c].todo = <<>>
  BY <1>1 DEF ProcInv, Fails, Rest
<1>5. h \in {"insertApp", "findApp", "insertQueue", "updateQueue", "findQueue"} => r.app \in App
  BY <1>1, CallShape DEF StepOf
<1>6. h \in {"insertQueue", "findQueue"} => QueueOf(c) \in QueueKeys
  BY <1>1, CallShape DEF StepOf, QueueOf, QueueKeys
<1>7. CASE InsertAccount(c)
  <2>1. /\ account' = "live" /\ GoesOn(c) /\ h = "insertAccount"
        /\ UNCHANGED <<apps, queues, tasks, attempts, closing>>
    BY <1>7 DEF InsertAccount, Doing
  <2>2. ChildrenGoFirst' /\ TaskHasQueue' /\ AttemptsInQueue'
    BY <2>1 DEF TreeInv, ChildrenGoFirst, TaskHasQueue, AttemptsInQueue
  <2> HIDE DEF r, h
  <2>3. r = Call(c) /\ h = Head(proc[c].todo) BY DEF r, h
  <2>4. (\A d \in Client : Found(d)') /\ (\A d \in Client : Swept(d)')
    BY <1>1, <2>1, <2>3, CallerOnward
  <2> QED BY <2>2, <2>4 DEF TreeInv
<1>8. CASE InsertApp(c)
  <2>1. h = "insertApp" /\ UNCHANGED <<account, queues, tasks, attempts, closing>>
    BY <1>8 DEF InsertApp, Doing
  <2>2. CASE apps[r.app] = "none"
    <3>1. apps' = [apps EXCEPT ![r.app] = "live"] /\ GoesOn(c) BY <1>8, <2>2 DEF InsertApp
    <3>2. account = "live" BY <1>1, <1>2, <2>1 DEF Found, Doing
    <3>3. \A x \in App : apps'[x] = IF x = r.app THEN "live" ELSE apps[x]
      BY <1>1, <3>1 DEF DataInv
    <3>4. \A k \in QueueKeys : k[1] \in App BY DEF QueueKeys
    <3>5. \A k \in TaskKeys : k[1] \in App BY DEF TaskKeys
    <3>6. ChildrenGoFirst'
      BY <2>1, <3>2, <3>3, <3>4, <3>5 DEF TreeInv, ChildrenGoFirst
    <3>7. TaskHasQueue' /\ AttemptsInQueue'
      BY <2>1 DEF TreeInv, TaskHasQueue, AttemptsInQueue
    <3> HIDE DEF r, h
    <3>8. r = Call(c) /\ h = Head(proc[c].todo) BY DEF r, h
    <3>9. (\A d \in Client : Found(d)') /\ (\A d \in Client : Swept(d)')
      BY <1>1, <2>1, <3>1, <3>8, CallerOnward
    <3> QED BY <3>6, <3>7, <3>9 DEF TreeInv
  <2>3. CASE apps[r.app] # "none"
    <3>1. Fails(c) /\ UNCHANGED apps BY <1>8, <2>3 DEF InsertApp
    <3> QED BY <1>3, <1>4, <2>1, <3>1, SameTree
  <2> QED BY <2>2, <2>3
<1>9. CASE FindApp(c)
  <2>1. h = "findApp" /\ UNCHANGED <<account, apps, queues, tasks, attempts, closing>>
    BY <1>9 DEF FindApp, Doing
  <2>2. CASE apps[r.app] = "live"
    <3>1. GoesOn(c) BY <1>9, <2>2 DEF FindApp
    <3>2. apps'[r.app] = "live" BY <2>1, <2>2
    <3> HIDE DEF r, h
    <3>3. r = Call(c) /\ h = Head(proc[c].todo) BY DEF r, h
    <3>4. (\A d \in Client : Found(d)') /\ (\A d \in Client : Swept(d)')
      BY <1>1, <2>1, <3>1, <3>2, <3>3, CallerOnward
    <3> QED BY <2>1, <3>4, SameTree DEF TreeInv
  <2>3. CASE apps[r.app] # "live"
    <3>1. Fails(c) BY <1>9, <2>3 DEF FindApp
    <3> QED BY <1>3, <1>4, <2>1, <3>1, SameTree
  <2> QED BY <2>2, <2>3
<1>10. CASE InsertQueue(c)
  <2>1. h = "insertQueue" /\ UNCHANGED <<account, apps, tasks, attempts, closing>>
    BY <1>10 DEF InsertQueue, Doing
  <2> DEFINE k == QueueOf(c)
  <2>2. k \in QueueKeys /\ k[1] = r.app BY <1>6, <2>1 DEF QueueOf
  <2>3. CASE queues[k].state = "none"
    <3>1. /\ queues' = [queues EXCEPT ![k] = [state |-> "live", id |-> FreshId]]
          /\ GoesOn(c) \/ Fails(c)
      BY <1>10, <2>3 DEF InsertQueue
    <3>2. apps[k[1]] = "live" BY <1>1, <1>2, <2>1, <2>2 DEF Found, DoingOneOf
    <3>3. \A j \in QueueKeys : j # k => queues'[j] = queues[j] BY <1>1, <3>1 DEF DataInv
    <3> HIDE DEF k
    <3>4. ChildrenGoFirst'
      <4>1. ASSUME NEW j \in QueueKeys, queues'[j].state = "live" PROVE apps'[j[1]] = "live"
        BY <2>1, <3>2, <3>3, <4>1 DEF TreeInv, ChildrenGoFirst
      <4> QED BY <2>1, <4>1 DEF TreeInv, ChildrenGoFirst
    <3>5. TaskHasQueue'
      <4> SUFFICES ASSUME ~closing, NEW j \in TaskKeys, tasks[j].state = "live", ~tasks[j].revived
                   PROVE  /\ queues'[<<j[1], tasks[j].queue>>].state = "live"
                          /\ queues'[<<j[1], tasks[j].queue>>].id = tasks[j].qid
        BY <2>1 DEF TaskHasQueue
      <4>1. <<j[1], tasks[j].queue>> \in QueueKeys
        BY <1>1 DEF DataInv, QueuesNamed, StoredTask, QueueKeys, TaskKeys
      <4>2. /\ queues[<<j[1], tasks[j].queue>>].state = "live"
            /\ queues[<<j[1], tasks[j].queue>>].id = tasks[j].qid
        BY DEF TreeInv, TaskHasQueue
      <4> QED BY <2>3, <3>3, <4>1, <4>2
    <3>6. AttemptsInQueue' BY <2>1 DEF TreeInv, AttemptsInQueue
    <3> HIDE DEF r, h
    <3>7. r = Call(c) /\ h = Head(proc[c].todo) BY DEF r, h
    <3>8. GoesOn(c) => (\A d \in Client : Found(d)') /\ (\A d \in Client : Swept(d)')
      BY <1>1, <2>1, <3>7, CallerOnward
    <3>9. Fails(c) => TreeInv' BY <1>3, <1>4, <3>4, <3>5, <3>6
    <3> QED BY <3>1, <3>4, <3>5, <3>6, <3>8, <3>9 DEF TreeInv
  <2>4. CASE queues[k].state # "none"
    <3>1. proc' = [proc EXCEPT ![c].todo = <<"updateQueue">>] /\ UNCHANGED queues
      BY <1>10, <2>4 DEF InsertQueue, GoesTo
    <3>2. Head(proc'[c].todo) = "updateQueue" BY <1>1, <3>1 DEF ProcInv, Procs
    <3>3. Found(c)' BY <3>2 DEF Found, Doing, DoingOneOf
    <3>4. Swept(c)' BY <3>2 DEF Swept, Doing
    <3>5. \A d \in Client : d = c BY DEF OneClient
    <3>6. ChildrenGoFirst' /\ TaskHasQueue' /\ AttemptsInQueue' BY <2>1, <3>1, SameTree
    <3> QED BY <3>3, <3>4, <3>5, <3>6 DEF TreeInv
  <2> QED BY <2>3, <2>4
<1>11. CASE UpdateQueue(c)
  <2>1. h = "updateQueue" /\ UNCHANGED <<account, apps, queues, tasks, attempts, closing>>
    BY <1>11 DEF UpdateQueue, Doing
  <2>2. CASE GoesOn(c)
    <3> HIDE DEF r, h
    <3>1. r = Call(c) /\ h = Head(proc[c].todo) BY DEF r, h
    <3>2. (\A d \in Client : Found(d)') /\ (\A d \in Client : Swept(d)')
      BY <1>1, <2>1, <2>2, <3>1, CallerOnward
    <3> QED BY <2>1, <3>2, SameTree DEF TreeInv
  <2>3. CASE Fails(c) BY <1>3, <1>4, <2>1, <2>3, SameTree
  <2> QED BY <1>11, <2>2, <2>3 DEF UpdateQueue
<1>12. CASE FindQueue(c)
  <2>1. h = "findQueue" /\ UNCHANGED <<account, apps, queues, tasks, attempts, closing>>
    BY <1>12 DEF FindQueue, Doing
  <2> DEFINE k == QueueOf(c)
  <2>2. CASE queues[k].state = "live"
    <3>1. proc' = [proc EXCEPT ![c].qid = queues[k].id, ![c].todo = Tail(@)]
      BY <1>12, <2>2 DEF FindQueue
    <3>2. k \in QueueKeys /\ apps[r.app] = "live"
      BY <1>1, <1>2, <1>6, <2>1 DEF Found, DoingOneOf
    <3>3. queues[k] = [state |-> "live", id |-> queues[k].id]
      BY <1>1, <2>2, <3>2 DEF DataInv
    <3>4. /\ Call(c)' = r /\ proc'[c].qid = queues[k].id /\ QueueOf(c)' = k
          /\ proc'[c].todo = Tail(proc[c].todo)
      BY <1>1, <3>1 DEF ProcInv, Procs, Call, QueueOf
    <3>5. Head(proc'[c].todo) = "insertTask"
      <4>1. Op(c) = "PutTask" /\ Op(c) \in Ops /\ proc[c].todo \in Left[Op(c)]
        BY <1>1, <2>1, CallShape DEF StepOf, UnderWay
      <4>2. Len(proc[c].todo) # 1
        <5>1. Len(proc[c].todo) = 1 => LastOf(Op(c), h) BY <4>1, LeftLast
        <5> QED BY <2>1, <4>1, <5>1 DEF LastOf
      <4>3. Follows(Op(c), h, Head(Tail(proc[c].todo))) BY <4>1, <4>2, LeftNext
      <4> QED BY <2>1, <3>4, <4>1, <4>3 DEF Follows
    <3>6. Found(c)'
      BY <2>1, <3>2, <3>3, <3>4, <3>5 DEF Found, Doing, DoingOneOf
    <3>7. Swept(c)' BY <3>5 DEF Swept, Doing
    <3>8. \A d \in Client : d = c BY DEF OneClient
    <3> QED BY <2>1, <3>6, <3>7, <3>8, SameTree DEF TreeInv
  <2>3. CASE queues[k].state # "live"
    <3>1. Fails(c) BY <1>12, <2>3 DEF FindQueue
    <3> QED BY <1>3, <1>4, <2>1, <3>1, SameTree
  <2> QED BY <2>2, <2>3
<1>13. CASE Fail(c)
  <2>1. /\ UNCHANGED <<account, apps, queues, tasks, attempts, closing>>
        /\ Fails(c) \/ proc' = [proc EXCEPT ![c] = Rest(TRUE)]
    BY <1>13 DEF Fail
  <2> QED BY <1>3, <1>4, <2>1, SameTree
<1> QED BY <1>7, <1>8, <1>9, <1>10, <1>11, <1>12, <1>13

\* FlagAll leaves the other attempts as they are.
LEMMA FlagAllKeeps ==
  ASSUME NEW S, FlagAll(S)
  PROVE  \A a \in attempts' : ~a.flagged => a \in attempts /\ a \notin S
<1> SUFFICES ASSUME NEW a \in attempts', ~a.flagged PROVE a \in attempts /\ a \notin S
  OBVIOUS
<1>1. CASE a \in attempts \ S BY <1>1
<1>2. CASE \E b \in S : a = Flagged(b)
  <2>1. PICK b \in S : a = [b EXCEPT !.flagged = TRUE] BY <1>2 DEF Flagged
  <2>2. CASE "flagged" \in DOMAIN b BY <2>1, <2>2
  <2> QED BY <2>1, <2>2
<1> QED BY <1>1, <1>2 DEF FlagAll

\* A task that a PUT stores, or makes live again, stands under what the PUT has
\* found, and so does its attempt.
LEMMA TasksKeepTree ==
  ASSUME OneClient, TypeInv, TreeInv, NEW c \in Client,
         InsertTask(c) \/ UpdateTask(c) \/ Purge(c) \/ InsertAttempt(c)
  PROVE  TreeInv'
<1> DEFINE r == Call(c)
           h == Head(proc[c].todo)
           k == TaskOf(c)
<1>1. DataInv /\ ProcInv /\ ~Idle(c) /\ UnderWay(c) /\ proc[c] \in Procs
  <2>1. ~Idle(c) BY DEF InsertTask, UpdateTask, Purge, InsertAttempt, Doing
  <2> QED BY <2>1, TypeParts DEF ProcInv
<1>2. Found(c) BY DEF TreeInv
<1>3. h \in {"insertTask", "updateTask", "purge", "insertAttempt"}
  BY DEF InsertTask, UpdateTask, Purge, InsertAttempt, Doing
<1>4. Op(c) = "PutTask" BY <1>1, <1>3, CallShape DEF StepOf
<1>5. /\ r.app \in App /\ r.task \in TName /\ r.queue \in QName /\ r.scheduled \in BOOLEAN
      /\ k = <<r.app, r.task>> /\ k \in TaskKeys /\ k[1] = r.app /\ QueueOf(c) = <<r.app, r.queue>>
      /\ QueueOf(c) \in QueueKeys
  BY <1>1, <1>4, CallShape DEF TaskOf, TaskKeys, QueueOf, QueueKeys
<1>6. h \in {"insertTask", "updateTask"} => apps[r.app] = "live"
  BY <1>1, <1>2 DEF Found, DoingOneOf
<1>7. r = Call(c) /\ h = Head(proc[c].todo) OBVIOUS
<1>8. \A a \in attempts : a.task \in TaskKeys BY <1>1 DEF DataInv, AttemptDocs
<1>9. CASE InsertTask(c)
  <2>1. h = "insertTask" /\ UNCHANGED <<account, apps, queues, attempts, closing>>
    BY <1>9 DEF InsertTask, Doing
  <2>2. CASE tasks[k].state = "none"
    <3> DEFINE t == [state |-> "live", queue |-> r.queue, qid |-> proc[c].qid,
                     scheduled |-> r.scheduled, revived |-> FALSE]
    <3>1. tasks' = [tasks EXCEPT ![k] = t] /\ GoesOn(c) BY <1>9, <2>2 DEF InsertTask
    <3>2. tasks'[k] = t /\ \A j \in TaskKeys : j # k => tasks'[j] = tasks[j]
      BY <1>1, <1>5, <3>1 DEF DataInv
    <3>3. queues[<<r.app, r.queue>>] = [state |-> "live", id |-> proc[c].qid]
      BY <1>1, <1>2, <1>5, <2>1 DEF Found, Doing
    <3>4. t.state = "live" /\ t.queue = r.queue /\ t.scheduled = r.scheduled /\ t.qid = proc[c].qid
      OBVIOUS
    <3> HIDE DEF t, k, r, h
    <3>5. \A a \in attempts : ~a.flagged => a.task # k
      BY <2>2 DEF TreeInv, ChildrenGoFirst
    <3>6. ChildrenGoFirst'
      <4>1. ASSUME NEW j \in TaskKeys, tasks'[j].state = "live" PROVE apps'[j[1]] = "live"
        BY <1>5, <1>6, <2>1, <3>2, <4>1 DEF TreeInv, ChildrenGoFirst
      <4>2. ASSUME NEW a \in attempts', ~a.flagged PROVE tasks'[a.task].state = "live"
        BY <1>8, <2>1, <3>2, <3>5, <4>2 DEF TreeInv, ChildrenGoFirst
      <4> QED BY <2>1, <4>1, <4>2 DEF TreeInv, ChildrenGoFirst
    <3>7. TaskHasQueue'
      <4> SUFFICES ASSUME ~closing, NEW j \in TaskKeys, tasks'[j].state = "live", ~tasks'[j].revived
                   PROVE  /\ queues[<<j[1], tasks'[j].queue>>].state = "live"
                          /\ queues[<<j[1], tasks'[j].queue>>].id = tasks'[j].qid
        BY <2>1 DEF TaskHasQueue
      <4>1. CASE j = k BY <1>5, <3>2, <3>3, <3>4, <4>1
      <4>2. CASE j # k BY <3>2, <4>2 DEF TreeInv, TaskHasQueue
      <4> QED BY <4>1, <4>2
    <3>8. AttemptsInQueue' BY <1>8, <2>1, <3>2, <3>5 DEF TreeInv, AttemptsInQueue
    <3>9. (\A d \in Client : Found(d)') /\ (\A d \in Client : Swept(d)')
      BY <1>1, <1>5, <1>7, <2>1, <3>1, <3>2, <3>4, CallerOnward
    <3> QED BY <3>6, <3>7, <3>8, <3>9 DEF TreeInv
  <2>3. CASE tasks[k].state # "none"
    <3>1. /\ proc' = [proc EXCEPT ![c].todo = <<"updateTask", "purge", "insertAttempt">>]
          /\ UNCHANGED tasks
      BY <1>9, <2>3 DEF InsertTask, GoesTo
    <3>2. Head(proc'[c].todo) = "updateTask" /\ Call(c)' = r
      BY <1>1, <3>1 DEF ProcInv, Procs, Call
    <3>3. Found(c)' BY <1>6, <2>1, <3>2 DEF Found, Doing, DoingOneOf
    <3>4. Swept(c)' BY <3>2 DEF Swept, Doing
    <3>5. \A d \in Client : d = c BY DEF OneClient
    <3>6. ChildrenGoFirst' /\ TaskHasQueue' /\ AttemptsInQueue' BY <2>1, <3>1, SameTree
    <3> QED BY <3>3, <3>4, <3>5, <3>6 DEF TreeInv
  <2> QED BY <2>2, <2>3
<1>10. CASE UpdateTask(c)
  <2>1. h = "updateTask" /\ UNCHANGED <<account, apps, queues, attempts, closing>>
    BY <1>10 DEF UpdateTask, Doing
  <2> DEFINE t == tasks[k]
             u == [t EXCEPT !.state = "live", !.scheduled = r.scheduled,
                            !.revived = @ \/ t.state = "flagged"]
  <2>2. CASE t.state # "none"
    <3>1. /\ tasks' = [tasks EXCEPT ![k] = u]
          /\ proc' = [proc EXCEPT ![c].call.queue = t.queue, ![c].todo = Tail(@)]
      BY <1>10, <2>2 DEF UpdateTask
    <3>2. tasks'[k] = u /\ \A j \in TaskKeys : j # k => tasks'[j] = tasks[j]
      BY <1>1, <1>5, <3>1 DEF DataInv
    <3>3. t \in TaskDocs BY <1>1, <1>5 DEF DataInv
    <3>4. /\ u.state = "live" /\ u.queue = t.queue /\ u.qid = t.qid /\ u.scheduled = r.scheduled
          /\ u.revived = (t.revived \/ t.state = "flagged")
      BY <3>3 DEF TaskDocs
    <3>5. ~u.revived => t.state = "live" /\ ~t.revived BY <2>2, <3>3, <3>4 DEF TaskDocs, States
    <3>6. t = tasks[k] OBVIOUS
    <3>7. /\ Call(c)' = [r EXCEPT !.queue = t.queue]
          /\ proc'[c].todo = Tail(proc[c].todo)
      BY <1>1, <3>1 DEF ProcInv, Procs, Call
    <3>8. r \in Calls BY <1>1 DEF UnderWay
    <3>9. Head(proc'[c].todo) = "purge"
      <4>1. Op(c) \in Ops /\ proc[c].todo \in Left[Op(c)]
        BY <1>1, CallShape DEF UnderWay
      <4>2. Len(proc[c].todo) # 1
        <5>1. Len(proc[c].todo) = 1 => LastOf(Op(c), h) BY <4>1, LeftLast
        <5> QED BY <1>4, <2>1, <5>1 DEF LastOf
      <4>3. Follows(Op(c), h, Head(Tail(proc[c].todo))) BY <4>1, <4>2, LeftNext
      <4> QED BY <1>4, <2>1, <3>7, <4>3 DEF Follows
    <3>10. /\ Call(c)'.app = r.app /\ Call(c)'.task = r.task /\ Call(c)'.queue = t.queue
           /\ Call(c)'.scheduled = r.scheduled /\ TaskOf(c)' = k
      BY <1>5, <3>7, <3>8 DEF Calls, TaskOf
    <3> HIDE DEF t, u, k, r, h
    <3>11. ChildrenGoFirst'
      <4>1. ASSUME NEW j \in TaskKeys, tasks'[j].state = "live" PROVE apps'[j[1]] = "live"
        BY <1>5, <1>6, <2>1, <3>2, <4>1 DEF TreeInv, ChildrenGoFirst
      <4>2. ASSUME NEW a \in attempts', ~a.flagged PROVE tasks'[a.task].state = "live"
        BY <1>8, <2>1, <3>2, <3>4, <4>2 DEF TreeInv, ChildrenGoFirst
      <4> QED BY <2>1, <4>1, <4>2 DEF TreeInv, ChildrenGoFirst
    <3>12. TaskHasQueue'
      <4> SUFFICES ASSUME ~closing, NEW j \in TaskKeys, tasks'[j].state = "live", ~tasks'[j].revived
                   PROVE  /\ queues[<<j[1], tasks'[j].queue>>].state = "live"
                          /\ queues[<<j[1], tasks'[j].queue>>].id = tasks'[j].qid
        BY <2>1 DEF TaskHasQueue
      <4>1. /\ tasks[j].state = "live" /\ ~tasks[j].revived
            /\ tasks'[j].queue = tasks[j].queue /\ tasks'[j].qid = tasks[j].qid
        BY <3>2, <3>4, <3>5, <3>6
      <4> QED BY <4>1 DEF TreeInv, TaskHasQueue
    <3>13. AttemptsInQueue'
      <4> SUFFICES ASSUME NEW a \in attempts, ~a.flagged PROVE a.queue = tasks'[a.task].queue
        BY <2>1 DEF AttemptsInQueue
      <4>1. tasks'[a.task].queue = tasks[a.task].queue BY <1>8, <3>2, <3>4, <3>6
      <4> QED BY <4>1 DEF TreeInv, AttemptsInQueue
    <3>14. Found(c)' BY <3>2, <3>4, <3>9, <3>10 DEF Found, Doing, DoingOneOf
    <3>15. Swept(c)' BY <3>9 DEF Swept, Doing
    <3>16. \A d \in Client : d = c BY DEF OneClient
    <3> QED BY <3>11, <3>12, <3>13, <3>14, <3>15, <3>16 DEF TreeInv
  <2>3. CASE t.state = "none"
    <3>1. Fails(c) /\ UNCHANGED tasks BY <1>10, <2>3 DEF UpdateTask
    <3>2. proc'[c].todo = <<>> BY <1>1, <3>1 DEF ProcInv, Fails, Rest
    <3> QED BY <2>1, <3>1, <3>2, CallerRests, SameTree DEF TreeInv
  <2> QED BY <2>2, <2>3
<1>11. h \in {"purge", "insertAttempt"} =>
         tasks[k].state = "live" /\ tasks[k].queue = r.queue /\ tasks[k].scheduled = r.scheduled
  BY <1>1, <1>2 DEF Found, DoingOneOf
<1>12. CASE Purge(c)
  <2>1. /\ h = "purge" /\ GoesOn(c)
        /\ UNCHANGED <<account, apps, queues, tasks, closing>>
    BY <1>12 DEF Purge, Doing
  <2>2. PICK S : FlagAll(S) BY <1>12 DEF Purge
  <2>3. \A a \in attempts' : ~a.flagged => a \in attempts BY <2>2, FlagAllKeeps
  <2> HIDE DEF k, r, h
  <2>4. ChildrenGoFirst' /\ TaskHasQueue' /\ AttemptsInQueue'
    BY <2>1, <2>3 DEF TreeInv, ChildrenGoFirst, TaskHasQueue, AttemptsInQueue
  <2>5. (\A d \in Client : Found(d)') /\ (\A d \in Client : Swept(d)')
    BY <1>1, <1>5, <1>7, <1>11, <2>1, CallerOnward
  <2> QED BY <2>4, <2>5 DEF TreeInv
<1>13. CASE InsertAttempt(c)
  <2> DEFINE b == [task |-> k, queue |-> r.queue, flagged |-> FALSE]
  <2>1. /\ h = "insertAttempt" /\ GoesOn(c) /\ attempts' = attempts \cup {b}
        /\ UNCHANGED <<account, apps, queues, tasks, closing>>
    BY <1>13 DEF InsertAttempt, Doing
  <2>2. b.task = k /\ b.queue = r.queue OBVIOUS
  <2> HIDE DEF b, k, r, h
  <2>3. ChildrenGoFirst' /\ TaskHasQueue' /\ AttemptsInQueue'
    BY <1>11, <2>1, <2>2 DEF TreeInv, ChildrenGoFirst, TaskHasQueue, AttemptsInQueue
  <2>4. (\A d \in Client : Found(d)') /\ (\A d \in Client : Swept(d)')
    BY <1>1, <1>5, <1>7, <2>1, CallerOnward
  <2> QED BY <2>3, <2>4 DEF TreeInv
<1> QED BY <1>9, <1>10, <1>12, <1>13

\* A cascade flags the children first.
LEMMA DeletionKeepsTree ==
  ASSUME OneClient, TypeInv, TreeInv, NEW c \in Client,
         FlagAttempts(c) \/ FlagTasks(c) \/ FlagQueues(c) \/ FlagApps(c) \/ FlagAccount(c)
  PROVE  TreeInv'
<1>r. PICK r : r = Call(c) OBVIOUS
<1>h. PICK h : h = Head(proc[c].todo) OBVIOUS
<1>1. DataInv /\ ProcInv /\ ~Idle(c) /\ UnderWay(c) /\ proc[c] \in Procs
  <2>1. ~Idle(c) BY DEF FlagAttempts, FlagTasks, FlagQueues, FlagApps, FlagAccount, Doing
  <2> QED BY <2>1, TypeParts DEF ProcInv
<1>2. h \in {"attempts", "tasks", "queues", "apps", "account"}
  BY <1>h DEF FlagAttempts, FlagTasks, FlagQueues, FlagApps, FlagAccount, Doing
<1>3. /\ (h = "tasks" \/ (h = "queues" /\ r.op = "DeleteAccount")) => AttemptsSwept(r)
      /\ (h = "apps" \/ (h = "queues" /\ r.op # "DeleteAccount")) => TasksSwept(r)
      /\ (h = "apps" \/ (h = "tasks" /\ r.op = "DeleteAccount")) => QueuesSwept(r)
      /\ h = "account" => AppsSwept
  BY <1>r, <1>h, <1>1 DEF TreeInv, Swept, Doing, Op
<1>4. StepOf(r.op, h) BY <1>r, <1>h, <1>1, CallShape DEF Op
<1>5. h = "queues" => r.task = None BY <1>r, <1>1, <1>4, CallShape DEF StepOf, Op
<1>6. h = "apps" => r.queue = None /\ r.task = None BY <1>r, <1>1, <1>4, CallShape DEF StepOf, Op
<1>7. r.op = "DeleteAccount" => r.app = None /\ closing BY <1>r, <1>1, CallShape DEF UnderWay, Op
<1>8. r = Call(c) /\ h = Head(proc[c].todo) BY <1>r, <1>h
<1>9. \A a \in attempts : a.task \in TaskKeys BY <1>1 DEF DataInv, AttemptDocs
<1>10. \A s \in States : FlagState(s) # "live" BY DEF FlagState, States
<1>11. CASE FlagAttempts(c)
  <2>1. /\ h = "attempts" /\ GoesOn(c)
        /\ UNCHANGED <<account, apps, queues, tasks, closing>>
    BY <1>8, <1>11 DEF FlagAttempts, Doing
  <2>2. FlagAll({a \in attempts : AttemptMatches(r, a)})
    BY <1>8, <1>11 DEF FlagAttempts, AttemptMatches
  <2>3. \A a \in attempts' : ~a.flagged => a \in attempts /\ ~AttemptMatches(r, a)
    <3> DEFINE S == {a \in attempts : AttemptMatches(r, a)}
    <3>1. FlagAll(S) BY <2>2
    <3>2. \A a : a \in S <=> a \in attempts /\ AttemptMatches(r, a) OBVIOUS
    <3> HIDE DEF S
    <3>3. \A a \in attempts' : ~a.flagged => a \in attempts /\ a \notin S
      BY <3>1, FlagAllKeeps
    <3> QED BY <3>2, <3>3
  <2>4. AttemptsSwept(r)'
    <3>1. \A a \in attempts' : AttemptMatches(r, a) => a.flagged BY <2>3
    <3> QED BY <3>1 DEF AttemptsSwept, AttemptMatches
  <2>5. ChildrenGoFirst' /\ TaskHasQueue' /\ AttemptsInQueue'
    BY <2>1, <2>3 DEF TreeInv, ChildrenGoFirst, TaskHasQueue, AttemptsInQueue
  <2>6. (\A d \in Client : Found(d)') /\ (\A d \in Client : Swept(d)')
    BY <1>1, <1>8, <2>1, <2>4, CallerOnward
  <2> QED BY <2>5, <2>6 DEF TreeInv
<1>12. CASE FlagTasks(c)
  <2>1. /\ h = "tasks" /\ GoesOn(c)
        /\ UNCHANGED <<account, apps, queues, attempts, closing>>
    BY <1>8, <1>12 DEF FlagTasks, Doing
  <2>2. tasks' = [k \in TaskKeys |-> IF TaskMatches(r, k)
                                     THEN [tasks[k] EXCEPT !.state = FlagState(@)]
                                     ELSE tasks[k]]
    BY <1>8, <1>12 DEF FlagTasks, TaskMatches
  <2>3. \A k \in TaskKeys : tasks[k] \in TaskDocs BY <1>1 DEF DataInv
  <2>4. ASSUME NEW k \in TaskKeys
        PROVE  /\ tasks'[k].queue = tasks[k].queue
               /\ tasks'[k].state = "live" => tasks'[k] = tasks[k] /\ ~TaskMatches(r, k)
               /\ ~TaskMatches(r, k) => tasks'[k] = tasks[k]
    <3>1. CASE TaskMatches(r, k)
      <4>1. tasks'[k] = [tasks[k] EXCEPT !.state = FlagState(@)] BY <2>2, <3>1
      <4>2. tasks'[k].queue = tasks[k].queue /\ tasks'[k].state = FlagState(tasks[k].state)
        BY <2>3, <4>1 DEF TaskDocs
      <4>3. tasks[k].state \in States BY <2>3 DEF TaskDocs
      <4> QED BY <1>10, <3>1, <4>2, <4>3
    <3>2. CASE ~TaskMatches(r, k) BY <2>2, <3>2
    <3> QED BY <3>1, <3>2
  <2>5. ASSUME NEW a \in attempts, ~a.flagged
        PROVE  tasks'[a.task] = tasks[a.task]
    <3>1. ~AttemptMatches(r, a) BY <1>3, <2>1, <2>5 DEF AttemptsSwept
    <3>2. a.queue = tasks[a.task].queue BY <2>5 DEF TreeInv, AttemptsInQueue
    <3>3. ~TaskMatches(r, a.task) BY <3>1, <3>2 DEF AttemptMatches, TaskMatches
    <3> QED BY <1>9, <2>4, <3>3
  <2>6. ChildrenGoFirst' BY <2>1, <2>4, <2>5 DEF TreeInv, ChildrenGoFirst
  <2>7. TaskHasQueue' BY <2>1, <2>4 DEF TreeInv, TaskHasQueue
  <2>8. AttemptsInQueue' BY <2>1, <2>5 DEF TreeInv, AttemptsInQueue
  <2>9. TasksSwept(r)'
    <3> SUFFICES ASSUME NEW k \in TaskKeys, TaskMatches(r, k)' PROVE tasks'[k].state # "live"
      BY DEF TasksSwept
    <3>1. TaskMatches(r, k) BY <2>4 DEF TaskMatches
    <3> QED BY <2>4, <3>1
  <2>10. r.op = "DeleteAccount" => QueuesSwept(r)'
    BY <1>3, <2>1 DEF QueuesSwept, QueueMatches
  <2>11. (\A d \in Client : Found(d)') /\ (\A d \in Client : Swept(d)')
    BY <1>1, <1>8, <2>1, <2>9, <2>10, CallerOnward
  <2> QED BY <2>6, <2>7, <2>8, <2>11 DEF TreeInv
<1>13. CASE FlagQueues(c)
  <2>1. /\ h = "queues" /\ GoesOn(c)
        /\ UNCHANGED <<account, apps, tasks, attempts, closing>>
    BY <1>8, <1>13 DEF FlagQueues, Doing
  <2> DEFINE Hit(k) == QueueMatches(r, k) /\ (r.op = "DeleteQueues" => k[2] # "default")
  <2>2. queues' = [k \in QueueKeys |-> IF Hit(k)
                                       THEN [queues[k] EXCEPT !.state = FlagState(@)]
                                       ELSE queues[k]]
    BY <1>8, <1>13 DEF FlagQueues, QueueMatches
  <2>3. \A k \in QueueKeys : queues[k] \in [state : States, id : Nat] BY <1>1 DEF DataInv
  <2>4. ASSUME NEW k \in QueueKeys
        PROVE  /\ queues'[k].state = "live" => queues'[k] = queues[k] /\ ~Hit(k)
               /\ ~Hit(k) => queues'[k] = queues[k]
    <3>1. CASE Hit(k)
      <4>1. queues'[k] = [queues[k] EXCEPT !.state = FlagState(@)] BY <2>2, <3>1
      <4>2. queues'[k].state = FlagState(queues[k].state) BY <2>3, <4>1
      <4>3. queues[k].state \in States BY <2>3
      <4> QED BY <1>10, <3>1, <4>2, <4>3
    <3>2. CASE ~Hit(k) BY <2>2, <3>2
    <3> QED BY <3>1, <3>2
  <2>5. ChildrenGoFirst' BY <2>1, <2>4 DEF TreeInv, ChildrenGoFirst
  <2>6. AttemptsInQueue' BY <2>1 DEF TreeInv, AttemptsInQueue
  <2>7. TaskHasQueue'
    <3> SUFFICES ASSUME ~closing, NEW j \in TaskKeys, tasks[j].state = "live", ~tasks[j].revived
                 PROVE  /\ queues'[<<j[1], tasks[j].queue>>].state = "live"
                        /\ queues'[<<j[1], tasks[j].queue>>].id = tasks[j].qid
      BY <2>1 DEF TaskHasQueue
    <3> DEFINE k == <<j[1], tasks[j].queue>>
    <3>1. k \in QueueKeys
      BY <1>1 DEF DataInv, QueuesNamed, StoredTask, QueueKeys, TaskKeys
    <3>2. queues[k].state = "live" /\ queues[k].id = tasks[j].qid
      BY DEF TreeInv, TaskHasQueue
    <3>3. TasksSwept(r) BY <1>3, <1>7, <2>1
    <3>4. ~TaskMatches(r, j) BY <3>3 DEF TasksSwept
    <3>5. Matches(r.task, j[2]) BY <1>5, <2>1 DEF Matches
    <3>6. ~QueueMatches(r, k) BY <3>4, <3>5 DEF TaskMatches, QueueMatches
    <3> QED BY <2>4, <3>1, <3>2, <3>6
  <2>8. r.op # "DeleteQueues" => QueuesSwept(r)'
    <3> SUFFICES ASSUME r.op # "DeleteQueues", NEW k \in QueueKeys, QueueMatches(r, k)
                 PROVE  queues'[k].state # "live"
      BY DEF QueuesSwept, QueueMatches
    <3> QED BY <2>4
  <2>9. r.op = "DeleteAccount" => AttemptsSwept(r)'
    BY <1>3, <2>1 DEF AttemptsSwept, AttemptMatches
  <2>10. r.op # "DeleteAccount" => TasksSwept(r)'
    BY <1>3, <2>1 DEF TasksSwept, TaskMatches
  <2>11. (\A d \in Client : Found(d)') /\ (\A d \in Client : Swept(d)')
    BY <1>1, <1>8, <2>1, <2>8, <2>9, <2>10, CallerOnward
  <2> QED BY <2>5, <2>6, <2>7, <2>11 DEF TreeInv
<1>14. CASE FlagApps(c)
  <2>1. /\ h = "apps" /\ GoesOn(c)
        /\ UNCHANGED <<account, queues, tasks, attempts, closing>>
    BY <1>8, <1>14 DEF FlagApps, Doing
  <2>2. \A x \in App :
          /\ apps'[x] = "live" => apps[x] = "live"
          /\ ~Matches(r.app, x) => apps'[x] = apps[x]
          /\ Matches(r.app, x) /\ r.op # "DeleteApplications" => apps'[x] # "live"
    BY <1>1, <1>8, <1>10, <1>14 DEF FlagApps, DataInv
  <2>3. r.queue = None /\ r.task = None /\ TasksSwept(r) /\ QueuesSwept(r)
    BY <1>3, <1>6, <2>1
  <2>4. ASSUME NEW k \in QueueKeys, queues[k].state = "live" PROVE apps'[k[1]] = "live"
    <3>1. ~Matches(r.app, k[1])
      BY <2>3, <2>4 DEF QueuesSwept, QueueMatches, Matches
    <3>2. k[1] \in App BY DEF QueueKeys
    <3> QED BY <2>2, <2>4, <3>1, <3>2 DEF TreeInv, ChildrenGoFirst
  <2>5. ASSUME NEW k \in TaskKeys, tasks[k].state = "live" PROVE apps'[k[1]] = "live"
    <3>1. ~Matches(r.app, k[1])
      BY <2>3, <2>5 DEF TasksSwept, TaskMatches, Matches
    <3>2. k[1] \in App BY DEF TaskKeys
    <3> QED BY <2>2, <2>5, <3>1, <3>2 DEF TreeInv, ChildrenGoFirst
  <2>6. ChildrenGoFirst' BY <2>1, <2>2, <2>4, <2>5 DEF TreeInv, ChildrenGoFirst
  <2>7. TaskHasQueue' /\ AttemptsInQueue' BY <2>1 DEF TreeInv, TaskHasQueue, AttemptsInQueue
  <2>8. r.op = "DeleteAccount" => AppsSwept' BY <1>7, <2>2 DEF AppsSwept, Matches
  <2>9. (\A d \in Client : Found(d)') /\ (\A d \in Client : Swept(d)')
    BY <1>1, <1>8, <2>1, <2>8, CallerOnward
  <2> QED BY <2>6, <2>7, <2>9 DEF TreeInv
<1>15. CASE FlagAccount(c)
  <2>1. h = "account" /\ UNCHANGED <<apps, queues, tasks, attempts, closing>>
    BY <1>8, <1>15 DEF FlagAccount, Doing
  <2>2. AppsSwept BY <1>3, <2>1
  <2>3. ChildrenGoFirst' BY <2>1, <2>2 DEF TreeInv, ChildrenGoFirst, AppsSwept
  <2>4. TaskHasQueue' /\ AttemptsInQueue' BY <2>1 DEF TreeInv, TaskHasQueue, AttemptsInQueue
  <2>5. CASE GoesOn(c)
    <3>1. (\A d \in Client : Found(d)') /\ (\A d \in Client : Swept(d)')
      BY <1>1, <1>8, <2>1, <2>5, CallerOnward
    <3> QED BY <2>3, <2>4, <3>1 DEF TreeInv
  <2>6. CASE Fails(c)
    <3>1. proc'[c].todo = <<>> BY <1>1, <2>6 DEF ProcInv, Fails, Rest
    <3> QED BY <2>3, <2>4, <3>1, CallerRests DEF TreeInv
  <2> QED BY <1>15, <2>5, <2>6 DEF FlagAccount
<1> QED BY <1>11, <1>12, <1>13, <1>14, <1>15

\* The first step of a call.
LEMMA PlanHead ==
  ASSUME NEW op \in Ops
  PROVE  /\ Head(Plan[op]) \in {"insertAccount", "insertApp", "findApp", "attempts"}
         /\ Head(Plan[op]) = "insertApp" => op = "PutApplication"
BY DEF Plan, Ops

\* A call that begins has found nothing but the account of who makes it.
LEMMA IssueKeepsTree ==
  ASSUME OneClient, TypeInv, TreeInv, NEW c \in Client, NEW r \in Calls, Issue(c, r),
         UNCHANGED <<account, apps, queues, tasks, attempts>>, closing => closing'
  PROVE  TreeInv'
<1>1. ChildrenGoFirst' /\ TaskHasQueue' /\ AttemptsInQueue' BY SameTree
<1>2. proc \in [Client -> Procs] BY TypeParts DEF ProcInv
<1>3. CASE Forbidden(r) \/ ~Authorized(r)
  <2>1. proc' = [proc EXCEPT ![c] = Rest(FALSE)] BY <1>3 DEF Issue, Fails
  <2>2. proc'[c].todo = <<>> BY <1>2, <2>1 DEF Rest
  <2> QED BY <1>1, <2>2, CallerRests DEF TreeInv
<1>4. CASE ~Forbidden(r) /\ Authorized(r)
  <2> DEFINE p == [call |-> r, qid |-> 0, todo |-> Plan[r.op], ok |-> TRUE]
  <2>1. proc' = [proc EXCEPT ![c] = p] BY <1>4 DEF Issue
  <2>2. proc'[c] = p BY <1>2, <2>1
  <2>3. Head(proc'[c].todo) = Head(Plan[r.op]) BY <2>2
  <2>4. r.op \in Ops BY DEF Calls
  <2>5. r.op = "PutApplication" => account' = "live" BY <1>4 DEF Authorized
  <2>6. Found(c)'
    BY <2>3, <2>4, <2>5, PlanHead DEF Found, Doing, DoingOneOf
  <2>7. Swept(c)' BY <2>3, <2>4, PlanHead DEF Swept, Doing
  <2>8. \A d \in Client : d = c BY DEF OneClient
  <2> QED BY <1>1, <2>6, <2>7, <2>8 DEF TreeInv
<1> QED BY <1>3, <1>4

\* The cleaner removes what is flagged, and nothing live.
LEMMA CleanerKeepsTree ==
  ASSUME TypeInv, TreeInv, CleanerStep \/ CleanerFails
  PROVE  TreeInv'
<1>1. DataInv BY TypeParts
<1>2. UNCHANGED <<proc, closing>>
  BY DEF CleanerStep, CleanerFails, CleanerStarts, CleanAttempts, CleanTasks, CleanQueues,
         CleanApps, CleanAccount
<1>3. CASE CleanerStarts \/ CleanerFails
  BY <1>2, <1>3, LiveStays DEF CleanerStarts, CleanerFails
<1>4. CASE CleanAttempts BY <1>2, <1>4, LiveStays DEF CleanAttempts
<1>5. CASE CleanTasks
  <2>1. ASSUME NEW k \in TaskKeys, tasks[k].state = "live" \/ tasks'[k].state = "live"
        PROVE  tasks'[k] = tasks[k]
    BY <1>5, <2>1 DEF CleanTasks, NoTask
  <2>2. UNCHANGED <<account, apps, queues, attempts>> BY <1>5 DEF CleanTasks
  <2> QED BY <1>2, <2>1, <2>2, LiveStays
<1>6. CASE CleanQueues
  <2>1. ASSUME NEW k \in QueueKeys, queues[k].state = "live" \/ queues'[k].state = "live"
        PROVE  queues'[k] = queues[k]
    BY <1>6, <2>1 DEF CleanQueues, NoQueue
  <2>2. UNCHANGED <<account, apps, tasks, attempts>> BY <1>6 DEF CleanQueues
  <2> QED BY <1>2, <2>1, <2>2, LiveStays
<1>7. CASE CleanApps
  <2>1. \A x \in App : apps'[x] = "live" <=> apps[x] = "live" BY <1>1, <1>7 DEF CleanApps, DataInv
  <2>2. UNCHANGED <<account, queues, tasks, attempts>> BY <1>7 DEF CleanApps
  <2> QED BY <1>2, <2>1, <2>2, LiveStays
<1>8. CASE CleanAccount
  <2>1. account = "live" => account' = "live" BY <1>8 DEF CleanAccount
  <2>2. UNCHANGED <<apps, queues, tasks, attempts>> BY <1>8 DEF CleanAccount
  <2> QED BY <1>2, <2>1, <2>2, LiveStays
<1> QED BY <1>3, <1>4, <1>5, <1>6, <1>7, <1>8 DEF CleanerStep

\* At first there is nothing to be found.
LEMMA TreeInit == Init => TreeInv
<1> SUFFICES ASSUME Init PROVE TreeInv OBVIOUS
<1>1. /\ apps = [x \in App |-> "none"] /\ queues = [k \in QueueKeys |-> NoQueue]
      /\ tasks = [k \in TaskKeys |-> NoTask] /\ attempts = {}
      /\ proc = [c \in Client |-> Rest(TRUE)]
  BY DEF Init, ResInit
<1>2. \A c \in Client : proc[c].todo = <<>> BY <1>1 DEF Rest
<1>3. \A c \in Client : Found(c) BY <1>2 DEF Found, Doing, DoingOneOf, Idle
<1>4. \A c \in Client : Swept(c) BY <1>2 DEF Swept, Doing, Idle
<1> QED
  BY <1>1, <1>3, <1>4
  DEF TreeInv, ChildrenGoFirst, TaskHasQueue, AttemptsInQueue, NoQueue, NoTask

\* With one client, the tree is kept by every step.
LEMMA TreeNext ==
  ASSUME OneClient, TypeInv, TreeInv, [Next]_vars
  PROVE  TreeInv'
<1>1. DataInv /\ ProcInv /\ SyncType BY TypeParts
<1>2. ASSUME NEW c \in Client, NEW r \in Request, Ask(c, r) PROVE TreeInv'
  <2>1. /\ Issue(c, r) /\ (closing => closing')
        /\ UNCHANGED <<account, apps, queues, tasks, attempts>>
    BY <1>2 DEF Ask, Begin
  <2>2. r \in Calls BY ResourcesAssumption
  <2> QED BY <2>1, <2>2, IssueKeepsTree
<1>3. ASSUME NEW c \in Client, SyncStarts(c) PROVE TreeInv'
  <2>1. /\ proc[c].todo = <<>> /\ proc' = [proc EXCEPT ![c].ok = TRUE]
        /\ UNCHANGED <<account, apps, queues, tasks, attempts, closing>>
    BY <1>3 DEF SyncStarts, Idle
  <2>2. proc'[c].todo = <<>> BY <1>1, <2>1 DEF ProcInv, Procs
  <2>3. ChildrenGoFirst' /\ TaskHasQueue' /\ AttemptsInQueue' BY <2>1, SameTree
  <2> QED BY <2>2, <2>3, CallerRests DEF TreeInv
<1>4. ASSUME NEW c \in Client, SyncCalls(c) PROVE TreeInv'
  <2>1. /\ Issue(c, Head(sync[c].agenda)) /\ sync[c].agenda # <<>>
        /\ UNCHANGED <<account, apps, queues, tasks, attempts, closing>>
    BY <1>4 DEF SyncCalls
  <2>2. sync[c].agenda \in Seq(Calls) /\ AgendaOps(c) BY <1>1 DEF SyncType, Locals
  <2>3. Head(sync[c].agenda) \in Calls BY <2>1, <2>2, AgendaHead
  <2> QED BY <2>1, <2>3, IssueKeepsTree
<1>5. ASSUME UNCHANGED resVars PROVE TreeInv' BY <1>5, LiveStays DEF resVars
<1>6. ASSUME NEW c \in Client, SyncAborts(c) \/ SyncLists(c) \/ SyncListFails(c) \/ SyncEnds(c)
      PROVE  TreeInv'
  <2>1. UNCHANGED resVars \/ UNCHANGED <<account, apps, queues, tasks, attempts, proc, closing>>
    BY <1>6 DEF SyncAborts, SyncLists, SyncListFails, SyncEnds
  <2>2. ASSUME UNCHANGED <<account, apps, queues, tasks, attempts, proc, closing>> PROVE TreeInv'
    BY <2>2, LiveStays
  <2> QED BY <1>5, <2>1, <2>2
<1>7. ASSUME NEW c \in Client, CallStep(c) \/ Fail(c) PROVE TreeInv'
  BY <1>7, CreationKeepsTree, TasksKeepTree, DeletionKeepsTree DEF CallStep
<1>8. CASE CleanerStep \/ CleanerFails BY <1>8, CleanerKeepsTree
<1>9. CASE UNCHANGED vars BY <1>5, <1>9 DEF vars
<1> QED BY <1>2, <1>3, <1>4, <1>6, <1>7, <1>8, <1>9 DEF Next, ResStep

\* The tree is as it should be in every reachable state.
LEMMA TreeAlways == OneClient /\ Spec => [](TypeInv /\ TreeInv)
<1>1. Init => TypeInv /\ TreeInv BY TypeInit, TreeInit
<1>2. OneClient /\ TypeInv /\ TreeInv /\ [Next]_vars => (TypeInv /\ TreeInv)'
  BY TypeNext, TreeNext
<1>3. OneClient => OneClient' BY DEF OneClient
<1> QED BY <1>1, <1>2, <1>3, PTL DEF Spec

\* However a creation or a cascade is cut short, and whatever the cleaner has
\* removed meanwhile, nothing live stands under something that is not: with one
\* client, for every account, set of names, number of failures and order of calls.
THEOREM ChildrenAlwaysGoFirst == OneClient /\ Spec => []ChildrenGoFirst
<1>1. TypeInv /\ TreeInv => ChildrenGoFirst BY DEF TreeInv
<1> QED BY TreeAlways, <1>1, PTL

\* Under the same premise a task that was not revived has the queue it was
\* created for, by its name and by its id.
THEOREM TaskAlwaysHasQueue == OneClient /\ Spec => []TaskHasQueue
<1>1. TypeInv /\ TreeInv => TaskHasQueue BY DEF TreeInv
<1> QED BY TreeAlways, <1>1, PTL
-----------------------------------------------------------------------------
(* A synchronisation, with one client *)

\* A step that the synchronisation does not see.
LEMMA SyncUnmoved ==
  ASSUME SyncInv, UNCHANGED <<proc, sync>>, Listed' = Listed
  PROVE  SyncInv'
<1>1. SyncedExactly' BY DEF SyncInv, SyncedExactly, At
<1>2. ASSUME NEW c \in Client PROVE PutPhase(c)' /\ DeletePhase(c)' /\ (At(c, "done") => Idle(c))'
  <2>1. PutPhase(c) /\ DeletePhase(c) /\ (At(c, "done") => Idle(c)) BY DEF SyncInv
  <2>2. PutPhase(c)'
    BY <2>1 DEF PutPhase, At, Idle, AllOk, OnAgenda, Putting, Op, Call
  <2>3. DeletePhase(c)'
    BY <2>1 DEF DeletePhase, At, Idle, AllOk, OnAgenda, Deleting, Call
  <2>4. (At(c, "done") => Idle(c))' BY <2>1 DEF At, Idle
  <2> QED BY <2>2, <2>3, <2>4
<1> QED BY <1>1, <1>2 DEF SyncInv

\* A client that is not synchronising.
LEMMA SyncNone ==
  ASSUME OneClient, NEW c \in Client, sync'[c].pc = "none"
  PROVE  SyncInv'
<1>1. \A d \in Client : sync'[d].pc = "none" BY DEF OneClient
<1> QED BY <1>1 DEF SyncInv, SyncedExactly, PutPhase, DeletePhase, At

\* A synchronisation starts with all of the file before it.
LEMMA SyncStartsRight ==
  ASSUME OneClient, TypeInv, SyncInv, NEW c \in Client, SyncStarts(c)
  PROVE  SyncInv'
<1> DEFINE s == IF apps[SyncApp] = "live" THEN Puts ELSE <<PutApp>> \o Puts
           l == [NoSync EXCEPT !.pc = "put", !.agenda = s]
<1>1. ProcInv /\ SyncType BY TypeParts
<1>2. /\ sync' = [sync EXCEPT ![c] = l] /\ proc' = [proc EXCEPT ![c].ok = TRUE]
      /\ proc[c].todo = <<>>
  BY DEF SyncStarts, Idle
<1>3. /\ File \in Seq(TName) /\ DOMAIN File = 1..Len(File) /\ Len(File) \in Nat
      /\ DOMAIN Puts = DOMAIN File /\ \A i \in DOMAIN File : Puts[i] = PutTask(File[i])
  BY CrontabAssumption DEF Puts
<1>4. Puts \in Seq(Calls) /\ <<PutApp>> \in Seq(Calls) BY SyncCallTypes
<1>5. PICK ps : ps = Puts OBVIOUS
<1>6. PICK pa : pa = PutApp OBVIOUS
<1>7. /\ \A i \in DOMAIN (<<pa>> \o ps) :
           \/ (<<pa>> \o ps)[i] = pa
           \/ i - 1 \in DOMAIN ps /\ (<<pa>> \o ps)[i] = ps[i - 1]
      /\ \A i \in DOMAIN ps :
           i + 1 \in DOMAIN (<<pa>> \o ps) /\ (<<pa>> \o ps)[i + 1] = ps[i]
  <2>1. ps \in Seq(Calls) /\ <<pa>> \in Seq(Calls) BY <1>4, <1>5, <1>6
  <2>2. ASSUME NEW i \in DOMAIN (<<pa>> \o ps)
        PROVE  \/ (<<pa>> \o ps)[i] = pa
               \/ i - 1 \in DOMAIN ps /\ (<<pa>> \o ps)[i] = ps[i - 1]
    BY <2>1
  <2>3. ASSUME NEW i \in DOMAIN ps
        PROVE  i + 1 \in DOMAIN (<<pa>> \o ps) /\ (<<pa>> \o ps)[i + 1] = ps[i]
    BY <2>1
  <2> QED BY <2>2, <2>3
<1>8. /\ \A i \in DOMAIN s : s[i] = PutApp \/ \E j \in DOMAIN File : s[i] = PutTask(File[j])
      /\ \A j \in DOMAIN File : \E i \in DOMAIN s : s[i] = PutTask(File[j])
  <2> HIDE DEF s
  <2>1. CASE s = ps BY <1>3, <1>5, <2>1
  <2>2. CASE s = <<pa>> \o ps
    <3>1. \A i \in DOMAIN s : s[i] = pa \/ \E j \in DOMAIN File : s[i] = PutTask(File[j])
      BY <1>3, <1>5, <1>7, <2>2
    <3>2. ASSUME NEW j \in DOMAIN File PROVE \E i \in DOMAIN s : s[i] = PutTask(File[j])
      <4>1. j \in DOMAIN ps /\ ps[j] = PutTask(File[j]) BY <1>3, <1>5
      <4>2. j + 1 \in DOMAIN s /\ s[j + 1] = ps[j] BY <1>7, <2>2, <4>1
      <4> QED BY <4>1, <4>2
    <3> QED BY <1>6, <3>1, <3>2
  <2>3. s = ps \/ s = <<pa>> \o ps BY <1>5, <1>6 DEF s
  <2> QED BY <2>1, <2>2, <2>3
<1>9. l.pc = "put" /\ l.agenda = s BY DEF NoSync
<1> HIDE DEF s, l
<1>10. sync'[c] = l BY <1>1, <1>2 DEF SyncType
<1>11. proc'[c].todo = <<>> BY <1>1, <1>2 DEF ProcInv, Procs
<1>12. \A t : t \in Range(File) <=> \E j \in DOMAIN File : t = File[j] BY DEF Range
<1>13. PutPhase(c)'
  <2>1. \A i \in DOMAIN sync'[c].agenda :
          sync'[c].agenda[i] = PutApp \/ \E t \in Range(File) : sync'[c].agenda[i] = PutTask(t)
    BY <1>8, <1>9, <1>10, <1>12
  <2>2. \A t \in Range(File) : OnAgenda(c, PutTask(t))'
    BY <1>8, <1>9, <1>10, <1>12 DEF OnAgenda
  <2> QED BY <1>11, <2>1, <2>2 DEF PutPhase, Idle
<1>14. sync'[c].pc = "put" BY <1>9, <1>10
<1>15. \A d \in Client : d = c BY DEF OneClient
<1> QED BY <1>13, <1>14, <1>15 DEF SyncInv, SyncedExactly, DeletePhase, At

\* A synchronisation ends with nothing left to delete.
LEMMA SyncEndsRight ==
  ASSUME OneClient, TypeInv, SyncInv, NEW c \in Client, SyncEnds(c)
  PROVE  SyncInv'
<1>1. SyncType BY TypeParts
<1>2. /\ sync[c].pc = "delete" /\ Idle(c) /\ sync[c].agenda = <<>>
      /\ sync' = [sync EXCEPT ![c].pc = "done", ![c].ok = AllOk(c)]
      /\ UNCHANGED <<proc, tasks>>
  BY DEF SyncEnds, At, resVars
<1>3. /\ sync'[c].pc = "done" /\ sync'[c].ok = AllOk(c) /\ sync'[c].beyond = sync[c].beyond
  BY <1>1, <1>2 DEF SyncType, Locals
<1>4. Listed' = Listed BY <1>2 DEF Listed, Scheduled
<1>5. DeletePhase(c) BY DEF SyncInv
<1>6. AllOk(c) => Range(File) \subseteq Listed /\ Listed \ Range(File) \subseteq sync[c].beyond
  <2>1. \A r : ~OnAgenda(c, r) BY <1>2 DEF OnAgenda
  <2>2. \A t : ~Deleting(c, t) BY <1>2 DEF Deleting
  <2> QED BY <1>2, <1>5, <2>1, <2>2 DEF DeletePhase, At
<1>7. Idle(c)' BY <1>2 DEF Idle
<1>8. \A d \in Client : d = c BY DEF OneClient
<1> QED BY <1>3, <1>4, <1>6, <1>7, <1>8 DEF SyncInv, SyncedExactly, PutPhase, DeletePhase, At

\* The list has no task twice: what is deleted of it is all that is to be.
LEMMA ListedOnce ==
  ASSUME OrderInv, NEW S \in SUBSET TName, NEW s \in InListOrder(S), NEW t \in S
  PROVE  \E i \in DOMAIN s : s[i] = t
<1> DEFINE N == Cardinality(S)
<1>1. s \in [1..N -> S] /\ \A i, j \in DOMAIN s : i < j => s[i] \in NewerThan(s[j])
  BY DEF InListOrder
<1>2. IsFiniteSet(S) BY ResourcesAssumption, FS_Subset
<1>3. N \in Nat BY <1>2, FS_CardinalityType
<1>4. \A i, j \in 1..N : i < j => <<<<SyncApp, s[j]>>, <<SyncApp, s[i]>>>> \in older
  BY <1>1 DEF NewerThan
<1>5. \A k \in TaskKeys : <<k, k>> \notin older BY DEF OrderInv
<1>6. \A u \in TName : <<SyncApp, u>> \in TaskKeys BY CrontabAssumption DEF TaskKeys
<1>7. Cardinality(1..N) = N
  <2> HIDE DEF N
  <2>1. Cardinality(1..N) = IF 1 > N THEN 0 ELSE N - 1 + 1 BY <1>3, FS_Interval
  <2> QED BY <1>3, <2>1
<1>8. ASSUME NEW i \in 1..N, NEW j \in 1..N, i < j PROVE s[i] # s[j]
  BY <1>1, <1>4, <1>5, <1>6, <1>8
<1>9. s \in Injection(1..N, S)
  <2>1. ASSUME NEW i \in 1..N, NEW j \in 1..N, s[i] = s[j] PROVE i = j
    <3>1. i < j \/ i = j \/ j < i BY <1>3
    <3> QED BY <1>8, <2>1, <3>1
  <2> HIDE DEF N
  <2> QED BY <1>1, <2>1 DEF Injection, IsInjective
<1> HIDE DEF N
<1>10. s \in Surjection(1..N, S)
  <2>1. Cardinality(S) = N BY DEF N
  <2> QED BY <1>2, <1>7, <1>9, <2>1, FS_Injection
<1> QED BY <1>1, <1>10 DEF Surjection

\* Everything listed that the file does not have is on the page, and deleted,
\* or beyond.
LEMMA SyncListsRight ==
  ASSUME OneClient, TypeInv, SyncInv, NEW c \in Client, SyncLists(c)
  PROVE  SyncInv'
<1>1. OrderInv /\ SyncType BY TypeParts
<1>2. PICK surplus \in InListOrder(FirstPage \ Range(File)) :
        sync' = [sync EXCEPT ![c] =
          [pc |-> "delete", ok |-> AllOk(c),
           agenda |-> [i \in DOMAIN surplus |-> DeleteTask(surplus[i])],
           beyond |-> Listed \ FirstPage]]
  BY DEF SyncLists
<1>3. /\ At(c, "put") /\ Idle(c) /\ sync[c].agenda = <<>> /\ UNCHANGED <<proc, tasks>>
  BY DEF SyncLists, resVars
<1> DEFINE l == [pc |-> "delete", ok |-> AllOk(c),
                 agenda |-> [i \in DOMAIN surplus |-> DeleteTask(surplus[i])],
                 beyond |-> Listed \ FirstPage]
<1>4. sync'[c] = l BY <1>1, <1>2 DEF SyncType
<1>5. /\ sync'[c].pc = "delete" /\ sync'[c].ok = AllOk(c)
      /\ sync'[c].beyond = Listed \ FirstPage
      /\ DOMAIN sync'[c].agenda = DOMAIN surplus
      /\ \A i \in DOMAIN surplus : sync'[c].agenda[i] = DeleteTask(surplus[i])
  BY <1>4
<1>6. FirstPage \ Range(File) \in SUBSET TName BY DEF FirstPage, Listed
<1>7. \A i \in DOMAIN surplus : surplus[i] \in FirstPage \ Range(File)
  BY <1>6, ListOrderType
<1>8. \A t \in FirstPage \ Range(File) : OnAgenda(c, DeleteTask(t))'
  BY <1>1, <1>5, <1>6, ListedOnce DEF OnAgenda
<1>9. PutPhase(c) BY DEF SyncInv
<1>10. AllOk(c) => Range(File) \subseteq Listed
  <2>1. \A r : ~OnAgenda(c, r) BY <1>3 DEF OnAgenda
  <2>2. \A t : ~Putting(c, t) BY <1>3 DEF Putting
  <2> QED BY <1>3, <1>9, <2>1, <2>2 DEF PutPhase
<1>11. Listed' = Listed BY <1>3 DEF Listed, Scheduled
<1>12. AllOk(c)' => AllOk(c) BY <1>5 DEF AllOk
<1>13. Idle(c)' BY <1>3 DEF Idle
<1>14. DeletePhase(c)'
  <2>1. \A i \in DOMAIN sync'[c].agenda :
          \E t \in TName \ Range(File) : sync'[c].agenda[i] = DeleteTask(t)
    BY <1>5, <1>6, <1>7
  <2>2. \A t \in (Listed' \ Range(File)) \ sync'[c].beyond : OnAgenda(c, DeleteTask(t))'
    BY <1>5, <1>8, <1>11
  <2> QED BY <1>10, <1>11, <1>12, <1>13, <2>1, <2>2 DEF DeletePhase
<1>15. \A d \in Client : d = c BY DEF OneClient
<1> QED BY <1>5, <1>14, <1>15 DEF SyncInv, SyncedExactly, PutPhase, At

\* When the list failed nothing is claimed any more.
LEMMA SyncListFailsRight ==
  ASSUME OneClient, TypeInv, SyncInv, NEW c \in Client, SyncListFails(c)
  PROVE  SyncInv'
<1>1. SyncType BY TypeParts
<1> DEFINE none == [NoSync EXCEPT !.pc = "delete", !.ok = FALSE]
<1>2. /\ sync' = [sync EXCEPT ![c] = NoSync] \/ sync' = [sync EXCEPT ![c] = none]
      /\ Idle(c) /\ UNCHANGED proc
  BY DEF SyncListFails
<1>3. CASE sync' = [sync EXCEPT ![c] = NoSync]
  <2>1. sync'[c].pc = "none" BY <1>1, <1>3 DEF SyncType, NoSync
  <2> QED BY <2>1, SyncNone
<1>4. CASE sync' = [sync EXCEPT ![c] = none]
  <2>1. sync'[c].pc = "delete" /\ sync'[c].ok = FALSE /\ sync'[c].agenda = <<>>
    BY <1>1, <1>4 DEF SyncType, NoSync
  <2>2. ~AllOk(c)' /\ Idle(c)' BY <1>2, <2>1 DEF AllOk, Idle
  <2>3. DeletePhase(c)' BY <2>1, <2>2 DEF DeletePhase
  <2>4. \A d \in Client : d = c BY DEF OneClient
  <2> QED BY <2>1, <2>3, <2>4 DEF SyncInv, SyncedExactly, PutPhase, At
<1> QED BY <1>2, <1>3, <1>4

\* A call that is made leaves the rest of the agenda.
LEMMA AgendaTail ==
  ASSUME NEW s \in Seq(Calls), s # <<>>, NEW i \in DOMAIN s
  PROVE  s[i] = Head(s) \/ \E j \in DOMAIN Tail(s) : Tail(s)[j] = s[i]
<1>1. CASE i = 1 BY <1>1
<1>2. CASE i # 1
  <2>1. i - 1 \in DOMAIN Tail(s) /\ Tail(s)[i - 1] = s[i] BY <1>2
  <2> QED BY <2>1
<1> QED BY <1>1, <1>2

\* What is made of a call of the agenda is what the agenda had.
LEMMA SyncCallsRight ==
  ASSUME OneClient, TypeInv, SyncInv, NEW c \in Client, SyncCalls(c)
  PROVE  SyncInv'
<1>1. ProcInv /\ SyncType BY TypeParts
<1>2. PICK s : s = sync[c].agenda OBVIOUS
<1>3. PICK hd : hd = Head(s) OBVIOUS
<1>4. /\ sync[c].pc \in {"put", "delete"} /\ Idle(c) /\ s # <<>> /\ Issue(c, hd)
      /\ sync' = [sync EXCEPT ![c].agenda = Tail(@), ![c].ok = AllOk(c)]
      /\ UNCHANGED tasks
  BY <1>2, <1>3 DEF SyncCalls
<1>5. s \in Seq(Calls) /\ sync[c] \in Locals /\ AgendaOps(c) BY <1>1, <1>2 DEF SyncType, Locals
<1>6. /\ sync'[c].pc = sync[c].pc /\ sync'[c].ok = AllOk(c)
      /\ sync'[c].beyond = sync[c].beyond /\ sync'[c].agenda = Tail(s)
  BY <1>1, <1>2, <1>4, <1>5 DEF SyncType, Locals
<1>7. hd = s[1] /\ 1 \in DOMAIN s
      /\ \A j \in DOMAIN Tail(s) : j + 1 \in DOMAIN s /\ Tail(s)[j] = s[j + 1]
  BY <1>2, <1>3, <1>4, <1>5, AgendaHead
<1>8. \A i \in DOMAIN s : s[i] = hd \/ \E j \in DOMAIN Tail(s) : Tail(s)[j] = s[i]
  BY <1>3, <1>4, <1>5, AgendaTail
<1>9. \/ proc'[c].todo = <<>> /\ proc'[c].ok = FALSE
      \/ proc'[c].call = hd /\ proc'[c].todo # <<>> /\ proc'[c].ok = TRUE
  <2>1. CASE Forbidden(hd) \/ ~Authorized(hd)
    <3>1. proc' = [proc EXCEPT ![c] = Rest(FALSE)] BY <1>4, <2>1 DEF Issue, Fails
    <3> QED BY <1>1, <3>1 DEF ProcInv, Rest
  <2>2. CASE ~(Forbidden(hd) \/ ~Authorized(hd))
    <3>1. proc' = [proc EXCEPT ![c] = [call |-> hd, qid |-> 0, todo |-> Plan[hd.op], ok |-> TRUE]]
      BY <1>4, <2>2 DEF Issue
    <3>2. hd.op \in Ops BY <1>5, <1>7 DEF Calls
    <3>3. Plan[hd.op] # <<>> BY <3>2, PlanLeft
    <3> QED BY <1>1, <3>1, <3>3 DEF ProcInv
  <2> QED BY <2>1, <2>2
<1>10. Listed' = Listed BY <1>4 DEF Listed, Scheduled
<1>11. AllOk(c)' => AllOk(c) /\ proc'[c].call = hd /\ proc'[c].todo # <<>>
  BY <1>6, <1>9 DEF AllOk
<1>12. ~Idle(c)' => Call(c)' = hd BY <1>9 DEF Idle, Call
<1>13. AllOk(c)' => ~Idle(c)' BY <1>11 DEF Idle
<1>14. \A r : OnAgenda(c, r) => r = hd \/ OnAgenda(c, r)' BY <1>2, <1>6, <1>8 DEF OnAgenda
<1>15. PutPhase(c) /\ DeletePhase(c) BY DEF SyncInv
<1>16. PutPhase(c)'
  <2> SUFFICES ASSUME sync[c].pc = "put" PROVE PutPhase(c)' BY <1>6 DEF PutPhase, At
  <2>1. \A i \in DOMAIN s : s[i] = PutApp \/ \E t \in Range(File) : s[i] = PutTask(t)
    BY <1>2, <1>15 DEF PutPhase, At
  <2>2. \A i \in DOMAIN Tail(s) : Tail(s)[i] = PutApp \/ \E t \in Range(File) : Tail(s)[i] = PutTask(t)
    BY <1>7, <2>1
  <2>3. ASSUME NEW t, hd = PutTask(t), ~Idle(c)' PROVE Putting(c, t)'
    BY <1>12, <2>3 DEF Putting, Op, PutTask
  <2>4. ~Idle(c)' => Op(c)' = "PutApplication" \/ \E t \in Range(File) : Putting(c, t)'
    <3>1. CASE hd = PutApp BY <1>12, <3>1 DEF Op, PutApp
    <3>2. CASE \E t \in Range(File) : hd = PutTask(t) BY <2>3, <3>2
    <3> QED BY <1>7, <2>1, <3>1, <3>2
  <2>5. ASSUME AllOk(c)', NEW t \in Range(File)
        PROVE  t \in Listed' \/ OnAgenda(c, PutTask(t))' \/ Putting(c, t)'
    <3>1. t \in Listed \/ OnAgenda(c, PutTask(t))
      BY <1>4, <1>11, <1>15, <2>5 DEF PutPhase, At, Putting
    <3> QED BY <1>10, <1>13, <1>14, <2>3, <2>5, <3>1
  <2> QED BY <1>6, <2>2, <2>4, <2>5 DEF PutPhase
<1>17. DeletePhase(c)'
  <2> SUFFICES ASSUME sync[c].pc = "delete" PROVE DeletePhase(c)' BY <1>6 DEF DeletePhase, At
  <2>1. \A i \in DOMAIN s : \E t \in TName \ Range(File) : s[i] = DeleteTask(t)
    BY <1>2, <1>15 DEF DeletePhase, At
  <2>2. \A i \in DOMAIN Tail(s) : \E t \in TName \ Range(File) : Tail(s)[i] = DeleteTask(t)
    BY <1>7, <2>1
  <2>3. ASSUME NEW t, hd = DeleteTask(t), ~Idle(c)' PROVE Deleting(c, t)'
    BY <1>12, <2>3 DEF Deleting
  <2>4. ~Idle(c)' => \E t \in TName \ Range(File) : Deleting(c, t)' BY <1>7, <2>1, <2>3
  <2>5. AllOk(c)' => Range(File) \subseteq Listed'
    BY <1>10, <1>11, <1>15 DEF DeletePhase, At
  <2>6. ASSUME AllOk(c)', NEW t \in (Listed \ Range(File)) \ sync[c].beyond
        PROVE  OnAgenda(c, DeleteTask(t))' \/ Deleting(c, t)'
    <3>1. OnAgenda(c, DeleteTask(t))
      BY <1>4, <1>11, <1>15, <2>6 DEF DeletePhase, At, Deleting
    <3> QED BY <1>13, <1>14, <2>3, <2>6, <3>1
  <2> QED BY <1>6, <1>10, <2>2, <2>4, <2>5, <2>6 DEF DeletePhase
<1>18. \A d \in Client : d = c BY DEF OneClient
<1>19. sync'[c].pc # "done" BY <1>4, <1>6
<1> QED BY <1>16, <1>17, <1>18, <1>19 DEF SyncInv, SyncedExactly, At

\* How a call leaves a step of its: it has failed, it has ended with its last
\* step or without its attempt, or it goes on for what it was made for.
LEMMA CallMoves ==
  ASSUME ProcInv, NEW c \in Client, CallStep(c) \/ Fail(c)
  PROVE  /\ ~Idle(c)
         /\ \/ proc'[c] = Rest(FALSE)
            \/ /\ proc'[c] = Rest(TRUE)
               /\ LastOf(Op(c), Head(proc[c].todo)) \/ Head(proc[c].todo) \in {"purge", "insertAttempt"}
            \/ /\ proc'[c].todo # <<>> /\ proc'[c].ok = TRUE
               /\ Call(c)'.op = Call(c).op /\ Call(c)'.app = Call(c).app
               /\ Call(c)'.task = Call(c).task /\ Call(c)'.scheduled = Call(c).scheduled
               /\ Op(c) # "PutTask" => Call(c)' = Call(c)
<1> DEFINE h == Head(proc[c].todo)
           Failed == proc'[c] = Rest(FALSE)
           Ended == proc'[c] = Rest(TRUE) /\ (LastOf(Op(c), h) \/ h \in {"purge", "insertAttempt"})
           Same == /\ proc'[c].todo # <<>> /\ proc'[c].ok = TRUE
                   /\ Call(c)'.op = Call(c).op /\ Call(c)'.app = Call(c).app
                   /\ Call(c)'.task = Call(c).task /\ Call(c)'.scheduled = Call(c).scheduled
                   /\ Op(c) # "PutTask" => Call(c)' = Call(c)
<1>1. ~Idle(c) /\ UnderWay(c) /\ proc[c] \in Procs /\ proc \in [Client -> Procs]
  BY DEF CallStep, Fail, ProcInv, Doing, InsertAccount, InsertApp, FindApp, InsertQueue,
         UpdateQueue, FindQueue, InsertTask, UpdateTask, Purge, InsertAttempt, FlagAttempts,
         FlagTasks, FlagQueues, FlagApps, FlagAccount
<1>2. Op(c) \in Ops /\ proc[c].todo \in Left[Op(c)] /\ Call(c) \in Calls /\ proc[c].ok = TRUE
  BY <1>1, CallShape DEF UnderWay
<1>3. ASSUME GoesOn(c) PROVE Ended \/ Same
  <2>1. CASE Len(proc[c].todo) = 1
    <3>1. LastOf(Op(c), h) BY <1>2, <2>1, LeftLast
    <3>2. proc'[c] = Rest(TRUE) BY <1>1, <1>3, <2>1 DEF GoesOn
    <3> QED BY <3>1, <3>2
  <2>2. CASE Len(proc[c].todo) # 1
    <3>1. Tail(proc[c].todo) # <<>> BY <1>2, <2>2, LeftNext
    <3>2. proc' = [proc EXCEPT ![c].todo = Tail(@)] BY <1>3, <2>2 DEF GoesOn
    <3>3. /\ proc'[c].todo = Tail(proc[c].todo) /\ proc'[c].call = proc[c].call
          /\ proc'[c].ok = proc[c].ok
      BY <1>1, <3>2 DEF Procs
    <3> QED BY <1>2, <3>1, <3>3 DEF Call
  <2> QED BY <2>1, <2>2
<1>4. ASSUME Fails(c) PROVE Failed BY <1>1, <1>4 DEF Fails
<1>5. ASSUME NEW steps, GoesTo(c, steps), steps # <<>> PROVE Same
  <2>1. /\ proc'[c].todo = steps /\ proc'[c].call = proc[c].call /\ proc'[c].ok = proc[c].ok
    BY <1>1, <1>5 DEF GoesTo, Procs
  <2> QED BY <1>2, <1>5, <2>1 DEF Call
<1>6. CASE InsertQueue(c)
  <2>1. CASE GoesOn(c) BY <1>1, <1>3, <2>1
  <2>2. CASE GoesTo(c, <<"updateQueue">>)
    <3>1. <<"updateQueue">> # <<>> OBVIOUS
    <3>2. Same BY <1>5, <2>2, <3>1
    <3> QED BY <1>1, <3>2
  <2>3. CASE Fails(c) BY <1>1, <1>4, <2>3
  <2> QED BY <1>6, <2>1, <2>2, <2>3 DEF InsertQueue
<1>7. CASE InsertTask(c)
  <2>1. CASE GoesOn(c) BY <1>1, <1>3, <2>1
  <2>2. CASE GoesTo(c, <<"updateTask", "purge", "insertAttempt">>)
    <3>1. <<"updateTask", "purge", "insertAttempt">> # <<>> OBVIOUS
    <3>2. Same BY <1>5, <2>2, <3>1
    <3> QED BY <1>1, <3>2
  <2> QED BY <1>7, <2>1, <2>2 DEF InsertTask
<1>8. CASE FindQueue(c)
  <2>1. CASE proc' = [proc EXCEPT ![c].qid = queues[QueueOf(c)].id, ![c].todo = Tail(@)]
    <3>1. /\ proc'[c].todo = Tail(proc[c].todo) /\ proc'[c].call = proc[c].call
          /\ proc'[c].ok = proc[c].ok
      BY <1>1, <2>1 DEF Procs
    <3>2. h = "findQueue" BY <1>8 DEF FindQueue, Doing
    <3>3. Op(c) = "PutTask" BY <1>1, <3>2, CallShape DEF StepOf
    <3>4. Len(proc[c].todo) # 1
      <4>1. Len(proc[c].todo) = 1 => LastOf(Op(c), h) BY <1>2, LeftLast
      <4> QED BY <3>2, <3>3, <4>1 DEF LastOf
    <3>5. Tail(proc[c].todo) # <<>> BY <1>2, <3>4, LeftNext
    <3> QED BY <1>1, <1>2, <3>1, <3>5 DEF Call
  <2>2. CASE Fails(c) BY <1>1, <1>4, <2>2
  <2> QED BY <1>8, <2>1, <2>2 DEF FindQueue
<1>9. CASE UpdateTask(c)
  <2>1. PICK q : q = tasks[TaskOf(c)].queue OBVIOUS
  <2>2. CASE proc' = [proc EXCEPT ![c].call.queue = q, ![c].todo = Tail(@)]
    <3>1. /\ proc'[c].todo = Tail(proc[c].todo) /\ proc'[c].ok = proc[c].ok
          /\ proc'[c].call = [proc[c].call EXCEPT !.queue = q]
      BY <1>1, <2>2 DEF Procs
    <3>2. h = "updateTask" BY <1>9 DEF UpdateTask, Doing
    <3>3. Op(c) = "PutTask" BY <1>1, <3>2, CallShape DEF StepOf
    <3>4. Len(proc[c].todo) # 1
      <4>1. Len(proc[c].todo) = 1 => LastOf(Op(c), h) BY <1>2, LeftLast
      <4> QED BY <3>2, <3>3, <4>1 DEF LastOf
    <3>5. Tail(proc[c].todo) # <<>> BY <1>2, <3>4, LeftNext
    <3>6. /\ proc'[c].call.op = proc[c].call.op /\ proc'[c].call.app = proc[c].call.app
          /\ proc'[c].call.task = proc[c].call.task
          /\ proc'[c].call.scheduled = proc[c].call.scheduled
      BY <1>2, <3>1 DEF Calls, Call
    <3> QED BY <1>1, <1>2, <3>1, <3>3, <3>5, <3>6 DEF Call
  <2>3. CASE Fails(c) BY <1>1, <1>4, <2>3
  <2> QED BY <1>9, <2>1, <2>2, <2>3 DEF UpdateTask
<1>10. CASE Fail(c)
  <2>1. CASE Fails(c) BY <1>1, <1>4, <2>1
  <2>2. CASE h \in {"purge", "insertAttempt"} /\ proc' = [proc EXCEPT ![c] = Rest(TRUE)]
    BY <1>1, <2>2
  <2> QED BY <1>10, <2>1, <2>2 DEF Fail
<1>11. CASE GoesOn(c) BY <1>1, <1>3, <1>11
<1>12. CASE Fails(c) BY <1>1, <1>4, <1>12
<1> QED
  BY <1>6, <1>7, <1>8, <1>9, <1>10, <1>11, <1>12
  DEF CallStep, InsertAccount, InsertApp, FindApp, UpdateQueue, Purge, InsertAttempt,
      FlagAttempts, FlagTasks, FlagQueues, FlagApps, FlagAccount

\* The PUTs of a synchronisation take nothing off the list, and one that ends
\* well has put its task on it.
LEMMA PutStep ==
  ASSUME TypeInv, TreeInv, NEW c \in Client, CallStep(c) \/ Fail(c),
         Op(c) = "PutApplication" \/ \E t \in TName : Putting(c, t)
  PROVE  /\ Listed \subseteq Listed'
         /\ proc'[c].ok => \A t \in TName : Putting(c, t) => Putting(c, t)' \/ t \in Listed'
<1> DEFINE h == Head(proc[c].todo)
           k == TaskOf(c)
<1>1. DataInv /\ ProcInv BY TypeParts
<1>2. ~Idle(c) /\ UnderWay(c) BY <1>1, CallMoves DEF ProcInv
<1>3. Op(c) \in {"PutApplication", "PutTask"} /\ Op(c) \in Ops /\ StepOf(Op(c), h)
  BY <1>2, CallShape DEF Putting
<1>4. CASE Op(c) = "PutApplication"
  <2>1. UNCHANGED tasks
    BY <1>3, <1>4 DEF CallStep, Fail, Doing, StepOf, InsertAccount, InsertApp, FindApp, InsertQueue,
         UpdateQueue, FindQueue, InsertTask, UpdateTask, Purge, InsertAttempt, FlagAttempts,
         FlagTasks, FlagQueues, FlagApps, FlagAccount
  <2>2. Listed' = Listed BY <2>1 DEF Listed, Scheduled
  <2>3. \A t : ~Putting(c, t) BY <1>4 DEF Putting
  <2> QED BY <2>2, <2>3
<1>5. CASE Op(c) = "PutTask"
  <2>1. PICK t \in TName : Putting(c, t) BY <1>5
  <2>2. /\ Call(c).app = SyncApp /\ Call(c).task = t /\ Call(c).scheduled
        /\ Call(c).op = "PutTask" /\ k = <<SyncApp, t>> /\ k \in TaskKeys
    BY <2>1, CrontabAssumption DEF Putting, Op, TaskOf, TaskKeys
  <2>3. \A u : Putting(c, u) => u = t BY <2>2 DEF Putting
  <2>4. Call(c).scheduled \in BOOLEAN BY <1>2, CallShape
  <2>5. Call(c).scheduled = TRUE BY <2>2, <2>4
  <2> HIDE DEF k, h
  <2>6. \/ UNCHANGED tasks
        \/ /\ \A j \in TaskKeys : j # k => tasks'[j] = tasks[j]
           /\ tasks'[k].state = "live" /\ tasks'[k].scheduled = TRUE
    <3>1. CASE InsertTask(c)
      <4>1. CASE tasks[k].state = "none"
        <5> DEFINE d == [state |-> "live", queue |-> Call(c).queue, qid |-> proc[c].qid,
                         scheduled |-> Call(c).scheduled, revived |-> FALSE]
        <5>1. tasks' = [tasks EXCEPT ![k] = d] BY <3>1, <4>1 DEF InsertTask, k
        <5>2. d.state = "live" /\ d.scheduled = Call(c).scheduled OBVIOUS
        <5> HIDE DEF d
        <5> QED BY <1>1, <2>2, <2>5, <5>1, <5>2 DEF DataInv
      <4>2. CASE tasks[k].state # "none" BY <3>1, <4>2 DEF InsertTask, k
      <4> QED BY <4>1, <4>2
    <3>2. CASE UpdateTask(c)
      <4> DEFINE d == tasks[k]
                 u == [d EXCEPT !.state = "live", !.scheduled = Call(c).scheduled,
                                !.revived = @ \/ d.state = "flagged"]
      <4>1. CASE d.state # "none"
        <5>1. tasks' = [tasks EXCEPT ![k] = u] BY <3>2, <4>1 DEF UpdateTask, k
        <5>2. d \in TaskDocs BY <1>1, <2>2 DEF DataInv
        <5>3. u.state = "live" /\ u.scheduled = Call(c).scheduled BY <5>2 DEF TaskDocs
        <5> HIDE DEF u
        <5> QED BY <1>1, <2>2, <2>5, <5>1, <5>3 DEF DataInv
      <4>2. CASE d.state = "none" BY <3>2, <4>2 DEF UpdateTask, k
      <4> QED BY <4>1, <4>2
    <3>3. h # "tasks" BY <1>3, <1>5 DEF StepOf
    <3> QED
      BY <3>1, <3>2, <3>3
      DEF CallStep, Fail, Doing, InsertAccount, InsertApp, FindApp, InsertQueue, UpdateQueue,
          FindQueue, Purge, InsertAttempt, FlagAttempts, FlagTasks, FlagQueues, FlagApps,
          FlagAccount, h
  <2>7. Listed \subseteq Listed'
    <3> SUFFICES ASSUME NEW u \in Listed PROVE u \in Listed' OBVIOUS
    <3>1. /\ u \in TName /\ <<SyncApp, u>> \in TaskKeys
          /\ tasks[<<SyncApp, u>>].state = "live" /\ tasks[<<SyncApp, u>>].scheduled
      BY CrontabAssumption DEF Listed, Scheduled, TaskKeys
    <3>2. tasks'[<<SyncApp, u>>].state = "live" /\ tasks'[<<SyncApp, u>>].scheduled
      BY <2>6, <3>1
    <3> QED BY <3>1, <3>2 DEF Listed, Scheduled
  <2>8. proc'[c].ok => Putting(c, t)' \/ t \in Listed'
    <3>1. CASE proc'[c] = Rest(FALSE) BY <3>1 DEF Rest
    <3>2. CASE /\ proc'[c] = Rest(TRUE)
               /\ LastOf(Op(c), h) \/ h \in {"purge", "insertAttempt"}
      <4>1. h \in {"purge", "insertAttempt"} BY <1>5, <3>2 DEF LastOf
      <4>2. Found(c) BY DEF TreeInv
      <4>3. tasks[k].state = "live" /\ tasks[k].scheduled = TRUE
        BY <1>2, <2>5, <4>1, <4>2 DEF Found, DoingOneOf, k, h
      <4>4. tasks'[k].state = "live" /\ tasks'[k].scheduled = TRUE BY <2>6, <4>3
      <4> QED BY <2>2, <4>4 DEF Listed, Scheduled
    <3>3. CASE /\ proc'[c].todo # <<>>
               /\ Call(c)'.op = Call(c).op /\ Call(c)'.app = Call(c).app
               /\ Call(c)'.task = Call(c).task /\ Call(c)'.scheduled = Call(c).scheduled
      BY <2>2, <2>5, <3>3 DEF Putting, Idle, Op
    <3> QED BY <1>1, <3>1, <3>2, <3>3, CallMoves DEF h
  <2> QED BY <2>3, <2>7, <2>8
<1> QED BY <1>3, <1>4, <1>5

\* A DELETE of a synchronisation takes its task off the list, and no other.
LEMMA DeleteStep ==
  ASSUME TypeInv, NEW c \in Client, NEW t \in TName, CallStep(c) \/ Fail(c), Deleting(c, t)
  PROVE  /\ \A u \in TName : u # t => (u \in Listed' <=> u \in Listed)
         /\ t \in Listed' => t \in Listed
         /\ ~Idle(c)' => Deleting(c, t)'
         /\ proc'[c].ok => Deleting(c, t)' \/ t \notin Listed'
<1> DEFINE h == Head(proc[c].todo)
<1>1. DataInv /\ ProcInv BY TypeParts
<1>2. ~Idle(c) /\ UnderWay(c) BY <1>1, CallMoves DEF ProcInv
<1>3. /\ Op(c) = "DeleteTask" /\ Call(c) = DeleteTask(t)
      /\ Call(c).app = SyncApp /\ Call(c).task = t /\ Call(c).queue = None
  BY DEF Deleting, Op, DeleteTask
<1>4. StepOf(Op(c), h) BY <1>2, CallShape
<1>5. h \notin {"insertAccount", "insertApp", "findApp", "insertQueue", "updateQueue", "findQueue",
                "insertTask", "updateTask", "purge", "insertAttempt", "queues", "apps", "account"}
  BY <1>3, <1>4 DEF StepOf
<1>6. FlagAttempts(c) \/ FlagTasks(c) \/ (Fail(c) /\ Fails(c))
  BY <1>5
  DEF CallStep, Fail, Doing, InsertAccount, InsertApp, FindApp, InsertQueue, UpdateQueue,
      FindQueue, InsertTask, UpdateTask, Purge, InsertAttempt, FlagQueues, FlagApps, FlagAccount
<1>7. ~Idle(c)' => Deleting(c, t)'
  <2>1. CASE proc'[c] = Rest(FALSE) BY <2>1 DEF Rest, Idle
  <2>2. CASE proc'[c] = Rest(TRUE) BY <2>2 DEF Rest, Idle
  <2>3. CASE proc'[c].todo # <<>> /\ Call(c)' = Call(c)
    BY <1>3, <2>3 DEF Deleting, Idle
  <2>4. Op(c) # "PutTask" BY <1>3
  <2> QED BY <1>1, <2>1, <2>2, <2>3, <2>4, CallMoves
<1>8. CASE FlagTasks(c)
  <2>1. tasks' = [k \in TaskKeys |->
                   IF k[1] = SyncApp /\ k[2] = t
                   THEN [tasks[k] EXCEPT !.state = FlagState(@)] ELSE tasks[k]]
    <3>1. None # SyncApp /\ None # t BY ResourcesAssumption, CrontabAssumption
    <3>2. \A k \in TaskKeys : /\ Matches(SyncApp, k[1]) <=> k[1] = SyncApp
                              /\ Matches(t, k[2]) <=> k[2] = t
                              /\ Matches(None, tasks[k].queue)
      BY <3>1 DEF Matches
    <3>3. tasks' = [k \in TaskKeys |->
            IF Matches(SyncApp, k[1]) /\ Matches(t, k[2]) /\ Matches(None, tasks[k].queue)
            THEN [tasks[k] EXCEPT !.state = FlagState(@)] ELSE tasks[k]]
      BY <1>3, <1>8 DEF FlagTasks
    <3> QED BY <3>2, <3>3
  <2>2. \A u \in TName : <<SyncApp, u>> \in TaskKeys BY CrontabAssumption DEF TaskKeys
  <2>3. \A u \in TName : u # t => tasks'[<<SyncApp, u>>] = tasks[<<SyncApp, u>>]
    BY <2>1, <2>2
  <2>4. tasks'[<<SyncApp, t>>].state # "live"
    <3>1. tasks[<<SyncApp, t>>] \in TaskDocs BY <1>1, <2>2 DEF DataInv
    <3>2. tasks'[<<SyncApp, t>>].state = FlagState(tasks[<<SyncApp, t>>].state)
      BY <2>1, <2>2, <3>1 DEF TaskDocs
    <3> QED BY <3>2 DEF FlagState
  <2> QED BY <1>7, <2>3, <2>4 DEF Listed, Scheduled
<1>9. CASE FlagAttempts(c)
  <2>1. UNCHANGED tasks /\ h = "attempts" BY <1>9 DEF FlagAttempts, Doing
  <2>2. Listed' = Listed BY <2>1 DEF Listed, Scheduled
  <2>3. ~LastOf(Op(c), h) BY <1>3, <2>1 DEF LastOf
  <2>4. proc'[c].ok => ~Idle(c)'
    <3>1. CASE proc'[c] = Rest(FALSE) BY <3>1 DEF Rest
    <3>2. CASE proc'[c].todo # <<>> BY <3>2 DEF Idle
    <3> QED BY <1>1, <2>1, <2>3, <3>1, <3>2, CallMoves
  <2> QED BY <1>7, <2>2, <2>4
<1>10. CASE Fail(c) /\ Fails(c)
  <2>1. UNCHANGED tasks /\ proc'[c] = Rest(FALSE)
    BY <1>1, <1>10 DEF Fail, Fails, ProcInv
  <2>2. Listed' = Listed BY <2>1 DEF Listed, Scheduled
  <2>3. proc'[c].ok = FALSE BY <2>1 DEF Rest
  <2> QED BY <1>7, <2>2, <2>3
<1> QED BY <1>6, <1>8, <1>9, <1>10

\* A step of the call that a synchronisation has made.
LEMMA SyncCallKeeps ==
  ASSUME OneClient, TypeInv, TreeInv, SyncInv, NEW c \in Client, CallStep(c) \/ Fail(c),
         UNCHANGED sync
  PROVE  SyncInv'
<1>1. ProcInv /\ SyncType BY TypeParts
<1>2. ~Idle(c) /\ UnderWay(c) /\ proc[c].ok = TRUE BY <1>1, CallMoves DEF ProcInv, UnderWay
<1>3. PutPhase(c) /\ DeletePhase(c) /\ ~At(c, "done") BY <1>2 DEF SyncInv
<1>4. \A t \in Range(File) : t \in TName
  <2>1. File \in Seq(TName) BY CrontabAssumption
  <2>2. \A i \in DOMAIN File : File[i] \in TName BY <2>1
  <2> QED BY <2>2 DEF Range
<1>5. AllOk(c)' => AllOk(c) /\ proc'[c].ok BY <1>2 DEF AllOk
<1>6. \A r : OnAgenda(c, r)' <=> OnAgenda(c, r) BY DEF OnAgenda
<1>7. PutPhase(c)'
  <2> SUFFICES ASSUME At(c, "put") PROVE PutPhase(c)' BY DEF PutPhase, At
  <2>1. Op(c) = "PutApplication" \/ \E t \in Range(File) : Putting(c, t)
    BY <1>2, <1>3 DEF PutPhase
  <2>2. /\ Listed \subseteq Listed'
        /\ proc'[c].ok => \A t \in TName : Putting(c, t) => Putting(c, t)' \/ t \in Listed'
    BY <1>4, <2>1, PutStep
  <2>3. ~Idle(c)' => /\ Call(c)'.op = Call(c).op /\ Call(c)'.app = Call(c).app
                     /\ Call(c)'.task = Call(c).task /\ Call(c)'.scheduled = Call(c).scheduled
    <3>1. CASE proc'[c] = Rest(FALSE) \/ proc'[c] = Rest(TRUE) BY <3>1 DEF Rest, Idle
    <3> QED BY <1>1, <3>1, CallMoves
  <2>4. ~Idle(c)' => Op(c)' = "PutApplication" \/ \E t \in Range(File) : Putting(c, t)'
    BY <2>1, <2>3 DEF Putting, Op
  <2>5. AllOk(c)' => \A t \in Range(File) :
          t \in Listed' \/ OnAgenda(c, PutTask(t))' \/ Putting(c, t)'
    <3> SUFFICES ASSUME AllOk(c)', NEW t \in Range(File)
                 PROVE  t \in Listed' \/ OnAgenda(c, PutTask(t))' \/ Putting(c, t)'
      OBVIOUS
    <3>1. t \in Listed \/ OnAgenda(c, PutTask(t)) \/ Putting(c, t)
      BY <1>3, <1>5 DEF PutPhase
    <3> QED BY <1>4, <1>5, <1>6, <2>2, <3>1
  <2>6. \A i \in DOMAIN sync'[c].agenda :
          sync'[c].agenda[i] = PutApp \/ \E t \in Range(File) : sync'[c].agenda[i] = PutTask(t)
    BY <1>3 DEF PutPhase
  <2> QED BY <2>4, <2>5, <2>6 DEF PutPhase
<1>8. DeletePhase(c)'
  <2> SUFFICES ASSUME At(c, "delete") PROVE DeletePhase(c)' BY DEF DeletePhase, At
  <2>1. PICK t \in TName \ Range(File) : Deleting(c, t) BY <1>2, <1>3 DEF DeletePhase
  <2>2. /\ \A u \in TName : u # t => (u \in Listed' <=> u \in Listed)
        /\ t \in Listed' => t \in Listed
        /\ ~Idle(c)' => Deleting(c, t)'
        /\ proc'[c].ok => Deleting(c, t)' \/ t \notin Listed'
    BY <2>1, DeleteStep
  <2>3. \A u : Deleting(c, u) => u = t BY <2>1 DEF Deleting, DeleteTask
  <2>4. ~Idle(c)' => \E u \in TName \ Range(File) : Deleting(c, u)' BY <2>2
  <2>5. AllOk(c)' => Range(File) \subseteq Listed'
    BY <1>3, <1>4, <1>5, <2>1, <2>2 DEF DeletePhase
  <2>6. ASSUME AllOk(c)', NEW u \in (Listed' \ Range(File)) \ sync[c].beyond
        PROVE  OnAgenda(c, DeleteTask(u))' \/ Deleting(c, u)'
    <3>1. u \in TName BY DEF Listed
    <3>2. u \in Listed BY <2>2, <3>1
    <3>3. OnAgenda(c, DeleteTask(u)) \/ Deleting(c, u)
      BY <1>3, <1>5, <2>6, <3>2 DEF DeletePhase
    <3> QED BY <1>5, <1>6, <2>2, <2>3, <2>6, <3>3
  <2>7. \A i \in DOMAIN sync'[c].agenda :
          \E u \in TName \ Range(File) : sync'[c].agenda[i] = DeleteTask(u)
    BY <1>3 DEF DeletePhase
  <2> QED BY <2>4, <2>5, <2>6, <2>7 DEF DeletePhase
<1>9. ~At(c, "done")' BY <1>3 DEF At
<1>10. \A d \in Client : d = c BY DEF OneClient
<1> QED BY <1>7, <1>8, <1>9, <1>10 DEF SyncInv, SyncedExactly

\* With one client, a synchronisation does at every step what it is for.
LEMMA SyncNext ==
  ASSUME OneClient, TypeInv, TreeInv, SyncInv, [Next]_vars
  PROVE  SyncInv'
<1>1. DataInv /\ SyncType BY TypeParts
<1>2. NoSync.pc = "none" BY DEF NoSync
<1>3. ASSUME NEW c \in Client, sync' = [sync EXCEPT ![c] = NoSync] PROVE SyncInv'
  <2>1. sync'[c].pc = "none" BY <1>1, <1>2, <1>3 DEF SyncType
  <2> QED BY <2>1, SyncNone
<1>4. ASSUME NEW c \in Client, NEW r \in Request, Ask(c, r) PROVE SyncInv'
  BY <1>3, <1>4 DEF Ask
<1>5. ASSUME NEW c \in Client, SyncAborts(c) PROVE SyncInv' BY <1>3, <1>5 DEF SyncAborts
<1>6. ASSUME NEW c \in Client, SyncStarts(c) PROVE SyncInv' BY <1>6, SyncStartsRight
<1>7. ASSUME NEW c \in Client, SyncCalls(c) PROVE SyncInv' BY <1>7, SyncCallsRight
<1>8. ASSUME NEW c \in Client, SyncLists(c) PROVE SyncInv' BY <1>8, SyncListsRight
<1>9. ASSUME NEW c \in Client, SyncEnds(c) PROVE SyncInv' BY <1>9, SyncEndsRight
<1>10. ASSUME NEW c \in Client, CallStep(c) \/ Fail(c), UNCHANGED sync PROVE SyncInv'
  BY <1>10, SyncCallKeeps
<1>11. CASE (CleanerStep \/ CleanerFails) /\ UNCHANGED sync
  <2>1. UNCHANGED proc
    BY <1>11 DEF CleanerStep, CleanerFails, CleanerStarts, CleanAttempts, CleanTasks, CleanQueues,
         CleanApps, CleanAccount
  <2>2. Listed' = Listed
    <3>1. CASE CleanTasks
      <4>1. ASSUME NEW t \in TName
            PROVE  /\ tasks'[<<SyncApp, t>>].state = "live" <=> tasks[<<SyncApp, t>>].state = "live"
                   /\ tasks'[<<SyncApp, t>>].state = "live" =>
                        tasks'[<<SyncApp, t>>] = tasks[<<SyncApp, t>>]
        <5>1. <<SyncApp, t>> \in TaskKeys BY CrontabAssumption DEF TaskKeys
        <5> QED BY <3>1, <5>1 DEF CleanTasks, NoTask
      <4> QED BY <4>1 DEF Listed, Scheduled
    <3>2. CASE UNCHANGED tasks BY <3>2 DEF Listed, Scheduled
    <3> QED
      BY <1>11, <3>1, <3>2
      DEF CleanerStep, CleanerFails, CleanerStarts, CleanAttempts, CleanQueues, CleanApps,
          CleanAccount
  <2> QED BY <1>11, <2>1, <2>2, SyncUnmoved
<1>12. CASE UNCHANGED vars
  <2>1. Listed' = Listed BY <1>12 DEF vars, resVars, Listed, Scheduled
  <2> QED BY <1>12, <2>1, SyncUnmoved DEF vars, resVars
<1>13. ASSUME NEW c \in Client, SyncListFails(c) PROVE SyncInv' BY <1>13, SyncListFailsRight
<1> QED
  BY <1>4, <1>5, <1>6, <1>7, <1>8, <1>9, <1>10, <1>11, <1>12, <1>13 DEF Next, ResStep

\* With one client, whatever the file, the length of a page and the calls made
\* before, and whatever fails: a synchronisation that ends with nothing but
\* successes leaves the scheduled tasks of the file, and those beyond the page.
THEOREM SyncedAlwaysExactly == OneClient /\ Spec => []SyncedExactly
<1>1. Init => SyncInv
  <2> SUFFICES ASSUME Init PROVE SyncInv OBVIOUS
  <2>1. \A c \in Client : sync[c].pc = "none" BY DEF Init, NoSync
  <2> QED BY <2>1 DEF SyncInv, SyncedExactly, PutPhase, DeletePhase, At
<1>2. OneClient /\ TypeInv /\ TreeInv /\ SyncInv /\ [Next]_vars => SyncInv' BY SyncNext
<1>3. OneClient => OneClient' BY DEF OneClient
<1>4. SyncInv => SyncedExactly BY DEF SyncInv
<1> QED BY TreeAlways, <1>1, <1>2, <1>3, <1>4, PTL DEF Spec
=============================================================================
