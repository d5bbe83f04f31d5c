----------------------------- MODULE MCCrontab -----------------------------
(* An instance of Crontab for TLC. *)
EXTENDS Crontab

CONSTANTS q1, t1, t2

R(op, app, queue, task) ==
  [op |-> op, app |-> app, queue |-> queue, task |-> task, scheduled |-> TRUE]

OneFile == <<t1>>
AnyQueue == [t \in TName |-> IF t = t1 THEN q1 ELSE "default"]

\* A POST of an account and a PUT of an application name the default queue they
\* create.
Requests == {
  R("PostAccount", "default", "default", None),
  R("DeleteAccount", None, None, None),
  R("PutApplication", "x", "default", None),
  R("DeleteApplication", "default", None, None),
  R("DeleteApplication", "x", None, None),
  R("DeleteApplications", None, None, None),
  R("PutQueue", "x", q1, None),
  R("DeleteQueue", "x", q1, None),
  R("DeleteQueues", "x", None, None),
  [R("PutTask", "x", q1, t1) EXCEPT !.scheduled = FALSE],
  R("PutTask", "x", "default", t2),
  R("DeleteTask", "x", None, t1),
  R("DeleteTasks", "x", None, None)}
=============================================================================
