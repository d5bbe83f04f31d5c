------------------------------ MODULE Crontab ------------------------------
(***************************************************************************)
(* SyncCrontab of client/crontab.go, which `hooky -crontab-file' runs: a   *)
(* client of Resources that makes the scheduled tasks of one application   *)
(* those of a file.  It creates the application when there is none, PUTs   *)
(* the tasks of the file, asks once for the scheduled tasks and DELETEs    *)
(* those it was given that the file does not have.                         *)
(***************************************************************************)
EXTENDS Resources, Functions

CONSTANTS
  SyncApp,      \* crontab.Application
  File,         \* names of crontab.Tasks, in their order
  FileQueue,    \* [TName -> name of the queue that the file gives the task]
  PageLimit     \* documents the first page of a list holds at most

ASSUME CrontabAssumption ==
  /\ SyncApp \in App
  /\ File \in Seq(TName)
  /\ FileQueue \in [TName -> QName]
  /\ PageLimit \in Nat \ {0}

VARIABLE
  sync     \* [Client -> where its SyncCrontab is]

vars == <<resVars, sync>>

\* agenda: the calls it has still to make; ok: all were answered with 200;
\* beyond: what was on the second page, and later ones.
Locals ==
  [pc : {"none", "put", "list", "delete", "done"}, agenda : Seq(Calls),
   ok : BOOLEAN, beyond : SUBSET TName]

NoSync == [pc |-> "none", agenda |-> <<>>, ok |-> TRUE, beyond |-> {}]

TypeOK == ResTypeOK /\ sync \in [Client -> Locals]

Init == ResInit /\ sync = [c \in Client |-> NoSync]

At(c, step) == sync[c].pc = step

PutApp == [op |-> "PutApplication", app |-> SyncApp, queue |-> "default",
           task |-> None, scheduled |-> FALSE]
PutTask(t) == [op |-> "PutTask", app |-> SyncApp, queue |-> FileQueue[t],
               task |-> t, scheduled |-> TRUE]
DeleteTask(t) == [op |-> "DeleteTask", app |-> SyncApp, queue |-> None,
                  task |-> t, scheduled |-> FALSE]

Puts == [i \in DOMAIN File |-> PutTask(File[i])]
\* All calls so far were answered with 200.
AllOk(c) == sync[c].ok /\ proc[c].ok
-----------------------------------------------------------------------------
\* A call that is not part of a synchronisation.
Ask(c, r) ==
  /\ sync[c].pc \in {"none", "done"}
  /\ Begin(c, r)
  /\ sync' = [sync EXCEPT ![c] = NoSync]

\* GET the application; 404 makes it PUT it.
SyncStarts(c) ==
  /\ sync[c].pc \in {"none", "done"} /\ Idle(c)
  /\ account = "live" /\ calls < MaxCalls
  /\ calls' = calls + 1
  /\ sync' = [sync EXCEPT ![c] = [NoSync EXCEPT !.pc = "put",
                !.agenda = IF apps[SyncApp] = "live" THEN Puts ELSE <<PutApp>> \o Puts]]
  /\ proc' = [proc EXCEPT ![c].ok = TRUE]
  /\ UNCHANGED <<account, apps, queues, tasks, older, attempts, cleaner, fails, closing>>

\* The next PUT or DELETE.  What it answers is printed at most.
SyncCalls(c) ==
  /\ sync[c].pc \in {"put", "delete"} /\ Idle(c)
  /\ sync[c].agenda # <<>>
  /\ Issue(c, Head(sync[c].agenda))
  /\ sync' = [sync EXCEPT ![c].agenda = Tail(@), ![c].ok = AllOk(c)]
  /\ UNCHANGED <<account, apps, queues, tasks, older, attempts, cleaner, calls, fails, closing>>

\* The connection is lost with a call: SyncCrontab returns the error.
SyncAborts(c) ==
  /\ sync[c].pc \in {"put", "delete"} /\ Idle(c) /\ ~proc[c].ok
  /\ sync' = [sync EXCEPT ![c] = NoSync]
  /\ UNCHANGED resVars

\* GET tasks?filters=schedule:true lists the scheduled tasks, the newest first.
Scheduled(k) == k[1] = SyncApp /\ tasks[k].state = "live" /\ tasks[k].scheduled
Listed == {t \in TName : Scheduled(<<SyncApp, t>>)}
NewerThan(t) == {u \in Listed : <<<<SyncApp, t>>, <<SyncApp, u>>>> \in older}
FirstPage == {t \in Listed : Cardinality(NewerThan(t)) < PageLimit}

\* The tasks of S in the order of the list.
InListOrder(S) ==
  {s \in [1..Cardinality(S) -> S] : \A i, j \in DOMAIN s : i < j => s[i] \in NewerThan(s[j])}

\* Mutant: the tasks of the file are not kept apart from the others.
SyncListsAny(c) ==
  /\ At(c, "put") /\ Idle(c) /\ sync[c].agenda = <<>>
  /\ \E surplus \in InListOrder(FirstPage) :
       sync' = [sync EXCEPT ![c] =
         [pc |-> "delete", ok |-> AllOk(c),
          agenda |-> [i \in DOMAIN surplus |-> DeleteTask(surplus[i])],
          beyond |-> Listed \ FirstPage]]
  /\ UNCHANGED resVars

\* One page is asked for, and gone through.
SyncLists(c) ==
  /\ At(c, "put") /\ Idle(c) /\ sync[c].agenda = <<>>
  /\ \E surplus \in InListOrder(FirstPage \ Range(File)) :
       sync' = [sync EXCEPT ![c] =
         [pc |-> "delete", ok |-> AllOk(c),
          agenda |-> [i \in DOMAIN surplus |-> DeleteTask(surplus[i])],
          beyond |-> Listed \ FirstPage]]
  /\ UNCHANGED resVars

\* The list fails: SyncCrontab returns the error when the connection is lost.  An
\* error that the API answers with decodes as an empty list, and nothing is deleted.
SyncListFails(c) ==
  /\ At(c, "put") /\ Idle(c) /\ sync[c].agenda = <<>>
  /\ fails < MaxFails
  /\ fails' = fails + 1
  /\ \E local \in {NoSync, [NoSync EXCEPT !.pc = "delete", !.ok = FALSE]} :
       sync' = [sync EXCEPT ![c] = local]
  /\ UNCHANGED <<account, apps, queues, tasks, older, attempts, proc, cleaner, calls, closing>>

SyncEnds(c) ==
  /\ At(c, "delete") /\ Idle(c) /\ sync[c].agenda = <<>>
  /\ sync' = [sync EXCEPT ![c].pc = "done", ![c].ok = AllOk(c)]
  /\ UNCHANGED resVars
-----------------------------------------------------------------------------
Next ==
  \/ \E c \in Client, r \in Request : Ask(c, r)
  \/ \E c \in Client :
       \/ SyncStarts(c) \/ SyncCalls(c) \/ SyncAborts(c)
       \/ SyncLists(c) \/ SyncListFails(c) \/ SyncEnds(c)
  \/ ResStep /\ UNCHANGED sync

\* The cleaner runs every minute.
Spec == Init /\ [][Next]_vars /\ WF_vars(CleanerStep /\ UNCHANGED sync)
-----------------------------------------------------------------------------
(* Properties *)

\* When a synchronisation has ended and every answer it had was a success, the
\* scheduled tasks are those of the file, and those that one page did not show.
SyncedExactly ==
  \A c \in Client : At(c, "done") /\ sync[c].ok =>
    /\ Range(File) \subseteq Listed
    /\ Listed \ Range(File) \subseteq sync[c].beyond
=============================================================================
