------------------------------- MODULE Hookyd -------------------------------
(***************************************************************************)
(* A hookyd process: main of cmd/hookyd/main.go starts the Scheduler and   *)
(* serves the API with Graceful.  After a signal it lets the open          *)
(* connections finish, then stops the scheduler, then exits - and every    *)
(* goroutine that is left ends where it stands.                            *)
(***************************************************************************)
EXTENDS Scheduler, Graceful

vars == <<schedVars, serverVars>>

Running == serve # "exited"

Init == SchedInit /\ ServerInit

TypeOK == SchedTypeOK /\ ServerTypeOK
-----------------------------------------------------------------------------
\* A handler stores an attempt.
HandlePut(c, a) ==
  /\ conn[c] = "handle"
  /\ Create(a)
  /\ UNCHANGED serverVars

\* sched.Stop: close the quit channel ...
StopScheduler ==
  /\ serve = "stop"
  /\ CloseQuit
  /\ serve' = "join"
  /\ UNCHANGED <<signal, manager, asked, managed, killed, conn>>

\* ... and wait for the wait group.
StopReturns ==
  /\ serve = "join" /\ CanReturn
  /\ serve' = "stopped"
  /\ UNCHANGED <<schedVars, signal, manager, asked, managed, killed, conn>>

Exit ==
  /\ serve = "stopped"
  /\ serve' = "exited"
  /\ Vanish
  /\ manager' = "gone"
  /\ managed' = {}
  /\ conn' = [c \in Conn |-> "closed"]
  /\ UNCHANGED <<signal, asked, killed>>

\* The process is gone.
Exited ==
  /\ ~Running
  /\ UNCHANGED vars

InScheduler(A) == Running /\ UNCHANGED serverVars /\ A
InServer(A) == Running /\ UNCHANGED schedVars /\ A

Next ==
  \/ InScheduler(SchedNext)
  \/ InServer(ServerNext)
  \/ Running /\ \E c \in Conn, a \in Attempt : HandlePut(c, a)
  \/ StopScheduler
  \/ StopReturns
  \/ Exit
  \/ Exited

\* Go runs every goroutine that can run.  Endpoints need not answer
\* (RequestEnds), nor are clients, handlers, the signal or the network fair.
\* A select that is ready again and again in two of its cases chooses each of
\* them some time: the loop sees quit, a worker meets its toucher between two
\* touches, a semaphore serves those who wait in turn.  NextAttempt takes the
\* oldest attempt, so each gets its turn.
Fairness ==
  /\ WF_vars(InScheduler(LoopQuits))
  /\ WF_vars(InScheduler(\E g \in Querier : LoopSpawns(g)))
  /\ \A g \in Querier :
       /\ SF_vars(InScheduler(Acquire(g)))
       /\ WF_vars(InScheduler(QuerierGoesOn(g)))
  /\ \A a \in Attempt :
       /\ SF_vars(InScheduler(\E g \in Querier : AskFinds(g, a)))
       /\ SF_vars(InScheduler(PassResult(a)))
       /\ WF_vars(InScheduler(WorkerGoesOn(a)))
       /\ WF_vars(InScheduler(TouchEnds(a)))
  /\ WF_vars(InServer(ServeGoesOn) \/ StopScheduler \/ StopReturns \/ Exit)
  /\ WF_vars(InServer(CloseListener))

Spec == Init /\ [][Next]_vars /\ Fairness
-----------------------------------------------------------------------------
(* Properties *)

\* A worker inherits the place its querier took: the queriers that look for an
\* attempt and the workers together keep to max-http-request, and the queriers
\* to max-mongo-query.
PlacesBounded ==
  /\ Cardinality(Workless) + Cardinality(Working) <= MaxWorker
  /\ Cardinality(Querying) <= MaxQuerier

\* Stop waits for what was leased before it: when it has returned, no
\* goroutine works on such an attempt.  (One that waited for a place among the
\* workers is counted too late for that, and may still lease one.)
StopWaitsForLeased ==
  serve \in {"stopped", "exited"} => \A a \in early : ~InHand(a)

\* The server hands over to the scheduler's Stop while a handler runs only
\* after the timeout.
HandlersFinish == ServeReturned /\ Handling # {} => killed

\* What endpoints owe hookyd, whose client waits for them without a timeout:
\* that every request comes back, or at least that they do not take all the
\* places among the workers for ever.
Requesting == {a \in Attempt : worker[a] = "request"}
RequestsEnd == \A a \in Attempt : []<>(a \notin Requesting)
SomeRequestEnds == []<>(Cardinality(Requesting) < MaxWorker)

\* A signal ends the process, whatever clients and handlers do, when every
\* request comes back.  (One that never does keeps Stop waiting for its worker.)
SignalEndsProcess == RequestsEnd => ((signal \in {"received", "closed"}) ~> (serve = "exited"))

\* A ready attempt is leased, until the scheduler is stopped, as long as some
\* requests come back.
ReadyIsLeased ==
  SomeRequestEnds => \A a \in Attempt : (db[a] = "ready") ~> (db[a] # "ready" \/ quit)

\* When all places are taken one is given back, whatever comes of the requests,
\* unless none of them comes back.
WorkersEnd == SomeRequestEnds => ((workerSem = MaxWorker) ~> (workerSem < MaxWorker))
=============================================================================
