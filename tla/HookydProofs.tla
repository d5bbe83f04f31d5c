---------------------------- MODULE HookydProofs ----------------------------
(***************************************************************************)
(* The invariants of Hookyd for any number of attempts, queriers, places   *)
(* and connections.                                                        *)
(*                                                                         *)
(* The semaphores and the wait group are counters: the inductive invariant *)
(* says of which goroutines (Counts), and which goroutine has an attempt   *)
(* (Hands).  Stop returns when nobody is counted, and everybody with an    *)
(* attempt that was leased before is.                                      *)
(***************************************************************************)
EXTENDS Hookyd, TLAPS, FiniteSetTheorems

QueryingSteps == {"acquire", "register", "ask", "found", "none", "release"}
WorklessSteps == {"register", "ask", "found", "none"}
WorkingSteps == {"request", "sendResult", "sendNil", "join", "free"}

\* Where a querier, or a worker, is counted in the wait group.
CountedSteps == {"ask", "found", "none", "release", "leave"}
JobSteps == WorkerSteps \ {"gone"}

Queriers(S) == {g \in Querier : querier[g].pc \in S}
Jobs(S) == {a \in Attempt : worker[a] \in S}

Counts ==
  /\ IsFiniteSet(Queriers(QueryingSteps)) /\ IsFiniteSet(Queriers(WorklessSteps))
  /\ IsFiniteSet(Queriers(CountedSteps))
  /\ IsFiniteSet(Jobs(WorkingSteps)) /\ IsFiniteSet(Jobs(JobSteps))
  /\ querierSem = Cardinality(Queriers(QueryingSteps)) /\ querierSem <= MaxQuerier
  /\ workerSem = Cardinality(Queriers(WorklessSteps)) + Cardinality(Jobs(WorkingSteps))
  /\ workerSem <= MaxWorker
  /\ wg = Cardinality(Queriers(CountedSteps)) + Cardinality(Jobs(JobSteps))

Hands ==
  /\ \A g \in Querier : querier[g].a # None <=> querier[g].pc = "found"
  /\ \A g \in Querier : querier[g].a # None =>
       /\ worker[querier[g].a] = "gone"
       /\ \A h \in Querier : h # g => querier[h].a # querier[g].a
  /\ \A a \in early : InHand(a)

SchedTypes ==
  /\ db \in [Attempt -> DbStates]
  /\ quit \in BOOLEAN
  /\ loop \in {"select", "gone"}
  /\ querier \in [Querier -> [pc : QuerierSteps, a : Attempt \cup {None}]]
  /\ worker \in [Attempt -> WorkerSteps]
  /\ toucher \in [Attempt -> ToucherSteps]
  /\ early \subseteq Attempt

SchedInv == SchedTypes /\ Counts /\ Hands

\* The manager knows of every open connection, and is asked to stop only after
\* the last one was accepted.
ServerInv ==
  /\ ServerTypeOK
  /\ \A c \in Conn : conn[c] # "closed" => c \in managed
  /\ manager = "done" => asked /\ managed = {}
  /\ asked => serve \notin {"listen", "accept", "shutdown"}
  /\ serve = "listen" => managed = {}
  /\ ServeReturned /\ ~killed => managed = {}

\* What main has asked of the scheduler.
Stopping ==
  /\ serve \in {"join", "stopped", "exited"} => quit
  /\ serve \in {"stopped", "exited"} => early = {}

IInv == SchedInv /\ ServerInv /\ Stopping
-----------------------------------------------------------------------------
(* Counting *)

Delta(S, from, to) == (IF to \in S THEN 1 ELSE 0) - (IF from \in S THEN 1 ELSE 0)

\* A set that one element may have entered or left.
LEMMA SetMove ==
  ASSUME NEW X, IsFiniteSet(X), NEW x, NEW Y, Y = X \cup {x} \/ Y = X \ {x}
  PROVE  /\ IsFiniteSet(Y) /\ Cardinality(X) \in Nat /\ Cardinality(Y) \in Nat
         /\ Cardinality(Y) = Cardinality(X) + (IF x \in Y THEN 1 ELSE 0) - (IF x \in X THEN 1 ELSE 0)
<1>1. Cardinality(X) \in Nat
  BY FS_CardinalityType
<1>2. CASE Y = X \cup {x}
  <2>1. /\ IsFiniteSet(Y)
        /\ Cardinality(Y) = IF x \in X THEN Cardinality(X) ELSE Cardinality(X) + 1
    BY <1>2, FS_AddElement
  <2> QED BY <1>1, <1>2, <2>1
<1>3. CASE Y = X \ {x}
  <2>1. /\ IsFiniteSet(Y)
        /\ Cardinality(Y) = IF x \in X THEN Cardinality(X) - 1 ELSE Cardinality(X)
    BY <1>3, FS_RemoveElement
  <2>2. Cardinality(Y) \in Nat
    BY <2>1, FS_CardinalityType
  <2> QED BY <1>1, <1>3, <2>1, <2>2
<1> QED BY <1>2, <1>3

\* One querier goes on.
LEMMA QuerierMove ==
  ASSUME NEW S, IsFiniteSet(Queriers(S)), NEW g \in Querier,
         \A h \in Querier : h # g => querier'[h].pc = querier[h].pc
  PROVE  /\ IsFiniteSet(Queriers(S)')
         /\ Cardinality(Queriers(S)) \in Nat /\ Cardinality(Queriers(S)') \in Nat
         /\ Cardinality(Queriers(S)')
              = Cardinality(Queriers(S)) + Delta(S, querier[g].pc, querier'[g].pc)
<1>1. Queriers(S)' = Queriers(S) \cup {g} \/ Queriers(S)' = Queriers(S) \ {g}
  BY DEF Queriers
<1>2. /\ g \in Queriers(S) <=> querier[g].pc \in S
      /\ g \in Queriers(S)' <=> querier'[g].pc \in S
  BY DEF Queriers
<1>3. /\ IsFiniteSet(Queriers(S)')
      /\ Cardinality(Queriers(S)) \in Nat /\ Cardinality(Queriers(S)') \in Nat
      /\ Cardinality(Queriers(S)') = Cardinality(Queriers(S))
           + (IF g \in Queriers(S)' THEN 1 ELSE 0) - (IF g \in Queriers(S) THEN 1 ELSE 0)
  BY <1>1, SetMove
<1> QED BY <1>2, <1>3 DEF Delta

\* One worker goes on.
LEMMA JobMove ==
  ASSUME NEW S, IsFiniteSet(Jobs(S)), NEW a \in Attempt,
         \A b \in Attempt : b # a => worker'[b] = worker[b]
  PROVE  /\ IsFiniteSet(Jobs(S)')
         /\ Cardinality(Jobs(S)) \in Nat /\ Cardinality(Jobs(S)') \in Nat
         /\ Cardinality(Jobs(S)') = Cardinality(Jobs(S)) + Delta(S, worker[a], worker'[a])
<1>1. Jobs(S)' = Jobs(S) \cup {a} \/ Jobs(S)' = Jobs(S) \ {a}
  BY DEF Jobs
<1>2. /\ a \in Jobs(S) <=> worker[a] \in S
      /\ a \in Jobs(S)' <=> worker'[a] \in S
  BY DEF Jobs
<1>3. /\ IsFiniteSet(Jobs(S)')
      /\ Cardinality(Jobs(S)) \in Nat /\ Cardinality(Jobs(S)') \in Nat
      /\ Cardinality(Jobs(S)') = Cardinality(Jobs(S))
           + (IF a \in Jobs(S)' THEN 1 ELSE 0) - (IF a \in Jobs(S) THEN 1 ELSE 0)
  BY <1>1, SetMove
<1> QED BY <1>2, <1>3 DEF Delta

\* A step of a querier keeps the counters right when it changes them as it moves.
LEMMA QuerierCounts ==
  ASSUME Counts, NEW g \in Querier, worker' = worker,
         \A h \in Querier : h # g => querier'[h].pc = querier[h].pc,
         NEW p, querier[g].pc = p, NEW n, querier'[g].pc = n,
         querierSem' = querierSem + Delta(QueryingSteps, p, n), querierSem' <= MaxQuerier,
         workerSem' = workerSem + Delta(WorklessSteps, p, n), workerSem' <= MaxWorker,
         wg' = wg + Delta(CountedSteps, p, n)
  PROVE  Counts'
<1>1. Jobs(WorkingSteps)' = Jobs(WorkingSteps) /\ Jobs(JobSteps)' = Jobs(JobSteps)
  BY DEF Jobs
<1>2. Cardinality(Jobs(WorkingSteps)) \in Nat /\ Cardinality(Jobs(JobSteps)) \in Nat
  BY FS_CardinalityType DEF Counts
<1>3. /\ IsFiniteSet(Queriers(QueryingSteps)')
      /\ Cardinality(Queriers(QueryingSteps)')
           = Cardinality(Queriers(QueryingSteps)) + Delta(QueryingSteps, p, n)
  BY QuerierMove DEF Counts
<1>4. /\ IsFiniteSet(Queriers(WorklessSteps)')
      /\ Cardinality(Queriers(WorklessSteps)) \in Nat
      /\ Cardinality(Queriers(WorklessSteps)')
           = Cardinality(Queriers(WorklessSteps)) + Delta(WorklessSteps, p, n)
  BY QuerierMove DEF Counts
<1>5. /\ IsFiniteSet(Queriers(CountedSteps)')
      /\ Cardinality(Queriers(CountedSteps)) \in Nat
      /\ Cardinality(Queriers(CountedSteps)')
           = Cardinality(Queriers(CountedSteps)) + Delta(CountedSteps, p, n)
  BY QuerierMove DEF Counts
<1>6. Delta(WorklessSteps, p, n) \in Int /\ Delta(CountedSteps, p, n) \in Int
  BY DEF Delta
<1> QED BY <1>1, <1>2, <1>3, <1>4, <1>5, <1>6 DEF Counts

\* The same for a worker.
LEMMA JobCounts ==
  ASSUME Counts, NEW a \in Attempt, querier' = querier,
         \A b \in Attempt : b # a => worker'[b] = worker[b],
         NEW p, worker[a] = p, NEW n, worker'[a] = n,
         querierSem' = querierSem,
         workerSem' = workerSem + Delta(WorkingSteps, p, n), workerSem' <= MaxWorker,
         wg' = wg + Delta(JobSteps, p, n)
  PROVE  Counts'
<1>1. /\ Queriers(QueryingSteps)' = Queriers(QueryingSteps)
      /\ Queriers(WorklessSteps)' = Queriers(WorklessSteps)
      /\ Queriers(CountedSteps)' = Queriers(CountedSteps)
  BY DEF Queriers
<1>2. Cardinality(Queriers(WorklessSteps)) \in Nat /\ Cardinality(Queriers(CountedSteps)) \in Nat
  BY FS_CardinalityType DEF Counts
<1>3. /\ IsFiniteSet(Jobs(WorkingSteps)') /\ Cardinality(Jobs(WorkingSteps)) \in Nat
      /\ Cardinality(Jobs(WorkingSteps)') = Cardinality(Jobs(WorkingSteps)) + Delta(WorkingSteps, p, n)
  BY JobMove DEF Counts
<1>4. /\ IsFiniteSet(Jobs(JobSteps)') /\ Cardinality(Jobs(JobSteps)) \in Nat
      /\ Cardinality(Jobs(JobSteps)') = Cardinality(Jobs(JobSteps)) + Delta(JobSteps, p, n)
  BY JobMove DEF Counts
<1>5. Delta(WorkingSteps, p, n) \in Int /\ Delta(JobSteps, p, n) \in Int
  BY DEF Delta
<1> QED BY <1>1, <1>2, <1>3, <1>4, <1>5 DEF Counts
-----------------------------------------------------------------------------
(* The server *)

\* The steps of the server keep what its manager knows.
LEMMA ServerStepInv ==
  ASSUME ServerInv, ServerNext
  PROVE  ServerInv'
<1> USE DEF ServerInv, ServerTypeOK, ServeReturned, ServeSteps, ConnSteps, ConnGoes
<1>0. CASE Listen \/ ListenFails
  BY <1>0 DEF Listen, ListenFails
<1>1. CASE ListenerClosed \/ AcceptFails
  BY <1>1 DEF ListenerClosed, AcceptFails
<1>2. CASE AskShutdown
  BY <1>2 DEF AskShutdown
<1>3. CASE AllClosed
  BY <1>3 DEF AllClosed
<1>4. CASE TimedOut
  BY <1>4 DEF TimedOut
<1>5. CASE Interrupt \/ CloseListener
  BY <1>5 DEF Interrupt, CloseListener
<1>6. CASE KillAll
  BY <1>6 DEF KillAll
<1>7. ASSUME NEW c \in Conn, Accept(c)
      PROVE  ServerInv'
  BY <1>7 DEF Accept
<1>8. ASSUME NEW c \in Conn, Request(c) \/ Respond(c) \/ CloseIdle(c)
      PROVE  ServerInv'
  BY <1>8 DEF Request, Respond, CloseIdle
<1>9. ASSUME NEW c \in Conn, Remove(c)
      PROVE  ServerInv'
  BY <1>9 DEF Remove
<1> QED
  BY <1>0, <1>1, <1>2, <1>3, <1>4, <1>5, <1>6, <1>7, <1>8, <1>9
     DEF ServerNext, ServeGoesOn, ConnStep

\* No step of the server comes back from where main stops the scheduler.
LEMMA ServerStepStopping ==
  ASSUME ServerInv, Stopping, ServerNext, UNCHANGED schedVars
  PROVE  Stopping'
BY DEF ServerNext, ServeGoesOn, Listen, ListenFails, ListenerClosed, AcceptFails, AskShutdown, AllClosed, TimedOut, Interrupt,
       CloseListener, KillAll, ConnStep, Accept, Request, Respond, CloseIdle, Remove,
       Stopping, schedVars
-----------------------------------------------------------------------------
(* The scheduler *)

\* The loop, the touchers, and what others do to the attempts.
LEMMA LooseStep ==
  ASSUME SchedInv,
         \/ LoopQuits
         \/ \E a \in Attempt : \/ TouchStarts(a) \/ TouchEnds(a) \/ FollowUp(a)
                              \/ FixerFollowsUp(a) \/ Lapse(a) \/ Create(a)
  PROVE  SchedInv'
<1>1. /\ querier' = querier /\ worker' = worker /\ quit' = quit /\ early' = early
      /\ querierSem' = querierSem /\ workerSem' = workerSem /\ wg' = wg
  BY DEF LoopQuits, TouchStarts, TouchEnds, FollowUp, FixerFollowsUp, Lapse, Create
<1>2. Counts'
  BY <1>1 DEF SchedInv, Counts, Queriers, Jobs
<1>3. SchedTypes'
  <2> USE DEF SchedInv, SchedTypes, DbStates, ToucherSteps
  <2>1. CASE LoopQuits
    BY <1>1, <2>1 DEF LoopQuits
  <2>2. ASSUME NEW a \in Attempt, TouchStarts(a) \/ TouchEnds(a)
        PROVE  SchedTypes'
    BY <1>1, <2>2 DEF TouchStarts, TouchEnds, ToucherGoes
  <2>3. ASSUME NEW a \in Attempt, FollowUp(a) \/ FixerFollowsUp(a)
        PROVE  SchedTypes'
    BY <1>1, <2>3 DEF FollowUp, FixerFollowsUp, Followed, ToucherGoes
  <2>4. ASSUME NEW a \in Attempt, Lapse(a) \/ Create(a)
        PROVE  SchedTypes'
    BY <1>1, <2>4 DEF Lapse, Create
  <2> QED BY <2>1, <2>2, <2>3, <2>4
<1>4. Hands'
  BY <1>1 DEF SchedInv, Hands, InHand
<1> QED BY <1>2, <1>3, <1>4 DEF SchedInv

\* A querier that has no attempt moves on.
LEMMA EmptyHandedStep ==
  ASSUME SchedInv, SchedulerAssumption, NEW g \in Querier,
         \/ LoopSpawns(g) \/ Acquire(g) \/ Register(g) \/ AskFindsNone(g)
         \/ FreeWorker(g) \/ ReleaseQuerier(g) \/ QuerierLeaves(g)
  PROVE  SchedInv'
<1> DEFINE p == querier[g].pc
           n == querier'[g].pc
<1>1. /\ db' = db /\ quit' = quit /\ loop' = loop /\ worker' = worker /\ toucher' = toucher
      /\ early' = early
  BY DEF LoopSpawns, Acquire, Register, AskFindsNone, FreeWorker, ReleaseQuerier, QuerierLeaves
<1>2. PICK step \in QuerierSteps \ {"found"} :
        querier' = [querier EXCEPT ![g].pc = step] /\ p # "found"
  BY DEF LoopSpawns, Acquire, Register, AskFindsNone, FreeWorker, ReleaseQuerier, QuerierLeaves,
         QuerierGoes, QuerierAt, QuerierSteps
<1>3. /\ querier' \in [Querier -> [pc : QuerierSteps, a : Attempt \cup {None}]]
      /\ n = step /\ querier'[g].a = querier[g].a
      /\ \A h \in Querier : h # g => querier'[h] = querier[h]
  BY <1>2 DEF SchedInv, SchedTypes
<1>4. \A h \in Querier : querier'[h].a = querier[h].a
  BY <1>3
<1>5. Hands'
  BY <1>1, <1>2, <1>3, <1>4 DEF SchedInv, Hands, InHand
<1>6. querierSem \in Nat /\ workerSem \in Nat /\ wg \in Nat
      /\ querierSem <= MaxQuerier /\ workerSem <= MaxWorker
      /\ MaxQuerier \in Nat /\ MaxWorker \in Nat
  <2>1. /\ Cardinality(Queriers(QueryingSteps)) \in Nat /\ Cardinality(Queriers(WorklessSteps)) \in Nat
        /\ Cardinality(Queriers(CountedSteps)) \in Nat
        /\ Cardinality(Jobs(WorkingSteps)) \in Nat /\ Cardinality(Jobs(JobSteps)) \in Nat
    BY FS_CardinalityType DEF SchedInv, Counts
  <2> QED BY <2>1 DEF SchedInv, Counts, SchedulerAssumption
<1>7. /\ querierSem' = querierSem + Delta(QueryingSteps, p, n) /\ querierSem' <= MaxQuerier
      /\ workerSem' = workerSem + Delta(WorklessSteps, p, n) /\ workerSem' <= MaxWorker
      /\ wg' = wg + Delta(CountedSteps, p, n)
  <2> USE DEF Delta, QueryingSteps, WorklessSteps, CountedSteps, QuerierAt, QuerierGoes
  <2>0. \A s : querier' = [querier EXCEPT ![g].pc = s] => n = s
    BY DEF SchedInv, SchedTypes
  <2>1. CASE LoopSpawns(g)
    <3>1. p = "gone" /\ n = "acquire"
      BY <2>0, <2>1 DEF LoopSpawns
    <3> HIDE DEF p, n
    <3> QED BY <1>6, <2>1, <3>1 DEF LoopSpawns
  <2>2. CASE Acquire(g)
    <3>1. p = "acquire" /\ n = "register"
      BY <2>0, <2>2 DEF Acquire
    <3> HIDE DEF p, n
    <3> QED BY <1>6, <2>2, <3>1 DEF Acquire
  <2>3. CASE Register(g)
    <3>1. p = "register" /\ n = "ask"
      BY <2>0, <2>3 DEF Register
    <3> HIDE DEF p, n
    <3> QED BY <1>6, <2>3, <3>1 DEF Register
  <2>4. CASE AskFindsNone(g)
    <3>1. p = "ask" /\ n = "none"
      BY <2>0, <2>4 DEF AskFindsNone
    <3> HIDE DEF p, n
    <3> QED BY <1>6, <2>4, <3>1 DEF AskFindsNone
  <2>5. CASE FreeWorker(g)
    <3>1. p = "none" /\ n = "release"
      BY <2>0, <2>5 DEF FreeWorker
    <3> HIDE DEF p, n
    <3> QED BY <1>6, <2>5, <3>1 DEF FreeWorker
  <2>6. CASE ReleaseQuerier(g)
    <3>1. p = "release" /\ n = "leave"
      BY <2>0, <2>6 DEF ReleaseQuerier
    <3> HIDE DEF p, n
    <3> QED BY <1>6, <2>6, <3>1 DEF ReleaseQuerier
  <2>7. CASE QuerierLeaves(g)
    <3>1. p = "leave" /\ n = "gone"
      BY <2>0, <2>7 DEF QuerierLeaves
    <3> HIDE DEF p, n
    <3> QED BY <1>6, <2>7, <3>1 DEF QuerierLeaves
  <2> QED BY <2>1, <2>2, <2>3, <2>4, <2>5, <2>6, <2>7
<1>8. Counts'
  <2>1. Counts /\ (\A h \in Querier : h # g => querier'[h].pc = querier[h].pc) /\ worker' = worker
    BY <1>1, <1>3 DEF SchedInv
  <2> QED BY <1>7, <2>1, QuerierCounts
<1>9. SchedTypes'
  BY <1>1, <1>3 DEF SchedInv, SchedTypes
<1> QED BY <1>5, <1>8, <1>9 DEF SchedInv

\* The counters, whose values the steps below need to be numbers.
LEMMA CountersAreNat ==
  ASSUME Counts
  PROVE  querierSem \in Nat /\ workerSem \in Nat /\ wg \in Nat
<1>1. /\ Cardinality(Queriers(QueryingSteps)) \in Nat /\ Cardinality(Queriers(WorklessSteps)) \in Nat
      /\ Cardinality(Queriers(CountedSteps)) \in Nat
      /\ Cardinality(Jobs(WorkingSteps)) \in Nat /\ Cardinality(Jobs(JobSteps)) \in Nat
  BY FS_CardinalityType DEF Counts
<1> QED BY <1>1 DEF Counts

\* An attempt that is ready and in nobody's hands; the querier takes it.
LEMMA AskFindsStep ==
  ASSUME SchedInv, SchedulerAssumption, NEW g \in Querier, NEW a \in Attempt, AskFinds(g, a)
  PROVE  SchedInv'
<1>1. /\ querier[g].pc = "ask" /\ db[a] = "ready"
      /\ db' = [db EXCEPT ![a] = "leased"]
      /\ querier' = [querier EXCEPT ![g] = [pc |-> "found", a |-> a]]
      /\ early' = IF quit THEN early ELSE early \cup {a}
      /\ UNCHANGED <<quit, loop, querierSem, workerSem, wg, worker, toucher>>
  BY DEF AskFinds, QuerierAt
<1>2. /\ querier'[g].pc = "found" /\ querier'[g].a = a
      /\ \A h \in Querier : h # g => querier'[h] = querier[h]
      /\ querier' \in [Querier -> [pc : QuerierSteps, a : Attempt \cup {None}]]
  BY <1>1 DEF SchedInv, SchedTypes, QuerierSteps
<1>3. ~InHand(a) /\ a # None
  BY SchedulerAssumption DEF AskFinds
<1>4. SchedTypes'
  BY <1>1, <1>2 DEF SchedInv, SchedTypes, DbStates
<1>5. Counts'
  <2>1. /\ querierSem' = querierSem + Delta(QueryingSteps, "ask", "found")
        /\ workerSem' = workerSem + Delta(WorklessSteps, "ask", "found")
        /\ wg' = wg + Delta(CountedSteps, "ask", "found")
    BY <1>1, CountersAreNat DEF SchedInv, Delta, QueryingSteps, WorklessSteps, CountedSteps
  <2>2. querierSem' <= MaxQuerier /\ workerSem' <= MaxWorker /\ Counts
    BY <1>1 DEF SchedInv, Counts
  <2>3. \A h \in Querier : h # g => querier'[h].pc = querier[h].pc
    BY <1>2
  <2> QED BY <1>1, <1>2, <2>1, <2>2, <2>3, QuerierCounts
<1>6. Hands'
  <2>1. \A h \in Querier : querier'[h].a # None <=> querier'[h].pc = "found"
    BY <1>2, <1>3 DEF SchedInv, Hands
  <2>2. worker[a] = "gone" /\ \A h \in Querier : querier[h].a # a
    BY <1>3 DEF InHand
  <2>3. \A h \in Querier : querier'[h].a # None =>
          /\ worker'[querier'[h].a] = "gone"
          /\ \A k \in Querier : k # h => querier'[k].a # querier'[h].a
    BY <1>1, <1>2, <2>2 DEF SchedInv, Hands
  <2>4. InHand(a)' /\ \A b \in Attempt : InHand(b) => InHand(b)'
    <3>1. querier[g].a = None
      BY <1>1 DEF SchedInv, Hands
    <3> QED BY <1>1, <1>2, <3>1, <1>3 DEF InHand, SchedulerAssumption
  <2>5. \A b \in early' : InHand(b)'
    BY <1>1, <2>4 DEF SchedInv, Hands, SchedTypes
  <2> QED BY <2>1, <2>3, <2>5 DEF Hands
<1> QED BY <1>4, <1>5, <1>6 DEF SchedInv

\* The attempt goes over from the querier to the worker, and its place with it.
LEMMA SpawnStep ==
  ASSUME SchedInv, SchedulerAssumption, NEW g \in Querier, SpawnWorker(g)
  PROVE  SchedInv'
<1>0. PICK a \in Attempt : a = querier[g].a /\ a # None /\ worker[a] = "gone"
  BY DEF SpawnWorker, QuerierAt, SchedInv, Hands, SchedTypes
<1>1. /\ querier[g].pc = "found"
      /\ worker' = [worker EXCEPT ![a] = "request"]
      /\ toucher' = [toucher EXCEPT ![a] = "select"]
      /\ wg' = wg + 1
      /\ querier' = [querier EXCEPT ![g] = [pc |-> "release", a |-> None]]
      /\ UNCHANGED <<db, quit, loop, querierSem, workerSem, early>>
  BY <1>0 DEF SpawnWorker, QuerierAt, WorkerGoes, ToucherGoes
<1>2. a \in Attempt /\ a # None /\ worker[a] = "gone"
  BY <1>0
<1>3. /\ querier'[g].pc = "release" /\ querier'[g].a = None
      /\ \A h \in Querier : h # g => querier'[h] = querier[h] /\ querier[h].a # a
      /\ querier' \in [Querier -> [pc : QuerierSteps, a : Attempt \cup {None}]]
      /\ worker'[a] = "request" /\ \A b \in Attempt : b # a => worker'[b] = worker[b]
  BY <1>0, <1>1 DEF SchedInv, SchedTypes, Hands, QuerierSteps
<1>4. SchedTypes'
  BY <1>1, <1>2, <1>3 DEF SchedInv, SchedTypes, WorkerSteps, ToucherSteps
<1>5. Counts'
  <2>1. \A h \in Querier : h # g => querier'[h].pc = querier[h].pc
    BY <1>3
  <2>2. /\ IsFiniteSet(Queriers(QueryingSteps)') /\ Cardinality(Queriers(QueryingSteps)) \in Nat
        /\ Cardinality(Queriers(QueryingSteps)')
             = Cardinality(Queriers(QueryingSteps)) + Delta(QueryingSteps, "found", "release")
    BY <1>1, <1>3, <2>1, QuerierMove DEF SchedInv, Counts
  <2>3. /\ IsFiniteSet(Queriers(WorklessSteps)') /\ Cardinality(Queriers(WorklessSteps)) \in Nat
        /\ Cardinality(Queriers(WorklessSteps)')
             = Cardinality(Queriers(WorklessSteps)) + Delta(WorklessSteps, "found", "release")
    BY <1>1, <1>3, <2>1, QuerierMove DEF SchedInv, Counts
  <2>4. /\ IsFiniteSet(Queriers(CountedSteps)') /\ Cardinality(Queriers(CountedSteps)) \in Nat
        /\ Cardinality(Queriers(CountedSteps)')
             = Cardinality(Queriers(CountedSteps)) + Delta(CountedSteps, "found", "release")
    BY <1>1, <1>3, <2>1, QuerierMove DEF SchedInv, Counts
  <2>5. /\ IsFiniteSet(Jobs(WorkingSteps)') /\ Cardinality(Jobs(WorkingSteps)) \in Nat
        /\ Cardinality(Jobs(WorkingSteps)')
             = Cardinality(Jobs(WorkingSteps)) + Delta(WorkingSteps, "gone", "request")
    BY <1>2, <1>3, JobMove DEF SchedInv, Counts
  <2>6. /\ IsFiniteSet(Jobs(JobSteps)') /\ Cardinality(Jobs(JobSteps)) \in Nat
        /\ Cardinality(Jobs(JobSteps)')
             = Cardinality(Jobs(JobSteps)) + Delta(JobSteps, "gone", "request")
    BY <1>2, <1>3, JobMove DEF SchedInv, Counts
  <2>7. /\ Delta(QueryingSteps, "found", "release") = 0
        /\ Delta(WorklessSteps, "found", "release") = -1
        /\ Delta(CountedSteps, "found", "release") = 0
        /\ Delta(WorkingSteps, "gone", "request") = 1
        /\ Delta(JobSteps, "gone", "request") = 1
    BY DEF Delta, QueryingSteps, WorklessSteps, CountedSteps, WorkingSteps, JobSteps, WorkerSteps
  <2> QED BY <1>1, <2>2, <2>3, <2>4, <2>5, <2>6, <2>7 DEF SchedInv, Counts
<1>6. Hands'
  <2>1. \A b \in Attempt : InHand(b)' <=> InHand(b)
    <3>1. \A b \in Attempt : b # a => (InHand(b)' <=> InHand(b))
      BY <1>0, <1>3, SchedulerAssumption DEF InHand
    <3>2. InHand(a) /\ InHand(a)'
      BY <1>0, <1>3 DEF InHand
    <3> QED BY <3>1, <3>2
  <2>2. \A h \in Querier : querier'[h].a # None <=> querier'[h].pc = "found"
    BY <1>3 DEF SchedInv, Hands
  <2>3. \A h \in Querier : querier'[h].a # None =>
          /\ worker'[querier'[h].a] = "gone"
          /\ \A k \in Querier : k # h => querier'[k].a # querier'[h].a
    BY <1>3 DEF SchedInv, Hands, SchedTypes
  <2>4. \A b \in early' : InHand(b)'
    BY <1>1, <2>1 DEF SchedInv, Hands, SchedTypes
  <2> QED BY <1>1, <2>1, <2>2, <2>3, <2>4 DEF SchedInv, Hands
<1> QED BY <1>4, <1>5, <1>6 DEF SchedInv

\* A worker moves on, with its attempt in hand until it leaves.
LEMMA WorkerStepInv ==
  ASSUME SchedInv, SchedulerAssumption, NEW a \in Attempt,
         \/ Answered(a) \/ RequestFails(a) \/ PassResult(a) \/ JoinToucher(a)
         \/ WorkerFrees(a) \/ WorkerLeaves(a)
  PROVE  SchedInv'
<1> DEFINE p == worker[a]
           n == worker'[a]
<1>1. /\ querier' = querier /\ querierSem' = querierSem /\ quit' = quit /\ loop' = loop
      /\ db' \in {db, [db EXCEPT ![a] = "answered"]}
      /\ early' = IF WorkerLeaves(a) THEN early \ {a} ELSE early
  BY DEF Answered, RequestFails, PassResult, JoinToucher, WorkerFrees, WorkerLeaves, WorkerGoes
<1>2. PICK step \in WorkerSteps :
        worker' = [worker EXCEPT ![a] = step] /\ p # "gone" /\ (step = "gone" <=> p = "leave")
        /\ (WorkerLeaves(a) <=> p = "leave")
  BY DEF Answered, RequestFails, PassResult, JoinToucher, WorkerFrees, WorkerLeaves, WorkerGoes,
         WorkerSteps
<1>3. /\ n = step /\ worker' \in [Attempt -> WorkerSteps]
      /\ \A b \in Attempt : b # a => worker'[b] = worker[b]
  BY <1>2 DEF SchedInv, SchedTypes
<1>4. toucher' \in [Attempt -> ToucherSteps]
  BY DEF Answered, RequestFails, PassResult, JoinToucher, WorkerFrees, WorkerLeaves,
         ToucherGoes, SchedInv, SchedTypes, ToucherSteps
<1>5. SchedTypes'
  BY <1>1, <1>3, <1>4 DEF SchedInv, SchedTypes, DbStates
<1>6. /\ workerSem' = workerSem + Delta(WorkingSteps, p, n) /\ workerSem' <= MaxWorker
      /\ wg' = wg + Delta(JobSteps, p, n)
  <2> USE DEF Delta, WorkingSteps, JobSteps, WorkerSteps, WorkerGoes
  <2>0. /\ \A s : worker' = [worker EXCEPT ![a] = s] => n = s
        /\ workerSem \in Nat /\ wg \in Nat /\ workerSem <= MaxWorker /\ MaxWorker \in Nat
    BY CountersAreNat DEF SchedInv, SchedTypes, Counts, SchedulerAssumption
  <2>1. CASE Answered(a)
    <3>1. p = "request" /\ n = "sendResult" /\ workerSem' = workerSem /\ wg' = wg
      BY <2>0, <2>1 DEF Answered
    <3> HIDE DEF p, n
    <3> QED BY <2>0, <3>1
  <2>2. CASE RequestFails(a)
    <3>1. p = "request" /\ n = "sendNil" /\ workerSem' = workerSem /\ wg' = wg
      BY <2>0, <2>2 DEF RequestFails
    <3> HIDE DEF p, n
    <3> QED BY <2>0, <3>1
  <2>3. CASE PassResult(a)
    <3>1. p \in {"sendResult", "sendNil"} /\ n = "join" /\ workerSem' = workerSem /\ wg' = wg
      BY <2>0, <2>3 DEF PassResult
    <3> HIDE DEF p, n
    <3> QED BY <2>0, <3>1
  <2>4. CASE JoinToucher(a)
    <3>1. p = "join" /\ n = "free" /\ workerSem' = workerSem /\ wg' = wg
      BY <2>0, <2>4 DEF JoinToucher
    <3> HIDE DEF p, n
    <3> QED BY <2>0, <3>1
  <2>5. CASE WorkerFrees(a)
    <3>1. p = "free" /\ n = "leave" /\ workerSem' = workerSem - 1 /\ wg' = wg
      BY <2>0, <2>5 DEF WorkerFrees
    <3> HIDE DEF p, n
    <3> QED BY <2>0, <3>1
  <2>6. CASE WorkerLeaves(a)
    <3>1. p = "leave" /\ n = "gone" /\ workerSem' = workerSem /\ wg' = wg - 1
      BY <2>0, <2>6 DEF WorkerLeaves
    <3> HIDE DEF p, n
    <3> QED BY <2>0, <3>1
  <2> QED BY <2>1, <2>2, <2>3, <2>4, <2>5, <2>6
<1>7. Counts'
  <2>1. Counts
    BY DEF SchedInv
  <2> QED BY <1>1, <1>3, <1>6, <2>1, JobCounts
<1>8. Hands'
  <2>1. \A h \in Querier : querier[h].a # a
    BY <1>2 DEF SchedInv, Hands
  <2>2. \A b \in Attempt : InHand(b) => InHand(b)' \/ (b = a /\ p = "leave")
    BY <1>1, <1>2, <1>3 DEF InHand
  <2>3. \A b \in early' : InHand(b)'
    BY <1>1, <1>2, <2>2 DEF SchedInv, Hands, SchedTypes
  <2>4. \A h \in Querier : querier'[h].a # None =>
          /\ worker'[querier'[h].a] = "gone"
          /\ \A k \in Querier : k # h => querier'[k].a # querier'[h].a
    BY <1>1, <1>3, <2>1 DEF SchedInv, Hands, SchedTypes
  <2> QED BY <1>1, <2>3, <2>4 DEF SchedInv, Hands
<1> QED BY <1>5, <1>7, <1>8 DEF SchedInv
-----------------------------------------------------------------------------
(* The process *)

\* Nothing is counted, nobody has anything.
LEMMA NobodyCounts ==
  ASSUME querierSem = 0, workerSem = 0, wg = 0,
         \A g \in Querier : querier[g].pc = "gone", \A a \in Attempt : worker[a] = "gone",
         SchedulerAssumption
  PROVE  Counts
<1>1. /\ Queriers(QueryingSteps) = {} /\ Queriers(WorklessSteps) = {}
      /\ Queriers(CountedSteps) = {}
  BY DEF Queriers, QueryingSteps, WorklessSteps, CountedSteps
<1>2. Jobs(WorkingSteps) = {} /\ Jobs(JobSteps) = {}
  BY DEF Jobs, WorkingSteps, JobSteps
<1> QED BY <1>1, <1>2, FS_EmptySet DEF Counts, SchedulerAssumption

\* The same for the attempts.
LEMMA NobodyHands ==
  ASSUME SchedulerAssumption, querier = [g \in Querier |-> Gone],
         worker = [a \in Attempt |-> "gone"], early = {}
  PROVE  Hands
BY DEF Hands, InHand, Gone, SchedulerAssumption

\* The process starts in the invariant.
LEMMA InitInv ==
  ASSUME SchedulerAssumption, Init
  PROVE  IInv
<1> USE DEF Init, SchedInit, ServerInit
<1>1. Counts
  BY NobodyCounts DEF Gone
<1>2. Hands
  BY NobodyHands
<1>3. SchedTypes
  BY DEF SchedTypes, DbStates, QuerierSteps, WorkerSteps, ToucherSteps, Gone
<1>4. ServerInv
  BY DEF ServerInv, ServerTypeOK, ServeSteps, ConnSteps, ServeReturned
<1>5. Stopping
  BY DEF Stopping
<1> QED BY <1>1, <1>2, <1>3, <1>4, <1>5 DEF IInv, SchedInv

\* The steps of the scheduler; none but the end of one closes quit, and only
\* before that is an attempt leased early.
LEMMA SchedStepInv ==
  ASSUME SchedulerAssumption, IInv, SchedNext, UNCHANGED serverVars
  PROVE  IInv'
<1>1. SchedInv'
  <2>1. CASE LoopQuits
    BY <2>1, LooseStep DEF IInv
  <2>2. ASSUME NEW g \in Querier, LoopSpawns(g) \/ Acquire(g) \/ QuerierGoesOn(g)
        PROVE  SchedInv'
    <3>1. CASE \E a \in Attempt : AskFinds(g, a)
      BY <3>1, AskFindsStep DEF IInv
    <3>2. CASE SpawnWorker(g)
      BY <3>2, SpawnStep DEF IInv
    <3>3. CASE \/ LoopSpawns(g) \/ Acquire(g) \/ Register(g) \/ AskFindsNone(g)
               \/ FreeWorker(g) \/ ReleaseQuerier(g) \/ QuerierLeaves(g)
      BY <3>3, EmptyHandedStep DEF IInv
    <3> QED BY <2>2, <3>1, <3>2, <3>3 DEF QuerierGoesOn
  <2>3. ASSUME NEW a \in Attempt,
               \/ RequestEnds(a) \/ WorkerGoesOn(a) \/ PassResult(a) \/ TouchStarts(a)
               \/ TouchEnds(a) \/ FixerFollowsUp(a) \/ Lapse(a)
        PROVE  SchedInv'
    <3>1. CASE TouchStarts(a) \/ TouchEnds(a) \/ FollowUp(a) \/ FixerFollowsUp(a) \/ Lapse(a)
      BY <3>1, LooseStep DEF IInv
    <3>2. CASE \/ Answered(a) \/ RequestFails(a) \/ PassResult(a) \/ JoinToucher(a)
               \/ WorkerFrees(a) \/ WorkerLeaves(a)
      BY <3>2, WorkerStepInv DEF IInv
    <3> QED BY <2>3, <3>1, <3>2 DEF WorkerGoesOn, RequestEnds
  <2> QED BY <2>1, <2>2, <2>3 DEF SchedNext
<1>2. quit' = quit /\ (quit => early' \subseteq early)
  BY DEF SchedNext, LoopQuits, LoopSpawns, Acquire, QuerierGoesOn, Register, AskFinds,
         AskFindsNone, SpawnWorker, FreeWorker, ReleaseQuerier, QuerierLeaves, WorkerGoesOn, RequestEnds,
         Answered, RequestFails, FollowUp, JoinToucher, WorkerFrees, WorkerLeaves, PassResult,
         TouchStarts, TouchEnds, FixerFollowsUp, Lapse
<1>3. Stopping'
  BY <1>2 DEF Stopping, serverVars, IInv
<1>4. ServerInv'
  BY DEF ServerInv, ServerTypeOK, ServeReturned, serverVars, IInv
<1> QED BY <1>1, <1>3, <1>4 DEF IInv

\* When nobody is counted, nobody has an attempt.
LEMMA NobodyCounted ==
  ASSUME SchedInv, wg = 0
  PROVE  early = {}
<1>1. Cardinality(Queriers(CountedSteps)) \in Nat /\ Cardinality(Jobs(JobSteps)) \in Nat
  BY FS_CardinalityType DEF SchedInv, Counts
<1>2. Cardinality(Queriers(CountedSteps)) = 0 /\ Cardinality(Jobs(JobSteps)) = 0
  BY <1>1 DEF SchedInv, Counts
<1>3. Queriers(CountedSteps) = {} /\ Jobs(JobSteps) = {}
  BY <1>2, FS_EmptySet DEF SchedInv, Counts
<1>4. \A g \in Querier : querier[g].pc # "found"
  BY <1>3 DEF Queriers, CountedSteps
<1>5. \A a \in Attempt : worker[a] = "gone"
  BY <1>3 DEF Jobs, JobSteps, SchedInv, SchedTypes
<1>6. \A a \in Attempt : ~InHand(a)
  <2>1. SUFFICES ASSUME NEW a \in Attempt, NEW g \in Querier, querier[g].a = a PROVE FALSE
    BY <1>5 DEF InHand
  <2>2. querier[g].a = None
    BY <1>4 DEF SchedInv, Hands
  <2> QED BY <2>1, <2>2, SchedulerAssumption
<1> QED BY <1>6 DEF SchedInv, Hands, SchedTypes

\* Every step keeps the invariant.
LEMMA NextInv ==
  ASSUME SchedulerAssumption, IInv, [Next]_vars
  PROVE  IInv'
<1>1. CASE InScheduler(SchedNext)
  BY <1>1, SchedStepInv DEF InScheduler
<1>2. CASE InServer(ServerNext)
  <2>1. SchedInv'
    BY <1>2 DEF InServer, schedVars, IInv, SchedInv, SchedTypes, Counts, Queriers, Jobs, Hands, InHand
  <2>2. ServerInv' /\ Stopping'
    BY <1>2, ServerStepInv, ServerStepStopping DEF InServer, IInv
  <2> QED BY <2>1, <2>2 DEF IInv
<1>3. ASSUME NEW c \in Conn, NEW a \in Attempt, HandlePut(c, a)
      PROVE  IInv'
  <2>1. SchedInv'
    BY <1>3, LooseStep DEF HandlePut, IInv
  <2>2. ServerInv' /\ Stopping'
    BY <1>3 DEF HandlePut, Create, serverVars, IInv, ServerInv, ServerTypeOK, ServeReturned, Stopping
  <2> QED BY <2>1, <2>2 DEF IInv
<1>4. CASE StopScheduler
  <2>1. SchedInv'
    BY <1>4 DEF StopScheduler, CloseQuit, IInv, SchedInv, SchedTypes, Counts, Queriers, Jobs,
                Hands, InHand
  <2>2. ServerInv' /\ Stopping'
    BY <1>4 DEF StopScheduler, CloseQuit, IInv, ServerInv, ServerTypeOK, ServeReturned, Stopping,
                ServeSteps
  <2> QED BY <2>1, <2>2 DEF IInv
<1>5. CASE StopReturns
  <2>1. SchedInv'
    BY <1>5 DEF StopReturns, schedVars, IInv, SchedInv, SchedTypes, Counts, Queriers, Jobs,
                Hands, InHand
  <2>2. early = {}
    BY <1>5, NobodyCounted DEF StopReturns, CanReturn, IInv
  <2>3. ServerInv' /\ Stopping'
    BY <1>5, <2>2 DEF StopReturns, CanReturn, schedVars, IInv, ServerInv, ServerTypeOK,
                      ServeReturned, Stopping, ServeSteps
  <2> QED BY <2>1, <2>3 DEF IInv
<1>6. CASE Exit
  <2> USE DEF Exit, Vanish
  <2>1. Counts'
    <3>1. /\ Queriers(QueryingSteps)' = {} /\ Queriers(WorklessSteps)' = {}
          /\ Queriers(CountedSteps)' = {}
      BY <1>6 DEF Queriers, QueryingSteps, WorklessSteps, CountedSteps, Gone
    <3>2. Jobs(WorkingSteps)' = {} /\ Jobs(JobSteps)' = {}
      BY <1>6 DEF Jobs, WorkingSteps, JobSteps
    <3> QED BY <1>6, <3>1, <3>2, FS_EmptySet, SchedulerAssumption DEF Counts, SchedulerAssumption
  <2>2. Hands'
    BY <1>6 DEF Hands, InHand, Gone, SchedulerAssumption
  <2>3. SchedTypes'
    BY <1>6 DEF SchedTypes, QuerierSteps, WorkerSteps, ToucherSteps, Gone, IInv, SchedInv
  <2>4. ServerInv' /\ Stopping'
    BY <1>6 DEF IInv, ServerInv, ServerTypeOK, ServeReturned, Stopping, ServeSteps, ConnSteps
  <2> QED BY <2>1, <2>2, <2>3, <2>4 DEF IInv, SchedInv
<1>7. CASE UNCHANGED vars
  BY <1>7 DEF vars, schedVars, serverVars, IInv, SchedInv, SchedTypes, Counts, Queriers, Jobs,
              Hands, InHand, ServerInv, ServerTypeOK, ServeReturned, Stopping
<1> QED
  BY <1>1, <1>2, <1>3, <1>4, <1>5, <1>6, <1>7 DEF Next, Exited

\* The invariant holds in every reachable state.
LEMMA InvHolds == Spec => []IInv
<1>1. Init => IInv
  BY SchedulerAssumption, InitInv
<1>2. IInv /\ [Next]_vars => IInv'
  BY SchedulerAssumption, NextInv
<1> QED BY <1>1, <1>2, PTL DEF Spec
-----------------------------------------------------------------------------
(* What follows *)

\* Every variable keeps its type: the semaphores never hold more than their
\* channel takes, and the wait group never goes below zero, at which Go panics.
THEOREM TypesAlways == Spec => []TypeOK
<1>1. IInv => TypeOK
  <2>1. SUFFICES ASSUME IInv PROVE TypeOK
    OBVIOUS
  <2>2. querierSem \in 0..MaxQuerier /\ workerSem \in 0..MaxWorker /\ wg \in Nat
    BY <2>1, CountersAreNat, SchedulerAssumption DEF IInv, SchedInv, Counts
  <2> QED BY <2>1, <2>2 DEF IInv, SchedInv, SchedTypes, ServerInv, TypeOK, SchedTypeOK
<1> QED BY <1>1, InvHolds, PTL

\* Queriers and workers together keep to the limits of the two semaphores,
\* although a worker's place is taken by its querier and given back by itself.
THEOREM PlacesAlways == Spec => []PlacesBounded
<1>1. IInv => PlacesBounded
  <2>1. /\ Workless = Queriers(WorklessSteps) /\ Querying = Queriers(QueryingSteps)
        /\ Working = Jobs(WorkingSteps)
    BY DEF Workless, Querying, Working, Queriers, Jobs, WorklessSteps, QueryingSteps, WorkingSteps
  <2> QED BY <2>1 DEF IInv, SchedInv, Counts, PlacesBounded
<1> QED BY <1>1, InvHolds, PTL

\* When Stop has returned, no goroutine has an attempt that was leased before
\* the quit channel was closed.
THEOREM StopWaitsAlways == Spec => []StopWaitsForLeased
<1>1. IInv => StopWaitsForLeased
  BY DEF IInv, Stopping, StopWaitsForLeased
<1> QED BY <1>1, InvHolds, PTL

\* The server hands over to Stop while a handler runs only after the timeout.
THEOREM HandlersFinishAlways == Spec => []HandlersFinish
<1>1. IInv => HandlersFinish
  BY DEF IInv, ServerInv, HandlersFinish, Handling
<1> QED BY <1>1, InvHolds, PTL
=============================================================================
