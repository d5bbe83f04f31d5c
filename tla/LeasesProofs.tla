---------------------------- MODULE LeasesProofs ----------------------------
(***************************************************************************)
(* RenewedInTime and OneExecutor for any number of attempts, queues and    *)
(* workers and for every latency that LeaseAssumption allows.              *)
(*                                                                         *)
(* What is inductive says how much of its lease a worker may still use     *)
(* before the next renewal is written (Need), and that this much is left.  *)
(***************************************************************************)
EXTENDS Leases, TLAPS, FiniteSetTheorems

\* How long NextAttempt may take once the queues in f were found full.
Budget(f) == Latency * (Cardinality(f) + 1)

\* The time until the next renewal of the lease is written, at most, for a worker
\* whose local state is l.
Need(l) ==
  IF l.pc = "enqueue" THEN Budget(l.full) - l.clock + TouchInterval + Latency
  ELSE IF l.pc = "run" THEN TouchInterval - l.clock + Latency
  ELSE Latency - l.clock

\* The clock is as fresh as Tick keeps it, and an attempt is not taken from a
\* queue that was found full.
Sound(l) ==
  /\ l.a # None <=> l.pc \in {"enqueue", "run", "touch"}
  /\ l.pc \in {"find", "enqueue"} => l.clock <= Budget(l.full) /\ ~l.missed
  /\ l.pc = "run" => l.clock <= TouchInterval
  /\ l.pc = "touch" => l.clock <= Latency
  /\ l.pc = "enqueue" => QueueOf[l.a] \notin l.full

Enough == \A w \in Worker : proc[w].a # None /\ ~proc[w].missed => left[proc[w].a] >= Need(proc[w])

IInv ==
  /\ left \in [Attempt -> Int]
  /\ proc \in [Worker -> Locals]
  /\ \A w \in Worker : Sound(proc[w])
  /\ Enough
  /\ OneExecutor
-----------------------------------------------------------------------------
\* NextAttempt's time is bounded, however many queues are full; and with one of
\* them not yet found full it leaves room in a lease for two latencies.
LEMMA BudgetFits ==
  ASSUME NEW f \in SUBSET Queue
  PROVE  /\ Budget(f) \in Nat
         /\ \A q \in Queue : q \notin f => Budget(f) + 2 * Latency <= TouchInterval
         /\ \A q \in Queue : Budget(f) <= Budget(f \cup {q})
<1> USE LeaseAssumption
<1>1. IsFiniteSet(f) /\ Cardinality(f) \in Nat /\ Cardinality(Queue) \in Nat
  BY FS_Subset, FS_CardinalityType
<1>2. Budget(f) \in Nat
  <2>1. \A k \in Nat : Latency * (k + 1) \in Nat
    OBVIOUS
  <2> QED BY <1>1, <2>1 DEF Budget
<1>3. ASSUME NEW q \in Queue, q \notin f
      PROVE  Budget(f) + 2 * Latency <= TouchInterval
  <2>1. Cardinality(f) + 1 <= Cardinality(Queue)
    <3>1. f # Queue /\ f \subseteq Queue
      BY <1>3
    <3>2. Cardinality(f) <= Cardinality(Queue) /\ (Cardinality(f) = Cardinality(Queue) => f = Queue)
      BY <3>1, FS_Subset
    <3> QED BY <1>1, <3>1, <3>2
  <2>2. \A k, n \in Nat : k + 1 <= n => Latency * (k + 1) + 2 * Latency <= Latency * (n + 2)
    <3>1. SUFFICES ASSUME NEW k \in Nat, NEW n \in Nat, k + 1 <= n
                   PROVE  Latency * (k + 1) + 2 * Latency <= Latency * (n + 2)
      OBVIOUS
    <3>2. PICK d \in Nat : n = k + 1 + d
      <4>1. n - (k + 1) \in Nat
        BY <3>1
      <4> QED BY <4>1
    <3>3. Latency * (n + 2) = Latency * (k + 1) + 2 * Latency + Latency * d
      BY <3>2
    <3>4. Latency * d \in Nat /\ Latency * (k + 1) \in Nat
      OBVIOUS
    <3> QED BY <3>3, <3>4
  <2>3. Latency * (Cardinality(f) + 1) + 2 * Latency <= Latency * (Cardinality(Queue) + 2)
    BY <1>1, <2>1, <2>2
  <2>4. Latency * (Cardinality(Queue) + 2) \in Nat
    BY <1>1
  <2> QED BY <1>1, <1>2, <2>3, <2>4 DEF Budget
<1>4. ASSUME NEW q \in Queue
      PROVE  Budget(f) <= Budget(f \cup {q})
  <2>1. IsFiniteSet(f \cup {q}) /\ Cardinality(f) <= Cardinality(f \cup {q})
    <3>1. IsFiniteSet(f \cup {q})
      BY <1>1, FS_AddElement
    <3> QED BY <3>1, FS_Subset
  <2>2. Cardinality(f \cup {q}) \in Nat
    BY <2>1, FS_CardinalityType
  <2>3. \A k, n \in Nat : k <= n => Latency * (k + 1) <= Latency * (n + 1)
    <3>1. SUFFICES ASSUME NEW k \in Nat, NEW n \in Nat, k <= n
                   PROVE  Latency * (k + 1) <= Latency * (n + 1)
      OBVIOUS
    <3>2. PICK d \in Nat : n = k + d
      <4>1. n - k \in Nat
        BY <3>1
      <4> QED BY <4>1
    <3>3. Latency * (n + 1) = Latency * (k + 1) + Latency * d
      BY <3>2
    <3>4. Latency * d \in Nat /\ Latency * (k + 1) \in Nat
      OBVIOUS
    <3> QED BY <3>3, <3>4
  <2> QED BY <1>1, <2>1, <2>2, <2>3 DEF Budget
<1> QED BY <1>2, <1>3, <1>4

\* A lease has room for two latencies beside an interval.
LEMMA TwoLatencies == 2 * Latency <= TouchInterval
<1> USE LeaseAssumption
<1>1. IsFiniteSet(Queue) /\ Cardinality(Queue) \in Nat
  BY FS_CardinalityType
<1>2. \A n \in Nat : 2 * Latency <= Latency * (n + 2)
  <2>1. SUFFICES ASSUME NEW n \in Nat PROVE 2 * Latency <= Latency * (n + 2)
    OBVIOUS
  <2>2. Latency * (n + 2) = Latency * n + 2 * Latency /\ Latency * n \in Nat
    OBVIOUS
  <2> QED BY <2>2
<1>3. Latency * (Cardinality(Queue) + 2) \in Nat
  BY <1>1
<1> QED BY <1>1, <1>2, <1>3

\* A renewal of a lease, by whomever, covers what any worker of the attempt needs.
LEMMA NeedFits ==
  ASSUME NEW l \in Locals, Sound(l), l.a # None
  PROVE  Need(l) \in Nat /\ Need(l) <= Lease - Latency
<1> USE LeaseAssumption
<1>1. l.full \in SUBSET Queue /\ l.clock \in Nat /\ l.a \in Attempt
  BY DEF Locals
<1>2. Budget(l.full) \in Nat
  BY <1>1, BudgetFits
<1>3. CASE l.pc = "enqueue"
  <2>1. QueueOf[l.a] \in Queue /\ QueueOf[l.a] \notin l.full
    BY <1>1, <1>3 DEF Sound
  <2>2. Budget(l.full) + 2 * Latency <= TouchInterval
    BY <1>1, <2>1, BudgetFits
  <2>3. l.clock <= Budget(l.full)
    BY <1>3 DEF Sound
  <2> QED BY <1>1, <1>2, <1>3, <2>2, <2>3 DEF Need, Lease
<1>4. CASE l.pc = "run"
  BY <1>1, <1>4, TwoLatencies DEF Need, Lease, Sound
<1>5. CASE l.pc = "touch"
  BY <1>1, <1>5, TwoLatencies DEF Need, Lease, Sound
<1> QED BY <1>3, <1>4, <1>5 DEF Sound

\* A step of one worker that leaves the leases alone.
LEMMA OwnStep ==
  ASSUME IInv, NEW w \in Worker, NEW l \in Locals, Sound(l),
         Become(w, l), left' = left,
         l.a # None => /\ l.a = proc[w].a
                       /\ proc[w].missed => l.missed
                       /\ ~l.missed => Need(l) <= Need(proc[w])
  PROVE  IInv'
<1>1. /\ proc' \in [Worker -> Locals] /\ proc'[w] = l
      /\ \A v \in Worker : v # w => proc'[v] = proc[v]
  BY DEF IInv, Become
<1>2. \A v \in Worker : Sound(proc'[v])
  BY <1>1 DEF IInv
<1>3. ASSUME NEW v \in Worker, proc'[v].a # None, ~proc'[v].missed
      PROVE  left'[proc'[v].a] >= Need(proc'[v])
  <2>1. CASE v # w
    BY <1>1, <1>3, <2>1 DEF IInv, Enough
  <2>2. CASE v = w
    <3>1. l.a = proc[w].a /\ ~proc[w].missed /\ Need(l) <= Need(proc[w]) /\ l.a # None
      BY <1>1, <1>3, <2>2 DEF Locals
    <3>2. left[l.a] >= Need(proc[w])
      BY <3>1 DEF IInv, Enough
    <3>3. Need(l) \in Nat /\ Need(proc[w]) \in Nat
      BY <3>1, NeedFits DEF IInv
    <3>4. left[l.a] \in Int
      BY <3>1 DEF IInv, Locals
    <3> QED BY <1>1, <2>2, <3>1, <3>2, <3>3, <3>4
  <2> QED BY <2>1, <2>2
<1>4. OneExecutor'
  BY <1>1 DEF IInv, OneExecutor, Locals
<1>5. left' \in [Attempt -> Int]
  BY DEF IInv
<1>6. Enough'
  BY <1>3 DEF Enough
<1>7. (\A v \in Worker : Sound(proc[v]))'
  BY <1>2 DEF Sound, Budget
<1> QED BY <1>1, <1>4, <1>5, <1>6, <1>7 DEF IInv, Locals

\* The other workers of the attempt of l are content with a lease of d.
Content(w, l, d) ==
  \A v \in Worker : v # w /\ proc[v].a = l.a =>
    /\ ~proc[v].missed => Need(proc[v]) <= d
    /\ proc[v].missed \/ l.missed

\* A step of one worker that writes the lease of its attempt.
LEMMA LeaseStep ==
  ASSUME IInv, NEW w \in Worker, NEW l \in Locals, Sound(l), l.a # None,
         Become(w, l),
         NEW d \in Int, left' = [left EXCEPT ![l.a] = d],
         ~l.missed => Need(l) <= d,
         Content(w, l, d)
  PROVE  IInv'
<1>1. /\ proc' \in [Worker -> Locals] /\ proc'[w] = l
      /\ \A v \in Worker : v # w => proc'[v] = proc[v]
  BY DEF IInv, Become
<1>2. \A v \in Worker : Sound(proc'[v])
  BY <1>1 DEF IInv
<1>3. l.a \in Attempt /\ left' \in [Attempt -> Int] /\ left'[l.a] = d
      /\ \A b \in Attempt : b # l.a => left'[b] = left[b]
  BY DEF IInv, Locals
<1>4. ASSUME NEW v \in Worker, proc'[v].a # None, ~proc'[v].missed
      PROVE  left'[proc'[v].a] >= Need(proc'[v])
  <2>1. CASE v = w
    <3>1. Need(l) \in Nat
      BY NeedFits
    <3> QED BY <1>1, <1>3, <1>4, <2>1, <3>1
  <2>2. CASE v # w /\ proc[v].a = l.a
    <3>1. Need(proc[v]) \in Nat
      BY <2>2, NeedFits DEF IInv
    <3> QED BY <1>1, <1>3, <1>4, <2>2, <3>1 DEF Content
  <2>3. CASE v # w /\ proc[v].a # l.a
    <3>1. proc[v].a \in Attempt
      BY <1>1, <1>4, <2>3 DEF IInv, Locals
    <3> QED BY <1>1, <1>3, <1>4, <2>3, <3>1 DEF IInv, Enough
  <2> QED BY <2>1, <2>2, <2>3
<1>5. OneExecutor'
  <2>1. SUFFICES ASSUME NEW u \in Worker, NEW v \in Worker, u # v,
                        proc'[u].a = proc'[v].a, proc'[u].a # None
                 PROVE  proc'[u].missed \/ proc'[v].missed
    BY DEF OneExecutor
  <2>2. CASE u = w
    BY <1>1, <2>1, <2>2 DEF Content
  <2>3. CASE v = w
    BY <1>1, <2>1, <2>3 DEF Content
  <2>4. CASE u # w /\ v # w
    BY <1>1, <2>1, <2>4 DEF IInv, OneExecutor
  <2> QED BY <2>2, <2>3, <2>4
<1>6. Enough'
  BY <1>4 DEF Enough
<1>7. (\A v \in Worker : Sound(proc[v]))'
  BY <1>2 DEF Sound, Budget
<1> QED BY <1>1, <1>3, <1>5, <1>6, <1>7 DEF IInv, Locals
-----------------------------------------------------------------------------
(* IInv is inductive. *)

\* At the start nobody works.
LEMMA InitInv == Init => IInv
<1> SUFFICES ASSUME Init PROVE IInv
  OBVIOUS
<1>1. \A w \in Worker : proc[w] = Rest
  BY DEF Init
<1>2. Rest \in Locals /\ Sound(Rest) /\ Rest.a = None
  BY LeaseAssumption DEF Rest, Locals, Sound
<1> QED BY <1>1, <1>2 DEF Init, IInv, Enough, OneExecutor

\* NextAttempt: the clock is read, and the queues that are full are passed over.
LEMMA NextAttemptStep ==
  ASSUME IInv, NEW w \in Worker, Ask(w) \/ FindNone(w) \/ EnQueue(w) \/ EnQueueFull(w)
  PROVE  IInv'
<1> USE LeaseAssumption
<1>0. proc[w] \in Locals /\ Sound(proc[w])
  BY DEF IInv
<1>1. CASE Ask(w)
  <2> DEFINE l == [Rest EXCEPT !.pc = "find"]
  <2>1. {} \in SUBSET Queue /\ Budget({}) \in Nat
    BY BudgetFits
  <2>2. Rest \in Locals /\ Rest.a = None /\ Rest.full = {} /\ Rest.clock = 0 /\ ~Rest.missed
    BY DEF Rest, Locals
  <2>3. l \in Locals /\ Sound(l) /\ l.a = None
    BY <2>1, <2>2 DEF Locals, Sound
  <2>4. Become(w, l) /\ left' = left
    BY <1>1 DEF Ask
  <2> HIDE DEF l
  <2> QED BY <2>3, <2>4, OwnStep
<1>2. CASE FindNone(w)
  <2>1. Rest \in Locals /\ Sound(Rest) /\ Rest.a = None
    BY DEF Rest, Locals, Sound
  <2>2. Become(w, Rest) /\ left' = left
    BY <1>2 DEF FindNone
  <2> QED BY <2>1, <2>2, OwnStep
<1>3. CASE EnQueue(w)
  <2> DEFINE l == [Rest EXCEPT !.pc = "run", !.a = proc[w].a]
  <2>1. proc[w].pc = "enqueue" /\ proc[w].a \in Attempt /\ ~proc[w].missed
    BY <1>0, <1>3 DEF EnQueue, At, Sound, Locals
  <2>2. l \in Locals /\ Sound(l) /\ l.a = proc[w].a /\ l.pc = "run" /\ l.clock = 0
    <3>1. Rest \in Locals /\ Rest.clock = 0 /\ ~Rest.missed
      BY DEF Rest, Locals
    <3>2. l \in Locals /\ l.a = proc[w].a /\ l.pc = "run" /\ l.clock = 0
      BY <2>1, <3>1 DEF Locals
    <3> HIDE DEF l
    <3> QED BY <2>1, <3>2 DEF Sound
  <2>3. Become(w, l) /\ left' = left
    BY <1>3 DEF EnQueue
  <2>4. Need(l) <= Need(proc[w])
    <3>1. proc[w].full \in SUBSET Queue /\ proc[w].clock \in Nat
      BY <1>0 DEF Locals
    <3>2. Budget(proc[w].full) \in Nat /\ proc[w].clock <= Budget(proc[w].full)
      BY <1>0, <2>1, <3>1, BudgetFits DEF Sound
    <3> QED BY <2>1, <2>2, <3>1, <3>2 DEF Need
  <2> HIDE DEF l
  <2> QED BY <2>1, <2>2, <2>3, <2>4, OwnStep
<1>4. CASE EnQueueFull(w)
  <2> DEFINE q == QueueOf[proc[w].a]
             l == [proc[w] EXCEPT !.pc = "find", !.a = None, !.full = @ \cup {q}]
  <2>1. proc[w].pc = "enqueue" /\ proc[w].a \in Attempt /\ q \in Queue
    BY <1>0, <1>4 DEF EnQueueFull, At, Sound, Locals
  <2>2. proc[w].full \in SUBSET Queue /\ proc[w].clock <= Budget(proc[w].full) /\ ~proc[w].missed
    BY <1>0, <2>1 DEF Locals, Sound
  <2>3. proc[w].full \cup {q} \in SUBSET Queue /\ Budget(proc[w].full) <= Budget(proc[w].full \cup {q})
    BY <2>1, <2>2, BudgetFits
  <2>4. Budget(proc[w].full) \in Nat /\ Budget(proc[w].full \cup {q}) \in Nat
    BY <2>2, <2>3, BudgetFits
  <2>5. l \in Locals /\ l.a = None /\ l.pc = "find" /\ l.full = proc[w].full \cup {q}
        /\ l.clock = proc[w].clock /\ l.missed = proc[w].missed
    BY <1>0, <2>3 DEF Locals
  <2>6. Sound(l)
    <3>1. l.clock <= Budget(l.full)
      BY <1>0, <2>2, <2>3, <2>4, <2>5 DEF Locals
    <3> QED BY <2>2, <2>5, <3>1 DEF Sound
  <2>7. Become(w, l) /\ left' = left
    BY <1>4 DEF EnQueueFull
  <2> HIDE DEF l
  <2> QED BY <2>5, <2>6, <2>7, OwnStep
<1> QED BY <1>1, <1>2, <1>3, <1>4

\* An attempt that is found has no worker whose renewals succeeded.
LEMMA FindStep ==
  ASSUME IInv, NEW w \in Worker, NEW a \in Attempt, Find(w, a)
  PROVE  IInv'
<1> USE LeaseAssumption
<1> DEFINE l == [proc[w] EXCEPT !.pc = "enqueue", !.a = a]
<1>1. proc[w] \in Locals /\ Sound(proc[w]) /\ proc[w].pc = "find"
  BY DEF IInv, Find, At
<1>2. /\ left[a] < -proc[w].clock /\ QueueOf[a] \notin proc[w].full
      /\ Become(w, l) /\ left' = [left EXCEPT ![a] = Lease - proc[w].clock]
  BY DEF Find, Oldest, Found, Reserve
<1>3. proc[w].clock \in Nat /\ proc[w].full \in SUBSET Queue /\ ~proc[w].missed
      /\ proc[w].clock <= Budget(proc[w].full) /\ QueueOf[a] \in Queue
  BY <1>1 DEF Locals, Sound
<1>4. Budget(proc[w].full) \in Nat /\ Budget(proc[w].full) + 2 * Latency <= TouchInterval
  BY <1>2, <1>3, BudgetFits
<1>5. l \in Locals /\ l.a = a /\ l.pc = "enqueue" /\ l.full = proc[w].full
      /\ l.clock = proc[w].clock /\ l.missed = proc[w].missed
  BY <1>1 DEF Locals
<1>6. Sound(l)
  BY <1>2, <1>3, <1>5 DEF Sound
<1>7. Lease - proc[w].clock \in Int /\ Need(l) <= Lease - proc[w].clock
  BY <1>3, <1>4, <1>5 DEF Need, Lease
<1>8. ASSUME NEW v \in Worker, v # w, proc[v].a = a
      PROVE  proc[v].missed
  <2>1. SUFFICES ASSUME ~proc[v].missed PROVE FALSE
    OBVIOUS
  <2>2. proc[v] \in Locals /\ Sound(proc[v]) /\ proc[v].a # None
    BY <1>8 DEF IInv
  <2>3. Need(proc[v]) \in Nat /\ left[a] >= Need(proc[v]) /\ left[a] \in Int
    BY <1>8, <2>1, <2>2, NeedFits DEF IInv, Enough
  <2> QED BY <1>2, <1>3, <2>3
<1> HIDE DEF l
<1> DEFINE d == Lease - proc[w].clock
<1>9. l.a # None /\ Content(w, l, d)
  BY <1>5, <1>8 DEF Content
<1>10. left' = [left EXCEPT ![l.a] = d]
  BY <1>2, <1>5
<1>11. d \in Int /\ Need(l) <= d
  BY <1>7
<1> HIDE DEF d
<1> QED BY <1>2, <1>5, <1>6, <1>9, <1>10, <1>11, LeaseStep

\* The worker runs, and ends.
LEMMA WorkerStep ==
  ASSUME IInv, NEW w \in Worker, TouchStarts(w) \/ TouchFails(w) \/ Answer(w) \/ Die(w)
  PROVE  IInv'
<1> USE LeaseAssumption
<1>0. proc[w] \in Locals /\ Sound(proc[w])
  BY DEF IInv
<1>1. CASE TouchStarts(w)
  <2> DEFINE l == [proc[w] EXCEPT !.pc = "touch", !.clock = 0]
  <2>1. proc[w].pc = "run" /\ proc[w].clock = TouchInterval /\ proc[w].a # None
    BY <1>0, <1>1 DEF TouchStarts, At, Sound
  <2>2. l \in Locals /\ l.a = proc[w].a /\ l.pc = "touch" /\ l.clock = 0 /\ l.missed = proc[w].missed
    BY <1>0 DEF Locals
  <2>3. Sound(l)
    BY <2>1, <2>2 DEF Sound
  <2>4. Need(l) <= Need(proc[w])
    BY <2>1, <2>2 DEF Need
  <2>5. Become(w, l) /\ left' = left
    BY <1>1 DEF TouchStarts
  <2> HIDE DEF l
  <2> QED BY <2>2, <2>3, <2>4, <2>5, OwnStep
<1>2. CASE TouchFails(w)
  <2> DEFINE l == [proc[w] EXCEPT !.pc = "run", !.clock = 0, !.missed = TRUE]
  <2>1. proc[w].pc = "touch" /\ proc[w].a # None
    BY <1>0, <1>2 DEF TouchFails, At, Sound
  <2>2. l \in Locals /\ l.a = proc[w].a /\ l.pc = "run" /\ l.clock = 0 /\ l.missed
    BY <1>0 DEF Locals
  <2>3. Sound(l)
    BY <2>1, <2>2 DEF Sound
  <2>4. Become(w, l) /\ left' = left
    BY <1>2 DEF TouchFails
  <2> HIDE DEF l
  <2> QED BY <2>2, <2>3, <2>4, OwnStep
<1>3. CASE Answer(w) \/ Die(w)
  <2>1. Rest \in Locals /\ Sound(Rest) /\ Rest.a = None
    BY DEF Rest, Locals, Sound
  <2>2. Become(w, Rest) /\ left' = left
    BY <1>3 DEF Answer, Die
  <2> QED BY <2>1, <2>2, OwnStep
<1> QED BY <1>1, <1>2, <1>3

\* Renewing a lease never shortens what another worker of the attempt relies on.
LEMMA TouchStep ==
  ASSUME IInv, NEW w \in Worker, Touch(w)
  PROVE  IInv'
<1> USE LeaseAssumption
<1> DEFINE l == [proc[w] EXCEPT !.pc = "run", !.clock = 0]
<1>1. proc[w] \in Locals /\ Sound(proc[w]) /\ proc[w].pc = "touch"
  BY DEF IInv, Touch, At
<1>2. proc[w].clock \in Nat /\ proc[w].clock <= Latency /\ proc[w].a # None
  BY <1>1 DEF Locals, Sound
<1>3. l \in Locals /\ l.a = proc[w].a /\ l.pc = "run" /\ l.clock = 0 /\ l.missed = proc[w].missed
  BY <1>1 DEF Locals
<1>4. Sound(l)
  BY <1>2, <1>3 DEF Sound
<1>5. Become(w, l) /\ left' = [left EXCEPT ![proc[w].a] = Lease - proc[w].clock]
  BY DEF Touch, Reserve
<1> HIDE DEF l
<1> DEFINE d == Lease - proc[w].clock
<1>6. Lease - proc[w].clock \in Int /\ Lease - Latency \in Int
      /\ Lease - Latency <= Lease - proc[w].clock
  BY <1>2 DEF Lease
<1>7. Need(l) <= Lease - proc[w].clock
  <2>1. Need(l) \in Nat /\ Need(l) <= Lease - Latency
    BY <1>2, <1>3, <1>4, NeedFits
  <2> QED BY <1>6, <2>1
<1>8. ASSUME NEW v \in Worker, v # w, proc[v].a = l.a
      PROVE  Need(proc[v]) <= Lease - proc[w].clock /\ (proc[v].missed \/ l.missed)
  <2>1. proc[v] \in Locals /\ Sound(proc[v]) /\ proc[v].a # None
    BY <1>2, <1>3, <1>8 DEF IInv
  <2>2. Need(proc[v]) \in Nat /\ Need(proc[v]) <= Lease - Latency
    BY <2>1, NeedFits
  <2>3. proc[v].missed \/ proc[w].missed
    BY <1>3, <1>8, <2>1 DEF IInv, OneExecutor
  <2> QED BY <1>3, <1>6, <2>2, <2>3
<1>9. l.a # None /\ left' = [left EXCEPT ![l.a] = d] /\ d \in Int /\ Need(l) <= d
  BY <1>2, <1>3, <1>5, <1>6, <1>7
<1>10. Content(w, l, d)
  BY <1>8 DEF Content
<1> HIDE DEF d
<1> QED BY <1>3, <1>4, <1>5, <1>9, <1>10, LeaseStep

\* An attempt nobody works on is written anew.
LEMMA AgainStep ==
  ASSUME IInv, NEW a \in Attempt, Again(a)
  PROVE  IInv'
<1>1. PICK d \in Delay : left' = [left EXCEPT ![a] = d - 0]
  BY DEF Again, Reserve
<1>2. d \in Int /\ proc' = proc /\ \A w \in Worker : proc[w].a # a
  BY LeaseAssumption DEF Again, Held, Works
<1>3. left' \in [Attempt -> Int] /\ \A b \in Attempt : b # a => left'[b] = left[b]
  BY <1>1, <1>2 DEF IInv
<1>4. Enough'
  <2>1. SUFFICES ASSUME NEW w \in Worker, proc[w].a # None, ~proc[w].missed
                 PROVE  left'[proc[w].a] >= Need(proc[w])
    BY <1>2 DEF Enough, Need, Budget
  <2>2. proc[w].a \in Attempt /\ proc[w].a # a
    BY <1>2, <2>1 DEF IInv, Locals
  <2> QED BY <1>3, <2>1, <2>2 DEF IInv, Enough
<1>5. (\A w \in Worker : Sound(proc[w]))' /\ OneExecutor'
  BY <1>2 DEF IInv, Sound, Budget, OneExecutor
<1> QED BY <1>2, <1>3, <1>4, <1>5 DEF IInv, Locals

\* Time takes from what is left as much as from what is needed.
LEMMA TickStep ==
  ASSUME IInv, Tick
  PROVE  IInv'
<1> USE LeaseAssumption
<1> DEFINE l(w) == IF At(w, "idle") THEN proc[w] ELSE [proc[w] EXCEPT !.clock = @ + 1]
<1>1. /\ \A w \in Worker : proc'[w] = l(w)
      /\ \A w \in Worker : proc[w] \in Locals /\ Sound(proc[w]) /\ Punctual(w)
      /\ \A a \in Attempt : left[a] \in Int
      /\ \A a \in Attempt : left'[a] = IF left[a] > Floor THEN left[a] - 1 ELSE left[a]
  BY DEF Tick, IInv
<1>2. ASSUME NEW w \in Worker
      PROVE  /\ l(w) \in Locals /\ l(w).a = proc[w].a /\ l(w).missed = proc[w].missed
             /\ l(w).pc = proc[w].pc /\ l(w).full = proc[w].full
             /\ proc[w].pc # "idle" => l(w).clock = proc[w].clock + 1
             /\ proc[w].pc = "idle" => l(w).clock = proc[w].clock
  BY <1>1 DEF Locals, At
<1>3. ASSUME NEW w \in Worker
      PROVE  Sound(l(w))
  <2>1. proc[w].full \in SUBSET Queue /\ proc[w].clock \in Nat
    BY <1>1 DEF Locals
  <2>2. Budget(proc[w].full) \in Nat
    BY <2>1, BudgetFits
  <2>3. proc[w].pc \in {"find", "enqueue"} => proc[w].clock + 1 <= Budget(proc[w].full)
    BY <1>1, <2>1, <2>2 DEF Punctual, Budget
  <2>4. proc[w].pc = "run" => proc[w].clock + 1 <= TouchInterval
    BY <1>1, <2>1 DEF Punctual, At
  <2>5. proc[w].pc = "touch" => proc[w].clock + 1 <= Latency
    BY <1>1, <2>1 DEF Punctual, At
  <2> HIDE DEF l
  <2> QED BY <1>1, <1>2, <2>3, <2>4, <2>5 DEF Sound
<1>4. ASSUME NEW w \in Worker, proc[w].a # None, ~proc[w].missed
      PROVE  left'[proc[w].a] >= Need(l(w))
  <2>1. proc[w].pc \in {"enqueue", "run", "touch"} /\ proc[w].a \in Attempt
    BY <1>1, <1>4 DEF Sound, Locals
  <2>2. proc[w].full \in SUBSET Queue /\ proc[w].clock \in Nat
    BY <1>1 DEF Locals
  <2>3. Budget(proc[w].full) \in Nat
    BY <2>2, BudgetFits
  <2> HIDE DEF l
  <2>4. Need(l(w)) = Need(proc[w]) - 1
    BY <1>2, <2>1, <2>2, <2>3 DEF Need
  <2>5. left[proc[w].a] >= Need(proc[w]) /\ Need(proc[w]) \in Nat
    BY <1>1, <1>4, NeedFits DEF IInv, Enough
  <2>6. left'[proc[w].a] >= left[proc[w].a] - 1 /\ left[proc[w].a] \in Int
        /\ left'[proc[w].a] \in Int
    BY <1>1, <2>1
  <2> QED BY <2>4, <2>5, <2>6
<1>5. left' \in [Attempt -> Int] /\ proc' \in [Worker -> Locals]
  <2>1. \A a \in Attempt : left'[a] \in Int
    BY <1>1
  <2> QED BY <1>2, <2>1 DEF Tick
<1> HIDE DEF l
<1>6. Enough' /\ OneExecutor' /\ (\A w \in Worker : Sound(proc[w]))'
  <2>1. Enough'
    BY <1>1, <1>2, <1>4 DEF Enough, Need, Budget
  <2>2. OneExecutor'
    BY <1>1, <1>2 DEF IInv, OneExecutor
  <2>3. (\A w \in Worker : Sound(proc[w]))'
    BY <1>1, <1>3 DEF Sound, Budget
  <2> QED BY <2>1, <2>2, <2>3
<1> QED BY <1>5, <1>6 DEF IInv, Locals

\* Every step of Next keeps the invariant.
LEMMA StepInv == IInv /\ [Next]_vars => IInv'
<1> SUFFICES ASSUME IInv, [Next]_vars PROVE IInv'
  OBVIOUS
<1>1. ASSUME NEW w \in Worker, GoesOn(w) \/ Answer(w) \/ Die(w)
      PROVE  IInv'
  BY <1>1, NextAttemptStep, FindStep, WorkerStep, TouchStep DEF GoesOn
<1>2. ASSUME NEW a \in Attempt, Again(a)
      PROVE  IInv'
  BY <1>2, AgainStep
<1>3. CASE Tick
  BY <1>3, TickStep
<1>4. CASE UNCHANGED vars
  BY <1>4 DEF vars, IInv, Enough, OneExecutor, Sound, Need, Budget, Locals
<1> QED BY <1>1, <1>2, <1>3, <1>4 DEF Next

\* The inductive invariant holds throughout.
LEMMA InvHolds == Spec => []IInv
BY InitInv, StepInv, PTL DEF Spec

\* What is needed is never negative, so enough is a lease that has not lapsed.
LEMMA EnoughIsRenewed == IInv => RenewedInTime
<1> SUFFICES ASSUME IInv, NEW w \in Worker, proc[w].a # None, ~proc[w].missed
             PROVE  left[proc[w].a] >= 0
  BY DEF RenewedInTime
<1>1. Need(proc[w]) \in Nat /\ left[proc[w].a] >= Need(proc[w])
  BY NeedFits DEF IInv, Enough
<1>2. left[proc[w].a] \in Int
  BY DEF IInv, Locals
<1> QED BY <1>1, <1>2

\* NextAttempt and TouchAttempt keep the lease of every live worker from lapsing,
\* as long as no renewal fails and every step is done within Latency.
THEOREM RenewedAlways == Spec => []RenewedInTime
BY InvHolds, EnoughIsRenewed, PTL

\* No attempt is executed twice at a time unless a renewal failed.
THEOREM OneExecutorAlways == Spec => []OneExecutor
<1>1. IInv => OneExecutor
  BY DEF IInv
<1> QED BY <1>1, InvHolds, PTL
-----------------------------------------------------------------------------
(* The type invariant.  What it says of left and of the workers is IInv's. *)

\* The part of TypeOK that IInv does not have.
Documents ==
  /\ status \in [Attempt -> {"pending", "running", "finished"}]
  /\ sooner \in Orders(left)
  /\ inFlight \in [Queue -> SUBSET Attempt]
  /\ deaths \in Nat

\* Time brings no attempt before another: what lies at the floor stays there, and
\* nothing that is ahead falls below it.
LEMMA TickKeepsOrder ==
  ASSUME left \in [Attempt -> Int], sooner \in Orders(left), Tick
  PROVE  sooner' \in Orders(left')
<1>1. Floor \in Int
  <2>1. IsFiniteSet(Queue) /\ Latency \in Nat
    BY LeaseAssumption
  <2>2. Cardinality(Queue) \in Nat
    BY <2>1, FS_CardinalityType
  <2>3. \A k, n \in Nat : -(n * k + 1) \in Int
    OBVIOUS
  <2> QED BY <2>1, <2>2, <2>3 DEF Floor
<1>2. /\ sooner' = sooner
      /\ \A a \in Attempt : left'[a] = IF left[a] > Floor THEN left[a] - 1 ELSE left[a]
  BY DEF Tick
<1>3. ASSUME NEW a \in Attempt, NEW b \in Attempt, <<a, b>> \in sooner
      PROVE  left'[a] <= left'[b]
  <2>1. left[a] <= left[b] /\ left[a] \in Int /\ left[b] \in Int
    BY <1>3 DEF Orders
  <2> QED BY <1>1, <1>2, <2>1
<1> QED BY <1>2, <1>3 DEF Orders

\* Every step keeps the documents what they are.
LEMMA DocumentsStep ==
  ASSUME IInv, Documents, [Next]_vars
  PROVE  Documents'
<1> USE LeaseAssumption
<1>1. ASSUME NEW w \in Worker, Ask(w) \/ FindNone(w) \/ EnQueueFull(w) \/ TouchStarts(w) \/ TouchFails(w)
      PROVE  Documents'
  BY <1>1 DEF Documents, Ask, FindNone, EnQueueFull, TouchStarts, TouchFails
<1>2. ASSUME NEW w \in Worker, NEW a \in Attempt, Find(w, a)
      PROVE  Documents'
  BY <1>2 DEF Documents, Find, Reserve
<1>3. ASSUME NEW w \in Worker, EnQueue(w)
      PROVE  Documents'
  <2>1. proc[w].a \in Attempt /\ QueueOf[proc[w].a] \in Queue
    BY <1>3 DEF IInv, EnQueue, At, Sound, Locals
  <2>2. inFlight' = [inFlight EXCEPT ![QueueOf[proc[w].a]] = @ \cup {proc[w].a}]
        /\ UNCHANGED <<status, left, sooner, deaths>>
    BY <1>3 DEF EnQueue
  <2>3. inFlight' \in [Queue -> SUBSET Attempt]
    BY <2>1, <2>2 DEF Documents
  <2> QED BY <2>2, <2>3 DEF Documents
<1>4. ASSUME NEW w \in Worker, Touch(w)
      PROVE  Documents'
  BY <1>4 DEF Documents, Touch, Reserve
<1>5. ASSUME NEW w \in Worker, Answer(w)
      PROVE  Documents'
  <2>1. proc[w].a \in Attempt /\ QueueOf[proc[w].a] \in Queue
    BY <1>5 DEF IInv, Answer, Sound, Locals
  <2>2. inFlight' = [inFlight EXCEPT ![QueueOf[proc[w].a]] = @ \ {proc[w].a}]
        /\ status' = [status EXCEPT ![proc[w].a] = "finished"]
        /\ UNCHANGED <<left, sooner, deaths>>
    BY <1>5 DEF Answer
  <2>3. inFlight' \in [Queue -> SUBSET Attempt]
    BY <2>1, <2>2 DEF Documents
  <2> QED BY <2>2, <2>3 DEF Documents
<1>6. ASSUME NEW w \in Worker, Die(w)
      PROVE  Documents'
  BY <1>6 DEF Documents, Die
<1>7. ASSUME NEW a \in Attempt, Again(a)
      PROVE  Documents'
  BY <1>7 DEF Documents, Again, Reserve
<1>8. CASE Tick
  <2>1. sooner' \in Orders(left')
    BY <1>8, TickKeepsOrder DEF IInv, Documents
  <2> QED BY <1>8, <2>1 DEF Documents, Tick
<1>9. CASE UNCHANGED vars
  BY <1>9 DEF vars, Documents, Orders
<1> QED BY <1>1, <1>2, <1>3, <1>4, <1>5, <1>6, <1>7, <1>8, <1>9 DEF Next, GoesOn

\* TypeOK always holds: among the rest, the order in which NextAttempt goes through
\* the attempts is a strict total order that agrees with `reserved'.
THEOREM TypesAlways == Spec => []TypeOK
<1>1. Init => Documents
  BY LeaseAssumption DEF Init, Documents
<1>2. IInv /\ Documents /\ [Next]_vars => Documents'
  BY DocumentsStep
<1>3. IInv /\ Documents => TypeOK
  BY DEF IInv, Documents, TypeOK, Sound
<1> QED BY <1>1, <1>2, <1>3, InvHolds, PTL DEF Spec
=============================================================================
