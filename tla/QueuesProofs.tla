---------------------------- MODULE QueuesProofs ----------------------------
(***************************************************************************)
(* Theorems about Queues, for every set of attempts, workers and clients,  *)
(* every set of requested sizes and any number of re-creations.            *)
(***************************************************************************)
EXTENDS Queues, QueueDocProofs

\* Attempts in flight are finitely many: needed to count them.
FiniteFlight == \A q \in QueueId : IsFiniteSet(queues[q].slots.inflight)

\* The inductive invariant.  Balanced needs no more than its types and that
\* Cardinality counts.
Inv == TypeOK /\ FiniteFlight /\ Balanced
-----------------------------------------------------------------------------
\* Inv, read document by document.
LEMMA InvIsSound ==
  Inv <=> TypeOK /\ \A q \in QueueId : Sound(queues[q].slots, AttemptId)
BY DEF Inv, FiniteFlight, Balanced, Sound, TypeOK, QueueDocs

\* Without queues nothing is in flight.
LEMMA InitInv == Init => Inv
<1> SUFFICES ASSUME Init PROVE Inv OBVIOUS
<1>1. Sound(NewSlots(0), AttemptId) BY NewSlotsSound
<1>2. TypeOK BY <1>1 DEF Init, TypeOK, QueueDocs, DocState, Call, Idle, Put, NoPut, Sound
<1>3. \A q \in QueueId : queues[q].slots = NewSlots(0) BY DEF Init
<1> QED BY <1>1, <1>2, <1>3, InvIsSound

\* A step that leaves every document sound and every type right keeps Inv.
LEMMA NextInv == Inv /\ [Next]_vars => Inv'
<1> SUFFICES ASSUME Inv, [Next]_vars PROVE Inv' OBVIOUS
<1> USE DEF QueueDocs, DocState
<1>1. TypeOK /\ \A q \in QueueId : Sound(queues[q].slots, AttemptId) BY InvIsSound
<1>0. ASSUME TypeOK', \A q \in QueueId : Sound(queues'[q].slots, AttemptId) PROVE Inv'
  BY <1>0 DEF Inv, FiniteFlight, Balanced, Sound
<1>2. ASSUME NEW w \in Worker, NEW q \in QueueId, NEW a \in AttemptId,
             EnQueueCount(w, q, a)
      PROVE  Inv'
  <2>1. TypeOK' BY <1>1, <1>2 DEF TypeOK, EnQueueCount, Call
  <2> QED BY <1>0, <1>1, <1>2, <2>1 DEF EnQueueCount
<1>3. ASSUME NEW w \in Worker, EnQueueAdmit(w) PROVE Inv'
  <2>1. worker[w] \in Call /\ worker[w].pc = "counted" BY <1>1, <1>3 DEF TypeOK, EnQueueAdmit
  <2>2. PICK q \in QueueId, a \in AttemptId :
          worker[w] = [pc |-> "counted", q |-> q, a |-> a]
    BY <2>1 DEF Call, Idle
  <2>3. /\ CanAdmit(queues[q].slots, a)
        /\ queues' = [queues EXCEPT ![q].slots = Admit(queues[q].slots, a)]
    BY <1>3, <2>2 DEF EnQueueAdmit, SetSlots
  <2>4. Sound(Admit(queues[q].slots, a), AttemptId) BY <1>1, <2>3, AdmitSound
  <2>5. \A r \in QueueId : Sound(queues'[r].slots, AttemptId) BY <1>1, <2>3, <2>4 DEF TypeOK
  <2>6. TypeOK'
    <3>1. queues' \in [QueueId -> QueueDocs] BY <1>1, <2>3, <2>4 DEF TypeOK, Sound
    <3>2. worker' \in [Worker -> Call]
      BY <1>1, <1>3, <2>2 DEF TypeOK, EnQueueAdmit, Call
    <3> QED BY <1>1, <1>3, <3>1, <3>2 DEF TypeOK, EnQueueAdmit
  <2> QED BY <1>0, <2>5, <2>6
<1>4. ASSUME NEW w \in Worker, EnQueueFull(w) PROVE Inv'
  <2>1. TypeOK' BY <1>1, <1>4 DEF TypeOK, EnQueueFull, Call
  <2> QED BY <1>0, <1>1, <1>4, <2>1 DEF EnQueueFull
<1>5. ASSUME NEW q \in QueueId, NEW a \in AttemptId, SetSlots(q, Release1(q, a))
      PROVE  queues' \in [QueueId -> QueueDocs] /\ \A r \in QueueId : Sound(queues'[r].slots, AttemptId)
  <2>1. Sound(Release1(q, a), AttemptId) BY <1>1, ReleaseSound DEF Release1
  <2> QED BY <1>1, <1>5, <2>1 DEF SetSlots, TypeOK, Sound
<1>6. ASSUME NEW w \in Worker, DeQueue(w) PROVE Inv'
  <2>1. worker[w] \in Call /\ worker[w].pc = "holding" BY <1>1, <1>6 DEF TypeOK, DeQueue
  <2>2. worker[w].q \in QueueId /\ worker[w].a \in AttemptId BY <2>1 DEF Call, Idle
  <2>3. queues' \in [QueueId -> QueueDocs] /\ \A r \in QueueId : Sound(queues'[r].slots, AttemptId)
    BY <1>5, <1>6, <2>2 DEF DeQueue
  <2>4. TypeOK' BY <1>1, <1>6, <2>3 DEF TypeOK, DeQueue, Call
  <2> QED BY <1>0, <2>3, <2>4
<1>7. ASSUME NEW w \in Worker, WorkerGone(w) PROVE Inv'
  <2>1. TypeOK' BY <1>1, <1>7 DEF TypeOK, WorkerGone, Call
  <2> QED BY <1>0, <1>1, <1>7, <2>1 DEF WorkerGone
<1>8. ASSUME NEW q \in QueueId, NEW a \in AttemptId, CleanAttempt(q, a) PROVE Inv'
  <2>1. queues' \in [QueueId -> QueueDocs] /\ \A r \in QueueId : Sound(queues'[r].slots, AttemptId)
    BY <1>5, <1>8 DEF CleanAttempt
  <2>2. TypeOK' BY <1>1, <1>8, <2>1 DEF TypeOK, CleanAttempt
  <2> QED BY <1>0, <2>1, <2>2
<1>9. ASSUME NEW c \in Admin, NEW q \in QueueId, NEW n \in Sizes, NewQueueInsert(c, q, n)
      PROVE  Inv'
  <2>1. Sound(NewSlots(n), AttemptId) BY SizesAssumption, NewSlotsSound
  <2>2. \A r \in QueueId : Sound(queues'[r].slots, AttemptId)
    BY <1>1, <1>9, <2>1 DEF NewQueueInsert, TypeOK
  <2>3. TypeOK' BY <1>1, <1>9, <2>1 DEF TypeOK, NewQueueInsert, Sound
  <2> QED BY <1>0, <2>2, <2>3
<1>10. ASSUME NEW c \in Admin, NEW n \in Sizes, NewQueueDup(c, n) PROVE Inv'
  <2>1. TypeOK' BY <1>1, <1>10 DEF TypeOK, NewQueueDup, Put
  <2> QED BY <1>0, <1>1, <1>10, <2>1 DEF NewQueueDup
<1>11. ASSUME NEW c \in Admin, NewQueueFind(c) PROVE Inv'
  <2>1. admin[c] \in Put /\ admin[c].pc = "dup" BY <1>1, <1>11 DEF TypeOK, NewQueueFind
  <2>2. admin[c].asked \in Sizes BY <2>1 DEF Put, NoPut
  <2>3. TypeOK' BY <1>1, <1>11, <2>2 DEF TypeOK, NewQueueFind, Put, Current, SlotsOf
  <2> QED BY <1>0, <1>1, <1>11, <2>3 DEF NewQueueFind
<1>12. ASSUME NEW c \in Admin, NewQueueApply(c) PROVE Inv'
  <2>1. admin[c] \in Put /\ admin[c].pc = "found" BY <1>1, <1>12 DEF TypeOK, NewQueueApply
  <2>2. admin[c].asked - admin[c].read \in Int
    <3>1. admin[c].asked \in Sizes /\ admin[c].read \in Int BY <2>1 DEF Put, NoPut
    <3>2. admin[c].asked \in Int BY <3>1, SizesAssumption
    <3> QED BY <3>1, <3>2
  <2>3. PICK q \in Current :
          SetSlots(q, Resize(queues[q].slots, admin[c].asked - admin[c].read))
    BY <1>12 DEF NewQueueApply
  <2>4. q \in QueueId BY <2>3 DEF Current
  <2>5. Sound(Resize(queues[q].slots, admin[c].asked - admin[c].read), AttemptId)
    BY <1>1, <2>2, <2>4, ResizeSound
  <2>6. queues' \in [QueueId -> QueueDocs] /\ \A r \in QueueId : Sound(queues'[r].slots, AttemptId)
    BY <1>1, <2>3, <2>4, <2>5 DEF SetSlots, TypeOK, Sound
  <2>7. TypeOK' BY <1>1, <1>12, <2>6 DEF TypeOK, NewQueueApply, Put
  <2> QED BY <1>0, <2>6, <2>7
<1>13. ASSUME NEW c \in Admin, NewQueueGone(c) PROVE Inv'
  <2>1. TypeOK' BY <1>1, <1>13 DEF TypeOK, NewQueueGone, Put
  <2> QED BY <1>0, <1>1, <1>13, <2>1 DEF NewQueueGone
<1>14. ASSUME NEW q \in QueueId, DeleteQueue(q) \/ CleanQueue(q) PROVE Inv'
  <2>1. TypeOK' /\ \A r \in QueueId : queues'[r].slots = queues[r].slots
    BY <1>1, <1>14 DEF TypeOK, DeleteQueue, CleanQueue
  <2> QED BY <1>0, <1>1, <2>1
<1>15. CASE UNCHANGED vars BY <1>0, <1>1, <1>15 DEF vars, TypeOK
<1> QED
  BY <1>2, <1>3, <1>4, <1>6, <1>7, <1>8, <1>9, <1>10, <1>11, <1>12, <1>13, <1>14, <1>15
  DEF Next

\* The free-slot counter of every queue agrees with its list of attempts in
\* every reachable state: EnQueue may trust available_in_flight.
THEOREM BalancedAlways == Spec => []Balanced
<1>1. Inv => Balanced BY DEF Inv
<1> QED BY InitInv, NextInv, <1>1, PTL DEF Spec

\* In every reachable state the queue documents, and what workers and clients
\* hold between their operations, are of their types.
THEOREM TypesAlways == Spec => []TypeOK
<1>1. Inv => TypeOK BY DEF Inv
<1> QED BY InitInv, NextInv, <1>1, PTL DEF Spec
-----------------------------------------------------------------------------
(* The queue documents implement BoundedSlots. *)

Limits == [q \in QueueId |-> queues[q].slots.max]
Holders == [q \in QueueId |-> queues[q].slots.inflight]

\* BoundedSlots counts as FiniteSets does.
LEMMA SlotsCardinality == \A S : Slots!Cardinality(S) = Cardinality(S)
BY Zenon DEF Slots!Cardinality, Cardinality

\* The actions of the pools, in these terms.
LEMMA PoolActions ==
  ASSUME NEW p \in QueueId, NEW c \in AttemptId
  PROVE  /\ Slots!Acquire(p, c) <=>
              /\ c \notin Holders[p] /\ Cardinality(Holders[p]) < Limits[p]
              /\ Holders' = [Holders EXCEPT ![p] = Holders[p] \cup {c}] /\ Limits' = Limits
         /\ Slots!Leave(p, c) <=>
              /\ c \in Holders[p]
              /\ Holders' = [Holders EXCEPT ![p] = Holders[p] \ {c}] /\ Limits' = Limits
<1>1. Slots!Acquire(p, c) <=>
        /\ c \notin Holders[p] /\ Cardinality(Holders[p]) < Limits[p]
        /\ Holders' = [Holders EXCEPT ![p] = Holders[p] \cup {c}] /\ Limits' = Limits
  BY SlotsCardinality, Zenon DEF Slots!Acquire, Limits, Holders
<1>2. Slots!Leave(p, c) <=>
        /\ c \in Holders[p]
        /\ Holders' = [Holders EXCEPT ![p] = Holders[p] \ {c}] /\ Limits' = Limits
  BY Zenon DEF Slots!Leave, Limits, Holders
<1> QED BY <1>1, <1>2

\* An id that was not drawn yet has nobody in flight.
UnusedEmpty ==
  \A q \in QueueId : queues[q].state = "unused" => queues[q].slots.inflight = {}

\* A queue id that was never stored has no slots in use.
LEMMA UnusedStaysEmpty == Inv /\ UnusedEmpty /\ [Next]_vars => UnusedEmpty'
<1> SUFFICES ASSUME Inv, UnusedEmpty, [Next]_vars, NEW r \in QueueId,
                    queues'[r].state = "unused"
             PROVE  queues'[r].slots.inflight = {}
  BY DEF UnusedEmpty
<1> USE DEF QueueDocs, DocState
<1>1. queues \in [QueueId -> QueueDocs] BY DEF Inv, TypeOK
<1>2. queues[r].state = "unused" => queues[r].slots.inflight = {} BY DEF UnusedEmpty
<1>3. ASSUME NEW q, NEW s, SetSlots(q, s), Stored(q)
      PROVE  queues'[r].slots.inflight = {}
  <2>1. queues' = [queues EXCEPT ![q].slots = s] BY <1>3 DEF SetSlots
  <2>2. queues'[r].state = queues[r].state BY <1>1, <2>1
  <2>3. r # q BY <1>3, <2>2 DEF Stored
  <2>4. queues'[r] = queues[r] BY <1>1, <2>1, <2>3
  <2> QED BY <1>2, <2>4
<1>4. CASE UNCHANGED queues BY <1>2, <1>4
<1>5. ASSUME NEW w \in Worker, EnQueueAdmit(w) PROVE queues'[r].slots.inflight = {}
  BY <1>3, <1>5 DEF EnQueueAdmit
<1>6. ASSUME NEW w \in Worker, DeQueue(w) PROVE queues'[r].slots.inflight = {}
  <2>1. CASE Stored(worker[w].q) BY <1>3, <1>6, <2>1 DEF DeQueue
  <2>2. CASE ~Stored(worker[w].q)
    <3>1. SetSlots(worker[w].q, queues[worker[w].q].slots) BY <1>6, <2>2 DEF DeQueue, Release1
    <3>2. queues'[r] = queues[r] BY <1>1, <3>1 DEF SetSlots
    <3> QED BY <1>2, <3>2
  <2> QED BY <2>1, <2>2
<1>7. ASSUME NEW q \in QueueId, NEW a \in AttemptId, CleanAttempt(q, a)
      PROVE  queues'[r].slots.inflight = {}
  BY <1>3, <1>7 DEF CleanAttempt
<1>8. ASSUME NEW c \in Admin, NEW q \in QueueId, NEW n \in Sizes, NewQueueInsert(c, q, n)
      PROVE  queues'[r].slots.inflight = {}
  <2>1. queues' = [queues EXCEPT ![q] = [state |-> "live", slots |-> NewSlots(n)]]
    BY <1>8 DEF NewQueueInsert
  <2>2. r # q BY <1>1, <2>1
  <2>3. queues'[r] = queues[r] BY <1>1, <2>1, <2>2
  <2> QED BY <1>2, <2>3
<1>9. ASSUME NEW c \in Admin, NewQueueApply(c) PROVE queues'[r].slots.inflight = {}
  BY <1>3, <1>9 DEF NewQueueApply, Current
<1>10. ASSUME NEW q \in QueueId, DeleteQueue(q) \/ CleanQueue(q)
       PROVE  queues'[r].slots.inflight = {}
  BY <1>1, <1>2, <1>10 DEF DeleteQueue, CleanQueue
<1> QED
  BY <1>4, <1>5, <1>6, <1>7, <1>8, <1>9, <1>10
  DEF Next, vars, EnQueueCount, EnQueueFull, WorkerGone, NewQueueDup, NewQueueFind, NewQueueGone

\* An update of one document's slots moves only that pool.
LEMMA OnePool ==
  ASSUME queues \in [QueueId -> QueueDocs], NEW q \in QueueId, NEW s, SetSlots(q, s)
  PROVE  /\ Limits' = [Limits EXCEPT ![q] = s.max]
         /\ Holders' = [Holders EXCEPT ![q] = s.inflight]
<1>1. queues' = [queues EXCEPT ![q].slots = s] BY DEF SetSlots
<1>2. \A r \in QueueId : queues'[r].slots = IF r = q THEN s ELSE queues[r].slots
  BY <1>1 DEF QueueDocs
<1> QED BY <1>2 DEF Limits, Holders

\* Every step of the queues is a step of the pools or leaves them alone.  The
\* admission is the one that needs the invariant: the code compares
\* available_in_flight with zero, the pool compares its holders with its limit.
LEMMA StepRefines ==
  ASSUME Inv, UnusedEmpty, [Next]_vars
  PROVE  [Slots!Next]_<<Limits, Holders>>
<1> USE DEF QueueDocs, DocState
<1>1. TypeOK /\ \A q \in QueueId : Sound(queues[q].slots, AttemptId) BY InvIsSound
<1>2. queues \in [QueueId -> QueueDocs] BY <1>1 DEF TypeOK
<1>3. ASSUME \A q \in QueueId : queues'[q].slots = queues[q].slots
      PROVE  UNCHANGED <<Limits, Holders>>
  BY <1>3 DEF Limits, Holders
<1>4. ASSUME UNCHANGED queues PROVE UNCHANGED <<Limits, Holders>> BY <1>3, <1>4
<1>5. ASSUME NEW q \in QueueId, NEW a \in AttemptId, SetSlots(q, Release1(q, a))
      PROVE  Slots!Leave(q, a) \/ UNCHANGED <<Limits, Holders>>
  <2>1. CASE Stored(q) /\ Holds(queues[q].slots, a)
    <3>1. Release1(q, a) = Release(queues[q].slots, a) BY <2>1 DEF Release1
    <3>2. /\ Release(queues[q].slots, a).max = queues[q].slots.max
          /\ Release(queues[q].slots, a).inflight = queues[q].slots.inflight \ {a}
      BY <1>1, ReleaseSound
    <3>3. /\ Limits' = [Limits EXCEPT ![q] = queues[q].slots.max]
          /\ Holders' = [Holders EXCEPT ![q] = queues[q].slots.inflight \ {a}]
      BY <1>2, <1>5, <3>1, <3>2, OnePool
    <3>4. Limits' = Limits /\ Holders' = [Holders EXCEPT ![q] = Holders[q] \ {a}]
      BY <3>3 DEF Limits, Holders
    <3>5. a \in Holders[q] BY <2>1 DEF Holds, Holders
    <3> QED BY <3>4, <3>5, PoolActions
  <2>2. CASE ~(Stored(q) /\ Holds(queues[q].slots, a))
    <3>1. Release1(q, a) = queues[q].slots BY <2>2 DEF Release1, Release
    <3>2. queues' = [queues EXCEPT ![q].slots = queues[q].slots] BY <1>5, <3>1 DEF SetSlots
    <3>3. \A r \in QueueId : queues'[r].slots = queues[r].slots BY <1>2, <3>2
    <3> QED BY <1>3, <3>3
  <2> QED BY <2>1, <2>2
<1>6. ASSUME NEW q \in QueueId, queues' \in [QueueId -> QueueDocs], Holders' = Holders,
             \A r \in QueueId \ {q} : queues'[r].slots = queues[r].slots
      PROVE  Slots!SetLimit(q)
  <2>1. Limits' \in [QueueId -> Int] BY <1>6 DEF Limits, SlotsOf
  <2>2. \A r \in QueueId \ {q} : Limits'[r] = Limits[r] BY <1>6 DEF Limits
  <2> QED BY <1>6, <2>1, <2>2 DEF Slots!SetLimit, Limits, Holders
<1>7. ASSUME NEW w \in Worker, EnQueueAdmit(w) PROVE Slots!Next
  <2>1. worker[w] \in Call /\ worker[w].pc = "counted" BY <1>1, <1>7 DEF TypeOK, EnQueueAdmit
  <2>2. PICK q \in QueueId, a \in AttemptId :
          worker[w] = [pc |-> "counted", q |-> q, a |-> a]
    BY <2>1 DEF Call, Idle
  <2>3. /\ CanAdmit(queues[q].slots, a)
        /\ SetSlots(q, Admit(queues[q].slots, a))
    BY <1>7, <2>2 DEF EnQueueAdmit
  <2>4. /\ Admit(queues[q].slots, a).max = queues[q].slots.max
        /\ Admit(queues[q].slots, a).inflight = queues[q].slots.inflight \cup {a}
        /\ Cardinality(queues[q].slots.inflight) < queues[q].slots.max
    BY <1>1, <2>3, AdmitSound
  <2>5. /\ Limits' = [Limits EXCEPT ![q] = queues[q].slots.max]
        /\ Holders' = [Holders EXCEPT ![q] = queues[q].slots.inflight \cup {a}]
    BY <1>2, <2>3, <2>4, OnePool
  <2>6. Limits' = Limits /\ Holders' = [Holders EXCEPT ![q] = Holders[q] \cup {a}]
    BY <2>5 DEF Limits, Holders
  <2>7. a \notin Holders[q] /\ Cardinality(Holders[q]) < Limits[q]
    BY <2>3, <2>4 DEF CanAdmit, Holds, Holders, Limits
  <2>8. Slots!Acquire(q, a) BY <2>6, <2>7, PoolActions
  <2> QED BY <2>8 DEF Slots!Next
<1>8. ASSUME NEW w \in Worker, DeQueue(w)
      PROVE  Slots!Next \/ UNCHANGED <<Limits, Holders>>
  <2>1. worker[w] \in Call /\ worker[w].pc = "holding" BY <1>1, <1>8 DEF TypeOK, DeQueue
  <2>2. PICK q \in QueueId, a \in AttemptId :
          worker[w] = [pc |-> "holding", q |-> q, a |-> a]
    BY <2>1 DEF Call, Idle
  <2>3. SetSlots(q, Release1(q, a)) BY <1>8, <2>2 DEF DeQueue
  <2>4. Slots!Leave(q, a) \/ UNCHANGED <<Limits, Holders>> BY <1>5, <2>3
  <2> QED BY <2>4 DEF Slots!Next
<1>9. ASSUME NEW q \in QueueId, NEW a \in AttemptId, CleanAttempt(q, a)
      PROVE  Slots!Next \/ UNCHANGED <<Limits, Holders>>
  <2>1. Slots!Leave(q, a) \/ UNCHANGED <<Limits, Holders>> BY <1>5, <1>9 DEF CleanAttempt
  <2> QED BY <2>1 DEF Slots!Next
<1>10. queues' \in [QueueId -> QueueDocs] BY NextInv DEF Inv, TypeOK
<1>11. ASSUME NEW c \in Admin, NEW q \in QueueId, NEW n \in Sizes, NewQueueInsert(c, q, n)
       PROVE  Slots!Next
  <2>1. queues[q].slots.inflight = {} BY <1>11 DEF UnusedEmpty, NewQueueInsert
  <2>2. queues'[q].slots.inflight = {} BY <1>2, <1>11 DEF NewQueueInsert, NewSlots
  <2>3. \A r \in QueueId \ {q} : queues'[r] = queues[r] BY <1>2, <1>11 DEF NewQueueInsert
  <2>4. Holders' = Holders BY <2>1, <2>2, <2>3 DEF Holders
  <2> QED BY <1>6, <1>10, <2>3, <2>4 DEF Slots!Next
<1>12. ASSUME NEW c \in Admin, NewQueueApply(c) PROVE Slots!Next
  <2>1. admin[c] \in Put /\ admin[c].pc = "found" BY <1>1, <1>12 DEF TypeOK, NewQueueApply
  <2>2. admin[c].asked \in Sizes /\ admin[c].read \in Int BY <2>1 DEF Put, NoPut
  <2>3. admin[c].asked \in Int BY <2>2, SizesAssumption
  <2>4. admin[c].asked - admin[c].read \in Int BY <2>2, <2>3
  <2>5. PICK q \in Current :
          SetSlots(q, Resize(queues[q].slots, admin[c].asked - admin[c].read))
    BY <1>12 DEF NewQueueApply
  <2>6. q \in QueueId BY <2>5 DEF Current
  <2>7. Resize(queues[q].slots, admin[c].asked - admin[c].read).inflight
          = queues[q].slots.inflight
    BY <1>1, <2>4, <2>6, ResizeSound
  <2>8. Holders' = [Holders EXCEPT ![q] = queues[q].slots.inflight]
    BY <1>2, <2>5, <2>6, <2>7, OnePool
  <2>9. Holders' = Holders BY <2>6, <2>8 DEF Holders
  <2>10. \A r \in QueueId \ {q} : queues'[r] = queues[r] BY <1>2, <2>5 DEF SetSlots
  <2> QED BY <1>6, <1>10, <2>6, <2>9, <2>10 DEF Slots!Next
<1>13. ASSUME NEW q \in QueueId, DeleteQueue(q) \/ CleanQueue(q)
       PROVE  UNCHANGED <<Limits, Holders>>
  <2>1. \A r \in QueueId : queues'[r].slots = queues[r].slots
    BY <1>2, <1>13 DEF DeleteQueue, CleanQueue
  <2> QED BY <1>3, <2>1
<1> QED
  BY <1>4, <1>7, <1>8, <1>9, <1>11, <1>12, <1>13
  DEF Next, vars, EnQueueCount, EnQueueFull, WorkerGone, NewQueueDup, NewQueueFind, NewQueueGone

\* Every behaviour of the queue documents is a behaviour of bounded slots.
THEOREM RefinesBoundedSlots == Spec => ImplementsBoundedSlots
<1>1. Init => Slots!Init /\ UnusedEmpty
  <2> SUFFICES ASSUME Init PROVE Slots!Init /\ UnusedEmpty OBVIOUS
  <2>1. queues = [q \in QueueId |->
                    [state |-> "unused", slots |-> [max |-> 0, available |-> 0, inflight |-> {}]]]
    BY DEF Init, NewSlots
  <2>2. UnusedEmpty BY <2>1 DEF UnusedEmpty
  <2>3. Slots!Init BY <2>1 DEF Slots!Init
  <2> QED BY <2>2, <2>3
<1>2. Inv /\ UnusedEmpty /\ [Next]_vars => [Slots!Next]_(Slots!slotVars)
  BY StepRefines DEF Slots!slotVars, Limits, Holders
<1> QED
  BY <1>1, <1>2, InitInv, NextInv, UnusedStaysEmpty, PTL
  DEF Spec, ImplementsBoundedSlots, Slots!Spec
-----------------------------------------------------------------------------
(* Never more in flight than some client asked for: with one client at a     *)
(* time.  Two clients can both read the limit before either moves it.        *)

\* At most one call of NewQueue runs: there is one client.
OneAdmin == \A c, d \in Admin : c = d

\* At most one document has the name: the unique index.
OneCurrent == \A p, q \in Current : p = q

\* The limit of the stored document is one that was asked for.
LimitAsked == \A q \in Current : queues[q].slots.max \in Sizes

\* What NewQueue has read is still what the document says.
ReadFresh ==
  \A c \in Admin : admin[c].pc = "found" =>
    \A q \in Current : admin[c].read = queues[q].slots.max

LimitInv == OneCurrent /\ LimitAsked /\ ReadFresh /\ InFlightWithinAnyRequest

\* InFlightWithinAnyRequest, of one document.
Fits(s) == s.inflight = {} \/ \E n \in Sizes : Cardinality(s.inflight) <= n

\* An attempt enters under the limit, and the limit is one that was asked for.
LEMMA AdmitFits ==
  ASSUME NEW Ids, NEW s, Sound(s, Ids), NEW a \in Ids, CanAdmit(s, a), s.max \in Sizes
  PROVE  Fits(Admit(s, a))
<1>1. /\ Admit(s, a).inflight = s.inflight \cup {a}
      /\ Cardinality(s.inflight) < s.max
  BY AdmitSound
<1>2. IsFiniteSet(s.inflight) BY DEF Sound
<1>3. Cardinality(s.inflight) \in Nat BY <1>2, FS_CardinalityType
<1>4. Cardinality(s.inflight \cup {a})
        = IF a \in s.inflight THEN Cardinality(s.inflight) ELSE Cardinality(s.inflight) + 1
  BY <1>2, FS_AddElement
<1>5. s.max \in Int BY SizesAssumption
<1>6. Cardinality(s.inflight \cup {a}) <= s.max BY <1>1, <1>3, <1>4, <1>5
<1> QED BY <1>1, <1>6 DEF Fits

\* Fewer attempts in flight still fit.
LEMMA ReleaseFits ==
  ASSUME NEW Ids, NEW s, Sound(s, Ids), NEW a \in Ids, Fits(s)
  PROVE  Fits(Release(s, a))
<1>1. Release(s, a).inflight = s.inflight \ {a} BY ReleaseSound
<1>2. IsFiniteSet(s.inflight) BY DEF Sound
<1>3. CASE s.inflight = {} BY <1>1, <1>3 DEF Fits
<1>4. ASSUME NEW n \in Sizes, Cardinality(s.inflight) <= n PROVE Fits(Release(s, a))
  <2>1. s.inflight \ {a} \in SUBSET s.inflight OBVIOUS
  <2>2. IsFiniteSet(s.inflight \ {a}) /\ Cardinality(s.inflight \ {a}) <= Cardinality(s.inflight)
    BY <1>2, <2>1, FS_Subset
  <2>3. Cardinality(s.inflight \ {a}) \in Nat /\ Cardinality(s.inflight) \in Nat
    BY <1>2, <2>2, FS_CardinalityType
  <2>4. n \in Int BY SizesAssumption
  <2>5. Cardinality(s.inflight \ {a}) <= n BY <1>4, <2>2, <2>3, <2>4
  <2> QED BY <1>1, <2>5 DEF Fits
<1> QED BY <1>3, <1>4 DEF Fits

\* An update of one document that moves no limit keeps LimitInv, when what is
\* in flight afterwards fits.
LEMMA SameLimit ==
  ASSUME LimitInv, queues \in [QueueId -> QueueDocs], UNCHANGED admin,
         NEW q \in QueueId, NEW s, SetSlots(q, s), s.max = queues[q].slots.max, Fits(s)
  PROVE  LimitInv'
<1>1. queues' = [queues EXCEPT ![q].slots = s] BY DEF SetSlots
<1>2. \A r \in QueueId : /\ queues'[r].state = queues[r].state
                         /\ queues'[r].slots.max = queues[r].slots.max
                         /\ r # q => queues'[r].slots = queues[r].slots
                         /\ r = q => queues'[r].slots = s
  BY <1>1 DEF QueueDocs
<1>3. Current' = Current BY <1>2 DEF Current, Stored
<1>4. OneCurrent' BY <1>3 DEF LimitInv, OneCurrent
<1>5. LimitAsked'
  BY <1>2, <1>3 DEF LimitInv, LimitAsked, Current
<1>6. ReadFresh' BY <1>2, <1>3 DEF LimitInv, ReadFresh, Current
<1>7. InFlightWithinAnyRequest'
  BY <1>2 DEF LimitInv, InFlightWithinAnyRequest, Fits
<1> QED BY <1>4, <1>5, <1>6, <1>7 DEF LimitInv

\* The same for a step that leaves every document alone.  A call that finds the
\* limit reads what is there.
LEMMA SameQueues ==
  ASSUME LimitInv, UNCHANGED queues,
         \A c \in Admin : \/ admin'[c] = admin[c]
                          \/ admin'[c].pc # "found"
                          \/ \A q \in Current : admin'[c].read = queues[q].slots.max
  PROVE  LimitInv'
<1>1. Current' = Current BY DEF Current, Stored
<1>2. OneCurrent' /\ LimitAsked' /\ InFlightWithinAnyRequest'
  BY <1>1 DEF LimitInv, OneCurrent, LimitAsked, InFlightWithinAnyRequest
<1>3. ReadFresh' BY <1>1 DEF LimitInv, ReadFresh
<1> QED BY <1>2, <1>3 DEF LimitInv

\* Every step keeps LimitInv, when there is one client.
LEMMA LimitNext ==
  ASSUME OneAdmin, Inv, UnusedEmpty, LimitInv, [Next]_vars
  PROVE  LimitInv'
<1> USE DEF DocState
<1>1. TypeOK /\ \A q \in QueueId : Sound(queues[q].slots, AttemptId) BY InvIsSound
<1>2. queues \in [QueueId -> QueueDocs] /\ admin \in [Admin -> Put] BY <1>1 DEF TypeOK
<1>3. \A q \in QueueId : Fits(queues[q].slots)
  BY DEF LimitInv, InFlightWithinAnyRequest, Fits
<1>4. ASSUME UNCHANGED <<queues, admin>> PROVE LimitInv' BY <1>4, SameQueues
<1>5. ASSUME NEW q \in QueueId, NEW a \in AttemptId, SetSlots(q, Release1(q, a)), UNCHANGED admin
      PROVE  LimitInv'
  <2>1. Release(queues[q].slots, a).max = queues[q].slots.max BY <1>1, ReleaseSound
  <2>2. Fits(Release(queues[q].slots, a)) BY <1>1, <1>3, ReleaseFits
  <2>3. Release1(q, a).max = queues[q].slots.max /\ Fits(Release1(q, a))
    BY <1>3, <2>1, <2>2 DEF Release1
  <2> QED BY <1>2, <1>5, <2>3, SameLimit
<1>6. ASSUME NEW w \in Worker, EnQueueAdmit(w) PROVE LimitInv'
  <2>1. worker[w] \in Call /\ worker[w].pc = "counted" BY <1>1, <1>6 DEF TypeOK, EnQueueAdmit
  <2>2. PICK q \in QueueId, a \in AttemptId :
          worker[w] = [pc |-> "counted", q |-> q, a |-> a]
    BY <2>1 DEF Call, Idle
  <2>3. /\ Stored(q) /\ CanAdmit(queues[q].slots, a)
        /\ SetSlots(q, Admit(queues[q].slots, a))
        /\ UNCHANGED admin
    BY <1>6, <2>2 DEF EnQueueAdmit
  <2>4. queues[q].slots.max \in Sizes BY <2>3 DEF LimitInv, LimitAsked, Current
  <2>5. Fits(Admit(queues[q].slots, a)) BY <1>1, <2>3, <2>4, AdmitFits
  <2>6. Admit(queues[q].slots, a).max = queues[q].slots.max BY <1>1, <2>3, AdmitSound
  <2> QED BY <1>2, <2>3, <2>5, <2>6, SameLimit
<1>7. ASSUME NEW w \in Worker, DeQueue(w) PROVE LimitInv'
  <2>1. worker[w] \in Call /\ worker[w].pc = "holding" BY <1>1, <1>7 DEF TypeOK, DeQueue
  <2>2. worker[w].q \in QueueId /\ worker[w].a \in AttemptId BY <2>1 DEF Call, Idle
  <2> QED BY <1>5, <1>7, <2>2 DEF DeQueue
<1>8. ASSUME NEW q \in QueueId, NEW a \in AttemptId, CleanAttempt(q, a) PROVE LimitInv'
  BY <1>5, <1>8 DEF CleanAttempt
<1>9. ASSUME NEW c \in Admin, NEW q \in QueueId, NEW n \in Sizes, NewQueueInsert(c, q, n)
      PROVE  LimitInv'
  <2>1. /\ admin[c] = NoPut /\ Current = {} /\ UNCHANGED admin
        /\ queues' = [queues EXCEPT ![q] = [state |-> "live", slots |-> NewSlots(n)]]
    BY <1>9 DEF NewQueueInsert
  <2>2. /\ queues'[q] = [state |-> "live", slots |-> NewSlots(n)]
        /\ \A r \in QueueId \ {q} : queues'[r] = queues[r]
    BY <1>2, <2>1
  <2>3. Current' = {q} BY <2>1, <2>2 DEF Current, Stored
  <2>4. queues'[q].slots.max = n /\ queues'[q].slots.inflight = {} BY <2>2 DEF NewSlots
  <2>5. OneCurrent' BY <2>3 DEF OneCurrent
  <2>6. LimitAsked' BY <2>3, <2>4 DEF LimitAsked
  <2>7. \A d \in Admin : admin'[d].pc # "found" BY <2>1 DEF OneAdmin, NoPut
  <2>8. ReadFresh' BY <2>7 DEF ReadFresh
  <2>9. InFlightWithinAnyRequest'
    BY <2>2, <2>4 DEF LimitInv, InFlightWithinAnyRequest
  <2> QED BY <2>5, <2>6, <2>8, <2>9 DEF LimitInv
<1>10. ASSUME NEW c \in Admin, NEW n \in Sizes, NewQueueDup(c, n) PROVE LimitInv'
  <2>1. \A d \in Admin : admin'[d] = admin[d] \/ admin'[d].pc # "found"
    BY <1>2, <1>10 DEF NewQueueDup
  <2> QED BY <1>10, <2>1, SameQueues DEF NewQueueDup
<1>11. ASSUME NEW c \in Admin, NewQueueFind(c) PROVE LimitInv'
  <2>1. PICK q \in Current :
          admin' = [admin EXCEPT ![c] = [pc |-> "found", asked |-> admin[c].asked,
                                         read |-> queues[q].slots.max]]
    BY <1>11 DEF NewQueueFind
  <2>2. \A p \in Current : p = q BY <2>1 DEF LimitInv, OneCurrent
  <2>3. \A d \in Admin : \/ admin'[d] = admin[d]
                         \/ \A p \in Current : admin'[d].read = queues[p].slots.max
    BY <1>2, <2>1, <2>2
  <2> QED BY <1>11, <2>3, SameQueues DEF NewQueueFind
<1>12. ASSUME NEW c \in Admin, NewQueueApply(c) PROVE LimitInv'
  <2>1. admin[c] \in Put /\ admin[c].pc = "found" BY <1>2, <1>12 DEF NewQueueApply
  <2>2. admin[c].asked \in Sizes /\ admin[c].read \in Int BY <2>1 DEF Put, NoPut
  <2>3. admin[c].asked \in Int BY <2>2, SizesAssumption
  <2>4. PICK q \in Current :
          SetSlots(q, Resize(queues[q].slots, admin[c].asked - admin[c].read))
    BY <1>12 DEF NewQueueApply
  <2>5. q \in QueueId BY <2>4 DEF Current
  <2>6. admin[c].read = queues[q].slots.max
    BY <2>1, <2>4 DEF LimitInv, ReadFresh
  <2> DEFINE s == Resize(queues[q].slots, admin[c].asked - admin[c].read)
  <2>7. s.max = admin[c].asked /\ s.inflight = queues[q].slots.inflight
    BY <2>2, <2>3, <2>6 DEF Resize
  <2> HIDE DEF s
  <2>8. queues' = [queues EXCEPT ![q].slots = s] BY <2>4 DEF SetSlots, s
  <2>9. \A r \in QueueId : /\ queues'[r].state = queues[r].state
                           /\ queues'[r].slots.inflight = queues[r].slots.inflight
                           /\ r = q => queues'[r].slots.max = admin[c].asked
    BY <1>2, <2>5, <2>7, <2>8 DEF QueueDocs
  <2>10. Current' = Current BY <2>9 DEF Current, Stored
  <2>11. OneCurrent' BY <2>10 DEF LimitInv, OneCurrent
  <2>12. \A p \in Current : p = q BY <2>4 DEF LimitInv, OneCurrent
  <2>13. LimitAsked' BY <2>2, <2>5, <2>9, <2>10, <2>12 DEF LimitAsked
  <2>14. \A d \in Admin : admin'[d] = NoPut BY <1>2, <1>12 DEF OneAdmin, NewQueueApply
  <2>15. ReadFresh' BY <2>14 DEF ReadFresh, NoPut
  <2>16. InFlightWithinAnyRequest' BY <2>9 DEF LimitInv, InFlightWithinAnyRequest
  <2> QED BY <2>11, <2>13, <2>15, <2>16 DEF LimitInv
<1>13. ASSUME NEW c \in Admin, NewQueueGone(c) PROVE LimitInv'
  <2>1. \A d \in Admin : admin'[d] = admin[d] \/ admin'[d].pc # "found"
    BY <1>2, <1>13 DEF NewQueueGone, NoPut
  <2> QED BY <1>13, <2>1, SameQueues DEF NewQueueGone
<1>14. ASSUME NEW q \in QueueId, DeleteQueue(q) \/ CleanQueue(q) PROVE LimitInv'
  <2>1. UNCHANGED admin /\ \A r \in QueueId : queues'[r].slots = queues[r].slots
    BY <1>2, <1>14 DEF DeleteQueue, CleanQueue, QueueDocs
  <2>2. Current' \subseteq Current
    BY <1>2, <1>14 DEF DeleteQueue, CleanQueue, QueueDocs, Current, Stored
  <2>3. OneCurrent' BY <2>2 DEF LimitInv, OneCurrent
  <2>4. Current \subseteq QueueId BY DEF Current
  <2>5. LimitAsked' BY <2>1, <2>2, <2>4 DEF LimitInv, LimitAsked
  <2>6. ReadFresh' BY <2>1, <2>2, <2>4 DEF LimitInv, ReadFresh
  <2>7. InFlightWithinAnyRequest' BY <2>1 DEF LimitInv, InFlightWithinAnyRequest
  <2> QED BY <2>3, <2>5, <2>6, <2>7 DEF LimitInv
<1> QED
  BY <1>4, <1>6, <1>7, <1>8, <1>9, <1>10, <1>11, <1>12, <1>13, <1>14
  DEF Next, vars, EnQueueCount, EnQueueFull, WorkerGone

\* As long as one client at a time PUTs the queue, a queue never lets more
\* attempts in flight than the largest max_in_flight asked for, however
\* workers, deletions and re-creations interleave with the PUT.
THEOREM WithinRequestAlways == OneAdmin /\ Spec => []InFlightWithinAnyRequest
<1> SUFFICES ASSUME OneAdmin PROVE Spec => []InFlightWithinAnyRequest OBVIOUS
<1>1. Init => UnusedEmpty /\ LimitInv
  <2> SUFFICES ASSUME Init PROVE UnusedEmpty /\ LimitInv OBVIOUS
  <2>1. /\ queues = [q \in QueueId |->
                      [state |-> "unused",
                       slots |-> [max |-> 0, available |-> 0, inflight |-> {}]]]
        /\ admin = [c \in Admin |-> NoPut]
    BY DEF Init, NewSlots
  <2>2. UnusedEmpty /\ InFlightWithinAnyRequest
    BY <2>1 DEF UnusedEmpty, InFlightWithinAnyRequest
  <2>3. Current = {} BY <2>1 DEF Current, Stored
  <2>4. OneCurrent /\ LimitAsked /\ ReadFresh
    BY <2>3 DEF OneCurrent, LimitAsked, ReadFresh
  <2> QED BY <2>2, <2>4 DEF LimitInv
<1>2. Inv /\ UnusedEmpty /\ LimitInv /\ [Next]_vars => LimitInv' BY LimitNext
<1>3. LimitInv => InFlightWithinAnyRequest BY DEF LimitInv
<1> QED BY <1>1, <1>2, <1>3, InitInv, NextInv, UnusedStaysEmpty, PTL DEF Spec
=============================================================================
