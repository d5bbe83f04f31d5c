--------------------------- MODULE QueueDocProofs ---------------------------
(***************************************************************************)
(* What the atomic updates of a queue document preserve, for ids of any    *)
(* kind: lemmas for the modules that use the document.                     *)
(***************************************************************************)
EXTENDS QueueDoc, FiniteSetTheorems, TLAPS

(* The updates of a queue document keep its counter in step with its list. *)

\* A document whose list is finite and whose counter agrees with it.
Sound(s, Ids) ==
  s \in SlotsOf(Ids) /\ IsFiniteSet(s.inflight) /\ BalancedSlots(s)

\* An inserted document is sound, whatever size was asked for.
LEMMA NewSlotsSound == ASSUME NEW Ids, NEW n \in Int PROVE Sound(NewSlots(n), Ids)
<1>1. NewSlots(n) = [max |-> n, available |-> n, inflight |-> {}] BY DEF NewSlots
<1>2. NewSlots(n) \in SlotsOf(Ids) BY <1>1 DEF SlotsOf
<1>3. IsFiniteSet({}) /\ Cardinality({}) = 0 BY FS_EmptySet
<1> QED BY <1>1, <1>2, <1>3 DEF Sound, BalancedSlots

\* EnQueue's update takes exactly one slot: its query excludes an attempt that
\* is in the list already.
LEMMA AdmitSound ==
  ASSUME NEW Ids, NEW s, Sound(s, Ids), NEW a \in Ids, CanAdmit(s, a)
  PROVE  /\ Sound(Admit(s, a), Ids)
         /\ Admit(s, a).max = s.max
         /\ Admit(s, a).inflight = s.inflight \cup {a}
         /\ Cardinality(s.inflight) < s.max
<1> DEFINE t == Admit(s, a)
<1>1. s \in SlotsOf(Ids) /\ IsFiniteSet(s.inflight) BY DEF Sound
<1>2. a \notin s.inflight /\ s.available > 0 BY DEF CanAdmit, Holds
<1>3. t = [max |-> s.max, available |-> s.available - 1, inflight |-> s.inflight \cup {a}]
  BY DEF Admit
<1>4. /\ IsFiniteSet(s.inflight \cup {a})
      /\ Cardinality(s.inflight \cup {a}) = Cardinality(s.inflight) + 1
  BY <1>1, <1>2, FS_AddElement
<1>5. Cardinality(s.inflight) \in Nat BY <1>1, FS_CardinalityType
<1>6. s.available = s.max - Cardinality(s.inflight) BY DEF Sound, BalancedSlots
<1>7. s.max \in Int /\ s.available \in Int /\ s.inflight \subseteq Ids
  BY <1>1 DEF SlotsOf
<1>8. t \in SlotsOf(Ids) BY <1>3, <1>7 DEF SlotsOf
<1>9. BalancedSlots(t) BY <1>3, <1>4, <1>5, <1>6, <1>7 DEF BalancedSlots
<1>10. Cardinality(s.inflight) < s.max BY <1>2, <1>5, <1>6, <1>7
<1> QED BY <1>3, <1>4, <1>8, <1>9, <1>10 DEF Sound

\* DeQueue gives one slot back when the attempt held one, and none otherwise.
LEMMA ReleaseSound ==
  ASSUME NEW Ids, NEW s, Sound(s, Ids), NEW a \in Ids
  PROVE  /\ Sound(Release(s, a), Ids)
         /\ Release(s, a).max = s.max
         /\ Release(s, a).inflight = s.inflight \ {a}
<1>1. s \in SlotsOf(Ids) /\ IsFiniteSet(s.inflight) BY DEF Sound
<1>2. s.max \in Int /\ s.available \in Int /\ s.inflight \subseteq Ids
  BY <1>1 DEF SlotsOf
<1>3. CASE Holds(s, a)
  <2> DEFINE t == Release(s, a)
  <2>1. t = [max |-> s.max, available |-> s.available + 1, inflight |-> s.inflight \ {a}]
    BY <1>3 DEF Release
  <2>2. /\ IsFiniteSet(s.inflight \ {a})
        /\ Cardinality(s.inflight \ {a}) = Cardinality(s.inflight) - 1
    BY <1>1, <1>3, FS_RemoveElement DEF Holds
  <2>3. Cardinality(s.inflight) \in Nat BY <1>1, FS_CardinalityType
  <2>4. s.available = s.max - Cardinality(s.inflight) BY DEF Sound, BalancedSlots
  <2>5. t \in SlotsOf(Ids) BY <2>1, <1>2 DEF SlotsOf
  <2>6. BalancedSlots(t) BY <2>1, <2>2, <2>3, <2>4, <1>2 DEF BalancedSlots
  <2> QED BY <2>1, <2>2, <2>5, <2>6 DEF Sound
<1>4. CASE ~Holds(s, a)
  <2>1. Release(s, a) = s BY <1>4 DEF Release
  <2>2. s.inflight \ {a} = s.inflight BY <1>4 DEF Holds
  <2> QED BY <2>1, <2>2
<1> QED BY <1>3, <1>4

\* NewQueue's $inc moves both counters: the attempts in flight stay counted.
LEMMA ResizeSound ==
  ASSUME NEW Ids, NEW s, Sound(s, Ids), NEW inc \in Int
  PROVE  Sound(Resize(s, inc), Ids) /\ Resize(s, inc).inflight = s.inflight
<1> DEFINE t == Resize(s, inc)
<1>1. s \in SlotsOf(Ids) /\ IsFiniteSet(s.inflight) BY DEF Sound
<1>2. t = [max |-> s.max + inc, available |-> s.available + inc, inflight |-> s.inflight]
  BY DEF Resize
<1>3. s.max \in Int /\ s.available \in Int /\ s.inflight \subseteq Ids
  BY <1>1 DEF SlotsOf
<1>4. t \in SlotsOf(Ids) BY <1>2, <1>3 DEF SlotsOf
<1>5. Cardinality(s.inflight) \in Nat BY <1>1, FS_CardinalityType
<1>6. s.available = s.max - Cardinality(s.inflight) BY DEF Sound, BalancedSlots
<1>7. BalancedSlots(t) BY <1>2, <1>3, <1>5, <1>6 DEF BalancedSlots
<1> QED BY <1>1, <1>2, <1>4, <1>7 DEF Sound
=============================================================================
