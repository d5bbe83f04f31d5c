---------------------------- MODULE BoundedSlots ----------------------------
(***************************************************************************)
(* What the queues promise: each is a pool with a set of holders and a     *)
(* limit that an operator may move.  A client enters a pool only while     *)
(* there is room under its limit; lowering a limit evicts nobody.          *)
(***************************************************************************)
EXTENDS Integers, FiniteSets

CONSTANTS Pool, Client

VARIABLES limit, holders

slotVars == <<limit, holders>>

Init ==
  /\ limit \in [Pool -> Int]
  /\ holders = [p \in Pool |-> {}]

Acquire(p, c) ==
  /\ c \notin holders[p]
  /\ Cardinality(holders[p]) < limit[p]
  /\ holders' = [holders EXCEPT ![p] = @ \cup {c}]
  /\ UNCHANGED limit

Leave(p, c) ==
  /\ c \in holders[p]
  /\ holders' = [holders EXCEPT ![p] = @ \ {c}]
  /\ UNCHANGED limit

SetLimit(p) ==
  /\ limit' \in [Pool -> Int]
  /\ \A other \in Pool \ {p} : limit'[other] = limit[other]
  /\ UNCHANGED holders

Next ==
  \E p \in Pool : SetLimit(p) \/ \E c \in Client : Acquire(p, c) \/ Leave(p, c)

Spec == Init /\ [][Next]_slotVars
=============================================================================
