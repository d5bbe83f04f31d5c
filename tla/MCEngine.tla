------------------------------ MODULE MCEngine ------------------------------
(* Instances of Engine for TLC: one or two tasks over queues of one slot. *)
EXTENDS Engine, TLC

\* Each task id its own name, or all ids drawn for one name.
OwnName == [t \in TaskId |-> t]
SameName == [t \in TaskId |-> None]

OneQueue == [t \in TaskId |-> CHOOSE q \in QueueId : TRUE]
OneSlot == [q \in QueueId |-> 1]
TwoSlots == [q \in QueueId |-> 2]

\* Workers are alike, and so are clients and fixers.
Symm == Permutations(Worker) \cup Permutations(Fixer) \cup Permutations(Client)

Mixed == {TRUE, FALSE}
Yes == {TRUE}
No == {FALSE}
=============================================================================
