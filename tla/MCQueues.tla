------------------------------ MODULE MCQueues ------------------------------
(* Instances of Queues for TLC.  Attempts, workers and clients are alike. *)
EXTENDS Queues, TLC

Symm == Permutations(AttemptId) \cup Permutations(Worker) \cup Permutations(Admin)
          \cup Permutations(QueueId)
=============================================================================
