-------------------------- MODULE ExecutionQueueMC --------------------------
(* Instances of ExecutionQueue for TLC. *)
EXTENDS ExecutionQueue, TLC

\* Workers are interchangeable (used by the safety runs only).
WorkerSymmetry == Permutations(Workers)
=============================================================================
