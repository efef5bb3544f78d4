-------------------------- MODULE MCQueuePruning --------------------------
(* Instances of QueuePruning for TLC. *)
EXTENDS QueuePruning, TLC

Symmetry == Permutations(Sessions)
=============================================================================
