------------------------ MODULE MCKConditionVariable ------------------------
(* Instances of KConditionVariable for TLC. *)
EXTENDS KConditionVariable, TLC

Symmetric == Permutations(Threads)
=============================================================================
