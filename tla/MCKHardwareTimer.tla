-------------------------- MODULE MCKHardwareTimer --------------------------
(* Instances of KHardwareTimer for TLC. *)
EXTENDS KHardwareTimer, TLC

Symmetric == Permutations(Threads)
=============================================================================
