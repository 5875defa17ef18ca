---------------------------- MODULE MCKLightLock ----------------------------
(* Instances of KLightLock for TLC. *)
EXTENDS KLightLock, TLC

Symmetric == Permutations(Threads)
=============================================================================
