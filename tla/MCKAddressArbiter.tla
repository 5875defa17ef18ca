------------------------- MODULE MCKAddressArbiter -------------------------
(* Instances of KAddressArbiter for TLC. *)
EXTENDS KAddressArbiter

Symmetric == Permutations(Threads)
=============================================================================
