---------------------- MODULE MCKSynchronizationObject ----------------------
(* Instances of KSynchronizationObject for TLC. *)
EXTENDS KSynchronizationObject

=============================================================================
