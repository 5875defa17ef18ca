-------------------------- MODULE MCKServerSession --------------------------
(* Instances of KServerSession for TLC. *)
EXTENDS KServerSession, TLC
=============================================================================
