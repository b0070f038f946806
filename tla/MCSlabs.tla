------------------------------- MODULE MCSlabs -------------------------------
(* Instances of Slabs for TLC. *)
EXTENDS Slabs
=============================================================================
