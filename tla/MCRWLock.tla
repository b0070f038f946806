------------------------------ MODULE MCRWLock ------------------------------
(* Instances of RWLock for TLC. *)
EXTENDS RWLock
=============================================================================
