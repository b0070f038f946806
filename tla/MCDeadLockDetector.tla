------------------------- MODULE MCDeadLockDetector -------------------------
(* Instances of DeadLockDetector for TLC. *)
EXTENDS DeadLockDetector, TLC

Symmetry == Permutations(Thread) \cup Permutations(Lock)
=============================================================================
