----------------------------- MODULE MCJobQueue -----------------------------
(* Instances of JobQueue for TLC: jobs a1, a2 go to queue qa and b1 to qb. *)
EXTENDS JobQueue

CONSTANTS a1, a2, b1, qa, qb

MCQueueOf == [j \in Job |-> IF j = b1 THEN qb ELSE qa]
=============================================================================
