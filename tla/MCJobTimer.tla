----------------------------- MODULE MCJobTimer -----------------------------
(* Instances of JobTimer for TLC: t1 and t2 are timer jobs, p1 is pushed.  *)
EXTENDS JobTimer

CONSTANTS t1, t2, p1, qa, qb

MCQueueOf == [j \in Job |-> IF j = t2 THEN qb ELSE qa]
MCDelay == [j \in TimerJob |-> IF j = t1 THEN 1 ELSE 2]
=============================================================================
