--------------------------- MODULE SerialExecutor ---------------------------
(***************************************************************************)
(* What a JobQueue promises to the objects that derive from it: each queue *)
(* is an executor of its own that takes jobs in, runs them one at a time   *)
(* in the order they came, each once.  Nothing is said of threads.  A job  *)
(* that throws stays the running job of its queue forever.                 *)
(***************************************************************************)
EXTENDS Naturals, Sequences

CONSTANTS Queue, Job, QueueOf, None

VARIABLES
  pending,   \* the jobs a queue took in and has not started
  running,   \* the job a queue is running, or None
  done       \* the jobs a queue ran, in order

vars == <<pending, running, done>>

Init ==
  /\ pending = [q \in Queue |-> <<>>]
  /\ running = [q \in Queue |-> None]
  /\ done = [q \in Queue |-> <<>>]

InSeq(j, s) == \E i \in 1..Len(s) : s[i] = j

\* Job j was not given to its queue before.
Fresh(j) ==
  LET q == QueueOf[j] IN
    /\ ~ InSeq(j, pending[q])
    /\ running[q] # j
    /\ ~ InSeq(j, done[q])

Submit(j) ==
  /\ Fresh(j)
  /\ pending' = [pending EXCEPT ![QueueOf[j]] = Append(@, j)]
  /\ UNCHANGED <<running, done>>

Start(q) ==
  /\ running[q] = None
  /\ pending[q] # <<>>
  /\ running' = [running EXCEPT ![q] = Head(pending[q])]
  /\ pending' = [pending EXCEPT ![q] = Tail(@)]
  /\ UNCHANGED done

Finish(q) ==
  /\ running[q] # None
  /\ done' = [done EXCEPT ![q] = Append(@, running[q])]
  /\ running' = [running EXCEPT ![q] = None]
  /\ UNCHANGED pending

Next ==
  \/ \E j \in Job : Submit(j)
  \/ \E q \in Queue : Start(q) \/ Finish(q)

Spec == Init /\ [][Next]_vars
=============================================================================
