\* Three workers, two jobs on one queue and one on another: two pushers race
\* an executor, a job can push to its own or to the other queue, and a1 may throw.
SPECIFICATION FairSpec
CONSTANTS
  a1 = a1
  a2 = a2
  b1 = b1
  qa = qa
  qb = qb
  None = None
  Worker = {w1, w2, w3}
  Queue = {qa, qb}
  Job = {a1, a2, b1}
  QueueOf <- MCQueueOf
  Faulty = {a1}
INVARIANTS
  TypeOK
  OneExecutor
  OneRight
  CountExact
PROPERTIES
  RunsSerially
  EveryJobRuns
