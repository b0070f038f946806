\* Two workers; t1 (due after 1) and p1 go to queue qa, t2 (due after 2) to qb,
\* and t2 can be reserved before or after t1; p1 may throw.
SPECIFICATION FairTimerSpec
CONSTANTS
  t1 = t1
  t2 = t2
  p1 = p1
  qa = qa
  qb = qb
  None = None
  Worker = {w1, w2}
  Queue = {qa, qb}
  Job = {t1, t2, p1}
  TimerJob = {t1, t2}
  QueueOf <- MCQueueOf
  Delay <- MCDelay
  Faulty = {p1}
  MaxNow = 2
INVARIANTS
  ReservedOnce
PROPERTIES
  QueuesUnharmed
  DueOrder
  EveryTimerFires
