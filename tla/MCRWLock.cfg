\* Three threads with two locks each, one after the other or nested: readers
\* and writers in every number and order, every re-entrant pair the policy allows.
SPECIFICATION FairSpec
CONSTANTS
  Thread = {t1, t2, t3}
  Nobody = Nobody
  MaxRequest = 2
  MayTimeOut = TRUE
INVARIANTS
  WordCountsGuards
PROPERTIES
  GrantsByPolicy
  CountsAsOwner
  EveryRequestGranted
CHECK_DEADLOCK FALSE
