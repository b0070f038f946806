\* Two threads, three slabs of two blocks: a block is released by its own thread or
\* by the other, at the same time as another block of its slab.
SPECIFICATION FairSpec
CONSTANTS
  Thread = {t1, t2}
  MaxSlabs = 3
  Blocks = 2
  None = None
INVARIANT
  CrashIsForeign
PROPERTIES
  AllocatesOnce
  FullGoesBack
CHECK_DEADLOCK FALSE
