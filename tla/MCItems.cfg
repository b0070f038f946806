\* Two logins, with a crash or without, and three rewards of two kinds in two
\* slots, as long as the rows of the lives do not overlap.
SPECIFICATION Spec
CONSTANTS
  Lives = {l1, l2}
  None = None
  Kinds = {"bow", "potion"}
  SlotCount = 2
  MaxItems = 3
  MaxQueue = 2
SYMMETRY Symmetry
VIEW Future
CONSTRAINT NoOverlap
INVARIANTS
  Agree
  OneEquipped
CHECK_DEADLOCK FALSE
