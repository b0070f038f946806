\* Three threads nest two guards each, for reading or writing, of three locks.
SPECIFICATION Spec
CONSTANTS
  Thread = {t1, t2, t3}
  Lock = {la, lb, lc}
  Mode = {"r", "w"}
  MaxHeld = 2
  Nobody = Nobody
SYMMETRY Symmetry
INVARIANTS
  NoMissedOnRecord
PROPERTY
  AlarmIsDeadlock
CHECK_DEADLOCK FALSE
