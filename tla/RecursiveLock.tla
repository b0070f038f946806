--------------------------- MODULE RecursiveLock ---------------------------
(***************************************************************************)
(* What Lock promises (README.md "Lock", Lock.h:8-13): many readers or one *)
(* writer, the writer may nest write and read locks, and guards end in the *)
(* reverse order in which they began.  A step is atomic here.              *)
(***************************************************************************)
EXTENDS Naturals, Sequences, SequencesExt

CONSTANT Thread

VARIABLE held   \* held[t]: the guards "r" and "w" thread t holds, oldest first

Init == held = [t \in Thread |-> <<>>]

Writes(t) == "w" \in ToSet(held[t])
Others(t) == Thread \ {t}

\* A write lock needs the lock for oneself.
AcquireWrite(t) ==
  /\ \A u \in Others(t) : held[u] = <<>>
  /\ held[t] # <<>> => Writes(t)
  /\ held' = [held EXCEPT ![t] = Append(@, "w")]

\* A read lock needs that no other thread writes.
AcquireRead(t) ==
  /\ \A u \in Others(t) : ~Writes(u)
  /\ held' = [held EXCEPT ![t] = Append(@, "r")]

Release(t) ==
  /\ held[t] # <<>>
  /\ held' = [held EXCEPT ![t] = Front(@)]

Next == \E t \in Thread : AcquireWrite(t) \/ AcquireRead(t) \/ Release(t)

Spec == Init /\ [][Next]_held
=============================================================================
