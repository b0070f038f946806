-------------------------- MODULE DeadLockDetector --------------------------
(***************************************************************************)
(* The deadlock detector of debug builds: every guard calls BeforeLock,    *)
(* AfterLock and BeforeUnlock around the Lock operation (Lock.cpp:94-137), *)
(* and the detector keeps who waits for what and who owns what behind a    *)
(* mutex of its own.  Each of the three is one step; the lock itself is    *)
(* granted by the rules of RecursiveLock, and is taken or left in another  *)
(* step, so the detector's maps lag behind the locks.                      *)
(*                                                                         *)
(* "Deadlock detected" is thrown by a constructor: the thread unwinds and  *)
(* ends.  "Invalid unlock" is thrown by a destructor: the process ends.    *)
(***************************************************************************)
EXTENDS Integers, Sequences, FiniteSets, SequencesExt

CONSTANTS
  Thread,    \* the threads
  Lock,      \* the Lock objects
  Mode,      \* the modes that are asked for, of "r" and "w"
  MaxHeld,   \* bound: how many guards a thread nests
  Nobody     \* no entry in _owner_map

ASSUME ThreadAssumption == IsFiniteSet(Thread)
ASSUME ModeAssumption == Mode \subseteq {"r", "w"}
ASSUME MaxHeldAssumption == MaxHeld \in Nat
ASSUME NobodyAssumption == Nobody \notin Thread

VARIABLES
  ownerCount,   \* _owner_count
  waitMap,      \* _wait_map: the locks in the vector of a thread
  ownerMap,     \* _owner_map
  held,         \* the guards a thread holds, oldest first
  goal,         \* the guard a thread constructs, or ends
  pc,           \* where a thread is
  unwinding,    \* the threads that threw "Deadlock detected"
  terminated    \* whether "Invalid unlock" ended the process

vars == <<ownerCount, waitMap, ownerMap, held, goal, pc, unwinding, terminated>>

Guard == [lock : Lock, mode : {"r", "w"}]
NoGuard == <<>>
Pc == {"run", "lock", "after", "unlock"}

TypeOK ==
  /\ ownerCount \in [Thread -> IF terminated THEN {-1} \cup Nat ELSE Nat]
  /\ waitMap \in [Thread -> SUBSET Lock]
  /\ ownerMap \in [Lock -> Thread \cup {Nobody}]
  /\ held \in [Thread -> Seq(Guard)]
  /\ goal \in [Thread -> Guard \cup {NoGuard}]
  /\ pc \in [Thread -> Pc]
  /\ unwinding \subseteq Thread
  /\ terminated \in BOOLEAN

Init ==
  /\ ownerCount = [t \in Thread |-> 0]
  /\ waitMap = [t \in Thread |-> {}]
  /\ ownerMap = [l \in Lock |-> Nobody]
  /\ held = [t \in Thread |-> <<>>]
  /\ goal = [t \in Thread |-> NoGuard]
  /\ pc = [t \in Thread |-> "run"]
  /\ unwinding = {}
  /\ terminated = FALSE

Goto(t, l) == pc' = [pc EXCEPT ![t] = l]

\* The modes in which thread t holds lock l.
Holds(t, l) == {g.mode : g \in {h \in ToSet(held[t]) : h.lock = l}}

-----------------------------------------------------------------------------
(* BeforeLock, AfterLock, BeforeUnlock                                     *)

\* The owners of the locks in the vectors of the threads in S.
OwnersWaitedFor(S) ==
  {ownerMap[l] : l \in UNION {waitMap[u] : u \in S}} \ {Nobody}

\* Mutant: the waits of the next owner are checked, and no further.
CheckOneEdge(t, next) == t \in OwnersWaitedFor({next})

\* CheckCycle: does some path of waits lead from thread next back to t?
CheckCycle(t, next) ==
  LET reach[n \in 0..Cardinality(Thread)] ==
        IF n = 0 THEN {next} ELSE reach[n - 1] \cup OwnersWaitedFor(reach[n - 1])
  IN  t \in OwnersWaitedFor(reach[Cardinality(Thread)])

\* A guard is constructed, within the policy of Lock.h: the wait is noted,
\* and a cycle it closes is thrown.
BeforeLock(t, l, mode) ==
  /\ pc[t] = "run"
  /\ t \notin unwinding
  /\ Len(held[t]) < MaxHeld
  /\ mode = "w" => "r" \notin Holds(t, l)
  /\ waitMap' = [waitMap EXCEPT ![t] = @ \cup {l}]
  /\ IF ownerMap[l] \notin {Nobody, t} /\ CheckCycle(t, ownerMap[l])
       THEN unwinding' = unwinding \cup {t} /\ UNCHANGED <<goal, pc>>
       ELSE /\ goal' = [goal EXCEPT ![t] = [lock |-> l, mode |-> mode]]
            /\ Goto(t, "lock")
            /\ UNCHANGED unwinding
  /\ UNCHANGED <<ownerCount, ownerMap, held, terminated>>

\* ReadLock or WriteLock returns.
Grants(t) ==
  LET l == goal[t].lock
      others == UNION {Holds(u, l) : u \in Thread \ {t}}
  IN  IF goal[t].mode = "w" THEN others = {} ELSE "w" \notin others

Acquire(t) ==
  /\ pc[t] = "lock"
  /\ Grants(t)
  /\ held' = [held EXCEPT ![t] = Append(@, goal[t])]
  /\ Goto(t, "after")
  /\ UNCHANGED <<ownerCount, waitMap, ownerMap, goal, unwinding, terminated>>

\* Mutant: the request stays in the vector.
AfterLockStillWaiting(t) ==
  /\ pc[t] = "after"
  /\ LET l == goal[t].lock IN
       /\ ownerCount' = [ownerCount EXCEPT
                           ![t] = IF ownerMap[l] = t THEN @ + 1 ELSE 1]
       /\ ownerMap' = [ownerMap EXCEPT ![l] = t]
  /\ goal' = [goal EXCEPT ![t] = NoGuard]
  /\ Goto(t, "run")
  /\ UNCHANGED <<waitMap, held, unwinding, terminated>>

\* The request is dropped and the thread becomes the owner.  The count is
\* kept per thread, not per lock: a lock it did not own yet sets it to 1.
AfterLock(t) ==
  /\ pc[t] = "after"
  /\ LET l == goal[t].lock IN
       /\ waitMap' = [waitMap EXCEPT ![t] = @ \ {l}]
       /\ ownerCount' = [ownerCount EXCEPT
                           ![t] = IF ownerMap[l] = t THEN @ + 1 ELSE 1]
       /\ ownerMap' = [ownerMap EXCEPT ![l] = t]
  /\ goal' = [goal EXCEPT ![t] = NoGuard]
  /\ Goto(t, "run")
  /\ UNCHANGED <<held, unwinding, terminated>>

\* The last guard ends (in its scope or while unwinding): not the owner, or a
\* count below 0, is "Invalid unlock"; a count of 0 drops the owner.
BeforeUnlock(t) ==
  /\ pc[t] = "run"
  /\ held[t] # <<>>
  /\ LET l == Last(held[t]).lock
         count == ownerCount[t] - 1
     IN  IF ownerMap[l] # t
           THEN terminated' = TRUE /\ UNCHANGED <<ownerMap, ownerCount, goal, pc>>
           ELSE /\ ownerCount' = [ownerCount EXCEPT ![t] = count]
                /\ IF count < 0
                     THEN terminated' = TRUE /\ UNCHANGED <<ownerMap, goal, pc>>
                     ELSE /\ ownerMap' = [ownerMap EXCEPT
                                            ![l] = IF count = 0 THEN Nobody ELSE @]
                          /\ goal' = [goal EXCEPT ![t] = Last(held[t])]
                          /\ Goto(t, "unlock")
                          /\ UNCHANGED terminated
  /\ UNCHANGED <<waitMap, held, unwinding>>

\* ReadUnlock or WriteUnlock returns.
Unlock(t) ==
  /\ pc[t] = "unlock"
  /\ held' = [held EXCEPT ![t] = Front(@)]
  /\ goal' = [goal EXCEPT ![t] = NoGuard]
  /\ Goto(t, "run")
  /\ UNCHANGED <<ownerCount, waitMap, ownerMap, unwinding, terminated>>

Step(t) == Acquire(t) \/ AfterLock(t) \/ BeforeUnlock(t) \/ Unlock(t)

Next ==
  /\ ~terminated
  /\ \E t \in Thread :
       \/ \E l \in Lock, mode \in Mode : BeforeLock(t, l, mode)
       \/ Step(t)

Spec == Init /\ [][Next]_vars

-----------------------------------------------------------------------------
(* Properties                                                              *)

\* Thread t is blocked: its lock is held against it.
Blocked(t) == pc[t] = "lock" /\ ~Grants(t)
Holders(t) == {u \in Thread \ {t} : Holds(u, goal[t].lock) # {}}

\* Every thread of S is blocked and each of them by another of S only.
Deadlocked(S) ==
  S # {} /\ \A t \in S : Blocked(t) /\ Holders(t) \subseteq S

\* The cycle search before a lock finds every deadlock whose owners are on
\* record: the thread that would complete it throws instead, although owners
\* are recorded after a lock is taken and dropped before it is left.
OnRecord(t) == \A g \in ToSet(held[t]) : ownerMap[g.lock] = t
NoMissedOnRecord ==
  \A S \in SUBSET Thread : Deadlocked(S) => \E t \in S : ~OnRecord(t)

\* While only write guards are in play, the first "Deadlock detected" is thrown
\* only when the request would complete a real deadlock: following the threads
\* that hold what is waited for leads from the new request back to its thread.
\* (The owner map cannot tell a read guard that would be shared, and the request
\* of a thread that threw stays in _wait_map: both can raise a false alarm.)
WaitsFor(t) == IF Blocked(t) THEN Holders(t) ELSE {}
ClosesCircle(t, l) ==
  \E S \in SUBSET (Thread \ {t}) :
    /\ \E u \in S : Holds(u, l) # {}
    /\ \A u \in S : WaitsFor(u) # {} /\ WaitsFor(u) \subseteq S \cup {t}
    /\ \E u \in S : t \in WaitsFor(u)
WritesOnly == \A t \in Thread : \A g \in ToSet(held[t]) : g.mode = "w"
AlarmIsDeadlock ==
  [][unwinding = {} /\ WritesOnly =>
       \A t \in unwinding' : \E l \in waitMap'[t] : ClosesCircle(t, l)]_vars
=============================================================================
