--------------------------- MODULE DetectorProofs ---------------------------
(***************************************************************************)
(* The deadlock detector, for any threads, locks and depth of nesting.     *)
(*                                                                         *)
(* That no deadlock is missed says nothing of how it came about, so it is  *)
(* not inductive.  NoCircle is: no set of waiting threads has, for each of *)
(* them, the recorded owner of what it waits for in the set.  The thread   *)
(* that would close a circle finds it, since all the others wait already   *)
(* and are on record; owners that come or go later are not waiting.        *)
(*                                                                         *)
(* That an alarm is a deadlock needs the opposite: a recorded owner holds  *)
(* the lock (Recorded).  It depends on _owner_count, which is kept per     *)
(* thread and not per lock: CountBounded says that it never exceeds what   *)
(* lies on the first guard of any lock, so it is 0 or less when that guard *)
(* ends, and the owner is dropped or the process has ended.                *)
(*                                                                         *)
(* CheckCycle is a recursive function over the number of threads.  The set *)
(* it reaches grows until no owner is left to add (ReachRule), by an       *)
(* induction stated for a set of numbers.                                  *)
(***************************************************************************)
EXTENDS DeadLockDetector, FiniteSetTheorems, TLAPS

\* What a thread is at, and its guards.
Local ==
  \A t \in Thread :
    /\ pc[t] # "run" => goal[t] \in Guard
    /\ pc[t] \in {"after", "unlock"} => held[t] # <<>> /\ Last(held[t]) = goal[t]
    /\ t \in unwinding => pc[t] \in {"run", "unlock"}

\* A thread that waits, or has not told yet that its wait is over, is in
\* _wait_map with its lock and, unless it threw, with nothing else.
Noted ==
  \A t \in Thread :
    /\ pc[t] \in {"lock", "after"} => goal[t].lock \in waitMap[t]
    /\ t \notin unwinding =>
         \A l \in waitMap[t] : pc[t] \in {"lock", "after"} /\ goal[t].lock = l

Circle(C) ==
  \A t \in C : pc[t] = "lock" /\ ownerMap[goal[t].lock] \in C \ {t}
NoCircle == \A C \in SUBSET Thread : Circle(C) => C = {}

\* The guards whose AfterLock is over and whose BeforeUnlock is still to come.
Kept(t) == IF pc[t] \in {"after", "unlock"} THEN Len(held[t]) - 1 ELSE Len(held[t])
LockOf(t, i) == held[t][i].lock

Recorded ==
  \A t \in Thread, l \in Lock :
    ownerMap[l] = t => \E i \in 1..Kept(t) : LockOf(t, i) = l

IsFirst(t, i) == \A j \in 1..Kept(t) : j < i => LockOf(t, j) # LockOf(t, i)
CountBounded ==
  \A t \in Thread : \A i \in 1..Kept(t) :
    IsFirst(t, i) => ownerCount[t] <= Kept(t) - i + 1

\* Two threads hold a lock for reading only.
Shared ==
  \A t, u \in Thread, l \in Lock :
    t # u /\ "w" \in Holds(t, l) => Holds(u, l) = {}

IInv ==
  /\ TypeOK /\ Local /\ Noted /\ NoCircle
  /\ Recorded /\ CountBounded /\ Shared

-----------------------------------------------------------------------------
(* CheckCycle                                                              *)

LEMMA SetInduction ==
  ASSUME NEW S, 0 \in S, \A n \in Nat : n \in S => n + 1 \in S
  PROVE  Nat \subseteq S
<1> SUFFICES ASSUME NEW x \in Nat, x \notin S
             PROVE  FALSE
  OBVIOUS
<1> DEFINE Missing == {n \in 0..x : n \notin S}
           pred == [n \in Missing |-> n - 1]
<1>1. \A n \in Missing : n - 1 \in Missing
  <2> SUFFICES ASSUME NEW n \in Missing
               PROVE  n - 1 \in Missing
    OBVIOUS
  <2>1. n \in Nat /\ n # 0 /\ n <= x
    OBVIOUS
  <2>2. n - 1 \in Nat /\ (n - 1) + 1 = n /\ n - 1 \in 0..x
    BY <2>1
  <2> QED BY <2>2
<1>2. pred \in Injection(Missing, Missing)
  <2>1. pred \in [Missing -> Missing]
    BY <1>1
  <2>2. \A m, n \in Missing : pred[m] = pred[n] => m = n
    OBVIOUS
  <2> QED BY <2>1, <2>2 DEF Injection, IsInjective
<1>3. IsFiniteSet(Missing)
  <2>1. IsFiniteSet(0..x) /\ Missing \subseteq 0..x
    BY FS_Interval
  <2> QED BY <2>1, FS_Subset
<1>4. pred \in Surjection(Missing, Missing)
  BY <1>2, <1>3, FS_Injection
<1>5. PICK n \in Missing : pred[n] = x
  <2>1. x \in Missing
    OBVIOUS
  <2> HIDE DEF Missing
  <2>2. \A a \in Missing : \E n \in Missing : pred[n] = a
    BY <1>4 DEF Surjection
  <2> QED BY <2>1, <2>2
<1> QED BY <1>5


Owned == ownerMap \in [Lock -> Thread \cup {Nobody}] /\ waitMap \in [Thread -> SUBSET Lock]

LEMMA OwnersAreThreads ==
  ASSUME Owned, NEW S \in SUBSET Thread
  PROVE  /\ OwnersWaitedFor(S) \subseteq Thread
         /\ \A x : x \in OwnersWaitedFor(S) <=>
              x # Nobody /\ \E u \in S : \E l \in waitMap[u] : ownerMap[l] = x
<1>1. \A x : x \in OwnersWaitedFor(S) <=>
        x # Nobody /\ \E u \in S : \E l \in waitMap[u] : ownerMap[l] = x
  BY DEF OwnersWaitedFor
<1>2. \A u \in S : waitMap[u] \subseteq Lock
  BY DEF Owned
<1> QED BY <1>1, <1>2 DEF Owned

\* Function f follows the waits from thread next for n steps.
Follows(f, next, n) ==
  f = [i \in 0..n |-> IF i = 0 THEN {next} ELSE f[i - 1] \cup OwnersWaitedFor(f[i - 1])]

LEMMA FollowsExists ==
  ASSUME NEW next
  PROVE  \A n \in Nat : \E f : Follows(f, next, n)
<1> DEFINE S == {n \in Nat : \E f : Follows(f, next, n)}
<1>1. 0 \in S
  <2>1. Follows([i \in {0} |-> {next}], next, 0)
    BY DEF Follows
  <2> QED BY <2>1
<1>2. ASSUME NEW n \in Nat, n \in S
      PROVE  n + 1 \in S
  <2>1. PICK f : Follows(f, next, n)
    BY <1>2
  <2> DEFINE g == [i \in 0..n + 1 |->
                     IF i = 0 THEN {next} ELSE f[i - 1] \cup OwnersWaitedFor(f[i - 1])]
  <2>2. \A i \in 0..n : g[i] = f[i]
    <3> SUFFICES ASSUME NEW i \in 0..n
                 PROVE  g[i] = f[i]
      OBVIOUS
    <3>1. i \in 0..n + 1
      OBVIOUS
    <3>2. g[i] = IF i = 0 THEN {next} ELSE f[i - 1] \cup OwnersWaitedFor(f[i - 1])
      BY <3>1
    <3> QED BY <2>1, <3>2 DEF Follows
  <2>3. \A i \in 0..n + 1 : i # 0 => g[i] = g[i - 1] \cup OwnersWaitedFor(g[i - 1])
    <3> SUFFICES ASSUME NEW i \in 0..n + 1, i # 0
                 PROVE  g[i] = g[i - 1] \cup OwnersWaitedFor(g[i - 1])
      OBVIOUS
    <3>1. i - 1 \in 0..n /\ g[i] = f[i - 1] \cup OwnersWaitedFor(f[i - 1])
      OBVIOUS
    <3>2. g[i - 1] = f[i - 1]
      BY <2>2, <3>1
    <3> HIDE DEF g
    <3> QED BY <3>1, <3>2
  <2>4. g[0] = {next}
    OBVIOUS
  <2>5. g = [i \in 0..n + 1 |-> IF i = 0 THEN {next} ELSE g[i - 1] \cup OwnersWaitedFor(g[i - 1])]
    BY <2>3, <2>4
  <2> HIDE DEF g
  <2>6. Follows(g, next, n + 1)
    BY <2>5 DEF Follows
  <2> QED BY <2>6
<1>3. \A n \in Nat : n \in S => n + 1 \in S
  BY <1>2
<1> HIDE DEF S
<1>4. Nat \subseteq S
  BY <1>1, <1>3, SetInduction
<1> QED BY <1>4 DEF S

\* What the search reaches has every property that the first thread has and that the
\* next step of the search keeps (F is the property as a set), and nobody whom it
\* waits for is left out: a growing set of threads stops growing in time.
LEMMA ReachRule ==
  ASSUME Owned, NEW t \in Thread, NEW next \in Thread,
         NEW F, {next} \in F,
         \A X \in SUBSET Thread : X \in F => X \cup OwnersWaitedFor(X) \in F
  PROVE  \E R \in SUBSET Thread :
           /\ R \in F /\ next \in R
           /\ OwnersWaitedFor(R) \subseteq R
           /\ CheckCycle(t, next) <=> t \in OwnersWaitedFor(R)
<1> DEFINE N == Cardinality(Thread)
           Reaches(f) == Follows(f, next, N)
<1>1. N \in Nat
  BY ThreadAssumption, FS_CardinalityType
<1>2. \E f : Reaches(f)
  BY <1>1, FollowsExists
<1>3. CheckCycle(t, next) <=> t \in OwnersWaitedFor((CHOOSE f : Reaches(f))[N])
  BY DEF CheckCycle, Follows
<1> HIDE DEF Reaches
<1>4. PICK f : f = (CHOOSE g : Reaches(g))
  OBVIOUS
<1>5. Reaches(f)
  BY <1>2, <1>4
<1>6. /\ f[0] = {next}
      /\ \A n \in Nat : n + 1 <= N => f[n + 1] = f[n] \cup OwnersWaitedFor(f[n])
  <2>1. f = [i \in 0..N |-> IF i = 0 THEN {next} ELSE f[i - 1] \cup OwnersWaitedFor(f[i - 1])]
    BY <1>5 DEF Reaches, Follows
  <2> HIDE DEF N
  <2>2. f[0] = {next}
    BY <1>1, <2>1
  <2>3. ASSUME NEW n \in Nat, n + 1 <= N
        PROVE  f[n + 1] = f[n] \cup OwnersWaitedFor(f[n])
    <3>1. n + 1 \in 0..N /\ n + 1 # 0 /\ (n + 1) - 1 = n
      BY <1>1, <2>3
    <3>2. f[n + 1] = IF n + 1 = 0 THEN {next}
                     ELSE f[(n + 1) - 1] \cup OwnersWaitedFor(f[(n + 1) - 1])
      BY <2>1, <3>1
    <3> QED BY <3>1, <3>2
  <2> QED BY <2>2, <2>3
<1> DEFINE Done(n) == OwnersWaitedFor(f[n]) \subseteq f[n]
           Good(n) == /\ f[n] \subseteq Thread /\ f[n] \in F /\ next \in f[n]
                      /\ Done(n) \/ Cardinality(f[n]) >= n + 1
           S == {n \in Nat : n <= N => Good(n)}
<1>7. 0 \in S
  <2>1. Cardinality({next}) = 1
    BY FS_Singleton
  <2>2. f[0] \subseteq Thread /\ f[0] \in F /\ next \in f[0] /\ Cardinality(f[0]) >= 0 + 1
    BY <1>6, <2>1
  <2>3. Good(0)
    BY <2>2
  <2> QED BY <2>3
<1>8. ASSUME NEW n \in Nat, n \in S
      PROVE  n + 1 \in S
  <2> SUFFICES ASSUME n + 1 <= N
               PROVE  Good(n + 1)
    BY <1>8
  <2>1. Good(n)
    BY <1>1, <1>8
  <2>2. PICK X \in SUBSET Thread : X = f[n]
    BY <2>1
  <2>3. PICK Y : Y = OwnersWaitedFor(X)
    OBVIOUS
  <2>4. f[n + 1] = X \cup Y
    BY <1>6, <2>2, <2>3
  <2>5. Y \subseteq Thread /\ X \cup Y \in F
    BY <2>1, <2>2, <2>3, OwnersAreThreads
  <2>6. CASE Y \subseteq X
    <3>1. X \cup Y = X
      BY <2>6
    <3> QED BY <2>1, <2>2, <2>3, <2>4, <3>1, <2>6
  <2>7. CASE ~ (Y \subseteq X)
    <3>1. PICK y \in Y : y \notin X
      BY <2>7
    <3>2. IsFiniteSet(X) /\ IsFiniteSet(X \cup Y)
      BY <2>5, ThreadAssumption, FS_Subset
    <3>3. Cardinality(X) \in Nat /\ Cardinality(X \cup {y}) = Cardinality(X) + 1
      BY <3>1, <3>2, FS_CardinalityType, FS_AddElement
    <3>4. Cardinality(X \cup {y}) <= Cardinality(X \cup Y) /\ Cardinality(X \cup Y) \in Nat
      BY <3>1, <3>2, FS_Subset, FS_CardinalityType
    <3>5. Cardinality(X) >= n + 1
      BY <2>1, <2>2, <2>3, <2>7
    <3>6. Cardinality(X \cup Y) >= (n + 1) + 1
      BY <3>3, <3>4, <3>5
    <3> QED BY <2>1, <2>2, <2>4, <2>5, <3>6
  <2> QED BY <2>6, <2>7
<1>9. Good(N)
  <2>1. \A n \in Nat : n \in S => n + 1 \in S
    BY <1>8
  <2> HIDE DEF S
  <2>2. Nat \subseteq S
    BY <1>7, <2>1, SetInduction
  <2> USE DEF S
  <2> HIDE DEF Good
  <2> QED BY <1>1, <2>2
<1>10. Done(N)
  <2>1. Cardinality(f[N]) <= N
    BY <1>9, ThreadAssumption, FS_Subset
  <2>2. Cardinality(f[N]) \in Nat
    BY <1>9, ThreadAssumption, FS_Subset, FS_CardinalityType
  <2> HIDE DEF N
  <2> QED BY <1>1, <1>9, <2>1, <2>2
<1> HIDE DEF N
<1> QED BY <1>3, <1>4, <1>9, <1>10

-----------------------------------------------------------------------------
(* The guards of a thread                                                  *)

ModesIn(s, l) == {g.mode : g \in {h \in ToSet(s) : h.lock = l}}

LEMMA ModesOf ==
  ASSUME NEW s \in Seq(Guard), NEW l, NEW m
  PROVE  m \in ModesIn(s, l) <=> \E i \in 1..Len(s) : s[i].lock = l /\ s[i].mode = m
<1>1. ToSet(s) = {s[i] : i \in 1..Len(s)}
  BY DEF ToSet
<1> QED BY <1>1, Zenon DEF ModesIn

LEMMA HoldsIs ==
  ASSUME TypeOK, NEW t \in Thread
  PROVE  /\ held[t] \in Seq(Guard) /\ Len(held[t]) \in Nat
         /\ \A l, m : m \in Holds(t, l) <=>
              \E i \in 1..Len(held[t]) : held[t][i].lock = l /\ held[t][i].mode = m
         /\ \A i \in 1..Len(held[t]) : held[t][i] \in Guard
<1>1. held[t] \in Seq(Guard)
  BY DEF TypeOK
<1>2. ASSUME NEW l, NEW m
      PROVE  m \in Holds(t, l) <=>
               \E i \in 1..Len(held[t]) : held[t][i].lock = l /\ held[t][i].mode = m
  <2>1. Holds(t, l) = ModesIn(held[t], l)
    BY DEF Holds, ModesIn
  <2> QED BY <1>1, <2>1, ModesOf
<1> QED BY <1>1, <1>2

LEMMA ModesAre ==
  ASSUME TypeOK, NEW t \in Thread, NEW l
  PROVE  Holds(t, l) \subseteq {"r", "w"}
<1> SUFFICES ASSUME NEW m \in Holds(t, l)
             PROVE  m \in {"r", "w"}
  OBVIOUS
<1>1. PICK i \in 1..Len(held[t]) : held[t][i].mode = m
  BY HoldsIs
<1>2. held[t][i] \in Guard
  BY HoldsIs
<1> QED BY <1>1, <1>2 DEF Guard

LEMMA KeptIs ==
  ASSUME TypeOK, Local, NEW t \in Thread
  PROVE  /\ Kept(t) \in Nat /\ Kept(t) <= Len(held[t]) /\ Len(held[t]) \in Nat
         /\ pc[t] \in {"after", "unlock"} => Len(held[t]) = Kept(t) + 1
         /\ pc[t] \notin {"after", "unlock"} => Len(held[t]) = Kept(t)
<1>1. held[t] \in Seq(Guard) /\ Len(held[t]) \in Nat
  BY HoldsIs
<1>2. pc[t] \in {"after", "unlock"} => Len(held[t]) > 0
  BY <1>1 DEF Local
<1> QED BY <1>1, <1>2 DEF Kept

\* A guard more, a guard less.
LEMMA OneMore ==
  ASSUME NEW s \in Seq(Guard), NEW g \in Guard
  PROVE  /\ Append(s, g) \in Seq(Guard) /\ Len(Append(s, g)) = Len(s) + 1
         /\ Append(s, g) # <<>> /\ Last(Append(s, g)) = g
         /\ \A i \in 1..Len(s) : Append(s, g)[i] = s[i]
         /\ Append(s, g)[Len(s) + 1] = g
BY DEF Last

LEMMA OneLess ==
  ASSUME NEW s \in Seq(Guard), s # <<>>
  PROVE  /\ Front(s) \in Seq(Guard) /\ Len(Front(s)) = Len(s) - 1
         /\ Len(s) \in Nat \ {0} /\ Last(s) \in Guard /\ Last(s) = s[Len(s)]
         /\ \A i \in 1..Len(s) - 1 : Front(s)[i] = s[i]
<1>1. Len(s) \in Nat \ {0}
  OBVIOUS
<1> DEFINE n == Len(s) - 1
<1>2. n \in Nat /\ n <= Len(s)
  BY <1>1
<1>3. Front(s) = [i \in 1..n |-> s[i]]
  BY <1>1 DEF Front
<1>4. \A i \in 1..n : s[i] \in Guard
  BY <1>1
<1> HIDE DEF n
<1>5. Front(s) \in Seq(Guard) /\ Len(Front(s)) = n
  BY <1>2, <1>3, <1>4
<1> QED BY <1>1, <1>3, <1>5 DEF n, Last

-----------------------------------------------------------------------------
(* Types and places                                                        *)

LEMMA LocalInit == Init => TypeOK /\ Local
<1> SUFFICES ASSUME Init
             PROVE  TypeOK /\ Local
  OBVIOUS
<1>1. <<>> \in Seq(Guard)
  OBVIOUS
<1>2. held \in [Thread -> Seq(Guard)] /\ goal \in [Thread -> Guard \cup {NoGuard}]
  BY <1>1 DEF Init
<1>3. ownerCount \in [Thread -> IF terminated THEN {-1} \cup Nat ELSE Nat] /\ terminated \in BOOLEAN
  BY DEF Init
<1>4. /\ waitMap \in [Thread -> SUBSET Lock] /\ ownerMap \in [Lock -> Thread \cup {Nobody}]
      /\ pc \in [Thread -> Pc] /\ unwinding \subseteq Thread
  BY DEF Init, Pc
<1>5. Local
  BY DEF Init, Local
<1> QED BY <1>2, <1>3, <1>4, <1>5 DEF TypeOK

\* ~terminated is a guard of Next.
LEMMA LocalNext ==
  ASSUME TypeOK, Local, ~terminated, Next
  PROVE  TypeOK' /\ Local'
<1>1. PICK t \in Thread :
        (\E l \in Lock, mode \in Mode : BeforeLock(t, l, mode)) \/ Step(t)
  BY DEF Next
<1>2. /\ ownerCount \in [Thread -> Nat] /\ waitMap \in [Thread -> SUBSET Lock]
      /\ ownerMap \in [Lock -> Thread \cup {Nobody}]
      /\ held \in [Thread -> Seq(Guard)] /\ goal \in [Thread -> Guard \cup {NoGuard}]
      /\ pc \in [Thread -> Pc] /\ unwinding \subseteq Thread
  BY DEF TypeOK
<1>3. \A n : n \in Nat => n \in IF terminated' THEN {-1} \cup Nat ELSE Nat
  OBVIOUS
<1>4. ASSUME NEW l \in Lock, NEW mode \in Mode, BeforeLock(t, l, mode)
      PROVE  TypeOK' /\ Local'
  <2>1. /\ pc[t] = "run" /\ waitMap' = [waitMap EXCEPT ![t] = @ \cup {l}]
        /\ UNCHANGED <<ownerCount, ownerMap, held, terminated>>
    BY <1>4 DEF BeforeLock
  <2>2. waitMap' \in [Thread -> SUBSET Lock]
    BY <1>2, <2>1
  <2>3. CASE unwinding' = unwinding \cup {t} /\ UNCHANGED <<goal, pc>>
    BY <1>2, <2>1, <2>2, <2>3 DEF TypeOK, Local
  <2>4. CASE /\ goal' = [goal EXCEPT ![t] = [lock |-> l, mode |-> mode]]
             /\ pc' = [pc EXCEPT ![t] = "lock"] /\ unwinding' = unwinding
    <3>1. [lock |-> l, mode |-> mode] \in Guard
      BY ModeAssumption DEF Guard
    <3>2. goal' \in [Thread -> Guard \cup {NoGuard}] /\ pc' \in [Thread -> Pc]
      BY <1>2, <2>4, <3>1 DEF Pc
    <3>3. /\ goal'[t] \in Guard /\ pc'[t] = "lock" /\ t \notin unwinding
          /\ \A u \in Thread \ {t} : goal'[u] = goal[u] /\ pc'[u] = pc[u]
      BY <1>2, <1>4, <2>4, <3>1 DEF BeforeLock
    <3>4. Local'
      BY <2>1, <2>4, <3>3 DEF Local
    <3> QED BY <2>1, <2>2, <2>4, <3>2, <3>4 DEF TypeOK
  <2> QED BY <1>4, <2>3, <2>4 DEF BeforeLock, Goto
<1>5. CASE Acquire(t)
  <2>1. /\ pc[t] = "lock" /\ held' = [held EXCEPT ![t] = Append(@, goal[t])]
        /\ pc' = [pc EXCEPT ![t] = "after"]
        /\ UNCHANGED <<ownerCount, waitMap, ownerMap, goal, unwinding, terminated>>
    BY <1>5 DEF Acquire, Goto
  <2>2. goal[t] \in Guard /\ t \notin unwinding
    BY <2>1 DEF Local
  <2>3. /\ Append(held[t], goal[t]) \in Seq(Guard) /\ Append(held[t], goal[t]) # <<>>
        /\ Last(Append(held[t], goal[t])) = goal[t]
    BY <1>2, <2>2, OneMore
  <2>4. held' \in [Thread -> Seq(Guard)] /\ pc' \in [Thread -> Pc]
    BY <1>2, <2>1, <2>3 DEF Pc
  <2>5. /\ held'[t] = Append(held[t], goal[t]) /\ pc'[t] = "after"
        /\ \A u \in Thread \ {t} : held'[u] = held[u] /\ pc'[u] = pc[u]
    BY <1>2, <2>1
  <2>6. Local'
    BY <2>1, <2>2, <2>3, <2>5 DEF Local
  <2> QED BY <2>1, <2>4, <2>6 DEF TypeOK
<1>6. CASE AfterLock(t)
  <2>1. /\ pc[t] = "after" /\ pc' = [pc EXCEPT ![t] = "run"] /\ goal' = [goal EXCEPT ![t] = NoGuard]
        /\ UNCHANGED <<held, unwinding, terminated>>
        /\ waitMap' = [waitMap EXCEPT ![t] = @ \ {goal[t].lock}]
        /\ ownerMap' = [ownerMap EXCEPT ![goal[t].lock] = t]
        /\ ownerCount' = [ownerCount EXCEPT
                            ![t] = IF ownerMap[goal[t].lock] = t THEN @ + 1 ELSE 1]
    BY <1>6 DEF AfterLock, Goto
  <2>2. ownerCount' \in [Thread -> Nat]
    BY <1>2, <2>1
  <2>3. /\ waitMap' \in [Thread -> SUBSET Lock] /\ ownerMap' \in [Lock -> Thread \cup {Nobody}]
        /\ goal' \in [Thread -> Guard \cup {NoGuard}] /\ pc' \in [Thread -> Pc]
    BY <1>2, <2>1 DEF Pc
  <2>4. /\ pc'[t] = "run" /\ \A u \in Thread \ {t} : goal'[u] = goal[u] /\ pc'[u] = pc[u]
    BY <1>2, <2>1
  <2>5. Local'
    BY <2>1, <2>4 DEF Local
  <2> QED BY <2>1, <2>2, <2>3, <2>5 DEF TypeOK
<1>7. CASE BeforeUnlock(t)
  <2>1. /\ pc[t] = "run" /\ held[t] # <<>> /\ UNCHANGED <<waitMap, held, unwinding>>
    BY <1>7 DEF BeforeUnlock
  <2>2. PICK g \in Guard : g = Last(held[t])
    BY <1>2, <2>1, OneLess
  <2>3. CASE terminated' = TRUE /\ UNCHANGED <<ownerMap, ownerCount, goal, pc>>
    BY <1>2, <2>1, <2>3 DEF TypeOK, Local
  <2>4. CASE /\ ownerCount' = [ownerCount EXCEPT ![t] = ownerCount[t] - 1]
             /\ ownerCount[t] - 1 < 0 /\ terminated' = TRUE /\ UNCHANGED <<ownerMap, goal, pc>>
    <3>1. ownerCount[t] \in Nat
      BY <1>2
    <3>2. ownerCount[t] - 1 = -1
      BY <2>4, <3>1
    <3>3. ownerCount' \in [Thread -> {-1} \cup Nat]
      BY <1>2, <2>4, <3>2
    <3> QED BY <1>2, <2>1, <2>4, <3>3 DEF TypeOK, Local
  <2>5. CASE /\ ownerCount' = [ownerCount EXCEPT ![t] = ownerCount[t] - 1]
             /\ ~ (ownerCount[t] - 1 < 0) /\ terminated' = terminated
             /\ ownerMap' = [ownerMap EXCEPT
                               ![g.lock] = IF ownerCount[t] - 1 = 0 THEN Nobody ELSE @]
             /\ goal' = [goal EXCEPT ![t] = g] /\ pc' = [pc EXCEPT ![t] = "unlock"]
    <3>1. ownerCount[t] - 1 \in Nat
      BY <1>2, <2>5
    <3>2. ownerCount' \in [Thread -> Nat]
      BY <1>2, <2>5, <3>1
    <3>3. /\ ownerMap' \in [Lock -> Thread \cup {Nobody}]
          /\ goal' \in [Thread -> Guard \cup {NoGuard}] /\ pc' \in [Thread -> Pc]
      BY <1>2, <2>2, <2>5 DEF Pc
    <3>4. /\ pc'[t] = "unlock" /\ goal'[t] = g
          /\ \A u \in Thread \ {t} : goal'[u] = goal[u] /\ pc'[u] = pc[u]
      BY <1>2, <2>5
    <3>5. Local'
      BY <2>1, <2>2, <3>4 DEF Local
    <3> QED BY <1>2, <2>1, <2>5, <3>2, <3>3, <3>5 DEF TypeOK
  <2> QED BY <1>7, <2>2, <2>3, <2>4, <2>5 DEF BeforeUnlock, Goto
<1>8. CASE Unlock(t)
  <2>1. /\ pc[t] = "unlock" /\ pc' = [pc EXCEPT ![t] = "run"] /\ goal' = [goal EXCEPT ![t] = NoGuard]
        /\ held' = [held EXCEPT ![t] = Front(@)]
        /\ UNCHANGED <<ownerCount, waitMap, ownerMap, unwinding, terminated>>
    BY <1>8 DEF Unlock, Goto
  <2>2. Front(held[t]) \in Seq(Guard)
    BY <1>2, <2>1, OneLess DEF Local
  <2>3. /\ held' \in [Thread -> Seq(Guard)]
        /\ goal' \in [Thread -> Guard \cup {NoGuard}] /\ pc' \in [Thread -> Pc]
    BY <1>2, <2>1, <2>2 DEF Pc
  <2>4. /\ pc'[t] = "run"
        /\ \A u \in Thread \ {t} : goal'[u] = goal[u] /\ pc'[u] = pc[u] /\ held'[u] = held[u]
    BY <1>2, <2>1
  <2>5. Local'
    BY <2>1, <2>4 DEF Local
  <2> QED BY <2>1, <2>3, <2>5 DEF TypeOK
<1> QED BY <1>1, <1>4, <1>5, <1>6, <1>7, <1>8 DEF Step

-----------------------------------------------------------------------------
(* No circle of waits                                                      *)

LEMMA NotedNext ==
  ASSUME TypeOK, Local, Noted, ~terminated, Next
  PROVE  Noted'
<1>1. PICK t \in Thread :
        (\E l \in Lock, mode \in Mode : BeforeLock(t, l, mode)) \/ Step(t)
  BY DEF Next
<1>2. /\ waitMap \in [Thread -> SUBSET Lock] /\ pc \in [Thread -> Pc]
      /\ goal \in [Thread -> Guard \cup {NoGuard}]
  BY DEF TypeOK
<1>3. ASSUME NEW l \in Lock, NEW mode \in Mode, BeforeLock(t, l, mode)
      PROVE  Noted'
  <2>1. pc[t] = "run" /\ t \notin unwinding /\ waitMap' = [waitMap EXCEPT ![t] = @ \cup {l}]
    BY <1>3 DEF BeforeLock
  <2>2. waitMap[t] = {}
    BY <2>1 DEF Noted
  <2>3. waitMap'[t] = {l} /\ \A u \in Thread \ {t} : waitMap'[u] = waitMap[u]
    BY <1>2, <2>1, <2>2
  <2>4. CASE unwinding' = unwinding \cup {t} /\ UNCHANGED <<goal, pc>>
    BY <2>1, <2>3, <2>4 DEF Noted
  <2>5. CASE /\ goal' = [goal EXCEPT ![t] = [lock |-> l, mode |-> mode]]
             /\ pc' = [pc EXCEPT ![t] = "lock"] /\ unwinding' = unwinding
    <3>1. /\ goal'[t].lock = l /\ pc'[t] = "lock"
          /\ \A u \in Thread \ {t} : goal'[u] = goal[u] /\ pc'[u] = pc[u]
      BY <1>2, <2>5
    <3> QED BY <2>3, <2>5, <3>1 DEF Noted
  <2> QED BY <1>3, <2>4, <2>5 DEF BeforeLock, Goto
<1>4. CASE Acquire(t)
  <2>1. /\ pc[t] = "lock" /\ pc' = [pc EXCEPT ![t] = "after"]
        /\ UNCHANGED <<waitMap, goal, unwinding>>
    BY <1>4 DEF Acquire, Goto
  <2>2. pc'[t] = "after" /\ \A u \in Thread \ {t} : pc'[u] = pc[u]
    BY <1>2, <2>1
  <2> QED BY <2>1, <2>2 DEF Noted
<1>5. CASE AfterLock(t)
  <2>1. /\ pc[t] = "after" /\ pc' = [pc EXCEPT ![t] = "run"] /\ goal' = [goal EXCEPT ![t] = NoGuard]
        /\ waitMap' = [waitMap EXCEPT ![t] = @ \ {goal[t].lock}] /\ unwinding' = unwinding
    BY <1>5 DEF AfterLock, Goto
  <2>2. waitMap[t] \subseteq {goal[t].lock}
    BY <2>1 DEF Local, Noted
  <2>3. /\ waitMap'[t] = {} /\ pc'[t] = "run"
        /\ \A u \in Thread \ {t} :
             pc'[u] = pc[u] /\ goal'[u] = goal[u] /\ waitMap'[u] = waitMap[u]
    BY <1>2, <2>1, <2>2
  <2> QED BY <2>1, <2>3 DEF Noted
<1>6. CASE BeforeUnlock(t) \/ Unlock(t)
  <2>1. /\ pc[t] \in {"run", "unlock"} /\ UNCHANGED <<waitMap, unwinding>>
        /\ \/ UNCHANGED <<goal, pc>>
           \/ \E g, p : /\ p \in {"run", "unlock"}
                        /\ goal' = [goal EXCEPT ![t] = g] /\ pc' = [pc EXCEPT ![t] = p]
    BY <1>6 DEF BeforeUnlock, Unlock, Goto
  <2>2. /\ pc'[t] \in {"run", "unlock"}
        /\ \A u \in Thread \ {t} : pc'[u] = pc[u] /\ goal'[u] = goal[u]
    BY <1>2, <2>1
  <2> QED BY <2>1, <2>2 DEF Noted
<1> QED BY <1>1, <1>3, <1>4, <1>5, <1>6 DEF Step

\* Whoever starts to wait closes no circle, since the search before it would have
\* come back to it; a lock that changes hands goes to a thread that does not wait.
LEMMA NoCircleNext ==
  ASSUME TypeOK, Local, Noted, NoCircle, ~terminated, Next
  PROVE  NoCircle'
<1>1. PICK t \in Thread :
        (\E l \in Lock, mode \in Mode : BeforeLock(t, l, mode)) \/ Step(t)
  BY DEF Next
<1>2. /\ waitMap \in [Thread -> SUBSET Lock] /\ pc \in [Thread -> Pc]
      /\ goal \in [Thread -> Guard \cup {NoGuard}]
      /\ ownerMap \in [Lock -> Thread \cup {Nobody}]
  BY DEF TypeOK
<1>3. SUFFICES ASSUME NEW C \in SUBSET Thread, Circle(C)', C # {}
               PROVE  FALSE
  BY DEF NoCircle
<1>4. \A u \in C : pc'[u] = "lock" /\ ownerMap'[goal'[u].lock] \in C \ {u}
  BY <1>3 DEF Circle
<1>5. CASE \E l \in Lock, mode \in Mode : BeforeLock(t, l, mode)
  <2>1. PICK l \in Lock, mode \in Mode : BeforeLock(t, l, mode)
    BY <1>5
  <2>2. pc[t] = "run" /\ ownerMap' = ownerMap
    BY <2>1 DEF BeforeLock
  <2>3. CASE UNCHANGED <<goal, pc>>
    <3>1. Circle(C)
      BY <1>4, <2>2, <2>3 DEF Circle
    <3> QED BY <1>3, <3>1 DEF NoCircle
  <2>4. CASE /\ goal' = [goal EXCEPT ![t] = [lock |-> l, mode |-> mode]]
             /\ pc' = [pc EXCEPT ![t] = "lock"]
             /\ ~ (ownerMap[l] \notin {Nobody, t} /\ CheckCycle(t, ownerMap[l]))
    <3>1. /\ goal'[t].lock = l
          /\ \A u \in Thread \ {t} : goal'[u] = goal[u] /\ pc'[u] = pc[u]
      BY <1>2, <2>4
    <3>2. CASE t \notin C
      <4>1. Circle(C)
        BY <1>4, <2>2, <3>1, <3>2 DEF Circle
      <4> QED BY <1>3, <4>1 DEF NoCircle
    <3>3. CASE t \in C
      <4>1. PICK o \in C \ {t} : o = ownerMap[l]
        BY <1>4, <2>2, <3>1, <3>3
      <4>2. o \in Thread /\ o # Nobody /\ ~ CheckCycle(t, o)
        BY <2>4, <4>1, NobodyAssumption
      <4> DEFINE F == {X \in SUBSET Thread : t \in X => t \in OwnersWaitedFor(X)}
      <4>3. {o} \in F
        BY <4>1, <4>2
      <4>4. ASSUME NEW X \in SUBSET Thread, X \in F
            PROVE  X \cup OwnersWaitedFor(X) \in F
        <5>1. OwnersWaitedFor(X) \subseteq Thread
          BY <1>2, OwnersAreThreads DEF Owned
        <5>2. OwnersWaitedFor(X) \subseteq OwnersWaitedFor(X \cup OwnersWaitedFor(X))
          BY DEF OwnersWaitedFor
        <5> QED BY <4>4, <5>1, <5>2
      <4>5. PICK R \in SUBSET Thread :
              /\ R \in F /\ o \in R /\ OwnersWaitedFor(R) \subseteq R
              /\ t \notin OwnersWaitedFor(R)
        <5> HIDE DEF F
        <5> QED BY <1>2, <4>2, <4>3, <4>4, ReachRule DEF Owned
      <4>6. t \notin R
        BY <4>5
      <4> DEFINE D == C \cap R
      <4>7. ASSUME NEW u \in D
            PROVE  pc[u] = "lock" /\ ownerMap[goal[u].lock] \in D \ {u}
        <5>1. u \in Thread \ {t} /\ u \in C
          BY <4>6
        <5>2. pc[u] = "lock" /\ ownerMap[goal[u].lock] \in C \ {u}
          BY <1>4, <2>2, <3>1, <5>1
        <5>3. goal[u].lock \in waitMap[u]
          BY <5>1, <5>2 DEF Noted
        <5>4. ownerMap[goal[u].lock] # Nobody
          BY <5>2, NobodyAssumption
        <5>5. ownerMap[goal[u].lock] \in OwnersWaitedFor(R)
          BY <1>2, <5>3, <5>4, OwnersAreThreads DEF Owned
        <5> QED BY <4>5, <5>2, <5>5
      <4>8. Circle(D) /\ D \in SUBSET Thread
        BY <4>7 DEF Circle
      <4>9. o \in D
        BY <4>1, <4>5
      <4> HIDE DEF D
      <4> QED BY <4>8, <4>9 DEF NoCircle
    <3> QED BY <3>2, <3>3
  <2> QED BY <2>1, <2>3, <2>4 DEF BeforeLock, Goto
<1>6. CASE Step(t)
  <2>1. \A u \in Thread : pc'[u] = "lock" => pc[u] = "lock" /\ goal'[u] = goal[u]
    <3>1. CASE UNCHANGED <<pc, goal>>
      BY <3>1
    <3>2. CASE \E p : p # "lock" /\ pc' = [pc EXCEPT ![t] = p] /\ goal' = goal
      BY <1>2, <3>2
    <3>3. CASE \E p, g : /\ p # "lock" /\ pc' = [pc EXCEPT ![t] = p]
                         /\ goal' = [goal EXCEPT ![t] = g]
      <4>1. PICK p, g : p # "lock" /\ pc' = [pc EXCEPT ![t] = p] /\ goal' = [goal EXCEPT ![t] = g]
        BY <3>3
      <4> QED BY <1>2, <4>1
    <3>4. Acquire(t) => \E p : p # "lock" /\ pc' = [pc EXCEPT ![t] = p] /\ goal' = goal
      BY DEF Acquire, Goto
    <3>5. AfterLock(t) \/ Unlock(t) =>
            \E p, g : /\ p # "lock" /\ pc' = [pc EXCEPT ![t] = p]
                      /\ goal' = [goal EXCEPT ![t] = g]
      BY DEF AfterLock, Unlock, Goto
    <3>6. BeforeUnlock(t) => \/ UNCHANGED <<pc, goal>>
                             \/ \E p, g : /\ p # "lock" /\ pc' = [pc EXCEPT ![t] = p]
                                          /\ goal' = [goal EXCEPT ![t] = g]
      BY DEF BeforeUnlock, Goto
    <3> QED BY <1>6, <3>1, <3>2, <3>3, <3>4, <3>5, <3>6 DEF Step
  <2>2. \A l \in Lock : ownerMap'[l] = ownerMap[l] \/ ownerMap'[l] \notin C
    <3>1. Nobody \notin C
      BY NobodyAssumption
    <3>2. CASE AfterLock(t)
      <4>1. pc' = [pc EXCEPT ![t] = "run"] /\ ownerMap' = [ownerMap EXCEPT ![goal[t].lock] = t]
        BY <3>2 DEF AfterLock, Goto
      <4>2. t \notin C
        BY <1>2, <1>4, <4>1
      <4> QED BY <1>2, <4>1, <4>2
    <3>3. CASE BeforeUnlock(t)
      <4>1. \/ ownerMap' = ownerMap
            \/ \E l \in {Last(held[t]).lock}, o \in {Nobody, ownerMap[Last(held[t]).lock]} :
                 ownerMap' = [ownerMap EXCEPT ![l] = o]
        BY <3>3 DEF BeforeUnlock
      <4> QED BY <1>2, <3>1, <4>1
    <3>4. Acquire(t) \/ Unlock(t) => ownerMap' = ownerMap
      BY DEF Acquire, Unlock
    <3> QED BY <1>6, <3>2, <3>3, <3>4 DEF Step
  <2>3. ASSUME NEW u \in C
        PROVE  pc[u] = "lock" /\ ownerMap[goal[u].lock] \in C \ {u}
    <3>1. pc[u] = "lock" /\ goal'[u] = goal[u]
      BY <1>4, <2>1
    <3>2. goal[u].lock \in Lock
      BY <3>1 DEF Local, Guard
    <3> QED BY <1>4, <2>2, <3>1, <3>2
  <2>4. Circle(C)
    BY <2>3 DEF Circle
  <2> QED BY <1>3, <2>4 DEF NoCircle
<1> QED BY <1>1, <1>5, <1>6

-----------------------------------------------------------------------------
(* Who holds and who is recorded                                           *)

LEMMA SharedNext ==
  ASSUME TypeOK, Local, Shared, ~terminated, Next
  PROVE  Shared'
<1>1. PICK t \in Thread :
        (\E l \in Lock, mode \in Mode : BeforeLock(t, l, mode)) \/ Step(t)
  BY DEF Next
<1>2. held \in [Thread -> Seq(Guard)]
  BY DEF TypeOK
<1>3. TypeOK'
  BY LocalNext
<1>4. CASE Acquire(t)
  <2>1. PICK g \in Guard : g = goal[t]
    BY <1>4 DEF Acquire, Local
  <2>2. held' = [held EXCEPT ![t] = Append(@, g)]
    BY <1>4, <2>1 DEF Acquire
  <2>3. /\ held'[t] = Append(held[t], g)
        /\ \A u \in Thread \ {t} : held'[u] = held[u]
    BY <1>2, <2>2
  <2>4. ASSUME NEW l \in Lock, NEW m \in Holds(t, l)'
        PROVE  m \in Holds(t, l) \/ (g.lock = l /\ g.mode = m)
    <3>1. PICK i \in 1..Len(held'[t]) : held'[t][i].lock = l /\ held'[t][i].mode = m
      <4>1. held'[t] \in Seq(Guard)
        BY <1>3 DEF TypeOK
      <4>2. m \in ModesIn(held'[t], l)
        BY DEF Holds, ModesIn
      <4> QED BY <4>1, <4>2, ModesOf
    <3>2. /\ Len(held'[t]) = Len(held[t]) + 1 /\ Len(held[t]) \in Nat
          /\ \A j \in 1..Len(held[t]) : held'[t][j] = held[t][j]
          /\ held'[t][Len(held[t]) + 1] = g
      BY <1>2, <2>3, OneMore
    <3>3. CASE i \in 1..Len(held[t])
      <4>1. held[t][i].lock = l /\ held[t][i].mode = m
        BY <3>1, <3>2, <3>3
      <4> QED BY <3>3, <4>1, HoldsIs
    <3>4. CASE i = Len(held[t]) + 1
      BY <3>1, <3>2, <3>4
    <3> QED BY <3>1, <3>2, <3>3, <3>4
  <2>5. \A u \in Thread \ {t} : \A l : Holds(u, l)' = Holds(u, l)
    BY <2>3 DEF Holds
  <2>6. \A u \in Thread \ {t} : /\ g.mode = "w" => Holds(u, g.lock) = {}
                                /\ "w" \notin Holds(u, g.lock)
    BY <1>4, <2>1 DEF Acquire, Grants
  <2>7. ASSUME NEW u \in Thread, NEW v \in Thread, NEW l \in Lock,
               u # v, "w" \in Holds(u, l)'
        PROVE  Holds(v, l)' = {}
    <3>1. CASE u = t
      <4>1. Holds(v, l)' = Holds(v, l)
        BY <2>5, <2>7, <3>1
      <4> QED BY <2>4, <2>6, <2>7, <3>1, <4>1 DEF Shared
    <3>2. CASE u # t
      <4>1. "w" \in Holds(u, l)
        BY <2>5, <2>7, <3>2
      <4>2. Holds(v, l) = {}
        BY <2>7, <4>1 DEF Shared
      <4>3. CASE v # t
        BY <2>5, <4>2, <4>3
      <4>4. CASE v = t
        <5>1. g.lock # l
          BY <2>6, <3>2, <4>1
        <5> QED BY <2>4, <4>2, <4>4, <5>1
      <4> QED BY <4>3, <4>4
    <3> QED BY <3>1, <3>2
  <2> QED BY <2>7 DEF Shared
<1>5. CASE Unlock(t)
  <2>1. held[t] # <<>> /\ held' = [held EXCEPT ![t] = Front(@)]
    BY <1>5 DEF Unlock, Local
  <2>2. /\ held'[t] = Front(held[t])
        /\ \A u \in Thread \ {t} : held'[u] = held[u]
    BY <1>2, <2>1
  <2>3. \A u \in Thread \ {t} : \A l : Holds(u, l)' = Holds(u, l)
    BY <2>2 DEF Holds
  <2>4. ASSUME NEW l \in Lock, NEW m \in Holds(t, l)'
        PROVE  m \in Holds(t, l)
    <3>1. PICK i \in 1..Len(held'[t]) : held'[t][i].lock = l /\ held'[t][i].mode = m
      <4>1. held'[t] \in Seq(Guard)
        BY <1>3 DEF TypeOK
      <4>2. m \in ModesIn(held'[t], l)
        BY DEF Holds, ModesIn
      <4> QED BY <4>1, <4>2, ModesOf
    <3>2. /\ Len(held'[t]) = Len(held[t]) - 1 /\ Len(held[t]) \in Nat
          /\ \A j \in 1..Len(held[t]) - 1 : held'[t][j] = held[t][j]
      BY <1>2, <2>1, <2>2, OneLess
    <3>3. i \in 1..Len(held[t])
      BY <3>2
    <3> QED BY <3>1, <3>2, <3>3, HoldsIs
  <2>5. \A u \in Thread, l \in Lock : Holds(u, l)' \subseteq Holds(u, l)
    BY <2>3, <2>4
  <2> QED BY <2>5 DEF Shared
<1>6. CASE held' = held
  <2>1. \A u \in Thread : \A l : Holds(u, l)' = Holds(u, l)
    BY <1>6 DEF Holds
  <2> QED BY <2>1 DEF Shared
<1> QED BY <1>1, <1>4, <1>5, <1>6 DEF Step, BeforeLock, AfterLock, BeforeUnlock

\* A step that keeps the noted guards and adds to no count keeps what they say.
LEMMA SameRecord ==
  ASSUME TypeOK, Local, Recorded, CountBounded,
         ownerMap' = ownerMap,
         \A u \in Thread : /\ Kept(u)' = Kept(u)
                           /\ \A i \in 1..Kept(u) : LockOf(u, i)' = LockOf(u, i)
                           /\ ownerCount'[u] \in Int /\ ownerCount[u] \in Int
                           /\ ownerCount'[u] <= ownerCount[u]
  PROVE  Recorded' /\ CountBounded'
<1>1. Recorded'
  BY DEF Recorded
<1>2. ASSUME NEW u \in Thread, NEW i \in 1..Kept(u), IsFirst(u, i)'
      PROVE  ownerCount'[u] <= Kept(u) - i + 1
  <2>1. Kept(u) \in Nat
    BY KeptIs
  <2>2. IsFirst(u, i)
    BY <1>2, <2>1 DEF IsFirst
  <2>3. ownerCount[u] <= Kept(u) - i + 1
    BY <2>2 DEF CountBounded
  <2> QED BY <2>1, <2>3
<1>3. CountBounded'
  BY <1>2 DEF CountBounded
<1> QED BY <1>1, <1>3

LEMMA RecordedNext ==
  ASSUME TypeOK, Local, Recorded, CountBounded, ~terminated, Next
  PROVE  Recorded' /\ CountBounded'
<1>1. PICK t \in Thread :
        (\E l \in Lock, mode \in Mode : BeforeLock(t, l, mode)) \/ Step(t)
  BY DEF Next
<1>2. /\ ownerCount \in [Thread -> Nat] /\ ownerMap \in [Lock -> Thread \cup {Nobody}]
      /\ held \in [Thread -> Seq(Guard)] /\ pc \in [Thread -> Pc]
  BY DEF TypeOK
<1>3. \A u \in Thread : Kept(u) \in Nat /\ Kept(u) <= Len(held[u]) /\ Len(held[u]) \in Nat
  BY KeptIs
<1>4. CASE \E l \in Lock, mode \in Mode : BeforeLock(t, l, mode)
  <2>1. /\ pc[t] = "run" /\ UNCHANGED <<ownerCount, ownerMap, held>>
        /\ pc' = pc \/ pc' = [pc EXCEPT ![t] = "lock"]
    BY <1>4 DEF BeforeLock, Goto
  <2>2. \A u \in Thread : Kept(u)' = Kept(u) /\ \A i : LockOf(u, i)' = LockOf(u, i)
    BY <1>2, <2>1 DEF Kept, LockOf
  <2>3. \A u \in Thread : ownerCount'[u] \in Int /\ ownerCount[u] \in Int /\ ownerCount'[u] <= ownerCount[u]
    BY <1>2, <2>1
  <2> QED BY <2>1, <2>2, <2>3, SameRecord
<1>5. CASE Acquire(t)
  <2>1. PICK g \in Guard : g = goal[t]
    BY <1>5 DEF Acquire, Local
  <2>2. /\ pc[t] = "lock" /\ held' = [held EXCEPT ![t] = Append(@, g)]
        /\ pc' = [pc EXCEPT ![t] = "after"] /\ UNCHANGED <<ownerCount, ownerMap>>
    BY <1>5, <2>1 DEF Acquire, Goto
  <2>3. /\ held'[t] = Append(held[t], g) /\ pc'[t] = "after"
        /\ \A u \in Thread \ {t} : held'[u] = held[u] /\ pc'[u] = pc[u]
    BY <1>2, <2>2
  <2>4. /\ Len(held'[t]) = Len(held[t]) + 1
        /\ \A i \in 1..Len(held[t]) : held'[t][i] = held[t][i]
    BY <1>2, <2>3, OneMore
  <2>5. Kept(t) = Len(held[t]) /\ Kept(t)' = Len(held[t])
    BY <1>3, <2>2, <2>3, <2>4 DEF Kept
  <2>6. \A i \in 1..Kept(t) : LockOf(t, i)' = LockOf(t, i)
    BY <2>4, <2>5 DEF LockOf
  <2>7. \A u \in Thread \ {t} : Kept(u)' = Kept(u) /\ \A i : LockOf(u, i)' = LockOf(u, i)
    BY <2>3 DEF Kept, LockOf
  <2>8. \A u \in Thread : ownerCount'[u] \in Int /\ ownerCount[u] \in Int /\ ownerCount'[u] <= ownerCount[u]
    BY <1>2, <2>2
  <2>9. \A u \in Thread : Kept(u)' = Kept(u) /\ \A i \in 1..Kept(u) : LockOf(u, i)' = LockOf(u, i)
    BY <2>5, <2>6, <2>7
  <2> QED BY <2>2, <2>8, <2>9, SameRecord
<1>6. CASE AfterLock(t)
  <2>1. PICK k \in Nat : k = Kept(t)
    BY <1>3
  <2>2. PICK l \in Lock : l = goal[t].lock
    BY <1>6 DEF AfterLock, Local, Guard
  <2>3. /\ pc[t] = "after" /\ held' = held /\ pc' = [pc EXCEPT ![t] = "run"]
        /\ ownerMap' = [ownerMap EXCEPT ![l] = t]
        /\ ownerCount' = [ownerCount EXCEPT ![t] = IF ownerMap[l] = t THEN @ + 1 ELSE 1]
    BY <1>6, <2>2 DEF AfterLock, Goto
  <2>4. /\ pc'[t] = "run" /\ \A u \in Thread \ {t} : pc'[u] = pc[u] /\ ownerCount'[u] = ownerCount[u]
    BY <1>2, <2>3
  <2>5. Len(held[t]) = k + 1 /\ LockOf(t, k + 1) = l
    <3>1. Len(held[t]) = k + 1
      BY <2>1, <2>3, KeptIs
    <3>2. held[t][Len(held[t])] = goal[t]
      BY <1>2, <2>3, OneLess DEF Local
    <3> QED BY <2>2, <3>1, <3>2 DEF LockOf
  <2>6. Kept(t)' = k + 1
    BY <2>3, <2>4, <2>5 DEF Kept
  <2>7. /\ \A u \in Thread \ {t} : Kept(u)' = Kept(u)
        /\ \A u \in Thread : \A i : LockOf(u, i)' = LockOf(u, i)
    BY <2>3, <2>4 DEF Kept, LockOf
  <2>8. ASSUME NEW u \in Thread, NEW m \in Lock, ownerMap'[m] = u
        PROVE  (\E i \in 1..Kept(u) : LockOf(u, i) = m)'
    <3>1. CASE m = l
      <4>1. u = t /\ k + 1 \in 1..(k + 1)
        BY <1>2, <2>3, <2>8, <3>1
      <4>2. \E i \in 1..(k + 1) : LockOf(t, i) = m
        BY <2>5, <3>1, <4>1
      <4> QED BY <2>6, <2>7, <4>1, <4>2
    <3>2. CASE m # l
      <4>1. ownerMap[m] = u
        BY <1>2, <2>3, <2>8, <3>2
      <4>2. PICK i \in 1..Kept(u) : LockOf(u, i) = m
        BY <4>1 DEF Recorded
      <4>3. i \in 1..Kept(u)'
        BY <1>3, <2>1, <2>6, <2>7
      <4>4. LockOf(u, i)' = m
        BY <2>7, <4>2
      <4> QED BY <4>3, <4>4
    <3> QED BY <3>1, <3>2
  <2>9. ASSUME NEW i \in 1..(k + 1), IsFirst(t, i)'
        PROVE  ownerCount'[t] <= (k + 1) - i + 1
    <3>1. \A j \in 1..(k + 1) : j < i => LockOf(t, j) # LockOf(t, i)
      BY <2>6, <2>7, <2>9 DEF IsFirst
    <3>2. PICK c \in Nat : c = ownerCount[t]
      BY <1>2
    <3>3. ownerCount'[t] = IF ownerMap[l] = t THEN c + 1 ELSE 1
      BY <1>2, <2>3, <3>2
    <3>4. CASE ownerMap[l] = t /\ i <= k
      <4>1. i \in 1..Kept(t) /\ IsFirst(t, i)
        BY <2>1, <3>1, <3>4 DEF IsFirst
      <4>2. c <= k - i + 1
        BY <2>1, <3>2, <4>1 DEF CountBounded
      <4> QED BY <3>3, <3>4, <4>2
    <3>5. CASE ownerMap[l] = t /\ i = k + 1
      <4>1. PICK j \in 1..k : LockOf(t, j) = l
        BY <2>1, <3>5 DEF Recorded
      <4>2. j \in 1..(k + 1) /\ j < i
        BY <3>5
      <4> QED BY <2>5, <3>1, <3>5, <4>1, <4>2
    <3>6. CASE ownerMap[l] # t
      BY <3>3, <3>6
    <3>7. i <= k \/ i = k + 1
      OBVIOUS
    <3> QED BY <3>4, <3>5, <3>6, <3>7
  <2>10. ASSUME NEW u \in Thread \ {t}, NEW i \in 1..Kept(u), IsFirst(u, i)'
         PROVE  ownerCount'[u] <= Kept(u) - i + 1
    <3>1. IsFirst(u, i)
      BY <2>7, <2>10 DEF IsFirst
    <3> QED BY <2>4, <3>1 DEF CountBounded
  <2>11. Recorded'
    BY <2>8 DEF Recorded
  <2>12. CountBounded'
    <3> SUFFICES ASSUME NEW u \in Thread, NEW i \in 1..Kept(u)', IsFirst(u, i)'
                 PROVE  ownerCount'[u] <= Kept(u)' - i + 1
      BY DEF CountBounded
    <3>1. CASE u = t
      BY <2>6, <2>9, <3>1
    <3>2. CASE u # t
      BY <2>7, <2>10, <3>2
    <3> QED BY <3>1, <3>2
  <2> QED BY <2>11, <2>12
<1>7. CASE BeforeUnlock(t)
  <2>1. PICK n \in Nat \ {0} : n = Len(held[t])
    BY <1>2, <1>7, OneLess DEF BeforeUnlock
  <2>2. /\ pc[t] = "run" /\ held' = held /\ Kept(t) = n /\ Last(held[t]) \in Guard
        /\ Last(held[t]).lock = LockOf(t, n)
    BY <1>2, <1>7, <2>1, OneLess DEF BeforeUnlock, Kept, LockOf
  <2>3. PICK l \in Lock : l = Last(held[t]).lock
    BY <2>2 DEF Guard
  <2>4. PICK c \in Nat : c = ownerCount[t]
    BY <1>2
  <2>5. \A u \in Thread : \A i : LockOf(u, i)' = LockOf(u, i)
    BY <2>2 DEF LockOf
  <2>6. CASE UNCHANGED <<ownerMap, pc>> /\ (ownerCount' = ownerCount \/ ownerCount' = [ownerCount EXCEPT ![t] = c - 1])
    <3>1. \A u \in Thread : Kept(u)' = Kept(u)
      BY <2>2, <2>6 DEF Kept
    <3>2. \A u \in Thread : ownerCount'[u] \in Int /\ ownerCount[u] \in Int /\ ownerCount'[u] <= ownerCount[u]
      <4>1. ownerCount'[t] = c \/ ownerCount'[t] = c - 1
        BY <1>2, <2>4, <2>6
      <4>2. \A u \in Thread \ {t} : ownerCount'[u] = ownerCount[u]
        BY <1>2, <2>6
      <4>3. c \in Int /\ c - 1 \in Int /\ c <= c /\ c - 1 <= c
        OBVIOUS
      <4>4. /\ ownerCount'[t] \in Int /\ ownerCount[t] \in Int
            /\ ownerCount'[t] <= ownerCount[t]
        BY <2>4, <4>1, <4>3
      <4>5. \A u \in Thread : ownerCount[u] \in Int /\ ownerCount[u] <= ownerCount[u]
        BY <1>2
      <4> QED BY <4>2, <4>4, <4>5
    <3> QED BY <2>5, <2>6, <3>1, <3>2, SameRecord
  <2>7. CASE /\ ownerCount' = [ownerCount EXCEPT ![t] = c - 1] /\ c - 1 >= 0
             /\ ownerMap' = [ownerMap EXCEPT ![l] = IF c - 1 = 0 THEN Nobody ELSE @]
             /\ pc' = [pc EXCEPT ![t] = "unlock"]
    <3>1. /\ pc'[t] = "unlock" /\ ownerCount'[t] = c - 1
          /\ \A u \in Thread \ {t} : pc'[u] = pc[u] /\ ownerCount'[u] = ownerCount[u]
      BY <1>2, <2>7
    <3>2. Kept(t)' = n - 1 /\ \A u \in Thread \ {t} : Kept(u)' = Kept(u)
      BY <2>1, <2>2, <3>1 DEF Kept
    <3>3. ASSUME NEW u \in Thread, NEW m \in Lock, ownerMap'[m] = u
          PROVE  (\E i \in 1..Kept(u) : LockOf(u, i) = m)'
      <4>1. ownerMap[m] = u /\ (m = l => c - 1 # 0)
        BY <1>2, <2>7, <3>3, NobodyAssumption
      <4>2. PICK i \in 1..Kept(u) : LockOf(u, i) = m
        BY <4>1 DEF Recorded
      <4>3. CASE u # t
        BY <2>5, <3>2, <4>2, <4>3
      <4>4. CASE u = t /\ i # n
        <5>1. i \in 1..Kept(t)' /\ LockOf(t, i)' = m
          BY <2>2, <2>5, <3>2, <4>2, <4>4
        <5> QED BY <4>4, <5>1
      <4>5. CASE u = t /\ i = n
        <5>1. m = l
          BY <2>2, <2>3, <4>2, <4>5
        <5>2. ~ IsFirst(t, n)
          <6>1. IsFirst(t, n) => c <= n - n + 1
            BY <2>2, <2>4 DEF CountBounded
          <6> QED BY <2>7, <4>1, <5>1, <6>1
        <5>3. PICK j \in 1..n : j < n /\ LockOf(t, j) = LockOf(t, n)
          BY <2>2, <5>2 DEF IsFirst
        <5>4. j \in 1..Kept(t)' /\ LockOf(t, j)' = m
          BY <2>5, <3>2, <4>2, <4>5, <5>3
        <5> QED BY <4>5, <5>4
      <4> QED BY <4>3, <4>4, <4>5
    <3>4. ASSUME NEW i \in 1..(n - 1), IsFirst(t, i)'
          PROVE  ownerCount'[t] <= (n - 1) - i + 1
      <4>1. \A j \in 1..(n - 1) : j < i => LockOf(t, j) # LockOf(t, i)
        BY <2>5, <3>2, <3>4 DEF IsFirst
      <4>2. \A j \in 1..n : j < i => LockOf(t, j) # LockOf(t, i)
        BY <4>1
      <4>3. i \in 1..Kept(t) /\ IsFirst(t, i)
        BY <2>2, <4>2 DEF IsFirst
      <4>4. c <= n - i + 1
        BY <2>2, <2>4, <4>3 DEF CountBounded
      <4> QED BY <3>1, <4>4
    <3>5. ASSUME NEW u \in Thread \ {t}, NEW i \in 1..Kept(u), IsFirst(u, i)'
          PROVE  ownerCount'[u] <= Kept(u) - i + 1
      <4>1. IsFirst(u, i)
        BY <2>5, <3>2, <3>5 DEF IsFirst
      <4> QED BY <3>1, <4>1 DEF CountBounded
    <3>6. Recorded'
      BY <3>3 DEF Recorded
    <3>7. CountBounded'
      <4> SUFFICES ASSUME NEW u \in Thread, NEW i \in 1..Kept(u)', IsFirst(u, i)'
                   PROVE  ownerCount'[u] <= Kept(u)' - i + 1
        BY DEF CountBounded
      <4>1. CASE u = t
        BY <3>2, <3>4, <4>1
      <4>2. CASE u # t
        BY <3>2, <3>5, <4>2
      <4> QED BY <4>1, <4>2
    <3> QED BY <3>6, <3>7
  <2>8. ~ (c - 1 < 0) => c - 1 >= 0
    OBVIOUS
  <2> QED BY <1>7, <2>3, <2>4, <2>6, <2>7, <2>8 DEF BeforeUnlock, Goto
<1>8. CASE Unlock(t)
  <2>1. /\ pc[t] = "unlock" /\ held[t] # <<>> /\ held' = [held EXCEPT ![t] = Front(@)]
        /\ pc' = [pc EXCEPT ![t] = "run"] /\ UNCHANGED <<ownerCount, ownerMap>>
    BY <1>8 DEF Unlock, Goto, Local
  <2>2. /\ held'[t] = Front(held[t]) /\ pc'[t] = "run"
        /\ \A u \in Thread \ {t} : held'[u] = held[u] /\ pc'[u] = pc[u]
    BY <1>2, <2>1
  <2>3. /\ Len(held'[t]) = Len(held[t]) - 1
        /\ \A i \in 1..(Len(held[t]) - 1) : held'[t][i] = held[t][i]
    BY <1>2, <2>1, <2>2, OneLess
  <2>4. Kept(t) = Len(held[t]) - 1 /\ Kept(t)' = Len(held[t]) - 1
    BY <2>1, <2>2, <2>3 DEF Kept
  <2>5. \A i \in 1..Kept(t) : LockOf(t, i)' = LockOf(t, i)
    BY <2>3, <2>4 DEF LockOf
  <2>6. \A u \in Thread \ {t} : Kept(u)' = Kept(u) /\ \A i : LockOf(u, i)' = LockOf(u, i)
    BY <2>2 DEF Kept, LockOf
  <2>7. \A u \in Thread : ownerCount'[u] \in Int /\ ownerCount[u] \in Int /\ ownerCount'[u] <= ownerCount[u]
    BY <1>2, <2>1
  <2>8. \A u \in Thread : Kept(u)' = Kept(u) /\ \A i \in 1..Kept(u) : LockOf(u, i)' = LockOf(u, i)
    BY <2>4, <2>5, <2>6
  <2> QED BY <2>1, <2>7, <2>8, SameRecord
<1> QED BY <1>1, <1>4, <1>5, <1>6, <1>7, <1>8 DEF Step

-----------------------------------------------------------------------------
(* The invariant                                                           *)

LEMMA InitInv == Init => IInv
<1> SUFFICES ASSUME Init
             PROVE  IInv
  OBVIOUS
<1>1. TypeOK /\ Local
  BY LocalInit
<1>2. Noted /\ NoCircle
  BY DEF Init, Noted, NoCircle, Circle
<1>3. \A t \in Thread : Kept(t) = 0 /\ \A l : Holds(t, l) = {}
  <2> SUFFICES ASSUME NEW t \in Thread
               PROVE  Kept(t) = 0 /\ \A l : Holds(t, l) = {}
    OBVIOUS
  <2>1. held[t] = <<>> /\ pc[t] = "run"
    BY DEF Init
  <2>2. Len(held[t]) = 0 /\ Kept(t) = 0
    BY <2>1 DEF Kept
  <2>3. \A l : Holds(t, l) = {}
    BY <1>1, <2>2, HoldsIs
  <2> QED BY <2>2, <2>3
<1>4. Recorded /\ CountBounded /\ Shared
  BY <1>3, NobodyAssumption DEF Init, Recorded, CountBounded, Shared
<1> QED BY <1>1, <1>2, <1>4 DEF IInv

LEMMA NextInv == IInv /\ [Next]_vars => IInv'
<1> SUFFICES ASSUME IInv, [Next]_vars
             PROVE  IInv'
  OBVIOUS
<1>1. CASE Next
  <2>1. ~terminated
    BY <1>1 DEF Next
  <2> QED BY <1>1, <2>1, LocalNext, NotedNext, NoCircleNext, SharedNext, RecordedNext DEF IInv
<1>2. CASE UNCHANGED vars
  <2>1. /\ UNCHANGED <<ownerCount, waitMap, ownerMap, held>>
        /\ UNCHANGED <<goal, pc, unwinding, terminated>>
    BY <1>2 DEF vars
  <2>2. TypeOK' /\ Local'
    BY <2>1 DEF IInv, TypeOK, Local
  <2>3. Noted' /\ NoCircle'
    BY <2>1 DEF IInv, Noted, NoCircle, Circle
  <2>4. Recorded' /\ CountBounded'
    BY <2>1 DEF IInv, Recorded, CountBounded, Kept, LockOf, IsFirst
  <2>5. Shared'
    BY <2>1 DEF IInv, Shared, Holds
  <2> QED BY <2>2, <2>3, <2>4, <2>5 DEF IInv
<1> QED BY <1>1, <1>2

\* The maps, the counts and the guards are what Lock.cpp and DeadLockDetector.cpp
\* make them, whatever the threads do (DeadLockDetector.cpp:3-64): only "Invalid
\* unlock", after which nothing runs, leaves a count below 0.
THEOREM TypeCorrect == Spec => []TypeOK
<1>1. IInv => TypeOK
  BY DEF IInv
<1> QED BY InitInv, NextInv, <1>1, PTL DEF Spec

-----------------------------------------------------------------------------
(* No deadlock is missed                                                   *)

LEMMA SomebodyHolds ==
  ASSUME NEW t \in Thread, Blocked(t)
  PROVE  \E u \in Thread \ {t} : Holds(u, goal[t].lock) # {}
BY DEF Blocked, Grants

\* A deadlock on record would be a circle of waits.
LEMMA DeadlockIsCircle ==
  ASSUME IInv, NEW S \in SUBSET Thread, Deadlocked(S), \A t \in S : OnRecord(t)
  PROVE  Circle(S)
<1> SUFFICES ASSUME NEW t \in S
             PROVE  pc[t] = "lock" /\ ownerMap[goal[t].lock] \in S \ {t}
  BY DEF Circle
<1>1. pc[t] = "lock" /\ Blocked(t) /\ Holders(t) \subseteq S
  BY DEF Deadlocked, Blocked
<1>2. PICK u \in Thread \ {t} : Holds(u, goal[t].lock) # {}
  BY <1>1, SomebodyHolds
<1>3. u \in S
  BY <1>1, <1>2 DEF Holders
<1>4. PICK g \in ToSet(held[u]) : g.lock = goal[t].lock
  BY <1>2 DEF Holds
<1>5. ownerMap[goal[t].lock] = u
  BY <1>3, <1>4 DEF OnRecord
<1> QED BY <1>1, <1>2, <1>3, <1>5

\* The search of BeforeLock (DeadLockDetector.cpp:10-23, 66-91) finds every deadlock
\* whose owners are on record, for any number of threads and locks and any nesting:
\* none of them ever comes about, because the thread that would complete it throws.
THEOREM NoDeadlockMissed == Spec => []NoMissedOnRecord
<1>1. IInv => NoMissedOnRecord
  <2> SUFFICES ASSUME IInv, NEW S \in SUBSET Thread, Deadlocked(S), \A t \in S : OnRecord(t)
               PROVE  FALSE
    BY DEF NoMissedOnRecord
  <2>1. Circle(S)
    BY DeadlockIsCircle
  <2>2. S # {}
    BY DEF Deadlocked
  <2> QED BY <2>1, <2>2 DEF IInv, NoCircle
<1> QED BY InitInv, NextInv, <1>1, PTL DEF Spec

-----------------------------------------------------------------------------
(* An alarm is a deadlock                                                  *)

LEMMA OwnerHolds ==
  ASSUME IInv, NEW t \in Thread, NEW l \in Lock, ownerMap[l] = t
  PROVE  /\ Holds(t, l) # {}
         /\ WritesOnly => "w" \in Holds(t, l)
<1>1. PICK i \in 1..Kept(t) : LockOf(t, i) = l
  BY DEF IInv, Recorded
<1>2. i \in 1..Len(held[t]) /\ held[t][i].lock = l
  BY <1>1, KeptIs DEF IInv, LockOf
<1>3. held[t][i].mode \in Holds(t, l)
  BY <1>2, HoldsIs DEF IInv
<1>4. held[t][i] \in ToSet(held[t])
  <2>1. DOMAIN held[t] = 1..Len(held[t])
    BY HoldsIs DEF IInv
  <2> QED BY <1>2, <2>1 DEF ToSet
<1>5. WritesOnly => held[t][i].mode = "w"
  BY <1>4 DEF WritesOnly
<1> QED BY <1>3, <1>5

\* Who is in _wait_map for the lock of another owner is blocked, by that owner alone.
LEMMA WaitIsReal ==
  ASSUME IInv, unwinding = {}, WritesOnly,
         NEW u \in Thread, NEW x \in Thread \ {u}, NEW l \in waitMap[u], ownerMap[l] = x
  PROVE  WaitsFor(u) = {x}
<1>1. l \in Lock /\ pc[u] \in {"lock", "after"} /\ goal[u].lock = l
  BY DEF IInv, TypeOK, Noted
<1>2. "w" \in Holds(x, l)
  BY <1>1, OwnerHolds
<1>3. \A v \in Thread \ {x} : Holds(v, l) = {}
  BY <1>1, <1>2 DEF IInv, Shared
<1>4. pc[u] = "lock"
  <2> SUFFICES ASSUME pc[u] = "after"
               PROVE  FALSE
    BY <1>1
  <2>1. held[u] # <<>> /\ Last(held[u]) = goal[u] /\ held[u] \in Seq(Guard)
    BY HoldsIs DEF IInv, Local
  <2>2. Len(held[u]) \in 1..Len(held[u]) /\ held[u][Len(held[u])].lock = l
    BY <1>1, <2>1, OneLess
  <2>3. held[u][Len(held[u])].mode \in Holds(u, l)
    BY <2>2, HoldsIs DEF IInv
  <2> QED BY <1>3, <2>3
<1>5. ~ Grants(u)
  BY <1>1, <1>2 DEF Grants
<1>6. Holders(u) = {x}
  BY <1>1, <1>2, <1>3 DEF Holders
<1> QED BY <1>4, <1>5, <1>6 DEF WaitsFor, Blocked

\* What the search reaches: every thread in it but one, the tip it has come to, waits
\* for one other thread in it.
Chain(X) ==
  \E e \in X : \A u \in X \ {e} : \E x \in X \ {u} : OwnersWaitedFor({u}) = {x}
Chains == {X \in SUBSET Thread : Chain(X)}

LEMMA ChainGrows ==
  ASSUME IInv, unwinding = {}, NEW X \in Chains
  PROVE  X \cup OwnersWaitedFor(X) \in Chains
<1>1. X \in SUBSET Thread /\ Owned
  BY DEF Chains, Owned, IInv, TypeOK
<1>2. PICK e \in X : \A u \in X \ {e} : \E x \in X \ {u} : OwnersWaitedFor({u}) = {x}
  BY DEF Chains, Chain
<1>3. OwnersWaitedFor(X) \subseteq X \cup OwnersWaitedFor({e})
  <2> SUFFICES ASSUME NEW y \in OwnersWaitedFor(X)
               PROVE  y \in X \cup OwnersWaitedFor({e})
    OBVIOUS
  <2>1. PICK u \in X : \E l \in waitMap[u] : ownerMap[l] = y /\ y # Nobody
    BY <1>1, OwnersAreThreads
  <2>2. y \in OwnersWaitedFor({u})
    BY <2>1 DEF OwnersWaitedFor
  <2> QED BY <1>2, <2>2
<1>4. OwnersWaitedFor({e}) \subseteq OwnersWaitedFor(X)
  BY DEF OwnersWaitedFor
<1>5. \A y, z \in OwnersWaitedFor({e}) : y = z
  <2>1. \A l, m \in waitMap[e] : l = m
    BY <1>1 DEF IInv, Noted
  <2> QED BY <2>1 DEF OwnersWaitedFor
<1>6. OwnersWaitedFor(X) \subseteq Thread
  BY <1>1, OwnersAreThreads
<1>7. CASE OwnersWaitedFor({e}) \subseteq X
  <2>1. X \cup OwnersWaitedFor(X) = X
    BY <1>3, <1>7
  <2> QED BY <2>1
<1>8. CASE ~ (OwnersWaitedFor({e}) \subseteq X)
  <2>1. PICK y : y \in OwnersWaitedFor({e}) /\ y \notin X
    BY <1>8
  <2>2. OwnersWaitedFor({e}) = {y}
    BY <1>5, <2>1
  <2> DEFINE Y == X \cup {y}
  <2>3. X \cup OwnersWaitedFor(X) = Y
    BY <1>3, <1>4, <2>2
  <2>4. Y \in SUBSET Thread
    BY <1>1, <1>6, <2>3
  <2>5. \A u \in Y \ {y} : \E x \in Y \ {u} : OwnersWaitedFor({u}) = {x}
    <3> SUFFICES ASSUME NEW u \in X
                 PROVE  \E x \in Y \ {u} : OwnersWaitedFor({u}) = {x}
      OBVIOUS
    <3>1. CASE u = e
      BY <2>1, <2>2, <3>1
    <3>2. CASE u # e
      BY <1>2, <3>2
    <3> QED BY <3>1, <3>2
  <2>6. y \in Y
    OBVIOUS
  <2>7. Chain(Y)
    BY <2>5, <2>6 DEF Chain
  <2> QED BY <2>3, <2>4, <2>7 DEF Chains
<1> QED BY <1>7, <1>8

LEMMA AlarmClosesCircle ==
  ASSUME IInv, unwinding = {}, WritesOnly,
         NEW t \in Thread, NEW l \in Lock, pc[t] = "run",
         ownerMap[l] \notin {Nobody, t}, CheckCycle(t, ownerMap[l])
  PROVE  ClosesCircle(t, l)
<1>1. Owned
  BY DEF Owned, IInv, TypeOK
<1>2. PICK o \in Thread \ {t} : o = ownerMap[l]
  BY <1>1 DEF Owned
<1>3. waitMap[t] = {}
  BY DEF IInv, Noted
<1>4. {o} \in Chains
  <2>1. \A u \in {o} \ {o} : \E x \in {o} \ {u} : OwnersWaitedFor({u}) = {x}
    OBVIOUS
  <2> QED BY <2>1 DEF Chains, Chain
<1>5. \A X \in SUBSET Thread : X \in Chains => X \cup OwnersWaitedFor(X) \in Chains
  BY ChainGrows
<1>6. PICK R \in SUBSET Thread : /\ R \in Chains /\ o \in R /\ OwnersWaitedFor(R) \subseteq R
                                 /\ t \in OwnersWaitedFor(R)
  BY <1>1, <1>2, <1>4, <1>5, ReachRule
<1>7. OwnersWaitedFor({t}) = {}
  BY <1>3 DEF OwnersWaitedFor
<1>8. \A u \in R \ {t} : \E x \in R \ {u} : OwnersWaitedFor({u}) = {x}
  <2>1. PICK e \in R : \A u \in R \ {e} : \E x \in R \ {u} : OwnersWaitedFor({u}) = {x}
    BY <1>6 DEF Chains, Chain
  <2>2. t \in R
    BY <1>6
  <2>3. e = t
    <3> SUFFICES ASSUME t # e
                 PROVE  FALSE
      OBVIOUS
    <3>1. PICK x : OwnersWaitedFor({t}) = {x}
      BY <2>1, <2>2
    <3> QED BY <1>7, <3>1
  <2> QED BY <2>1, <2>3
<1> DEFINE S == R \ {t}
<1>9. ASSUME NEW u \in S
      PROVE  \E x \in R \ {u} : WaitsFor(u) = {x} /\ OwnersWaitedFor({u}) = {x}
  <2>1. PICK x \in R \ {u} : OwnersWaitedFor({u}) = {x}
    BY <1>8
  <2>2. PICK m \in waitMap[u] : ownerMap[m] = x
    BY <2>1 DEF OwnersWaitedFor
  <2>3. WaitsFor(u) = {x}
    BY <2>2, WaitIsReal
  <2> QED BY <2>1, <2>3
<1>10. \E u \in S : Holds(u, l) # {}
  <2>1. Holds(o, l) # {}
    BY <1>2, OwnerHolds
  <2> QED BY <1>2, <1>6, <2>1
<1>11. \A u \in S : WaitsFor(u) # {} /\ WaitsFor(u) \subseteq S \cup {t}
  <2> SUFFICES ASSUME NEW u \in S
               PROVE  WaitsFor(u) # {} /\ WaitsFor(u) \subseteq S \cup {t}
    OBVIOUS
  <2>1. PICK x \in R : WaitsFor(u) = {x}
    BY <1>9
  <2> QED BY <2>1
<1>12. \E u \in S : t \in WaitsFor(u)
  <2>1. PICK u \in R : \E m \in waitMap[u] : ownerMap[m] = t /\ t # Nobody
    BY <1>1, <1>6, OwnersAreThreads
  <2>2. u \in S /\ t \in OwnersWaitedFor({u})
    BY <1>3, <2>1 DEF OwnersWaitedFor
  <2> QED BY <1>9, <2>2
<1>13. S \in SUBSET (Thread \ {t})
  OBVIOUS
<1> HIDE DEF S
<1> QED BY <1>10, <1>11, <1>12, <1>13 DEF ClosesCircle

\* While only write guards are in play, the first "Deadlock detected" is thrown only
\* when the new request would complete a real deadlock (DeadLockDetector.cpp:10-23, 66-91):
\* what the two maps say agrees with the locks themselves all along the search.
THEOREM AlarmsAreDeadlocks == Spec => AlarmIsDeadlock
<1> DEFINE Alarm == unwinding = {} /\ WritesOnly =>
                      \A t \in unwinding' : \E l \in waitMap'[t] : ClosesCircle(t, l)
<1>1. IInv /\ [Next]_vars => [Alarm]_vars
  <2> SUFFICES ASSUME IInv, Next, unwinding = {}, WritesOnly, NEW t \in unwinding'
               PROVE  \E l \in waitMap'[t] : ClosesCircle(t, l)
    OBVIOUS
  <2>1. PICK u \in Thread, l \in Lock, mode \in Mode : BeforeLock(u, l, mode)
    BY DEF Next, Step, Acquire, AfterLock, BeforeUnlock, Unlock
  <2>2. /\ pc[u] = "run" /\ unwinding' = unwinding \cup {u}
        /\ waitMap' = [waitMap EXCEPT ![u] = @ \cup {l}]
        /\ ownerMap[l] \notin {Nobody, u} /\ CheckCycle(u, ownerMap[l])
    BY <2>1 DEF BeforeLock
  <2>3. t = u
    BY <2>2
  <2>4. ClosesCircle(u, l)
    BY <2>2, AlarmClosesCircle
  <2>5. l \in waitMap'[u]
    BY <2>2 DEF IInv, TypeOK
  <2> QED BY <2>3, <2>4, <2>5
<1> QED BY InitInv, NextInv, <1>1, PTL DEF Spec, AlarmIsDeadlock

=============================================================================
