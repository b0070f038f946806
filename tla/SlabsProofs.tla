----------------------------- MODULE SlabsProofs -----------------------------
(***************************************************************************)
(* The slabs, for any number of threads, slabs and blocks.                 *)
(*                                                                         *)
(* That an address is not given out while somebody uses it is not visible  *)
(* where it is given out: Acquire takes a payload off a list.  The list    *)
(* was filled when its slab arrived, all blocks at once, and the slab came *)
(* from the pool or was new.  So the invariant follows a block through the *)
(* life of its slab: a block is on one list, or with a user, or about to   *)
(* be counted, and never two of them (OnePlace); freed_count is what is    *)
(* left of the slab when those blocks are taken off (Counted), hence a     *)
(* slab whose count is full has none of them when it goes to the pool; a   *)
(* slab is with one thread, in the pool, or not made yet (OneHome, Made).  *)
(***************************************************************************)
EXTENDS Slabs, SequenceTheorems, FiniteSetTheorems, TLAPS

IsFree(t, b) == b \in ToSet(free[t])
Counting(t, b) == pc[t] = "count" /\ arg[t] = b

\* A block that its slab has not got back.
Out(b) == users[b] = 1 \/ \E t \in Thread : IsFree(t, b) \/ Counting(t, b)
OutOf(s) == {i \in Index : Out(<<s, i>>)}

OnePlace ==
  /\ \A b \in Block, t \in Thread : users[b] = 1 => ~IsFree(t, b) /\ ~Counting(t, b)
  /\ \A b \in Block, t, u \in Thread : IsFree(t, b) => ~Counting(u, b)
  /\ \A b \in Block, t, u \in Thread : Counting(t, b) /\ Counting(u, b) => t = u
  /\ \A b \in Block, t, u \in Thread : IsFree(t, b) /\ IsFree(u, b) => t = u
  /\ \A t \in Thread : IsInjective(free[t])

Counted ==
  \A s \in Slab :
    /\ s \in Owned => freed[s] + Cardinality(OutOf(s)) = Blocks
    /\ s \notin Owned => OutOf(s) = {}

OneHome ==
  /\ \A t \in Thread : IsInjective(infos[t])
  /\ \A t, u \in Thread, s \in Slab : s \in ToSet(infos[t]) /\ s \in ToSet(infos[u]) => t = u
  /\ IsInjective(pool)
  /\ \A s \in Slab : s \in ToSet(pool) => s \notin Owned

\* The slabs are made one after the other.
Made == \E n \in 0..MaxSlabs : Owned \cup ToSet(pool) = 1..n

\* A release knows its block, and its slab if it is the thread's own.
Releases ==
  \A t \in Thread :
    /\ pc[t] \in {"count", "index"} =>
         /\ arg[t] \in Block
         /\ foreign[t] \/ SlabOf(arg[t]) \in ToSet(infos[t])
    /\ pc[t] = "scan" => scan[t] > 0

IInv == TypeOK /\ OnePlace /\ Counted /\ OneHome /\ Made /\ Releases

-----------------------------------------------------------------------------
(* Lists                                                                   *)

LEMMA LastOut ==
  ASSUME NEW S, NEW q \in Seq(S), q # <<>>
  PROVE  /\ Front(q) \in Seq(S)
         /\ Last(q) \in S /\ Last(q) \in ToSet(q)
         /\ IsInjective(q) => /\ IsInjective(Front(q))
                              /\ \A e : e \in ToSet(Front(q)) <=> e \in ToSet(q) /\ e # Last(q)
<1>1. Len(q) \in Nat \ {0} /\ DOMAIN q = 1..Len(q)
  BY EmptySeq, LenProperties
<1>2. /\ Front(q) \in Seq(S)
      /\ DOMAIN Front(q) = 1..(Len(q) - 1)
      /\ \A i \in 1..(Len(q) - 1) : Front(q)[i] = q[i]
  BY <1>1 DEF Front
<1>3. Last(q) = q[Len(q)] /\ Last(q) \in S /\ Last(q) \in ToSet(q)
  BY <1>1 DEF Last, ToSet
<1>4. ASSUME IsInjective(q)
      PROVE  /\ IsInjective(Front(q))
             /\ \A e : e \in ToSet(Front(q)) <=> e \in ToSet(q) /\ e # Last(q)
  <2>1. IsInjective(Front(q))
    BY <1>1, <1>2, <1>4 DEF IsInjective
  <2>2. ASSUME NEW e, e \in ToSet(Front(q))
        PROVE  e \in ToSet(q) /\ e # Last(q)
    BY <1>1, <1>2, <1>3, <1>4, <2>2 DEF IsInjective, ToSet
  <2>3. ASSUME NEW e, e \in ToSet(q), e # Last(q)
        PROVE  e \in ToSet(Front(q))
    <3>1. PICK i \in 1..Len(q) : e = q[i]
      BY <1>1, <2>3 DEF ToSet
    <3>2. i \in 1..(Len(q) - 1)
      BY <1>1, <1>3, <2>3, <3>1
    <3> QED BY <1>2, <3>1, <3>2 DEF ToSet
  <2> QED BY <2>1, <2>2, <2>3
<1> QED BY <1>2, <1>3, <1>4

LEMMA NewLast ==
  ASSUME NEW S, NEW q \in Seq(S), NEW e \in S
  PROVE  /\ Append(q, e) \in Seq(S)
         /\ \A f : f \in ToSet(Append(q, e)) <=> f \in ToSet(q) \/ f = e
         /\ IsInjective(q) /\ e \notin ToSet(q) => IsInjective(Append(q, e))
<1> DEFINE a == Append(q, e)
<1>1. /\ a \in Seq(S) /\ Len(q) \in Nat /\ DOMAIN q = 1..Len(q)
      /\ DOMAIN a = 1..(Len(q) + 1)
      /\ \A i \in 1..Len(q) : a[i] = q[i]
      /\ a[Len(q) + 1] = e
  BY AppendProperties, LenProperties
<1> HIDE DEF a
<1>2. ASSUME NEW f
      PROVE  f \in ToSet(a) <=> f \in ToSet(q) \/ f = e
  <2>1. f \in ToSet(a) => f \in ToSet(q) \/ f = e
    BY <1>1 DEF ToSet
  <2>2. f \in ToSet(q) \/ f = e => f \in ToSet(a)
    BY <1>1 DEF ToSet
  <2> QED BY <2>1, <2>2
<1>3. IsInjective(q) /\ e \notin ToSet(q) => IsInjective(a)
  BY <1>1 DEF IsInjective, ToSet
<1> QED BY <1>1, <1>2, <1>3 DEF a

\* What DrainSlab leaves: the last one takes the place of the k-th.
LEMMA SwapOut ==
  ASSUME NEW S, NEW q \in Seq(S), IsInjective(q), NEW k \in 1..Len(q),
         NEW r, r = Front([q EXCEPT ![k] = Last(q)])
  PROVE  /\ r \in Seq(S) /\ IsInjective(r)
         /\ \A e : e \in ToSet(r) <=> e \in ToSet(q) /\ e # q[k]
<1> DEFINE n == Len(q)
           p == [q EXCEPT ![k] = Last(q)]
<1>1. n \in Nat \ {0} /\ DOMAIN q = 1..n
  BY LenProperties
<1>2. /\ p \in Seq(S) /\ Len(p) = n
      /\ \A i \in 1..n : p[i] = IF i = k THEN q[n] ELSE q[i]
  <2>1. Last(q) = q[n] /\ q[n] \in S
    BY <1>1 DEF Last
  <2> QED BY <1>1, <2>1, ExceptSeq
<1> HIDE DEF p, n
<1>3. /\ r \in Seq(S)
      /\ DOMAIN r = 1..(n - 1)
      /\ \A i \in 1..(n - 1) : r[i] = IF i = k THEN q[n] ELSE q[i]
  <2>1. r = Front(p)
    BY DEF p
  <2> QED BY <1>1, <1>2, <2>1 DEF Front
<1>4. k \in 1..n
  BY DEF n
<1>5. IsInjective(r)
  <2>1. \A i, j \in 1..n : q[i] = q[j] => i = j
    BY <1>1 DEF IsInjective
  <2>2. ASSUME NEW i \in 1..(n - 1), NEW j \in 1..(n - 1), r[i] = r[j]
        PROVE  i = j
    <3>1. i \in 1..n /\ j \in 1..n /\ n \in 1..n /\ i # n /\ j # n
      BY <1>1
    <3>2. (IF i = k THEN q[n] ELSE q[i]) = (IF j = k THEN q[n] ELSE q[j])
      BY <1>3, <2>2
    <3> QED BY <2>1, <3>1, <3>2
  <2> QED BY <1>3, <2>2 DEF IsInjective
<1>6. ASSUME NEW e, e \in ToSet(r)
      PROVE  e \in ToSet(q) /\ e # q[k]
  <2>1. PICK i \in 1..(n - 1) : e = IF i = k THEN q[n] ELSE q[i]
    BY <1>3, <1>6 DEF ToSet
  <2>2. PICK j \in 1..n : j # k /\ e = q[j]
    BY <1>1, <1>4, <2>1
  <2> QED BY <1>1, <1>4, <2>2 DEF IsInjective, ToSet
<1>7. ASSUME NEW e, e \in ToSet(q), e # q[k]
      PROVE  e \in ToSet(r)
  <2>1. PICK i \in 1..n : e = q[i]
    BY <1>1, <1>7 DEF ToSet
  <2>2. CASE i = n
    <3>1. k # n
      BY <1>7, <2>1, <2>2
    <3>2. k \in 1..(n - 1)
      BY <1>1, <1>4, <3>1
    <3>3. r[k] = e
      BY <1>3, <2>1, <2>2, <3>2
    <3> QED BY <1>3, <3>2, <3>3 DEF ToSet
  <2>3. CASE i # n
    <3>1. i \in 1..(n - 1) /\ i # k
      BY <1>1, <1>7, <2>1, <2>3
    <3>2. r[i] = e
      BY <1>3, <2>1, <3>1
    <3> QED BY <1>3, <3>1, <3>2 DEF ToSet
  <2> QED BY <2>2, <2>3
<1> QED BY <1>3, <1>5, <1>6, <1>7

LEMMA EmptyList ==
  /\ ToSet(<<>>) = {} /\ IsInjective(<<>>)
  /\ \A S : <<>> \in Seq(S)
BY DEF ToSet, IsInjective

\* Fetch puts a header on each block of the slab.
LEMMA AllPayloads ==
  ASSUME NEW s \in Slab
  PROVE  /\ Payloads(s) \in Seq(Block)
         /\ IsInjective(Payloads(s))
         /\ \A b : b \in ToSet(Payloads(s)) <=> b \in Block /\ SlabOf(b) = s
<1>1. Payloads(s) \in [1..Blocks -> Block] /\ \A i \in Index : Payloads(s)[i] = <<s, i>>
  BY DEF Payloads, Block, Index
<1>2. Payloads(s) \in Seq(Block)
  BY <1>1, BlocksAssumption, SeqDef
<1>3. IsInjective(Payloads(s))
  BY <1>1 DEF IsInjective, Index
<1>4. \A b : b \in ToSet(Payloads(s)) <=> b \in Block /\ SlabOf(b) = s
  BY <1>1 DEF ToSet, Index, Block, SlabOf
<1> QED BY <1>2, <1>3, <1>4

-----------------------------------------------------------------------------
(* What a step does                                                        *)

LEMMA WhoOwns ==
  ASSUME NEW s
  PROVE  s \in Owned <=> \E t \in Thread : s \in ToSet(infos[t])
BY DEF Owned

LEMMA SlabsAreSlabs ==
  ASSUME TypeOK
  PROVE  Owned \subseteq Slab /\ ToSet(pool) \subseteq Slab
         /\ \A t \in Thread : ToSet(infos[t]) \subseteq Slab
<1>1. \A q \in Seq(Slab) : ToSet(q) \subseteq Slab
  BY LenProperties DEF ToSet
<1> QED BY <1>1 DEF TypeOK, Owned

LEMMA OutFinite ==
  ASSUME NEW s
  PROVE  /\ IsFiniteSet(OutOf(s)) /\ Cardinality(OutOf(s)) \in 0..Blocks
         /\ Cardinality(OutOf(s)) = 0 <=> OutOf(s) = {}
<1>1. OutOf(s) \subseteq Index /\ IsFiniteSet(Index) /\ Cardinality(Index) = Blocks
  BY BlocksAssumption, FS_Interval DEF OutOf, Index
<1>2. IsFiniteSet(OutOf(s)) /\ Cardinality(OutOf(s)) <= Cardinality(Index)
  BY <1>1, FS_Subset
<1>3. Cardinality(OutOf(s)) \in Nat
  BY <1>2, FS_CardinalityType
<1>4. Cardinality(OutOf(s)) = 0 <=> OutOf(s) = {}
  BY <1>2, FS_EmptySet
<1> QED BY <1>1, <1>2, <1>3, <1>4

\* A slab that arrives belongs to nobody, and all that is known of it is new.
LEMMA Fetched ==
  ASSUME TypeOK, OneHome, Made, NEW t \in Thread, Fetch(t)
  PROVE  \E s \in Slab :
           /\ s \notin Owned
           /\ pool' \in Seq(Slab) /\ IsInjective(pool')
           /\ \A r \in Slab : r \in ToSet(pool') <=> r \in ToSet(pool) /\ r # s
           /\ s \in ToSet(pool) \/ (ToSet(pool) = {} /\ Owned = 1..(s - 1))
           /\ infos' = [infos EXCEPT ![t] = Append(@, s)]
           /\ freed' = [freed EXCEPT ![s] = 0]
           /\ free' = [free EXCEPT ![t] = Payloads(s)]
<1>1. PICK s \in Slab :
        /\ Popped(s)
        /\ infos' = [infos EXCEPT ![t] = Append(@, s)]
        /\ freed' = [freed EXCEPT ![s] = 0]
        /\ free' = [free EXCEPT ![t] = Payloads(s)]
  BY DEF Fetch
<1>2. CASE pool = <<>>
  <2>1. pool' = pool /\ s = Cardinality(Owned) + 1 /\ ToSet(pool) = {}
    BY <1>1, <1>2, EmptyList DEF Popped
  <2>2. PICK n \in 0..MaxSlabs : Owned = 1..n
    BY <2>1 DEF Made
  <2>3. Cardinality(Owned) = n
    BY <2>2, FS_Interval
  <2>4. s = n + 1
    BY <2>1, <2>3
  <2>5. s \notin Owned /\ Owned = 1..(s - 1)
    BY <2>2, <2>4
  <2> QED BY <1>1, <2>1, <2>5 DEF TypeOK, OneHome
<1>3. CASE pool # <<>>
  <2>1. pool' = Front(pool) /\ s = Last(pool)
    BY <1>1, <1>3 DEF Popped
  <2>2. pool \in Seq(Slab) /\ IsInjective(pool)
    BY DEF TypeOK, OneHome
  <2>3. /\ pool' \in Seq(Slab) /\ IsInjective(pool')
        /\ s \in ToSet(pool)
        /\ \A r \in Slab : r \in ToSet(pool') <=> r \in ToSet(pool) /\ r # s
    BY <1>3, <2>1, <2>2, LastOut
  <2>4. s \notin Owned
    BY <2>3 DEF OneHome
  <2> QED BY <1>1, <2>3, <2>4
<1> QED BY <1>2, <1>3

\* A slab that goes is full, and leaves its thread for the pool.
LEMMA Drained ==
  ASSUME TypeOK, OneHome, Releases, NEW t \in Thread, DrainSlab(t)
  PROVE  \E s \in Slab :
           /\ s \in ToSet(infos[t]) /\ s \in Owned /\ s \notin ToSet(pool)
           /\ freed[s] = Blocks
           /\ pool' = Append(pool, s)
           /\ \E r \in Seq(Slab) :
                /\ infos' = [infos EXCEPT ![t] = r]
                /\ IsInjective(r)
                /\ \A e : e \in ToSet(r) <=> e \in ToSet(infos[t]) /\ e # s
<1> DEFINE q == infos[t]
           k == scan[t]
           r == Front([q EXCEPT ![k] = Last(q)])
           s == q[k]
<1>1. q \in Seq(Slab) /\ IsInjective(q) /\ k \in Nat /\ k > 0 /\ k <= Len(q)
  BY DEF TypeOK, OneHome, Releases, DrainSlab, Scanning, At
<1>2. pool' = Append(pool, s) /\ infos' = [infos EXCEPT ![t] = r] /\ freed[s] = Blocks
  BY DEF DrainSlab, Full
<1>3. k \in 1..Len(q)
  BY <1>1, LenProperties
<1>4. s \in Slab /\ s \in ToSet(q)
  BY <1>1, <1>3, LenProperties DEF ToSet
<1>5. s \in Owned /\ s \notin ToSet(pool)
  BY <1>4, WhoOwns DEF OneHome
<1>6. r \in Seq(Slab) /\ IsInjective(r) /\ \A e : e \in ToSet(r) <=> e \in ToSet(q) /\ e # s
  BY <1>1, <1>3, SwapOut
<1> HIDE DEF r
<1> QED BY <1>2, <1>4, <1>5, <1>6

\* The payload that Acquire gives out is in nobody's use.
LEMMA Acquired ==
  ASSUME TypeOK, OnePlace, NEW t \in Thread, Acquire(t)
  PROVE  \E b \in Block :
           /\ IsFree(t, b) /\ users[b] = 0
           /\ users' = [users EXCEPT ![b] = 1]
           /\ \E q \in Seq(Block) :
                /\ free' = [free EXCEPT ![t] = q]
                /\ IsInjective(q)
                /\ \A e : e \in ToSet(q) <=> e \in ToSet(free[t]) /\ e # b
<1> DEFINE l == free[t]
<1>1. l \in Seq(Block) /\ l # <<>> /\ IsInjective(l)
  BY DEF TypeOK, OnePlace, Acquire
<1>2. /\ Front(l) \in Seq(Block) /\ IsInjective(Front(l))
      /\ Last(l) \in Block /\ Last(l) \in ToSet(l)
      /\ \A e : e \in ToSet(Front(l)) <=> e \in ToSet(l) /\ e # Last(l)
  BY <1>1, LastOut
<1>3. users[Last(l)] # 1 /\ users[Last(l)] \in 0..1
  BY <1>2 DEF OnePlace, IsFree, TypeOK
<1>4. /\ users' = [users EXCEPT ![Last(l)] = @ + 1]
      /\ free' = [free EXCEPT ![t] = Front(l)]
  BY DEF Acquire
<1>5. PICK b \in Block : b = Last(l)
  BY <1>2
<1>6. users[b] = 0
  BY <1>3, <1>5
<1>7. users' = [users EXCEPT ![b] = 1]
  BY <1>4, <1>5, <1>6
<1> QED BY <1>2, <1>4, <1>5, <1>6, <1>7 DEF IsFree

\* A block that is about to be counted keeps its slab with its thread.
LEMMA CountedSlab ==
  ASSUME IInv, NEW t \in Thread, pc[t] = "count"
  PROVE  LET b == arg[t]
             s == SlabOf(b)
         IN /\ b \in Block /\ s \in Slab /\ s \in Owned
            /\ b[2] \in OutOf(s) /\ b = <<s, b[2]>>
            /\ freed[s] \in Nat /\ freed[s] < Blocks
            /\ freed[s] + Cardinality(OutOf(s)) = Blocks
<1> DEFINE b == arg[t]
           s == SlabOf(b)
<1>1. b \in Block /\ Counting(t, b)
  BY DEF IInv, Releases, Counting
<1>2. s \in Slab /\ b[2] \in Index /\ b = <<s, b[2]>>
  BY <1>1 DEF Block, SlabOf
<1> HIDE DEF b, s
<1>3. b[2] \in OutOf(s)
  BY <1>1, <1>2 DEF Out, OutOf
<1>4. s \in Owned /\ freed[s] + Cardinality(OutOf(s)) = Blocks
  BY <1>2, <1>3 DEF IInv, Counted
<1>5. freed[s] \in Nat
  BY <1>2 DEF IInv, TypeOK
<1>6. Cardinality(OutOf(s)) \in Nat \ {0}
  BY <1>3, OutFinite
<1>7. freed[s] < Blocks
  BY <1>4, <1>5, <1>6
<1> QED BY <1>1, <1>2, <1>3, <1>4, <1>5, <1>7 DEF b, s

-----------------------------------------------------------------------------
(* The invariant, part by part                                             *)

LEMMA NextTypes ==
  ASSUME IInv, [Next]_vars
  PROVE  TypeOK'
<1> USE DEF TypeOK
<1>1. ASSUME NEW t \in Thread, Fetch(t)
      PROVE  TypeOK'
  <2>1. PICK s \in Slab : /\ pool' \in Seq(Slab)
                          /\ infos' = [infos EXCEPT ![t] = Append(@, s)]
                          /\ freed' = [freed EXCEPT ![s] = 0]
                          /\ free' = [free EXCEPT ![t] = Payloads(s)]
    BY <1>1, Fetched DEF IInv
  <2>2. Append(infos[t], s) \in Seq(Slab) /\ Payloads(s) \in Seq(Block)
    BY AllPayloads, NewLast DEF IInv
  <2>3. UNCHANGED <<users, pc, arg, scan, foreign, crashed>>
    BY <1>1 DEF Fetch
  <2>4. freed' \in [Slab -> 0..Blocks]
    BY <2>1, BlocksAssumption DEF IInv
  <2> QED BY <2>1, <2>2, <2>3, <2>4 DEF IInv
<1>2. ASSUME NEW t \in Thread, Acquire(t)
      PROVE  TypeOK'
  <2>1. PICK b \in Block, q \in Seq(Block) :
          users' = [users EXCEPT ![b] = 1] /\ free' = [free EXCEPT ![t] = q]
    BY <1>2, Acquired DEF IInv
  <2>2. UNCHANGED <<pool, infos, freed, pc, arg, scan, foreign, crashed>>
    BY <1>2 DEF Acquire
  <2>3. users' \in [Block -> 0..1] /\ free' \in [Thread -> Seq(Block)]
    BY <2>1 DEF IInv
  <2> QED BY <2>2, <2>3 DEF IInv
<1>3. ASSUME NEW t \in Thread, NEW b \in Block, Release(t, b)
      PROVE  TypeOK'
  <2>1. users[b] = 1
    BY <1>3 DEF Release, IInv
  <2>2. users' = [users EXCEPT ![b] = 0]
    BY <1>3, <2>1 DEF Release
  <2>3. users' \in [Block -> 0..1]
    BY <2>2 DEF IInv
  <2> QED BY <1>3, <2>3 DEF Release, Goto, IInv
<1>4. ASSUME NEW t \in Thread, CountFreed(t)
      PROVE  TypeOK'
  <2>1. pc[t] = "count" /\ freed' = [freed EXCEPT ![SlabOf(arg[t])] = @ + 1]
    BY <1>4 DEF CountFreed, At
  <2>2. PICK s \in Slab : s = SlabOf(arg[t]) /\ freed[s] \in Nat /\ freed[s] < Blocks
    BY <2>1, CountedSlab
  <2>3. freed[s] + 1 \in 0..Blocks
    BY <2>2, BlocksAssumption
  <2>4. freed' = [freed EXCEPT ![s] = freed[s] + 1]
    BY <2>1, <2>2
  <2>5. freed' \in [Slab -> 0..Blocks]
    BY <2>3, <2>4 DEF IInv
  <2> QED BY <1>4, <2>5 DEF CountFreed, Goto, IInv
<1>5. ASSUME NEW t \in Thread, ReadSize(t) \/ ReadDeletedSize(t)
      PROVE  TypeOK'
  <2>1. /\ UNCHANGED <<pool, infos, free, freed, users>>
        /\ \/ StartScan(t)
           \/ SkipScan(t)
           \/ crashed' = TRUE /\ UNCHANGED <<scan, arg, pc, foreign>>
    BY <1>5 DEF ReadSize, ReadDeletedSize
  <2>2. CASE StartScan(t)
    BY <2>1, <2>2 DEF StartScan, EndRead, Goto, IInv
  <2>3. CASE SkipScan(t)
    BY <2>1, <2>3 DEF SkipScan, EndRead, Goto, IInv
  <2>4. CASE crashed' = TRUE /\ UNCHANGED <<scan, arg, pc, foreign>>
    BY <2>1, <2>4 DEF IInv
  <2> QED BY <2>1, <2>2, <2>3, <2>4
<1>6. ASSUME NEW t \in Thread, DrainSlab(t)
      PROVE  TypeOK'
  <2>1. PICK s \in Slab, r \in Seq(Slab) :
          pool' = Append(pool, s) /\ infos' = [infos EXCEPT ![t] = r]
    BY <1>6, Drained DEF IInv
  <2>2. pool' \in Seq(Slab)
    BY <2>1, NewLast DEF IInv
  <2> QED BY <1>6, <2>1, <2>2 DEF DrainSlab, IInv
<1>7. ASSUME NEW t \in Thread, SkipSlab(t) \/ EndScan(t)
      PROVE  TypeOK'
  <2>1. CASE SkipSlab(t)
    BY <2>1 DEF SkipSlab, Scanning, At, IInv
  <2>2. CASE EndScan(t)
    BY <2>2 DEF EndScan, Goto, IInv
  <2> QED BY <1>7, <2>1, <2>2
<1>8. CASE UNCHANGED vars
  BY <1>8 DEF vars, IInv
<1> QED BY <1>1, <1>2, <1>3, <1>4, <1>5, <1>6, <1>7, <1>8 DEF Next, ReleaseStep

LEMMA NextReleases ==
  ASSUME IInv, [Next]_vars
  PROVE  Releases'
<1> USE DEF Releases, IInv, TypeOK
<1>1. ASSUME NEW t \in Thread, Fetch(t)
      PROVE  Releases'
  <2>1. PICK s \in Slab : infos' = [infos EXCEPT ![t] = Append(@, s)]
    BY <1>1 DEF Fetch
  <2>2. \A u \in Thread : ToSet(infos[u]) \subseteq ToSet(infos'[u])
    BY <2>1, NewLast
  <2> QED BY <1>1, <2>2 DEF Fetch
<1>2. ASSUME NEW t \in Thread, Acquire(t)
      PROVE  Releases'
  BY <1>2 DEF Acquire
<1>3. ASSUME NEW t \in Thread, NEW b \in Block, Release(t, b)
      PROVE  Releases'
  BY <1>3 DEF Release, Goto
<1>4. ASSUME NEW t \in Thread, CountFreed(t)
      PROVE  Releases'
  BY <1>4 DEF CountFreed, Goto, At
<1>5. ASSUME NEW t \in Thread, ReadSize(t) \/ ReadDeletedSize(t)
      PROVE  Releases'
  <2>1. /\ UNCHANGED infos
        /\ \/ StartScan(t)
           \/ SkipScan(t)
           \/ UNCHANGED <<scan, arg, pc, foreign>>
    BY <1>5 DEF ReadSize, ReadDeletedSize
  <2>2. CASE StartScan(t)
    BY <2>1, <2>2 DEF StartScan, EndRead, Goto
  <2>3. CASE SkipScan(t)
    BY <2>1, <2>3 DEF SkipScan, EndRead, Goto
  <2>4. CASE UNCHANGED <<scan, arg, pc, foreign>>
    BY <2>1, <2>4
  <2> QED BY <2>1, <2>2, <2>3, <2>4
<1>6. ASSUME NEW t \in Thread, DrainSlab(t)
      PROVE  Releases'
  <2>1. /\ pc[t] = "scan"
        /\ UNCHANGED <<pc, arg, scan, foreign>>
        /\ \A u \in Thread : u # t => infos'[u] = infos[u]
    BY <1>6 DEF DrainSlab, Scanning, At
  <2> QED BY <2>1
<1>7. ASSUME NEW t \in Thread, SkipSlab(t) \/ EndScan(t)
      PROVE  Releases'
  <2>1. CASE SkipSlab(t)
    BY <2>1 DEF SkipSlab, Scanning, At
  <2>2. CASE EndScan(t)
    BY <2>2 DEF EndScan, Goto
  <2> QED BY <1>7, <2>1, <2>2
<1>8. CASE UNCHANGED vars
  BY <1>8 DEF vars
<1> QED BY <1>1, <1>2, <1>3, <1>4, <1>5, <1>6, <1>7, <1>8 DEF Next, ReleaseStep

\* The homes change when a slab comes and when it goes.
LEMMA NextHome ==
  ASSUME IInv, [Next]_vars
  PROVE  OneHome' /\ Made'
<1>1. ASSUME NEW t \in Thread, Fetch(t)
      PROVE  OneHome' /\ Made'
  <2>1. PICK s \in Slab :
           /\ s \notin Owned
           /\ pool' \in Seq(Slab) /\ IsInjective(pool')
           /\ \A r \in Slab : r \in ToSet(pool') <=> r \in ToSet(pool) /\ r # s
           /\ s \in ToSet(pool) \/ (ToSet(pool) = {} /\ Owned = 1..(s - 1))
           /\ infos' = [infos EXCEPT ![t] = Append(@, s)]
    BY <1>1, Fetched DEF IInv
  <2>2. /\ IsInjective(infos'[t])
        /\ \A r : r \in ToSet(infos'[t]) <=> r \in ToSet(infos[t]) \/ r = s
        /\ \A u \in Thread : u # t => infos'[u] = infos[u]
    <3>1. infos[t] \in Seq(Slab) /\ IsInjective(infos[t]) /\ s \notin ToSet(infos[t])
      BY <2>1, WhoOwns DEF IInv, TypeOK, OneHome
    <3>2. infos'[t] = Append(infos[t], s)
      BY <2>1 DEF IInv, TypeOK
    <3>3. \A u \in Thread : u # t => infos'[u] = infos[u]
      BY <2>1 DEF IInv, TypeOK
    <3> QED BY <3>1, <3>2, <3>3, NewLast
  <2>3. ASSUME NEW r
        PROVE  r \in Owned' <=> r \in Owned \/ r = s
    BY <2>2 DEF Owned
  <2>4. \A u \in Thread : IsInjective(infos'[u])
    BY <2>2 DEF IInv, OneHome
  <2>5. ASSUME NEW u \in Thread, NEW v \in Thread, NEW r \in Slab,
               r \in ToSet(infos'[u]), r \in ToSet(infos'[v])
        PROVE  u = v
    <3>1. \A x \in Thread : s \notin ToSet(infos[x])
      BY <2>1, WhoOwns
    <3> QED BY <2>2, <2>5, <3>1 DEF IInv, OneHome
  <2>6. \A r \in Slab : r \in ToSet(pool') => r \notin Owned'
    BY <2>1, <2>3 DEF IInv, OneHome
  <2>7. OneHome'
    BY <2>1, <2>4, <2>5, <2>6 DEF OneHome
  <2>8. ToSet(pool') \subseteq Slab /\ ToSet(pool) \subseteq Slab
    BY <2>1, LenProperties DEF ToSet, IInv, TypeOK
  <2>9. CASE s \in ToSet(pool)
    <3>1. ASSUME NEW r
          PROVE  r \in Owned' \/ r \in ToSet(pool') <=> r \in Owned \/ r \in ToSet(pool)
      BY <2>1, <2>3, <2>8, <2>9
    <3>2. (Owned \cup ToSet(pool))' = Owned \cup ToSet(pool)
      BY <3>1
    <3> QED BY <2>7, <3>2 DEF IInv, Made
  <2>10. CASE ToSet(pool) = {} /\ Owned = 1..(s - 1)
    <3>1. ASSUME NEW r
          PROVE  r \in Owned' \/ r \in ToSet(pool') <=> r \in 1..s
      <4>1. r \in Owned' \/ r \in ToSet(pool') <=> r \in 1..(s - 1) \/ r = s
        BY <2>1, <2>3, <2>8, <2>10
      <4> QED BY <4>1, MaxSlabsAssumption DEF Slab
    <3>2. (Owned \cup ToSet(pool))' = 1..s
      BY <3>1
    <3>3. s \in 0..MaxSlabs
      BY MaxSlabsAssumption DEF Slab
    <3> QED BY <2>7, <3>2, <3>3 DEF Made
  <2> QED BY <2>1, <2>9, <2>10
<1>2. ASSUME NEW t \in Thread, DrainSlab(t)
      PROVE  OneHome' /\ Made'
  <2>1. PICK s \in Slab, q \in Seq(Slab) :
           /\ s \in ToSet(infos[t]) /\ s \in Owned /\ s \notin ToSet(pool)
           /\ pool' = Append(pool, s)
           /\ infos' = [infos EXCEPT ![t] = q]
           /\ IsInjective(q)
           /\ \A e : e \in ToSet(q) <=> e \in ToSet(infos[t]) /\ e # s
    BY <1>2, Drained DEF IInv
  <2>2. /\ infos'[t] = q
        /\ \A u \in Thread : u # t => infos'[u] = infos[u]
    BY <2>1 DEF IInv, TypeOK
  <2>3. /\ IsInjective(pool')
        /\ \A r : r \in ToSet(pool') <=> r \in ToSet(pool) \/ r = s
    BY <2>1, NewLast DEF IInv, TypeOK, OneHome
  <2>4. \A u \in Thread : s \in ToSet(infos[u]) => u = t
    BY <2>1 DEF IInv, OneHome
  <2>5. ASSUME NEW r
        PROVE  r \in Owned' <=> r \in Owned /\ r # s
    BY <2>1, <2>2, <2>4 DEF Owned
  <2>6. OneHome'
    <3>1. \A u \in Thread : IsInjective(infos'[u])
      BY <2>1, <2>2 DEF IInv, OneHome
    <3>2. \A u, v \in Thread, r \in Slab :
            r \in ToSet(infos'[u]) /\ r \in ToSet(infos'[v]) => u = v
      BY <2>1, <2>2 DEF IInv, OneHome
    <3>3. \A r \in Slab : r \in ToSet(pool') => r \notin Owned'
      BY <2>3, <2>5 DEF IInv, OneHome
    <3> QED BY <2>3, <3>1, <3>2, <3>3 DEF OneHome
  <2>7. ASSUME NEW r
        PROVE  r \in Owned' \/ r \in ToSet(pool') <=> r \in Owned \/ r \in ToSet(pool)
    BY <2>1, <2>3, <2>5
  <2>8. (Owned \cup ToSet(pool))' = Owned \cup ToSet(pool)
    BY <2>7
  <2> QED BY <2>6, <2>8 DEF IInv, Made
<1>3. ASSUME UNCHANGED <<infos, pool>>
      PROVE  OneHome' /\ Made'
  <2>1. Owned' = Owned
    BY <1>3 DEF Owned
  <2> QED BY <1>3, <2>1 DEF IInv, OneHome, Made
<1>4. \/ \E t \in Thread : Fetch(t) \/ DrainSlab(t)
      \/ UNCHANGED <<infos, pool>>
  BY DEF Next, ReleaseStep, Acquire, Release, CountFreed, ReadSize, ReadDeletedSize,
     SkipSlab, EndScan, vars
<1> QED BY <1>1, <1>2, <1>3, <1>4

\* A slab that belongs to nobody has all its blocks.
LEMMA NoneIsOut ==
  ASSUME Counted, NEW s \in Slab, s \notin Owned, NEW b \in Block, SlabOf(b) = s
  PROVE  ~Out(b)
<1>1. b[2] \in Index /\ b = <<s, b[2]>>
  BY DEF Block, SlabOf
<1> QED BY <1>1 DEF Counted, OutOf

\* Where the blocks are after a step; nothing else moves them.
LEMMA FetchMoves ==
  ASSUME IInv, NEW t \in Thread, Fetch(t)
  PROVE  \E s \in Slab :
           /\ s \notin Owned
           /\ freed' = [freed EXCEPT ![s] = 0]
           /\ \A r : r \in Owned' <=> r \in Owned \/ r = s
           /\ \A b \in Block : SlabOf(b) = s => ~Out(b)
           /\ \A u \in Thread, b \in Block :
                IsFree(u, b)' <=> IF u = t THEN SlabOf(b) = s ELSE IsFree(u, b)
           /\ \A b \in Block : ~IsFree(t, b)
           /\ \A u \in Thread : IsInjective(free'[u])
<1>1. PICK s \in Slab :
         /\ s \notin Owned
         /\ infos' = [infos EXCEPT ![t] = Append(@, s)]
         /\ freed' = [freed EXCEPT ![s] = 0]
         /\ free' = [free EXCEPT ![t] = Payloads(s)]
  BY Fetched DEF IInv
<1>2. /\ free'[t] = Payloads(s)
      /\ \A u \in Thread : u # t => free'[u] = free[u]
  BY <1>1 DEF IInv, TypeOK
<1>3. \A u \in Thread, b \in Block :
        IsFree(u, b)' <=> IF u = t THEN SlabOf(b) = s ELSE IsFree(u, b)
  BY <1>2, AllPayloads DEF IsFree
<1>4. \A u \in Thread : IsInjective(free'[u])
  BY <1>2, AllPayloads DEF IInv, OnePlace
<1>5. \A b \in Block : ~IsFree(t, b)
  BY EmptyList DEF Fetch, IsFree
<1>6. \A b \in Block : SlabOf(b) = s => ~Out(b)
  BY <1>1, NoneIsOut DEF IInv
<1>7. ASSUME NEW r
      PROVE  r \in Owned' <=> r \in Owned \/ r = s
  <2>1. /\ \A e : e \in ToSet(infos'[t]) <=> e \in ToSet(infos[t]) \/ e = s
        /\ \A u \in Thread : u # t => infos'[u] = infos[u]
    BY <1>1, NewLast DEF IInv, TypeOK
  <2> QED BY <2>1 DEF Owned
<1> QED BY <1>1, <1>3, <1>4, <1>5, <1>6, <1>7

LEMMA AcquireMoves ==
  ASSUME IInv, NEW t \in Thread, Acquire(t)
  PROVE  \E b \in Block :
           /\ IsFree(t, b) /\ users[b] = 0
           /\ \A c \in Block : users'[c] = IF c = b THEN 1 ELSE users[c]
           /\ \A u \in Thread, c \in Block :
                IsFree(u, c)' <=> IsFree(u, c) /\ ~(u = t /\ c = b)
           /\ \A u \in Thread : IsInjective(free'[u])
<1>1. PICK b \in Block, q \in Seq(Block) :
        /\ IsFree(t, b) /\ users[b] = 0
        /\ users' = [users EXCEPT ![b] = 1]
        /\ free' = [free EXCEPT ![t] = q]
        /\ IsInjective(q)
        /\ \A e : e \in ToSet(q) <=> e \in ToSet(free[t]) /\ e # b
  BY Acquired DEF IInv
<1>2. /\ free'[t] = q
      /\ \A u \in Thread : u # t => free'[u] = free[u]
  BY <1>1 DEF IInv, TypeOK
<1>3. \A u \in Thread, c \in Block : IsFree(u, c)' <=> IsFree(u, c) /\ ~(u = t /\ c = b)
  BY <1>1, <1>2 DEF IsFree
<1>4. \A u \in Thread : IsInjective(free'[u])
  BY <1>1, <1>2 DEF IInv, OnePlace
<1>5. \A c \in Block : users'[c] = IF c = b THEN 1 ELSE users[c]
  BY <1>1 DEF IInv, TypeOK
<1> QED BY <1>1, <1>3, <1>4, <1>5

LEMMA ReleaseMoves ==
  ASSUME TypeOK, NEW t \in Thread, NEW b \in Block, Release(t, b)
  PROVE  /\ users[b] = 1 /\ free' = free
         /\ \A c \in Block : users'[c] = IF c = b THEN 0 ELSE users[c]
         /\ \A u \in Thread, c \in Block :
              Counting(u, c)' <=> IF u = t THEN c = b ELSE Counting(u, c)
         /\ \A c \in Block : ~Counting(t, c)
<1>1. users[b] = 1
  BY DEF Release, TypeOK
<1>2. users' = [users EXCEPT ![b] = 0]
  BY <1>1 DEF Release
<1>3. \A c \in Block : users'[c] = IF c = b THEN 0 ELSE users[c]
  BY <1>2 DEF TypeOK
<1>4. \A u \in Thread, c \in Block :
        Counting(u, c)' <=> IF u = t THEN c = b ELSE Counting(u, c)
  BY DEF Release, Goto, Counting, TypeOK
<1>5. \A c \in Block : ~Counting(t, c)
  BY DEF Release, At, Counting
<1> QED BY <1>1, <1>3, <1>4, <1>5 DEF Release

LEMMA CountMoves ==
  ASSUME TypeOK, NEW t \in Thread, CountFreed(t)
  PROVE  /\ users' = users /\ free' = free
         /\ \A u \in Thread, c \in Block : Counting(u, c)' <=> Counting(u, c) /\ u # t
BY DEF CountFreed, Goto, Counting, TypeOK

\* The other steps move no block.
Still ==
  /\ users' = users /\ free' = free /\ freed' = freed
  /\ \A u \in Thread, c \in Block : Counting(u, c)' <=> Counting(u, c)

LEMMA OthersMoveNone ==
  ASSUME TypeOK, NEW t \in Thread,
         ReadSize(t) \/ ReadDeletedSize(t) \/ DrainSlab(t) \/ SkipSlab(t) \/ EndScan(t)
  PROVE  Still
<1> USE DEF Still, Counting, TypeOK
<1>1. CASE ReadSize(t) \/ ReadDeletedSize(t)
  <2>1. /\ pc[t] = "index" /\ UNCHANGED <<free, freed, users>>
        /\ \/ StartScan(t)
           \/ SkipScan(t)
           \/ UNCHANGED <<arg, pc>>
    BY <1>1 DEF ReadSize, ReadDeletedSize, At
  <2>2. CASE StartScan(t)
    BY <2>1, <2>2 DEF StartScan, EndRead, Goto
  <2>3. CASE SkipScan(t)
    BY <2>1, <2>3 DEF SkipScan, EndRead, Goto
  <2>4. CASE UNCHANGED <<arg, pc>>
    BY <2>1, <2>4
  <2> QED BY <2>1, <2>2, <2>3, <2>4
<1>2. CASE DrainSlab(t) \/ SkipSlab(t)
  BY <1>2 DEF DrainSlab, SkipSlab
<1>3. CASE EndScan(t)
  BY <1>3 DEF EndScan, Goto, At
<1> QED BY <1>1, <1>2, <1>3

LEMMA NextOnePlace ==
  ASSUME IInv, [Next]_vars
  PROVE  OnePlace'
<1> USE DEF OnePlace
<1>0. OnePlace
  BY DEF IInv
<1>1. ASSUME NEW t \in Thread, Fetch(t)
      PROVE  OnePlace'
  <2>1. PICK s \in Slab :
           /\ \A b \in Block : SlabOf(b) = s => ~Out(b)
           /\ \A u \in Thread, b \in Block :
                IsFree(u, b)' <=> IF u = t THEN SlabOf(b) = s ELSE IsFree(u, b)
           /\ \A u \in Thread : IsInjective(free'[u])
    BY <1>1, FetchMoves
  <2>2. /\ users' = users
        /\ \A u \in Thread, b \in Block : Counting(u, b)' <=> Counting(u, b)
    BY <1>1 DEF Fetch, Counting
  <2>3. \A b \in Block : SlabOf(b) = s =>
          users[b] # 1 /\ \A u \in Thread : ~IsFree(u, b) /\ ~Counting(u, b)
    BY <2>1 DEF Out
  <2> QED BY <1>0, <2>1, <2>2, <2>3
<1>2. ASSUME NEW t \in Thread, Acquire(t)
      PROVE  OnePlace'
  <2>1. PICK b \in Block :
           /\ IsFree(t, b)
           /\ \A c \in Block : users'[c] = IF c = b THEN 1 ELSE users[c]
           /\ \A u \in Thread, c \in Block :
                IsFree(u, c)' <=> IsFree(u, c) /\ ~(u = t /\ c = b)
           /\ \A u \in Thread : IsInjective(free'[u])
    BY <1>2, AcquireMoves
  <2>2. \A u \in Thread, c \in Block : Counting(u, c)' <=> Counting(u, c)
    BY <1>2 DEF Acquire, Counting
  <2> QED BY <1>0, <2>1, <2>2
<1>3. ASSUME NEW t \in Thread, NEW b \in Block, Release(t, b)
      PROVE  OnePlace'
  <2>1. /\ users[b] = 1 /\ free' = free
        /\ \A c \in Block : users'[c] = IF c = b THEN 0 ELSE users[c]
        /\ \A u \in Thread, c \in Block :
             Counting(u, c)' <=> IF u = t THEN c = b ELSE Counting(u, c)
    BY <1>3, ReleaseMoves DEF IInv
  <2>2. \A u \in Thread, c \in Block : IsFree(u, c)' <=> IsFree(u, c)
    BY <2>1 DEF IsFree
  <2> QED BY <1>0, <2>1, <2>2
<1>4. ASSUME NEW t \in Thread, CountFreed(t)
      PROVE  OnePlace'
  <2>1. /\ users' = users /\ free' = free
        /\ \A u \in Thread, c \in Block : Counting(u, c)' <=> Counting(u, c) /\ u # t
    BY <1>4, CountMoves DEF IInv
  <2>2. \A u \in Thread, c \in Block : IsFree(u, c)' <=> IsFree(u, c)
    BY <2>1 DEF IsFree
  <2> QED BY <1>0, <2>1, <2>2
<1>5. ASSUME Still
      PROVE  OnePlace'
  <2>1. \A u \in Thread, c \in Block : IsFree(u, c)' <=> IsFree(u, c)
    BY <1>5 DEF Still, IsFree
  <2> QED BY <1>0, <1>5, <2>1 DEF Still
<1>6. UNCHANGED vars => Still
  BY DEF vars, Still, Counting
<1> QED
  BY <1>1, <1>2, <1>3, <1>4, <1>5, <1>6, OthersMoveNone DEF Next, ReleaseStep, IInv

LEMMA NextCounted ==
  ASSUME IInv, [Next]_vars
  PROVE  Counted'
<1>0. Counted
  BY DEF IInv
<1>1. ASSUME NEW t \in Thread, Fetch(t)
      PROVE  Counted'
  <2>1. PICK s \in Slab :
           /\ freed' = [freed EXCEPT ![s] = 0]
           /\ \A r : r \in Owned' <=> r \in Owned \/ r = s
           /\ \A u \in Thread, b \in Block :
                IsFree(u, b)' <=> IF u = t THEN SlabOf(b) = s ELSE IsFree(u, b)
           /\ \A b \in Block : ~IsFree(t, b)
           /\ \A b \in Block : SlabOf(b) = s => ~Out(b)
    BY <1>1, FetchMoves
  <2>2. /\ users' = users
        /\ \A u \in Thread, b \in Block : Counting(u, b)' <=> Counting(u, b)
    BY <1>1 DEF Fetch, Counting
  <2>3. ASSUME NEW b \in Block
        PROVE  Out(b)' <=> Out(b) \/ SlabOf(b) = s
    BY <1>1, <2>1, <2>2 DEF Out
  <2>4. ASSUME NEW r \in Slab, r # s
        PROVE  OutOf(r)' = OutOf(r) /\ freed'[r] = freed[r]
    <3>1. \A i \in Index : <<r, i>> \in Block /\ SlabOf(<<r, i>>) # s
      BY <2>4 DEF Block, SlabOf
    <3>2. OutOf(r)' = OutOf(r)
      BY <2>3, <3>1 DEF OutOf
    <3>3. freed'[r] = freed[r]
      BY <2>1, <2>4 DEF IInv, TypeOK
    <3> QED BY <3>2, <3>3
  <2>5. OutOf(s)' = Index /\ freed'[s] = 0
    <3>1. \A i \in Index : <<s, i>> \in Block /\ SlabOf(<<s, i>>) = s
      BY DEF Block, SlabOf
    <3> QED BY <2>1, <2>3, <3>1 DEF OutOf, IInv, TypeOK
  <2>6. Cardinality(Index) = Blocks /\ 0 + Blocks = Blocks
    BY BlocksAssumption, FS_Interval DEF Index
  <2> QED BY <1>0, <2>1, <2>4, <2>5, <2>6 DEF Counted
<1>2. ASSUME NEW t \in Thread, CountFreed(t)
      PROVE  Counted'
  <2>1. PICK b \in Block, s \in Slab, i \in Index :
          /\ b = arg[t] /\ b = <<s, i>> /\ i \in OutOf(s) /\ s \in Owned
          /\ freed[s] \in Nat /\ freed[s] + Cardinality(OutOf(s)) = Blocks
    <3>1. pc[t] = "count"
      BY <1>2 DEF CountFreed, At
    <3> QED BY <3>1, CountedSlab DEF OutOf
  <2>2. pc[t] = "count" /\ freed' = [freed EXCEPT ![s] = freed[s] + 1] /\ infos' = infos
    BY <1>2, <2>1 DEF CountFreed, At, SlabOf
  <2>3. /\ users' = users /\ free' = free
        /\ \A u \in Thread, c \in Block : Counting(u, c)' <=> Counting(u, c) /\ u # t
    BY <1>2, CountMoves DEF IInv
  <2>4. ASSUME NEW c \in Block
        PROVE  Out(c)' <=> Out(c) /\ c # b
    <3>1. Counting(t, b) /\ \A d \in Block : Counting(t, d) => d = b
      BY <2>1, <2>2 DEF Counting
    <3>2. users[b] # 1 /\ \A u \in Thread : ~IsFree(u, b) /\ (Counting(u, b) => u = t)
      BY <3>1 DEF IInv, OnePlace
    <3> QED BY <2>3, <3>1, <3>2 DEF Out, IsFree
  <2>5. Owned' = Owned
    BY <2>2 DEF Owned
  <2>6. ASSUME NEW r \in Slab, r # s
        PROVE  OutOf(r)' = OutOf(r) /\ freed'[r] = freed[r]
    <3>1. \A j \in Index : <<r, j>> \in Block /\ <<r, j>> # b
      BY <2>1, <2>6 DEF Block
    <3>2. OutOf(r)' = OutOf(r)
      BY <2>4, <3>1 DEF OutOf
    <3>3. freed'[r] = freed[r]
      BY <2>2, <2>6 DEF IInv, TypeOK
    <3> QED BY <3>2, <3>3
  <2>7. OutOf(s)' = OutOf(s) \ {i}
    <3>1. \A j \in Index : <<s, j>> \in Block /\ (<<s, j>> # b <=> j # i)
      BY <2>1 DEF Block
    <3> QED BY <2>4, <3>1 DEF OutOf
  <2>8. Cardinality(OutOf(s)') = Cardinality(OutOf(s)) - 1
    BY <2>1, <2>7, OutFinite, FS_RemoveElement
  <2>9. freed'[s] = freed[s] + 1
    BY <2>2 DEF IInv, TypeOK
  <2>10. Cardinality(OutOf(s)) \in Nat
    BY OutFinite
  <2>11. freed'[s] + Cardinality(OutOf(s)') = Blocks
    BY <2>1, <2>8, <2>9, <2>10
  <2> QED BY <1>0, <2>1, <2>5, <2>6, <2>11 DEF Counted
<1>3. ASSUME \A b \in Block : Out(b)' <=> Out(b), freed' = freed,
             \/ Owned' = Owned
             \/ \E s \in Slab : freed[s] = Blocks /\ s \in Owned
                                /\ \A r : r \in Owned' <=> r \in Owned /\ r # s
      PROVE  Counted'
  <2>1. ASSUME NEW r \in Slab
        PROVE  OutOf(r)' = OutOf(r)
    <3>1. \A i \in Index : <<r, i>> \in Block
      BY DEF Block
    <3> QED BY <1>3, <3>1 DEF OutOf
  <2>2. CASE Owned' = Owned
    BY <1>0, <1>3, <2>1, <2>2 DEF Counted
  <2>3. ASSUME NEW s \in Slab, freed[s] = Blocks, s \in Owned,
               \A r : r \in Owned' <=> r \in Owned /\ r # s
        PROVE  Counted'
    <3>1. Blocks + Cardinality(OutOf(s)) = Blocks /\ Cardinality(OutOf(s)) \in 0..Blocks
      BY <1>0, <2>3, OutFinite DEF Counted
    <3>2. Cardinality(OutOf(s)) = 0
      BY <3>1, BlocksAssumption
    <3>3. OutOf(s) = {}
      BY <3>2, OutFinite
    <3> QED BY <1>0, <1>3, <2>1, <2>3, <3>3 DEF Counted
  <2> QED BY <1>3, <2>2, <2>3
<1>4. ASSUME NEW t \in Thread, Acquire(t)
      PROVE  Counted'
  <2>1. PICK b \in Block :
           /\ IsFree(t, b)
           /\ \A c \in Block : users'[c] = IF c = b THEN 1 ELSE users[c]
           /\ \A u \in Thread, c \in Block :
                IsFree(u, c)' <=> IsFree(u, c) /\ ~(u = t /\ c = b)
    BY <1>4, AcquireMoves
  <2>2. /\ \A u \in Thread, c \in Block : Counting(u, c)' <=> Counting(u, c)
        /\ freed' = freed /\ infos' = infos
    BY <1>4 DEF Acquire, Counting
  <2>3. \A c \in Block : Out(c)' <=> Out(c)
    BY <2>1, <2>2 DEF Out
  <2>4. Owned' = Owned
    BY <2>2 DEF Owned
  <2> QED BY <1>3, <2>2, <2>3, <2>4
<1>5. ASSUME NEW t \in Thread, NEW b \in Block, Release(t, b)
      PROVE  Counted'
  <2>1. /\ users[b] = 1 /\ free' = free
        /\ \A c \in Block : users'[c] = IF c = b THEN 0 ELSE users[c]
        /\ \A u \in Thread, c \in Block :
             Counting(u, c)' <=> IF u = t THEN c = b ELSE Counting(u, c)
        /\ \A c \in Block : ~Counting(t, c)
    BY <1>5, ReleaseMoves DEF IInv
  <2>2. freed' = freed /\ infos' = infos
    BY <1>5 DEF Release
  <2>3. \A c \in Block : Out(c)' <=> Out(c)
    BY <2>1 DEF Out, IsFree
  <2>4. Owned' = Owned
    BY <2>2 DEF Owned
  <2> QED BY <1>3, <2>2, <2>3, <2>4
<1>6. ASSUME Still
      PROVE  \A b \in Block : Out(b)' <=> Out(b)
  BY <1>6 DEF Still, Out, IsFree
<1>7. ASSUME NEW t \in Thread, DrainSlab(t)
      PROVE  Counted'
  <2>1. PICK s \in Slab, q \in Seq(Slab) :
           /\ s \in ToSet(infos[t]) /\ s \in Owned /\ freed[s] = Blocks
           /\ infos' = [infos EXCEPT ![t] = q]
           /\ \A e : e \in ToSet(q) <=> e \in ToSet(infos[t]) /\ e # s
    BY <1>7, Drained DEF IInv
  <2>2. /\ infos'[t] = q
        /\ \A u \in Thread : u # t => infos'[u] = infos[u] /\ s \notin ToSet(infos[u])
    BY <2>1 DEF IInv, TypeOK, OneHome
  <2>3. ASSUME NEW r
        PROVE  r \in Owned' <=> r \in Owned /\ r # s
    BY <2>1, <2>2 DEF Owned
  <2>4. Still
    BY <1>7, OthersMoveNone DEF IInv
  <2> QED BY <1>3, <1>6, <2>1, <2>3, <2>4 DEF Still
<1>8. ASSUME Still, UNCHANGED infos
      PROVE  Counted'
  <2>1. Owned' = Owned
    BY <1>8 DEF Owned
  <2> QED BY <1>3, <1>6, <1>8, <2>1 DEF Still
<1>9. ASSUME NEW t \in Thread, ReadSize(t) \/ ReadDeletedSize(t) \/ SkipSlab(t) \/ EndScan(t)
      PROVE  Counted'
  <2>1. UNCHANGED infos
    BY <1>9 DEF ReadSize, ReadDeletedSize, SkipSlab, EndScan
  <2> QED BY <1>8, <1>9, <2>1, OthersMoveNone DEF IInv
<1>10. CASE UNCHANGED vars
  BY <1>8, <1>10 DEF vars, Still, Counting
<1> QED
  BY <1>1, <1>2, <1>4, <1>5, <1>7, <1>9, <1>10 DEF Next, ReleaseStep

-----------------------------------------------------------------------------
(* The invariant                                                           *)

\* Each thread starts with a slab of its own, and no other slab is made.
LEMMA FirstSlabs ==
  /\ Cardinality(Thread) \in 0..MaxSlabs
  /\ FirstOf \in [Thread -> Slab]
  /\ \A t, u \in Thread : FirstOf[t] = FirstOf[u] => t = u
  /\ \A s : s \in 1..Cardinality(Thread) <=> \E t \in Thread : FirstOf[t] = s
<1> DEFINE n == Cardinality(Thread)
<1>1. n \in Nat /\ n <= MaxSlabs
  BY ThreadAssumption, MaxSlabsAssumption, FS_CardinalityType
<1>2. IsFiniteSet(1..n) /\ Cardinality(1..n) = n
  BY <1>1, FS_Interval
<1>3. ExistsBijection(Thread, 1..n)
  BY <1>2, ThreadAssumption, FS_SameCardinalityBij
<1>4. \E g \in [Thread -> 1..n] : IsInjective(g)
  BY <1>3 DEF ExistsBijection, Bijection, Injection
<1>5. FirstOf \in [Thread -> 1..n] /\ IsInjective(FirstOf)
  BY <1>4 DEF FirstOf
<1>6. FirstOf \in Surjection(Thread, 1..n)
  <2>1. FirstOf \in Injection(Thread, 1..n)
    BY <1>5 DEF Injection
  <2> QED BY <1>2, <2>1, FS_Injection
<1> HIDE DEF n
<1>7. \A t, u \in Thread : FirstOf[t] = FirstOf[u] => t = u
  BY <1>5 DEF IsInjective
<1>8. \A s : s \in 1..n <=> \E t \in Thread : FirstOf[t] = s
  BY <1>5, <1>6 DEF Surjection
<1>9. n \in 0..MaxSlabs /\ FirstOf \in [Thread -> Slab]
  BY <1>1, <1>5, MaxSlabsAssumption DEF Slab
<1> QED BY <1>7, <1>8, <1>9 DEF n

LEMMA InitInv ==
  ASSUME Init
  PROVE  IInv
<1> DEFINE n == Cardinality(Thread)
<1>1. /\ n \in 0..MaxSlabs
      /\ FirstOf \in [Thread -> Slab]
      /\ \A t, u \in Thread : FirstOf[t] = FirstOf[u] => t = u
      /\ \A s : s \in 1..n <=> \E t \in Thread : FirstOf[t] = s
  BY FirstSlabs
<1>2. \A t \in Thread : /\ Payloads(FirstOf[t]) \in Seq(Block)
                        /\ IsInjective(Payloads(FirstOf[t]))
                        /\ \A b \in Block : IsFree(t, b) <=> SlabOf(b) = FirstOf[t]
  BY <1>1, AllPayloads DEF Init, IsFree
<1>3. \A t \in Thread : /\ infos[t] = <<FirstOf[t]>> /\ infos[t] \in Seq(Slab)
                        /\ IsInjective(infos[t])
                        /\ \A s : s \in ToSet(infos[t]) <=> s = FirstOf[t]
  BY <1>1 DEF Init, IsInjective, ToSet
<1>4. pool = <<>> /\ pool \in Seq(Slab) /\ ToSet(pool) = {} /\ IsInjective(pool)
  BY EmptyList DEF Init
<1> HIDE DEF n
<1>5. Owned = 1..n
  <2>1. ASSUME NEW s
        PROVE  s \in Owned <=> s \in 1..n
    <3>1. \A t \in Thread : s \in ToSet(infos[t]) <=> FirstOf[t] = s
      BY <1>3
    <3>2. s \in 1..n <=> \E t \in Thread : FirstOf[t] = s
      BY <1>1
    <3> QED BY <3>1, <3>2, WhoOwns
  <2> QED BY <2>1
<1>6. TypeOK
  <2>1. infos \in [Thread -> Seq(Slab)] /\ free \in [Thread -> Seq(Block)]
    BY <1>2, <1>3 DEF Init
  <2>2. freed \in [Slab -> 0..Blocks] /\ users \in [Block -> 0..1]
    BY BlocksAssumption DEF Init
  <2> QED BY <1>4, <2>1, <2>2 DEF Init, TypeOK
<1>7. \A b \in Block : users[b] = 0 /\ \A t \in Thread : ~Counting(t, b)
  BY DEF Init, Counting
<1>8. OnePlace
  BY <1>1, <1>2, <1>7 DEF Init, OnePlace
<1>9. Counted
  <2>1. ASSUME NEW s \in Slab, NEW i \in Index
        PROVE  Out(<<s, i>>) <=> s \in Owned
    <3>0. <<s, i>> \in Block /\ SlabOf(<<s, i>>) = s
      BY DEF Block, SlabOf
    <3>1. PICK b \in Block : b = <<s, i>> /\ SlabOf(b) = s
      BY <3>0
    <3>2. \A t \in Thread : IsFree(t, b) <=> FirstOf[t] = s
      BY <1>2, <3>1
    <3>3. users[b] # 1
      BY <1>7
    <3>4. Out(b) <=> \E t \in Thread : FirstOf[t] = s
      BY <1>7, <3>2, <3>3 DEF Out
    <3> QED BY <1>1, <1>5, <3>1, <3>4
  <2>2. ASSUME NEW s \in Slab
        PROVE  OutOf(s) = IF s \in Owned THEN Index ELSE {}
    BY <2>1 DEF OutOf
  <2>3. Cardinality(Index) = Blocks /\ 0 + Blocks = Blocks
    BY BlocksAssumption, FS_Interval DEF Index
  <2>4. \A s \in Slab : freed[s] = 0
    BY DEF Init
  <2> QED BY <2>2, <2>3, <2>4 DEF Counted
<1>10. OneHome
  <2>1. \A t, u \in Thread, s \in Slab :
          s \in ToSet(infos[t]) /\ s \in ToSet(infos[u]) => FirstOf[t] = s /\ FirstOf[u] = s
    BY <1>3
  <2>2. \A t, u \in Thread, s \in Slab :
          s \in ToSet(infos[t]) /\ s \in ToSet(infos[u]) => t = u
    BY <1>1, <2>1
  <2>3. (\A t \in Thread : IsInjective(infos[t])) /\ IsInjective(pool)
        /\ \A s \in Slab : s \in ToSet(pool) => s \notin Owned
    BY <1>3, <1>4
  <2> QED BY <2>2, <2>3 DEF OneHome
<1>11. Made
  BY <1>1, <1>4, <1>5 DEF Made
<1>12. Releases
  BY DEF Init, Releases
<1> QED BY <1>6, <1>8, <1>9, <1>10, <1>11, <1>12 DEF IInv

LEMMA NextInv ==
  ASSUME IInv, [Next]_vars
  PROVE  IInv'
BY NextTypes, NextOnePlace, NextCounted, NextHome, NextReleases DEF IInv

LEMMA Invariance == Spec => []IInv
<1>1. Init => IInv
  BY InitInv
<1>2. IInv /\ [Next]_vars => IInv'
  BY NextInv
<1> QED BY <1>1, <1>2, PTL DEF Spec

\* Every variable keeps its type: freed_count never exceeds the number of blocks of
\* a slab, and no block has two users (SlabMemoryManager.cpp:38-47, 129).
THEOREM TypeCorrect == Spec => []TypeOK
<1>1. IInv => TypeOK
  BY DEF IInv
<1> QED BY <1>1, Invariance, PTL

\* The second read of alloc_size meets a deleted SlabInfo only when the block is of
\* another thread's slab (SlabMemoryManager.cpp:129-131).
THEOREM OnlyForeignCrashes == Spec => []CrashIsForeign
<1>1. IInv => CrashIsForeign
  BY WhoOwns DEF IInv, Releases, CrashIsForeign
<1> QED BY <1>1, Invariance, PTL

\* freed_count is exact: what it lacks of the number of blocks are the payloads not
\* given out, the blocks in use and those a release has not counted yet, and a slab
\* in the pool has none of them (SlabMemoryManager.cpp:49-88, 129).
THEOREM CountIsExact == Spec => []Counted
<1>1. IInv => Counted
  BY DEF IInv
<1> QED BY <1>1, Invariance, PTL

-----------------------------------------------------------------------------
(* The slabs implement the allocator                                       *)

LEMMA InitAllocates ==
  ASSUME Init
  PROVE  Allocator!Init
BY DEF Init, Allocator!Init

LEMMA StepAllocates ==
  ASSUME IInv, [Next]_vars
  PROVE  [Allocator!Next]_users
<1>1. ASSUME NEW t \in Thread, Acquire(t)
      PROVE  Allocator!Next
  <2>1. PICK b \in Block : users[b] = 0 /\ users' = [users EXCEPT ![b] = 1]
    BY <1>1, Acquired DEF IInv
  <2> QED BY <2>1 DEF Allocator!Next, Allocator!Alloc
<1>2. ASSUME NEW t \in Thread, NEW b \in Block, Release(t, b)
      PROVE  Allocator!Next
  <2>1. users[b] = 1
    BY <1>2, ReleaseMoves DEF IInv
  <2>2. users' = [users EXCEPT ![b] = 0]
    BY <1>2, <2>1 DEF Release
  <2> QED BY <2>1, <2>2 DEF Allocator!Next, Allocator!Free
<1>3. ASSUME NEW t \in Thread, Fetch(t) \/ ReleaseStep(t)
      PROVE  UNCHANGED users
  BY <1>3 DEF Fetch, ReleaseStep, CountFreed, ReadSize, ReadDeletedSize, DrainSlab,
     SkipSlab, EndScan
<1>4. CASE UNCHANGED vars
  BY <1>4 DEF vars
<1> QED BY <1>1, <1>2, <1>3, <1>4 DEF Next

\* The slabs implement BlockAllocator: no address is given out while somebody uses
\* it (ObjectPool.h:44-69, SlabMemoryManager.cpp:38-133).
THEOREM SlabsAllocateOnce == Spec => AllocatesOnce
<1>1. Init => Allocator!Init
  BY InitAllocates
<1>2. IInv /\ [Next]_vars => [Allocator!Next]_users
  BY StepAllocates
<1> QED BY <1>1, <1>2, Invariance, PTL DEF Spec, AllocatesOnce, Allocator!Spec
=============================================================================
