-------------------------------- MODULE Slabs --------------------------------
(***************************************************************************)
(* The thread-local slabs of SlabMemoryManager, which hold the Job objects *)
(* (ObjectPool::PopThreadSlab, PushThreadSlab).  A thread cuts a slab into *)
(* blocks and gives each of them out once.  A block that is released, by   *)
(* whatever thread, is not given out again: it is counted in the SlabInfo  *)
(* of its slab.  A thread that releases a block then looks through its own *)
(* slabs, and returns those whose count has reached the number of blocks   *)
(* to the SlabPool all threads share; a slab's blocks live again when some *)
(* thread takes the slab from the pool.                                    *)
(*                                                                         *)
(* One size class is modelled, since each has slabs and a pool of its own. *)
(* A SlabInfo is made with the slab's arrival at a thread and deleted with *)
(* its departure; a header of a block keeps pointing to the deleted one.   *)
(* Blocks above 512 bytes are allocated one by one (AcquireBlock).         *)
(***************************************************************************)
EXTENDS Naturals, Sequences, FiniteSets, SequencesExt

CONSTANTS
  Thread,   \* the threads with a tls_slab
  MaxSlabs, \* bound: how many slabs _aligned_malloc returns
  Blocks,   \* CalcBlockCountOfSlab
  None      \* no block

ASSUME BlocksAssumption == Blocks \in Nat \ {0}
ASSUME ThreadAssumption == IsFiniteSet(Thread)
ASSUME MaxSlabsAssumption == MaxSlabs \in Nat /\ Cardinality(Thread) <= MaxSlabs
ASSUME NoneAssumption == None \notin (1..MaxSlabs) \X (1..Blocks)

VARIABLES
  pool,      \* SlabPool::_slabs
  infos,     \* _slab_infos of a thread
  free,      \* _free_block_payloads of a thread
  freed,     \* freed_count of a slab
  users,     \* how many users a block has (more than one would be an error)
  pc,        \* where a thread is in SlabMemoryManager::Release
  arg,       \* the block it releases
  scan,      \* i of ThreadLocalSlab::Release
  foreign,   \* history: a thread's release is of a block of another thread's slab
  crashed    \* the ASSERT_CRASH of ToIndex ended the process

vars == <<pool, infos, free, freed, users, pc, arg, scan, foreign, crashed>>

Slab == 1..MaxSlabs    \* their bases, in the order in which they were made
Index == 1..Blocks
Block == Slab \X Index
SlabOf(b) == b[1]
Owned == UNION {ToSet(infos[t]) : t \in Thread}

TypeOK ==
  /\ pool \in Seq(Slab)
  /\ infos \in [Thread -> Seq(Slab)]
  /\ free \in [Thread -> Seq(Block)]
  /\ freed \in [Slab -> 0..Blocks]
  /\ users \in [Block -> 0..1]
  /\ pc \in [Thread -> {"idle", "count", "index", "scan"}]
  /\ arg \in [Thread -> Block \cup {None}]
  /\ scan \in [Thread -> Nat]
  /\ foreign \in [Thread -> BOOLEAN] /\ crashed \in BOOLEAN

Payloads(s) == [i \in Index |-> <<s, i>>]

\* The threads have started, in some order: the constructor of ThreadLocalSlab
\* fetched a slab for each.
FirstOf == CHOOSE f \in [Thread -> 1..Cardinality(Thread)] : IsInjective(f)

Init ==
  /\ pool = <<>>
  /\ infos = [t \in Thread |-> <<FirstOf[t]>>]
  /\ free = [t \in Thread |-> Payloads(FirstOf[t])]
  /\ freed = [s \in Slab |-> 0]
  /\ users = [b \in Block |-> 0]
  /\ pc = [t \in Thread |-> "idle"]
  /\ arg = [t \in Thread |-> None]
  /\ scan = [t \in Thread |-> 0]
  /\ foreign = [t \in Thread |-> FALSE]
  /\ crashed = FALSE

\* A thread of the living process is at l.
At(t, l) == ~ crashed /\ pc[t] = l
Goto(t, l) == pc' = [pc EXCEPT ![t] = l]

-----------------------------------------------------------------------------
(* Acquire                                                                 *)

\* SlabPool::Pop: the slab returned last, or a new one.
Popped(s) ==
  IF pool = <<>>
    THEN s = Cardinality(Owned) + 1 /\ pool' = pool
    ELSE s = Last(pool) /\ pool' = Front(pool)

\* Fetch: a SlabInfo with count 0, and a header on each block.
Fetch(t) ==
  /\ At(t, "idle")
  /\ free[t] = <<>>
  /\ \E s \in Slab :
       /\ Popped(s)
       /\ infos' = [infos EXCEPT ![t] = Append(@, s)]
       /\ freed' = [freed EXCEPT ![s] = 0]
       /\ free' = [free EXCEPT ![t] = Payloads(s)]
  /\ UNCHANGED <<users, pc, arg, scan, foreign, crashed>>

\* The payload at the back of the free ones goes to the user.
Acquire(t) ==
  /\ At(t, "idle")
  /\ free[t] # <<>>
  /\ users' = [users EXCEPT ![Last(free[t])] = @ + 1]
  /\ free' = [free EXCEPT ![t] = Front(@)]
  /\ UNCHANGED <<pool, infos, freed, pc, arg, scan, foreign, crashed>>

-----------------------------------------------------------------------------
(* Release                                                                 *)

\* The last owner of a block lets it go; the header names the SlabInfo.
Release(t, b) ==
  /\ At(t, "idle")
  /\ users[b] > 0
  /\ users' = [users EXCEPT ![b] = @ - 1]
  /\ arg' = [arg EXCEPT ![t] = b]
  /\ foreign' = [foreign EXCEPT ![t] = SlabOf(b) \notin ToSet(infos[t])]
  /\ Goto(t, "count")
  /\ UNCHANGED <<pool, infos, free, freed, scan, crashed>>

\* Mutant: the count is read and written in two accesses, of which one is lost
\* when two threads release at the same time.
CountFreedLossy(t) ==
  /\ At(t, "count")
  /\ freed' = [freed EXCEPT ![SlabOf(arg[t])] =
                 IF \E u \in Thread \ {t} : pc[u] = "count" /\ SlabOf(arg[u]) = SlabOf(arg[t])
                   THEN @ ELSE @ + 1]
  /\ Goto(t, "index")
  /\ UNCHANGED <<pool, infos, free, users, arg, scan, foreign, crashed>>

\* Mutant: the release that completes an own slab returns it before the read.
CountFreedAndDrain(t) ==
  /\ At(t, "count")
  /\ LET s == SlabOf(arg[t]) IN
       /\ freed' = [freed EXCEPT ![s] = @ + 1]
       /\ IF freed'[s] = Blocks /\ s \in ToSet(infos[t])
            THEN /\ infos' = [infos EXCEPT ![t] = SelectSeq(@, LAMBDA r : r # s)]
                 /\ pool' = Append(pool, s)
            ELSE UNCHANGED <<infos, pool>>
  /\ Goto(t, "index")
  /\ UNCHANGED <<free, users, arg, scan, foreign, crashed>>

\* freed_count.fetch_add(1).
CountFreed(t) ==
  /\ At(t, "count")
  /\ freed' = [freed EXCEPT ![SlabOf(arg[t])] = @ + 1]
  /\ Goto(t, "index")
  /\ UNCHANGED <<pool, infos, free, users, arg, scan, foreign, crashed>>

\* The header is not looked at any more.
EndRead(t) ==
  /\ arg' = [arg EXCEPT ![t] = None]
  /\ foreign' = [foreign EXCEPT ![t] = FALSE]

\* slab_info->alloc_size is read again, to choose the slabs to look through.
StartScan(t) ==
  /\ scan' = [scan EXCEPT ![t] = 1]
  /\ EndRead(t)
  /\ Goto(t, "scan")
  /\ UNCHANGED crashed

SkipScan(t) ==
  /\ EndRead(t)
  /\ Goto(t, "idle")
  /\ UNCHANGED <<scan, crashed>>

ReadSize(t) ==
  /\ At(t, "index")
  /\ SlabOf(arg[t]) \in Owned
  /\ StartScan(t)
  /\ UNCHANGED <<pool, infos, free, freed, users>>

\* The SlabInfo has been deleted: the read gives the old size, the size of another
\* class (whose slabs are looked through), or what ToIndex does not accept.
ReadDeletedSize(t) ==
  /\ At(t, "index")
  /\ SlabOf(arg[t]) \notin Owned
  /\ \/ StartScan(t)
     \/ SkipScan(t)
     \/ /\ crashed' = TRUE
        /\ UNCHANGED <<scan, arg, pc, foreign>>
  /\ UNCHANGED <<pool, infos, free, freed, users>>

-----------------------------------------------------------------------------
(* ThreadLocalSlab::Release                                                *)

Scanning(t) == At(t, "scan") /\ scan[t] <= Len(infos[t])
Full(s) == freed[s] = Blocks

\* Mutant: one block short of full is full.
DrainSlabEarly(t) ==
  /\ Scanning(t)
  /\ freed[infos[t][scan[t]]] + 1 >= Blocks
  /\ pool' = Append(pool, infos[t][scan[t]])
  /\ infos' = [infos EXCEPT ![t] = Front([@ EXCEPT ![scan[t]] = Last(infos[t])])]
  /\ UNCHANGED <<free, freed, users, pc, arg, scan, foreign, crashed>>

\* Flush and DrainSlab: the SlabInfo is deleted, the base goes to the pool, and
\* the last slab takes the place of this one.
DrainSlab(t) ==
  /\ Scanning(t)
  /\ LET s == infos[t][scan[t]] IN
       /\ Full(s)
       /\ pool' = Append(pool, s)
  /\ infos' = [infos EXCEPT ![t] = Front([@ EXCEPT ![scan[t]] = Last(infos[t])])]
  /\ UNCHANGED <<free, freed, users, pc, arg, scan, foreign, crashed>>

\* A slab with blocks in use stays.
SkipSlab(t) ==
  /\ Scanning(t)
  /\ ~ Full(infos[t][scan[t]])
  /\ scan' = [scan EXCEPT ![t] = @ + 1]
  /\ UNCHANGED <<pool, infos, free, freed, users, pc, arg, foreign, crashed>>

EndScan(t) ==
  /\ At(t, "scan")
  /\ scan[t] > Len(infos[t])
  /\ scan' = [scan EXCEPT ![t] = 0]
  /\ Goto(t, "idle")
  /\ UNCHANGED <<pool, infos, free, freed, users, arg, foreign, crashed>>

-----------------------------------------------------------------------------
ReleaseStep(t) ==
  \/ CountFreed(t)
  \/ ReadSize(t)
  \/ ReadDeletedSize(t)
  \/ DrainSlab(t)
  \/ SkipSlab(t)
  \/ EndScan(t)

Next ==
  \E t \in Thread :
    \/ Fetch(t)
    \/ Acquire(t)
    \/ \E b \in Block : Release(t, b)
    \/ ReleaseStep(t)

Spec == Init /\ [][Next]_vars

(* A release that has begun goes on. *)
Fairness == \A t \in Thread : WF_vars(ReleaseStep(t))

FairSpec == Spec /\ Fairness

-----------------------------------------------------------------------------
(* Properties                                                              *)

\* The slabs implement the allocator their users know: an address is not given
\* out while somebody uses it, although a block's memory comes back with its
\* whole slab and to any thread (SlabMemoryManager.cpp:38-88, 118-133).
Allocator == INSTANCE BlockAllocator
AllocatesOnce == Allocator!Spec

\* The second read of alloc_size (SlabMemoryManager.cpp:130) meets a deleted
\* SlabInfo, and may end the process, only in a thread that releases a block of
\* another thread's slab: the owner alone returns a slab, and reads before.
CrashIsForeign ==
  \A t \in Thread :
    pc[t] = "index" /\ SlabOf(arg[t]) \notin Owned => foreign[t]

\* A slab is given back: when all its blocks were given out and released, by
\* whatever threads at whatever time, it does not stay with its thread, as long as
\* threads go on to release blocks (SlabMemoryManager.cpp:49-70, 129).
Emptied(s) ==
  \A i \in Index :
    /\ users[<<s, i>>] = 0
    /\ \A t \in Thread : <<s, i>> \notin ToSet(free[t]) \cup {arg[t]}
FullGoesBack ==
  (\A t \in Thread : []<>(pc[t] = "scan" /\ scan[t] = 1)) =>
    \A s \in Slab : Emptied(s) /\ s \in Owned ~> s \notin Owned \/ crashed
=============================================================================
