------------------------------ MODULE SendBuffer ------------------------------
(***************************************************************************)
(* Send buffers are cut one after the other from the chunk of the thread   *)
(* that makes a packet, and given up wherever the last session has sent    *)
(* them.  A chunk that nobody refers to any more goes back to the manager, *)
(* by the deleter of its shared_ptr, on whichever thread that happens.     *)
(*                                                                         *)
(* A shared_ptr is taken as what it promises: the deleter is called once,  *)
(* by who gives up the last reference.  The references to a chunk are      *)
(* those of a thread (tls_send_buffer_chunk, the result of Pop), of a live *)
(* SendBuffer (_owner_chunk) and of the manager's vector.                  *)
(***************************************************************************)
EXTENDS Integers, Sequences

CONSTANTS
  Threads,
  Chunks,     \* the addresses that xnew may give to a chunk
  Packets,    \* each is one call of SendBufferManager::Acquire
  Size,       \* its argument, Size[p]
  ChunkSize,  \* CHUNK_SIZE
  None

VARIABLES
  step,     \* where a thread is in Acquire or in a destructor
  packet,   \* the packet a thread acquires a buffer for
  current,  \* tls_send_buffer_chunk
  got,      \* what Pop returned, until it is assigned
  dropped,  \* the chunk a thread's deleter is called for
  made,     \* history: the chunks that were constructed
  pool,     \* _send_buffer_chunks
  used,     \* _used_size
  live,     \* the SendBuffers that somebody refers to
  place     \* _owner_chunk, and the offset of _buffer in it

bufferVars == <<step, packet, current, got, dropped, made, pool, used, live, place>>

BufferInit ==
  /\ step = [t \in Threads |-> "idle"]
  /\ packet = [t \in Threads |-> None]
  /\ current = [t \in Threads |-> None]
  /\ got = [t \in Threads |-> None]
  /\ dropped = [t \in Threads |-> None]
  /\ made = {} /\ pool = <<>>
  /\ used = [c \in Chunks |-> 0]
  /\ live = {} /\ place = [p \in {} |-> None]

-----------------------------------------------------------------------------
FreeSize(c) == ChunkSize - used[c]

InPool(c) == \E i \in 1 .. Len(pool) : pool[i] = c
RefOfThread(t, c) == c \in {current[t], got[t]}
HeldByThread(c) == \E t \in Threads : RefOfThread(t, c)
HeldByBuffer(c) == \E p \in live : place[p].chunk = c

\* Acquire: the thread's chunk, if it has one with enough room.
BeginAcquire(t, p) ==
  /\ step[t] = "idle"
  /\ p \notin DOMAIN place /\ \A u \in Threads : packet[u] # p
  /\ packet' = [packet EXCEPT ![t] = p]
  /\ step' = [step EXCEPT ![t] =
       IF current[t] # None /\ FreeSize(current[t]) >= Size[p] THEN "cut" ELSE "pop"]
  /\ UNCHANGED <<current, got, dropped, made, pool, used, live, place>>

\* Pop, under the manager's lock, when the vector is not empty ...
PopOld(t) ==
  /\ step[t] = "pop"
  /\ pool # <<>>
  /\ got' = [got EXCEPT ![t] = pool[Len(pool)]]
  /\ pool' = SubSeq(pool, 1, Len(pool) - 1)
  /\ step' = [step EXCEPT ![t] = "assign"]
  /\ UNCHANGED <<packet, current, dropped, made, used, live, place>>

\* ... and when it is.  The new chunk is made after the unlock: nobody can tell.
PopNew(t) ==
  /\ step[t] = "pop"
  /\ pool = <<>>
  /\ \E c \in Chunks \ made :
       /\ got' = [got EXCEPT ![t] = c]
       /\ made' = made \cup {c}
       /\ used' = [used EXCEPT ![c] = 0]
  /\ step' = [step EXCEPT ![t] = "assign"]
  /\ UNCHANGED <<packet, current, dropped, pool, live, place>>

\* The assignment to tls_send_buffer_chunk gives up the old chunk, which is the
\* last reference if no buffer cut from it is still live.
Assign(t) ==
  LET old == current[t]
      last == /\ old # None /\ ~HeldByBuffer(old) /\ ~InPool(old)
              /\ old # got[t] /\ \A u \in Threads \ {t} : ~RefOfThread(u, old)
  IN /\ step[t] = "assign"
     /\ current' = [current EXCEPT ![t] = got[t]]
     /\ got' = [got EXCEPT ![t] = None]
     /\ dropped' = [dropped EXCEPT ![t] = IF last THEN old ELSE None]
     /\ step' = [step EXCEPT ![t] = IF last THEN "push" ELSE "reset"]
     /\ UNCHANGED <<packet, made, pool, used, live, place>>

\* Push, called by the deleter, under the manager's lock: afterwards the thread goes
\* on with the acquisition in which it is, if it is in one.
Push(t) ==
  /\ step[t] = "push"
  /\ pool' = Append(pool, dropped[t])
  /\ dropped' = [dropped EXCEPT ![t] = None]
  /\ step' = [step EXCEPT ![t] = IF packet[t] = None THEN "idle" ELSE "reset"]
  /\ UNCHANGED <<packet, current, got, made, used, live, place>>

Reset(t) ==
  /\ step[t] = "reset"
  /\ used' = [used EXCEPT ![current[t]] = 0]
  /\ step' = [step EXCEPT ![t] = "cut"]
  /\ UNCHANGED <<packet, current, got, dropped, made, pool, live, place>>

\* SendBufferChunk::Acquire with the constructor of SendBuffer.
Cut(t) ==
  LET c == current[t]
      p == packet[t]
  IN /\ step[t] = "cut"
     /\ FreeSize(c) >= Size[p]  \* it would return nullptr, see Served
     /\ place' = [q \in DOMAIN place \cup {p} |->
                    IF q = p THEN [chunk |-> c, at |-> used[c]] ELSE place[q]]
     /\ live' = live \cup {p}
     /\ used' = [used EXCEPT ![c] = @ + Size[p]]
     /\ packet' = [packet EXCEPT ![t] = None]
     /\ step' = [step EXCEPT ![t] = "idle"]
     /\ UNCHANGED <<current, got, dropped, made, pool>>

\* The last reference to a SendBuffer is given up, by any thread; with it goes its
\* reference to the chunk.
Destroy(t, p) ==
  LET c == place[p].chunk
      last == /\ ~HeldByThread(c) /\ ~InPool(c)
              /\ \A q \in live \ {p} : place[q].chunk # c
  IN /\ step[t] = "idle"
     /\ p \in live
     /\ live' = live \ {p}
     /\ dropped' = [dropped EXCEPT ![t] = IF last THEN c ELSE None]
     /\ step' = [step EXCEPT ![t] = IF last THEN "push" ELSE "idle"]
     /\ UNCHANGED <<packet, current, got, made, pool, used, place>>

BufferNext ==
  \E t \in Threads :
    \/ \E p \in Packets : BeginAcquire(t, p) \/ Destroy(t, p)
    \/ PopOld(t) \/ PopNew(t) \/ Assign(t) \/ Push(t) \/ Reset(t) \/ Cut(t)

BufferSpec == BufferInit /\ [][BufferNext]_bufferVars

-----------------------------------------------------------------------------
(* Properties                                                              *)

BufferTypeOK ==
  /\ step \in [Threads -> {"idle", "pop", "assign", "push", "reset", "cut"}]
  /\ packet \in [Threads -> Packets \cup {None}]
  /\ current \in [Threads -> made \cup {None}]
  /\ got \in [Threads -> made \cup {None}]
  /\ dropped \in [Threads -> made \cup {None}]
  /\ made \subseteq Chunks
  /\ pool \in Seq(made)
  /\ used \in [Chunks -> 0 .. ChunkSize]
  /\ live \subseteq DOMAIN place
  /\ DOMAIN place \subseteq Packets
  /\ place \in [DOMAIN place -> [chunk : made, at : 0 .. ChunkSize]]

\* The bytes of a packet are not written over before they are sent: two live buffers
\* of one chunk have no byte in common, and none ends beyond its chunk.  A chunk is
\* begun anew while its former buffers may have been destroyed by any thread at any
\* time (SendBuffer.cpp:7-22, 33-71).
NoByteShared ==
  \A p \in live :
    /\ place[p].at + Size[p] <= ChunkSize
    /\ \A q \in live \ {p} :
         place[p].chunk = place[q].chunk =>
           \/ place[p].at + Size[p] <= place[q].at
           \/ place[q].at + Size[q] <= place[p].at

\* No chunk is the current one, or the one just popped, of two threads, or pushed by two.
ByOneThread ==
  \A t, u \in Threads :
    t # u => /\ current[t] # None => ~RefOfThread(u, current[t])
             /\ got[t] # None => got[t] # got[u]
             /\ dropped[t] # None => dropped[t] # dropped[u]

\* No chunk is twice in the vector.
PooledOnce == \A i, j \in 1 .. Len(pool) : pool[i] = pool[j] => i = j

\* Every chunk is in use, in the vector, or on its way back, and one of these only.
NoneLost ==
  \A c \in made :
    LET held == HeldByThread(c) \/ HeldByBuffer(c)
        returning == \E t \in Threads : dropped[t] = c
    IN /\ InPool(c) \/ held \/ returning
       /\ InPool(c) => ~held /\ ~returning
       /\ returning => ~held

\* A chunk is cut by one thread only, is not in the manager's vector while a thread or
\* a buffer refers to it, nor there twice, and none is lost: what is not in the vector
\* is referred to or on its way back, so Pop makes a chunk only if no other is to be
\* had (SendBuffer.cpp:55-91).
OneHolder == ByOneThread /\ PooledOnce /\ NoneLost

\* Acquire never returns nullptr, which its callers write to (SendBuffer.cpp:42-43,
\* 64-70; ClientPacketHandler.h:117-121).
Served ==
  \A t \in Threads :
    step[t] = "cut" => current[t] # None /\ FreeSize(current[t]) >= Size[packet[t]]
=============================================================================
