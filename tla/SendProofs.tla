----------------------------- MODULE SendProofs -----------------------------
(***************************************************************************)
(* Proofs about SendBuffer, for any number of threads, chunks and packets  *)
(* of any sizes, and about SendBatch, for any callers and packets.  There  *)
(* is no run of SendBuffer beside these proofs.                            *)
(*                                                                         *)
(* Two halves depend on each other.  Holders says who may refer to a       *)
(* chunk: one thread, or the vector, or the thread that brings it back; it *)
(* needs nothing about bytes.  ByteParts says that the live buffers of a   *)
(* chunk lie one behind the other below _used_size; Reset keeps it only    *)
(* because a chunk that was in the vector has no live buffers (Empty), and *)
(* the cut of another thread cannot give it one, since it is not that      *)
(* thread's.                                                               *)
(*                                                                         *)
(* SendBatch is proved with BatchInv.  BatchKept numbers the packets: what *)
(* _send_packets, the batches on their way and _send_queue hold is exactly *)
(* 1 .. stored, each once, and while no batch was taken beside another the *)
(* numbers ascend along that way; the number a stored packet gets is the   *)
(* next one, so every move appends at the right end.  FullBatchLeaves and  *)
(* FlagNotStuck are inductive as they stand: who takes _can_flush down     *)
(* leaves a timer, the timer becomes a flush, and a flush ends by putting  *)
(* it up again, unless ForbidFlush came between.                           *)
(* The bytes of a sequence are a recursive function; that it is defined,   *)
(* and what it gives for a longer sequence, is proved by an induction over *)
(* Nat stated for a set (SetInduction).                                    *)
(***************************************************************************)
EXTENDS SendBatch, SendBuffer, SequenceTheorems, FiniteSetTheorems, TLAPS

\* A packet fits a chunk (SendBufferChunk::Acquire asserts it).
ConstantsFit ==
  /\ ChunkSize \in Nat /\ Size \in [Packets -> 0 .. ChunkSize]
  /\ None \notin Chunks \cup Packets

\* What the locals of a thread are at each place of Acquire.
Local ==
  \A t \in Threads :
    /\ step[t] = "idle" => packet[t] = None
    /\ step[t] \in {"pop", "assign", "reset", "cut"} => packet[t] # None
    /\ got[t] # None <=> step[t] = "assign"
    /\ dropped[t] # None <=> step[t] = "push"
    /\ step[t] \in {"reset", "cut"} \/ (step[t] = "push" /\ packet[t] # None) => current[t] # None

\* A packet gets one buffer.
OneBuffer ==
  /\ \A t \in Threads : packet[t] \notin DOMAIN place
  /\ \A t, u \in Threads : packet[t] = packet[u] /\ packet[t] # None => t = u

\* A chunk that comes from Pop has no live buffers until it is cut.
Empty ==
  \A t \in Threads :
    /\ step[t] = "assign" => ~HeldByBuffer(got[t])
    /\ step[t] = "reset" \/ (step[t] = "push" /\ packet[t] # None) => ~HeldByBuffer(current[t])

\* Live buffers end before the chunk's _used_size, except when Reset has still to come.
Below ==
  \A p \in live : place[p].at + Size[p] <= used[place[p].chunk]

ByteParts == Empty /\ Below /\ NoByteShared /\ Served

BufferInv == BufferTypeOK /\ Local /\ OneBuffer /\ OneHolder /\ ByteParts

-----------------------------------------------------------------------------
(* The manager's vector                                                    *)

LEMMA PopShrinks ==
  ASSUME NEW S, NEW s \in Seq(S), s # <<>>
  PROVE  LET r == SubSeq(s, 1, Len(s) - 1)
         IN /\ r \in Seq(S) /\ Len(s) \in Nat \ {0} /\ Len(r) = Len(s) - 1
            /\ \A i \in 1 .. Len(r) : r[i] = s[i]
            /\ s[Len(s)] \in S
<1>. DEFINE n == Len(s)
            r == SubSeq(s, 1, n - 1)
<1>1. n \in Nat \ {0} /\ s[n] \in S
  OBVIOUS
<1>2. \A i \in 1 .. n - 1 : s[i] \in S
  BY <1>1
<1>3. r \in Seq(S) /\ Len(r) = n - 1 /\ \A i \in 1 .. n - 1 : r[i] = s[i]
  <2>1. /\ r \in Seq(S) /\ Len(r) = IF 1 <= n - 1 THEN (n - 1) - 1 + 1 ELSE 0
        /\ \A i \in 1 .. (n - 1) - 1 + 1 : r[i] = s[1 + i - 1]
    BY <1>1, <1>2, SubSeqProperties
  <2>. HIDE DEF n, r
  <2>. QED
    BY <1>1, <2>1
<1>. QED
  BY <1>1, <1>3

LEMMA PushGrows ==
  ASSUME NEW S, NEW s \in Seq(S), NEW c \in S
  PROVE  LET r == Append(s, c)
         IN /\ r \in Seq(S) /\ Len(s) \in Nat /\ Len(r) = Len(s) + 1
            /\ \A i \in 1 .. Len(s) : r[i] = s[i]
            /\ r[Len(s) + 1] = c
<1>. DEFINE r == Append(s, c)
<1>1. r \in Seq(S) /\ Len(s) \in Nat /\ Len(r) = Len(s) + 1
  OBVIOUS
<1>2. \A i \in 1 .. Len(s) : r[i] = s[i]
  OBVIOUS
<1>3. r[Len(s) + 1] = c
  OBVIOUS
<1>. QED
  BY <1>1, <1>2, <1>3

-----------------------------------------------------------------------------
(* Types and locals                                                        *)

LEMMA InitHolds ==
  ASSUME ConstantsFit, BufferInit
  PROVE  BufferInv
<1>1. BufferTypeOK
  BY DEF BufferInit, BufferTypeOK, ConstantsFit
<1>2. Local /\ OneBuffer
  BY DEF BufferInit, Local, OneBuffer
<1>3. OneHolder
  BY DEF BufferInit, OneHolder, ByOneThread, PooledOnce, NoneLost
<1>4. ByteParts
  BY DEF BufferInit, ByteParts, Empty, Below, NoByteShared, Served, HeldByBuffer
<1>. QED
  BY <1>1, <1>2, <1>3, <1>4 DEF BufferInv

LEMMA TypeStep ==
  ASSUME ConstantsFit, BufferTypeOK, Local, Served, [BufferNext]_bufferVars
  PROVE  BufferTypeOK'
<1>1. ASSUME NEW t \in Threads, NEW p \in Packets, BeginAcquire(t, p)
      PROVE  BufferTypeOK'
  BY <1>1 DEF BufferTypeOK, BeginAcquire
<1>2. ASSUME NEW t \in Threads, NEW p \in Packets, Destroy(t, p)
      PROVE  BufferTypeOK'
  <2>1. p \in DOMAIN place /\ place[p].chunk \in made
    BY <1>2 DEF BufferTypeOK, Destroy
  <2>. QED
    BY <1>2, <2>1 DEF BufferTypeOK, Destroy
<1>3. ASSUME NEW t \in Threads, PopOld(t)
      PROVE  BufferTypeOK'
  BY <1>3, PopShrinks DEF BufferTypeOK, PopOld
<1>4. ASSUME NEW t \in Threads, PopNew(t)
      PROVE  BufferTypeOK'
  <2>. PICK c \in Chunks \ made : /\ got' = [got EXCEPT ![t] = c]
                                  /\ made' = made \cup {c}
                                  /\ used' = [used EXCEPT ![c] = 0]
    BY <1>4 DEF PopNew
  <2>1. pool' = <<>>
    BY <1>4 DEF PopNew
  <2>2. place' \in [DOMAIN place' -> [chunk : made', at : 0 .. ChunkSize]]
    BY <1>4 DEF PopNew, BufferTypeOK
  <2>. QED
    BY <1>4, <2>1, <2>2 DEF BufferTypeOK, PopNew, ConstantsFit
<1>5. ASSUME NEW t \in Threads, Assign(t)
      PROVE  BufferTypeOK'
  BY <1>5 DEF BufferTypeOK, Assign
<1>6. ASSUME NEW t \in Threads, Push(t)
      PROVE  BufferTypeOK'
  <2>1. dropped[t] \in made
    BY <1>6 DEF Push, Local, BufferTypeOK
  <2>. QED
    BY <1>6, <2>1, PushGrows DEF BufferTypeOK, Push
<1>7. ASSUME NEW t \in Threads, Reset(t)
      PROVE  BufferTypeOK'
  <2>. 0 \in 0 .. ChunkSize
    BY DEF ConstantsFit
  <2>1. used' \in [Chunks -> 0 .. ChunkSize]
    BY <1>7 DEF BufferTypeOK, Reset
  <2>. QED
    BY <1>7, <2>1 DEF BufferTypeOK, Reset
<1>8. ASSUME NEW t \in Threads, Cut(t)
      PROVE  BufferTypeOK'
  <2>1. current[t] \in made /\ packet[t] \in Packets
    BY <1>8 DEF Cut, Local, BufferTypeOK
  <2>2. used[current[t]] \in 0 .. ChunkSize /\ Size[packet[t]] \in 0 .. ChunkSize
    BY <2>1 DEF BufferTypeOK, ConstantsFit
  <2>3. used[current[t]] + Size[packet[t]] \in 0 .. ChunkSize
    BY <1>8, <2>2 DEF Cut, FreeSize, ConstantsFit
  <2>4. used' \in [Chunks -> 0 .. ChunkSize]
    BY <1>8, <2>3 DEF Cut, BufferTypeOK
  <2>5. place' \in [DOMAIN place' -> [chunk : made, at : 0 .. ChunkSize]]
    BY <1>8, <2>1, <2>2 DEF Cut, BufferTypeOK
  <2>. QED
    BY <1>8, <2>1, <2>4, <2>5 DEF Cut, BufferTypeOK
<1>. QED
  BY <1>1, <1>2, <1>3, <1>4, <1>5, <1>6, <1>7, <1>8 DEF BufferNext, bufferVars, BufferTypeOK

LEMMA LocalStep ==
  ASSUME ConstantsFit, BufferTypeOK, Local, OneBuffer, [BufferNext]_bufferVars
  PROVE  Local' /\ OneBuffer'
<1>1. ASSUME NEW t \in Threads, NEW p \in Packets, BeginAcquire(t, p)
      PROVE  Local' /\ OneBuffer'
  BY <1>1 DEF BufferTypeOK, BeginAcquire, Local, OneBuffer, ConstantsFit
<1>2. ASSUME NEW t \in Threads, NEW p \in Packets, Destroy(t, p)
      PROVE  Local' /\ OneBuffer'
  <2>1. place[p].chunk \in made /\ place[p].chunk # None
    BY <1>2 DEF BufferTypeOK, Destroy, ConstantsFit
  <2>. QED
    BY <1>2, <2>1 DEF BufferTypeOK, Destroy, Local, OneBuffer
<1>3. ASSUME NEW t \in Threads, PopOld(t)
      PROVE  Local' /\ OneBuffer'
  <2>1. pool[Len(pool)] \in made /\ pool[Len(pool)] # None
    BY <1>3, PopShrinks DEF BufferTypeOK, PopOld, ConstantsFit
  <2>. QED
    BY <1>3, <2>1 DEF BufferTypeOK, PopOld, Local, OneBuffer
<1>4. ASSUME NEW t \in Threads, PopNew(t)
      PROVE  Local' /\ OneBuffer'
  BY <1>4 DEF BufferTypeOK, PopNew, Local, OneBuffer, ConstantsFit
<1>5. ASSUME NEW t \in Threads, Assign(t)
      PROVE  Local' /\ OneBuffer'
  BY <1>5 DEF BufferTypeOK, Assign, Local, OneBuffer
<1>6. ASSUME NEW t \in Threads, Push(t)
      PROVE  Local' /\ OneBuffer'
  BY <1>6 DEF BufferTypeOK, Push, Local, OneBuffer
<1>7. ASSUME NEW t \in Threads, Reset(t)
      PROVE  Local' /\ OneBuffer'
  BY <1>7 DEF BufferTypeOK, Reset, Local, OneBuffer
<1>8. ASSUME NEW t \in Threads, Cut(t)
      PROVE  Local' /\ OneBuffer'
  <2>1. None \notin DOMAIN place'
    BY <1>8 DEF BufferTypeOK, Cut, Local, ConstantsFit
  <2>. QED
    BY <1>8, <2>1 DEF BufferTypeOK, Cut, Local, OneBuffer
<1>. QED
  BY <1>1, <1>2, <1>3, <1>4, <1>5, <1>6, <1>7, <1>8 DEF BufferNext, bufferVars, Local, OneBuffer

-----------------------------------------------------------------------------
(* Who may refer to a chunk                                                *)

LEMMA HolderStep ==
  ASSUME ConstantsFit, BufferTypeOK, Local, OneBuffer, OneHolder, [BufferNext]_bufferVars
  PROVE  OneHolder'
<1>. ByOneThread /\ PooledOnce /\ NoneLost
  BY DEF OneHolder
<1>1. ASSUME NEW t \in Threads, NEW p \in Packets, BeginAcquire(t, p)
      PROVE  OneHolder'
  BY <1>1 DEF BeginAcquire, OneHolder, ByOneThread, PooledOnce, NoneLost,
              InPool, HeldByThread, RefOfThread, HeldByBuffer
<1>2. ASSUME NEW t \in Threads, NEW p \in Packets, Destroy(t, p)
      PROVE  OneHolder'
  <2>. PICK c : c = place[p].chunk
    OBVIOUS
  <2>. DEFINE last == /\ ~HeldByThread(c) /\ ~InPool(c)
                      /\ \A q \in live \ {p} : place[q].chunk # c
  <2>1. /\ p \in live /\ c \in made /\ c # None /\ dropped[t] = None
        /\ live' = live \ {p} /\ UNCHANGED <<current, got, made, pool, place>>
        /\ dropped' = [dropped EXCEPT ![t] = IF last THEN c ELSE None]
    BY <1>2 DEF Destroy, BufferTypeOK, Local, ConstantsFit
  <2>2. \A d \in made : ~HeldByBuffer(d)' /\ HeldByBuffer(d) => d = c
    BY <2>1 DEF HeldByBuffer
  <2>3. \A d \in made : HeldByBuffer(d)' => HeldByBuffer(d)
    BY <2>1 DEF HeldByBuffer
  <2>4. HeldByBuffer(c) /\ (last <=> ~HeldByThread(c) /\ ~InPool(c) /\ ~HeldByBuffer(c)')
    BY <2>1 DEF HeldByBuffer
  <2>5. \A u \in Threads : dropped'[u] = IF u = t /\ last THEN c ELSE dropped[u]
    BY <2>1 DEF BufferTypeOK
  <2>6. ~InPool(c) /\ \A u \in Threads : dropped[u] # c
    BY <2>1, <2>4 DEF NoneLost
  <2>7. ByOneThread' /\ PooledOnce'
    BY <2>1, <2>5, <2>6 DEF ByOneThread, PooledOnce, RefOfThread
  <2>8. \A d : (InPool(d)' <=> InPool(d)) /\ (HeldByThread(d)' <=> HeldByThread(d))
    BY <2>1 DEF InPool, HeldByThread, RefOfThread
  <2>9. NoneLost'
    <3>. SUFFICES ASSUME NEW d \in made
                  PROVE  LET held == HeldByThread(d)' \/ HeldByBuffer(d)'
                             returning == \E u \in Threads : dropped'[u] = d
                         IN /\ InPool(d)' \/ held \/ returning
                            /\ InPool(d)' => ~held /\ ~returning
                            /\ returning => ~held
      BY <2>1 DEF NoneLost
    <3>1. CASE d = c
      BY <3>1, <2>4, <2>5, <2>6, <2>8
    <3>2. CASE d # c
      <4>1. (\E u \in Threads : dropped'[u] = d) <=> \E u \in Threads : dropped[u] = d
        <5>1. d # None
          BY DEF BufferTypeOK, ConstantsFit
        <5>. QED
          BY <3>2, <5>1, <2>1, <2>5
      <4>2. HeldByBuffer(d)' <=> HeldByBuffer(d)
        BY <3>2, <2>2, <2>3
      <4>. QED
        BY <4>1, <4>2, <2>8 DEF NoneLost
    <3>. QED
      BY <3>1, <3>2
  <2>. QED
    BY <2>7, <2>9 DEF OneHolder
<1>3. ASSUME NEW t \in Threads, PopOld(t)
      PROVE  OneHolder'
  <2>. DEFINE n == Len(pool)
              c == pool[n]
  <2>1. /\ n \in Nat \ {0} /\ Len(pool') = n - 1 /\ \A i \in 1 .. Len(pool') : pool'[i] = pool[i]
        /\ c \in made /\ c # None
        /\ got' = [got EXCEPT ![t] = c] /\ got[t] = None
        /\ UNCHANGED <<current, dropped, made, live, place>>
    BY <1>3, PopShrinks DEF PopOld, BufferTypeOK, Local, ConstantsFit
  <2>2. \A d \in made : InPool(d)' <=> InPool(d) /\ d # c
    BY <2>1 DEF InPool, PooledOnce
  <2>3. InPool(c)
    BY <2>1 DEF InPool
  <2>4. ~HeldByThread(c) /\ ~HeldByBuffer(c) /\ \A u \in Threads : dropped[u] # c
    BY <2>1, <2>3 DEF NoneLost
  <2>5. \A u \in Threads : got'[u] = IF u = t THEN c ELSE got[u]
    BY <2>1 DEF BufferTypeOK
  <2>6. \A d \in made : /\ HeldByThread(d)' <=> HeldByThread(d) \/ d = c
                        /\ HeldByBuffer(d)' <=> HeldByBuffer(d)
    BY <2>1, <2>5 DEF HeldByThread, RefOfThread, HeldByBuffer, BufferTypeOK, ConstantsFit
  <2>7. ByOneThread'
    BY <2>1, <2>4, <2>5 DEF ByOneThread, HeldByThread, RefOfThread
  <2>8. PooledOnce'
    BY <2>1 DEF PooledOnce
  <2>9. NoneLost'
    BY <2>1, <2>2, <2>3, <2>4, <2>6 DEF NoneLost
  <2>. QED
    BY <2>7, <2>8, <2>9 DEF OneHolder
<1>4. ASSUME NEW t \in Threads, PopNew(t)
      PROVE  OneHolder'
  <2>. PICK c \in Chunks \ made : got' = [got EXCEPT ![t] = c] /\ made' = made \cup {c}
    BY <1>4 DEF PopNew
  <2>1. /\ got[t] = None /\ c # None /\ pool = <<>>
        /\ UNCHANGED <<current, dropped, pool, live, place>>
    BY <1>4 DEF PopNew, Local, ConstantsFit
  <2>2. \A u \in Threads : got'[u] = IF u = t THEN c ELSE got[u]
    BY DEF BufferTypeOK
  <2>3. /\ \A u \in Threads : c \notin {current[u], got[u], dropped[u]}
        /\ ~HeldByBuffer(c)
    BY <2>1 DEF BufferTypeOK, HeldByBuffer
  <2>4. ByOneThread'
    BY <2>1, <2>2, <2>3 DEF ByOneThread, RefOfThread
  <2>5. PooledOnce'
    BY <2>1 DEF PooledOnce
  <2>6. \A d \in made' : /\ ~InPool(d)' /\ ~InPool(d)
                         /\ HeldByThread(d)' <=> HeldByThread(d) \/ d = c
                         /\ HeldByBuffer(d)' <=> HeldByBuffer(d)
    BY <2>1, <2>2 DEF InPool, HeldByThread, RefOfThread, HeldByBuffer, BufferTypeOK, ConstantsFit
  <2>7. NoneLost'
    BY <2>1, <2>3, <2>6 DEF NoneLost
  <2>. QED
    BY <2>4, <2>5, <2>7 DEF OneHolder
<1>5. ASSUME NEW t \in Threads, Assign(t)
      PROVE  OneHolder'
  <2>. PICK old : old = current[t]
    OBVIOUS
  <2>. DEFINE last == /\ old # None /\ ~HeldByBuffer(old) /\ ~InPool(old)
                      /\ old # got[t] /\ \A u \in Threads \ {t} : ~RefOfThread(u, old)
  <2>1. /\ got[t] # None /\ dropped[t] = None
        /\ current' = [current EXCEPT ![t] = got[t]]
        /\ got' = [got EXCEPT ![t] = None]
        /\ dropped' = [dropped EXCEPT ![t] = IF last THEN old ELSE None]
        /\ UNCHANGED <<made, pool, live, place>>
    BY <1>5 DEF Assign, Local
  <2>2. \A u \in Threads : /\ current'[u] = IF u = t THEN got[t] ELSE current[u]
                           /\ got'[u] = IF u = t THEN None ELSE got[u]
                           /\ dropped'[u] = IF u = t /\ last THEN old ELSE
                                            IF u = t THEN None ELSE dropped[u]
    BY <2>1 DEF BufferTypeOK
  <2>3. old # None => /\ ~InPool(old) /\ old \in made
                      /\ \A u \in Threads : dropped[u] # old
                      /\ \A u \in Threads \ {t} : ~RefOfThread(u, old)
    BY <2>1 DEF NoneLost, HeldByThread, RefOfThread, ByOneThread, BufferTypeOK
  <2>4. ByOneThread'
    BY <2>1, <2>2, <2>3 DEF ByOneThread, RefOfThread
  <2>5. PooledOnce'
    BY <2>1 DEF PooledOnce
  <2>6. \A d \in made : /\ InPool(d)' <=> InPool(d)
                        /\ HeldByBuffer(d)' <=> HeldByBuffer(d)
                        /\ d # None
    BY <2>1 DEF InPool, HeldByBuffer, BufferTypeOK, ConstantsFit
  <2>7. ASSUME NEW d \in made, d # old \/ d = got[t]
        PROVE  HeldByThread(d)' <=> HeldByThread(d)
    <3>1. CASE d = got[t]
      BY <3>1, <2>2 DEF HeldByThread, RefOfThread
    <3>2. CASE d # got[t]
      BY <3>2, <2>7, <2>2, <2>6 DEF HeldByThread, RefOfThread
    <3>. QED
      BY <3>1, <3>2
  <2>8. old # None /\ old # got[t] => ~HeldByThread(old)' /\ HeldByThread(old)
    BY <2>2, <2>3 DEF HeldByThread, RefOfThread
  <2>9. \A d \in made : (\E u \in Threads : dropped'[u] = d) <=>
                        (d = old /\ last) \/ \E u \in Threads : dropped[u] = d
    BY <2>1, <2>2, <2>6
  <2>10. NoneLost'
    <3>. SUFFICES ASSUME NEW d \in made
                  PROVE  LET held == HeldByThread(d)' \/ HeldByBuffer(d)'
                             returning == \E u \in Threads : dropped'[u] = d
                         IN /\ InPool(d)' \/ held \/ returning
                            /\ InPool(d)' => ~held /\ ~returning
                            /\ returning => ~held
      BY <2>1 DEF NoneLost
    <3>1. CASE d = old /\ d # got[t]
      BY <3>1, <2>3, <2>6, <2>8, <2>9
    <3>2. CASE d # old \/ d = got[t]
      BY <3>2, <2>6, <2>7, <2>9 DEF NoneLost
    <3>. QED
      BY <3>1, <3>2
  <2>. QED
    BY <2>4, <2>5, <2>10 DEF OneHolder
<1>6. ASSUME NEW t \in Threads, Push(t)
      PROVE  OneHolder'
  <2>. DEFINE n == Len(pool)
              c == dropped[t]
  <2>1. /\ c # None /\ c \in made
        /\ dropped' = [dropped EXCEPT ![t] = None]
        /\ UNCHANGED <<current, got, made, live, place>>
    BY <1>6 DEF Push, Local, BufferTypeOK
  <2>2. /\ n \in Nat /\ Len(pool') = n + 1 /\ pool'[n + 1] = c
        /\ \A i \in 1 .. n : pool'[i] = pool[i]
    BY <1>6, <2>1, PushGrows DEF Push, BufferTypeOK
  <2>3. \A u \in Threads : dropped'[u] = IF u = t THEN None ELSE dropped[u]
    BY <2>1 DEF BufferTypeOK
  <2>4. ~InPool(c) /\ ~HeldByThread(c) /\ ~HeldByBuffer(c)
    BY <2>1 DEF NoneLost
  <2>5. \A d \in made : /\ HeldByThread(d)' <=> HeldByThread(d)
                        /\ HeldByBuffer(d)' <=> HeldByBuffer(d)
    BY <2>1 DEF HeldByThread, RefOfThread, HeldByBuffer
  <2>6. \A d \in made : InPool(d)' <=> InPool(d) \/ d = c
    BY <2>2 DEF InPool
  <2>7. \A d \in made : (\E u \in Threads : dropped'[u] = d) <=>
                        d # c /\ \E u \in Threads : dropped[u] = d
    BY <2>1, <2>3 DEF ByOneThread, BufferTypeOK, ConstantsFit
  <2>8. ByOneThread'
    BY <2>1, <2>3 DEF ByOneThread, RefOfThread
  <2>9. PooledOnce'
    BY <2>2, <2>4 DEF PooledOnce, InPool
  <2>10. NoneLost'
    BY <2>1, <2>4, <2>5, <2>6, <2>7 DEF NoneLost
  <2>. QED
    BY <2>8, <2>9, <2>10 DEF OneHolder
<1>7. ASSUME NEW t \in Threads, Reset(t)
      PROVE  OneHolder'
  BY <1>7 DEF Reset, OneHolder, ByOneThread, PooledOnce, NoneLost,
              InPool, HeldByThread, RefOfThread, HeldByBuffer
<1>8. ASSUME NEW t \in Threads, Cut(t)
      PROVE  OneHolder'
  <2>. DEFINE c == current[t]
              p == packet[t]
  <2>1. /\ c # None /\ c \in made /\ UNCHANGED <<current, got, dropped, made, pool>>
        /\ live' = live \cup {p}
        /\ place' = [q \in DOMAIN place \cup {p} |->
                      IF q = p THEN [chunk |-> c, at |-> used[c]] ELSE place[q]]
    BY <1>8 DEF Cut, Local, BufferTypeOK
  <2>2. \A d \in made : HeldByBuffer(d)' => HeldByBuffer(d) \/ d = c
    BY <2>1 DEF HeldByBuffer, BufferTypeOK
  <2>3. \A d \in made : HeldByBuffer(d) => HeldByBuffer(d)'
    BY <2>1 DEF HeldByBuffer, BufferTypeOK, OneBuffer
  <2>4. \A d \in made : (InPool(d)' <=> InPool(d)) /\ (HeldByThread(d)' <=> HeldByThread(d))
    BY <2>1 DEF InPool, HeldByThread, RefOfThread
  <2>5. HeldByThread(c)
    BY DEF HeldByThread, RefOfThread
  <2>6. ByOneThread' /\ PooledOnce'
    BY <2>1 DEF ByOneThread, PooledOnce, RefOfThread
  <2>7. NoneLost'
    BY <2>1, <2>2, <2>3, <2>4, <2>5 DEF NoneLost
  <2>. QED
    BY <2>6, <2>7 DEF OneHolder
<1>. QED
  BY <1>1, <1>2, <1>3, <1>4, <1>5, <1>6, <1>7, <1>8 DEF BufferNext, bufferVars, OneHolder, ByOneThread,
     PooledOnce, NoneLost, InPool, HeldByThread, RefOfThread, HeldByBuffer

-----------------------------------------------------------------------------
(* The bytes                                                               *)

LEMMA BytesStep ==
  ASSUME ConstantsFit, BufferTypeOK, Local, OneBuffer, OneHolder, ByteParts, [BufferNext]_bufferVars
  PROVE  ByteParts'
<1>. ByOneThread /\ NoneLost /\ Empty /\ Below /\ NoByteShared /\ Served
  BY DEF OneHolder, ByteParts
<1>1. ASSUME NEW t \in Threads, NEW p \in Packets, BeginAcquire(t, p)
      PROVE  ByteParts'
  <2>1. Served'
    BY <1>1 DEF BeginAcquire, Served, BufferTypeOK, FreeSize
  <2>2. Empty'
    BY <1>1 DEF BeginAcquire, Empty, BufferTypeOK, HeldByBuffer
  <2>. QED
    BY <1>1, <2>1, <2>2 DEF BeginAcquire, ByteParts, Below, NoByteShared
<1>2. ASSUME NEW t \in Threads, NEW p \in Packets, Destroy(t, p)
      PROVE  ByteParts'
  <2>1. Served'
    BY <1>2 DEF Destroy, Served, BufferTypeOK, FreeSize
  <2>2. Empty'
    BY <1>2 DEF Destroy, Empty, BufferTypeOK, HeldByBuffer, Local
  <2>. QED
    BY <1>2, <2>1, <2>2 DEF Destroy, ByteParts, Below, NoByteShared
<1>3. ASSUME NEW t \in Threads, PopOld(t)
      PROVE  ByteParts'
  <2>. PICK c : c = pool[Len(pool)]
    OBVIOUS
  <2>1. c \in made /\ InPool(c)
    <3>1. Len(pool) \in Nat \ {0} /\ c \in made
      BY <1>3, PopShrinks DEF PopOld, BufferTypeOK
    <3>. QED
      BY <3>1 DEF InPool
  <2>2. ~HeldByBuffer(c)
    BY <2>1 DEF NoneLost
  <2>3. Served'
    BY <1>3 DEF PopOld, Served, BufferTypeOK, FreeSize
  <2>4. Empty'
    BY <1>3, <2>2 DEF PopOld, Empty, BufferTypeOK, HeldByBuffer
  <2>. QED
    BY <1>3, <2>3, <2>4 DEF PopOld, ByteParts, Below, NoByteShared
<1>4. ASSUME NEW t \in Threads, PopNew(t)
      PROVE  ByteParts'
  <2>. PICK c \in Chunks \ made : /\ got' = [got EXCEPT ![t] = c]
                                  /\ used' = [used EXCEPT ![c] = 0]
    BY <1>4 DEF PopNew
  <2>1. /\ \A q \in live : place[q].chunk \in made /\ place[q].chunk # c
        /\ \A u \in Threads : current[u] # None => current[u] \in made /\ current[u] # c
    BY DEF BufferTypeOK
  <2>2. \A d \in made : used'[d] = used[d]
    BY DEF BufferTypeOK
  <2>3. Served'
    BY <1>4, <2>1, <2>2 DEF PopNew, Served, BufferTypeOK, FreeSize
  <2>4. Empty'
    BY <1>4, <2>1 DEF PopNew, Empty, BufferTypeOK, HeldByBuffer
  <2>. QED
    BY <1>4, <2>1, <2>2, <2>3, <2>4 DEF PopNew, ByteParts, Below, NoByteShared
<1>5. ASSUME NEW t \in Threads, Assign(t)
      PROVE  ByteParts'
  <2>1. Served'
    BY <1>5 DEF Assign, Served, BufferTypeOK, FreeSize
  <2>2. Empty'
    BY <1>5 DEF Assign, Empty, BufferTypeOK, HeldByBuffer
  <2>. QED
    BY <1>5, <2>1, <2>2 DEF Assign, ByteParts, Below, NoByteShared
<1>6. ASSUME NEW t \in Threads, Push(t)
      PROVE  ByteParts'
  <2>1. Served'
    BY <1>6 DEF Push, Served, BufferTypeOK, FreeSize
  <2>2. Empty'
    BY <1>6 DEF Push, Empty, BufferTypeOK, HeldByBuffer
  <2>. QED
    BY <1>6, <2>1, <2>2 DEF Push, ByteParts, Below, NoByteShared
<1>7. ASSUME NEW t \in Threads, Reset(t)
      PROVE  ByteParts'
  <2>. PICK c : c = current[t]
    OBVIOUS
  <2>1. /\ c # None /\ c \in Chunks /\ packet[t] \in Packets
        /\ \A q \in live : place[q].chunk # c
        /\ \A u \in Threads \ {t} : current[u] # c
    BY <1>7 DEF Reset, BufferTypeOK, Local, Empty, HeldByBuffer, ByOneThread, RefOfThread
  <2>2. /\ used'[c] = 0 /\ \A d \in Chunks \ {c} : used'[d] = used[d]
        /\ \A q \in live : place[q].chunk \in Chunks
    BY <1>7, <2>1 DEF Reset, BufferTypeOK
  <2>3. ChunkSize - 0 >= Size[packet[t]]
    BY <2>1 DEF ConstantsFit
  <2>4. ASSUME NEW u \in Threads, step'[u] = "cut"
        PROVE  current[u] # None /\ ChunkSize - used'[current[u]] >= Size[packet[u]]
    <3>1. CASE u = t
      BY <3>1, <2>1, <2>2, <2>3
    <3>2. CASE u # t
      <4>1. step[u] = "cut" /\ current[u] # None /\ current[u] \in Chunks \ {c}
        BY <1>7, <2>1, <2>4, <3>2 DEF Reset, BufferTypeOK, Local
      <4>. QED
        BY <4>1, <2>2 DEF Served, FreeSize
    <3>. QED
      BY <3>1, <3>2
  <2>5. Served'
    BY <1>7, <2>4 DEF Reset, Served, FreeSize
  <2>6. Empty'
    BY <1>7 DEF Reset, Empty, BufferTypeOK, HeldByBuffer
  <2>7. Below'
    BY <1>7, <2>1, <2>2 DEF Reset, Below
  <2>. QED
    BY <1>7, <2>5, <2>6, <2>7 DEF Reset, ByteParts, NoByteShared
<1>8. ASSUME NEW t \in Threads, Cut(t)
      PROVE  ByteParts'
  <2>. PICK c, p, a : c = current[t] /\ p = packet[t] /\ a = used[current[t]]
    OBVIOUS
  <2>1. /\ c # None /\ c \in Chunks /\ p \in Packets /\ p \notin live
        /\ \A u \in Threads \ {t} : current[u] # c /\ got[u] # c
    BY <1>8 DEF Cut, BufferTypeOK, Local, OneBuffer, ByOneThread, RefOfThread
  <2>2. /\ a \in Nat /\ Size[p] \in Nat /\ a + Size[p] <= ChunkSize /\ ChunkSize \in Nat
        /\ used'[c] = a + Size[p] /\ \A d \in Chunks \ {c} : used'[d] = used[d]
        /\ live' = live \cup {p}
        /\ \A q \in live : place'[q] = place[q]
        /\ place'[p] = [chunk |-> c, at |-> a]
    <3>1. a \in 0 .. ChunkSize /\ Size[p] \in 0 .. ChunkSize /\ ChunkSize \in Nat
      BY <2>1 DEF BufferTypeOK, ConstantsFit
    <3>2. a + Size[p] <= ChunkSize
      BY <1>8, <3>1 DEF Cut, FreeSize
    <3>3. used'[c] = a + Size[p] /\ \A d \in Chunks \ {c} : used'[d] = used[d]
      BY <1>8, <2>1 DEF Cut, BufferTypeOK
    <3>4. /\ live' = live \cup {p} /\ \A q \in live : place'[q] = place[q]
          /\ place'[p] = [chunk |-> c, at |-> a]
      BY <1>8, <2>1 DEF Cut, BufferTypeOK
    <3>. QED
      BY <3>1, <3>2, <3>3, <3>4
  <2>3. \A q \in live : /\ place[q].chunk \in Chunks /\ place[q].at \in Nat /\ Size[q] \in Nat
                        /\ used[place[q].chunk] \in Nat
                        /\ place[q].chunk = c => place[q].at + Size[q] <= a
    BY DEF BufferTypeOK, ConstantsFit, Below
  <2>4. Served'
    BY <1>8, <2>1, <2>2 DEF Cut, Served, BufferTypeOK, FreeSize, Local
  <2>5. Empty'
    <3>1. /\ step'[t] = "idle" /\ UNCHANGED <<current, got>>
          /\ \A u \in Threads \ {t} : step'[u] = step[u] /\ packet'[u] = packet[u]
      BY <1>8 DEF Cut, BufferTypeOK
    <3>2. ASSUME NEW u \in Threads \ {t}
          PROVE  /\ ~HeldByBuffer(got[u]) => ~HeldByBuffer(got[u])'
                 /\ ~HeldByBuffer(current[u]) => ~HeldByBuffer(current[u])'
      BY <2>1, <2>2, <3>1 DEF HeldByBuffer
    <3>. QED
      BY <3>1, <3>2 DEF Empty
  <2>6. Below'
    <3>1. place'[p].at + Size[p] <= used'[place'[p].chunk]
      BY <2>2
    <3>2. ASSUME NEW q \in live
          PROVE  place[q].at + Size[q] <= used'[place[q].chunk]
      BY <2>2, <2>3 DEF Below
    <3>. QED
      BY <2>2, <3>1, <3>2 DEF Below
  <2>7. NoByteShared'
    <3>1. \A q \in live : place'[q].chunk = c => place'[q].at + Size[q] <= place'[p].at
      BY <2>2, <2>3
    <3>2. place'[p].at + Size[p] <= ChunkSize /\ place'[p].chunk = c
      BY <2>2
    <3>. QED
      BY <2>2, <3>1, <3>2 DEF NoByteShared
  <2>. QED
    BY <2>4, <2>5, <2>6, <2>7 DEF ByteParts
<1>9. ASSUME UNCHANGED bufferVars
      PROVE  ByteParts'
  BY <1>9 DEF bufferVars, ByteParts, Empty, Below, NoByteShared, Served, HeldByBuffer, FreeSize
<1>. QED
  BY <1>1, <1>2, <1>3, <1>4, <1>5, <1>6, <1>7, <1>8, <1>9 DEF BufferNext

-----------------------------------------------------------------------------
(* The theorems                                                            *)

LEMMA BufferInvHolds ==
  ASSUME ConstantsFit
  PROVE  BufferSpec => []BufferInv
<1>1. BufferInit => BufferInv
  BY InitHolds
<1>2. BufferInv /\ [BufferNext]_bufferVars => BufferInv'
  <2>. SUFFICES ASSUME BufferInv, [BufferNext]_bufferVars
                PROVE  BufferInv'
    OBVIOUS
  <2>1. BufferTypeOK /\ Local /\ OneBuffer /\ OneHolder /\ ByteParts /\ Served
    BY DEF BufferInv, ByteParts
  <2>2. BufferTypeOK' /\ Local' /\ OneBuffer'
    BY <2>1, TypeStep, LocalStep
  <2>3. OneHolder' /\ ByteParts'
    BY <2>1, HolderStep, BytesStep
  <2>. QED
    BY <2>2, <2>3 DEF BufferInv
<1>. QED
  BY <1>1, <1>2, PTL DEF BufferSpec

\* No packet is written over by a later one while somebody may still send it, whoever
\* gives up its buffer and whenever a chunk is begun anew (SendBuffer.cpp:7-22, 33-71).
THEOREM PacketsAreIntact ==
  ASSUME ConstantsFit
  PROVE  BufferSpec => []NoByteShared
<1>1. BufferInv => NoByteShared
  BY DEF BufferInv, ByteParts
<1>. QED
  BY <1>1, BufferInvHolds, PTL

\* Two threads never cut one chunk, the manager never hands out a chunk in use, and a
\* chunk is made only when all others are in use or on their way back
\* (SendBuffer.cpp:55-91).
THEOREM ChunksGoRound ==
  ASSUME ConstantsFit
  PROVE  BufferSpec => []OneHolder
<1>1. BufferInv => OneHolder
  BY DEF BufferInv
<1>. QED
  BY <1>1, BufferInvHolds, PTL

\* The pointer that Acquire returns is never null (SendBuffer.cpp:38-47, 55-71).
THEOREM AcquireServes ==
  ASSUME ConstantsFit
  PROVE  BufferSpec => []Served
<1>1. BufferInv => Served
  BY DEF BufferInv, ByteParts
<1>. QED
  BY <1>1, BufferInvHolds, PTL

-----------------------------------------------------------------------------
(* SendBatch: sequences of packets                                         *)

LEMMA JoinAt ==
  ASSUME NEW s \in Seq(Nat), NEW u \in Seq(Nat)
  PROVE  /\ s \o u \in Seq(Nat)
         /\ \A i \in DOMAIN (s \o u) :
              \/ i \in DOMAIN s /\ (s \o u)[i] = s[i]
              \/ i \notin DOMAIN s /\ i - Len(s) \in DOMAIN u /\ (s \o u)[i] = u[i - Len(s)]
         /\ \A i \in DOMAIN s : i \in DOMAIN (s \o u) /\ (s \o u)[i] = s[i]
         /\ \A i \in DOMAIN u : Len(s) + i \in DOMAIN (s \o u) /\ (s \o u)[Len(s) + i] = u[i]
<1>1. Len(s) \in Nat /\ Len(u) \in Nat /\ DOMAIN s = 1..Len(s) /\ DOMAIN u = 1..Len(u)
  OBVIOUS
<1>2. s \o u \in Seq(Nat) /\ DOMAIN (s \o u) = 1..Len(s) + Len(u)
  BY <1>1, ConcatProperties
<1>3. \A i \in 1..Len(s) + Len(u) : (s \o u)[i] = IF i <= Len(s) THEN s[i] ELSE u[i - Len(s)]
  BY ConcatProperties
<1>4. ASSUME NEW i \in DOMAIN (s \o u)
      PROVE  \/ i \in DOMAIN s /\ (s \o u)[i] = s[i]
             \/ i \notin DOMAIN s /\ i - Len(s) \in DOMAIN u /\ (s \o u)[i] = u[i - Len(s)]
  <2>1. i \in 1..Len(s) + Len(u)
    BY <1>2
  <2>2. CASE i <= Len(s)
    BY <1>1, <1>3, <2>1, <2>2
  <2>3. CASE ~ (i <= Len(s))
    <3>1. i \notin DOMAIN s /\ i - Len(s) \in DOMAIN u
      BY <1>1, <2>1, <2>3
    <3> QED BY <1>3, <2>1, <2>3, <3>1
  <2> QED BY <2>2, <2>3
<1>5. ASSUME NEW i \in DOMAIN s
      PROVE  i \in DOMAIN (s \o u) /\ (s \o u)[i] = s[i]
  <2>1. i \in 1..Len(s) + Len(u) /\ i <= Len(s)
    BY <1>1
  <2> QED BY <1>2, <1>3, <2>1
<1>6. ASSUME NEW i \in DOMAIN u
      PROVE  Len(s) + i \in DOMAIN (s \o u) /\ (s \o u)[Len(s) + i] = u[i]
  <2>1. Len(s) + i \in 1..Len(s) + Len(u) /\ ~ (Len(s) + i <= Len(s)) /\ (Len(s) + i) - Len(s) = i
    BY <1>1
  <2>2. (s \o u)[Len(s) + i] = u[(Len(s) + i) - Len(s)]
    BY <1>3, <2>1
  <2> QED BY <1>2, <2>1, <2>2
<1> QED BY <1>2, <1>4, <1>5, <1>6

LEMMA JoinHas ==
  ASSUME NEW s \in Seq(Nat), NEW u \in Seq(Nat), NEW p
  PROVE  Has(s \o u, p) <=> Has(s, p) \/ Has(u, p)
<1> DEFINE j == s \o u
<1>1. ASSUME Has(j, p)
      PROVE  Has(s, p) \/ Has(u, p)
  <2>1. PICK i \in DOMAIN j : j[i] = p
    BY <1>1 DEF Has
  <2> QED BY <2>1, JoinAt DEF Has
<1>2. ASSUME Has(s, p)
      PROVE  Has(j, p)
  <2>1. PICK i \in DOMAIN s : s[i] = p
    BY <1>2 DEF Has
  <2> QED BY <2>1, JoinAt DEF Has
<1>3. ASSUME Has(u, p)
      PROVE  Has(j, p)
  <2>1. PICK i \in DOMAIN u : u[i] = p
    BY <1>3 DEF Has
  <2>2. Len(s) + i \in DOMAIN j /\ j[Len(s) + i] = p
    BY <2>1, JoinAt
  <2> HIDE DEF j
  <2> QED BY <2>2 DEF Has
<1> QED BY <1>1, <1>2, <1>3

LEMMA BeforeIsApart ==
  ASSUME NEW s \in Seq(Nat), NEW u \in Seq(Nat), Before(s, u)
  PROVE  Apart(s, u) /\ Apart(u, s)
<1> SUFFICES ASSUME NEW i \in DOMAIN s, NEW k \in DOMAIN u
             PROVE  s[i] # u[k]
  BY DEF Apart
<1>1. s[i] \in Nat /\ u[k] \in Nat /\ s[i] < u[k]
  BY DEF Before
<1> QED BY <1>1

LEMMA ApartIsSymmetric ==
  ASSUME NEW s, NEW u, Apart(s, u)
  PROVE  Apart(u, s)
BY DEF Apart

LEMMA AscendingIsOnce ==
  ASSUME NEW s \in Seq(Nat), Ascending(s)
  PROVE  Once(s)
<1> SUFFICES ASSUME NEW i \in DOMAIN s, NEW k \in DOMAIN s, i # k, s[i] # Direct
             PROVE  s[i] # s[k]
  BY DEF Once
<1>1. i \in Nat /\ k \in Nat /\ s[i] \in Nat /\ s[k] \in Nat
  OBVIOUS
<1>2. CASE i < k
  BY <1>1, <1>2 DEF Ascending
<1>3. CASE k < i
  BY <1>1, <1>3 DEF Ascending
<1> QED BY <1>1, <1>2, <1>3

LEMMA JoinRelations ==
  ASSUME NEW s \in Seq(Nat), NEW u \in Seq(Nat), NEW x \in Seq(Nat)
  PROVE  /\ Before(s, x) /\ Before(u, x) => Before(s \o u, x)
         /\ Apart(s, x) /\ Apart(u, x) => Apart(s \o u, x)
<1>1. ASSUME NEW i \in DOMAIN (s \o u)
      PROVE  \/ \E k \in DOMAIN s : (s \o u)[i] = s[k]
             \/ \E k \in DOMAIN u : (s \o u)[i] = u[k]
  <2>1. \/ i \in DOMAIN s /\ (s \o u)[i] = s[i]
        \/ i \notin DOMAIN s /\ i - Len(s) \in DOMAIN u /\ (s \o u)[i] = u[i - Len(s)]
    BY JoinAt
  <2> QED BY <2>1
<1>2. ASSUME Before(s, x), Before(u, x)
      PROVE  Before(s \o u, x)
  BY <1>1, <1>2 DEF Before
<1>3. ASSUME Apart(s, x), Apart(u, x)
      PROVE  Apart(s \o u, x)
  BY <1>1, <1>3 DEF Apart
<1> QED BY <1>2, <1>3

LEMMA JoinOnce ==
  ASSUME NEW s \in Seq(Nat), NEW u \in Seq(Nat), Once(s), Once(u), Apart(s, u)
  PROVE  Once(s \o u)
<1> DEFINE j == s \o u
<1> SUFFICES ASSUME NEW i \in DOMAIN j, NEW k \in DOMAIN j, i # k
             PROVE  j[i] = Direct \/ j[i] # j[k]
  BY DEF Once
<1>1. i \in Nat /\ k \in Nat /\ Len(s) \in Nat
  <2>1. j \in Seq(Nat)
    BY JoinAt
  <2> QED BY <2>1
<1>2. \/ i \in DOMAIN s /\ j[i] = s[i]
      \/ i \notin DOMAIN s /\ i - Len(s) \in DOMAIN u /\ j[i] = u[i - Len(s)]
  BY JoinAt
<1>3. \/ k \in DOMAIN s /\ j[k] = s[k]
      \/ k \notin DOMAIN s /\ k - Len(s) \in DOMAIN u /\ j[k] = u[k - Len(s)]
  BY JoinAt
<1> HIDE DEF j
<1>4. i - Len(s) # k - Len(s)
  BY <1>1
<1>5. Apart(u, s)
  BY ApartIsSymmetric
<1> QED BY <1>2, <1>3, <1>4, <1>5 DEF Once, Apart

LEMMA JoinAfter ==
  ASSUME NEW s \in Seq(Nat), NEW u \in Seq(Nat), NEW v \in Seq(Nat), Before(s, u), Before(s, v)
  PROVE  Before(s, u \o v)
<1> SUFFICES ASSUME NEW i \in DOMAIN s, NEW k \in DOMAIN (u \o v)
             PROVE  s[i] < (u \o v)[k]
  BY DEF Before
<1>1. \/ k \in DOMAIN u /\ (u \o v)[k] = u[k]
      \/ k - Len(u) \in DOMAIN v /\ (u \o v)[k] = v[k - Len(u)]
  BY JoinAt
<1> QED BY <1>1 DEF Before

LEMMA JoinAscending ==
  ASSUME NEW s \in Seq(Nat), NEW u \in Seq(Nat), Ascending(s), Ascending(u), Before(s, u)
  PROVE  Ascending(s \o u)
<1> DEFINE j == s \o u
<1> SUFFICES ASSUME NEW i \in DOMAIN j, NEW k \in DOMAIN j, i < k
             PROVE  j[k] = Direct \/ j[i] < j[k]
  BY DEF Ascending
<1>1. i \in Nat /\ k \in Nat /\ Len(s) \in Nat /\ DOMAIN s = 1..Len(s) /\ i >= 1
  <2>1. j \in Seq(Nat)
    BY JoinAt
  <2> QED BY <2>1
<1>2. \/ i \in DOMAIN s /\ j[i] = s[i]
      \/ i \notin DOMAIN s /\ i - Len(s) \in DOMAIN u /\ j[i] = u[i - Len(s)]
  BY JoinAt
<1>3. \/ k \in DOMAIN s /\ j[k] = s[k]
      \/ k \notin DOMAIN s /\ k - Len(s) \in DOMAIN u /\ j[k] = u[k - Len(s)]
  BY JoinAt
<1> HIDE DEF j
<1>4. CASE k \in DOMAIN s
  <2>1. i \in DOMAIN s
    BY <1>1, <1>4
  <2> QED BY <1>2, <1>3, <1>4, <2>1 DEF Ascending
<1>5. CASE k \notin DOMAIN s /\ i \in DOMAIN s
  BY <1>2, <1>3, <1>5 DEF Before
<1>6. CASE k \notin DOMAIN s /\ i \notin DOMAIN s
  <2>1. i - Len(s) < k - Len(s)
    BY <1>1
  <2> QED BY <1>2, <1>3, <1>6, <2>1 DEF Ascending
<1> QED BY <1>4, <1>5, <1>6

LEMMA OfOne ==
  ASSUME NEW p \in Nat
  PROVE  /\ <<p>> \in Seq(Nat) /\ Once(<<p>>) /\ Ascending(<<p>>)
         /\ \A q : Has(<<p>>, q) <=> q = p
         /\ \A s \in Seq(Nat) : Append(s, p) = s \o <<p>>
<1>1. DOMAIN <<p>> = {1} /\ <<p>>[1] = p /\ <<p>> \in Seq(Nat)
  OBVIOUS
<1>2. \A s \in Seq(Nat) : Append(s, p) = s \o <<p>>
  OBVIOUS
<1> QED BY <1>1, <1>2 DEF Once, Ascending, Has

-----------------------------------------------------------------------------
(* SendBatch: the bytes of a batch                                         *)

LEMMA SetInduction ==
  ASSUME NEW S, 0 \in S, \A n \in Nat : n \in S => n + 1 \in S
  PROVE  Nat \subseteq S
<1> SUFFICES ASSUME NEW x \in Nat, x \notin S
             PROVE  FALSE
  OBVIOUS
<1> DEFINE Missing == {n \in 0..x : n \notin S}
           pred == [n \in Missing |-> n - 1]
<1>1. \A n \in Missing : n - 1 \in Missing
  <2> SUFFICES ASSUME NEW n \in Missing
               PROVE  n - 1 \in Missing
    OBVIOUS
  <2>1. n \in Nat /\ n # 0 /\ n <= x
    OBVIOUS
  <2>2. n - 1 \in Nat /\ (n - 1) + 1 = n /\ n - 1 \in 0..x
    BY <2>1
  <2> QED BY <2>2
<1>2. pred \in Injection(Missing, Missing)
  <2>1. pred \in [Missing -> Missing]
    BY <1>1
  <2>2. \A m, n \in Missing : pred[m] = pred[n] => m = n
    OBVIOUS
  <2> QED BY <2>1, <2>2 DEF Injection, IsInjective
<1>3. IsFiniteSet(Missing)
  <2>1. IsFiniteSet(0..x) /\ Missing \subseteq 0..x
    BY FS_Interval
  <2> QED BY <2>1, FS_Subset
<1>4. pred \in Surjection(Missing, Missing)
  BY <1>2, <1>3, FS_Injection
<1>5. PICK n \in Missing : pred[n] = x
  <2>1. x \in Missing
    OBVIOUS
  <2> HIDE DEF Missing
  <2>2. \A a \in Missing : \E n \in Missing : pred[n] = a
    BY <1>4 DEF Surjection
  <2> QED BY <2>1, <2>2
<1> QED BY <1>5

\* Function f adds up the sizes of the first n packets of s.
AddsUp(f, s, n) == f = [i \in 0..n |-> IF i = 0 THEN 0 ELSE f[i - 1] + SizeOf[s[i]]]

LEMMA SumExists ==
  ASSUME NEW s
  PROVE  \A n \in Nat : \E f : AddsUp(f, s, n)
<1> DEFINE S == {n \in Nat : \E f : AddsUp(f, s, n)}
<1>1. 0 \in S
  <2>1. AddsUp([i \in {0} |-> 0], s, 0)
    BY DEF AddsUp
  <2> QED BY <2>1
<1>2. ASSUME NEW n \in Nat, n \in S
      PROVE  n + 1 \in S
  <2>1. PICK f : AddsUp(f, s, n)
    BY <1>2
  <2> DEFINE g == [i \in 0..n + 1 |-> IF i = 0 THEN 0 ELSE f[i - 1] + SizeOf[s[i]]]
  <2>2. \A i \in 0..n : g[i] = f[i]
    <3> SUFFICES ASSUME NEW i \in 0..n
                 PROVE  g[i] = f[i]
      OBVIOUS
    <3>1. i \in 0..n + 1
      OBVIOUS
    <3>2. g[i] = IF i = 0 THEN 0 ELSE f[i - 1] + SizeOf[s[i]]
      BY <3>1
    <3> QED BY <2>1, <3>2 DEF AddsUp
  <2>3. \A i \in 0..n + 1 : i # 0 => g[i] = g[i - 1] + SizeOf[s[i]]
    <3> SUFFICES ASSUME NEW i \in 0..n + 1, i # 0
                 PROVE  g[i] = g[i - 1] + SizeOf[s[i]]
      OBVIOUS
    <3>1. i - 1 \in 0..n /\ g[i] = f[i - 1] + SizeOf[s[i]]
      OBVIOUS
    <3> HIDE DEF g
    <3> QED BY <2>2, <3>1
  <2>4. AddsUp(g, s, n + 1)
    <3>1. g = [i \in 0..n + 1 |-> IF i = 0 THEN 0 ELSE g[i - 1] + SizeOf[s[i]]]
      BY <2>3
    <3> HIDE DEF g
    <3> QED BY <3>1 DEF AddsUp
  <2> HIDE DEF g
  <2> QED BY <2>4
<1>3. Nat \subseteq S
  <2>1. \A n \in Nat : n \in S => n + 1 \in S
    BY <1>2
  <2> HIDE DEF S
  <2> QED BY <1>1, <2>1, SetInduction
<1> QED BY <1>3

LEMMA BytesRule ==
  ASSUME NEW s \in Seq(Packet)
  PROVE  \E f : AddsUp(f, s, Len(s)) /\ Bytes(s) = f[Len(s)]
<1> DEFINE Sum(f) == AddsUp(f, s, Len(s))
<1>1. \E f : Sum(f)
  <2>1. Len(s) \in Nat
    OBVIOUS
  <2> QED BY <2>1, SumExists
<1>2. Bytes(s) = (CHOOSE f : Sum(f))[Len(s)]
  BY DEF Bytes, AddsUp
<1> HIDE DEF Sum
<1>3. Sum(CHOOSE f : Sum(f))
  BY <1>1
<1> QED BY <1>2, <1>3 DEF Sum

LEMMA BytesOfNone == Bytes(<<>>) = 0
<1>1. <<>> \in Seq(Packet) /\ Len(<<>>) = 0
  OBVIOUS
<1>2. PICK f : AddsUp(f, <<>>, 0) /\ Bytes(<<>>) = f[0]
  BY <1>1, BytesRule
<1>3. 0 \in 0..0
  OBVIOUS
<1> QED BY <1>2, <1>3 DEF AddsUp

LEMMA BytesOfOneMore ==
  ASSUME NEW s \in Seq(Packet), NEW p \in Packet
  PROVE  Bytes(Append(s, p)) = Bytes(s) + SizeOf[p]
<1> DEFINE u == Append(s, p)
           n == Len(s)
<1>1. n \in Nat /\ u \in Seq(Packet) /\ Len(u) = n + 1 /\ u[n + 1] = p /\ \A i \in 1..n : u[i] = s[i]
  OBVIOUS
<1>2. PICK f : AddsUp(f, s, n) /\ Bytes(s) = f[n]
  BY BytesRule
<1> HIDE DEF u
<1>3. PICK g : AddsUp(g, u, n + 1) /\ Bytes(u) = g[n + 1]
  BY <1>1, BytesRule
<1> HIDE DEF n
<1>4. \A i \in 0..n : g[i] = f[i]
  <2> DEFINE S == {i \in Nat : i <= n => g[i] = f[i]}
  <2>1. 0 \in S
    <3>1. 0 \in 0..n /\ 0 \in 0..n + 1
      BY <1>1
    <3> QED BY <1>2, <1>3, <3>1 DEF AddsUp
  <2>2. ASSUME NEW i \in Nat, i \in S
        PROVE  i + 1 \in S
    <3> SUFFICES ASSUME i + 1 <= n
                 PROVE  g[i + 1] = f[i + 1]
      OBVIOUS
    <3>1. i + 1 \in 0..n /\ i + 1 \in 0..n + 1 /\ i + 1 # 0 /\ (i + 1) - 1 = i /\ i + 1 \in 1..n /\ i <= n
      BY <1>1
    <3>2. g[i + 1] = g[i] + SizeOf[u[i + 1]]
      BY <1>3, <3>1 DEF AddsUp
    <3>3. f[i + 1] = f[i] + SizeOf[s[i + 1]]
      BY <1>2, <3>1 DEF AddsUp
    <3> QED BY <1>1, <2>2, <3>1, <3>2, <3>3
  <2>3. Nat \subseteq S
    <3>1. \A i \in Nat : i \in S => i + 1 \in S
      BY <2>2
    <3> HIDE DEF S
    <3> QED BY <2>1, <3>1, SetInduction
  <2> QED BY <1>1, <2>3
<1>5. g[n + 1] = g[n] + SizeOf[p]
  <2>1. n + 1 \in 0..n + 1 /\ n + 1 # 0 /\ (n + 1) - 1 = n
    BY <1>1
  <2> QED BY <1>1, <1>3, <2>1 DEF AddsUp
<1>6. n \in 0..n
  BY <1>1
<1> QED BY <1>2, <1>3, <1>4, <1>5, <1>6 DEF u

-----------------------------------------------------------------------------
(* SendBatch: the invariant                                                *)

\* A flusher has a batch only on the way from the swap to the session.
Carried == \A t \in Thread : batch[t] # <<>> => pc[t] \in {"check", "push"}

OneOnTheWay ==
  ~ overlap => \A t, u \in Thread : batch[t] # <<>> /\ batch[u] # <<>> => t = u

UpTo(s, n) == \A i \in DOMAIN s : s[i] <= n
Numbered ==
  UpTo(sendPackets, stored) /\ UpTo(sent, stored) /\ \A t \in Thread : UpTo(batch[t], stored)

BatchKept == Carried /\ OneOnTheWay /\ Numbered /\ KeptInOrder

BatchInv == TypeOK /\ BatchKept /\ FullBatchLeaves /\ FlagNotStuck

LEMMA Threads3 ==
  /\ \A c \in Caller : c \in Thread
  /\ FlushJob \in Thread /\ Loop \in Thread
BY DEF Thread

LEMMA PacketIsNumber == Packet \subseteq Nat /\ \A p \in Packet : p # Direct /\ p > Direct
BY BoundsAssumption DEF Packet, Direct

LEMMA SeqsOfNumbers ==
  ASSUME TypeOK
  PROVE  /\ sendPackets \in Seq(Nat) /\ sent \in Seq(Nat)
         /\ \A t \in Thread : batch[t] \in Seq(Nat)
<1>1. Packet \subseteq Nat /\ Packet \cup {Direct} \subseteq Nat
  BY PacketIsNumber DEF Direct
<1>2. ASSUME NEW S, S \subseteq Nat, NEW s \in Seq(S)
      PROVE  s \in Seq(Nat)
  <2>1. Len(s) \in Nat /\ s \in [1..Len(s) -> S]
    OBVIOUS
  <2>2. s \in [1..Len(s) -> Nat]
    BY <1>2, <2>1
  <2> QED BY <2>1, <2>2
<1>3. sendPackets \in Seq(Packet) /\ sent \in Seq(Packet \cup {Direct}) /\ \A t \in Thread : batch[t] \in Seq(Packet)
  BY DEF TypeOK
<1> QED BY <1>1, <1>2, <1>3

LEMMA BatchTypes ==
  ASSUME TypeOK, [Next]_vars
  PROVE  TypeOK'
<1> USE DEF TypeOK
<1>1. ASSUME NEW t \in Thread, NEW l \in Label, Goto(t, l)
      PROVE  pc' \in [Thread -> Label]
  BY <1>1 DEF Goto
<1>2. \A t \in Thread : Return(t) => pc' \in [Thread -> Label]
  BY DEF Return, Goto, Label
<1>3. ASSUME NEW c \in Caller, StorePacket(c)
      PROVE  TypeOK'
  <2>1. stored + 1 \in Packet /\ stored' = stored + 1 /\ stored' \in 0..MaxPackets
    BY <1>3, BoundsAssumption DEF StorePacket, Packet
  <2>2. sendPackets' \in Seq(Packet)
    BY <1>3, <2>1 DEF StorePacket
  <2>3. pendingBytes' \in Nat
    <3>1. SizeOf[stored'] \in Nat
      BY <2>1, SizeAssumption DEF Packet
    <3> QED BY <1>3, <3>1 DEF StorePacket
  <2>4. pc' \in [Thread -> Label]
    <3>1. \E l \in {"swap", "reserve"} : Goto(c, l)
      BY <1>3 DEF StorePacket
    <3> QED BY <1>1, <3>1, Threads3 DEF Label
  <2>5. UNCHANGED <<flags, closeVars, batch, sent, overlap>>
    BY <1>3 DEF StorePacket
  <2> QED BY <2>1, <2>2, <2>3, <2>4, <2>5 DEF flags, closeVars
<1>4. ASSUME NEW c \in Caller, ReserveFlush(c)
      PROVE  TypeOK'
  <2>1. canFlush' \in BOOLEAN /\ timers' \in Nat
    <3>1. \/ canFlush' = FALSE /\ timers' = timers + 1
          \/ canFlush' = canFlush /\ timers' = timers
      BY <1>4 DEF ReserveFlush, flags
    <3>2. timers' \in Nat
      BY <3>1
    <3>3. canFlush' \in BOOLEAN
      BY <3>1
    <3> QED BY <3>2, <3>3
  <2>2. pc' \in [Thread -> Label]
    BY <1>1, <1>4, Threads3 DEF ReserveFlush, Label
  <2>3. UNCHANGED <<sendPackets, pendingBytes, closeVars, batch, history>>
    BY <1>4 DEF ReserveFlush
  <2> QED BY <2>1, <2>2, <2>3 DEF closeVars, history
<1>5. CASE StartReservedFlush
  <2>1. timers' \in Nat
    BY <1>5 DEF StartReservedFlush
  <2>2. pc' \in [Thread -> Label]
    BY <1>1, <1>5, Threads3 DEF StartReservedFlush, Label
  <2>3. UNCHANGED <<sendPackets, pendingBytes, canFlush, closeVars, batch, history>>
    BY <1>5 DEF StartReservedFlush
  <2> QED BY <2>1, <2>2, <2>3 DEF closeVars, history
<1>6. CASE StartLoopFlush
  <2>1. pc' \in [Thread -> Label]
    BY <1>1, <1>6, Threads3 DEF StartLoopFlush, Label
  <2>2. UNCHANGED <<sendPackets, pendingBytes, flags, closeVars, batch, history>>
    BY <1>6 DEF StartLoopFlush
  <2> QED BY <2>1, <2>2 DEF flags, closeVars, history
<1>7. ASSUME NEW t \in Thread, SwapBatch(t)
      PROVE  TypeOK'
  <2>1. pc' \in [Thread -> Label]
    BY <1>1, <1>7 DEF SwapBatch, Label
  <2>2. batch' \in [Thread -> Seq(Packet)] /\ sendPackets' \in Seq(Packet)
    BY <1>7 DEF SwapBatch
  <2>3. pendingBytes' \in Nat /\ overlap' \in BOOLEAN
    BY <1>7 DEF SwapBatch
  <2>4. UNCHANGED <<flags, closeVars, sent, stored>>
    BY <1>7 DEF SwapBatch
  <2> QED BY <2>1, <2>2, <2>3, <2>4 DEF flags, closeVars
<1>8. ASSUME NEW t \in Thread, FlushNothing(t) \/ AllowFlush(t)
      PROVE  TypeOK'
  <2>1. pc' \in [Thread -> Label] /\ canFlush' \in BOOLEAN
    BY <1>2, <1>8 DEF FlushNothing, AllowFlush
  <2>2. UNCHANGED <<sendPackets, pendingBytes, timers, closeVars, batch, history>>
    BY <1>8 DEF FlushNothing, AllowFlush
  <2> QED BY <2>1, <2>2 DEF closeVars, history
<1>9. ASSUME NEW t \in Thread, CheckConnected(t)
      PROVE  TypeOK'
  <2>1. pc' \in [Thread -> Label]
    <3>1. \E l \in {"push", "allow"} : Goto(t, l)
      BY <1>9 DEF CheckConnected
    <3> QED BY <1>1, <3>1 DEF Label
  <2>2. batch' \in [Thread -> Seq(Packet)]
    <3>1. batch' = batch \/ batch' = [batch EXCEPT ![t] = <<>>]
      BY <1>9 DEF CheckConnected
    <3>2. <<>> \in Seq(Packet) /\ batch \in [Thread -> Seq(Packet)]
      OBVIOUS
    <3> QED BY <3>1, <3>2
  <2>3. UNCHANGED <<sendPackets, pendingBytes, flags, closeVars, history>>
    BY <1>9 DEF CheckConnected
  <2> QED BY <2>1, <2>2, <2>3 DEF flags, closeVars, history
<1>10. ASSUME NEW t \in Thread, PushBatch(t)
      PROVE  TypeOK'
  <2>1. pc' \in [Thread -> Label]
    BY <1>1, <1>10 DEF PushBatch, Label
  <2>2. batch' \in [Thread -> Seq(Packet)]
    BY <1>10 DEF PushBatch
  <2>3. sent' \in Seq(Packet \cup {Direct})
    <3>1. batch[t] \in Seq(Packet)
      OBVIOUS
    <3>2. batch[t] \in Seq(Packet \cup {Direct})
      <4>1. Len(batch[t]) \in Nat /\ batch[t] \in [1..Len(batch[t]) -> Packet \cup {Direct}]
        BY <3>1
      <4> QED BY <4>1
    <3>3. sent' = sent \o batch[t]
      BY <1>10 DEF PushBatch
    <3> QED BY <3>2, <3>3
  <2>4. UNCHANGED <<sendPackets, pendingBytes, flags, closeVars, stored, overlap>>
    BY <1>10 DEF PushBatch
  <2> QED BY <2>1, <2>2, <2>3, <2>4 DEF flags, closeVars
<1>11. CASE SendDirectly
  <2>1. sent' \in Seq(Packet \cup {Direct})
    BY <1>11 DEF SendDirectly
  <2>2. UNCHANGED <<sendPackets, pendingBytes, flags, closeVars, pc, batch, stored, overlap>>
    BY <1>11 DEF SendDirectly
  <2> QED BY <2>1, <2>2 DEF flags, closeVars
<1>12. CASE Close
  <2>1. CASE Disconnect
    BY <2>1 DEF Disconnect, flags, history
  <2>2. CASE DiscardPackets
    BY <2>2 DEF DiscardPackets, flags, history
  <2>3. CASE ForbidFlush
    BY <2>3 DEF ForbidFlush, history
  <2>4. CASE RemoveFromManager
    BY <2>4 DEF RemoveFromManager, flags, history
  <2> QED BY <1>12, <2>1, <2>2, <2>3, <2>4 DEF Close
<1>13. CASE UNCHANGED vars
  BY <1>13 DEF vars
<1> QED BY <1>3, <1>4, <1>5, <1>6, <1>7, <1>8, <1>9, <1>10, <1>11, <1>12, <1>13
        DEF Next, FlushSend

\* A step that changes no packet, or after which the session is not connected.
LEMMA PacketsStay ==
  ASSUME TypeOK, BatchKept, sent' = sent, sendPackets' = sendPackets, batch' = batch,
         stored' = stored, overlap' = overlap, connected' => connected,
         \A t \in Thread : batch[t] # <<>> => pc'[t] \in {"check", "push"}
  PROVE  BatchKept'
<1>1. Carried' /\ OneOnTheWay' /\ Numbered'
  BY DEF BatchKept, Carried, OneOnTheWay, Numbered
<1>2. KeptInOrder'
  BY DEF BatchKept, KeptInOrder, NoPacketDoubled, NoPacketLost, WaitsInOrder
<1> QED BY <1>1, <1>2 DEF BatchKept

LEMMA KeptByStore ==
  ASSUME TypeOK, BatchKept, NEW c \in Caller, StorePacket(c)
  PROVE  BatchKept'
<1>1. PICK p \in Packet : p = stored + 1
  BY BoundsAssumption DEF StorePacket, TypeOK, Packet
<1>2. /\ stored' = p /\ sendPackets' = Append(sendPackets, p)
      /\ sent' = sent /\ batch' = batch /\ overlap' = overlap /\ connected' = connected
  BY <1>1 DEF StorePacket, closeVars
<1>3. p \in Nat /\ stored \in Nat /\ stored < p /\ stored = p - 1
  BY <1>1, PacketIsNumber DEF TypeOK
<1>4. /\ sendPackets \in Seq(Nat) /\ sent \in Seq(Nat) /\ \A t \in Thread : batch[t] \in Seq(Nat)
  BY SeqsOfNumbers
<1>5. <<p>> \in Seq(Nat) /\ Ascending(<<p>>) /\ sendPackets' = sendPackets \o <<p>>
  BY <1>2, <1>3, <1>4, OfOne
<1>6. ASSUME NEW s \in Seq(Nat), UpTo(s, stored)
      PROVE  /\ Before(s, <<p>>) /\ UpTo(s, p)
             /\ Before(s, sendPackets) => Before(s, sendPackets \o <<p>>)
  <2>1. \A i \in DOMAIN s : s[i] \in Nat /\ s[i] < p
    BY <1>3, <1>6 DEF UpTo
  <2>2. Before(s, <<p>>) /\ UpTo(s, p)
    BY <1>3, <2>1 DEF Before, UpTo
  <2>3. Before(s, sendPackets) => Before(s, sendPackets \o <<p>>)
    BY <1>4, <1>5, <2>2, JoinAfter
  <2> QED BY <2>2, <2>3
<1>7. Carried' /\ OneOnTheWay'
  <2>1. ASSUME NEW t \in Thread, batch[t] # <<>>
        PROVE  pc'[t] = pc[t]
    <3>1. pc[t] # "idle" /\ pc[c] = "idle"
      BY <2>1 DEF BatchKept, Carried, StorePacket
    <3>2. PICK l : pc' = [pc EXCEPT ![c] = l]
      BY DEF StorePacket, Goto
    <3> QED BY <3>1, <3>2 DEF TypeOK
  <2> QED BY <1>2, <2>1 DEF BatchKept, Carried, OneOnTheWay
<1>8. Numbered'
  <2>1. UpTo(sent, p) /\ \A t \in Thread : UpTo(batch[t], p)
    BY <1>4, <1>6 DEF BatchKept, Numbered
  <2>2. UpTo(sendPackets \o <<p>>, p)
    <3> SUFFICES ASSUME NEW k \in DOMAIN (sendPackets \o <<p>>)
                 PROVE  (sendPackets \o <<p>>)[k] <= p
      BY DEF UpTo
    <3>1. \/ k \in DOMAIN sendPackets /\ (sendPackets \o <<p>>)[k] = sendPackets[k]
          \/ k - Len(sendPackets) \in DOMAIN <<p>> /\ (sendPackets \o <<p>>)[k] = <<p>>[k - Len(sendPackets)]
      BY <1>4, <1>5, JoinAt
    <3>2. UpTo(sendPackets, p)
      BY <1>4, <1>6 DEF BatchKept, Numbered
    <3>3. \A i \in DOMAIN <<p>> : <<p>>[i] = p
      OBVIOUS
    <3> QED BY <1>3, <3>1, <3>2, <3>3 DEF UpTo
  <2> QED BY <1>2, <1>5, <2>1, <2>2 DEF Numbered
<1>9. KeptInOrder'
  <2> SUFFICES ASSUME connected
               PROVE  /\ NoPacketDoubled' /\ NoPacketLost' /\ WaitsInOrder'
                      /\ ~ overlap' => Ascending(sent') /\ \A t \in Thread : Before(sent', batch'[t])
    BY <1>2 DEF KeptInOrder
  <2>1. /\ NoPacketDoubled /\ NoPacketLost /\ WaitsInOrder
        /\ ~ overlap => Ascending(sent) /\ \A t \in Thread : Before(sent, batch[t])
    BY DEF BatchKept, KeptInOrder
  <2>2. NoPacketDoubled'
    BY <1>2, <2>1 DEF NoPacketDoubled
  <2>3. NoPacketLost'
    <3> SUFFICES ASSUME NEW q \in 1..p
                 PROVE  Has(sent, q) \/ Has(sendPackets \o <<p>>, q) \/ \E t \in Thread : Has(batch[t], q)
      BY <1>2, <1>5 DEF NoPacketLost
    <3>1. q = p \/ q \in 1..stored
      BY <1>3
    <3>2. Has(sendPackets, q) \/ q = p => Has(sendPackets \o <<p>>, q)
      BY <1>3, <1>4, <1>5, JoinHas, OfOne
    <3> QED BY <2>1, <3>1, <3>2 DEF NoPacketLost
  <2>4. WaitsInOrder'
    <3>1. Before(sendPackets, <<p>>)
      BY <1>4, <1>6 DEF BatchKept, Numbered
    <3>2. Ascending(sendPackets \o <<p>>)
      BY <1>4, <1>5, <2>1, <3>1, JoinAscending DEF WaitsInOrder
    <3>3. Before(sent, sendPackets \o <<p>>) /\ \A t \in Thread : Before(batch[t], sendPackets \o <<p>>)
      BY <1>4, <1>6, <2>1 DEF BatchKept, Numbered, WaitsInOrder
    <3> QED BY <1>2, <1>5, <2>1, <3>2, <3>3 DEF WaitsInOrder
  <2> QED BY <1>2, <2>1, <2>2, <2>3, <2>4
<1> QED BY <1>7, <1>8, <1>9 DEF BatchKept

LEMMA KeptBySwap ==
  ASSUME TypeOK, BatchKept, NEW t \in Thread, SwapBatch(t)
  PROVE  BatchKept'
<1>1. /\ batch' = [batch EXCEPT ![t] = sendPackets] /\ sendPackets' = <<>>
      /\ pc[t] = "swap" /\ pc' = [pc EXCEPT ![t] = "check"]
      /\ sent' = sent /\ stored' = stored /\ connected' = connected
  BY DEF SwapBatch, Goto, closeVars
<1>2. batch[t] = <<>>
  BY <1>1 DEF BatchKept, Carried
<1>3. /\ batch'[t] = sendPackets /\ pc'[t] = "check"
      /\ \A u \in Thread : u # t => batch'[u] = batch[u] /\ pc'[u] = pc[u]
  BY <1>1 DEF TypeOK
<1>4. ~ overlap' => ~ overlap /\ \A u \in Thread : batch[u] = <<>>
  BY DEF SwapBatch
<1>5. /\ sendPackets \in Seq(Nat) /\ sent \in Seq(Nat) /\ \A u \in Thread : batch[u] \in Seq(Nat)
  BY SeqsOfNumbers
<1>6. Carried' /\ OneOnTheWay'
  BY <1>3, <1>4 DEF BatchKept, Carried, OneOnTheWay
<1>7. Numbered'
  <2>1. UpTo(<<>>, stored)
    BY DEF UpTo
  <2> QED BY <1>1, <1>3, <2>1 DEF BatchKept, Numbered
<1>8. KeptInOrder'
  <2> SUFFICES ASSUME connected
               PROVE  /\ NoPacketDoubled' /\ NoPacketLost' /\ WaitsInOrder'
                      /\ ~ overlap' => Ascending(sent') /\ \A u \in Thread : Before(sent', batch'[u])
    BY <1>1 DEF KeptInOrder
  <2>1. /\ NoPacketDoubled /\ NoPacketLost /\ WaitsInOrder
        /\ ~ overlap => Ascending(sent) /\ \A u \in Thread : Before(sent, batch[u])
    BY DEF BatchKept, KeptInOrder
  <2>2. NoPacketDoubled'
    <3>1. Apart(sent, sendPackets)
      BY <1>5, <2>1, BeforeIsApart DEF WaitsInOrder
    <3>2. \A u \in Thread : Apart(batch[u], sendPackets) /\ Apart(sendPackets, batch[u])
      BY <1>5, <2>1, BeforeIsApart DEF WaitsInOrder
    <3>3. \A u \in Thread : Apart(sent', batch'[u])
      BY <1>1, <1>3, <2>1, <3>1 DEF NoPacketDoubled
    <3>4. \A u, v \in Thread : u # v => Apart(batch'[u], batch'[v])
      BY <1>3, <2>1, <3>2 DEF NoPacketDoubled
    <3> QED BY <1>1, <2>1, <3>3, <3>4 DEF NoPacketDoubled
  <2>3. NoPacketLost'
    <3> SUFFICES ASSUME NEW q \in 1..stored
                 PROVE  Has(sent, q) \/ \E u \in Thread : Has(batch'[u], q)
      BY <1>1 DEF NoPacketLost
    <3>1. Has(sendPackets, q) => Has(batch'[t], q)
      BY <1>3
    <3>2. \A u \in Thread : Has(batch[u], q) => Has(batch'[u], q)
      BY <1>2, <1>3 DEF Has
    <3> QED BY <2>1, <3>1, <3>2 DEF NoPacketLost
  <2>4. WaitsInOrder'
    <3>1. Ascending(<<>>) /\ \A s : Before(s, <<>>)
      BY DEF Ascending, Before
    <3> QED BY <1>1, <1>3, <2>1, <3>1 DEF WaitsInOrder
  <2>5. ASSUME ~ overlap', NEW u \in Thread
        PROVE  Before(sent, batch'[u])
    BY <1>3, <1>4, <2>1, <2>5 DEF WaitsInOrder
  <2> QED BY <1>1, <1>4, <2>1, <2>2, <2>3, <2>4, <2>5
<1> QED BY <1>6, <1>7, <1>8 DEF BatchKept

LEMMA KeptByPush ==
  ASSUME TypeOK, BatchKept, NEW t \in Thread, PushBatch(t)
  PROVE  BatchKept'
<1>1. PICK b : b = batch[t]
  OBVIOUS
<1>2. /\ sent' = sent \o b /\ batch' = [batch EXCEPT ![t] = <<>>]
      /\ pc' = [pc EXCEPT ![t] = "allow"]
      /\ sendPackets' = sendPackets /\ stored' = stored /\ overlap' = overlap /\ connected' = connected
  BY <1>1 DEF PushBatch, Goto, closeVars
<1>3. /\ batch'[t] = <<>>
      /\ \A u \in Thread : u # t => batch'[u] = batch[u] /\ pc'[u] = pc[u]
  BY <1>2 DEF TypeOK
<1>4. /\ sendPackets \in Seq(Nat) /\ sent \in Seq(Nat) /\ b \in Seq(Nat)
      /\ \A u \in Thread : batch[u] \in Seq(Nat)
  BY <1>1, SeqsOfNumbers
<1>5. \A s : Before(s, <<>>) /\ Before(<<>>, s) /\ Apart(s, <<>>) /\ Apart(<<>>, s)
  BY DEF Before, Apart
<1>6. Carried' /\ OneOnTheWay'
  BY <1>2, <1>3 DEF BatchKept, Carried, OneOnTheWay
<1>7. Numbered'
  <2>1. UpTo(sent, stored) /\ UpTo(b, stored) /\ UpTo(sendPackets, stored)
    BY <1>1 DEF BatchKept, Numbered
  <2>2. UpTo(sent \o b, stored)
    <3> SUFFICES ASSUME NEW k \in DOMAIN (sent \o b)
                 PROVE  (sent \o b)[k] <= stored
      BY DEF UpTo
    <3>1. \/ k \in DOMAIN sent /\ (sent \o b)[k] = sent[k]
          \/ k - Len(sent) \in DOMAIN b /\ (sent \o b)[k] = b[k - Len(sent)]
      BY <1>4, JoinAt
    <3> QED BY <2>1, <3>1 DEF UpTo
  <2>3. \A u \in Thread : UpTo(batch'[u], stored)
    <3>1. UpTo(<<>>, stored)
      BY DEF UpTo
    <3> QED BY <1>3, <3>1 DEF BatchKept, Numbered
  <2> QED BY <1>2, <2>1, <2>2, <2>3 DEF Numbered
<1>8. KeptInOrder'
  <2> SUFFICES ASSUME connected
               PROVE  /\ NoPacketDoubled' /\ NoPacketLost' /\ WaitsInOrder'
                      /\ ~ overlap' => Ascending(sent') /\ \A u \in Thread : Before(sent', batch'[u])
    BY <1>2 DEF KeptInOrder
  <2>1. /\ NoPacketDoubled /\ NoPacketLost /\ WaitsInOrder
        /\ ~ overlap => Ascending(sent) /\ \A u \in Thread : Before(sent, batch[u])
    BY DEF BatchKept, KeptInOrder
  <2>2. Ascending(b) /\ Before(b, sendPackets) /\ Apart(sent, b)
    BY <1>1, <2>1 DEF WaitsInOrder, NoPacketDoubled
  <2>3. NoPacketDoubled'
    <3>1. Once(sent \o b)
      BY <1>4, <2>1, <2>2, AscendingIsOnce, JoinOnce DEF NoPacketDoubled
    <3>2. ASSUME NEW u \in Thread
          PROVE  Apart(sent \o b, batch'[u])
      <4>1. CASE u = t
        BY <1>3, <1>5, <4>1
      <4>2. CASE u # t
        <5>1. Apart(sent, batch[u]) /\ Apart(b, batch[u])
          BY <1>1, <2>1, <4>2 DEF NoPacketDoubled
        <5> QED BY <1>3, <1>4, <4>2, <5>1, JoinRelations
      <4> QED BY <4>1, <4>2
    <3>3. \A u, v \in Thread : u # v => Apart(batch'[u], batch'[v])
      BY <1>3, <1>5, <2>1 DEF NoPacketDoubled
    <3> QED BY <1>2, <3>1, <3>2, <3>3 DEF NoPacketDoubled
  <2>4. NoPacketLost'
    <3> SUFFICES ASSUME NEW q \in 1..stored
                 PROVE  Has(sent \o b, q) \/ Has(sendPackets, q) \/ \E u \in Thread : Has(batch'[u], q)
      BY <1>2 DEF NoPacketLost
    <3>1. Has(sent \o b, q) <=> Has(sent, q) \/ Has(b, q)
      BY <1>4, JoinHas
    <3>2. \A u \in Thread : Has(batch[u], q) => Has(b, q) \/ Has(batch'[u], q)
      BY <1>1, <1>3
    <3> QED BY <2>1, <3>1, <3>2 DEF NoPacketLost
  <2>5. WaitsInOrder'
    <3>1. Before(sent \o b, sendPackets)
      BY <1>4, <2>1, <2>2, JoinRelations DEF WaitsInOrder
    <3>2. Ascending(<<>>)
      BY DEF Ascending
    <3>3. \A u \in Thread : Ascending(batch'[u]) /\ Before(batch'[u], sendPackets)
      BY <1>3, <1>5, <2>1, <3>2 DEF WaitsInOrder
    <3> QED BY <1>2, <2>1, <3>1, <3>3 DEF WaitsInOrder
  <2>6. ASSUME ~ overlap
        PROVE  Ascending(sent \o b) /\ \A u \in Thread : Before(sent \o b, batch'[u])
    <3>1. Ascending(sent \o b)
      BY <1>1, <1>4, <2>1, <2>2, <2>6, JoinAscending
    <3>2. ASSUME NEW u \in Thread
          PROVE  Before(sent \o b, batch'[u])
      <4>1. CASE u = t \/ batch[u] = <<>>
        BY <1>3, <1>5, <4>1
      <4>2. CASE u # t /\ batch[u] # <<>>
        <5>1. b = <<>>
          BY <1>1, <2>6, <4>2 DEF BatchKept, OneOnTheWay
        <5>2. Before(sent, batch[u]) /\ Before(b, batch[u])
          BY <1>5, <2>1, <2>6, <5>1
        <5> QED BY <1>3, <1>4, <4>2, <5>2, JoinRelations
      <4> QED BY <4>1, <4>2
    <3> QED BY <3>1, <3>2
  <2> QED BY <1>2, <2>3, <2>4, <2>5, <2>6
<1> QED BY <1>6, <1>7, <1>8 DEF BatchKept

LEMMA KeptByDirect ==
  ASSUME TypeOK, BatchKept, SendDirectly
  PROVE  BatchKept'
<1>1. /\ sent' = sent \o <<Direct>> /\ batch' = batch /\ pc' = pc
      /\ sendPackets' = sendPackets /\ stored' = stored /\ overlap' = overlap /\ connected' = connected
  <2>1. sent' = Append(sent, Direct) /\ Direct \in Nat
    BY DEF SendDirectly, Direct
  <2> QED BY <2>1, SeqsOfNumbers, OfOne DEF SendDirectly, closeVars
<1>2. /\ sendPackets \in Seq(Nat) /\ sent \in Seq(Nat) /\ \A u \in Thread : batch[u] \in Seq(Nat)
  BY SeqsOfNumbers
<1>3. <<Direct>> \in Seq(Nat) /\ Once(<<Direct>>) /\ Ascending(<<Direct>>)
  BY OfOne DEF Direct
<1>4. \A i \in DOMAIN <<Direct>> : <<Direct>>[i] = Direct
  OBVIOUS
<1>5. /\ \A s : Apart(<<Direct>>, s)
      /\ Apart(sent, <<Direct>>)
  BY <1>4 DEF Apart
<1>6. Carried' /\ OneOnTheWay'
  BY <1>1 DEF BatchKept, Carried, OneOnTheWay
<1>7. Numbered'
  <2>1. UpTo(sent \o <<Direct>>, stored)
    <3> SUFFICES ASSUME NEW k \in DOMAIN (sent \o <<Direct>>)
                 PROVE  (sent \o <<Direct>>)[k] <= stored
      BY DEF UpTo
    <3>1. \/ k \in DOMAIN sent /\ (sent \o <<Direct>>)[k] = sent[k]
          \/ /\ k - Len(sent) \in DOMAIN <<Direct>>
             /\ (sent \o <<Direct>>)[k] = <<Direct>>[k - Len(sent)]
      BY <1>2, <1>3, JoinAt
    <3>2. UpTo(sent, stored) /\ Direct <= stored
      BY DEF BatchKept, Numbered, TypeOK, Direct
    <3> QED BY <1>4, <3>1, <3>2 DEF UpTo
  <2> QED BY <1>1, <2>1 DEF BatchKept, Numbered
<1>8. KeptInOrder'
  <2> SUFFICES ASSUME connected
               PROVE  /\ NoPacketDoubled' /\ NoPacketLost' /\ WaitsInOrder'
                      /\ ~ overlap' => Ascending(sent') /\ \A u \in Thread : Before(sent', batch'[u])
    BY <1>1 DEF KeptInOrder
  <2>1. /\ NoPacketDoubled /\ NoPacketLost /\ WaitsInOrder
        /\ ~ overlap => Ascending(sent) /\ \A u \in Thread : Before(sent, batch[u])
    BY DEF BatchKept, KeptInOrder
  <2>2. ASSUME NEW s \in Seq(Packet)
        PROVE  Before(<<Direct>>, s)
    <3>1. \A k \in DOMAIN s : s[k] > Direct
      <4>1. \A k \in DOMAIN s : s[k] \in Packet
        OBVIOUS
      <4> QED BY <4>1, PacketIsNumber
    <3> QED BY <1>4, <3>1 DEF Before, Direct
  <2>3. Before(<<Direct>>, sendPackets) /\ \A u \in Thread : Before(<<Direct>>, batch[u])
    <3>1. sendPackets \in Seq(Packet) /\ \A u \in Thread : batch[u] \in Seq(Packet)
      BY DEF TypeOK
    <3> QED BY <2>2, <3>1
  <2>4. NoPacketDoubled'
    <3>1. Once(sent \o <<Direct>>)
      BY <1>2, <1>3, <1>5, <2>1, JoinOnce DEF NoPacketDoubled
    <3>2. \A u \in Thread : Apart(sent \o <<Direct>>, batch[u])
      BY <1>2, <1>3, <1>5, <2>1, JoinRelations DEF NoPacketDoubled
    <3> QED BY <1>1, <2>1, <3>1, <3>2 DEF NoPacketDoubled
  <2>5. NoPacketLost'
    <3>1. \A q : Has(sent, q) => Has(sent \o <<Direct>>, q)
      BY <1>2, <1>3, JoinHas
    <3> QED BY <1>1, <2>1, <3>1 DEF NoPacketLost
  <2>6. WaitsInOrder'
    BY <1>1, <1>2, <1>3, <2>1, <2>3, JoinRelations DEF WaitsInOrder
  <2>7. ASSUME ~ overlap
        PROVE  Ascending(sent \o <<Direct>>) /\ \A u \in Thread : Before(sent \o <<Direct>>, batch[u])
    <3>1. Ascending(sent \o <<Direct>>)
      <4> SUFFICES ASSUME NEW i \in DOMAIN (sent \o <<Direct>>), NEW k \in DOMAIN (sent \o <<Direct>>), i < k
                   PROVE  \/ (sent \o <<Direct>>)[k] = Direct
                          \/ (sent \o <<Direct>>)[i] < (sent \o <<Direct>>)[k]
        BY DEF Ascending
      <4> DEFINE j == sent \o <<Direct>>
      <4>1. \/ k \in DOMAIN sent /\ j[k] = sent[k]
            \/ k - Len(sent) \in DOMAIN <<Direct>> /\ j[k] = <<Direct>>[k - Len(sent)]
        BY <1>2, <1>3, JoinAt
      <4>2. k \in DOMAIN sent => i \in DOMAIN sent /\ j[i] = sent[i]
        <5>1. j \in Seq(Nat) /\ DOMAIN sent = 1..Len(sent) /\ Len(sent) \in Nat
          BY <1>2, <1>3, JoinAt
        <5>2. i \in Nat /\ i >= 1 /\ k \in Nat
          BY <5>1
        <5>3. k \in DOMAIN sent => i \in DOMAIN sent
          BY <5>1, <5>2
        <5> QED BY <1>2, <1>3, <5>3, JoinAt
      <4> HIDE DEF j
      <4> QED BY <1>4, <2>1, <2>7, <4>1, <4>2 DEF Ascending, j
    <3>2. \A u \in Thread : Before(sent \o <<Direct>>, batch[u])
      BY <1>2, <1>3, <2>1, <2>3, <2>7, JoinRelations
    <3> QED BY <3>1, <3>2
  <2> QED BY <1>1, <2>4, <2>5, <2>6, <2>7
<1> QED BY <1>6, <1>7, <1>8 DEF BatchKept

LEMMA KeptByNext ==
  ASSUME TypeOK, BatchKept, [Next]_vars
  PROVE  BatchKept'
<1>1. ASSUME NEW t \in Thread, pc[t] \notin {"check", "push"}, NEW l, Goto(t, l),
             UNCHANGED <<sendPackets, closeVars, batch, history>>
      PROVE  BatchKept'
  <2>1. ASSUME NEW u \in Thread, batch[u] # <<>>
        PROVE  pc'[u] \in {"check", "push"}
    <3>1. u # t /\ pc[u] \in {"check", "push"}
      BY <1>1, <2>1 DEF BatchKept, Carried
    <3> QED BY <1>1, <3>1 DEF Goto, TypeOK
  <2>2. sent' = sent /\ stored' = stored /\ overlap' = overlap /\ connected' = connected
    BY <1>1 DEF closeVars, history
  <2> QED BY <1>1, <2>1, <2>2, PacketsStay
<1>2. ASSUME NEW c \in Caller, StorePacket(c)
      PROVE  BatchKept'
  BY <1>2, KeptByStore
<1>3. ASSUME NEW c \in Caller, ReserveFlush(c)
      PROVE  BatchKept'
  BY <1>1, <1>3, Threads3 DEF ReserveFlush
<1>4. CASE StartReservedFlush
  BY <1>1, <1>4, Threads3 DEF StartReservedFlush
<1>5. CASE StartLoopFlush
  BY <1>1, <1>5, Threads3 DEF StartLoopFlush
<1>6. ASSUME NEW t \in Thread, SwapBatch(t)
      PROVE  BatchKept'
  BY <1>6, KeptBySwap
<1>7. ASSUME NEW t \in Thread, FlushNothing(t) \/ AllowFlush(t)
      PROVE  BatchKept'
  <2>1. pc[t] \in {"swap", "allow"} /\ UNCHANGED <<sendPackets, closeVars, batch, history>>
    BY <1>7 DEF FlushNothing, AllowFlush
  <2>2. \E l : Goto(t, l)
    BY <1>7 DEF FlushNothing, AllowFlush, Return
  <2> QED BY <1>1, <2>1, <2>2
<1>8. ASSUME NEW t \in Thread, CheckConnected(t)
      PROVE  BatchKept'
  <2>1. sent' = sent /\ sendPackets' = sendPackets /\ stored' = stored /\ overlap' = overlap /\ connected' = connected
    BY <1>8 DEF CheckConnected, closeVars, history
  <2>2. CASE connected
    <3>1. batch' = batch /\ Goto(t, "push")
      BY <1>8, <2>2 DEF CheckConnected
    <3>2. \A u \in Thread : batch[u] # <<>> => pc'[u] \in {"check", "push"}
      BY <3>1 DEF Goto, TypeOK, BatchKept, Carried
    <3> QED BY <2>1, <3>1, <3>2, PacketsStay
  <2>3. CASE ~ connected
    <3>1. batch' = [batch EXCEPT ![t] = <<>>] /\ pc' = [pc EXCEPT ![t] = "allow"]
      BY <1>8, <2>3 DEF CheckConnected, Goto
    <3>2. /\ batch'[t] = <<>>
          /\ \A u \in Thread : u # t => batch'[u] = batch[u] /\ pc'[u] = pc[u]
      BY <3>1 DEF TypeOK
    <3>3. Carried' /\ OneOnTheWay'
      BY <2>1, <3>2 DEF BatchKept, Carried, OneOnTheWay
    <3>4. Numbered'
      <4>1. UpTo(<<>>, stored)
        BY DEF UpTo
      <4> QED BY <2>1, <3>2, <4>1 DEF BatchKept, Numbered
    <3>5. KeptInOrder'
      BY <2>1, <2>3 DEF KeptInOrder
    <3> QED BY <3>3, <3>4, <3>5 DEF BatchKept
  <2> QED BY <2>2, <2>3
<1>9. ASSUME NEW t \in Thread, PushBatch(t)
      PROVE  BatchKept'
  BY <1>9, KeptByPush
<1>10. CASE SendDirectly
  BY <1>10, KeptByDirect
<1>11. CASE Disconnect \/ ForbidFlush \/ RemoveFromManager \/ UNCHANGED vars
  <2>1. /\ sent' = sent /\ sendPackets' = sendPackets /\ batch' = batch /\ stored' = stored
        /\ overlap' = overlap /\ connected' \in {connected, FALSE} /\ pc' = pc
    BY <1>11 DEF Disconnect, ForbidFlush, RemoveFromManager, vars, history, flags
  <2>2. connected' => connected
    BY <2>1
  <2>3. \A u \in Thread : batch[u] # <<>> => pc'[u] \in {"check", "push"}
    BY <2>1 DEF BatchKept, Carried
  <2> QED BY <2>1, <2>2, <2>3, PacketsStay
<1>12. CASE DiscardPackets
  <2>1. /\ sent' = sent /\ sendPackets' = <<>> /\ batch' = batch /\ stored' = stored
        /\ overlap' = overlap /\ ~ connected' /\ pc' = pc
    BY <1>12 DEF DiscardPackets, history
  <2>2. UpTo(<<>>, stored)
    BY DEF UpTo
  <2>3. Carried' /\ OneOnTheWay' /\ Numbered'
    BY <2>1, <2>2 DEF BatchKept, Carried, OneOnTheWay, Numbered
  <2> QED BY <2>1, <2>3 DEF BatchKept, KeptInOrder
<1> QED BY <1>2, <1>3, <1>4, <1>5, <1>6, <1>7, <1>8, <1>9, <1>10, <1>11, <1>12
        DEF Next, FlushSend, Close

LEMMA FullByNext ==
  ASSUME TypeOK, FullBatchLeaves, [Next]_vars
  PROVE  FullBatchLeaves'
<1>1. SendByte \in Nat /\ SendByte > 0
  BY SendByteAssumption
<1> SUFFICES ASSUME closing' = "no"
             PROVE  /\ pendingBytes' = Bytes(sendPackets')
                    /\ pendingBytes' >= SendByte => \E t \in Thread : pc'[t] = "swap"
  BY DEF FullBatchLeaves, Bytes
<1>2. ASSUME sendPackets' = sendPackets, pendingBytes' = pendingBytes, closing' = closing,
             \A t \in Thread : pc[t] = "swap" => pc'[t] = "swap"
      PROVE  /\ pendingBytes' = Bytes(sendPackets')
             /\ pendingBytes' >= SendByte => \E t \in Thread : pc'[t] = "swap"
  BY <1>2 DEF FullBatchLeaves
<1>3. ASSUME NEW t \in Thread, pc[t] # "swap", NEW l, Goto(t, l),
             UNCHANGED <<sendPackets, pendingBytes, closing>>
      PROVE  /\ pendingBytes' = Bytes(sendPackets')
             /\ pendingBytes' >= SendByte => \E u \in Thread : pc'[u] = "swap"
  <2>1. \A u \in Thread : pc[u] = "swap" => pc'[u] = "swap"
    BY <1>3 DEF Goto, TypeOK
  <2> QED BY <1>2, <1>3, <2>1
<1>4. ASSUME NEW c \in Caller, StorePacket(c)
      PROVE  /\ pendingBytes' = Bytes(sendPackets')
             /\ pendingBytes' >= SendByte => \E u \in Thread : pc'[u] = "swap"
  <2>1. PICK p \in Packet : p = stored + 1
    BY <1>4, BoundsAssumption DEF StorePacket, TypeOK, Packet
  <2>2. sendPackets' = Append(sendPackets, p) /\ pendingBytes' = pendingBytes + SizeOf[p] /\ closing' = closing
    BY <1>4, <2>1 DEF StorePacket, closeVars
  <2>3. pendingBytes' = Bytes(sendPackets')
    BY <2>2, BytesOfOneMore DEF FullBatchLeaves, TypeOK
  <2>4. pendingBytes' >= SendByte => pc'[c] = "swap"
    BY <1>4, Threads3 DEF StorePacket, Goto, TypeOK
  <2> QED BY <2>3, <2>4, Threads3
<1>5. ASSUME NEW c \in Caller, ReserveFlush(c)
      PROVE  /\ pendingBytes' = Bytes(sendPackets')
             /\ pendingBytes' >= SendByte => \E u \in Thread : pc'[u] = "swap"
  BY <1>3, <1>5, Threads3 DEF ReserveFlush, closeVars
<1>6. CASE StartReservedFlush
  BY <1>3, <1>6, Threads3 DEF StartReservedFlush, closeVars
<1>7. CASE StartLoopFlush
  BY <1>3, <1>7, Threads3 DEF StartLoopFlush, closeVars
<1>8. ASSUME NEW t \in Thread, SwapBatch(t)
      PROVE  /\ pendingBytes' = Bytes(sendPackets')
             /\ pendingBytes' >= SendByte => \E u \in Thread : pc'[u] = "swap"
  <2>1. pendingBytes' = 0 /\ sendPackets' = <<>>
    BY <1>8 DEF SwapBatch
  <2> QED BY <1>1, <2>1, BytesOfNone
<1>9. ASSUME NEW t \in Thread, FlushNothing(t)
      PROVE  /\ pendingBytes' = Bytes(sendPackets')
             /\ pendingBytes' >= SendByte => \E u \in Thread : pc'[u] = "swap"
  <2>1. pendingBytes' = pendingBytes /\ sendPackets' = sendPackets /\ sendPackets = <<>> /\ closing' = closing
    BY <1>9 DEF FlushNothing, closeVars
  <2>2. pendingBytes = Bytes(sendPackets)
    BY <2>1 DEF FullBatchLeaves
  <2>3. pendingBytes' = 0
    BY <2>1, <2>2, BytesOfNone
  <2> QED BY <1>1, <2>1, <2>2, <2>3
<1>10. ASSUME NEW t \in Thread, AllowFlush(t)
      PROVE  /\ pendingBytes' = Bytes(sendPackets')
             /\ pendingBytes' >= SendByte => \E u \in Thread : pc'[u] = "swap"
  BY <1>3, <1>10 DEF AllowFlush, Return, closeVars
<1>11. ASSUME NEW t \in Thread, CheckConnected(t)
      PROVE  /\ pendingBytes' = Bytes(sendPackets')
             /\ pendingBytes' >= SendByte => \E u \in Thread : pc'[u] = "swap"
  BY <1>3, <1>11 DEF CheckConnected, closeVars
<1>12. ASSUME NEW t \in Thread, PushBatch(t)
      PROVE  /\ pendingBytes' = Bytes(sendPackets')
             /\ pendingBytes' >= SendByte => \E u \in Thread : pc'[u] = "swap"
  BY <1>3, <1>12 DEF PushBatch, closeVars
<1>13. CASE SendDirectly \/ Disconnect \/ UNCHANGED vars
  <2>1. sendPackets' = sendPackets /\ pendingBytes' = pendingBytes /\ closing' = closing /\ pc' = pc
    BY <1>13 DEF SendDirectly, Disconnect, vars, closeVars
  <2> QED BY <1>2, <2>1
<1>14. CASE DiscardPackets \/ ForbidFlush \/ RemoveFromManager
  BY <1>14 DEF DiscardPackets, ForbidFlush, RemoveFromManager
<1> QED BY <1>4, <1>5, <1>6, <1>7, <1>8, <1>9, <1>10, <1>11, <1>12, <1>13, <1>14
        DEF Next, FlushSend, Close

LEMMA FlagByNext ==
  ASSUME TypeOK, FlagNotStuck, [Next]_vars
  PROVE  FlagNotStuck'
<1> SUFFICES ASSUME ~ canFlush'
             PROVE  timers' > 0 \/ (\E t \in Thread : Flushing(t)') \/ closing' \in {"remove", "done"}
  BY DEF FlagNotStuck
<1> USE DEF Flushing
<1>1. ASSUME canFlush' = canFlush, timers' = timers, closing' \in {closing, "remove", "done"},
             \A t \in Thread : Flushing(t) => Flushing(t)'
      PROVE  timers' > 0 \/ (\E t \in Thread : Flushing(t)') \/ closing' \in {"remove", "done"}
  BY <1>1 DEF FlagNotStuck
<1>2. ASSUME canFlush' = canFlush, timers' = timers, closing' = closing,
             NEW t \in Thread, NEW l, Goto(t, l), Flushing(t) => l \in {"swap", "check", "push", "allow"}
      PROVE  timers' > 0 \/ (\E u \in Thread : Flushing(u)') \/ closing' \in {"remove", "done"}
  <2>1. \A u \in Thread : Flushing(u) => Flushing(u)'
    BY <1>2 DEF Goto, TypeOK
  <2> QED BY <1>1, <1>2, <2>1
<1>3. ASSUME NEW c \in Caller, StorePacket(c)
      PROVE  timers' > 0 \/ (\E u \in Thread : Flushing(u)') \/ closing' \in {"remove", "done"}
  <2>1. PICK l \in {"swap", "reserve"} : Goto(c, l)
    BY <1>3 DEF StorePacket
  <2> QED BY <1>2, <1>3, <2>1, Threads3 DEF StorePacket, flags, closeVars
<1>4. ASSUME NEW c \in Caller, ReserveFlush(c)
      PROVE  timers' > 0 \/ (\E u \in Thread : Flushing(u)') \/ closing' \in {"remove", "done"}
  <2>1. CASE canFlush
    <3>1. timers' = timers + 1
      BY <1>4, <2>1 DEF ReserveFlush
    <3> QED BY <3>1 DEF TypeOK
  <2>2. CASE ~ canFlush
    <3>1. UNCHANGED <<flags, closing>>
      BY <1>4, <2>2 DEF ReserveFlush, closeVars
    <3> QED BY <1>2, <1>4, <3>1, Threads3 DEF ReserveFlush, flags
  <2> QED BY <2>1, <2>2
<1>5. CASE StartReservedFlush
  <2>1. pc'[FlushJob] = "swap"
    BY <1>5, Threads3 DEF StartReservedFlush, Goto, TypeOK
  <2> QED BY <2>1, Threads3
<1>6. CASE StartLoopFlush
  BY <1>2, <1>6, Threads3 DEF StartLoopFlush, flags, closeVars
<1>7. ASSUME NEW t \in Thread, SwapBatch(t)
      PROVE  timers' > 0 \/ (\E u \in Thread : Flushing(u)') \/ closing' \in {"remove", "done"}
  BY <1>2, <1>7 DEF SwapBatch, flags, closeVars
<1>8. ASSUME NEW t \in Thread, FlushNothing(t) \/ AllowFlush(t)
      PROVE  FALSE
  BY <1>8 DEF FlushNothing, AllowFlush
<1>9. ASSUME NEW t \in Thread, CheckConnected(t)
      PROVE  timers' > 0 \/ (\E u \in Thread : Flushing(u)') \/ closing' \in {"remove", "done"}
  <2>1. PICK l \in {"push", "allow"} : Goto(t, l)
    BY <1>9 DEF CheckConnected
  <2> QED BY <1>2, <1>9, <2>1 DEF CheckConnected, flags, closeVars
<1>10. ASSUME NEW t \in Thread, PushBatch(t)
      PROVE  timers' > 0 \/ (\E u \in Thread : Flushing(u)') \/ closing' \in {"remove", "done"}
  BY <1>2, <1>10 DEF PushBatch, flags, closeVars
<1>11. CASE SendDirectly \/ Disconnect \/ DiscardPackets \/ RemoveFromManager \/ UNCHANGED vars
  <2>1. canFlush' = canFlush /\ timers' = timers /\ pc' = pc
    BY <1>11 DEF SendDirectly, Disconnect, DiscardPackets, RemoveFromManager, vars, flags
  <2>2. closing \in {"remove", "done"} => closing' \in {"remove", "done"}
    BY <1>11 DEF SendDirectly, Disconnect, DiscardPackets, RemoveFromManager, vars, closeVars
  <2> QED BY <2>1, <2>2 DEF FlagNotStuck
<1>12. CASE ForbidFlush
  BY <1>12 DEF ForbidFlush
<1> QED BY <1>3, <1>4, <1>5, <1>6, <1>7, <1>8, <1>9, <1>10, <1>11, <1>12
        DEF Next, FlushSend, Close

LEMMA BatchInvHolds == Spec => []BatchInv
<1>1. Init => BatchInv
  <2> SUFFICES ASSUME Init
               PROVE  BatchInv
    OBVIOUS
  <2>1. TypeOK
    <3>1. <<>> \in Seq(Packet) /\ <<>> \in Seq(Packet \cup {Direct})
      BY EmptySeq
    <3>2. batch \in [Thread -> Seq(Packet)] /\ pc \in [Thread -> Label]
      BY <3>1, SMT DEF Init, Label
    <3>3. canFlush \in BOOLEAN /\ connected \in BOOLEAN /\ inManager \in BOOLEAN
          /\ overlap \in BOOLEAN
      BY Zenon DEF Init
    <3>4. pendingBytes \in Nat /\ timers \in Nat /\ stored \in 0..MaxPackets
          /\ closing \in {"no", "forbid", "remove", "done"}
      BY BoundsAssumption, SMT DEF Init
    <3>5. sendPackets \in Seq(Packet) /\ sent \in Seq(Packet \cup {Direct})
      BY <3>1, Zenon DEF Init
    <3> QED BY <3>2, <3>3, <3>4, <3>5, Zenon DEF TypeOK
  <2>2. BatchKept
    <3>1. stored = 0 /\ sent = <<>> /\ sendPackets = <<>> /\ \A t \in Thread : batch[t] = <<>>
      BY DEF Init
    <3>2. 1..stored = {}
      BY <3>1
    <3> QED BY <3>1, <3>2
            DEF BatchKept, Carried, OneOnTheWay, Numbered, UpTo, KeptInOrder, NoPacketDoubled,
                NoPacketLost, WaitsInOrder, Once, Apart, Before, Ascending
  <2>3. FullBatchLeaves
    BY BytesOfNone, SendByteAssumption DEF Init, FullBatchLeaves
  <2>4. FlagNotStuck
    BY DEF Init, FlagNotStuck
  <2> QED BY <2>1, <2>2, <2>3, <2>4 DEF BatchInv
<1>2. BatchInv /\ [Next]_vars => BatchInv'
  BY BatchTypes, KeptByNext, FullByNext, FlagByNext DEF BatchInv
<1> QED BY <1>1, <1>2, PTL DEF Spec

\* For any callers and any number of packets: until the session closes no reserved packet
\* is lost or doubled between _send_packets, the flushers' locals and _send_queue, and
\* they leave in order unless two batches were on their way at once
\* (GameSession.cpp:58-104, Session.cpp:34-50).
THEOREM PacketsKeptInOrder == Spec => []KeptInOrder
<1>1. BatchInv => KeptInOrder
  BY DEF BatchInv, BatchKept
<1> QED BY <1>1, BatchInvHolds, PTL

\* For packets of any sizes: until the session closes _pending_bytes is the bytes of
\* _send_packets, and a batch of SEND_BYTE or more has a thread about to flush it
\* (GameSession.cpp:63-71, 95-99).
THEOREM FullBatchHasFlusher == Spec => []FullBatchLeaves
<1>1. BatchInv => FullBatchLeaves
  BY DEF BatchInv
<1> QED BY <1>1, BatchInvHolds, PTL

\* _can_flush is down only while a flush is reserved or on its way, or the session
\* closes (GameSession.cpp:33-37, 73-82, 90-103).
THEOREM FlagComesUp == Spec => []FlagNotStuck
<1>1. BatchInv => FlagNotStuck
  BY DEF BatchInv
<1> QED BY <1>1, BatchInvHolds, PTL
=============================================================================
