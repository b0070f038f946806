------------------------------- MODULE RWLock -------------------------------
(***************************************************************************)
(* Lock: a spinning reader-writer lock in one 32-bit word, [writer thread  *)
(* id][reader count], with a write count beside it that is not atomic.     *)
(* Every shared structure of the server is guarded by one, through         *)
(* ReadLockGuard and WriteLockGuard.                                       *)
(*                                                                         *)
(* An action is one access to _lock_flag with the local steps after it.    *)
(* Guards are C++ objects, so a thread gives its locks back in the reverse *)
(* order; requests keep to the policy of Lock.h (no write lock on top of a *)
(* read lock).  The clock is left out: a spinning thread may time out.     *)
(***************************************************************************)
EXTENDS Naturals, Sequences, FiniteSets, SequencesExt

CONSTANTS
  Thread,       \* the threads, each with its tls_thread_id
  Nobody,       \* the writer half of EMPTY_FLAG
  MaxRequest,   \* bound: how many locks a thread asks for
  MayTimeOut    \* whether a thread may spin for ACQUIRE_TIMEOUT_TICK

ASSUME NobodyAssumption == Nobody \notin Thread
ASSUME MaxRequestAssumption == MaxRequest \in Nat
ASSUME MayTimeOutAssumption == MayTimeOut \in BOOLEAN

VARIABLES
  flag,         \* _lock_flag: [writer, readers]
  writeCount,   \* _write_count
  pc,           \* where a thread is in WriteLock, WriteUnlock or ReadLock
  seen,         \* expected of the compare_exchange of ReadLock
  held,         \* the guards a thread holds, oldest first
  requests,     \* how many locks a thread has asked for
  crash         \* the CRASH that ended the process, or "no"

vars == <<flag, writeCount, pc, seen, held, requests, crash>>

Pc == {"run", "casWrite", "countWrite", "storeEmpty", "loadRead", "casRead"}

TypeOK ==
  /\ flag \in [writer : Thread \cup {Nobody}, readers : Nat]
  /\ writeCount \in Nat
  /\ pc \in [Thread -> Pc]
  /\ seen \in [Thread -> Nat]
  /\ held \in [Thread -> Seq({"r", "w"})]
  /\ requests \in [Thread -> 0..MaxRequest]
  /\ crash \in {"no", "timeout", "unlock"}

Empty == [writer |-> Nobody, readers |-> 0]

Init ==
  /\ flag = Empty
  /\ writeCount = 0
  /\ pc = [t \in Thread |-> "run"]
  /\ seen = [t \in Thread |-> 0]
  /\ held = [t \in Thread |-> <<>>]
  /\ requests = [t \in Thread |-> 0]
  /\ crash = "no"

Goto(t, l) == pc' = [pc EXCEPT ![t] = l]
Take(t, mode) == held' = [held EXCEPT ![t] = Append(@, mode)]
Drop(t) == held' = [held EXCEPT ![t] = Front(@)]

\* Thread t constructs a guard: one of the MaxRequest it may.
Request(t) ==
  /\ pc[t] = "run"
  /\ requests[t] < MaxRequest
  /\ requests' = [requests EXCEPT ![t] = @ + 1]

-----------------------------------------------------------------------------
(* Lock::WriteLock                                                         *)

\* Mutant: any writer in _lock_flag is taken for the thread itself.
BeginWriteUnderWriter(t) ==
  /\ Request(t)
  /\ "r" \notin ToSet(held[t])
  /\ IF flag.writer # Nobody
       THEN /\ writeCount' = writeCount + 1
            /\ Take(t, "w")
            /\ UNCHANGED pc
       ELSE /\ Goto(t, "casWrite")
            /\ UNCHANGED <<writeCount, held>>
  /\ UNCHANGED <<flag, seen, crash>>

\* The thread id in _lock_flag is its own: count one more, else compete.
BeginWrite(t) ==
  /\ Request(t)
  /\ "r" \notin ToSet(held[t])
  /\ IF flag.writer = t
       THEN /\ writeCount' = writeCount + 1
            /\ Take(t, "w")
            /\ UNCHANGED pc
       ELSE /\ Goto(t, "casWrite")
            /\ UNCHANGED <<writeCount, held>>
  /\ UNCHANGED <<flag, seen, crash>>

\* Mutant: only the writer half is compared with EMPTY_FLAG.
CasWriteOverReaders(t) ==
  /\ pc[t] = "casWrite"
  /\ flag.writer = Nobody
  /\ flag' = [flag EXCEPT !.writer = t]
  /\ Take(t, "w")
  /\ Goto(t, "countWrite")
  /\ UNCHANGED <<writeCount, seen, requests, crash>>

\* compare_exchange(EMPTY_FLAG, tid << 16) succeeds; a failure spins on.
CasWrite(t) ==
  /\ pc[t] = "casWrite"
  /\ flag = Empty
  /\ flag' = [flag EXCEPT !.writer = t]
  /\ Take(t, "w")
  /\ Goto(t, "countWrite")
  /\ UNCHANGED <<writeCount, seen, requests, crash>>

\* ++_write_count, which no other thread touches meanwhile.
CountWrite(t) ==
  /\ pc[t] = "countWrite"
  /\ writeCount' = writeCount + 1
  /\ Goto(t, "run")
  /\ UNCHANGED <<flag, seen, held, requests, crash>>

-----------------------------------------------------------------------------
(* Lock::WriteUnlock                                                       *)

\* The last guard of t is a write guard and ends.
EndsWrite(t) == pc[t] = "run" /\ held[t] # <<>> /\ Last(held[t]) = "w"

\* CRASH("Invalid unlock error") under readers, else --_write_count; the last
\* one goes on to empty the lock.
CountUnlock(t) ==
  /\ EndsWrite(t)
  /\ IF flag.readers # 0
       THEN crash' = "unlock" /\ UNCHANGED <<writeCount, pc, held>>
       ELSE /\ writeCount' = writeCount - 1
            /\ IF writeCount = 1
                 THEN Goto(t, "storeEmpty") /\ UNCHANGED held
                 ELSE Drop(t) /\ UNCHANGED pc
            /\ UNCHANGED crash
  /\ UNCHANGED <<flag, seen, requests>>

\* Mutant: the word is left as it is.
StoreNothing(t) ==
  /\ pc[t] = "storeEmpty"
  /\ Drop(t)
  /\ Goto(t, "run")
  /\ UNCHANGED <<flag, writeCount, seen, requests, crash>>

\* _lock_flag.store(EMPTY_FLAG).
StoreEmpty(t) ==
  /\ pc[t] = "storeEmpty"
  /\ flag' = Empty
  /\ Drop(t)
  /\ Goto(t, "run")
  /\ UNCHANGED <<writeCount, seen, requests, crash>>

-----------------------------------------------------------------------------
(* Lock::ReadLock and Lock::ReadUnlock                                     *)

\* The writer counts itself in as a reader at once, else compete.
BeginRead(t) ==
  /\ Request(t)
  /\ IF flag.writer = t
       THEN /\ flag' = [flag EXCEPT !.readers = @ + 1]
            /\ Take(t, "r")
            /\ UNCHANGED pc
       ELSE /\ Goto(t, "loadRead")
            /\ UNCHANGED <<flag, held>>
  /\ UNCHANGED <<writeCount, seen, crash>>

\* expected = _lock_flag & READ_COUNT_MASK: the writer half reads as empty.
LoadRead(t) ==
  /\ pc[t] = "loadRead"
  /\ seen' = [seen EXCEPT ![t] = flag.readers]
  /\ Goto(t, "casRead")
  /\ UNCHANGED <<flag, writeCount, held, requests, crash>>

\* Mutant: expected is the whole word, so a writer does not stop the reader.
CasReadUnderWriter(t) ==
  /\ pc[t] = "casRead"
  /\ IF flag.readers = seen[t]
       THEN /\ flag' = [flag EXCEPT !.readers = @ + 1]
            /\ Take(t, "r")
            /\ Goto(t, "run")
       ELSE /\ Goto(t, "loadRead")
            /\ UNCHANGED <<flag, held>>
  /\ UNCHANGED <<writeCount, seen, requests, crash>>

\* compare_exchange(expected, expected + 1), which a writer makes fail.
CasRead(t) ==
  /\ pc[t] = "casRead"
  /\ IF flag = [writer |-> Nobody, readers |-> seen[t]]
       THEN /\ flag' = [flag EXCEPT !.readers = @ + 1]
            /\ Take(t, "r")
            /\ Goto(t, "run")
       ELSE /\ Goto(t, "loadRead")
            /\ UNCHANGED <<flag, held>>
  /\ UNCHANGED <<writeCount, seen, requests, crash>>

\* The last guard of t is a read guard and ends: fetch_sub(1), or CRASH when
\* no reader was counted.
ReadUnlock(t) ==
  /\ pc[t] = "run"
  /\ held[t] # <<>>
  /\ Last(held[t]) = "r"
  /\ IF flag.readers = 0
       THEN crash' = "unlock" /\ UNCHANGED flag
       ELSE flag' = [flag EXCEPT !.readers = @ - 1] /\ UNCHANGED crash
  /\ Drop(t)
  /\ UNCHANGED <<writeCount, pc, seen, requests>>

\* ACQUIRE_TIMEOUT_TICK is over: CRASH("... time out!").
TimeOut(t) ==
  /\ MayTimeOut
  /\ \/ pc[t] = "casWrite" /\ flag # Empty
     \/ pc[t] \in {"loadRead", "casRead"} /\ flag.writer # Nobody
  /\ crash' = "timeout"
  /\ UNCHANGED <<flag, writeCount, pc, seen, held, requests>>

-----------------------------------------------------------------------------
Acquire(t) == BeginWrite(t) \/ BeginRead(t)

Advance(t) ==
  \/ CasWrite(t)
  \/ CountWrite(t)
  \/ CountUnlock(t)
  \/ StoreEmpty(t)
  \/ LoadRead(t)
  \/ CasRead(t)
  \/ ReadUnlock(t)

Next ==
  /\ crash = "no"
  /\ \E t \in Thread : Acquire(t) \/ Advance(t) \/ TimeOut(t)

Spec == Init /\ [][Next]_vars

(* A thread goes on with what it does, and a guard ends: no code under a    *)
(* lock waits for anything but another lock.  No thread is obliged to ask.  *)
Fairness == \A t \in Thread : WF_vars(crash = "no" /\ Advance(t))

FairSpec == Spec /\ Fairness

-----------------------------------------------------------------------------
(* Properties                                                              *)

\* Lock is the lock its policy describes: a thread gets a write lock only
\* while nobody else holds anything, and a read lock only while nobody else
\* writes, across the re-entrant paths that skip the compare_exchange.
Abstract == INSTANCE RecursiveLock

GrantsByPolicy == Abstract!Spec

\* _write_count is a plain uint16 because only the thread in _lock_flag is
\* said to reach it (Lock.h:35): a step that changes it is a step of that
\* thread, which owns the lock before and after it.
CountsAsOwner ==
  [][writeCount' # writeCount =>
       /\ flag.writer # Nobody
       /\ flag'.writer = flag.writer
       /\ \A u \in Thread \ {flag.writer} :
            /\ pc'[u] = pc[u]
            /\ held'[u] = held[u]
            /\ requests'[u] = requests[u]]_vars

\* Guards that end in reverse order never meet the "Invalid unlock" CRASH of
\* WriteUnlock or ReadUnlock: the reader half counts exactly the read guards
\* alive, and the writer half and _write_count the write guards alive.
Guards(t, mode) == {i \in DOMAIN held[t] : held[t][i] = mode}
ReadGuards ==
  {g \in Thread \X (1..MaxRequest) : g[2] \in Guards(g[1], "r")}
WordCountsGuards ==
  /\ crash # "unlock"
  /\ flag.readers = Cardinality(ReadGuards)
  /\ \A t \in Thread :
       IF flag.writer = t
         THEN /\ "w" \in ToSet(held[t])
              /\ pc[t] = "run" => writeCount = Cardinality(Guards(t, "w"))
         ELSE "w" \notin ToSet(held[t])
  /\ flag.writer = Nobody => writeCount = 0

\* With finitely many requests every one is granted, unless the process CRASHes
\* on a time-out: no lock is left taken and no interleaving of failing
\* compare_exchanges goes on for ever.  (With readers that never pause a
\* writer can starve until it times out.)
EveryRequestGranted ==
  \A t \in Thread : pc[t] # "run" ~> pc[t] = "run" \/ crash # "no"
=============================================================================
