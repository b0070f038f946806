----------------------------- MODULE JobProofs -----------------------------
(***************************************************************************)
(* Proofs about JobQueue and JobTimer, for any workers, queues, jobs and   *)
(* delays.                                                                 *)
(*                                                                         *)
(* IInv is the inductive invariant.  Shape ties the parts of one worker's  *)
(* state together; CountExact accounts for every unit of _job_count; Right *)
(* is OneRight without cardinalities: who holds the right to execute a     *)
(* queue, that nobody else does, and that somebody does while the count is *)
(* not 0.  CountExact is what makes Right survive ReleaseJobs: the counter *)
(* reaches 0 only when no pusher and no stored job is left, so the right   *)
(* can be dropped.                                                         *)
(*                                                                         *)
(* TimerIInv, the one of the timer, adds four parts to it.  InLoop:    *)
(* the timer is entered from Dispatch only.  OneDistributor: _processing   *)
(* is set exactly while one worker is between the exchange and the store,  *)
(* and only that one holds items.  DueItems: what it holds was due when it *)
(* read the clock and is sorted.  Reserved: a job with a due time is in    *)
(* exactly one of the places it can be in.  A distributor that works with  *)
(* an old clock cannot race one with a newer, so DueOrder follows.         *)
(***************************************************************************)
EXTENDS JobTimer, FiniteSetTheorems, TLAPS

Shape ==
  \A w \in Worker :
    /\ pc[w] = "idle" <=> current[w] = None
    /\ stage[w] = "none" <=> pushing[w] = None
    /\ stage[w] # "none" => pc[w] \in {"idle", "body"}
    /\ pc[w] \in {"idle", "popAll", "tick"} => size[w] = 0 /\ batch[w] = <<>>
    /\ pc[w] \in {"body", "dead"} => batch[w] # <<>>

\* Worker w holds the right to execute q as its executor or first pusher.
Holds(w, q) == w \in Executors(q) \/ w \in FirstPushers(q)

InGlobal(q) == \E i \in 1..Len(global) : global[i] = q

Right ==
  /\ \A i, k \in 1..Len(global) : global[i] = global[k] => i = k
  /\ \A q \in Queue :
       /\ \A w, v \in Worker : Holds(w, q) /\ Holds(v, q) => w = v
       /\ \A w \in Worker : Holds(w, q) => ~ InGlobal(q)
       /\ \A w \in Worker : ~ (w \in Executors(q) /\ w \in FirstPushers(q))
       /\ count[q] # 0 <=> InGlobal(q) \/ \E w \in Worker : Holds(w, q)

IInv == TypeOK /\ Shape /\ CountExact /\ Right

-----------------------------------------------------------------------------
(* Types and shape                                                         *)

LEMMA InitTypes == Init => TypeOK /\ Shape
BY NoneAssumption DEF Init, TypeOK, Shape, Phase, Pc, Stage

LEMMA KnownNat ==
  ASSUME TypeOK, NEW q \in Queue
  PROVE  /\ IsFiniteSet(CountedPushers(q))
         /\ Cardinality(CountedPushers(q)) \in Nat
         /\ Len(jobs[q]) \in Nat
         /\ Known(q) \in Nat
<1>1. IsFiniteSet(CountedPushers(q)) /\ Cardinality(CountedPushers(q)) \in Nat
  BY FS_Subset, FS_CardinalityType, WorkerAssumption DEF CountedPushers
<1>2. Len(jobs[q]) \in Nat
  BY DEF TypeOK
<1> QED BY <1>1, <1>2 DEF Known

\* What an executor took is part of _job_count.
LEMMA ExecutorCount ==
  ASSUME TypeOK, Shape, CountExact, NEW w \in Worker, pc[w] # "idle"
  PROVE  /\ current[w] \in Queue
         /\ count[current[w]] = Known(current[w]) + size[w]
         /\ size[w] <= count[current[w]]
<1>1. current[w] \in Queue
  BY DEF TypeOK, Shape
<1>2. Known(current[w]) \in Nat
  BY <1>1, KnownNat
<1> QED
  BY <1>1, <1>2 DEF CountExact, Executors, TypeOK

LEMMA NextTypes ==
  ASSUME TypeOK, Shape, CountExact, [Next]_vars
  PROVE  TypeOK' /\ Shape'
<1> USE NoneAssumption, QueueOfAssumption DEF TypeOK, Shape, Phase, Pc, Stage,
        execVars, pushVars
<1>1. ASSUME NEW w \in Worker, NEW j \in Job,
             HandlerPush(w, j) \/ BodyPush(w, j)
      PROVE  TypeOK' /\ Shape'
  <2>1. /\ CountJob(w, j) /\ pc[w] \in {"idle", "body"}
        /\ QueueOf[j] \in Queue /\ count[QueueOf[j]] + 1 \in Nat
    BY <1>1 DEF HandlerPush, BodyPush
  <2>2. TypeOK'
    BY <2>1 DEF CountJob
  <2>3. Shape'
    BY <2>1 DEF CountJob
  <2> QED BY <2>2, <2>3
<1>2. ASSUME NEW w \in Worker, StoreJob(w)
      PROVE  TypeOK' /\ Shape'
  <2>1. pushing[w] \in Job /\ QueueOf[pushing[w]] \in Queue
    BY <1>2 DEF StoreJob
  <2>2. jobs' \in [Queue -> Seq(Job)]
    <3>1. Append(jobs[QueueOf[pushing[w]]], pushing[w]) \in Seq(Job)
      BY <2>1
    <3> QED BY <1>2, <2>1, <3>1 DEF StoreJob
  <2>3. \/ stage[w] = "first" /\ stage' = [stage EXCEPT ![w] = "hand"]
           /\ pushing' = pushing
        \/ stage[w] = "later" /\ stage' = [stage EXCEPT ![w] = "none"]
           /\ pushing' = [pushing EXCEPT ![w] = None]
    BY <1>2 DEF StoreJob
  <2>4. /\ UNCHANGED <<count, global, phase, current, pc, batch, size, born, done>>
    BY <1>2 DEF StoreJob
  <2>5. TypeOK'
    BY <2>2, <2>3, <2>4
  <2>6. Shape'
    BY <2>3, <2>4
  <2> QED BY <2>5, <2>6
<1>3. ASSUME NEW w \in Worker, HandOffInline(w)
      PROVE  TypeOK' /\ Shape'
  <2>1. QueueOf[pushing[w]] \in Queue /\ pc[w] \in {"idle", "body"} /\ current[w] = None
    BY <1>3 DEF HandOffInline
  <2>2. /\ current' = [current EXCEPT ![w] = QueueOf[pushing[w]]]
        /\ pc' = [pc EXCEPT ![w] = "popAll"]
        /\ stage' = [stage EXCEPT ![w] = "none"]
        /\ pushing' = [pushing EXCEPT ![w] = None]
        /\ UNCHANGED <<count, jobs, global, phase, batch, size, born, done>>
    BY <1>3 DEF HandOffInline, EnterExecute
  <2>3. TypeOK'
    BY <2>1, <2>2
  <2>4. Shape'
    BY <2>1, <2>2
  <2> QED BY <2>3, <2>4
<1>4. ASSUME NEW w \in Worker, HandOffGlobal(w)
      PROVE  TypeOK' /\ Shape'
  <2>1. TypeOK'
    BY <1>4 DEF HandOffGlobal
  <2>2. Shape'
    BY <1>4 DEF HandOffGlobal
  <2> QED BY <2>1, <2>2
<1>5. ASSUME NEW w \in Worker, PopAll(w)
      PROVE  TypeOK' /\ Shape'
  <2>1. /\ current[w] \in Queue
        /\ jobs[current[w]] \in Seq(Job) /\ Len(jobs[current[w]]) \in Nat
    BY <1>5 DEF PopAll
  <2>2. /\ batch' = [batch EXCEPT ![w] = jobs[current[w]]]
        /\ size' = [size EXCEPT ![w] = Len(jobs[current[w]])]
        /\ jobs' = [jobs EXCEPT ![current[w]] = <<>>]
        /\ pc' = [pc EXCEPT ![w] = "loop"]
        /\ UNCHANGED <<count, global, current, phase, stage, pushing, born, done>>
    BY <1>5 DEF PopAll
  <2>3. batch' \in [Worker -> Seq(Job)] /\ jobs' \in [Queue -> Seq(Job)]
        /\ size' \in [Worker -> Nat]
    BY <2>1, <2>2
  <2>4. TypeOK'
    BY <2>2, <2>3
  <2>5. Shape'
    BY <1>5, <2>2 DEF PopAll
  <2> QED BY <2>4, <2>5
<1>6. ASSUME NEW w \in Worker, StartJob(w)
      PROVE  TypeOK' /\ Shape'
  <2>1. TypeOK'
    BY <1>6 DEF StartJob
  <2>2. Shape'
    BY <1>6 DEF StartJob
  <2> QED BY <2>1, <2>2
<1>7. ASSUME NEW w \in Worker, FinishJob(w)
      PROVE  TypeOK' /\ Shape'
  <2>1. current[w] \in Queue /\ batch[w] \in Seq(Job) /\ batch[w] # <<>>
    BY <1>7 DEF FinishJob
  <2>2. Head(batch[w]) \in Job /\ Tail(batch[w]) \in Seq(Job)
    BY <2>1
  <2>3. done' \in [Queue -> Seq(Job)] /\ batch' \in [Worker -> Seq(Job)]
    BY <1>7, <2>1, <2>2 DEF FinishJob
  <2>4. TypeOK'
    BY <1>7, <2>3 DEF FinishJob
  <2>5. Shape'
    BY <1>7 DEF FinishJob
  <2> QED BY <2>4, <2>5
<1>8. ASSUME NEW w \in Worker, ThrowInJob(w)
      PROVE  TypeOK' /\ Shape'
  <2>1. TypeOK'
    BY <1>8 DEF ThrowInJob
  <2>2. Shape'
    BY <1>8 DEF ThrowInJob
  <2> QED BY <2>1, <2>2
<1>9. ASSUME NEW w \in Worker, ReleaseJobs(w)
      PROVE  TypeOK' /\ Shape'
  <2>1. current[w] \in Queue /\ size[w] <= count[current[w]]
    BY <1>9, ExecutorCount DEF ReleaseJobs
  <2>2. count' \in [Queue -> Nat]
    <3>1. count[current[w]] - size[w] \in Nat
      BY <2>1
    <3> QED BY <1>9, <2>1, <3>1 DEF ReleaseJobs
  <2>3. TypeOK'
    <3>0. \/ current' = [current EXCEPT ![w] = None] /\ pc' = [pc EXCEPT ![w] = "idle"]
          \/ current' = current /\ pc' = [pc EXCEPT ![w] = "tick"]
      BY <1>9 DEF ReleaseJobs
    <3>1. current' \in [Worker -> Queue \cup {None}] /\ pc' \in [Worker -> Pc]
      BY <3>0
    <3>2. size' \in [Worker -> Nat]
      BY <1>9 DEF ReleaseJobs
    <3> QED BY <1>9, <2>2, <3>1, <3>2 DEF ReleaseJobs
  <2>4. Shape'
    BY <1>9 DEF ReleaseJobs
  <2> QED BY <2>3, <2>4
<1>10. ASSUME NEW w \in Worker, KeepExecuting(w)
      PROVE  TypeOK' /\ Shape'
  <2>1. TypeOK'
    BY <1>10 DEF KeepExecuting
  <2>2. Shape'
    BY <1>10 DEF KeepExecuting
  <2> QED BY <2>1, <2>2
<1>11. ASSUME NEW w \in Worker, YieldQueue(w)
      PROVE  TypeOK' /\ Shape'
  <2>1. TypeOK'
    BY <1>11 DEF YieldQueue
  <2>2. Shape'
    BY <1>11 DEF YieldQueue
  <2> QED BY <2>1, <2>2
<1>12. ASSUME NEW w \in Worker, EnterWorkGlobal(w) \/ LeaveWorkGlobal(w)
      PROVE  TypeOK' /\ Shape'
  BY <1>12 DEF EnterWorkGlobal, LeaveWorkGlobal
<1>13. ASSUME NEW w \in Worker, PopGlobal(w)
      PROVE  TypeOK' /\ Shape'
  <2>1. Head(global) \in Queue /\ Tail(global) \in Seq(Queue)
        /\ pc[w] = "idle" /\ stage[w] = "none"
    BY <1>13 DEF PopGlobal, AtRest
  <2>2. /\ global' = Tail(global)
        /\ current' = [current EXCEPT ![w] = Head(global)]
        /\ pc' = [pc EXCEPT ![w] = "popAll"]
        /\ UNCHANGED <<count, jobs, phase, batch, size, stage, pushing, born, done>>
    BY <1>13 DEF PopGlobal, EnterExecute
  <2>3. TypeOK'
    BY <2>1, <2>2
  <2>4. Shape'
    BY <2>1, <2>2
  <2> QED BY <2>3, <2>4
<1>14. CASE UNCHANGED vars
  BY <1>14 DEF vars
<1> QED
  BY <1>1, <1>2, <1>3, <1>4, <1>5, <1>6, <1>7, <1>8, <1>9, <1>10, <1>11,
     <1>12, <1>13, <1>14 DEF Next, PushStep, ExecStep, LoopStep

-----------------------------------------------------------------------------
(* The count                                                               *)

LEMMA NextCount ==
  ASSUME TypeOK, Shape, CountExact, Right, [Next]_vars
  PROVE  CountExact'
<1> USE DEF execVars, pushVars
\* A step that changes nothing that is counted, and lets an executor in or out only while its size is 0.
<1>0. ASSUME UNCHANGED count, \A q \in Queue : Known(q)' = Known(q),
             NEW w \in Worker, size[w] = 0, size'[w] = 0,
             \A v \in Worker \ {w} : current'[v] = current[v] /\ size'[v] = size[v],
             \/ current'[w] = current[w]
             \/ current'[w] = None
             \/ current[w] = None /\ Executors(current'[w]) = {}
      PROVE  CountExact'
  <2> SUFFICES ASSUME NEW q \in Queue
               PROVE  /\ (\A v \in Worker : current'[v] # q) => count'[q] = Known(q)'
                      /\ \A v \in Worker : current'[v] = q =>
                           count'[q] = Known(q)' + size'[v]
    BY DEF CountExact, Executors
  <2>1. Known(q)' = Known(q) /\ Known(q) \in Nat
    BY <1>0, KnownNat
  <2>2. count'[q] = count[q] /\ count[q] \in Nat
    BY <1>0 DEF TypeOK
  <2>3. /\ (\A v \in Worker : current[v] # q) => count[q] = Known(q)
        /\ \A v \in Worker : current[v] = q => count[q] = Known(q) + size[v]
    BY DEF CountExact, Executors
  <2>4. q # None
    BY NoneAssumption
  <2> QED BY <1>0, <2>1, <2>2, <2>3, <2>4 DEF Executors
\* A step that moves a job, or the count of it, and no executor.
<1>1. ASSUME UNCHANGED <<current, size>>,
             \A q \in Queue : /\ Known(q)' \in Nat
                              /\ count'[q] - Known(q)' = count[q] - Known(q)
      PROVE  CountExact'
  <2> SUFFICES ASSUME NEW q \in Queue
               PROVE  /\ Executors(q) = {} => count'[q] = Known(q)'
                      /\ \A v \in Executors(q) : count'[q] = Known(q)' + size[v]
    BY <1>1 DEF CountExact, Executors
  <2>1. Known(q) \in Nat /\ count[q] \in Nat
    BY KnownNat DEF TypeOK
  <2>2. count'[q] \in Nat /\ \A v \in Executors(q) : size[v] \in Nat
    BY NextTypes DEF TypeOK, Executors
  <2> QED BY <1>1, <2>1, <2>2 DEF CountExact
<1>2. ASSUME NEW w \in Worker, NEW j \in Job, CountJob(w, j)
      PROVE  CountExact'
  <2>1. ASSUME NEW q \in Queue
        PROVE  /\ Known(q)' \in Nat
               /\ count'[q] - Known(q)' = count[q] - Known(q)
    <3>1. CountedPushers(q)' = IF q = QueueOf[j] THEN CountedPushers(q) \cup {w}
                                                 ELSE CountedPushers(q)
      BY <1>2 DEF CountJob, CountedPushers, TypeOK
    <3>2. w \notin CountedPushers(q)
      BY <1>2 DEF CountJob, CountedPushers
    <3>3. Cardinality(CountedPushers(q))' =
            IF q = QueueOf[j] THEN Cardinality(CountedPushers(q)) + 1
                              ELSE Cardinality(CountedPushers(q))
      <4>1. CASE q = QueueOf[j]
        <5>1. CountedPushers(q)' = CountedPushers(q) \cup {w}
          BY <3>1, <4>1
        <5>2. Cardinality(CountedPushers(q) \cup {w}) = Cardinality(CountedPushers(q)) + 1
          BY <3>2, KnownNat, FS_AddElement, Zenon
        <5> QED BY <4>1, <5>1, <5>2
      <4>2. CASE q # QueueOf[j]
        BY <3>1, <4>2
      <4> QED BY <4>1, <4>2
    <3>4. jobs'[q] = jobs[q] /\ count[q] \in Nat
          /\ count'[q] = IF q = QueueOf[j] THEN count[q] + 1 ELSE count[q]
      BY <1>2 DEF CountJob, TypeOK
    <3>5. Known(q)' = IF q = QueueOf[j] THEN Known(q) + 1 ELSE Known(q)
      BY <3>3, <3>4, KnownNat, SMTT(30) DEF Known
    <3> QED BY <3>4, <3>5, KnownNat
  <2> QED BY <1>1, <1>2, <2>1 DEF CountJob
<1>3. ASSUME NEW w \in Worker, StoreJob(w)
      PROVE  CountExact'
  <2> DEFINE r == QueueOf[pushing[w]]
  <2>0. pushing[w] \in Job /\ r \in Queue
    BY <1>3, QueueOfAssumption DEF StoreJob, Shape, TypeOK
  <2>1. ASSUME NEW q \in Queue
        PROVE  /\ Known(q)' \in Nat
               /\ count'[q] - Known(q)' = count[q] - Known(q)
    <3>1. CountedPushers(q)' = CountedPushers(q) \ {w}
      BY <1>3 DEF StoreJob, CountedPushers, TypeOK
    <3>2. w \in CountedPushers(q) <=> q = r
      BY <1>3 DEF StoreJob, CountedPushers
    <3>3. Cardinality(CountedPushers(q))' =
            IF q = r THEN Cardinality(CountedPushers(q)) - 1
                     ELSE Cardinality(CountedPushers(q))
      BY <3>1, <3>2, KnownNat, FS_RemoveElement
    <3>4. count'[q] = count[q] /\ count[q] \in Nat
      BY <1>3 DEF StoreJob, TypeOK
    <3>5. jobs'[q] = IF q = r THEN Append(jobs[q], pushing[w]) ELSE jobs[q]
      BY <1>3, <2>0 DEF StoreJob, TypeOK
    <3>6. Len(jobs'[q]) = IF q = r THEN Len(jobs[q]) + 1 ELSE Len(jobs[q])
      BY <3>5, <2>0 DEF TypeOK
    <3>7. Cardinality(CountedPushers(q))' \in Nat
      BY <3>1, KnownNat, FS_RemoveElement, FS_CardinalityType
    <3> QED BY <3>3, <3>4, <3>6, <3>7, KnownNat DEF Known
  <2> QED BY <1>1, <1>3, <2>1 DEF StoreJob
<1>4. ASSUME NEW w \in Worker, HandOffInline(w) \/ PopGlobal(w)
      PROVE  CountExact'
  <2>1. \A q \in Queue : CountedPushers(q)' = CountedPushers(q)
    BY <1>4 DEF HandOffInline, PopGlobal, EnterExecute, CountedPushers, TypeOK
  <2>2. \A q \in Queue : Known(q)' = Known(q)
    BY <1>4, <2>1 DEF HandOffInline, PopGlobal, EnterExecute, Known
  <2>3. pc[w] = "idle" /\ current[w] = None /\ size[w] = 0
    BY <1>4 DEF HandOffInline, PopGlobal, AtRest, Shape
  <2>4. UNCHANGED <<count, size>>
    BY <1>4 DEF HandOffInline, PopGlobal, EnterExecute
  <2>5. CASE HandOffInline(w)
    <3> DEFINE r == QueueOf[pushing[w]]
    <3>1. pushing[w] \in Job /\ r \in Queue /\ w \in FirstPushers(r)
      BY <2>5, QueueOfAssumption DEF HandOffInline, Shape, TypeOK, FirstPushers
    <3>2. Executors(r) = {}
      BY <3>1 DEF Right, Holds, Executors
    <3>3. current' = [current EXCEPT ![w] = r]
      BY <2>5 DEF HandOffInline, EnterExecute
    <3> QED BY <1>0, <2>2, <2>3, <2>4, <3>2, <3>3 DEF TypeOK
  <2>6. CASE PopGlobal(w)
    <3> DEFINE r == Head(global)
    <3>1. r \in Queue /\ InGlobal(r)
      BY <2>6 DEF PopGlobal, TypeOK, InGlobal
    <3>2. Executors(r) = {}
      BY <3>1 DEF Right, Holds, Executors
    <3>3. current' = [current EXCEPT ![w] = r]
      BY <2>6 DEF PopGlobal, EnterExecute
    <3> QED BY <1>0, <2>2, <2>3, <2>4, <3>2, <3>3 DEF TypeOK
  <2> QED BY <1>4, <2>5, <2>6
<1>5. ASSUME NEW w \in Worker, HandOffGlobal(w)
      PROVE  CountExact'
  <2>1. \A q \in Queue : CountedPushers(q)' = CountedPushers(q)
    BY <1>5 DEF HandOffGlobal, CountedPushers, TypeOK
  <2>2. \A q \in Queue : Known(q)' = Known(q)
    BY <1>5, <2>1 DEF HandOffGlobal, Known
  <2> QED BY <1>1, <1>5, <2>2, KnownNat DEF HandOffGlobal
<1>6. ASSUME NEW w \in Worker, PopAll(w)
      PROVE  CountExact'
  <2> DEFINE r == current[w]
  <2>1. r \in Queue /\ size[w] = 0 /\ w \in Executors(r)
    BY <1>6, NoneAssumption DEF PopAll, Shape, TypeOK, Executors
  <2>2. \A v \in Executors(r) : v = w
    BY <2>1 DEF Right, Holds, Executors
  <2>3. /\ UNCHANGED <<count, stage, pushing, current>>
        /\ jobs' = [jobs EXCEPT ![r] = <<>>]
        /\ size' = [size EXCEPT ![w] = Len(jobs[r])]
    BY <1>6 DEF PopAll
  <2> SUFFICES ASSUME NEW q \in Queue
               PROVE  /\ Executors(q) = {} => count[q] = Known(q)'
                      /\ \A v \in Executors(q) : count[q] = Known(q)' + size'[v]
    BY <2>3 DEF CountExact, Executors
  <2>4. CountedPushers(q)' = CountedPushers(q)
    BY <2>3 DEF CountedPushers
  <2>5. CASE q = r
    <3>1. Known(q)' = 0 + Cardinality(CountedPushers(q))
      BY <2>3, <2>4, <2>5 DEF Known, TypeOK
    <3>2. count[q] = Len(jobs[q]) + Cardinality(CountedPushers(q))
      BY <2>1, <2>5, KnownNat DEF CountExact, Known
    <3>3. size'[w] = Len(jobs[q])
      BY <2>3, <2>5 DEF TypeOK
    <3> QED BY <2>1, <2>2, <2>5, <3>1, <3>2, <3>3, KnownNat
  <2>6. CASE q # r
    <3>1. Known(q)' = Known(q)
      BY <2>3, <2>4, <2>6 DEF Known, TypeOK
    <3>2. \A v \in Executors(q) : size'[v] = size[v]
      BY <2>3, <2>6 DEF Executors, TypeOK
    <3> QED BY <3>1, <3>2 DEF CountExact
  <2> QED BY <2>5, <2>6
<1>7. ASSUME NEW w \in Worker, StartJob(w) \/ FinishJob(w) \/ ThrowInJob(w) \/ KeepExecuting(w)
                          \/ EnterWorkGlobal(w) \/ LeaveWorkGlobal(w)
      PROVE  CountExact'
  <2>1. UNCHANGED <<count, jobs, stage, pushing, current, size>>
    BY <1>7 DEF StartJob, FinishJob, ThrowInJob, KeepExecuting, EnterWorkGlobal, LeaveWorkGlobal
  <2> QED BY <1>1, <2>1, KnownNat DEF Known, CountedPushers
<1>8. ASSUME NEW w \in Worker, ReleaseJobs(w)
      PROVE  CountExact'
  <2> DEFINE r == current[w]
  <2>1. r \in Queue /\ count[r] = Known(r) + size[w] /\ w \in Executors(r)
    BY <1>8, ExecutorCount DEF ReleaseJobs, Executors
  <2>2. \A v \in Executors(r) : v = w
    BY <2>1 DEF Right, Holds, Executors
  <2>3. /\ UNCHANGED <<jobs, stage, pushing>>
        /\ count' = [count EXCEPT ![r] = @ - size[w]]
        /\ size' = [size EXCEPT ![w] = 0]
        /\ \/ current' = [current EXCEPT ![w] = None]
           \/ current' = current
    BY <1>8 DEF ReleaseJobs
  <2> SUFFICES ASSUME NEW q \in Queue
               PROVE  /\ Executors(q)' = {} => count'[q] = Known(q)
                      /\ \A v \in Executors(q)' : count'[q] = Known(q) + size'[v]
    BY <2>3 DEF CountExact, Known, CountedPushers
  <2>4. \A v \in Executors(q)' : v \in Executors(q)
    BY <2>3, NoneAssumption DEF Executors, TypeOK
  <2>5. CASE q = r
    <3>1. count'[q] = Known(q) + 0 /\ Known(q) \in Nat
      BY <2>1, <2>3, <2>5, KnownNat DEF TypeOK
    <3>2. size'[w] = 0
      BY <2>3 DEF TypeOK
    <3> QED BY <2>2, <2>4, <2>5, <3>1, <3>2
  <2>6. CASE q # r
    <3>1. count'[q] = count[q]
      BY <2>1, <2>3, <2>6 DEF TypeOK
    <3>2. w \notin Executors(q)
      BY <2>6 DEF Executors
    <3>3. \A v \in Executors(q) : v \in Executors(q)' /\ size'[v] = size[v]
      BY <2>3, <3>2 DEF Executors, TypeOK
    <3> QED BY <2>4, <3>1, <3>3 DEF CountExact
  <2> QED BY <2>5, <2>6
<1>9. ASSUME NEW w \in Worker, YieldQueue(w)
      PROVE  CountExact'
  <2>1. size[w] = 0 /\ UNCHANGED <<count, stage, pushing, jobs, size>>
        /\ current' = [current EXCEPT ![w] = None]
    BY <1>9 DEF YieldQueue, Shape
  <2>2. \A q \in Queue : Known(q)' = Known(q)
    BY <2>1 DEF Known, CountedPushers
  <2> QED BY <1>0, <2>1, <2>2 DEF TypeOK
<1>10. CASE UNCHANGED vars
  <2>1. UNCHANGED <<count, jobs, stage, pushing, current, size>>
    BY <1>10 DEF vars
  <2> QED BY <1>1, <2>1, KnownNat DEF Known, CountedPushers
<1> QED
  BY <1>2, <1>3, <1>4, <1>5, <1>6, <1>7, <1>8, <1>9, <1>10
     DEF Next, PushStep, ExecStep, LoopStep, HandlerPush, BodyPush

-----------------------------------------------------------------------------
(* The right to execute                                                    *)

Distinct(s) == \A i, k \in 1..Len(s) : s[i] = s[k] => i = k
Has(s, e) == \E i \in 1..Len(s) : s[i] = e

LEMMA AppendDistinct ==
  ASSUME NEW S, NEW s \in Seq(S), NEW e \in S
  PROVE  /\ Distinct(s) /\ ~ Has(s, e) => Distinct(Append(s, e))
         /\ \A x : Has(Append(s, e), x) <=> Has(s, x) \/ x = e
<1>1. /\ Len(s) \in Nat /\ Len(Append(s, e)) = Len(s) + 1
      /\ Append(s, e)[Len(s) + 1] = e
      /\ \A i \in 1..Len(s) : Append(s, e)[i] = s[i]
  OBVIOUS
<1>2. 1..(Len(s) + 1) = (1..Len(s)) \cup {Len(s) + 1} /\ Len(s) + 1 \notin 1..Len(s)
  BY <1>1
<1>3. ASSUME Distinct(s), ~ Has(s, e)
      PROVE  Distinct(Append(s, e))
  BY <1>1, <1>2, <1>3 DEF Distinct, Has
<1>4. ASSUME NEW x
      PROVE  Has(Append(s, e), x) <=> Has(s, x) \/ x = e
  BY <1>1, <1>2 DEF Has
<1> QED BY <1>3, <1>4

LEMMA TailDistinct ==
  ASSUME NEW S, NEW s \in Seq(S), s # <<>>, Distinct(s)
  PROVE  /\ Distinct(Tail(s))
         /\ \A x : Has(Tail(s), x) <=> Has(s, x) /\ x # Head(s)
<1>1. /\ Len(s) \in Nat /\ Len(s) > 0 /\ Len(Tail(s)) = Len(s) - 1
      /\ Head(s) = s[1] /\ Tail(s) \in Seq(S)
      /\ \A i \in 1..(Len(s) - 1) : Tail(s)[i] = s[i + 1]
  OBVIOUS
<1>2. Distinct(Tail(s))
  BY <1>1 DEF Distinct
<1>3. ASSUME NEW x, Has(Tail(s), x)
      PROVE  Has(s, x) /\ x # Head(s)
  <2>1. PICK i \in 1..(Len(s) - 1) : s[i + 1] = x
    BY <1>1, <1>3 DEF Has
  <2> QED BY <1>1, <2>1 DEF Has, Distinct
<1>4. ASSUME NEW x, Has(s, x), x # Head(s)
      PROVE  Has(Tail(s), x)
  <2>1. PICK i \in 1..Len(s) : s[i] = x
    BY <1>4 DEF Has
  <2>2. i # 1
    BY <1>1, <1>4, <2>1
  <2>3. i - 1 \in 1..(Len(s) - 1) /\ Tail(s)[i - 1] = x
    BY <1>1, <2>1, <2>2
  <2> QED BY <1>1, <2>3 DEF Has
<1> QED BY <1>2, <1>3, <1>4

LEMMA NextRight ==
  ASSUME TypeOK, Shape, CountExact, Right, [Next]_vars
  PROVE  Right'
<1> USE DEF execVars, pushVars
\* A step after which the same workers hold the same queues, and no count
\* leaves or reaches 0.
<1>0. ASSUME UNCHANGED global,
             \A q \in Queue : \A v \in Worker :
               /\ v \in Executors(q)' <=> v \in Executors(q)
               /\ v \in FirstPushers(q)' <=> v \in FirstPushers(q),
             \A q \in Queue : count'[q] = 0 <=> count[q] = 0
      PROVE  Right'
  <2>1. \A q \in Queue : InGlobal(q)' = InGlobal(q)
    BY <1>0 DEF InGlobal
  <2>2. \A q \in Queue, v \in Worker : Holds(v, q)' <=> Holds(v, q)
    BY <1>0 DEF Holds
  <2> QED BY <1>0, <2>1, <2>2 DEF Right
<1>1. ASSUME NEW w \in Worker, NEW j \in Job, CountJob(w, j)
      PROVE  Right'
  <2> DEFINE r == QueueOf[j]
  <2>1. r \in Queue /\ count[r] \in Nat
    BY QueueOfAssumption DEF TypeOK
  <2>2. \A q \in Queue : InGlobal(q)' = InGlobal(q)
    BY <1>1 DEF CountJob, InGlobal
  <2>3. \A q \in Queue, v \in Worker : v \in Executors(q)' <=> v \in Executors(q)
    BY <1>1 DEF CountJob, Executors
  <2>4. \A q \in Queue, v \in Worker :
          v \in FirstPushers(q)' <=>
            v \in FirstPushers(q) \/ (v = w /\ q = r /\ count[r] = 0)
    BY <1>1 DEF CountJob, FirstPushers, TypeOK
  <2>5. \A q \in Queue : count'[q] = IF q = r THEN count[q] + 1 ELSE count[q]
    BY <1>1 DEF CountJob, TypeOK
  <2>6. count'[r] # 0 /\ (count[r] = 0 => ~ InGlobal(r) /\ \A v \in Worker : ~ Holds(v, r))
    BY <2>1, <2>5 DEF Right
  <2>7. \A q \in Queue, v \in Worker :
          Holds(v, q)' <=> Holds(v, q) \/ (v = w /\ q = r /\ count[r] = 0)
    BY <2>3, <2>4 DEF Holds
  <2>8. \A q \in Queue :
          count'[q] # 0 <=> InGlobal(q)' \/ \E v \in Worker : Holds(v, q)'
    BY <2>2, <2>5, <2>6, <2>7 DEF Right
  <2>9. \A q \in Queue, v \in Worker : ~ (v \in Executors(q)' /\ v \in FirstPushers(q)')
    BY <2>3, <2>4, <2>6 DEF Right, Holds
  <2> QED BY <1>1, <2>2, <2>6, <2>7, <2>8, <2>9 DEF Right, CountJob
<1>2. ASSUME NEW w \in Worker, StoreJob(w)
      PROVE  Right'
  <2>1. \A q \in Queue, v \in Worker :
          /\ v \in Executors(q)' <=> v \in Executors(q)
          /\ v \in FirstPushers(q)' <=> v \in FirstPushers(q)
    BY <1>2 DEF StoreJob, Executors, FirstPushers, TypeOK
  <2> QED BY <1>0, <1>2, <2>1 DEF StoreJob
<1>3. ASSUME NEW w \in Worker, HandOffInline(w)
      PROVE  Right'
  <2> DEFINE r == QueueOf[pushing[w]]
  <2>1. pushing[w] \in Job /\ r \in Queue /\ w \in FirstPushers(r) /\ r # None
    BY <1>3, QueueOfAssumption, NoneAssumption DEF HandOffInline, Shape, TypeOK, FirstPushers
  <2>2. \A q \in Queue : InGlobal(q)' = InGlobal(q)
    BY <1>3 DEF HandOffInline, InGlobal
  <2>3. \A q \in Queue, v \in Worker :
          v \in Executors(q)' <=> v \in Executors(q) \/ (v = w /\ q = r)
    BY <1>3, NoneAssumption DEF HandOffInline, EnterExecute, Executors, TypeOK
  <2>4. \A q \in Queue, v \in Worker :
          v \in FirstPushers(q)' <=> v \in FirstPushers(q) /\ v # w
    BY <1>3 DEF HandOffInline, FirstPushers, TypeOK
  <2>5. \A q \in Queue : w \in FirstPushers(q) => q = r
    BY DEF FirstPushers
  <2>6. \A q \in Queue, v \in Worker : Holds(v, q)' <=> Holds(v, q)
    BY <2>1, <2>3, <2>4, <2>5 DEF Holds
  <2>7. UNCHANGED <<count, global>>
    BY <1>3 DEF HandOffInline
  <2>8. \A q \in Queue, v \in Worker : ~ (v \in Executors(q)' /\ v \in FirstPushers(q)')
    BY <2>3, <2>4 DEF Right
  <2> QED BY <2>2, <2>6, <2>7, <2>8 DEF Right
<1>4. ASSUME NEW w \in Worker, NEW r \in Queue, Holds(w, r),
             global' = Append(global, r), UNCHANGED count,
             \A q \in Queue, v \in Worker :
               /\ v \in Executors(q)' => v \in Executors(q)
               /\ v \in FirstPushers(q)' => v \in FirstPushers(q)
               /\ Holds(v, q)' <=> Holds(v, q) /\ ~ (v = w /\ q = r)
      PROVE  Right'
  <2>1. global \in Seq(Queue) /\ Distinct(global) /\ ~ Has(global, r)
    BY <1>4 DEF TypeOK, Right, Distinct, Has, InGlobal
  <2>2. Distinct(global')
    BY <1>4, <2>1, AppendDistinct
  <2>3. \A q \in Queue : InGlobal(q)' <=> InGlobal(q) \/ q = r
    BY <1>4, <2>1, AppendDistinct DEF InGlobal, Has
  <2>4. \A v \in Worker : ~ Holds(v, r)'
    BY <1>4 DEF Right
  <2>5. \A q \in Queue :
          count'[q] # 0 <=> InGlobal(q)' \/ \E v \in Worker : Holds(v, q)'
    BY <1>4, <2>3 DEF Right
  <2> QED BY <1>4, <2>2, <2>3, <2>4, <2>5 DEF Right, Distinct
<1>5. ASSUME NEW w \in Worker, HandOffGlobal(w)
      PROVE  Right'
  <2> DEFINE r == QueueOf[pushing[w]]
  <2>1. pushing[w] \in Job /\ r \in Queue /\ w \in FirstPushers(r)
    BY <1>5, QueueOfAssumption DEF HandOffGlobal, Shape, TypeOK, FirstPushers
  <2>2. \A q \in Queue, v \in Worker : v \in Executors(q)' <=> v \in Executors(q)
    BY <1>5 DEF HandOffGlobal, Executors
  <2>3. \A q \in Queue, v \in Worker :
          v \in FirstPushers(q)' <=> v \in FirstPushers(q) /\ ~ (v = w /\ q = r)
    BY <1>5 DEF HandOffGlobal, FirstPushers, TypeOK
  <2>4. w \notin Executors(r) /\ Holds(w, r)
    BY <2>1 DEF Right, Holds
  <2>5. \A q \in Queue, v \in Worker :
          Holds(v, q)' <=> Holds(v, q) /\ ~ (v = w /\ q = r)
    BY <2>2, <2>3, <2>4 DEF Holds
  <2>6. global' = Append(global, r) /\ UNCHANGED count
    BY <1>5 DEF HandOffGlobal
  <2> QED BY <1>4, <2>1, <2>2, <2>3, <2>4, <2>5, <2>6
<1>10. ASSUME NEW w \in Worker, PopGlobal(w)
      PROVE  Right'
  <2> DEFINE r == Head(global)
  <2>1. r \in Queue /\ InGlobal(r) /\ global \in Seq(Queue) /\ global # <<>> /\ Distinct(global)
    BY <1>10 DEF PopGlobal, TypeOK, InGlobal, Right, Distinct
  <2>2. Distinct(global')
    BY <1>10, <2>1, TailDistinct DEF PopGlobal
  <2>3. \A q \in Queue : InGlobal(q)' <=> InGlobal(q) /\ q # r
    BY <1>10, <2>1, TailDistinct DEF PopGlobal, InGlobal, Has
  <2>4. \A q \in Queue, v \in Worker :
          v \in Executors(q)' <=> v \in Executors(q) \/ (v = w /\ q = r)
    BY <1>10, <2>1, NoneAssumption
       DEF PopGlobal, AtRest, EnterExecute, Executors, TypeOK, Shape
  <2>5. \A q \in Queue, v \in Worker : v \in FirstPushers(q)' <=> v \in FirstPushers(q)
    BY <1>10 DEF PopGlobal, FirstPushers
  <2>6. \A v \in Worker : ~ Holds(v, r)
    BY <2>1 DEF Right
  <2>7. \A q \in Queue, v \in Worker : Holds(v, q)' <=> Holds(v, q) \/ (v = w /\ q = r)
    BY <2>4, <2>5 DEF Holds
  <2>8. UNCHANGED count
    BY <1>10 DEF PopGlobal
  <2>9. \A q \in Queue, v \in Worker : ~ (v \in Executors(q)' /\ v \in FirstPushers(q)')
    BY <2>4, <2>5, <2>6 DEF Right, Holds
  <2>10. \A q \in Queue :
          count'[q] # 0 <=> InGlobal(q)' \/ \E v \in Worker : Holds(v, q)'
    BY <2>1, <2>3, <2>7, <2>8 DEF Right
  <2> QED BY <2>2, <2>3, <2>6, <2>7, <2>9, <2>10 DEF Right, Distinct
<1>6. ASSUME NEW w \in Worker, PopAll(w) \/ StartJob(w) \/ FinishJob(w) \/ ThrowInJob(w)
                          \/ KeepExecuting(w) \/ EnterWorkGlobal(w) \/ LeaveWorkGlobal(w)
      PROVE  Right'
  <2>1. UNCHANGED <<count, global, stage, pushing, current>>
    BY <1>6 DEF PopAll, StartJob, FinishJob, ThrowInJob, KeepExecuting, EnterWorkGlobal,
                LeaveWorkGlobal
  <2> QED BY <1>0, <2>1 DEF Executors, FirstPushers
<1>7. ASSUME NEW w \in Worker, ReleaseJobs(w)
      PROVE  Right'
  <2> DEFINE r == current[w]
  <2>1. /\ r \in Queue /\ size[w] <= count[r] /\ size[w] \in Nat /\ count[r] \in Nat
        /\ w \in Executors(r)
    BY <1>7, ExecutorCount DEF ReleaseJobs, Executors, TypeOK
  <2>2. \A q \in Queue : count'[q] = IF q = r THEN count[q] - size[w] ELSE count[q]
    BY <1>7, <2>1 DEF ReleaseJobs, TypeOK
  <2>3. \A q \in Queue, v \in Worker : v \in FirstPushers(q)' <=> v \in FirstPushers(q)
    BY <1>7 DEF ReleaseJobs, FirstPushers
  <2>4. CASE count[r] = size[w]
    <3>1. current' = [current EXCEPT ![w] = None] /\ UNCHANGED global
      BY <1>7, <2>4 DEF ReleaseJobs
    <3>2. \A q \in Queue, v \in Worker :
            v \in Executors(q)' <=> v \in Executors(q) /\ ~ (v = w /\ q = r)
      BY <3>1, NoneAssumption DEF Executors, TypeOK
    <3>3. w \notin FirstPushers(r) /\ Holds(w, r)
      BY <2>1 DEF Right, Holds
    <3>4. \A q \in Queue, v \in Worker :
            Holds(v, q)' <=> Holds(v, q) /\ ~ (v = w /\ q = r)
      BY <2>3, <3>2, <3>3 DEF Holds
    <3>5. ~ InGlobal(r) /\ \A q \in Queue, v \in Worker : q = r => ~ Holds(v, q)'
      <4>1. ~ InGlobal(r)
        BY <2>1, <3>3 DEF Right
      <4>2. \A v \in Worker : Holds(v, r) => v = w
        BY <2>1, <3>3 DEF Right
      <4> QED BY <2>1, <3>4, <4>1, <4>2
    <3>6. \A q \in Queue : InGlobal(q)' = InGlobal(q)
      BY <3>1 DEF InGlobal
    <3>7. count'[r] = 0
      BY <2>1, <2>2, <2>4
    <3>8. \A q \in Queue :
            count'[q] # 0 <=> InGlobal(q)' \/ \E v \in Worker : Holds(v, q)'
      <4>1. ASSUME NEW q \in Queue, q = r
            PROVE  count'[q] # 0 <=> InGlobal(q)' \/ \E v \in Worker : Holds(v, q)'
        BY <3>5, <3>6, <3>7, <4>1
      <4>2. ASSUME NEW q \in Queue, q # r
            PROVE  count'[q] # 0 <=> InGlobal(q)' \/ \E v \in Worker : Holds(v, q)'
        BY <2>2, <3>4, <3>6, <4>2 DEF Right
      <4> QED BY <4>1, <4>2
    <3>9. \A q \in Queue, v \in Worker : ~ (v \in Executors(q)' /\ v \in FirstPushers(q)')
      BY <2>3, <3>2 DEF Right
    <3> QED BY <3>1, <3>4, <3>6, <3>8, <3>9 DEF Right
  <2>5. CASE count[r] # size[w]
    <3>1. UNCHANGED <<current, global>>
      BY <1>7, <2>5 DEF ReleaseJobs
    <3>2. \A q \in Queue : count'[q] = 0 <=> count[q] = 0
      BY <2>1, <2>2, <2>5
    <3> QED BY <1>0, <2>3, <3>1, <3>2 DEF Executors
  <2> QED BY <2>4, <2>5
<1>8. ASSUME NEW w \in Worker, YieldQueue(w)
      PROVE  Right'
  <2> DEFINE r == current[w]
  <2>1. r \in Queue /\ w \in Executors(r)
    BY <1>8 DEF YieldQueue, Shape, TypeOK, Executors
  <2>2. \A q \in Queue, v \in Worker :
          v \in Executors(q)' <=> v \in Executors(q) /\ ~ (v = w /\ q = r)
    BY <1>8, NoneAssumption DEF YieldQueue, Executors, TypeOK
  <2>3. \A q \in Queue, v \in Worker : v \in FirstPushers(q)' <=> v \in FirstPushers(q)
    BY <1>8 DEF YieldQueue, FirstPushers
  <2>4. w \notin FirstPushers(r) /\ Holds(w, r)
    BY <2>1 DEF Right, Holds
  <2>5. \A q \in Queue, v \in Worker :
          Holds(v, q)' <=> Holds(v, q) /\ ~ (v = w /\ q = r)
    BY <2>2, <2>3, <2>4 DEF Holds
  <2>6. global' = Append(global, r) /\ UNCHANGED count
    BY <1>8 DEF YieldQueue
  <2> QED BY <1>4, <2>1, <2>2, <2>3, <2>4, <2>5, <2>6
<1>9. CASE UNCHANGED vars
  <2>1. UNCHANGED <<count, global, stage, pushing, current>>
    BY <1>9 DEF vars
  <2> QED BY <1>0, <2>1 DEF Executors, FirstPushers
<1> QED
  BY <1>1, <1>2, <1>3, <1>5, <1>6, <1>7, <1>8, <1>9, <1>10
     DEF Next, PushStep, ExecStep, LoopStep, HandlerPush, BodyPush

-----------------------------------------------------------------------------
(* The theorems                                                            *)

LEMMA InitIInv == Init => IInv
<1> SUFFICES ASSUME Init PROVE IInv
  OBVIOUS
<1>1. TypeOK /\ Shape
  BY InitTypes
<1>2. \A q \in Queue : Executors(q) = {} /\ FirstPushers(q) = {} /\ CountedPushers(q) = {}
  BY NoneAssumption DEF Init, Executors, FirstPushers, CountedPushers
<1>3. CountExact
  <2>1. \A q \in Queue : Cardinality(CountedPushers(q)) = 0
    BY <1>2, FS_EmptySet
  <2>2. \A q \in Queue : count[q] = 0 /\ Len(jobs[q]) = 0
    BY DEF Init
  <2>3. \A q \in Queue : Known(q) = 0
    BY <2>1, <2>2 DEF Known
  <2> QED BY <1>2, <2>2, <2>3 DEF CountExact
<1>4. Right
  BY <1>2 DEF Init, Right, Holds, InGlobal
<1> QED BY <1>1, <1>3, <1>4 DEF IInv

LEMMA NextIInv == IInv /\ [Next]_vars => IInv'
BY NextTypes, NextCount, NextRight DEF IInv

LEMMA Inductive == Spec => []IInv
BY InitIInv, NextIInv, PTL DEF Spec

\* Every variable keeps its type, _job_count included: no fetch_sub takes it
\* below 0 (JobQueue.cpp:42).
THEOREM TypeCorrect == Spec => []TypeOK
BY Inductive, PTL DEF IInv

\* _job_count accounts for stored jobs, taken jobs and pushes under way.
THEOREM CountCorrect == Spec => []CountExact
BY Inductive, PTL DEF IInv

\* No two workers are ever in Execute of one queue, however many workers push
\* to it and hand it on through g_global_queue.
THEOREM MutualExclusion == Spec => []OneExecutor
<1>1. IInv => OneExecutor
  BY DEF IInv, Right, OneExecutor, Holds, Executors
<1> QED BY <1>1, Inductive, PTL

\* The size of a set without two different elements.
LEMMA AtMostOne ==
  ASSUME NEW S, \A x, y \in S : x = y
  PROVE  Cardinality(S) = IF S = {} THEN 0 ELSE 1
<1>1. CASE S = {}
  BY <1>1, FS_EmptySet
<1>2. CASE S # {}
  <2>1. PICK x : S = {x}
    BY <1>2
  <2> QED BY <1>2, <2>1, FS_Singleton
<1> QED BY <1>1, <1>2

\* The right to execute a queue is held exactly once while its count is not 0.
THEOREM RightHeldOnce == Spec => []OneRight
<1>1. IInv => OneRight
  <2> SUFFICES ASSUME IInv, NEW q \in Queue
               PROVE  Cardinality(Executors(q)) + Cardinality(FirstPushers(q))
                        + Cardinality(GlobalEntries(q)) = (IF count[q] = 0 THEN 0 ELSE 1)
    BY DEF OneRight
  <2> USE DEF IInv
  <2>1. /\ Executors(q) \subseteq Worker /\ FirstPushers(q) \subseteq Worker
        /\ \A i \in GlobalEntries(q) : InGlobal(q)
        /\ InGlobal(q) => \E i : i \in GlobalEntries(q)
    BY DEF Executors, FirstPushers, GlobalEntries, InGlobal
  <2>2. /\ \A w, v \in Executors(q) : w = v
        /\ \A w, v \in FirstPushers(q) : w = v
        /\ \A i, k \in GlobalEntries(q) : i = k
        /\ Executors(q) # {} => FirstPushers(q) = {} /\ GlobalEntries(q) = {}
        /\ FirstPushers(q) # {} => GlobalEntries(q) = {}
        /\ count[q] = 0 <=> Executors(q) = {} /\ FirstPushers(q) = {} /\ GlobalEntries(q) = {}
    <3>1. \A i, k \in GlobalEntries(q) : i = k
      BY DEF Right, GlobalEntries
    <3> QED BY <2>1, <3>1 DEF Right, Holds
  <2>3. /\ Cardinality(Executors(q)) = IF Executors(q) = {} THEN 0 ELSE 1
        /\ Cardinality(FirstPushers(q)) = IF FirstPushers(q) = {} THEN 0 ELSE 1
        /\ Cardinality(GlobalEntries(q)) = IF GlobalEntries(q) = {} THEN 0 ELSE 1
    BY <2>2, AtMostOne
  <2> QED BY <2>2, <2>3
<1> QED BY <1>1, Inductive, PTL

-----------------------------------------------------------------------------
(* Each queue is a serial executor                                         *)

\* A job that was counted and is not stored is nowhere else: it enters its
\* queue for the first time.
Once ==
  /\ \A q \in Queue, j \in Job : Has(jobs[q], j) \/ Has(done[q], j) => j \in born
  /\ \A w \in Worker, j \in Job : Has(batch[w], j) \/ pushing[w] = j => j \in born
  /\ \A w \in Worker : stage[w] \in {"first", "later"} =>
       /\ \A q \in Queue : ~ Has(jobs[q], pushing[w]) /\ ~ Has(done[q], pushing[w])
       /\ \A v \in Worker : ~ Has(batch[v], pushing[w])
       /\ \A v \in Worker : pushing[v] = pushing[w] => v = w

LEMMA HeadTailHas ==
  ASSUME NEW S, NEW s \in Seq(S), s # <<>>
  PROVE  /\ Head(s) \in S /\ Tail(s) \in Seq(S) /\ Has(s, Head(s))
         /\ \A x : Has(Tail(s), x) => Has(s, x)
<1>1. /\ Len(s) \in Nat /\ Len(s) > 0 /\ Len(Tail(s)) = Len(s) - 1
      /\ Head(s) = s[1] /\ Tail(s) \in Seq(S) /\ Head(s) \in S
      /\ \A i \in 1..(Len(s) - 1) : Tail(s)[i] = s[i + 1]
  OBVIOUS
<1>2. \A i \in 1..(Len(s) - 1) : i + 1 \in 1..Len(s)
  BY <1>1
<1> QED BY <1>1, <1>2 DEF Has

LEMMA ConcatHas ==
  ASSUME NEW S, NEW s \in Seq(S), NEW t \in Seq(S)
  PROVE  \A x : Has(s \o t, x) <=> Has(s, x) \/ Has(t, x)
<1>1. /\ Len(s) \in Nat /\ Len(t) \in Nat /\ Len(s \o t) = Len(s) + Len(t)
      /\ \A i \in 1..Len(s) : (s \o t)[i] = s[i]
      /\ \A i \in 1..Len(t) : (s \o t)[Len(s) + i] = t[i]
  OBVIOUS
<1> DEFINE r == s \o t
<1>2. \A i \in 1..Len(r) : i \in 1..Len(s) \/ \E k \in 1..Len(t) : i = Len(s) + k
  <2> SUFFICES ASSUME NEW i \in 1..Len(r), i \notin 1..Len(s)
               PROVE  \E k \in 1..Len(t) : i = Len(s) + k
    OBVIOUS
  <2>1. i - Len(s) \in 1..Len(t) /\ i = Len(s) + (i - Len(s))
    BY <1>1
  <2> QED BY <2>1
<1>3. /\ \A i \in 1..Len(s) : i \in 1..Len(r) /\ r[i] = s[i]
      /\ \A k \in 1..Len(t) : Len(s) + k \in 1..Len(r) /\ r[Len(s) + k] = t[k]
  BY <1>1
<1> HIDE DEF r
<1>4. ASSUME NEW x
      PROVE  Has(r, x) <=> Has(s, x) \/ Has(t, x)
  <2>1. ASSUME Has(r, x)
        PROVE  Has(s, x) \/ Has(t, x)
    <3>1. PICK i \in 1..Len(r) : r[i] = x
      BY <2>1 DEF Has
    <3>2. CASE i \in 1..Len(s)
      BY <1>3, <3>1, <3>2 DEF Has
    <3>3. ASSUME NEW k \in 1..Len(t), i = Len(s) + k
          PROVE  Has(t, x)
      BY <1>3, <3>1, <3>3 DEF Has
    <3> QED BY <1>2, <3>2, <3>3
  <2>2. Has(s, x) \/ Has(t, x) => Has(r, x)
    BY <1>3 DEF Has
  <2> QED BY <2>1, <2>2
<1> QED BY <1>4 DEF r

LEMMA NextOnce ==
  ASSUME TypeOK, Shape, Once, [Next]_vars
  PROVE  Once'
<1> USE DEF TypeOK, execVars, pushVars
<1> USE NoneAssumption
<1>1. ASSUME NEW w \in Worker, NEW j \in Job, CountJob(w, j)
      PROVE  Once'
  BY <1>1 DEF CountJob, Once, Shape
<1>2. ASSUME NEW w \in Worker, StoreJob(w)
      PROVE  Once'
  <2>1. PICK j \in Job : j = pushing[w]
    BY <1>2 DEF StoreJob, Shape
  <2>2. PICK q \in Queue : q = QueueOf[j]
    BY QueueOfAssumption
  <2>3. /\ jobs' = [jobs EXCEPT ![q] = Append(@, j)]
        /\ stage[w] \in {"first", "later"} /\ stage'[w] \in {"hand", "none"}
        /\ pushing'[w] \in {j, None}
        /\ \A v \in Worker : v # w => stage'[v] = stage[v] /\ pushing'[v] = pushing[v]
        /\ UNCHANGED <<batch, born, done>>
    BY <1>2, <2>1, <2>2 DEF StoreJob
  <2>4. \A r \in Queue : \A x : Has(jobs'[r], x) <=> Has(jobs[r], x) \/ (r = q /\ x = j)
    BY <2>3, AppendDistinct
  <2> HIDE DEF TypeOK
  <2>5. j \in born
    BY <2>1 DEF Once
  <2>6. \A v \in Worker : v # w => pushing[v] # j
    BY <2>1, <2>3 DEF Once
  <2>7. \A v \in Worker : stage'[v] \in {"first", "later"} =>
          v # w /\ pushing'[v] # j
    BY <2>3, <2>6
  <2>8. \A r \in Queue, k \in Job : Has(jobs'[r], k) \/ Has(done'[r], k) => k \in born'
    BY <2>3, <2>4, <2>5 DEF Once
  <2>9. \A v \in Worker, k \in Job : Has(batch'[v], k) \/ pushing'[v] = k => k \in born'
    <3>1. \A v \in Worker : pushing'[v] \in {pushing[v], None}
      BY <2>1, <2>3
    <3> QED BY <2>3, <3>1 DEF Once
  <2>10. ASSUME NEW u \in Worker, stage'[u] \in {"first", "later"}
         PROVE  /\ \A r \in Queue : ~ Has(jobs'[r], pushing'[u]) /\ ~ Has(done'[r], pushing'[u])
                /\ \A v \in Worker : ~ Has(batch'[v], pushing'[u])
                /\ \A v \in Worker : pushing'[v] = pushing'[u] => v = u
    <3>1. u # w /\ pushing'[u] # j
      BY <2>7, <2>10
    <3>2. stage[u] \in {"first", "later"} /\ pushing'[u] = pushing[u] /\ pushing[u] # None
      BY <2>3, <2>10, <3>1 DEF Shape
    <3>3. pushing'[w] # pushing[u]
      BY <2>3, <3>1, <3>2
    <3> QED BY <2>3, <2>4, <3>1, <3>2, <3>3 DEF Once
  <2> QED BY <2>8, <2>9, <2>10 DEF Once
<1>3. ASSUME NEW w \in Worker, HandOffInline(w) \/ HandOffGlobal(w)
      PROVE  Once'
  <2>1. /\ stage' = [stage EXCEPT ![w] = "none"] /\ pushing' = [pushing EXCEPT ![w] = None]
        /\ UNCHANGED <<jobs, batch, born, done>>
    BY <1>3 DEF HandOffInline, HandOffGlobal, EnterExecute
  <2>2. \A u \in Worker : stage'[u] \in {"first", "later"} =>
          u # w /\ pushing[u] # None /\ stage[u] = stage'[u] /\ pushing'[u] = pushing[u]
    BY <2>1 DEF Shape
  <2>3. \A u \in Worker : pushing'[u] \in {pushing[u], None}
    BY <2>1
  <2> HIDE DEF TypeOK
  <2> QED BY <2>1, <2>2, <2>3 DEF Once
<1>4. ASSUME NEW w \in Worker, PopAll(w)
      PROVE  Once'
  <2>1. PICK q \in Queue : q = current[w]
    BY <1>4 DEF PopAll, Shape
  <2>2. /\ batch' = [batch EXCEPT ![w] = jobs[q]] /\ jobs' = [jobs EXCEPT ![q] = <<>>]
        /\ UNCHANGED <<stage, pushing, born, done>>
    BY <1>4, <2>1 DEF PopAll
  <2>3. \A x : ~ Has(<<>>, x)
    BY DEF Has
  <2>4. /\ \A r \in Queue : \A x : Has(jobs'[r], x) => Has(jobs[r], x)
        /\ \A v \in Worker : \A x : Has(batch'[v], x) => Has(batch[v], x) \/ Has(jobs[q], x)
    BY <2>2, <2>3
  <2> QED BY <2>2, <2>4 DEF Once
<1>5. ASSUME NEW w \in Worker, FinishJob(w)
      PROVE  Once'
  <2>1. PICK q \in Queue : q = current[w]
    BY <1>5 DEF FinishJob, Shape
  <2>2. PICK b \in Seq(Job) : b = batch[w] /\ b # <<>>
    BY <1>5 DEF FinishJob, Shape
  <2>3. /\ done' = [done EXCEPT ![q] = Append(@, Head(b))]
        /\ batch' = [batch EXCEPT ![w] = Tail(b)]
        /\ UNCHANGED <<jobs, stage, pushing, born>>
    BY <1>5, <2>1, <2>2 DEF FinishJob
  <2>4. Head(b) \in Job /\ Has(b, Head(b)) /\ \A x : Has(Tail(b), x) => Has(b, x)
    BY <2>2, HeadTailHas
  <2>5. /\ \A r \in Queue : \A x : Has(done'[r], x) => Has(done[r], x) \/ Has(b, x)
        /\ \A v \in Worker : \A x : Has(batch'[v], x) => Has(batch[v], x)
    BY <2>2, <2>3, <2>4, AppendDistinct
  <2> QED BY <2>2, <2>3, <2>5 DEF Once
<1>6. ASSUME UNCHANGED <<jobs, batch, stage, pushing, born, done>>
      PROVE  Once'
  BY <1>6 DEF Once
<1>7. ASSUME NEW w \in Worker,
             \/ StartJob(w) \/ ThrowInJob(w) \/ ReleaseJobs(w)
             \/ KeepExecuting(w) \/ YieldQueue(w) \/ LoopStep(w)
      PROVE  Once'
  BY <1>6, <1>7 DEF StartJob, ThrowInJob, ReleaseJobs, KeepExecuting, YieldQueue,
     LoopStep, EnterWorkGlobal, PopGlobal, LeaveWorkGlobal, EnterExecute
<1>8. CASE UNCHANGED vars
  BY <1>6, <1>8 DEF vars
<1> QED
  BY <1>1, <1>2, <1>3, <1>4, <1>5, <1>7, <1>8
     DEF Next, PushStep, ExecStep, HandlerPush, BodyPush

\* What a queue shows of itself: the worker that executes it, if there is one,
\* carries the running job in front of its batch.
View ==
  \A q \in Queue :
    /\ (\A w \in Worker : current[w] # q) => Running(q) = None /\ Taken(q) = <<>>
    /\ \A w \in Worker : current[w] = q =>
         IF pc[w] \in {"body", "dead"}
           THEN Running(q) = Head(batch[w]) /\ Taken(q) = Tail(batch[w])
           ELSE Running(q) = None /\ Taken(q) = batch[w]

LEMMA Viewed == IInv => View
<1> SUFFICES ASSUME IInv, NEW q \in Queue
             PROVE  /\ (\A w \in Worker : current[w] # q) => Running(q) = None /\ Taken(q) = <<>>
                    /\ \A w \in Worker : current[w] = q =>
                         IF pc[w] \in {"body", "dead"}
                           THEN Running(q) = Head(batch[w]) /\ Taken(q) = Tail(batch[w])
                           ELSE Running(q) = None /\ Taken(q) = batch[w]
  BY DEF View
<1>1. ASSUME \A w \in Worker : current[w] # q
      PROVE  Running(q) = None /\ Taken(q) = <<>>
  <2>1. Executors(q) = {}
    BY <1>1 DEF Executors
  <2> QED BY <2>1 DEF Running, Taken
<1>2. ASSUME NEW w \in Worker, current[w] = q
      PROVE  IF pc[w] \in {"body", "dead"}
               THEN Running(q) = Head(batch[w]) /\ Taken(q) = Tail(batch[w])
               ELSE Running(q) = None /\ Taken(q) = batch[w]
  <2>1. w \in Executors(q) /\ \A v \in Executors(q) : v = w
    BY <1>2 DEF IInv, Right, Holds, Executors
  <2>2. ExecutorOf(q) = w
    BY <1>2, <2>1 DEF ExecutorOf, Executors
  <2>3. pc[w] \in {"body", "dead"} => Head(batch[w]) \in Job
    <3>1. ASSUME pc[w] \in {"body", "dead"}
          PROVE  batch[w] \in Seq(Job) /\ batch[w] # <<>>
      BY <3>1 DEF IInv, TypeOK, Shape
    <3> QED BY <3>1, HeadTailHas
  <2>4. CASE pc[w] \in {"body", "dead"}
    <3>1. Running(q) = Head(batch[w])
      BY <2>1, <2>2, <2>4 DEF Running
    <3>2. Running(q) # None /\ Executors(q) # {}
      BY <2>1, <2>3, <2>4, <3>1, NoneAssumption
    <3> QED BY <2>2, <2>4, <3>1, <3>2 DEF Taken
  <2>5. CASE pc[w] \notin {"body", "dead"}
    <3>1. Running(q) = None
      BY <2>1, <2>5 DEF Running
    <3> QED BY <2>1, <2>2, <2>5, <3>1 DEF Taken
  <2> QED BY <2>4, <2>5
<1> QED BY <1>1, <1>2

\* The state of the serial executors, as JobQueue maps it.
Pend == [q \in Queue |-> Taken(q) \o jobs[q]]
Run == [q \in Queue |-> Running(q)]

\* A queue has nothing of itself in a worker's hands.
Bare(q) ==
  \/ \A w \in Worker : current[w] # q
  \/ \E w \in Worker : current[w] = q /\ pc[w] \notin {"body", "dead"} /\ batch[w] = <<>>

BareShowsNothing == \A q \in Queue : Bare(q) => Running(q) = None /\ Taken(q) = <<>>

LEMMA BareView == View => BareShowsNothing
<1> SUFFICES ASSUME View, NEW q \in Queue, Bare(q)
             PROVE  Running(q) = None /\ Taken(q) = <<>>
  BY DEF BareShowsNothing
<1>1. CASE \A w \in Worker : current[w] # q
  BY <1>1 DEF View
<1>2. CASE \E w \in Worker : current[w] = q /\ pc[w] \notin {"body", "dead"} /\ batch[w] = <<>>
  BY <1>2 DEF View
<1> QED BY <1>1, <1>2 DEF Bare

\* A queue whose executor stays and keeps its batch and its place does not
\* change, and neither does one that is bare before and after.
Same(q) ==
  \/ Bare(q) /\ Bare(q)'
  \/ \E w \in Worker :
       /\ current[w] = q /\ current'[w] = q /\ batch'[w] = batch[w]
       /\ pc[w] \in {"body", "dead"} <=> pc'[w] \in {"body", "dead"}
  \/ \A w \in Worker : current[w] # q /\ current'[w] # q

LEMMA SameView ==
  ASSUME View, View',
         BareShowsNothing', NEW q \in Queue, Same(q)
  PROVE  Running(q)' = Running(q) /\ Taken(q)' = Taken(q)
<1>1. CASE Bare(q) /\ Bare(q)'
  BY <1>1, BareView DEF BareShowsNothing
<1>2. ASSUME NEW w \in Worker, current[w] = q, current'[w] = q, batch'[w] = batch[w],
             pc[w] \in {"body", "dead"} <=> pc'[w] \in {"body", "dead"}
      PROVE  Running(q)' = Running(q) /\ Taken(q)' = Taken(q)
  <2>1. IF pc[w] \in {"body", "dead"}
          THEN Running(q) = Head(batch[w]) /\ Taken(q) = Tail(batch[w])
          ELSE Running(q) = None /\ Taken(q) = batch[w]
    BY <1>2 DEF View
  <2>2. IF pc'[w] \in {"body", "dead"}
          THEN Running(q)' = Head(batch[w]) /\ Taken(q)' = Tail(batch[w])
          ELSE Running(q)' = None /\ Taken(q)' = batch[w]
    BY <1>2 DEF View
  <2> QED BY <1>2, <2>1, <2>2
<1>3. CASE \A w \in Worker : current[w] # q /\ current'[w] # q
  BY <1>3 DEF View
<1> QED BY <1>1, <1>2, <1>3 DEF Same

\* Steps that leave the stored and the finished jobs alone, and every queue the
\* same, are steps of no serial executor.
LEMMA SameAll ==
  ASSUME View, View', BareShowsNothing',
         UNCHANGED <<jobs, done>>, \A q \in Queue : Same(q)
  PROVE  UNCHANGED <<Pend, Run, done>>
<1>1. \A q \in Queue : Running(q)' = Running(q) /\ Taken(q)' = Taken(q)
  BY SameView
<1> QED BY <1>1 DEF Pend, Run

LEMMA ConcatEmpty ==
  ASSUME NEW S, NEW s \in Seq(S)
  PROVE  <<>> \o s = s /\ s \o <<>> = s
OBVIOUS

LEMMA ConcatAppend ==
  ASSUME NEW S, NEW s \in Seq(S), NEW t \in Seq(S), NEW e \in S
  PROVE  s \o Append(t, e) = Append(s \o t, e)
OBVIOUS

LEMMA ConcatHeadTail ==
  ASSUME NEW S, NEW s \in Seq(S), NEW t \in Seq(S), s # <<>>
  PROVE  /\ s \o t # <<>> /\ Head(s \o t) = Head(s)
         /\ Tail(s \o t) = Tail(s) \o t
OBVIOUS

LEMMA ViewTypes ==
  ASSUME TypeOK, Shape, View, NEW q \in Queue
  PROVE  /\ Taken(q) \in Seq(Job) /\ Running(q) \in Job \cup {None}
         /\ \A j \in Job : Has(Taken(q), j) \/ Running(q) = j =>
              \E w \in Worker : Has(batch[w], j)
<1>1. CASE \A w \in Worker : current[w] # q
  <2>1. Running(q) = None /\ Taken(q) = <<>>
    BY <1>1 DEF View
  <2>2. \A j : ~ Has(<<>>, j)
    BY DEF Has
  <2> QED BY <2>1, <2>2, NoneAssumption
<1>2. ASSUME NEW w \in Worker, current[w] = q
      PROVE  /\ Taken(q) \in Seq(Job) /\ Running(q) \in Job \cup {None}
             /\ \A j \in Job : Has(Taken(q), j) \/ Running(q) = j =>
                  \E v \in Worker : Has(batch[v], j)
  <2>1. PICK b \in Seq(Job) : b = batch[w]
    BY DEF TypeOK
  <2>2. CASE pc[w] \in {"body", "dead"}
    <3>1. Running(q) = Head(b) /\ Taken(q) = Tail(b) /\ b # <<>>
      BY <1>2, <2>1, <2>2 DEF View, Shape
    <3>2. /\ Head(b) \in Job /\ Tail(b) \in Seq(Job) /\ Has(b, Head(b))
          /\ \A x : Has(Tail(b), x) => Has(b, x)
      BY <3>1, HeadTailHas
    <3> QED BY <2>1, <3>1, <3>2
  <2>3. CASE pc[w] \notin {"body", "dead"}
    <3>1. Running(q) = None /\ Taken(q) = b
      BY <1>2, <2>1, <2>3 DEF View
    <3>2. \A j \in Job : Has(Taken(q), j) \/ Running(q) = j => Has(batch[w], j)
      BY <2>1, <3>1, NoneAssumption
    <3> QED BY <3>1, <3>2
  <2> QED BY <2>2, <2>3
<1> QED BY <1>1, <1>2

\* Storing a job submits it: it is new to its queue, whatever was taken, run
\* or is under way elsewhere.
LEMMA StoreSubmits ==
  ASSUME TypeOK, Shape, View, View', BareShowsNothing', Once,
         NEW w \in Worker, StoreJob(w)
  PROVE  \E j \in Job : Serial!Submit(j)
<1>1. PICK j \in Job : j = pushing[w]
  BY DEF StoreJob, Shape, TypeOK
<1>2. PICK q \in Queue : q = QueueOf[j]
  BY QueueOfAssumption
<1>3. /\ stage[w] \in {"first", "later"}
      /\ jobs' = [jobs EXCEPT ![q] = Append(@, j)]
      /\ UNCHANGED <<current, pc, batch, done>>
  BY <1>1, <1>2 DEF StoreJob, execVars
<1>4. /\ ~ Has(jobs[q], j) /\ ~ Has(done[q], j)
      /\ \A v \in Worker : ~ Has(batch[v], j)
  BY <1>1, <1>3 DEF Once
<1>5. \A r \in Queue : Running(r)' = Running(r) /\ Taken(r)' = Taken(r)
  <2>1. \A r \in Queue : Same(r)
    BY <1>3 DEF Same
  <2> QED BY <2>1, SameView
<1>6. /\ Taken(q) \in Seq(Job) /\ jobs[q] \in Seq(Job)
      /\ ~ Has(Taken(q), j) /\ Running(q) # j
  BY <1>4, ViewTypes DEF TypeOK
<1>7. ~ Has(Taken(q) \o jobs[q], j)
  BY <1>4, <1>6, ConcatHas
<1>8. Taken(q) \o Append(jobs[q], j) = Append(Taken(q) \o jobs[q], j)
  BY <1>6, ConcatAppend
<1>9. Pend' = [Pend EXCEPT ![q] = Append(@, j)]
  <2>1. \A r \in Queue : jobs'[r] = IF r = q THEN Append(jobs[q], j) ELSE jobs[r]
    BY <1>3 DEF TypeOK
  <2>2. \A r \in Queue : Pend'[r] = IF r = q THEN Append(Pend[q], j) ELSE Pend[r]
    BY <1>5, <1>8, <2>1 DEF Pend
  <2> QED BY <2>2 DEF Pend
<1>10. Run' = Run
  BY <1>5 DEF Run
<1>11. Serial!Fresh(j)
  BY <1>2, <1>4, <1>6, <1>7 DEF Serial!Fresh, Serial!InSeq, Has
<1>12. Serial!Submit(j)
  BY <1>2, <1>3, <1>9, <1>10, <1>11 DEF Serial!Submit, Pend, Run
<1> QED BY <1>12

\* The head of the batch is started.
LEMMA StartStarts ==
  ASSUME TypeOK, TypeOK', Shape, View, View', NEW w \in Worker, StartJob(w),
         \A q \in Queue : q # current[w] => Same(q), BareShowsNothing'
  PROVE  \E q \in Queue : Serial!Start(q)
<1>1. PICK q \in Queue : q = current[w]
  BY DEF StartJob, Shape, TypeOK
<1>2. PICK b \in Seq(Job) : b = batch[w] /\ b # <<>>
  BY DEF StartJob, TypeOK
<1>3. /\ pc[w] = "loop" /\ pc'[w] = "body"
      /\ UNCHANGED <<current, batch, jobs, done>>
  BY DEF StartJob, TypeOK
<1>4. Running(q) = None /\ Taken(q) = b
  BY <1>1, <1>2, <1>3 DEF View
<1>5. Running(q)' = Head(b) /\ Taken(q)' = Tail(b)
  BY <1>1, <1>2, <1>3 DEF View
<1>6. /\ b \o jobs[q] # <<>> /\ Head(b \o jobs[q]) = Head(b)
      /\ Tail(b \o jobs[q]) = Tail(b) \o jobs[q]
  <2>1. jobs[q] \in Seq(Job)
    BY DEF TypeOK
  <2> QED BY <1>2, <2>1, ConcatHeadTail
<1>7. \A r \in Queue : r # q => Running(r)' = Running(r) /\ Taken(r)' = Taken(r)
  BY <1>1, SameView
<1>8. /\ Pend' = [Pend EXCEPT ![q] = Tail(@)]
      /\ Run' = [Run EXCEPT ![q] = Head(Pend[q])]
      /\ Run[q] = None /\ Pend[q] # <<>>
  <2>1. \A r \in Queue : Pend'[r] = (IF r = q THEN Tail(Pend[q]) ELSE Pend[r])
    BY <1>3, <1>4, <1>5, <1>6, <1>7 DEF Pend
  <2>2. \A r \in Queue : Run'[r] = (IF r = q THEN Head(Pend[q]) ELSE Run[r])
    BY <1>4, <1>5, <1>6, <1>7 DEF Run, Pend
  <2>3. Run[q] = None /\ Pend[q] # <<>>
    BY <1>4, <1>6 DEF Run, Pend
  <2>4. Pend' = [Pend EXCEPT ![q] = Tail(@)]
    BY <2>1 DEF Pend
  <2>5. Run' = [Run EXCEPT ![q] = Head(Pend[q])]
    BY <2>2 DEF Run
  <2> QED BY <2>3, <2>4, <2>5
<1>9. Serial!Start(q)
  BY <1>3, <1>8 DEF Serial!Start, Pend, Run
<1> QED BY <1>9

\* The running job is finished, and the next one is not running yet.
LEMMA FinishFinishes ==
  ASSUME TypeOK, TypeOK', Shape, View, View', NEW w \in Worker, FinishJob(w),
         \A q \in Queue : q # current[w] => Same(q), BareShowsNothing'
  PROVE  \E q \in Queue : Serial!Finish(q)
<1>1. PICK q \in Queue : q = current[w]
  BY DEF FinishJob, Shape, TypeOK
<1>2. PICK b \in Seq(Job) : b = batch[w] /\ b # <<>>
  BY DEF FinishJob, Shape, TypeOK
<1>3. /\ pc[w] = "body" /\ pc'[w] = "loop" /\ batch'[w] = Tail(b)
      /\ done' = [done EXCEPT ![q] = Append(@, Head(b))]
      /\ UNCHANGED <<current, jobs>>
  BY <1>1, <1>2 DEF FinishJob, TypeOK
<1>4. Running(q) = Head(b) /\ Taken(q) = Tail(b)
  BY <1>1, <1>2, <1>3 DEF View
<1>5. Running(q)' = None /\ Taken(q)' = Tail(b)
  BY <1>1, <1>3 DEF View
<1>6. Head(b) # None
  BY <1>2, HeadTailHas, NoneAssumption
<1>7. \A r \in Queue : r # q => Running(r)' = Running(r) /\ Taken(r)' = Taken(r)
  BY <1>1, SameView
<1>8. /\ Pend' = Pend /\ Run' = [Run EXCEPT ![q] = None]
      /\ Run[q] = Head(b)
  <2>1. \A r \in Queue : Running(r)' = (IF r = q THEN None ELSE Running(r))
    BY <1>5, <1>7
  <2>2. \A r \in Queue : Taken(r)' = Taken(r)
    BY <1>4, <1>5, <1>7
  <2> QED BY <1>3, <1>4, <2>1, <2>2 DEF Pend, Run
<1>9. Serial!Finish(q)
  BY <1>3, <1>6, <1>8 DEF Serial!Finish, Pend, Run
<1> QED BY <1>9

\* Every other step leaves what the queues show as it is: a queue is taken
\* over or given back only while it is bare.
LEMMA StepIsSerial ==
  ASSUME IInv, IInv', View, View', BareShowsNothing', Once, [Next]_vars
  PROVE  [Serial!Next]_(Serial!vars)
<1> USE DEF execVars, pushVars
<1>1. /\ TypeOK /\ TypeOK' /\ Shape /\ Shape' /\ Right /\ Right'
  BY DEF IInv
<1>2. ASSUME UNCHANGED <<jobs, done>>, \A q \in Queue : Same(q)
      PROVE  UNCHANGED Serial!vars
  BY <1>2, SameAll DEF Serial!vars, Pend, Run
<1>3. ASSUME UNCHANGED <<jobs, done, current, batch>>,
             \A w \in Worker : pc[w] \in {"body", "dead"} <=> pc'[w] \in {"body", "dead"}
      PROVE  UNCHANGED Serial!vars
  <2>1. \A q \in Queue : Same(q)
    BY <1>3 DEF Same
  <2> QED BY <1>2, <1>3, <2>1
<1>4. ASSUME NEW w \in Worker, NEW j \in Job, HandlerPush(w, j) \/ BodyPush(w, j)
      PROVE  UNCHANGED Serial!vars
  BY <1>3, <1>4 DEF HandlerPush, BodyPush, CountJob
<1>5. ASSUME NEW w \in Worker, StoreJob(w)
      PROVE  Serial!Next
  <2>1. \E j \in Job : Serial!Submit(j)
    BY <1>1, <1>5, StoreSubmits
  <2> QED BY <2>1 DEF Serial!Next
\* Worker w executes q from now on, and nobody did.
<1>6. ASSUME NEW w \in Worker, NEW q \in Queue,
             current' = [current EXCEPT ![w] = q], pc' = [pc EXCEPT ![w] = "popAll"],
             current[w] = None, \A v \in Worker : current[v] # q,
             UNCHANGED <<jobs, done, batch>>
      PROVE  UNCHANGED Serial!vars
  <2>1. pc[w] = "idle" /\ batch'[w] = <<>> /\ current'[w] = q /\ pc'[w] = "popAll"
    BY <1>1, <1>6 DEF Shape, TypeOK
  <2>2. \A v \in Worker : v # w => current'[v] = current[v] /\ pc'[v] = pc[v]
    BY <1>1, <1>6 DEF TypeOK
  <2>3. Bare(q) /\ Bare(q)'
    BY <1>6, <2>1 DEF Bare
  <2>4. ASSUME NEW r \in Queue, r # q
        PROVE  Same(r)
    <3>1. ASSUME NEW v \in Worker, current[v] = r
          PROVE  Same(r)
      <4>1. v # w
        BY <1>6, <3>1, NoneAssumption
      <4> QED BY <1>6, <2>2, <3>1, <4>1 DEF Same
    <3>2. CASE \A v \in Worker : current[v] # r
      BY <2>1, <2>2, <2>4, <3>2 DEF Same
    <3> QED BY <3>1, <3>2
  <2>5. \A r \in Queue : Same(r)
    BY <2>3, <2>4 DEF Same
  <2> QED BY <1>2, <1>6, <2>5
<1>7. ASSUME NEW w \in Worker, HandOffInline(w)
      PROVE  UNCHANGED Serial!vars
  <2>1. PICK q \in Queue : q = QueueOf[pushing[w]]
    BY <1>1, <1>7, QueueOfAssumption DEF HandOffInline, Shape, TypeOK
  <2>2. w \in FirstPushers(q) /\ current[w] = None
    BY <1>7, <2>1 DEF HandOffInline, FirstPushers
  <2>3. \A v \in Worker : current[v] # q
    BY <1>1, <2>1, <2>2, NoneAssumption DEF Right, Holds, Executors
  <2> QED BY <1>6, <1>7, <2>1, <2>2, <2>3 DEF HandOffInline, EnterExecute
<1>8. ASSUME NEW w \in Worker, HandOffGlobal(w)
      PROVE  UNCHANGED Serial!vars
  BY <1>3, <1>8 DEF HandOffGlobal
<1>9. ASSUME NEW w \in Worker, PopGlobal(w)
      PROVE  UNCHANGED Serial!vars
  <2>1. PICK q \in Queue : q = Head(global) /\ InGlobal(q)
    <3>1. global \in Seq(Queue) /\ global # <<>>
      BY <1>1, <1>9 DEF PopGlobal, TypeOK
    <3> QED BY <3>1, HeadTailHas DEF Has, InGlobal
  <2>2. \A v \in Worker : current[v] # q
    BY <1>1, <2>1 DEF Right, Holds, Executors
  <2>3. current[w] = None
    BY <1>1, <1>9 DEF PopGlobal, AtRest, Shape
  <2> QED BY <1>6, <1>9, <2>1, <2>2, <2>3 DEF PopGlobal, EnterExecute
<1>10. ASSUME NEW w \in Worker, PopAll(w)
       PROVE  UNCHANGED Serial!vars
  <2>1. PICK q \in Queue : q = current[w]
    BY <1>1, <1>10 DEF PopAll, Shape, TypeOK
  <2>2. /\ jobs' = [jobs EXCEPT ![q] = <<>>] /\ batch'[w] = jobs[q]
        /\ pc[w] = "popAll" /\ pc'[w] = "loop" /\ batch[w] = <<>>
        /\ UNCHANGED <<current, done>>
    BY <1>1, <1>10, <2>1 DEF PopAll, Shape, TypeOK
  <2>3. \A v \in Worker : v # w => batch'[v] = batch[v] /\ pc'[v] = pc[v]
    BY <1>1, <1>10 DEF PopAll, TypeOK
  <2>4. /\ Running(q) = None /\ Taken(q) = <<>>
        /\ Running(q)' = None /\ Taken(q)' = jobs[q]
    BY <2>1, <2>2 DEF View
  <2>5. \A r \in Queue : r # q => Running(r)' = Running(r) /\ Taken(r)' = Taken(r)
    <3>1. \A r \in Queue : r # q => Same(r)
      BY <2>1, <2>2, <2>3 DEF Same
    <3> QED BY <3>1, SameView
  <2>6. Run' = Run
    BY <2>4, <2>5 DEF Run
  <2>7. Pend' = Pend
    <3>1. jobs[q] \in Seq(Job) /\ jobs'[q] = <<>>
      BY <1>1, <2>2 DEF TypeOK
    <3>2. Taken(q)' \o jobs'[q] = Taken(q) \o jobs[q]
      BY <2>4, <3>1, ConcatEmpty
    <3>3. \A r \in Queue : r # q => jobs'[r] = jobs[r]
      BY <1>1, <2>2 DEF TypeOK
    <3>4. \A r \in Queue : Taken(r)' \o jobs'[r] = Taken(r) \o jobs[r]
      BY <2>5, <3>2, <3>3
    <3> QED BY <3>4 DEF Pend
  <2> QED BY <2>2, <2>6, <2>7 DEF Serial!vars, Pend, Run
<1>11. ASSUME NEW w \in Worker, StartJob(w) \/ FinishJob(w)
       PROVE  Serial!Next
  <2>1. \A q \in Queue : q # current[w] => Same(q)
    <3>1. /\ current' = current
          /\ \A v \in Worker : v # w => pc'[v] = pc[v] /\ batch'[v] = batch[v]
      BY <1>1, <1>11 DEF StartJob, FinishJob, TypeOK
    <3>2. ASSUME NEW q \in Queue, q # current[w], NEW v \in Worker, current[v] = q
          PROVE  Same(q)
      BY <3>1, <3>2 DEF Same
    <3>3. ASSUME NEW q \in Queue, \A v \in Worker : current[v] # q
          PROVE  Same(q)
      BY <3>1, <3>3 DEF Same
    <3> QED BY <3>2, <3>3
  <2>2. \E q \in Queue : Serial!Start(q) \/ Serial!Finish(q)
    BY <1>1, <1>11, <2>1, StartStarts, FinishFinishes
  <2> QED BY <2>2 DEF Serial!Next
<1>12. ASSUME NEW w \in Worker, ThrowInJob(w) \/ KeepExecuting(w)
       PROVE  UNCHANGED Serial!vars
  <2>1. /\ UNCHANGED <<jobs, done, current, batch>>
        /\ \A v \in Worker : pc[v] \in {"body", "dead"} <=> pc'[v] \in {"body", "dead"}
    BY <1>1, <1>12 DEF ThrowInJob, KeepExecuting, TypeOK
  <2> QED BY <1>3, <2>1
\* Worker w leaves q, or stays in it, with nothing of it in its hands.
<1>13. ASSUME NEW w \in Worker, ReleaseJobs(w) \/ YieldQueue(w)
       PROVE  UNCHANGED Serial!vars
  <2>1. PICK q \in Queue : q = current[w]
    BY <1>1, <1>13 DEF ReleaseJobs, YieldQueue, Shape, TypeOK
  <2>2. /\ batch[w] = <<>> /\ pc[w] \in {"loop", "tick"}
        /\ UNCHANGED <<jobs, done, batch>>
        /\ \/ current'[w] = None
           \/ current'[w] = q /\ pc'[w] = "tick"
    BY <1>1, <1>13, <2>1 DEF ReleaseJobs, YieldQueue, Shape, TypeOK
  <2>3. \A v \in Worker : v # w => current'[v] = current[v] /\ pc'[v] = pc[v]
    BY <1>1, <1>13 DEF ReleaseJobs, YieldQueue, TypeOK
  <2>4. \A v \in Worker : current[v] = q => v = w
    BY <1>1, <2>1 DEF Right, Holds, Executors
  <2>5. Bare(q)
    BY <2>1, <2>2 DEF Bare
  <2>6. Bare(q)'
    <3>1. CASE current'[w] = None
      BY <2>1, <2>3, <2>4, <3>1, NoneAssumption DEF Bare
    <3>2. CASE current'[w] = q /\ pc'[w] = "tick"
      BY <2>2, <3>2 DEF Bare
    <3> QED BY <2>2, <3>1, <3>2
  <2>7. ASSUME NEW r \in Queue, r # q
        PROVE  Same(r)
    <3>1. current[w] # r /\ current'[w] # r
      BY <2>1, <2>2, <2>7, NoneAssumption
    <3> QED BY <2>2, <2>3, <3>1 DEF Same
  <2>8. \A r \in Queue : Same(r)
    BY <2>5, <2>6, <2>7 DEF Same
  <2> QED BY <1>2, <2>2, <2>8
<1>14. ASSUME NEW w \in Worker, EnterWorkGlobal(w) \/ LeaveWorkGlobal(w)
       PROVE  UNCHANGED Serial!vars
  BY <1>3, <1>14 DEF EnterWorkGlobal, LeaveWorkGlobal
<1>15. CASE UNCHANGED vars
  BY <1>3, <1>15 DEF vars
<1> QED
  BY <1>4, <1>5, <1>7, <1>8, <1>9, <1>10, <1>11, <1>12, <1>13, <1>14, <1>15
     DEF Next, PushStep, ExecStep, LoopStep

\* Each queue runs its jobs one at a time, each once, in the order in which
\* _jobs.Push took them in, whichever workers do it: what a Room, the
\* DBSerializer and the PacketManager take a JobQueue for (JobQueue.cpp:5-56).
THEOREM SerialExecution == Spec => RunsSerially
<1>1. Init => Once
  <2>1. \A j : ~ Has(<<>>, j)
    BY DEF Has
  <2> QED BY <2>1, NoneAssumption DEF Init, Once
<1>2. IInv /\ Once /\ [Next]_vars => Once'
  BY NextOnce DEF IInv
<1>3. Init => Serial!Init
  <2> SUFFICES ASSUME Init PROVE Serial!Init
    OBVIOUS
  <2>1. \A q \in Queue : Taken(q) = <<>> /\ Running(q) = None
    <3>1. \A q \in Queue, w \in Worker : current[w] # q
      BY NoneAssumption DEF Init
    <3> QED BY <3>1, InitIInv, Viewed DEF View
  <2>2. \A q \in Queue : Taken(q) \o jobs[q] = <<>>
    BY <2>1 DEF Init
  <2> QED BY <2>1, <2>2 DEF Serial!Init, Init
<1>4. IInv /\ IInv' /\ View /\ View' /\ BareShowsNothing' /\ Once /\ [Next]_vars
        => [Serial!Next]_(Serial!vars)
  BY StepIsSerial
<1> QED
  BY <1>1, <1>2, <1>3, <1>4, InitIInv, NextIInv, Viewed, BareView, PTL
     DEF Spec, RunsSerially, Serial!Spec

-----------------------------------------------------------------------------
(* The timer                                                               *)

InLoop == \A w \in Worker : timer[w] # "before" => phase[w] = "dispatch"

Distributes(w) == timer[w] \in {"pop", "push"}

OneDistributor ==
  /\ processing <=> \E w \in Worker : Distributes(w)
  /\ \A w, v \in Worker : Distributes(w) /\ Distributes(v) => w = v
  /\ \A w \in Worker : items[w] # <<>> => timer[w] = "push"

Sorted(s) == \A i, k \in 1..Len(s) : i < k => due[s[i]] <= due[s[k]]

DueItems ==
  \A w \in Worker :
    /\ seen[w] <= now
    /\ \A i \in 1..Len(items[w]) : due[items[w][i]] \in Nat /\ due[items[w][i]] <= seen[w]
    /\ Sorted(items[w])

\* Job j is in the hands of worker w, on its way into the heap or out of it.
Carries(w, j) == reserving[w] = j \/ Has(items[w], j)

Reserved ==
  /\ \A w \in Worker : Distinct(items[w])
  /\ \A j \in TimerJob :
       /\ due[j] # None <=> j \in heap \/ j \in born \/ \E w \in Worker : Carries(w, j)
       /\ ~ (j \in heap /\ j \in born)
       /\ \A w \in Worker : Carries(w, j) => j \notin heap \cup born
       /\ \A w, v \in Worker : Carries(w, j) /\ Carries(v, j) => w = v
       /\ \A w \in Worker : ~ (reserving[w] = j /\ Has(items[w], j))

TimerIInv ==
  /\ IInv
  /\ TimerTypeOK
  /\ IsFiniteSet(heap)
  /\ InLoop
  /\ OneDistributor
  /\ DueItems
  /\ Reserved

-----------------------------------------------------------------------------
(* The queues under the timer                                              *)

\* The steps of Push and Execute start no loop and give no new job to Push.
LEMMA QueueStepFrame ==
  ASSUME NEW w \in Worker, PushStep(w) \/ ExecStep(w)
  PROVE  UNCHANGED <<phase, born>>
BY DEF PushStep, ExecStep, StoreJob, HandOffInline, HandOffGlobal, PopAll, StartJob,
       FinishJob, ThrowInJob, ReleaseJobs, KeepExecuting, YieldQueue

\* Every step of the composition is a step of JobQueue or leaves it alone: the
\* push of a due item is one a handler could make, since its worker comes from
\* Dispatch.
LEMMA StepKeepsQueues ==
  TimerTypeOK /\ InLoop /\ [TimerNext]_allVars => [Next]_vars
<1> SUFFICES ASSUME TimerTypeOK, InLoop, TimerNext, ~ UNCHANGED vars
             PROVE  Next
  BY DEF allVars
<1>1. ASSUME NEW w \in Worker, NEW j \in Job, CallbackPush(w, j)
      PROVE  Next
  BY <1>1 DEF CallbackPush, Next
<1>2. ASSUME NEW w \in Worker, QueueStep(w)
      PROVE  Next
  BY <1>2 DEF QueueStep, Next
<1>3. ASSUME NEW w \in Worker, PushDueItem(w)
      PROVE  Next
  <2>1. PICK j \in Job : j = Head(items[w])
    BY <1>3, TimerJobAssumption DEF PushDueItem, TimerTypeOK
  <2>2. phase[w] = "dispatch"
    BY <1>3 DEF InLoop, PushDueItem
  <2>3. HandlerPush(w, j)
    BY <1>3, <2>1, <2>2 DEF PushDueItem, AtRest, HandlerPush, CountJob
  <2> QED BY <2>3 DEF Next
<1>4. ASSUME NEW w \in Worker, EnterGlobalLoop(w) \/ GlobalLoop(w)
      PROVE  Next
  BY <1>4 DEF EnterGlobalLoop, GlobalLoop, LoopStep, Next
<1> QED
  BY <1>1, <1>2, <1>3, <1>4
     DEF TimerNext, TimerStep, Tick, ReadDueTime, InsertItem, CallDistribute,
         SkipDistribute, TakeProcessing, PopDueItems, EndDistribute

-----------------------------------------------------------------------------
(* Types                                                                   *)

\* The order in which the due items leave the heap: each once.
LEMMA ByDueTimeOrders ==
  ASSUME NEW S \in SUBSET TimerJob, IsFiniteSet(S), NEW s \in ByDueTime(S)
  PROVE  /\ s \in Seq(S) /\ Distinct(s) /\ Sorted(s)
         /\ \A x : Has(s, x) <=> x \in S
<1> DEFINE n == Cardinality(S)
<1>1. n \in Nat
  BY FS_CardinalityType
<1>2. /\ s \in [1..n -> S] /\ \A x \in S : \E i \in 1..n : s[i] = x
      /\ \A i, k \in 1..n : i < k => due[s[i]] <= due[s[k]]
  BY DEF ByDueTime
<1>3. s \in Seq(S) /\ Len(s) = n
  BY <1>1, <1>2
<1>4. s \in Surjection(1..n, S)
  BY <1>2 DEF Surjection
<1>5. IsFiniteSet(1..n) /\ Cardinality(1..n) = n
  BY <1>1, FS_Interval
<1>6. s \in Injection(1..n, S)
  BY <1>4, <1>5, FS_SurjSameCardinalityImpliesInj
<1>7. \A i, k \in 1..n : s[i] = s[k] => i = k
  BY <1>2, <1>6 DEF Injection, IsInjective
<1>8. \A x : (\E i \in 1..n : s[i] = x) <=> x \in S
  BY <1>2
<1>9. Distinct(s) /\ Sorted(s)
  BY <1>2, <1>3, <1>7 DEF Distinct, Sorted
<1>10. \A x : Has(s, x) <=> x \in S
  BY <1>3, <1>8 DEF Has
<1> QED BY <1>3, <1>9, <1>10

LEMMA InitTimerTypes ==
  TimerInit => TimerTypeOK /\ IsFiniteSet(heap)
<1> SUFFICES ASSUME TimerInit PROVE TimerTypeOK /\ IsFiniteSet(heap)
  OBVIOUS
<1>1. TypeOK /\ IsFiniteSet(heap)
  BY InitTypes, FS_EmptySet DEF TimerInit
<1>2. items \in [Worker -> Seq(TimerJob)] /\ 0 \in 0..MaxNow
  BY MaxNowAssumption DEF TimerInit
<1> QED BY <1>1, <1>2 DEF TimerInit, TimerTypeOK, TimerPc

LEMMA NextTimerTypes ==
  ASSUME TimerTypeOK, TypeOK', IsFiniteSet(heap), [TimerNext]_allVars
  PROVE  TimerTypeOK' /\ IsFiniteSet(heap)'
<1> USE TimerJobAssumption, DelayAssumption, MaxNowAssumption DEF TimerTypeOK, TimerPc
<1>1. ASSUME Tick
      PROVE  TimerTypeOK' /\ IsFiniteSet(heap)'
  BY <1>1 DEF Tick
<1>2. ASSUME NEW w \in Worker, NEW j \in TimerJob, ReadDueTime(w, j)
      PROVE  TimerTypeOK' /\ IsFiniteSet(heap)'
  BY <1>2 DEF ReadDueTime
<1>3. ASSUME NEW w \in Worker, InsertItem(w)
      PROVE  TimerTypeOK' /\ IsFiniteSet(heap)'
  <2>1. reserving[w] \in TimerJob /\ heap' = heap \cup {reserving[w]}
    BY <1>3 DEF InsertItem
  <2>2. IsFiniteSet(heap')
    BY <2>1, FS_AddElement
  <2>3. heap' \in SUBSET TimerJob
    BY <2>1
  <2>4. reserving' \in [Worker -> TimerJob \cup {None}]
    BY <1>3 DEF InsertItem
  <2> QED BY <1>3, <2>2, <2>3, <2>4 DEF InsertItem
<1>4. ASSUME NEW w \in Worker,
             CallDistribute(w) \/ SkipDistribute(w) \/ TakeProcessing(w) \/ EndDistribute(w)
      PROVE  TimerTypeOK' /\ IsFiniteSet(heap)'
  BY <1>4 DEF CallDistribute, SkipDistribute, TakeProcessing, EndDistribute
<1>5. ASSUME NEW w \in Worker, PopDueItems(w)
      PROVE  TimerTypeOK' /\ IsFiniteSet(heap)'
  <2> DEFINE S == {j \in heap : due[j] <= seen[w]}
  <2>1. S \in SUBSET TimerJob /\ S \in SUBSET heap /\ IsFiniteSet(S)
    BY FS_Subset
  <2>2. PICK s \in ByDueTime(S) : items' = [items EXCEPT ![w] = s] /\ heap' = heap \ S
    BY <1>5 DEF PopDueItems
  <2>3. s \in Seq(TimerJob)
    BY <2>1, <2>2, ByDueTimeOrders
  <2>4. heap' \in SUBSET heap /\ IsFiniteSet(heap')
    BY <2>2, FS_Subset
  <2>5. items' \in [Worker -> Seq(TimerJob)]
    BY <2>2, <2>3
  <2> HIDE DEF S
  <2> QED BY <1>5, <2>4, <2>5 DEF PopDueItems
<1>6. ASSUME NEW w \in Worker, PushDueItem(w)
      PROVE  TimerTypeOK' /\ IsFiniteSet(heap)'
  <2>1. Tail(items[w]) \in Seq(TimerJob)
    BY <1>6 DEF PushDueItem
  <2> QED BY <1>6, <2>1 DEF PushDueItem
<1>7. ASSUME NEW w \in Worker,
             \/ QueueStep(w) \/ GlobalLoop(w) \/ \E j \in Job : CallbackPush(w, j)
      PROVE  TimerTypeOK' /\ IsFiniteSet(heap)'
  BY <1>7 DEF QueueStep, GlobalLoop, CallbackPush, timerVars
<1>8. ASSUME NEW w \in Worker, EnterGlobalLoop(w)
      PROVE  TimerTypeOK' /\ IsFiniteSet(heap)'
  BY <1>8 DEF EnterGlobalLoop
<1>9. CASE UNCHANGED allVars
  BY <1>9 DEF allVars, timerVars
<1> QED
  BY <1>1, <1>2, <1>3, <1>4, <1>5, <1>6, <1>7, <1>8, <1>9 DEF TimerNext, TimerStep

-----------------------------------------------------------------------------
(* The distributor and its items                                           *)

LEMMA NextInLoop ==
  ASSUME TimerTypeOK, InLoop, [TimerNext]_allVars
  PROVE  InLoop'
<1> USE DEF InLoop, TimerTypeOK
<1>1. ASSUME NEW w \in Worker, QueueStep(w)
      PROVE  InLoop'
  BY <1>1, QueueStepFrame DEF QueueStep, timerVars
<1>2. ASSUME NEW w \in Worker, \E j \in Job : CallbackPush(w, j)
      PROVE  InLoop'
  BY <1>2 DEF CallbackPush, HandlerPush, BodyPush, CountJob, timerVars
<1>3. ASSUME NEW w \in Worker, TimerStep(w)
      PROVE  InLoop'
  <2>1. CASE InsertItem(w) \/ CallDistribute(w) \/ SkipDistribute(w)
    BY <2>1 DEF InsertItem, CallDistribute, SkipDistribute, vars
  <2>2. CASE TakeProcessing(w) \/ PopDueItems(w) \/ EndDistribute(w)
    BY <2>2 DEF TakeProcessing, PopDueItems, EndDistribute, vars
  <2>3. CASE PushDueItem(w)
    BY <2>3 DEF PushDueItem, CountJob
  <2> QED BY <1>3, <2>1, <2>2, <2>3 DEF TimerStep
<1>4. ASSUME NEW w \in Worker, EnterGlobalLoop(w) \/ GlobalLoop(w)
      PROVE  InLoop'
  BY <1>4 DEF EnterGlobalLoop, GlobalLoop, EnterWorkGlobal, PopGlobal, LeaveWorkGlobal,
     timerVars, TypeOK
<1>5. ASSUME Tick \/ \E w \in Worker, j \in TimerJob : ReadDueTime(w, j)
      PROVE  InLoop'
  BY <1>5 DEF Tick, ReadDueTime, vars
<1>6. CASE UNCHANGED allVars
  BY <1>6 DEF allVars, vars, timerVars
<1> QED BY <1>1, <1>2, <1>3, <1>4, <1>5, <1>6 DEF TimerNext

\* _processing is set exactly while one worker distributes.
LEMMA NextOneDistributor ==
  ASSUME TimerTypeOK, OneDistributor, [TimerNext]_allVars
  PROVE  OneDistributor'
<1> USE DEF TimerTypeOK, OneDistributor, Distributes
<1>1. ASSUME UNCHANGED <<processing, timer, items>>
      PROVE  OneDistributor'
  BY <1>1
<1>2. ASSUME NEW w \in Worker, CallDistribute(w) \/ SkipDistribute(w) \/ EnterGlobalLoop(w)
      PROVE  OneDistributor'
  <2>1. /\ timer[w] \in {"before", "called", "after"} /\ timer'[w] \in {"before", "called", "after"}
        /\ \A v \in Worker : v # w => timer'[v] = timer[v]
        /\ UNCHANGED <<processing, items>>
    BY <1>2 DEF CallDistribute, SkipDistribute, EnterGlobalLoop
  <2>2. \A v \in Worker : Distributes(v)' <=> Distributes(v)
    BY <2>1
  <2>3. \A v \in Worker : timer[v] = "push" => timer'[v] = "push"
    BY <2>1
  <2> HIDE DEF Distributes
  <2> QED BY <2>1, <2>2, <2>3
<1>3. ASSUME NEW w \in Worker, TakeProcessing(w)
      PROVE  OneDistributor'
  <2>1. /\ ~ processing /\ processing' /\ timer[w] = "called" /\ timer'[w] = "pop"
        /\ \A v \in Worker : v # w => timer'[v] = timer[v]
        /\ UNCHANGED items
    BY <1>3 DEF TakeProcessing
  <2>2. \A v \in Worker : Distributes(v)' <=> v = w
    BY <2>1
  <2>3. \A v \in Worker : items'[v] = <<>>
    BY <2>1
  <2> HIDE DEF Distributes
  <2> QED BY <2>1, <2>2, <2>3
<1>4. ASSUME NEW w \in Worker, PopDueItems(w)
      PROVE  OneDistributor'
  <2>1. /\ timer[w] = "pop" /\ timer'[w] = "push" /\ UNCHANGED processing
        /\ \A v \in Worker : v # w => timer'[v] = timer[v] /\ items'[v] = items[v]
    BY <1>4 DEF PopDueItems
  <2>2. \A v \in Worker : Distributes(v)' <=> Distributes(v)
    BY <2>1
  <2>3. \A v \in Worker : items'[v] # <<>> => timer'[v] = "push"
    BY <2>1
  <2> HIDE DEF Distributes
  <2> QED BY <2>1, <2>2, <2>3
<1>5. ASSUME NEW w \in Worker, PushDueItem(w)
      PROVE  OneDistributor'
  <2>1. /\ timer[w] = "push" /\ UNCHANGED <<processing, timer>>
        /\ \A v \in Worker : v # w => items'[v] = items[v]
    BY <1>5 DEF PushDueItem
  <2> QED BY <2>1
<1>6. ASSUME NEW w \in Worker, EndDistribute(w)
      PROVE  OneDistributor'
  <2>1. /\ timer[w] = "push" /\ items[w] = <<>> /\ ~ processing' /\ timer'[w] = "after"
        /\ \A v \in Worker : v # w => timer'[v] = timer[v]
        /\ UNCHANGED items
    BY <1>6 DEF EndDistribute
  <2>2. \A v \in Worker : ~ Distributes(v)'
    BY <2>1
  <2>3. \A v \in Worker : items'[v] = <<>>
    BY <2>1
  <2> HIDE DEF Distributes
  <2> QED BY <2>1, <2>2, <2>3
<1>7. ASSUME NEW w \in Worker,
             \/ QueueStep(w) \/ GlobalLoop(w) \/ InsertItem(w)
             \/ \E j \in Job : CallbackPush(w, j)
             \/ \E j \in TimerJob : ReadDueTime(w, j)
      PROVE  OneDistributor'
  BY <1>1, <1>7 DEF QueueStep, GlobalLoop, InsertItem, CallbackPush, ReadDueTime, timerVars
<1>8. CASE Tick \/ UNCHANGED allVars
  BY <1>1, <1>8 DEF Tick, allVars, timerVars
<1> QED
  BY <1>2, <1>3, <1>4, <1>5, <1>6, <1>7, <1>8 DEF TimerNext, TimerStep

LEMMA TailSorted ==
  ASSUME NEW S, NEW s \in Seq(S), s # <<>>
  PROVE  /\ Sorted(s) => Sorted(Tail(s))
         /\ \A i \in 1..Len(Tail(s)) : \E k \in 1..Len(s) : Tail(s)[i] = s[k]
<1>1. /\ Len(s) \in Nat /\ Len(s) > 0 /\ Len(Tail(s)) = Len(s) - 1
      /\ \A i \in 1..(Len(s) - 1) : Tail(s)[i] = s[i + 1]
  OBVIOUS
<1>2. \A i \in 1..(Len(s) - 1) : i + 1 \in 1..Len(s)
  BY <1>1
<1>3. Sorted(s) => Sorted(Tail(s))
  BY <1>1, <1>2 DEF Sorted
<1> QED BY <1>1, <1>2, <1>3

\* What a distributor holds stays sorted, and due at the time it read.
LEMMA NextDueItems ==
  ASSUME TimerTypeOK, IsFiniteSet(heap), OneDistributor, DueItems, Reserved,
         [TimerNext]_allVars
  PROVE  DueItems'
<1> USE MaxNowAssumption DEF TimerTypeOK
<1>1. ASSUME UNCHANGED <<due, seen, items>>, now' \in {now, now + 1}
      PROVE  DueItems'
  <2>1. \A w \in Worker : seen'[w] <= now'
    BY <1>1 DEF DueItems
  <2> QED BY <1>1, <2>1 DEF DueItems, Sorted
<1>2. ASSUME NEW w \in Worker, NEW j \in TimerJob, ReadDueTime(w, j)
      PROVE  DueItems'
  <2>1. due[j] = None /\ due' = [due EXCEPT ![j] = now + Delay[j]]
        /\ UNCHANGED <<now, seen, items>>
    BY <1>2 DEF ReadDueTime
  <2>2. \A v \in Worker : \A i \in 1..Len(items[v]) :
          /\ items[v][i] \in TimerJob /\ due[items[v][i]] \in Nat
          /\ items[v][i] # j /\ due'[items[v][i]] = due[items[v][i]]
    <3>1. \A v \in Worker : \A i \in 1..Len(items[v]) :
            items[v][i] \in TimerJob /\ due[items[v][i]] \in Nat
      BY DEF DueItems
    <3>2. \A v \in Worker : \A i \in 1..Len(items[v]) : items[v][i] # j
      BY <2>1, <3>1, TimerNoneAssumption
    <3> QED BY <2>1, <3>1, <3>2
  <2> HIDE DEF TimerTypeOK
  <2> QED BY <2>1, <2>2 DEF DueItems, Sorted
<1>3. ASSUME NEW w \in Worker, CallDistribute(w)
      PROVE  DueItems'
  <2>1. /\ seen' = [seen EXCEPT ![w] = now] /\ UNCHANGED <<now, due, items>>
        /\ items[w] = <<>>
    BY <1>3 DEF CallDistribute, OneDistributor
  <2>2. ASSUME NEW v \in Worker
        PROVE  /\ seen'[v] <= now'
               /\ \A i \in 1..Len(items'[v]) :
                    due'[items'[v][i]] \in Nat /\ due'[items'[v][i]] <= seen'[v]
               /\ Sorted(items[v])
    <3>1. CASE v = w
      BY <2>1, <3>1 DEF DueItems
    <3>2. CASE v # w
      BY <2>1, <3>2 DEF DueItems
    <3> QED BY <3>1, <3>2
  <2> QED BY <2>1, <2>2 DEF DueItems, Sorted
<1>4. ASSUME NEW w \in Worker, PopDueItems(w)
      PROVE  DueItems'
  <2> DEFINE S == {j \in heap : due[j] <= seen[w]}
  <2>1. S \in SUBSET TimerJob /\ S \in SUBSET heap /\ IsFiniteSet(S)
    BY FS_Subset
  <2>2. PICK s \in ByDueTime(S) : items' = [items EXCEPT ![w] = s]
    BY <1>4 DEF PopDueItems
  <2>3. /\ s \in Seq(S) /\ Sorted(s)
    BY <2>1, <2>2, ByDueTimeOrders
  <2>4. \A j \in S : due[j] \in Nat /\ due[j] <= seen[w]
    BY <2>1 DEF Reserved
  <2>5. \A i \in 1..Len(s) : due[s[i]] \in Nat /\ due[s[i]] <= seen[w]
    <3>1. \A i \in 1..Len(s) : s[i] \in S
      BY <2>3
    <3> HIDE DEF S
    <3> QED BY <2>4, <3>1
  <2>6. UNCHANGED <<now, due, seen>>
    BY <1>4 DEF PopDueItems
  <2> HIDE DEF S
  <2>7. \A v \in Worker : items'[v] = IF v = w THEN s ELSE items[v]
    BY <2>2
  <2>8. \A v \in Worker : Sorted(items'[v])
    BY <2>3, <2>7 DEF DueItems
  <2>9. \A v \in Worker : \A i \in 1..Len(items'[v]) :
          due[items'[v][i]] \in Nat /\ due[items'[v][i]] <= seen[v]
    BY <2>5, <2>7 DEF DueItems
  <2> QED BY <2>6, <2>8, <2>9 DEF DueItems, Sorted
<1>5. ASSUME NEW w \in Worker, PushDueItem(w)
      PROVE  DueItems'
  <2>1. /\ items' = [items EXCEPT ![w] = Tail(items[w])] /\ items[w] # <<>>
        /\ UNCHANGED <<now, due, seen>>
    BY <1>5 DEF PushDueItem
  <2>2. /\ Sorted(Tail(items[w]))
        /\ \A i \in 1..Len(Tail(items[w])) :
             \E k \in 1..Len(items[w]) : Tail(items[w])[i] = items[w][k]
    BY <2>1, TailSorted DEF DueItems
  <2>3. \A v \in Worker : items'[v] = IF v = w THEN Tail(items[w]) ELSE items[v]
    BY <2>1
  <2>4. \A v \in Worker : Sorted(items'[v])
    BY <2>2, <2>3 DEF DueItems
  <2>5. \A v \in Worker : \A i \in 1..Len(items'[v]) :
          due[items'[v][i]] \in Nat /\ due[items'[v][i]] <= seen[v]
    <3>1. \A i \in 1..Len(items[w]) : due[items[w][i]] \in Nat /\ due[items[w][i]] <= seen[w]
      BY DEF DueItems
    <3>2. \A i \in 1..Len(Tail(items[w])) :
            due[Tail(items[w])[i]] \in Nat /\ due[Tail(items[w])[i]] <= seen[w]
      BY <2>2, <3>1
    <3> QED BY <2>3, <3>2 DEF DueItems
  <2> QED BY <2>1, <2>4, <2>5 DEF DueItems, Sorted
<1>6. ASSUME NEW w \in Worker,
             \/ InsertItem(w) \/ SkipDistribute(w) \/ TakeProcessing(w) \/ EndDistribute(w)
             \/ QueueStep(w) \/ GlobalLoop(w) \/ EnterGlobalLoop(w)
             \/ \E j \in Job : CallbackPush(w, j)
      PROVE  DueItems'
  BY <1>1, <1>6 DEF InsertItem, SkipDistribute, TakeProcessing, EndDistribute, QueueStep,
     GlobalLoop, EnterGlobalLoop, CallbackPush, timerVars
<1>7. CASE Tick \/ UNCHANGED allVars
  BY <1>1, <1>7 DEF Tick, allVars, timerVars
<1> QED
  BY <1>2, <1>3, <1>4, <1>5, <1>6, <1>7 DEF TimerNext, TimerStep

-----------------------------------------------------------------------------
(* Every reserved job is in one place                                      *)

LEMMA NextReserved ==
  ASSUME TimerTypeOK, IsFiniteSet(heap), OneDistributor, Reserved, [TimerNext]_allVars
  PROVE  Reserved'
<1> USE TimerNoneAssumption, NoneAssumption, TimerJobAssumption DEF TimerTypeOK
<1>1. ASSUME UNCHANGED <<due, reserving, heap, items>>,
             \A j \in TimerJob : j \in born' <=> j \in born
      PROVE  Reserved'
  <2>1. \A w \in Worker, j \in TimerJob : Carries(w, j)' <=> Carries(w, j)
    BY <1>1 DEF Carries
  <2> HIDE DEF TimerTypeOK
  <2> QED BY <1>1, <2>1 DEF Reserved
<1>2. ASSUME NEW w \in Worker, NEW j \in TimerJob, ReadDueTime(w, j)
      PROVE  Reserved'
  <2>1. /\ due[j] = None /\ due'[j] # None /\ reserving[w] = None
        /\ reserving' = [reserving EXCEPT ![w] = j]
        /\ \A k \in TimerJob : k # j => due'[k] = due[k]
        /\ UNCHANGED <<heap, items, born>>
    <3>1. now + Delay[j] \in Nat
      BY DelayAssumption, MaxNowAssumption
    <3>2. due[j] = None /\ due' = [due EXCEPT ![j] = now + Delay[j]] /\ reserving[w] = None
      BY <1>2 DEF ReadDueTime, InCallback
    <3>3. due'[j] = now + Delay[j] /\ \A k \in TimerJob : k # j => due'[k] = due[k]
      BY <3>2
    <3> QED BY <1>2, <3>1, <3>2, <3>3 DEF ReadDueTime, vars
  <2>2. j \notin heap \cup born /\ \A v \in Worker : ~ Carries(v, j)
    BY <2>1 DEF Reserved
  <2>3. \A v \in Worker, k \in TimerJob :
          Carries(v, k)' <=> Carries(v, k) \/ (v = w /\ k = j)
    BY <2>1 DEF Carries
  <2>4. \A v \in Worker, k \in TimerJob :
          reserving'[v] = k <=> reserving[v] = k \/ (v = w /\ k = j)
    BY <2>1
  <2>5. \A v \in Worker : ~ Has(items[v], j)
    BY <2>2 DEF Carries
  <2> HIDE DEF TimerTypeOK
  <2>6. ASSUME NEW k \in TimerJob
        PROVE  /\ due'[k] # None <=> k \in heap' \/ k \in born' \/ \E v \in Worker : Carries(v, k)'
               /\ ~ (k \in heap' /\ k \in born')
               /\ \A v \in Worker : Carries(v, k)' => k \notin heap' \cup born'
               /\ \A v, u \in Worker : Carries(v, k)' /\ Carries(u, k)' => v = u
               /\ \A v \in Worker : ~ (reserving'[v] = k /\ Has(items'[v], k))
    <3>1. CASE k = j
      BY <2>1, <2>2, <2>3, <2>5, <3>1
    <3>2. CASE k # j
      BY <2>1, <2>3, <2>4, <3>2 DEF Reserved
    <3> QED BY <3>1, <3>2
  <2>7. \A v \in Worker : Distinct(items'[v])
    BY <2>1 DEF Reserved
  <2> QED BY <2>6, <2>7 DEF Reserved
<1>3. ASSUME NEW w \in Worker, InsertItem(w)
      PROVE  Reserved'
  <2>1. PICK j \in TimerJob : j = reserving[w]
    BY <1>3 DEF InsertItem
  <2>2. /\ heap' = heap \cup {j} /\ reserving' = [reserving EXCEPT ![w] = None]
        /\ UNCHANGED <<due, items, born>>
    BY <1>3, <2>1 DEF InsertItem, vars
  <2>3. Carries(w, j) /\ ~ Has(items[w], j)
    BY <2>1 DEF Carries, Reserved
  <2>4. \A v \in Worker, k \in TimerJob :
          Carries(v, k)' <=> Carries(v, k) /\ ~ (v = w /\ k = j)
    BY <2>1, <2>2, <2>3 DEF Carries
  <2>5. \A v \in Worker, k \in TimerJob : reserving'[v] = k => reserving[v] = k
    BY <2>2
  <2> HIDE DEF TimerTypeOK
  <2>6. ASSUME NEW k \in TimerJob
        PROVE  /\ due'[k] # None <=> k \in heap' \/ k \in born' \/ \E v \in Worker : Carries(v, k)'
               /\ ~ (k \in heap' /\ k \in born')
               /\ \A v \in Worker : Carries(v, k)' => k \notin heap' \cup born'
               /\ \A v, u \in Worker : Carries(v, k)' /\ Carries(u, k)' => v = u
               /\ \A v \in Worker : ~ (reserving'[v] = k /\ Has(items'[v], k))
    <3>1. CASE k = j
      <4>1. due[j] # None /\ j \notin born /\ \A v \in Worker : Carries(v, j) => v = w
        BY <2>3 DEF Reserved
      <4>2. \A v \in Worker : ~ Carries(v, j)'
        BY <2>4, <4>1
      <4>3. \A v \in Worker : ~ (reserving[v] = j /\ Has(items[v], j))
        BY DEF Reserved
      <4> QED BY <2>2, <2>5, <3>1, <4>1, <4>2, <4>3
    <3>2. CASE k # j
      BY <2>2, <2>4, <2>5, <3>2 DEF Reserved
    <3> QED BY <3>1, <3>2
  <2>7. \A v \in Worker : Distinct(items'[v])
    BY <2>2 DEF Reserved
  <2> QED BY <2>6, <2>7 DEF Reserved
\* The due items go from the heap into the hands of one worker.
<1>4. ASSUME NEW w \in Worker, PopDueItems(w)
      PROVE  Reserved'
  <2> DEFINE S == {j \in heap : due[j] <= seen[w]}
  <2>1. S \in SUBSET TimerJob /\ S \in SUBSET heap /\ IsFiniteSet(S)
    BY FS_Subset
  <2>2. PICK s \in ByDueTime(S) : items' = [items EXCEPT ![w] = s] /\ heap' = heap \ S
    BY <1>4 DEF PopDueItems
  <2>3. Distinct(s) /\ \A x : Has(s, x) <=> x \in S
    BY <2>1, <2>2, ByDueTimeOrders
  <2>4. items[w] = <<>> /\ UNCHANGED <<due, reserving, born>>
    BY <1>4 DEF PopDueItems, OneDistributor, vars
  <2> HIDE DEF S
  <2>5. \A v \in Worker : items'[v] = IF v = w THEN s ELSE items[v]
    BY <2>2
  <2>6. \A x : ~ Has(items[w], x)
    BY <2>4 DEF Has
  <2>7. \A v \in Worker, k \in TimerJob :
          Has(items'[v], k) <=> Has(items[v], k) \/ (v = w /\ k \in S)
    BY <2>3, <2>5, <2>6
  <2>8. \A v \in Worker, k \in TimerJob :
          Carries(v, k)' <=> Carries(v, k) \/ (v = w /\ k \in S)
    BY <2>4, <2>7 DEF Carries
  <2>9. \A v \in Worker : Distinct(items'[v])
    BY <2>3, <2>5 DEF Reserved
  <2> HIDE DEF TimerTypeOK
  <2>10. ASSUME NEW k \in TimerJob
        PROVE  /\ due'[k] # None <=> k \in heap' \/ k \in born' \/ \E v \in Worker : Carries(v, k)'
               /\ ~ (k \in heap' /\ k \in born')
               /\ \A v \in Worker : Carries(v, k)' => k \notin heap' \cup born'
               /\ \A v, u \in Worker : Carries(v, k)' /\ Carries(u, k)' => v = u
               /\ \A v \in Worker : ~ (reserving'[v] = k /\ Has(items'[v], k))
    <3>1. CASE k \in S
      <4>1. k \in heap /\ k \notin born /\ due[k] # None /\ \A v \in Worker : ~ Carries(v, k)
        BY <2>1, <3>1 DEF Reserved
      <4>2. \A v \in Worker : reserving[v] # k
        BY <4>1 DEF Carries
      <4> QED BY <2>2, <2>4, <2>8, <3>1, <4>1, <4>2
    <3>2. CASE k \notin S
      <4>1. /\ k \in heap' <=> k \in heap
            /\ \A v \in Worker : Carries(v, k)' <=> Carries(v, k)
            /\ \A v \in Worker : Has(items'[v], k) <=> Has(items[v], k)
        BY <2>2, <2>7, <2>8, <3>2
      <4> QED BY <2>4, <4>1 DEF Reserved
    <3> QED BY <3>1, <3>2
  <2> QED BY <2>9, <2>10 DEF Reserved
\* The first of the items is given to its queue.
<1>5. ASSUME NEW w \in Worker, PushDueItem(w)
      PROVE  Reserved'
  <2>1. PICK s \in Seq(TimerJob) : s = items[w] /\ s # <<>>
    BY <1>5 DEF PushDueItem
  <2>2. PICK j \in TimerJob : j = Head(s)
    BY <2>1
  <2>3. /\ items' = [items EXCEPT ![w] = Tail(s)] /\ born' = born \cup {j}
        /\ UNCHANGED <<due, reserving, heap>>
    BY <1>5, <2>1, <2>2 DEF PushDueItem, CountJob
  <2>4. Distinct(s) /\ Has(s, j)
    BY <2>1, <2>2, HeadTailHas DEF Reserved
  <2>5. Distinct(Tail(s)) /\ \A x : Has(Tail(s), x) <=> Has(s, x) /\ x # j
    BY <2>1, <2>2, <2>4, TailDistinct
  <2>6. \A v \in Worker : items'[v] = IF v = w THEN Tail(s) ELSE items[v]
    BY <2>3
  <2>7. \A v \in Worker : Distinct(items'[v])
    BY <2>5, <2>6 DEF Reserved
  <2>8. \A v \in Worker, k \in TimerJob :
          Has(items'[v], k) <=> Has(items[v], k) /\ ~ (v = w /\ k = j)
    BY <2>1, <2>5, <2>6
  <2>9. /\ due[j] # None /\ j \notin heap /\ j \notin born /\ reserving[w] # j
        /\ \A v \in Worker : Carries(v, j) => v = w
    BY <2>1, <2>4 DEF Reserved, Carries
  <2>10. \A v \in Worker, k \in TimerJob :
          Carries(v, k)' <=> Carries(v, k) /\ ~ (v = w /\ k = j)
    BY <2>3, <2>8, <2>9 DEF Carries
  <2> HIDE DEF TimerTypeOK
  <2>11. ASSUME NEW k \in TimerJob
        PROVE  /\ due'[k] # None <=> k \in heap' \/ k \in born' \/ \E v \in Worker : Carries(v, k)'
               /\ ~ (k \in heap' /\ k \in born')
               /\ \A v \in Worker : Carries(v, k)' => k \notin heap' \cup born'
               /\ \A v, u \in Worker : Carries(v, k)' /\ Carries(u, k)' => v = u
               /\ \A v \in Worker : ~ (reserving'[v] = k /\ Has(items'[v], k))
    <3>1. CASE k = j
      <4>1. \A v \in Worker : ~ Carries(v, j)'
        BY <2>9, <2>10
      <4>2. \A v \in Worker : ~ (reserving'[v] = j /\ Has(items'[v], j))
        BY <2>3, <2>8 DEF Reserved
      <4> QED BY <2>3, <2>9, <3>1, <4>1, <4>2
    <3>2. CASE k # j
      <4>1. /\ k \in born' <=> k \in born
            /\ \A v \in Worker : Carries(v, k)' <=> Carries(v, k)
            /\ \A v \in Worker : Has(items'[v], k) <=> Has(items[v], k)
        BY <2>3, <2>8, <2>10, <3>2
      <4> QED BY <2>3, <4>1 DEF Reserved
    <3> QED BY <3>1, <3>2
  <2> QED BY <2>7, <2>11 DEF Reserved
<1>6. ASSUME NEW w \in Worker, NEW j \in Job, CallbackPush(w, j)
      PROVE  Reserved'
  <2>1. born' = born \cup {j} /\ j \notin TimerJob /\ UNCHANGED timerVars
    BY <1>6 DEF CallbackPush, HandlerPush, BodyPush, CountJob
  <2> QED BY <1>1, <2>1 DEF timerVars
<1>7. ASSUME NEW w \in Worker,
             \/ CallDistribute(w) \/ SkipDistribute(w) \/ TakeProcessing(w) \/ EndDistribute(w)
             \/ QueueStep(w) \/ GlobalLoop(w) \/ EnterGlobalLoop(w)
      PROVE  Reserved'
  <2>1. UNCHANGED <<due, reserving, heap, items, born>>
    BY <1>7, QueueStepFrame DEF CallDistribute, SkipDistribute, TakeProcessing, EndDistribute,
       QueueStep, GlobalLoop, EnterGlobalLoop, EnterWorkGlobal, PopGlobal, LeaveWorkGlobal,
       timerVars, vars
  <2> QED BY <1>1, <2>1
<1>8. CASE Tick \/ UNCHANGED allVars
  BY <1>1, <1>8 DEF Tick, allVars, timerVars, vars
<1> QED
  BY <1>2, <1>3, <1>4, <1>5, <1>6, <1>7, <1>8 DEF TimerNext, TimerStep

-----------------------------------------------------------------------------
(* The theorems                                                            *)

LEMMA InitTimerIInv == TimerInit => TimerIInv
<1> SUFFICES ASSUME TimerInit PROVE TimerIInv
  OBVIOUS
<1>1. IInv
  BY InitIInv DEF TimerInit
<1>2. InLoop /\ OneDistributor
  BY DEF TimerInit, InLoop, OneDistributor, Distributes
<1>3. DueItems
  BY MaxNowAssumption DEF TimerInit, DueItems, Sorted
<1>4. Reserved
  <2>1. \A x : ~ Has(<<>>, x)
    BY DEF Has
  <2>2. \A w \in Worker, j \in TimerJob : ~ Carries(w, j)
    BY <2>1, NoneAssumption, TimerJobAssumption DEF TimerInit, Carries
  <2>3. born = {} /\ heap = {} /\ \A j \in TimerJob : due[j] = None
    BY DEF TimerInit, Init
  <2>4. \A w \in Worker : items[w] = <<>>
    BY DEF TimerInit
  <2> QED BY <2>1, <2>2, <2>3, <2>4 DEF Reserved, Distinct
<1> QED BY <1>1, <1>2, <1>3, <1>4, InitTimerTypes DEF TimerIInv

LEMMA NextTimerIInv == TimerIInv /\ [TimerNext]_allVars => TimerIInv'
<1> SUFFICES ASSUME TimerIInv, [TimerNext]_allVars PROVE TimerIInv'
  OBVIOUS
<1> USE DEF TimerIInv
<1>1. IInv'
  BY StepKeepsQueues, NextIInv
<1>2. TypeOK'
  BY <1>1 DEF IInv
<1> QED
  BY <1>1, <1>2, NextTimerTypes, NextInLoop, NextOneDistributor, NextDueItems, NextReserved

LEMMA TimerInvariance == TimerSpec => []TimerIInv
BY InitTimerIInv, NextTimerIInv, PTL DEF TimerSpec

\* The types of the timer and of the queues under it.
THEOREM TimerTypeCorrect == TimerSpec => []TimerTypeOK
BY TimerInvariance, PTL DEF TimerIInv

\* With the timer in the worker loop the queues still behave as in JobQueue:
\* what is proved of them there, SerialExecution included, holds here.
THEOREM TimerKeepsQueues == TimerSpec => QueuesUnharmed
<1>1. TimerInit => Init
  BY DEF TimerInit
<1>2. TimerIInv /\ [TimerNext]_allVars => [Next]_vars
  BY StepKeepsQueues DEF TimerIInv
<1> QED BY <1>1, <1>2, TimerInvariance, PTL DEF TimerSpec, QueuesUnharmed, Spec

\* The distribution of a job happens neither before its time nor before that of
\* a job taken with an earlier time (JobTimer.cpp:14-46).
THEOREM DistributesInOrder == TimerSpec => DueOrder
<1> DEFINE A == \A j \in (born' \ born) \cap TimerJob :
                  /\ due[j] <= now
                  /\ \A w \in Worker : \A i \in 1..Len(items[w]) : due[items[w][i]] >= due[j]
<1>1. TimerIInv /\ [TimerNext]_allVars => [A]_allVars
  <2> SUFFICES ASSUME TimerIInv, TimerNext, NEW j \in TimerJob, j \in born', j \notin born
               PROVE  /\ due[j] <= now
                      /\ \A w \in Worker : \A i \in 1..Len(items[w]) :
                           due[items[w][i]] >= due[j]
    OBVIOUS
  <2> USE DEF TimerIInv
  <2>1. PICK w \in Worker : PushDueItem(w)
    <3>1. ASSUME NEW w \in Worker, NEW k \in Job, CallbackPush(w, k)
          PROVE  j = k /\ k \notin TimerJob
      BY <3>1 DEF CallbackPush, HandlerPush, BodyPush, CountJob
    <3>2. \A w \in Worker : QueueStep(w) => UNCHANGED born
      BY QueueStepFrame DEF QueueStep
    <3> QED
      BY <3>1, <3>2 DEF TimerNext, TimerStep, Tick, ReadDueTime, InsertItem, CallDistribute,
         SkipDistribute, TakeProcessing, PopDueItems, EndDistribute, EnterGlobalLoop,
         GlobalLoop, EnterWorkGlobal, PopGlobal, LeaveWorkGlobal, vars
  <2>2. PICK s \in Seq(TimerJob) : s = items[w] /\ s # <<>>
    BY <2>1 DEF PushDueItem, TimerTypeOK
  <2>3. j = Head(s) /\ Distributes(w)
    BY <2>1, <2>2 DEF PushDueItem, CountJob, Distributes
  <2>4. 1 \in 1..Len(s) /\ j = s[1]
    BY <2>2, <2>3
  <2>5. /\ \A i \in 1..Len(s) : due[s[i]] \in Nat /\ due[s[i]] <= seen[w]
        /\ Sorted(s) /\ seen[w] <= now
    BY <2>2 DEF DueItems
  <2>6. due[j] <= now
    <3>1. seen[w] \in Nat /\ now \in Nat /\ due[j] \in Nat
      BY <2>4, <2>5, MaxNowAssumption DEF TimerTypeOK
    <3> QED BY <2>4, <2>5, <3>1
  <2>7. \A v \in Worker : v # w => items[v] = <<>>
    BY <2>3 DEF OneDistributor, Distributes
  <2>8. \A i \in 1..Len(s) : due[s[i]] >= due[j]
    BY <2>4, <2>5 DEF Sorted
  <2> QED BY <2>2, <2>6, <2>7, <2>8
<1>2. DueOrder <=> [][A]_allVars
  BY DEF DueOrder
<1> QED BY <1>1, <1>2, TimerInvariance, PTL DEF TimerSpec

\* A reserved job is in the hands of one reserving worker, in the heap, in the
\* items of one distributor or given to its queue: never lost, never twice
\* (JobTimer.cpp:5-46).
THEOREM ReservedJobsKept == TimerSpec => []ReservedOnce
<1>1. TimerIInv => ReservedOnce
  <2> SUFFICES ASSUME TimerIInv, NEW j \in TimerJob
               PROVE  Cardinality({w \in Worker : reserving[w] = j})
                        + (IF j \in heap THEN 1 ELSE 0)
                        + Cardinality({p \in UNION {{w} \X (1..Len(items[w])) : w \in Worker} :
                                         items[p[1]][p[2]] = j})
                        + (IF j \in born THEN 1 ELSE 0) = (IF due[j] = None THEN 0 ELSE 1)
    BY DEF ReservedOnce
  <2> DEFINE R == {w \in Worker : reserving[w] = j}
             L == {p \in UNION {{w} \X (1..Len(items[w])) : w \in Worker} :
                     items[p[1]][p[2]] = j}
  <2> USE DEF TimerIInv
  <2>1. \A p : p \in L <=> \E w \in Worker : \E i \in 1..Len(items[w]) :
                             p = <<w, i>> /\ items[w][i] = j
    OBVIOUS
  <2>2. /\ \A w, v \in R : w = v
        /\ R # {} <=> \E w \in Worker : reserving[w] = j
    BY DEF Reserved, Carries
  <2>3. L # {} <=> \E w \in Worker : Has(items[w], j)
    BY <2>1 DEF Has
  <2>4. \A p, o \in L : p = o
    <3> SUFFICES ASSUME NEW w \in Worker, NEW i \in 1..Len(items[w]), items[w][i] = j,
                        NEW v \in Worker, NEW k \in 1..Len(items[v]), items[v][k] = j
                 PROVE  w = v /\ i = k
      BY <2>1
    <3>1. w = v
      BY DEF Reserved, Carries, Has
    <3> QED BY <3>1 DEF Reserved, Distinct
  <2> HIDE DEF R, L
  <2>5. /\ Cardinality(R) = IF R = {} THEN 0 ELSE 1
        /\ Cardinality(L) = IF L = {} THEN 0 ELSE 1
    BY <2>2, <2>4, AtMostOne
  <2>6. /\ due[j] # None <=> j \in heap \/ j \in born \/ R # {} \/ L # {}
        /\ ~ (j \in heap /\ j \in born)
        /\ R # {} \/ L # {} => j \notin heap /\ j \notin born
        /\ ~ (R # {} /\ L # {})
    <3>1. (R # {} \/ L # {}) <=> \E w \in Worker : Carries(w, j)
      BY <2>2, <2>3 DEF Carries
    <3>2. ~ (R # {} /\ L # {})
      BY <2>2, <2>3 DEF Reserved, Carries
    <3> QED BY <3>1, <3>2 DEF Reserved
  <2>7. Cardinality(R) + (IF j \in heap THEN 1 ELSE 0) + Cardinality(L)
          + (IF j \in born THEN 1 ELSE 0) = (IF due[j] = None THEN 0 ELSE 1)
    BY <2>5, <2>6
  <2> QED BY <2>7 DEF R, L
<1> QED BY <1>1, TimerInvariance, PTL
=============================================================================
