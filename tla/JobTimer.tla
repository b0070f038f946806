------------------------------ MODULE JobTimer ------------------------------
(***************************************************************************)
(* JobTimer: jobs reserved for a later time (the ticks of monsters, arrows *)
(* and view cubes, the heartbeat, the flush of batched packets), and their *)
(* distribution to the queues that own them.  It composes with JobQueue:   *)
(* any worker distributes, between Dispatch and WorkGlobalQueue, and the   *)
(* Push it makes may execute the whole queue before it returns, with       *)
(* _processing still set.                                                  *)
(*                                                                         *)
(* The queues of this server live as long as the process, so the weak_ptr  *)
(* owner_queue always locks.  Clear is called by nothing.  The clock,      *)
(* GetTickCount64, is `now'; it stops at MaxNow.                           *)
(***************************************************************************)
EXTENDS JobQueue

CONSTANTS
  TimerJob,  \* the jobs that come from PushJobTimerAsync
  Delay,     \* their delay_time
  MaxNow     \* bound on the clock

ASSUME TimerJobAssumption == TimerJob \subseteq Job
ASSUME DelayAssumption == Delay \in [TimerJob -> Nat]
ASSUME MaxNowAssumption == MaxNow \in Nat
ASSUME TimerNoneAssumption == None \notin Nat

VARIABLES
  now,         \* GetTickCount64()
  due,         \* TimerItem::executeTime of a reserved job
  reserving,   \* the job a worker is reserving: its due time is set
  heap,        \* _timer_items
  processing,  \* _processing
  timer,       \* where a worker is in DistributeReservedJobs
  seen,        \* the argument `now' of its DistributeJobs
  items        \* the rest of its local vector `items'

timerVars == <<now, due, reserving, heap, processing, timer, seen, items>>
allVars == <<vars, timerVars>>

TimerPc == {"before", "called", "pop", "push", "after"}

TimerTypeOK ==
  /\ TypeOK
  /\ now \in 0..MaxNow
  /\ due \in [TimerJob -> Nat \cup {None}]
  /\ reserving \in [Worker -> TimerJob \cup {None}]
  /\ heap \subseteq TimerJob
  /\ processing \in BOOLEAN
  /\ timer \in [Worker -> TimerPc]
  /\ seen \in [Worker -> 0..MaxNow]
  /\ items \in [Worker -> Seq(TimerJob)]

TimerInit ==
  /\ Init
  /\ now = 0
  /\ due = [j \in TimerJob |-> None]
  /\ reserving = [w \in Worker |-> None]
  /\ heap = {}
  /\ processing = FALSE
  /\ timer = [w \in Worker |-> "before"]
  /\ seen = [w \in Worker |-> 0]
  /\ items = [w \in Worker |-> <<>>]

-----------------------------------------------------------------------------
(* JobTimer::ReserveJob                                                    *)

\* A handler or the callback of a job is running on worker w.
InCallback(w) ==
  /\ stage[w] = "none"
  /\ reserving[w] = None
  /\ \/ pc[w] = "body"
     \/ pc[w] = "idle" /\ phase[w] = "dispatch" /\ timer[w] = "before"

\* execute_time = GetTickCount64() + delay_time, before the lock is taken.
ReadDueTime(w, j) ==
  /\ InCallback(w)
  /\ due[j] = None
  /\ now + Delay[j] <= MaxNow
  /\ due' = [due EXCEPT ![j] = now + Delay[j]]
  /\ reserving' = [reserving EXCEPT ![w] = j]
  /\ UNCHANGED <<vars, now, heap, processing, timer, seen, items>>

\* _timer_items.push, under the lock.
InsertItem(w) ==
  /\ reserving[w] # None
  /\ heap' = heap \cup {reserving[w]}
  /\ reserving' = [reserving EXCEPT ![w] = None]
  /\ UNCHANGED <<vars, now, due, processing, timer, seen, items>>

-----------------------------------------------------------------------------
(* ThreadManager::DistributeReservedJobs and JobTimer::DistributeJobs      *)

\* Dispatch returned and the clock is read.
CallDistribute(w) ==
  /\ AtRest(w)
  /\ reserving[w] = None
  /\ phase[w] = "dispatch"
  /\ timer[w] = "before"
  /\ timer' = [timer EXCEPT ![w] = "called"]
  /\ seen' = [seen EXCEPT ![w] = now]
  /\ UNCHANGED <<vars, now, due, reserving, heap, processing, items>>

\* _processing.exchange(true) found true: another worker distributes.
SkipDistribute(w) ==
  /\ timer[w] = "called"
  /\ processing
  /\ timer' = [timer EXCEPT ![w] = "after"]
  /\ UNCHANGED <<vars, now, due, reserving, heap, processing, seen, items>>

\* Mutant: _processing is set without looking at what it was.
TakeProcessingBlindly(w) ==
  /\ timer[w] = "called"
  /\ processing' = TRUE
  /\ timer' = [timer EXCEPT ![w] = "pop"]
  /\ UNCHANGED <<vars, now, due, reserving, heap, seen, items>>

\* It found false: this worker distributes.
TakeProcessing(w) ==
  /\ timer[w] = "called"
  /\ ~ processing
  /\ processing' = TRUE
  /\ timer' = [timer EXCEPT ![w] = "pop"]
  /\ UNCHANGED <<vars, now, due, reserving, heap, seen, items>>

\* The orders in which the priority queue can give the jobs of S.
ByDueTime(S) ==
  {s \in [1..Cardinality(S) -> S] :
     /\ \A j \in S : \E i \in DOMAIN s : s[i] = j
     /\ \A i, k \in DOMAIN s : i < k => due[s[i]] <= due[s[k]]}

\* Mutant: the due items are copied and stay in the heap.
CopyDueItems(w) ==
  /\ timer[w] = "pop"
  /\ LET S == {j \in heap : due[j] <= seen[w]} IN
       \E s \in ByDueTime(S) : items' = [items EXCEPT ![w] = s]
  /\ timer' = [timer EXCEPT ![w] = "push"]
  /\ UNCHANGED <<vars, now, due, reserving, heap, processing, seen>>

\* The items that are due by the time that was read, under the lock.
PopDueItems(w) ==
  /\ timer[w] = "pop"
  /\ LET S == {j \in heap : due[j] <= seen[w]} IN
       /\ heap' = heap \ S
       /\ \E s \in ByDueTime(S) : items' = [items EXCEPT ![w] = s]
  /\ timer' = [timer EXCEPT ![w] = "push"]
  /\ UNCHANGED <<vars, now, due, reserving, processing, seen>>

\* Mutant: the job is put into _jobs behind the back of Push.
StoreDueItem(w) ==
  /\ timer[w] = "push"
  /\ AtRest(w)
  /\ items[w] # <<>>
  /\ jobs' = [jobs EXCEPT ![QueueOf[Head(items[w])]] = Append(@, Head(items[w]))]
  /\ items' = [items EXCEPT ![w] = Tail(@)]
  /\ UNCHANGED <<count, global, phase, execVars, pushVars, born, done>>
  /\ UNCHANGED <<now, due, reserving, heap, processing, timer, seen>>

\* queue->Push(item.job_data->job), from outside any queue: StoreJob, the hand
\* over and a whole inline Execute come before the next item.
PushDueItem(w) ==
  /\ timer[w] = "push"
  /\ AtRest(w)
  /\ items[w] # <<>>
  /\ CountJob(w, Head(items[w]))
  /\ items' = [items EXCEPT ![w] = Tail(@)]
  /\ UNCHANGED <<now, due, reserving, heap, processing, timer, seen>>

\* Mutant: _processing is not cleared at the end.
EndDistributeOnly(w) ==
  /\ timer[w] = "push"
  /\ AtRest(w)
  /\ items[w] = <<>>
  /\ timer' = [timer EXCEPT ![w] = "after"]
  /\ UNCHANGED <<vars, now, due, reserving, heap, processing, seen, items>>

\* _processing.store(false).
EndDistribute(w) ==
  /\ timer[w] = "push"
  /\ AtRest(w)
  /\ items[w] = <<>>
  /\ processing' = FALSE
  /\ timer' = [timer EXCEPT ![w] = "after"]
  /\ UNCHANGED <<vars, now, due, reserving, heap, seen, items>>

-----------------------------------------------------------------------------
(* The workers, with the timer between Dispatch and WorkGlobalQueue        *)

CallbackPush(w, j) ==
  /\ InCallback(w)
  /\ j \notin TimerJob
  /\ HandlerPush(w, j) \/ BodyPush(w, j)
  /\ UNCHANGED timerVars

QueueStep(w) ==
  /\ reserving[w] = None
  /\ PushStep(w) \/ ExecStep(w)
  /\ UNCHANGED timerVars

EnterGlobalLoop(w) ==
  /\ timer[w] = "after"
  /\ EnterWorkGlobal(w)
  /\ timer' = [timer EXCEPT ![w] = "before"]
  /\ UNCHANGED <<now, due, reserving, heap, processing, seen, items>>

GlobalLoop(w) ==
  /\ PopGlobal(w) \/ LeaveWorkGlobal(w)
  /\ UNCHANGED timerVars

Tick ==
  /\ now < MaxNow
  /\ now' = now + 1
  /\ UNCHANGED <<vars, due, reserving, heap, processing, timer, seen, items>>

TimerStep(w) ==
  \/ InsertItem(w)
  \/ CallDistribute(w)
  \/ SkipDistribute(w)
  \/ TakeProcessing(w)
  \/ PopDueItems(w)
  \/ PushDueItem(w)
  \/ EndDistribute(w)

TimerNext ==
  \/ Tick
  \/ \E w \in Worker :
       \/ \E j \in Job : CallbackPush(w, j)
       \/ \E j \in TimerJob : ReadDueTime(w, j)
       \/ QueueStep(w)
       \/ TimerStep(w)
       \/ EnterGlobalLoop(w)
       \/ GlobalLoop(w)

TimerSpec == TimerInit /\ [][TimerNext]_allVars

(* As in JobQueue, and the clock goes on.  Weak fairness is enough for the  *)
(* timer: an exchange of _processing fails only while another distributes.  *)
TimerFairness ==
  /\ WF_allVars(Tick)
  /\ \A w \in Worker :
       /\ WF_allVars(QueueStep(w))
       /\ WF_allVars(TimerStep(w))
       /\ WF_allVars(EnterGlobalLoop(w))
       /\ WF_allVars(GlobalLoop(w))
       /\ SF_allVars(PopGlobal(w) /\ UNCHANGED timerVars)

FairTimerSpec == TimerSpec /\ TimerFairness

-----------------------------------------------------------------------------
(* Properties                                                              *)

\* The timer only uses the interface of JobQueue: with it in the loop, the
\* queues behave as in JobQueue, and what holds there holds here.
QueuesUnharmed == Spec

\* A timer job is given to its queue neither before its time nor before a job
\* that was taken from the heap with an earlier time: a worker that distributes
\* with an old `now' never races one with a newer (JobTimer.cpp:16-18).
DueOrder ==
  [][\A j \in (born' \ born) \cap TimerJob :
       /\ due[j] <= now
       /\ \A w \in Worker : \A i \in 1..Len(items[w]) : due[items[w][i]] >= due[j]
    ]_allVars

\* A reserved job is in one place until it is pushed: in the hands of the
\* reserving worker, in the heap, or in the items of one distributor.  Nothing
\* is dropped or distributed twice.
ReservedOnce ==
  \A j \in TimerJob :
    Cardinality({w \in Worker : reserving[w] = j})
      + (IF j \in heap THEN 1 ELSE 0)
      + Cardinality({p \in UNION {{w} \X (1..Len(items[w])) : w \in Worker} :
                       items[p[1]][p[2]] = j})
      + (IF j \in born THEN 1 ELSE 0) = (IF due[j] = None THEN 0 ELSE 1)

\* Every reserved job runs in the end although a distributor may be kept in an
\* inline Execute, with _processing set, while others skip the timer; only a
\* throw in that Execute, or in the job's own queue, prevents it.
EveryTimerFires ==
  \A j \in TimerJob :
    due[j] # None ~>
      \/ Ran(j)
      \/ Lost(QueueOf[j])
      \/ \E w \in Worker : pc[w] = "dead" /\ timer[w] = "push"
=============================================================================
