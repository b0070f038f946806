------------------------------ MODULE JobQueue ------------------------------
(***************************************************************************)
(* The job queues of ServerCore and the worker threads that drain them.    *)
(*                                                                         *)
(* Every active object of the server (a Room, DBSerializer, PacketManager, *)
(* Heartbeat) derives from JobQueue: work on it is pushed as a Job, and    *)
(* the jobs of one queue are to run one after the other although any       *)
(* worker may run them.  No lock protects the run: the right to execute a  *)
(* queue is carried by the atomic counter _job_count (who moves it from 0) *)
(* and handed on through g_global_queue.  An action below is one access to *)
(* the memory the workers share (_job_count, _jobs, g_global_queue) with   *)
(* the thread-local steps that follow it.                                  *)
(*                                                                         *)
(* The clock is left out: tls_end_tick_count <= now is a free choice.      *)
(* push_only is FALSE, as in every call of Push in the repository.         *)
(***************************************************************************)
EXTENDS Naturals, Sequences, FiniteSets

CONSTANTS
  Worker,    \* the threads that run DoWorkerJob
  Queue,     \* the JobQueue objects
  Job,       \* the Job objects; each is pushed at most once
  QueueOf,   \* QueueOf[j] is the queue job j is pushed to
  Faulty,    \* the jobs whose callback throws a std::exception
  None       \* nullptr

ASSUME WorkerAssumption == IsFiniteSet(Worker)
ASSUME QueueOfAssumption == QueueOf \in [Job -> Queue]
ASSUME FaultyAssumption == Faulty \subseteq Job
ASSUME NoneAssumption == None \notin Job \cup Queue

VARIABLES
  count,     \* _job_count of a queue
  jobs,      \* _jobs of a queue
  global,    \* g_global_queue
  current,   \* tls_current_job_queue of a worker
  phase,     \* the part of DoWorkerJob a worker is in
  pc,        \* where a worker is in JobQueue::Execute
  batch,     \* the rest of the local vector `jobs' of Execute
  size,      \* job_size of Execute
  stage,     \* where a worker is in JobQueue::Push
  pushing,   \* the argument of that Push
  born,      \* history: the jobs given to Push so far
  done       \* history: the jobs of a queue that ran, in order

execVars == <<current, pc, batch, size>>
pushVars == <<stage, pushing>>
vars == <<count, jobs, global, current, phase, pc, batch, size,
          stage, pushing, born, done>>

Phase == {"dispatch", "global"}
Pc == {"idle", "popAll", "loop", "body", "tick", "dead"}
Stage == {"none", "first", "later", "hand"}

TypeOK ==
  /\ count \in [Queue -> Nat]
  /\ jobs \in [Queue -> Seq(Job)]
  /\ global \in Seq(Queue)
  /\ current \in [Worker -> Queue \cup {None}]
  /\ phase \in [Worker -> Phase]
  /\ pc \in [Worker -> Pc]
  /\ batch \in [Worker -> Seq(Job)]
  /\ size \in [Worker -> Nat]
  /\ stage \in [Worker -> Stage]
  /\ pushing \in [Worker -> Job \cup {None}]
  /\ born \subseteq Job
  /\ done \in [Queue -> Seq(Job)]

Init ==
  /\ count = [q \in Queue |-> 0]
  /\ jobs = [q \in Queue |-> <<>>]
  /\ global = <<>>
  /\ current = [w \in Worker |-> None]
  /\ phase = [w \in Worker |-> "dispatch"]
  /\ pc = [w \in Worker |-> "idle"]
  /\ batch = [w \in Worker |-> <<>>]
  /\ size = [w \in Worker |-> 0]
  /\ stage = [w \in Worker |-> "none"]
  /\ pushing = [w \in Worker |-> None]
  /\ born = {}
  /\ done = [q \in Queue |-> <<>>]

-----------------------------------------------------------------------------
(* JobQueue::Push                                                          *)

\* prev_count = _job_count.fetch_add(1): the job is counted before it can be
\* found in _jobs.
CountJob(w, j) ==
  /\ stage[w] = "none"
  /\ j \notin born
  /\ born' = born \cup {j}
  /\ pushing' = [pushing EXCEPT ![w] = j]
  /\ stage' = [stage EXCEPT ![w] =
                 IF count[QueueOf[j]] = 0 THEN "first" ELSE "later"]
  /\ count' = [count EXCEPT ![QueueOf[j]] = @ + 1]
  /\ UNCHANGED <<jobs, global, phase, execVars, done>>

\* A packet or session handler, run by Dispatch, pushes a job.
HandlerPush(w, j) ==
  /\ phase[w] = "dispatch"
  /\ pc[w] = "idle"
  /\ CountJob(w, j)

\* The callback of a running job pushes a job, to its own or another queue.
BodyPush(w, j) ==
  /\ pc[w] = "body"
  /\ CountJob(w, j)

\* Mutant: the job goes in front of the jobs that wait.
StoreJobInFront(w) ==
  /\ stage[w] \in {"first", "later"}
  /\ jobs' = [jobs EXCEPT ![QueueOf[pushing[w]]] = <<pushing[w]>> \o @]
  /\ stage' = [stage EXCEPT ![w] = IF @ = "first" THEN "hand" ELSE "none"]
  /\ pushing' = [pushing EXCEPT ![w] = IF stage[w] = "first" THEN @ ELSE None]
  /\ UNCHANGED <<count, global, phase, execVars, born, done>>

\* _jobs.Push(job); only the push that counted from 0 has more to do.
StoreJob(w) ==
  /\ stage[w] \in {"first", "later"}
  /\ jobs' = [jobs EXCEPT ![QueueOf[pushing[w]]] = Append(@, pushing[w])]
  /\ IF stage[w] = "first"
       THEN /\ stage' = [stage EXCEPT ![w] = "hand"]
            /\ UNCHANGED pushing
       ELSE /\ stage' = [stage EXCEPT ![w] = "none"]
            /\ pushing' = [pushing EXCEPT ![w] = None]
  /\ UNCHANGED <<count, global, phase, execVars, born, done>>

\* The entry of Execute on queue q: tls_current_job_queue = this.
EnterExecute(w, q) ==
  /\ current' = [current EXCEPT ![w] = q]
  /\ pc' = [pc EXCEPT ![w] = "popAll"]
  /\ UNCHANGED <<batch, size>>

\* The first pusher executes the queue itself when it executes no other ...
HandOffInline(w) ==
  /\ stage[w] = "hand"
  /\ current[w] = None
  /\ EnterExecute(w, QueueOf[pushing[w]])
  /\ stage' = [stage EXCEPT ![w] = "none"]
  /\ pushing' = [pushing EXCEPT ![w] = None]
  /\ UNCHANGED <<count, jobs, global, phase, born, done>>

\* Mutant: a first pusher inside another queue forgets the global queue.
HandOffNowhere(w) ==
  /\ stage[w] = "hand"
  /\ current[w] # None
  /\ stage' = [stage EXCEPT ![w] = "none"]
  /\ pushing' = [pushing EXCEPT ![w] = None]
  /\ UNCHANGED <<count, jobs, global, phase, execVars, born, done>>

\* ... and leaves it to whoever pops g_global_queue when it does.
HandOffGlobal(w) ==
  /\ stage[w] = "hand"
  /\ current[w] # None
  /\ global' = Append(global, QueueOf[pushing[w]])
  /\ stage' = [stage EXCEPT ![w] = "none"]
  /\ pushing' = [pushing EXCEPT ![w] = None]
  /\ UNCHANGED <<count, jobs, phase, execVars, born, done>>

-----------------------------------------------------------------------------
(* JobQueue::Execute                                                       *)

\* Mutant: the jobs are copied and stay in _jobs.
CopyAll(w) ==
  /\ pc[w] = "popAll"
  /\ batch' = [batch EXCEPT ![w] = jobs[current[w]]]
  /\ size' = [size EXCEPT ![w] = Len(jobs[current[w]])]
  /\ pc' = [pc EXCEPT ![w] = "loop"]
  /\ UNCHANGED <<count, jobs, global, current, phase, pushVars, born, done>>

\* _jobs.PopAll(jobs); job_size = jobs.size().  The vector is empty when the
\* counted job is not stored yet.
PopAll(w) ==
  /\ pc[w] = "popAll"
  /\ LET q == current[w] IN
       /\ batch' = [batch EXCEPT ![w] = jobs[q]]
       /\ size' = [size EXCEPT ![w] = Len(jobs[q])]
       /\ jobs' = [jobs EXCEPT ![q] = <<>>]
  /\ pc' = [pc EXCEPT ![w] = "loop"]
  /\ UNCHANGED <<count, global, current, phase, pushVars, born, done>>

\* jobs[i]->Execute() is called ...
StartJob(w) ==
  /\ pc[w] = "loop"
  /\ batch[w] # <<>>
  /\ pc' = [pc EXCEPT ![w] = "body"]
  /\ UNCHANGED <<count, jobs, global, current, phase, batch, size,
                 pushVars, born, done>>

\* ... and returns, every push it made being over.
FinishJob(w) ==
  /\ pc[w] = "body"
  /\ stage[w] = "none"
  /\ done' = [done EXCEPT ![current[w]] = Append(@, Head(batch[w]))]
  /\ batch' = [batch EXCEPT ![w] = Tail(@)]
  /\ pc' = [pc EXCEPT ![w] = "loop"]
  /\ UNCHANGED <<count, jobs, global, current, phase, size, pushVars, born>>

\* A std::exception leaves Execute, DoWorkerJob and the thread's callback:
\* ThreadManager::Start reports it and the thread ends.
ThrowInJob(w) ==
  /\ pc[w] = "body"
  /\ stage[w] = "none"
  /\ Head(batch[w]) \in Faulty
  /\ pc' = [pc EXCEPT ![w] = "dead"]
  /\ UNCHANGED <<count, jobs, global, current, phase, batch, size,
                 pushVars, born, done>>

\* Mutant: the count is cleared instead of reduced by what ran.
ClearCount(w) ==
  /\ pc[w] = "loop"
  /\ batch[w] = <<>>
  /\ count' = [count EXCEPT ![current[w]] = 0]
  /\ size' = [size EXCEPT ![w] = 0]
  /\ current' = [current EXCEPT ![w] = None]
  /\ pc' = [pc EXCEPT ![w] = "idle"]
  /\ UNCHANGED <<jobs, global, phase, batch, pushVars, born, done>>

\* job_size == _job_count.fetch_sub(job_size): nothing came in, the right to
\* execute is given back with the last count; otherwise the clock is asked.
ReleaseJobs(w) ==
  /\ pc[w] = "loop"
  /\ batch[w] = <<>>
  /\ LET q == current[w] IN
       /\ count' = [count EXCEPT ![q] = @ - size[w]]
       /\ IF count[q] = size[w]
            THEN /\ current' = [current EXCEPT ![w] = None]
                 /\ pc' = [pc EXCEPT ![w] = "idle"]
            ELSE /\ pc' = [pc EXCEPT ![w] = "tick"]
                 /\ UNCHANGED current
  /\ size' = [size EXCEPT ![w] = 0]
  /\ UNCHANGED <<jobs, global, phase, batch, pushVars, born, done>>

\* now < tls_end_tick_count: go round again.
KeepExecuting(w) ==
  /\ pc[w] = "tick"
  /\ pc' = [pc EXCEPT ![w] = "popAll"]
  /\ UNCHANGED <<count, jobs, global, current, phase, batch, size,
                 pushVars, born, done>>

\* Mutant: the return after the push to the global queue is missing.
YieldAndKeep(w) ==
  /\ pc[w] = "tick"
  /\ global' = Append(global, current[w])
  /\ pc' = [pc EXCEPT ![w] = "popAll"]
  /\ UNCHANGED <<count, jobs, current, phase, batch, size, pushVars, born, done>>

\* tls_end_tick_count <= now: the queue goes to another thread.
YieldQueue(w) ==
  /\ pc[w] = "tick"
  /\ global' = Append(global, current[w])
  /\ current' = [current EXCEPT ![w] = None]
  /\ pc' = [pc EXCEPT ![w] = "idle"]
  /\ UNCHANGED <<count, jobs, phase, batch, size, pushVars, born, done>>

-----------------------------------------------------------------------------
(* DoWorkerJob and ThreadManager::WorkGlobalQueue                          *)

\* A worker between two calls, outside Push and Execute.
AtRest(w) == pc[w] = "idle" /\ stage[w] = "none"

\* Dispatch returned (an event was handled, or 10 ms passed).
EnterWorkGlobal(w) ==
  /\ AtRest(w)
  /\ phase[w] = "dispatch"
  /\ phase' = [phase EXCEPT ![w] = "global"]
  /\ UNCHANGED <<count, jobs, global, execVars, pushVars, born, done>>

\* g_global_queue->Pop() gives a queue, which is executed.
PopGlobal(w) ==
  /\ AtRest(w)
  /\ phase[w] = "global"
  /\ global # <<>>
  /\ global' = Tail(global)
  /\ EnterExecute(w, Head(global))
  /\ UNCHANGED <<count, jobs, phase, pushVars, born, done>>

\* The tick is over or nothing is left: back to Dispatch.
LeaveWorkGlobal(w) ==
  /\ AtRest(w)
  /\ phase[w] = "global"
  /\ phase' = [phase EXCEPT ![w] = "dispatch"]
  /\ UNCHANGED <<count, jobs, global, execVars, pushVars, born, done>>

-----------------------------------------------------------------------------
PushStep(w) == StoreJob(w) \/ HandOffInline(w) \/ HandOffGlobal(w)

ExecStep(w) ==
  \/ PopAll(w)
  \/ StartJob(w)
  \/ FinishJob(w)
  \/ ThrowInJob(w)
  \/ ReleaseJobs(w)
  \/ KeepExecuting(w)
  \/ YieldQueue(w)

LoopStep(w) == EnterWorkGlobal(w) \/ PopGlobal(w) \/ LeaveWorkGlobal(w)

Next ==
  \E w \in Worker :
    \/ \E j \in Job : HandlerPush(w, j) \/ BodyPush(w, j)
    \/ PushStep(w)
    \/ ExecStep(w)
    \/ LoopStep(w)

Spec == Init /\ [][Next]_vars

(* A worker keeps running its own code; no handler is obliged to push.  The *)
(* tick of 96 ms starts right before WorkGlobalQueue looks at it, so it is  *)
(* not always over before the first Pop: strong fairness of PopGlobal.      *)
Fairness ==
  \A w \in Worker :
    /\ WF_vars(PushStep(w))
    /\ WF_vars(ExecStep(w))
    /\ WF_vars(LoopStep(w))
    /\ SF_vars(PopGlobal(w))

FairSpec == Spec /\ Fairness

-----------------------------------------------------------------------------
(* Properties                                                              *)

Executors(q) == {w \in Worker : current[w] = q}
FirstPushers(q) ==
  {w \in Worker : stage[w] \in {"first", "hand"} /\ QueueOf[pushing[w]] = q}
CountedPushers(q) ==
  {w \in Worker : stage[w] \in {"first", "later"} /\ QueueOf[pushing[w]] = q}
GlobalEntries(q) == {i \in 1..Len(global) : global[i] = q}

\* Two workers never execute the same queue: what a Room or a DBSerializer
\* relies on when its jobs touch its state without a lock (JobQueue.cpp:5-56).
OneExecutor ==
  \A q \in Queue : \A w, v \in Executors(q) : w = v

\* The right to execute a queue exists exactly once while its _job_count is
\* not 0 and not at all while it is 0, whoever holds it: a first pusher, an
\* executor or an entry of g_global_queue.  Two would break OneExecutor, none
\* would leave counted jobs to nobody, since only a push from 0 makes a new one.
OneRight ==
  \A q \in Queue :
    Cardinality(Executors(q)) + Cardinality(FirstPushers(q))
      + Cardinality(GlobalEntries(q)) = (IF count[q] = 0 THEN 0 ELSE 1)

\* _job_count is the jobs stored, the batch its executor took, and the pushes
\* that counted but did not store yet: fetch_sub can never take it below 0
\* or reach 0 with a job left in _jobs (JobQueue.cpp:7-9, 33, 42).
Known(q) == Len(jobs[q]) + Cardinality(CountedPushers(q))
CountExact ==
  \A q \in Queue :
    /\ Executors(q) = {} => count[q] = Known(q)
    /\ \A w \in Executors(q) : count[q] = Known(q) + size[w]

\* Each queue is the serial executor its users take it for: jobs run one at
\* a time, each once, in the order in which _jobs.Push took them in.
ExecutorOf(q) == CHOOSE w \in Worker : current[w] = q
Running(q) ==
  IF \E w \in Executors(q) : pc[w] \in {"body", "dead"}
    THEN Head(batch[ExecutorOf(q)]) ELSE None
Taken(q) ==
  IF Executors(q) = {} THEN <<>>
  ELSE IF Running(q) = None THEN batch[ExecutorOf(q)]
       ELSE Tail(batch[ExecutorOf(q)])

Serial == INSTANCE SerialExecutor WITH
            pending <- [q \in Queue |-> Taken(q) \o jobs[q]],
            running <- [q \in Queue |-> Running(q)]

RunsSerially == Serial!Spec

\* Every job given to Push is executed in the end, wherever it was pushed from
\* and whichever worker the queue was handed to; a job that throws stops the
\* queue it ran in, and no other.
Ran(j) == \E i \in 1..Len(done[QueueOf[j]]) : done[QueueOf[j]][i] = j
Lost(q) == \E w \in Worker : pc[w] = "dead" /\ current[w] = q
EveryJobRuns ==
  \A j \in Job : j \in born ~> Ran(j) \/ Lost(QueueOf[j])
=============================================================================
