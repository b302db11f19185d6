------------------------------- MODULE JobQueue -------------------------------
(***************************************************************************)
(* The job queue (core/impl/JobQueue.cpp), its coroutines (core/Coro.ipp), *)
(* the counter of jobs in flight (core/ClosureCounter.h) and the shutdown  *)
(* of the tree of services it belongs to (core/impl/Stoppable.cpp).  The   *)
(* pool below it is the one of module TaskPool: a task that was added is   *)
(* started once, by some idle thread.                                      *)
(*                                                                         *)
(* The module defines the state and the steps a thread takes in the queue. *)
(* What the jobs do, who adds them and who may stop the server is up to    *)
(* the module that extends it.                                             *)
(***************************************************************************)
EXTENDS Integers, FiniteSets

CONSTANTS
  Thread,       \* the threads of the pool, as numbers
  JobType,      \* job types, as numbers: the higher is served first
  JobLimit,     \* JobLimit[t]: how many jobs of type t may run at once
  Coro,         \* coroutines, as numbers
  NoCoro,       \* of a job that runs none
  NoJob         \* of a thread that runs none

ASSUME QueueAssumption ==
  /\ Thread \subseteq Nat \ {0} /\ IsFiniteSet(Thread)
  /\ JobLimit \in [JobType -> Nat]
  /\ IsFiniteSet(Coro) /\ NoCoro \notin Coro

VARIABLES
  \* the queue
  tasks,            \* tasks of the pool that are not started
  m_jobSet,         \* jobs that wait: [type, index, coro]
  m_lastJob,
  m_jobData,        \* per type, [waiting, running, deferred]
  m_processCount,
  nSuspend_,
  \* the jobs in flight
  closureCount_,
  waitForClosures_,
  \* the shutdown
  m_calledStop,
  m_childrenStopped,
  m_is_stopping,    \* the queue has called stopped()
  m_stopped,
  stopper,          \* where the thread is that stops the server
  \* the threads
  pc,               \* where a thread is
  job               \* the job it runs

queue == <<tasks, m_jobSet, m_lastJob, m_jobData, m_processCount>>
closures == <<closureCount_, waitForClosures_>>
stopping == <<m_calledStop, m_childrenStopped, m_is_stopping, m_stopped,
              stopper>>

InitQueue ==
  /\ tasks = 0
  /\ m_jobSet = {}
  /\ m_lastJob = 0
  /\ m_jobData = [t \in JobType |-> [waiting |-> 0, running |-> 0, deferred |-> 0]]
  /\ m_processCount = 0
  /\ nSuspend_ = 0
  /\ closureCount_ = 0
  /\ waitForClosures_ = FALSE
  /\ m_calledStop = FALSE
  /\ m_childrenStopped = FALSE
  /\ m_is_stopping = FALSE
  /\ m_stopped = FALSE
  /\ stopper = "idle"
  /\ pc = [w \in Thread |-> "idle"]
  /\ job = [w \in Thread |-> NoJob]

\* The thread moves on to l.
Goto(w, l) == pc' = [pc EXCEPT ![w] = l]

-------------------------------------------------------------------------------
(* Adding a job.  addJob wraps the handler, under the lock of the counter,  *)
(* and then adds the job, under the lock of the queue.                      *)

\* A handler is counted although join() has been called.
M_Wrap ==
  /\ closureCount_' = closureCount_ + 1
  /\ UNCHANGED waitForClosures_

\* ClosureCounter::wrap; it fails once join() has been called.
Wrap ==
  /\ ~ waitForClosures_
  /\ closureCount_' = closureCount_ + 1
  /\ UNCHANGED waitForClosures_

WrapFails ==
  /\ waitForClosures_
  /\ UNCHANGED closures

\* One job too many is allowed.
M_addRefCountedJob(t, c) ==
  LET data == m_jobData[t]
      below == data.waiting + data.running <= JobLimit[t] IN
  /\ m_lastJob' = m_lastJob + 1
  /\ m_jobSet' = m_jobSet \cup {[type |-> t, index |-> m_lastJob', coro |-> c]}
  /\ tasks' = IF below THEN tasks + 1 ELSE tasks
  /\ m_jobData' =
       [m_jobData EXCEPT ![t].deferred = IF below THEN @ ELSE @ + 1,
                         ![t].waiting = @ + 1]
  /\ UNCHANGED m_processCount

\* addRefCountedJob and queueJob: a task for the pool, unless as many jobs of
\* the type as may run are waiting or running already.
addRefCountedJob(t, c) ==
  LET data == m_jobData[t]
      below == data.waiting + data.running < JobLimit[t] IN
  /\ m_lastJob' = m_lastJob + 1
  /\ m_jobSet' = m_jobSet \cup {[type |-> t, index |-> m_lastJob', coro |-> c]}
  /\ tasks' = IF below THEN tasks + 1 ELSE tasks
  /\ m_jobData' =
       [m_jobData EXCEPT ![t].deferred = IF below THEN @ ELSE @ + 1,
                         ![t].waiting = @ + 1]
  /\ UNCHANGED m_processCount

-------------------------------------------------------------------------------
(* Running a job: processTask, up to the job and after it.                  *)

\* The pool calls processTask on an idle thread.  Idle threads are alike: the
\* first takes the task.
TakeTask(w) ==
  /\ pc[w] = "idle"
  /\ \A v \in Thread : v < w => pc[v] # "idle"
  /\ tasks > 0
  /\ tasks' = tasks - 1
  /\ pc' = [pc EXCEPT ![w] = "take"]
  /\ UNCHANGED <<m_jobSet, m_lastJob, m_jobData, m_processCount, nSuspend_,
                 closures, stopping, job>>

\* Job::operator<: the order of the job set.
Before(j, k) == j.type > k.type \/ (j.type = k.type /\ j.index < k.index)

\* The jobs getNextJob may stop at: those whose type is below its limit.
Runnable == {j \in m_jobSet : m_jobData[j.type].running < JobLimit[j.type]}

\* getNextJob; start[t] is where a thread begins a job of type t.
getNextJob(w, start) ==
  /\ pc[w] = "take"
  /\ \E j \in Runnable :
       /\ \A k \in Runnable \ {j} : Before(j, k)
       /\ m_jobSet' = m_jobSet \ {j}
       /\ m_jobData' = [m_jobData EXCEPT ![j.type].waiting = @ - 1,
                                         ![j.type].running = @ + 1]
       /\ job' = [job EXCEPT ![w] = j]
       /\ pc' = [pc EXCEPT ![w] = start[j.type]]
  /\ m_processCount' = m_processCount + 1
  /\ UNCHANGED <<tasks, m_lastJob, nSuspend_, closures, stopping>>

\* doJob returns: the handler is destroyed and no longer counted.
DestroyJob(w) ==
  /\ pc[w] = "destroy"
  /\ closureCount_' = closureCount_ - 1
  /\ pc' = [pc EXCEPT ![w] = "finish"]
  /\ UNCHANGED <<queue, nSuspend_, waitForClosures_, stopping, job>>

\* Jobs that run are not waited for.
M_checkStopped(processes, jobs) ==
  m_is_stopping' =
    (m_is_stopping \/ (/\ m_calledStop
                       /\ m_childrenStopped
                       /\ jobs = {}
                       /\ nSuspend_ = 0))

\* checkStopped, with the values it finds under the lock.
checkStopped(processes, jobs) ==
  m_is_stopping' =
    (m_is_stopping \/ (/\ m_calledStop
                       /\ m_childrenStopped
                       /\ processes = 0
                       /\ jobs = {}
                       /\ nSuspend_ = 0))

\* A job that was held back is not given to the pool.
M_finishJob(w) ==
  LET t == job[w].type
      more == m_jobData[t].deferred > 0 IN
  /\ pc[w] = "finish"
  /\ m_jobData' = [m_jobData EXCEPT ![t].deferred = IF more THEN @ - 1 ELSE @,
                                    ![t].running = @ - 1]
  /\ m_processCount' = m_processCount - 1
  /\ checkStopped(m_processCount', m_jobSet)
  /\ pc' = [pc EXCEPT ![w] = "idle"]
  /\ job' = [job EXCEPT ![w] = NoJob]
  /\ UNCHANGED <<tasks, m_jobSet, m_lastJob, nSuspend_, closures, m_calledStop,
                 m_childrenStopped, m_stopped, stopper>>

\* finishJob and the end of processTask.
finishJob(w) ==
  LET t == job[w].type
      more == m_jobData[t].deferred > 0 IN
  /\ pc[w] = "finish"
  /\ tasks' = IF more THEN tasks + 1 ELSE tasks
  /\ m_jobData' = [m_jobData EXCEPT ![t].deferred = IF more THEN @ - 1 ELSE @,
                                    ![t].running = @ - 1]
  /\ m_processCount' = m_processCount - 1
  /\ checkStopped(m_processCount', m_jobSet)
  /\ pc' = [pc EXCEPT ![w] = "idle"]
  /\ job' = [job EXCEPT ![w] = NoJob]
  /\ UNCHANGED <<m_jobSet, m_lastJob, nSuspend_, closures, m_calledStop,
                 m_childrenStopped, m_stopped, stopper>>

-------------------------------------------------------------------------------
(* Correctness of the queue. *)

\* When a job may be added to the queue (the assertion in addRefCountedJob).
MayAdd ==
  /\ ~ m_stopped
  /\ \/ m_processCount > 0
     \/ m_jobSet # {}
     \/ ~ m_childrenStopped

\* Every thread that was given a task finds a job it may run: the tasks of the
\* pool and the threads that took one are together as many as the jobs that
\* wait and could be started within the limits of their types, although a
\* task does not say which job it is for (the assertions in getNextJob).
TaskFindsJob ==
  (\E w \in Thread : pc[w] = "take") => Runnable # {}
===============================================================================
