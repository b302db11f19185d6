------------------------------- MODULE Workers --------------------------------
(***************************************************************************)
(* The thread pool of the job queue (core/impl/Workers.cpp) and the        *)
(* semaphore it waits on.  A thread of the pool is a member of 1..Max-     *)
(* Workers in the order of its creation; the owner is the one thread that  *)
(* calls setNumberOfThreads, pauseAllThreadsAndWait and the destructor,    *)
(* which are not thread safe, and any thread may call addTask.  Every      *)
(* action is one access to an atomic variable, or one critical section.    *)
(*                                                                         *)
(* A task and a request to pause are both signalled by the semaphore: a    *)
(* thread that gets past wait() holds a token and finds out from           *)
(* m_pauseCount which of the two it is for.                                *)
(***************************************************************************)
EXTENDS Integers, Sequences, FiniteSets

CONSTANTS
  Drained,      \* the pool is made smaller only when all tasks have started
  MaxWorkers,   \* bound on the threads that are ever created
  MaxTasks,     \* bound on the calls of addTask
  MaxResizes    \* bound on the calls of setNumberOfThreads

ASSUME WorkersAssumption ==
  /\ Drained \in BOOLEAN
  /\ MaxWorkers \in Nat
  /\ MaxTasks \in Nat
  /\ MaxResizes \in Nat

Worker == 1..MaxWorkers

VARIABLES
  semaphore,           \* m_semaphore's count
  m_numberOfThreads,
  m_activeCount,
  m_pauseCount,
  m_runningTaskCount,
  m_allPaused,
  m_paused,            \* the stack of paused threads, top first
  everyone,            \* m_everyone is 1..everyone, the last created on top
  pc,                  \* where a thread is in Worker::run
  wakeCount_,
  shouldExit_,
  owner,               \* where the owner is in the call it makes
  destroying,          \* the call is ~Workers
  target,              \* numberOfThreads, the argument of the call
  amount,              \* threads still to be added or paused by the call
  tasks,               \* calls of addTask so far
  resizes              \* calls of setNumberOfThreads so far

pool == <<semaphore, m_numberOfThreads, m_activeCount, m_pauseCount,
          m_runningTaskCount, m_allPaused, m_paused, everyone>>
threads == <<pc, wakeCount_, shouldExit_>>
callers == <<owner, destroying, target, amount, tasks, resizes>>
vars == <<pool, threads, callers>>

Init ==
  /\ semaphore = 0
  /\ m_numberOfThreads = 0
  /\ m_activeCount = 0
  /\ m_pauseCount = 0
  /\ m_runningTaskCount = 0
  /\ m_allPaused = TRUE
  /\ m_paused = << >>
  /\ everyone = 0
  /\ pc = [w \in Worker |-> "none"]
  /\ wakeCount_ = [w \in Worker |-> 0]
  /\ shouldExit_ = [w \in Worker |-> FALSE]
  /\ owner = "idle"
  /\ destroying = FALSE
  /\ target = 0
  /\ amount = 0
  /\ tasks = 0
  /\ resizes = 0

-------------------------------------------------------------------------------
(* Tasks and the tokens that stand for them. *)

\* How many threads are at l.
At(l) == {w \in Worker : pc[w] = l}
Count(l) == Cardinality(At(l))

\* The owner has raised m_pauseCount and not yet signalled the semaphore.
Owed == IF owner = "signal" THEN 1 ELSE 0

\* Requests to pause that no thread has taken.  A thread at "undo" has taken
\* one that was not there, and is about to put it back.
Outstanding == m_pauseCount + Count("undo")

\* Tokens, in the semaphore and with the threads that have got past wait()
\* and have neither started a task nor paused, that are not for the
\* outstanding requests to pause.
Unstarted ==
  semaphore + Count("got") + Count("decrement") + Count("undo")
    + Count("start") + Owed - Outstanding

-------------------------------------------------------------------------------
(* The callers. *)

\* The semaphore's notify, here for a task.  No task is added once the pool is
\* being destroyed, and none while a drained pool is made smaller.
addTask ==
  /\ tasks < MaxTasks
  /\ ~ destroying
  /\ Drained => owner \in {"idle", "grow"}
  /\ tasks' = tasks + 1
  /\ semaphore' = semaphore + 1
  /\ UNCHANGED <<m_numberOfThreads, m_activeCount, m_pauseCount,
                 m_runningTaskCount, m_allPaused, m_paused, everyone, threads,
                 owner, destroying, target, amount, resizes>>

\* setNumberOfThreads up to its loops.  The job queue has stopped when it is
\* destroyed, and with it the pool: every task has been started by then.
resizeTo(n) ==
  /\ Drained /\ n < m_numberOfThreads => Unstarted = 0
  /\ target' = n
  /\ owner' = IF n > m_numberOfThreads THEN "grow" ELSE "shrink"
  /\ amount' = IF n > m_numberOfThreads THEN n - m_numberOfThreads
               ELSE m_numberOfThreads - n

setNumberOfThreads(n) ==
  /\ owner = "idle"
  /\ resizes < MaxResizes
  /\ n # m_numberOfThreads
  /\ resizeTo(n)
  /\ resizes' = resizes + 1
  /\ UNCHANGED <<pool, threads, destroying, tasks>>

\* The destructor calls pauseAllThreadsAndWait, which asks for no threads.
Destroy ==
  /\ owner = "idle"
  /\ resizeTo(0)
  /\ destroying' = TRUE
  /\ UNCHANGED <<pool, threads, tasks, resizes>>

\* A paused thread is taken from the stack and not woken.
M_AddThread ==
  /\ owner = "grow"
  /\ amount > 0
  /\ amount' = amount - 1
  /\ \/ /\ m_paused # << >>
        /\ m_paused' = Tail(m_paused)
        /\ UNCHANGED <<everyone, pc>>
     \/ /\ m_paused = << >>
        /\ everyone < MaxWorkers
        /\ everyone' = everyone + 1
        /\ pc' = [pc EXCEPT ![everyone + 1] = "enter"]
        /\ UNCHANGED m_paused
  /\ UNCHANGED <<semaphore, m_numberOfThreads, m_activeCount, m_pauseCount,
                 m_runningTaskCount, m_allPaused, wakeCount_, shouldExit_,
                 owner, destroying, target, tasks, resizes>>

\* A paused thread is reused, or else one is created.
AddThread ==
  /\ owner = "grow"
  /\ amount > 0
  /\ amount' = amount - 1
  /\ \/ /\ m_paused # << >>
        /\ m_paused' = Tail(m_paused)
        /\ wakeCount_' = [wakeCount_ EXCEPT ![Head(m_paused)] = @ + 1]
        /\ UNCHANGED <<everyone, pc>>
     \/ /\ m_paused = << >>
        /\ everyone < MaxWorkers
        /\ everyone' = everyone + 1
        /\ pc' = [pc EXCEPT ![everyone + 1] = "enter"]
        /\ UNCHANGED <<m_paused, wakeCount_>>
  /\ UNCHANGED <<semaphore, m_numberOfThreads, m_activeCount, m_pauseCount,
                 m_runningTaskCount, m_allPaused, shouldExit_, owner,
                 destroying, target, tasks, resizes>>

RequestPause ==
  /\ owner = "shrink"
  /\ amount > 0
  /\ m_pauseCount' = m_pauseCount + 1
  /\ owner' = "signal"
  /\ UNCHANGED <<semaphore, m_numberOfThreads, m_activeCount,
                 m_runningTaskCount, m_allPaused, m_paused, everyone, threads,
                 destroying, target, amount, tasks, resizes>>

SignalPause ==
  /\ owner = "signal"
  /\ semaphore' = semaphore + 1
  /\ amount' = amount - 1
  /\ owner' = "shrink"
  /\ UNCHANGED <<m_numberOfThreads, m_activeCount, m_pauseCount,
                 m_runningTaskCount, m_allPaused, m_paused, everyone, threads,
                 destroying, target, tasks, resizes>>

ResizeDone ==
  /\ owner \in {"grow", "shrink"}
  /\ amount = 0
  /\ m_numberOfThreads' = target
  /\ owner' = IF destroying THEN "waiting" ELSE "idle"
  /\ UNCHANGED <<semaphore, m_activeCount, m_pauseCount, m_runningTaskCount,
                 m_allPaused, m_paused, everyone, threads, destroying, target,
                 amount, tasks, resizes>>

\* pauseAllThreadsAndWait returns.
AllPaused ==
  /\ owner = "waiting"
  /\ m_allPaused
  /\ owner' = "paused"
  /\ UNCHANGED <<pool, threads, destroying, target, amount, tasks, resizes>>

\* deleteWorkers deletes the thread on top of the stack: it is told to exit
\* and joined.
deleteWorker ==
  /\ owner = "paused"
  /\ everyone > 0
  /\ wakeCount_' = [wakeCount_ EXCEPT ![everyone] = @ + 1]
  /\ shouldExit_' = [shouldExit_ EXCEPT ![everyone] = TRUE]
  /\ owner' = "joining"
  /\ UNCHANGED <<pool, pc, destroying, target, amount, tasks, resizes>>

Joined ==
  /\ owner = "joining"
  /\ pc[everyone] = "exited"
  /\ everyone' = everyone - 1
  /\ owner' = "paused"
  /\ UNCHANGED <<semaphore, m_numberOfThreads, m_activeCount, m_pauseCount,
                 m_runningTaskCount, m_allPaused, m_paused, threads,
                 destroying, target, amount, tasks, resizes>>

OwnerStep ==
  \/ AddThread \/ RequestPause \/ SignalPause \/ ResizeDone
  \/ AllPaused \/ deleteWorker \/ Joined

-------------------------------------------------------------------------------
(* Worker::run. *)

\* The thread moves on to l.
Goto(w, l) == pc' = [pc EXCEPT ![w] = l]

Enter(w) ==
  /\ pc[w] = "enter"
  /\ m_activeCount' = m_activeCount + 1
  /\ Goto(w, IF m_activeCount' = 1 THEN "unpause" ELSE "wait")
  /\ UNCHANGED <<semaphore, m_numberOfThreads, m_pauseCount,
                 m_runningTaskCount, m_allPaused, m_paused, everyone,
                 wakeCount_, shouldExit_, callers>>

ClearAllPaused(w) ==
  /\ pc[w] = "unpause"
  /\ m_allPaused' = FALSE
  /\ Goto(w, "wait")
  /\ UNCHANGED <<semaphore, m_numberOfThreads, m_activeCount, m_pauseCount,
                 m_runningTaskCount, m_paused, everyone, wakeCount_,
                 shouldExit_, callers>>

Wait(w) ==
  /\ pc[w] = "wait"
  /\ semaphore > 0
  /\ semaphore' = semaphore - 1
  /\ Goto(w, "got")
  /\ UNCHANGED <<m_numberOfThreads, m_activeCount, m_pauseCount,
                 m_runningTaskCount, m_allPaused, m_paused, everyone,
                 wakeCount_, shouldExit_, callers>>

LoadPauseCount(w) ==
  /\ pc[w] = "got"
  /\ Goto(w, IF m_pauseCount > 0 THEN "decrement" ELSE "start")
  /\ UNCHANGED <<pool, wakeCount_, shouldExit_, callers>>

\* The thread pauses only while another request is left.
M_Decrement(w) ==
  /\ pc[w] = "decrement"
  /\ m_pauseCount' = m_pauseCount - 1
  /\ Goto(w, IF m_pauseCount' > 0 THEN "pause" ELSE "undo")
  /\ UNCHANGED <<semaphore, m_numberOfThreads, m_activeCount,
                 m_runningTaskCount, m_allPaused, m_paused, everyone,
                 wakeCount_, shouldExit_, callers>>

Decrement(w) ==
  /\ pc[w] = "decrement"
  /\ m_pauseCount' = m_pauseCount - 1
  /\ Goto(w, IF m_pauseCount' >= 0 THEN "pause" ELSE "undo")
  /\ UNCHANGED <<semaphore, m_numberOfThreads, m_activeCount,
                 m_runningTaskCount, m_allPaused, m_paused, everyone,
                 wakeCount_, shouldExit_, callers>>

\* The count is not put back.
M_Undo(w) ==
  /\ pc[w] = "undo"
  /\ Goto(w, "start")
  /\ UNCHANGED <<pool, wakeCount_, shouldExit_, callers>>

Undo(w) ==
  /\ pc[w] = "undo"
  /\ m_pauseCount' = m_pauseCount + 1
  /\ Goto(w, "start")
  /\ UNCHANGED <<semaphore, m_numberOfThreads, m_activeCount,
                 m_runningTaskCount, m_allPaused, m_paused, everyone,
                 wakeCount_, shouldExit_, callers>>

StartTask(w) ==
  /\ pc[w] = "start"
  /\ m_runningTaskCount' = m_runningTaskCount + 1
  /\ Goto(w, "task")
  /\ UNCHANGED <<semaphore, m_numberOfThreads, m_activeCount, m_pauseCount,
                 m_allPaused, m_paused, everyone, wakeCount_, shouldExit_,
                 callers>>

FinishTask(w) ==
  /\ pc[w] = "task"
  /\ m_runningTaskCount' = m_runningTaskCount - 1
  /\ Goto(w, "wait")
  /\ UNCHANGED <<semaphore, m_numberOfThreads, m_activeCount, m_pauseCount,
                 m_allPaused, m_paused, everyone, wakeCount_, shouldExit_,
                 callers>>

PushPaused(w) ==
  /\ pc[w] = "pause"
  /\ m_paused' = <<w>> \o m_paused
  /\ Goto(w, "leave")
  /\ UNCHANGED <<semaphore, m_numberOfThreads, m_activeCount, m_pauseCount,
                 m_runningTaskCount, m_allPaused, everyone, wakeCount_,
                 shouldExit_, callers>>

\* The count is compared before it is lowered.
M_Leave_Post(w) ==
  /\ pc[w] = "leave"
  /\ m_activeCount' = m_activeCount - 1
  /\ Goto(w, IF m_activeCount = 0 THEN "signal" ELSE "sleep")
  /\ UNCHANGED <<semaphore, m_numberOfThreads, m_pauseCount,
                 m_runningTaskCount, m_allPaused, m_paused, everyone,
                 wakeCount_, shouldExit_, callers>>

Leave(w) ==
  /\ pc[w] = "leave"
  /\ m_activeCount' = m_activeCount - 1
  /\ Goto(w, IF m_activeCount' = 0 THEN "signal" ELSE "sleep")
  /\ UNCHANGED <<semaphore, m_numberOfThreads, m_pauseCount,
                 m_runningTaskCount, m_allPaused, m_paused, everyone,
                 wakeCount_, shouldExit_, callers>>

SetAllPaused(w) ==
  /\ pc[w] = "signal"
  /\ m_allPaused' = TRUE
  /\ Goto(w, "sleep")
  /\ UNCHANGED <<semaphore, m_numberOfThreads, m_activeCount, m_pauseCount,
                 m_runningTaskCount, m_paused, everyone, wakeCount_,
                 shouldExit_, callers>>

Wake(w) ==
  /\ pc[w] = "sleep"
  /\ wakeCount_[w] > 0
  /\ wakeCount_' = [wakeCount_ EXCEPT ![w] = @ - 1]
  /\ Goto(w, IF shouldExit_[w] THEN "exited" ELSE "enter")
  /\ UNCHANGED <<pool, shouldExit_, callers>>

run(w) ==
  \/ Enter(w) \/ ClearAllPaused(w) \/ Wait(w) \/ LoadPauseCount(w)
  \/ Decrement(w) \/ Undo(w) \/ StartTask(w) \/ FinishTask(w)
  \/ PushPaused(w) \/ Leave(w) \/ SetAllPaused(w) \/ Wake(w)

-------------------------------------------------------------------------------
Next ==
  \/ addTask
  \/ \E n \in Worker \cup {0} : setNumberOfThreads(n)
  \/ Destroy
  \/ OwnerStep
  \/ \E w \in Worker : run(w)

\* A thread that can run does, and processTask returns; a condition variable
\* wakes some waiting thread, so one thread may wait at the semaphore for as
\* long as others take the tokens.
Fairness ==
  /\ WF_vars(OwnerStep)
  /\ \A w \in Worker : WF_vars(run(w))

Spec == Init /\ [][Next]_vars /\ Fairness
-------------------------------------------------------------------------------
(* Correctness. *)

Running == {"enter", "unpause", "wait", "got", "decrement", "undo", "start",
            "task", "pause", "leave", "signal", "sleep"}

\* Every variable has its type.
TypeOK ==
  /\ semaphore \in Nat
  /\ m_numberOfThreads \in 0..MaxWorkers
  /\ m_activeCount \in 0..MaxWorkers
  /\ m_pauseCount \in Int
  /\ m_runningTaskCount \in 0..MaxWorkers
  /\ m_allPaused \in BOOLEAN
  /\ m_paused \in Seq(Worker)
  /\ everyone \in 0..MaxWorkers
  /\ pc \in [Worker -> {"none", "exited"} \cup Running]
  /\ wakeCount_ \in [Worker -> Nat]
  /\ shouldExit_ \in [Worker -> BOOLEAN]
  /\ owner \in {"idle", "grow", "shrink", "signal", "waiting", "paused",
                "joining"}
  /\ destroying \in BOOLEAN
  /\ target \in 0..MaxWorkers
  /\ amount \in 0..MaxWorkers
  /\ tasks \in 0..MaxTasks
  /\ resizes \in 0..MaxResizes

\* Threads that are not paused and have not decided to.
Serving ==
  {w \in 1..everyone : pc[w] # "pause" /\ \A i \in DOMAIN m_paused : m_paused[i] # w}

\* What the calls made so far ask for.
Wanted ==
  CASE owner = "grow" -> target - amount
    [] owner = "shrink" -> target + amount
    [] owner = "signal" -> target + amount - 1
    [] OTHER -> m_numberOfThreads

\* However fast the owner takes threads away and adds them again, once the
\* requests to pause have been taken as many threads serve as it asked for: no
\* thread is lost on the stack of paused threads, woken twice or paused twice
\* (setNumberOfThreads, Worker::run).
ThreadsExact ==
  owner # "joining" /\ owner # "paused" =>
    Cardinality(Serving) - Outstanding = Wanted

\* Workers implements TaskPool: a call of processTask is made for each task
\* added and no other, although a thread cannot tell its token from another's
\* and may take a request to pause that is not there (Worker::run).
Pool == INSTANCE TaskPool
          WITH pending <- Unstarted, processing <- m_runningTaskCount
EachTaskOnce == Pool!Spec

\* Every task added is started, if the pool has a thread (Workers.h, addTask).
TasksStart == (Unstarted > 0 /\ m_numberOfThreads > 0) ~> (Unstarted = 0)

\* The destructor returns: every thread takes its request to pause, wakes up
\* and exits, whatever it was doing when the destructor was called.
DestructorReturns == destroying ~> (owner = "paused" /\ everyone = 0)
===============================================================================
