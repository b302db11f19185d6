-------------------------------- MODULE Server --------------------------------
(***************************************************************************)
(* The server: the job queue with the clients' path requests and the       *)
(* writer of stale validations on it, and the stop, which waits for the    *)
(* jobs, flushes the validations, waits for the sessions of the clients    *)
(* and then for the queue (app/main/Application.cpp, Stoppable.cpp).       *)
(***************************************************************************)
EXTENDS PathFinding, ValidationWriter

\* The jobs of the writer are added by the writer alone.
ASSUME ServerAssumption ==
  /\ JobType = {jtPACK, jtCLIENT, jtUPDATE_PF, jtADVANCE, jtVALIDATION, jtWRITE}
  /\ 0 \notin JobType
  /\ jtWRITE \notin {jtPACK, jtCLIENT, jtUPDATE_PF, jtADVANCE, jtVALIDATION}
  /\ jtCLIENT # jtADVANCE
  /\ \A p \in Plans :
       /\ p \in [clients : Nat, jobs : [JobType -> Nat], may : SUBSET STRING]
       /\ p.jobs[jtWRITE] = 0

vars == <<queue, nSuspend_, closures, stopping, pc, job, pathVars, writerVars>>

Init == InitQueue /\ InitPaths /\ InitWriter

\* Where a thread begins a job of type t.
Start ==
  [t \in JobType |->
     CASE t = jtCLIENT -> "resume"
       [] t = jtUPDATE_PF -> "updatePaths"
       [] t = jtADVANCE -> "publish"
       [] t = jtVALIDATION -> "validation"
       [] t = jtWRITE -> "staleWrite"
       [] t = jtPACK -> "destroy"]

-------------------------------------------------------------------------------
(* Jobs from the network, and time. *)

AddJob(t) ==
  /\ adder = 0
  /\ plan.jobs[t] > 0
  /\ plan' = [plan EXCEPT !.jobs[t] = @ - 1]
  /\ Wrap
  /\ adder' = t
  /\ UNCHANGED <<queue, nSuspend_, stopping, pc, job, co, m_server, paths,
                 master, locals, finishedTwice, writerVars>>

AddedJob ==
  /\ adder \in JobType
  /\ addRefCountedJob(adder, NoCoro)
  /\ adder' = 0
  /\ UNCHANGED <<nSuspend_, closures, stopping, pc, job, co, m_server, paths,
                 master, locals, plan, finishedTwice, writerVars>>

\* The last ledger grows old while the next is on its way.
GrowOld ==
  /\ age = "fresh"
  /\ "age" \in plan.may
  /\ plan.jobs[jtADVANCE] > 0
  /\ age' = "old"
  /\ UNCHANGED <<queue, nSuspend_, closures, stopping, pc, job, co, m_server,
                 paths, mPathFindThread, mPathFindNewRequest, mPathLedger,
                 mValidLedgerSeq, locals, env, finishedTwice, writerVars>>

-------------------------------------------------------------------------------
(* The stop of the server: RootStoppable::stop. *)

\* What the steps of the stop leave alone, but for the flush.
unstopped == <<queue, nSuspend_, closureCount_, pc, job, co, paths, master,
               locals, env, finishedTwice, writerVars>>

stop ==
  /\ stopper = "idle"
  /\ "stop" \in plan.may
  /\ m_calledStop' = TRUE
  /\ stopper' = "join"
  /\ UNCHANGED <<unstopped, waitForClosures_, m_childrenStopped,
                 m_is_stopping, m_stopped, m_server>>

\* ClosureCounter::join: from now on no job is added.
join ==
  /\ stopper = "join"
  /\ waitForClosures_' = TRUE
  /\ stopper' = "joining"
  /\ UNCHANGED <<unstopped, m_calledStop, m_childrenStopped, m_is_stopping,
                 m_stopped, m_server>>

\* stopAsyncRecursive goes on with the services below the application when
\* its onStop returns, which is after the flush.
stopAsyncRecursive ==
  /\ stopper = "flushed"
  /\ ~ staleWriting_
  /\ m_server' = "closed"
  /\ stopper' = "children"
  /\ UNCHANGED <<unstopped, waitForClosures_, m_calledStop,
                 m_childrenStopped, m_is_stopping, m_stopped>>

\* stopRecursive of the queue, when its children have stopped: the server of
\* the clients does when the last session is gone, and a coroutine keeps the
\* session it serves.
stopRecursive ==
  /\ stopper = "children"
  /\ \A c \in Coro : co[c] \in {"none", "done"}
  /\ m_childrenStopped' = TRUE
  /\ stopper' = "check"
  /\ UNCHANGED <<unstopped, waitForClosures_, m_calledStop, m_is_stopping,
                 m_stopped, m_server>>

onChildrenStopped ==
  /\ stopper = "check"
  /\ checkStopped(m_processCount, m_jobSet)
  /\ stopper' = "wait"
  /\ UNCHANGED <<unstopped, waitForClosures_, m_calledStop,
                 m_childrenStopped, m_stopped, m_server>>

Stopped ==
  /\ stopper = "wait"
  /\ m_is_stopping
  /\ m_stopped' = TRUE
  /\ stopper' = "stopped"
  /\ UNCHANGED <<unstopped, waitForClosures_, m_calledStop,
                 m_childrenStopped, m_is_stopping, m_server>>

StopStep ==
  \/ join
  \/ (flush \/ FlushWrite) /\ UNCHANGED pathVars
  \/ stopAsyncRecursive \/ stopRecursive \/ onChildrenStopped \/ Stopped

-------------------------------------------------------------------------------
processTask(w) ==
  \/ TakeTask(w) \/ getNextJob(w, Start) \/ DestroyJob(w) \/ finishJob(w)

Validate(w) ==
  \/ addValidation(w) \/ sweep(w) \/ onStale(w) \/ AddWrite(w)
  \/ doStaleWrite(w)

ThreadStep(w) ==
  \/ processTask(w) /\ UNCHANGED <<pathVars, writerVars>>
  \/ (Command(w) \/ FindPaths(w)) /\ UNCHANGED writerVars
  \/ Validate(w) /\ UNCHANGED pathVars

Next ==
  \/ \E c \in Coro : (CreateCoro(c) \/ Serve(c)) /\ UNCHANGED writerVars
  \/ \E w \in Thread : ThreadStep(w)
  \/ \E t \in JobType : AddJob(t)
  \/ AddedJob
  \/ GrowOld
  \/ stop
  \/ StopStep

\* Every thread that can go on does: jobs and lookups end, locks are handed
\* on.  The network delivers the ledgers it has announced; clients, new order
\* books and the operator owe nothing.  A subscript names variables each of
\* the steps changes one of.
Fairness ==
  /\ \A c \in Coro : WF_co(Serve(c) /\ UNCHANGED writerVars)
  /\ \A w \in Thread : WF_<<pc, handing>>(ThreadStep(w))
  /\ WF_adder(AddJob(jtADVANCE) \/ AddedJob)
  /\ WF_stopper(StopStep)

Spec == Init /\ [][Next]_vars /\ Fairness

-------------------------------------------------------------------------------
(* Correctness. *)

\* A thread is about to add a job to the queue.
Adding ==
  \/ \E c \in Coro : co[c] = "wrapped"
  \/ \E w \in Thread : pc[w] \in {"addPF", "postCoro", "addWrite"}
  \/ adder \in JobType

\* A job that was counted is added before the queue has stopped, although
\* its handler is counted under one lock and added under another (the
\* assertion in addRefCountedJob).
AddedBeforeStop == Adding => MayAdd

\* When the queue says that it has stopped nothing of it is left: no job
\* waits or runs, no task was given to the pool and no coroutine waits to be
\* resumed (checkStopped).
StoppedMeansDrained ==
  m_is_stopping =>
    /\ m_jobSet = {} /\ tasks = 0
    /\ \A w \in Thread : pc[w] = "idle"
    /\ \A c \in Coro : co[c] \in {"none", "done"}

\* Every job that waits is run in the end, whatever its priority and however
\* many jobs of its type were held back (queueJob's promise).
JobsRun == m_jobSet # {} ~> m_jobSet = {}

\* A client that waits for its paths is answered: the request is seen by a
\* thread although it is added, announced, looked for and removed under
\* three locks.  The server may be stopped first, and a request whose update
\* throws is never looked at again.
RequestAnswered ==
  \A c \in Coro :
    co[c] = "waiting" ~> (co[c] # "waiting" \/ m_calledStop \/ c \in thrown)

\* The server stops, unless a client still waits for its paths when the last
\* job ends, or its coroutine was resumed after its end: a coroutine whose
\* request is answered while the queue takes no more jobs runs to its end
\* (RipplePathFind, ClosureCounter::join, checkStopped).
StopsUnlessWaiting ==
  m_calledStop ~>
    \/ m_stopped
    \/ finishedTwice
    \/ /\ waitForClosures_ /\ closureCount_ = 0
       /\ \E c \in fCompletion : co[c] = "waiting"

\* The server stops when it is told to (JobQueue.h: suspended coroutines are
\* resumed and run to their end; when the queue stops it waits for them).
StopCompletes == m_calledStop ~> m_stopped
===============================================================================
