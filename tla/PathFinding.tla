------------------------------ MODULE PathFinding ------------------------------
(***************************************************************************)
(* Path finding for clients, on the job queue, while the server runs and   *)
(* when it is stopped.  A command of a client (rpc/impl/ServerHandlerImp)  *)
(* runs in a coroutine; ripple_path_find (rpc/handlers/RipplePathFind)     *)
(* leaves a request with PathRequests (app/paths), asks LedgerMaster for   *)
(* a job that works on the requests and yields.  That job resumes the      *)
(* coroutine when it has answered its request.                             *)
(*                                                                         *)
(* A coroutine has one request, so a request is named by its coroutine.    *)
(***************************************************************************)
EXTENDS JobQueue, Sequences

CONSTANTS
  jtPACK, jtCLIENT, jtUPDATE_PF, jtADVANCE,    \* the job types
  Plans         \* what the environment may bring: see plan

VARIABLES
  \* ServerHandler and its coroutines
  co,                   \* the state of a coroutine
  m_server,             \* "open", or "closed" by onStop
  \* PathRequests
  requests_,            \* the requests, in the order of their creation
  held,                 \* requests the coroutine still refers to
  mInProgress,          \* requests some thread works on
  fCompletion,          \* requests whose coroutine is to be resumed
  thrown,               \* requests whose update met a missing node
  \* LedgerMaster
  mPathFindThread,
  mPathFindNewRequest,
  mPathLedger,          \* the ledger of the last full pass, 0: none
  mValidLedgerSeq,      \* 0: no validated ledger
  age,                  \* of the ledger that is published last
  \* updateAll, per thread
  todo,                 \* the requests of this pass that are left
  newRequests,
  \* the environment
  plan,                 \* jobs the network may still add per type, and
                        \* whether nodes may be missing
  adder,                \* the type of the job being added, 0: none
  finishedTwice         \* a coroutine was resumed after its end

paths == <<requests_, held, mInProgress, fCompletion, thrown>>
master == <<mPathFindThread, mPathFindNewRequest, mPathLedger,
            mValidLedgerSeq, age>>
locals == <<todo, newRequests>>
env == <<plan, adder>>
pathVars == <<co, m_server, paths, master, locals, env, finishedTwice>>

InitPaths ==
  /\ co = [c \in Coro |-> "none"]
  /\ m_server = "open"
  /\ requests_ = << >>
  /\ held = {}
  /\ mInProgress = {}
  /\ fCompletion = {}
  /\ thrown = {}
  /\ mPathFindThread = 0
  /\ mPathFindNewRequest = FALSE
  /\ mPathLedger = 0
  /\ todo = [w \in Thread |-> << >>]
  /\ newRequests = [w \in Thread |-> FALSE]
  /\ plan \in Plans
  /\ age = IF "sync" \in plan.may THEN "fresh" ELSE "needed"
  /\ mValidLedgerSeq = IF "sync" \in plan.may THEN 1 ELSE 0
  /\ adder = 0
  /\ finishedTwice = FALSE

\* The coroutine the thread resumes: its job's, or that of the request whose
\* completion it calls.
CoroOf(w) ==
  IF job[w].type = jtCLIENT THEN job[w].coro ELSE Head(todo[w])

\* Where the thread goes on when the coroutine yields or ends.
AfterCoro(w) == IF job[w].type = jtCLIENT THEN "destroy" ELSE "completed"

\* LedgerMaster's mutex is free: it is held while newPFWork adds a job.
MasterFree == \A v \in Thread : pc[v] \notin {"addPF", "answerPF"}

\* The request's index lock is free: updateComplete holds it while it calls
\* the completion.
IndexFree(c) ==
  \A v \in Thread :
    ~ (/\ todo[v] # << >>
       /\ Head(todo[v]) = c
       /\ pc[v] \in {"postCoro", "resume", "enter", "status",
                     "completed"})

\* The request exists: its coroutine or a thread that works on it refers to it.
Alive(c) ==
  \/ c \in held
  \/ \E v \in Thread :
       /\ todo[v] # << >>
       /\ Head(todo[v]) = c
       /\ pc[v] \in {"update", "postCoro", "resume", "enter",
                     "status", "completed", "remove"}

-------------------------------------------------------------------------------
(* A client's command: postCoro, on a thread of the server. *)

\* The constructor of Coro runs the coroutine up to its first yield.  The
\* coroutines are numbered in the order of their creation.
CreateCoro(c) ==
  /\ m_server = "open"
  /\ co[c] = "none"
  /\ c \in 1..plan.clients
  /\ \A d \in 1..(c - 1) : co[d] # "none"
  /\ co' = [co EXCEPT ![c] = "created"]
  /\ nSuspend_' = nSuspend_ + 1
  /\ UNCHANGED <<queue, closures, stopping, pc, job, m_server, paths, master,
                 locals, env, finishedTwice>>

PostNew(c) ==
  /\ co[c] = "created"
  /\ \/ Wrap /\ co' = [co EXCEPT ![c] = "wrapped"]
     \/ WrapFails /\ co' = [co EXCEPT ![c] = "refused"]
  /\ UNCHANGED <<queue, nSuspend_, stopping, pc, job, m_server, paths, master,
                 locals, env, finishedTwice>>

AddNew(c) ==
  /\ co[c] = "wrapped"
  /\ addRefCountedJob(jtCLIENT, c)
  /\ co' = [co EXCEPT ![c] = "fresh"]
  /\ UNCHANGED <<nSuspend_, closures, stopping, pc, job, m_server, paths,
                 master, locals, env, finishedTwice>>

\* The coroutine was not posted: it is destroyed and the session closed.
expectEarlyExit(c) ==
  /\ co[c] = "refused"
  /\ nSuspend_' = nSuspend_ - 1
  /\ co' = [co EXCEPT ![c] = "done"]
  /\ UNCHANGED <<queue, closures, stopping, pc, job, m_server, paths, master,
                 locals, env, finishedTwice>>

Serve(c) == PostNew(c) \/ AddNew(c) \/ expectEarlyExit(c)

-------------------------------------------------------------------------------
(* Coro::resume and the command, on a thread of the pool. *)

resume(w) ==
  /\ pc[w] = "resume"
  /\ nSuspend_' = nSuspend_ - 1
  /\ Goto(w, "enter")
  /\ UNCHANGED <<queue, closures, stopping, job, co, m_server, paths, master,
                 locals, env, finishedTwice>>

\* With the coroutine's mutex, which is held as long as the coroutine runs.
EnterCoro(w) ==
  LET c == CoroOf(w) IN
  /\ pc[w] = "enter"
  /\ \/ /\ co[c] = "fresh"
        /\ Goto(w, "command")
        /\ co' = [co EXCEPT ![c] = "running"]
        /\ UNCHANGED finishedTwice
     \/ /\ co[c] = "waiting"
        /\ Goto(w, "status")
        /\ co' = [co EXCEPT ![c] = "running"]
        /\ UNCHANGED finishedTwice
     \/ /\ co[c] = "done"
        /\ Goto(w, AfterCoro(w))
        /\ finishedTwice' = TRUE
        /\ UNCHANGED co
  /\ UNCHANGED <<queue, nSuspend_, closures, stopping, job, m_server, paths,
                 master, locals, env>>

\* makeLegacyPathRequest leaves the request, unless the last ledger is old.
insertPathRequest(w) ==
  LET c == job[w].coro IN
  /\ pc[w] = "command"
  /\ age = "fresh"
  /\ \A i \in DOMAIN requests_ : Alive(requests_[i]) => IndexFree(requests_[i])
  /\ requests_' = Append(requests_, c)
  /\ held' = held \cup {c}
  /\ fCompletion' = fCompletion \cup {c}
  /\ Goto(w, "newPFWork")
  /\ UNCHANGED <<queue, nSuspend_, closures, stopping, job, co, m_server,
                 mInProgress, thrown, master, locals, env, finishedTwice>>

\* Any other command, or one that is refused at once.
OtherCommand(w) ==
  /\ pc[w] = "command"
  /\ Goto(w, "status")
  /\ UNCHANGED <<queue, nSuspend_, closures, stopping, job, co, m_server,
                 paths, master, locals, env, finishedTwice>>

yield(w) ==
  /\ pc[w] = "yield"
  /\ nSuspend_' = nSuspend_ + 1
  /\ co' = [co EXCEPT ![job[w].coro] = "waiting"]
  /\ Goto(w, "destroy")
  /\ UNCHANGED <<queue, closures, stopping, job, m_server, paths, master,
                 locals, env, finishedTwice>>

\* The command replies and the coroutine ends.
EndCoro(w) ==
  LET c == CoroOf(w) IN
  /\ pc[w] = "status"
  /\ held' = held \ {c}
  /\ co' = [co EXCEPT ![c] = "done"]
  /\ Goto(w, AfterCoro(w))
  /\ UNCHANGED <<queue, nSuspend_, closures, stopping, job, m_server,
                 requests_, mInProgress, fCompletion, thrown, master, locals,
                 env, finishedTwice>>
-------------------------------------------------------------------------------
(* LedgerMaster: who needs path finding, and the job that does it. *)

\* newPFWork, under the mutex: at most two jobs are wanted at a time.
newPFWork(w) ==
  /\ pc[w] = "newPFWork"
  /\ MasterFree
  /\ \/ /\ mPathFindThread < 2
        /\ Wrap
        /\ Goto(w, "addPF")
     \/ /\ mPathFindThread < 2
        /\ WrapFails
        /\ Goto(w, "answerPF")
     \/ /\ mPathFindThread >= 2
        /\ Goto(w, "answerPF")
        /\ UNCHANGED closures
  /\ UNCHANGED <<queue, nSuspend_, stopping, job, co, m_server, paths, master,
                 locals, env, finishedTwice>>

AddPF(w) ==
  /\ pc[w] = "addPF"
  /\ addRefCountedJob(jtUPDATE_PF, NoCoro)
  /\ mPathFindThread' = mPathFindThread + 1
  /\ Goto(w, "answerPF")
  /\ UNCHANGED <<nSuspend_, closures, stopping, job, co, m_server, paths,
                 mPathFindNewRequest, mPathLedger, mValidLedgerSeq, age,
                 locals, env, finishedTwice>>

\* The result of newPFWork.  newPathRequest records it, and when it is false
\* the command gives its request up and ends without yielding.
AnswerPF(w) ==
  LET c == job[w].coro
      ok == mPathFindThread > 0 /\ ~ m_calledStop IN
  /\ pc[w] = "answerPF"
  /\ \/ /\ job[w].type = jtCLIENT
        /\ mPathFindNewRequest' = ok
        /\ held' = IF ok THEN held ELSE held \ {c}
        /\ Goto(w, IF ok THEN "yield" ELSE "status")
     \/ /\ job[w].type = jtADVANCE
        /\ Goto(w, "destroy")
        /\ UNCHANGED <<mPathFindNewRequest, held>>
  /\ UNCHANGED <<queue, nSuspend_, closures, stopping, job, co, m_server,
                 requests_, mInProgress, fCompletion, thrown, mPathFindThread,
                 mPathLedger, mValidLedgerSeq, age, locals, env, finishedTwice>>

\* The end of doAdvance: a ledger is published, which ends the wait for one
\* from the network.
Publish(w) ==
  /\ pc[w] = "publish"
  /\ MasterFree
  /\ mValidLedgerSeq' = mValidLedgerSeq + 1
  /\ age' = "fresh"
  /\ Goto(w, "newPFWork")
  /\ UNCHANGED <<queue, nSuspend_, closures, stopping, job, co, m_server,
                 paths, mPathFindThread, mPathFindNewRequest, mPathLedger,
                 locals, env, finishedTwice>>

\* newOrderBookDB, called by a job that has read the order books anew.
newOrderBookDB(w) ==
  /\ pc[w] = "publish"
  /\ age # "old"
  /\ "books" \in plan.may
  /\ MasterFree
  /\ mPathLedger' = 0
  /\ Goto(w, "newPFWork")
  /\ UNCHANGED <<queue, nSuspend_, closures, stopping, job, co, m_server,
                 paths, mPathFindThread, mPathFindNewRequest, mValidLedgerSeq,
                 age, locals, env, finishedTwice>>

\* The job of updatePaths ends and is no longer counted.
LeavePF(w) ==
  /\ mPathFindThread' = mPathFindThread - 1
  /\ Goto(w, "destroy")
  /\ UNCHANGED <<mPathFindNewRequest, mPathLedger, mValidLedgerSeq, age>>

updatePaths(w) ==
  /\ pc[w] = "updatePaths"
  /\ MasterFree
  /\ \/ age = "needed" /\ LeavePF(w)
     \/ age # "needed" /\ Goto(w, "loop") /\ UNCHANGED master
  /\ UNCHANGED <<queue, nSuspend_, closures, stopping, job, co, m_server,
                 paths, locals, env, finishedTwice>>

\* A new request is left for the next ledger.
M_ChooseLedger(w) ==
  /\ pc[w] = "loop"
  /\ ~ m_calledStop
  /\ MasterFree
  /\ \/ /\ mValidLedgerSeq > 0
        /\ mPathLedger # mValidLedgerSeq
        /\ mPathLedger' = mValidLedgerSeq
        /\ Goto(w, "age")
        /\ UNCHANGED <<mPathFindThread, mPathFindNewRequest, mValidLedgerSeq,
                       age>>
     \/ /\ mValidLedgerSeq = 0 \/ mPathLedger = mValidLedgerSeq
        /\ LeavePF(w)
  /\ UNCHANGED <<queue, nSuspend_, closures, stopping, job, co, m_server,
                 paths, locals, env, finishedTwice>>

\* The loop of a job that is not cancelled: there is a new validated ledger,
\* or a new request, or nothing to do.
ChooseLedger(w) ==
  /\ pc[w] = "loop"
  /\ ~ m_calledStop
  /\ MasterFree
  /\ \/ /\ mValidLedgerSeq > 0
        /\ mPathLedger # mValidLedgerSeq
        /\ mPathLedger' = mValidLedgerSeq
        /\ Goto(w, "age")
        /\ UNCHANGED <<mPathFindThread, mPathFindNewRequest, mValidLedgerSeq,
                       age>>
     \/ /\ mValidLedgerSeq = 0 \/ mPathLedger = mValidLedgerSeq
        /\ mPathFindNewRequest
        /\ Goto(w, "age")
        /\ UNCHANGED master
     \/ /\ mValidLedgerSeq = 0 \/ mPathLedger = mValidLedgerSeq
        /\ ~ mPathFindNewRequest
        /\ LeavePF(w)
  /\ UNCHANGED <<queue, nSuspend_, closures, stopping, job, co, m_server,
                 paths, locals, env, finishedTwice>>

\* A job that is cancelled ends at once.
CancelPF(w) ==
  /\ pc[w] = "loop"
  /\ m_calledStop
  /\ Goto(w, "destroy")
  /\ UNCHANGED <<queue, nSuspend_, closures, stopping, job, co, m_server,
                 paths, master, locals, env, finishedTwice>>

\* No paths are looked for in a ledger that is more than a minute old.
CheckAge(w) ==
  /\ pc[w] = "age"
  /\ \/ age = "old" /\ MasterFree /\ LeavePF(w)
     \/ age # "old" /\ Goto(w, "updateAll") /\ UNCHANGED master
  /\ UNCHANGED <<queue, nSuspend_, closures, stopping, job, co, m_server,
                 paths, locals, env, finishedTwice>>

-------------------------------------------------------------------------------
(* PathRequests::updateAll. *)

\* The copy of the requests, under the lock of PathRequests.
updateAll(w) ==
  /\ pc[w] = "updateAll"
  /\ todo' = [todo EXCEPT ![w] = requests_]
  /\ Goto(w, "isNew")
  /\ UNCHANGED <<queue, nSuspend_, closures, stopping, job, co, m_server,
                 paths, master, newRequests, env, finishedTwice>>

\* isNewPathRequest: the flag is read and reset under LedgerMaster's mutex.
isNewPathRequest(w) ==
  /\ MasterFree
  /\ newRequests' = [newRequests EXCEPT ![w] = mPathFindNewRequest]
  /\ mPathFindNewRequest' = FALSE
  /\ UNCHANGED <<mPathFindThread, mPathLedger, mValidLedgerSeq, age>>

FirstIsNew(w) ==
  /\ pc[w] = "isNew"
  /\ isNewPathRequest(w)
  /\ Goto(w, "pick")
  /\ UNCHANGED <<queue, nSuspend_, closures, stopping, job, co, m_server,
                 paths, todo, env, finishedTwice>>

\* The next request of the pass: needsUpdate claims it, unless another thread
\* works on it; one that has been answered needs no update.
Pick(w) ==
  LET c == Head(todo[w]) IN
  /\ pc[w] = "pick"
  /\ todo[w] # << >> /\ ~ m_calledStop
  /\ \/ /\ ~ Alive(c)
        /\ Goto(w, "remove")
        /\ UNCHANGED mInProgress
     \/ /\ Alive(c) /\ IndexFree(c)
        /\ c \in mInProgress
        /\ Goto(w, "next")
        /\ UNCHANGED mInProgress
     \/ /\ Alive(c) /\ IndexFree(c)
        /\ c \notin mInProgress
        /\ mInProgress' = mInProgress \cup {c}
        /\ Goto(w, IF c \in fCompletion THEN "update" ELSE "remove")
  /\ UNCHANGED <<queue, nSuspend_, closures, stopping, job, co, m_server,
                 requests_, held, fCompletion, thrown, master, locals, env, finishedTwice>>

\* The locals of updateAll go when it returns.
LeaveUpdateAll(w) ==
  /\ todo' = [todo EXCEPT ![w] = << >>]
  /\ newRequests' = [newRequests EXCEPT ![w] = FALSE]
  /\ Goto(w, "loop")

\* doUpdate throws: updatePaths catches it and goes on with its loop.
MissingNode(w) ==
  /\ pc[w] = "update"
  /\ "miss" \in plan.may
  /\ thrown' = thrown \cup {Head(todo[w])}
  /\ LeaveUpdateAll(w)
  /\ UNCHANGED <<queue, nSuspend_, closures, stopping, job, co, m_server,
                 requests_, held, mInProgress, fCompletion, master, env, finishedTwice>>

\* A coroutine that cannot be posted is not resumed.
M_updateComplete(w) ==
  /\ pc[w] = "update"
  /\ \/ Wrap /\ Goto(w, "postCoro")
     \/ WrapFails /\ Goto(w, "completed")
  /\ UNCHANGED <<queue, nSuspend_, stopping, job, co, m_server, paths, master,
                 locals, env, finishedTwice>>

\* doUpdate returns and updateComplete calls the completion: the coroutine is
\* posted, or resumed here and now if the queue takes no more jobs.
updateComplete(w) ==
  /\ pc[w] = "update"
  /\ \/ Wrap /\ Goto(w, "postCoro")
     \/ WrapFails /\ Goto(w, "resume")
  /\ UNCHANGED <<queue, nSuspend_, stopping, job, co, m_server, paths, master,
                 locals, env, finishedTwice>>

PostCoro(w) ==
  /\ pc[w] = "postCoro"
  /\ addRefCountedJob(jtCLIENT, Head(todo[w]))
  /\ Goto(w, "completed")
  /\ UNCHANGED <<nSuspend_, closures, stopping, job, co, m_server, paths,
                 master, locals, env, finishedTwice>>

Completed(w) ==
  LET c == Head(todo[w]) IN
  /\ pc[w] = "completed"
  /\ mInProgress' = mInProgress \ {c}
  /\ fCompletion' = fCompletion \ {c}
  /\ Goto(w, "remove")
  /\ UNCHANGED <<queue, nSuspend_, closures, stopping, job, co, m_server,
                 requests_, held, thrown, master, locals, env, finishedTwice>>

\* The request and those that no longer exist are removed.
Remove(w) ==
  LET c == Head(todo[w])
      Keep(r) == r # c /\ Alive(r) IN
  /\ pc[w] = "remove"
  /\ requests_' = SelectSeq(requests_, Keep)
  /\ Goto(w, "next")
  /\ UNCHANGED <<queue, nSuspend_, closures, stopping, job, co, m_server,
                 held, mInProgress, fCompletion, thrown, master, locals, env, finishedTwice>>

\* The end of an iteration: a pass over all the requests is broken off when a
\* new one has come in.
NextRequest(w) ==
  /\ pc[w] = "next"
  /\ \/ /\ newRequests[w]
        /\ Goto(w, "pick")
        /\ todo' = [todo EXCEPT ![w] = Tail(@)]
        /\ UNCHANGED <<newRequests, master>>
     \/ /\ ~ newRequests[w]
        /\ isNewPathRequest(w)
        /\ Goto(w, IF mPathFindNewRequest THEN "refresh" ELSE "pick")
        /\ todo' = [todo EXCEPT ![w] = IF mPathFindNewRequest THEN << >>
                                       ELSE Tail(@)]
  /\ UNCHANGED <<queue, nSuspend_, closures, stopping, job, co, m_server,
                 paths, env, finishedTwice>>

\* The end of a pass, at its last request or because the job is cancelled.
\* After a pass for the new requests there is always another.
PassDone(w) ==
  /\ pc[w] = "pick"
  /\ todo[w] = << >> \/ m_calledStop
  /\ \/ /\ newRequests[w] \/ mPathFindNewRequest
        /\ isNewPathRequest(w)
        /\ todo' = [todo EXCEPT ![w] = << >>]
        /\ Goto(w, "refresh")
     \/ /\ ~ newRequests[w] /\ ~ mPathFindNewRequest
        /\ MasterFree
        /\ LeaveUpdateAll(w)
        /\ UNCHANGED master
  /\ UNCHANGED <<queue, nSuspend_, closures, stopping, job, co, m_server,
                 paths, env, finishedTwice>>

\* The requests for the next pass, if there are any and the job goes on.
Refresh(w) ==
  /\ pc[w] = "refresh"
  /\ \/ /\ requests_ = << >> \/ m_calledStop
        /\ LeaveUpdateAll(w)
     \/ /\ requests_ # << >> /\ ~ m_calledStop
        /\ todo' = [todo EXCEPT ![w] = requests_]
        /\ Goto(w, "pick")
        /\ UNCHANGED newRequests
  /\ UNCHANGED <<queue, nSuspend_, closures, stopping, job, co, m_server,
                 paths, master, env, finishedTwice>>

-------------------------------------------------------------------------------
Command(w) ==
  \/ resume(w) \/ EnterCoro(w) \/ insertPathRequest(w) \/ OtherCommand(w)
  \/ newPFWork(w) \/ AddPF(w) \/ AnswerPF(w) \/ yield(w) \/ EndCoro(w)
  \/ Publish(w) \/ newOrderBookDB(w)

FindPaths(w) ==
  \/ updatePaths(w) \/ CancelPF(w) \/ ChooseLedger(w) \/ CheckAge(w)
  \/ updateAll(w) \/ FirstIsNew(w) \/ Pick(w)
  \/ MissingNode(w) \/ updateComplete(w) \/ PostCoro(w) \/ Completed(w)
  \/ Remove(w) \/ NextRequest(w) \/ PassDone(w) \/ Refresh(w)
===============================================================================
