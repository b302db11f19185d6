------------------------------ MODULE ServerJobs ------------------------------
(***************************************************************************)
(* The invariant of module Server, for every number of threads and         *)
(* coroutines, every limit of the job types and every plan, and its first  *)
(* layers.                                                                 *)
(*                                                                         *)
(* The invariant has five layers, each proved with the help of those       *)
(* before it: the types and the commands; the jobs and the tasks (a queued *)
(* task has a job that waits for it); the counter of jobs in flight (it is *)
(* the number of those who will leave it); the phases of the stop; the     *)
(* places of the validations and their writer.  The first three are proved *)
(* here, the jobs before the types and commands; the last two are proved   *)
(* in ServerProofs.                                                        *)
(***************************************************************************)
EXTENDS Server, FiniteSetTheorems, TLAPS

-------------------------------------------------------------------------------
(* Where threads, coroutines and the stop may be. *)

\* A thread without a job.
NoWork == {"idle", "take"}

\* A thread whose job is not counted.
Outside == NoWork \cup {"finish"}

\* A thread that has counted a job and not yet added it.
AddLabel == {"addPF", "postCoro", "addWrite"}

WriteLabel == {"staleWrite", "storing"}

StoreLabel == {"validation", "onStale"}

PathLabel == {"destroy", "resume", "enter", "command", "newPFWork", "answerPF",
              "yield", "status", "publish", "updatePaths", "loop", "age",
              "updateAll", "isNew", "pick", "update", "completed", "remove",
              "next", "refresh"}

\* A thread that does its job and has no other to add.
Plain == PathLabel \cup StoreLabel \cup WriteLabel

InJob == Plain \cup AddLabel

Label == InJob \cup Outside

\* A coroutine that is not in the queue yet.
Early == {"none", "created", "wrapped", "refused"}

CoState == Early \cup {"fresh", "running", "waiting", "done"}

\* The services below the queue have stopped.
LastPhase == {"check", "wait", "stopped"}

ClosedPhase == LastPhase \cup {"children"}

\* The stop has found no job in flight.
DrainPhase == ClosedPhase \cup {"flushing", "storing", "flushed"}

StopPhase == DrainPhase \cup {"idle", "join", "joining"}

-------------------------------------------------------------------------------
(* The layers of the invariant. *)

JobOK(j) ==
  /\ j.type \in JobType
  /\ j.index \in Nat
  /\ j.type # jtCLIENT => j.coro = NoCoro

JobData == [waiting : Int, running : Int, deferred : Int]

QueueData ==
  /\ tasks \in Nat
  /\ m_lastJob \in Nat
  /\ IsFiniteSet(m_jobSet)
  /\ \A j \in m_jobSet : JobOK(j) /\ j.index <= m_lastJob
  /\ m_jobData \in [JobType -> JobData]
  /\ m_processCount \in Int

QueueTypes ==
  /\ QueueData
  /\ closureCount_ \in Int
  /\ waitForClosures_ \in BOOLEAN
  /\ m_childrenStopped \in BOOLEAN
  /\ m_is_stopping \in BOOLEAN
  /\ m_stopped \in BOOLEAN
  /\ stopper \in StopPhase
  /\ pc \in [Thread -> Label]
  /\ DOMAIN job = Thread
  /\ \A w \in Thread : pc[w] \notin NoWork => JobOK(job[w])

PathTypes ==
  /\ co \in [Coro -> CoState]
  /\ m_server \in {"open", "closed"}
  /\ DOMAIN todo = Thread
  /\ adder \in JobType \cup {0}
  /\ adder # jtWRITE
  /\ plan \in [clients : Nat, jobs : [JobType -> Nat], may : SUBSET STRING]
  /\ plan.jobs[jtWRITE] = 0

WriterTypes ==
  /\ handing \in [Thread -> SUBSET arrived]
  /\ currentStale \in [Writer -> SUBSET arrived]
  /\ current_ \subseteq arrived
  /\ staleValidations_ \subseteq arrived
  /\ database \subseteq arrived
  /\ staleWriting_ \in BOOLEAN
  /\ anyNew \in BOOLEAN
  /\ \E n \in Nat : arrived = 1..n

ServerTypes == QueueTypes /\ PathTypes /\ WriterTypes

\* The coroutine was posted before.
Begun(c) == c \in Coro => co[c] \notin Early

\* The thread runs the command of a coroutine that was posted.
OwnCommand(w) ==
  /\ pc[w] = "publish" => job[w].type # jtCLIENT
  /\ pc[w] \in {"command", "newPFWork", "addPF", "answerPF", "yield"}
       => Begun(job[w].coro)
  /\ pc[w] \in {"command", "status"} => Begun(CoroOf(w))

CommandInv == \A w \in Thread : OwnCommand(w)

\* The members of f's domain that are somewhere in S, and how many they are.
At(f, S) == {x \in DOMAIN f : f[x] \in S}

Count(f, S) == Cardinality(At(f, S))

\* g is f, but for x.
OneMoves(f, g, x) ==
  /\ IsFiniteSet(DOMAIN f) /\ DOMAIN g = DOMAIN f /\ x \in DOMAIN f
  /\ \A y \in DOMAIN f : y # x => g[y] = f[y]

JobsOf(t) == {j \in m_jobSet : j.type = t}

\* One slot for each job that waits and is not held back.
Slots(free) ==
  {s \in JobType \X Nat : 1 <= s[2] /\ s[2] <= free[s[1]]}

Free == [t \in JobType |-> m_jobData[t].waiting - m_jobData[t].deferred]

\* The counters d of a type with n jobs in the set and at most l at a time:
\* jobs are held back only at the limit.
DataOK(d, n, l) ==
  /\ d.waiting = n
  /\ 0 <= d.deferred
  /\ d.deferred <= d.waiting
  /\ d.waiting + d.running - d.deferred <= l
  /\ d.deferred > 0 => d.waiting + d.running - d.deferred = l

DataInv ==
  \A t \in JobType : DataOK(m_jobData[t], Cardinality(JobsOf(t)), JobLimit[t])

\* The tasks are as many as the jobs that are not held back.
TaskInv ==
  /\ IsFiniteSet(Slots(Free))
  /\ tasks + Count(pc, {"take"}) = Cardinality(Slots(Free))

QueueInv == DataInv /\ TaskInv

\* A thread in its job or at the end of it.
Working == InJob \cup {"finish"}

AdderCount == IF adder = 0 THEN 0 ELSE 1

\* The counter is exact.
CounterInv ==
  /\ closureCount_ = Count(co, {"wrapped"}) + Count(pc, InJob)
                       + Count(pc, AddLabel) + Cardinality(m_jobSet)
                       + AdderCount
  /\ m_processCount = Count(pc, Working)

StopInv ==
  /\ waitForClosures_ <=> stopper \notin {"idle", "join"}
  /\ stopper \in DrainPhase => closureCount_ = 0
  /\ stopper \in ClosedPhase => m_server = "closed"
  /\ m_childrenStopped <=> stopper \in LastPhase
  /\ m_childrenStopped => \A c \in Coro : co[c] \in {"none", "done"}
  /\ m_is_stopping => m_childrenStopped /\ m_processCount = 0
  /\ m_stopped => m_is_stopping

\* Every validation has its place, and one only.
PlaceInv ==
  /\ \A v \in arrived :
       \/ v \in current_ \cup staleValidations_ \cup database
       \/ \E w \in Thread : v \in handing[w]
       \/ \E w \in Writer : v \in currentStale[w]
  /\ current_ \cap staleValidations_ = {}
  /\ current_ \cap database = {}
  /\ staleValidations_ \cap database = {}
  /\ \A w \in Thread :
       /\ handing[w] \cap (current_ \cup staleValidations_ \cup database) = {}
       /\ \A u \in Writer : handing[w] \cap currentStale[u] = {}
       /\ \A u \in Thread : u # w => handing[u] = {} \/ handing[w] = {}
       /\ pc[w] \notin {"onStale", "addWrite"} => handing[w] = {}
       /\ pc[w] # "storing" => currentStale[w] = {}
  /\ \A w \in Writer :
       /\ currentStale[w]
            \cap (current_ \cup staleValidations_ \cup database) = {}
       /\ \A u \in Writer : u # w => currentStale[u] \cap currentStale[w] = {}
  /\ stopper # "storing" => currentStale[0] = {}

WritingCount == IF staleWriting_ THEN 1 ELSE 0

WriterInv ==
  /\ Writers = WritingCount
  /\ \A u, w \in Thread : pc[u] = "addWrite" /\ pc[w] = "addWrite" => u = w
  /\ \A w \in Thread : pc[w] = "addWrite" => ~ staleWriting_
  /\ staleValidations_ # {} =>
       staleWriting_ \/ ~ StaleFree \/ waitForClosures_
  /\ stopper \in DrainPhase => current_ = {}
  /\ stopper \in ClosedPhase \cup {"flushed"} /\ anyNew
       => staleValidations_ = {}

-------------------------------------------------------------------------------
(* The steps, as the queue and the counter see them. *)

GoesTo(w, L) == \E l \in L : pc' = [pc EXCEPT ![w] = l]

\* Coroutines that were posted stay so, the others are left alone.
CoroKept ==
  /\ co' \in [Coro -> CoState]
  /\ \A c \in Coro : IF co[c] \in Early THEN co'[c] = co[c]
                     ELSE co'[c] \notin Early

\* The thread goes on with its job.
Calm(w) ==
  /\ pc[w] \in Plain
  /\ GoesTo(w, Plain)
  /\ CoroKept
  /\ UNCHANGED <<queue, closures, stopping, job, m_server, env>>

\* The thread counts a job that it will add.
CountsJob(w) ==
  /\ pc[w] \in Plain
  /\ GoesTo(w, AddLabel)
  /\ Wrap
  /\ UNCHANGED <<queue, stopping, job, m_server, co, env>>

\* The thread adds the job it has counted.
AddsJob(w) ==
  /\ pc[w] \in AddLabel
  /\ GoesTo(w, Plain)
  /\ \E t \in JobType : \E c :
        (t # jtCLIENT => c = NoCoro) /\ addRefCountedJob(t, c)
  /\ UNCHANGED <<closures, stopping, job, m_server, co, env>>

\* A step of a command or of updatePaths is one of the three.
LEMMA UnchangedCoros ==
  ASSUME PathTypes, UNCHANGED co
  PROVE  CoroKept
BY DEF PathTypes, CoroKept, CoState

\* A step of a command of the jobs, a coroutine's or a recalculation's,
\* counts a job, adds a counted job, or leaves the queue alone.
LEMMA CommandSteps ==
  ASSUME ServerTypes, CommandInv, NEW w \in Thread, Command(w)
  PROVE  Calm(w) \/ CountsJob(w) \/ AddsJob(w)
<1> USE DEF ServerTypes, Goto, GoesTo
<1>0. UNCHANGED co => CoroKept
  BY UnchangedCoros, ZenonT(30)
<1>1. CASE resume(w) \/ OtherCommand(w) \/ insertPathRequest(w) \/ Publish(w)
           \/ newOrderBookDB(w)
  BY <1>0, <1>1 DEF Calm, resume, OtherCommand, insertPathRequest, Publish,
     newOrderBookDB, env, Plain, PathLabel
<1>2. CASE AnswerPF(w)
  BY <1>0, <1>2 DEF Calm, AnswerPF, env, Plain, PathLabel
<1>3. CASE newPFWork(w)
  BY <1>0, <1>3 DEF Calm, CountsJob, newPFWork, WrapFails, env, Plain, PathLabel,
     AddLabel
<1>4. CASE AddPF(w)
  <2> USE <1>4
  <2>1. addRefCountedJob(jtUPDATE_PF, NoCoro) /\ jtUPDATE_PF \in JobType
    BY ServerAssumption DEF AddPF
  <2> QED
    BY <2>1, Zenon DEF AddsJob, AddPF, env, Plain, PathLabel, AddLabel
<1>5. CASE EnterCoro(w)
  <2> USE <1>5
  <2>1. CoroKept
    BY DEF EnterCoro, CoroKept, PathTypes, CoState, Early
  <2>2. pc[w] \in Plain /\ GoesTo(w, Plain)
    BY DEF EnterCoro, AfterCoro, Plain, PathLabel
  <2> QED
    BY <2>1, <2>2, Zenon DEF Calm, EnterCoro, env
<1>6. CASE yield(w)
  <2> USE <1>6
  <2>1. Begun(job[w].coro)
    BY DEF CommandInv, OwnCommand, yield
  <2> USE Zenon
  <2>2. CoroKept
    BY <2>1 DEF yield, CoroKept, PathTypes, CoState, Early, Begun
  <2> QED
    BY <2>2 DEF Calm, yield, env, Plain, PathLabel
<1>7. CASE EndCoro(w)
  <2> USE <1>7
  <2>1. Begun(CoroOf(w))
    BY DEF CommandInv, OwnCommand, EndCoro
  <2> USE Zenon
  <2>2. CoroKept
    BY <2>1 DEF EndCoro, CoroKept, PathTypes, CoState, Early, Begun
  <2>3. pc[w] \in Plain /\ GoesTo(w, Plain)
    BY DEF EndCoro, AfterCoro, Plain, PathLabel
  <2> QED
    BY <2>2, <2>3 DEF Calm, EndCoro, env
<1> QED
  BY <1>1, <1>2, <1>3, <1>4, <1>5, <1>6, <1>7 DEF Command

\* So does a step of PathRequests' handler; the coroutines stay as they are.
LEMMA FindPathsSteps ==
  ASSUME ServerTypes, NEW w \in Thread, FindPaths(w)
  PROVE  (Calm(w) /\ UNCHANGED co) \/ CountsJob(w) \/ AddsJob(w)
<1> USE DEF ServerTypes, Goto, GoesTo
<1>0. UNCHANGED co => CoroKept
  BY UnchangedCoros, SMTT(30)
<1> USE <1>0
<1>1. CASE updatePaths(w) \/ CancelPF(w) \/ CheckAge(w) \/ updateAll(w)
           \/ FirstIsNew(w)
  BY <1>1 DEF Calm, updatePaths, CancelPF, CheckAge, updateAll, FirstIsNew,
     LeavePF, env, Plain, PathLabel
<1>2. CASE ChooseLedger(w)
  BY <1>2 DEF Calm, ChooseLedger, LeavePF, env, Plain, PathLabel
<1>3. CASE Pick(w)
  BY <1>3 DEF Calm, Pick, env, Plain, PathLabel
<1>4. CASE MissingNode(w) \/ Completed(w) \/ Remove(w)
  BY <1>4 DEF Calm, MissingNode, Completed, Remove, LeaveUpdateAll, env,
     Plain, PathLabel
<1>5. CASE NextRequest(w) \/ PassDone(w) \/ Refresh(w)
  BY <1>5 DEF Calm, NextRequest, PassDone, Refresh, LeaveUpdateAll, env,
     Plain, PathLabel
<1>6. CASE updateComplete(w)
  BY <1>6 DEF Calm, CountsJob, updateComplete, WrapFails, env, Plain,
     PathLabel, AddLabel
<1>7. CASE PostCoro(w)
  <2> USE <1>7
  <2>1. addRefCountedJob(jtCLIENT, Head(todo[w])) /\ jtCLIENT \in JobType
    BY ServerAssumption DEF PostCoro
  <2> QED
    BY <2>1, ZenonT(30) DEF AddsJob, PostCoro, env, Plain, PathLabel, AddLabel
<1> QED
  BY <1>1, <1>2, <1>3, <1>4, <1>5, <1>6, <1>7 DEF FindPaths

\* So does a step of the validation handler and of the writer it starts.
LEMMA ValidateSteps ==
  ASSUME ServerTypes, NEW w \in Thread, Validate(w), UNCHANGED pathVars
  PROVE  (Calm(w) /\ UNCHANGED co) \/ CountsJob(w) \/ AddsJob(w)
<1> USE DEF ServerTypes, Goto, GoesTo
<1>0. UNCHANGED <<co, m_server, env>> /\ CoroKept
  BY UnchangedCoros DEF pathVars
<1> USE <1>0
<1>1. CASE addValidation(w) \/ sweep(w) \/ doStaleWrite(w)
  BY <1>1 DEF Calm, addValidation, sweep, doStaleWrite, TakeBatch,
     NothingStale, WriteBatch, Plain, PathLabel, StoreLabel, WriteLabel
<1>2. CASE onStale(w)
  BY <1>2 DEF Calm, CountsJob, onStale, WrapFails, AfterStale, Plain,
     PathLabel, StoreLabel, AddLabel
<1>3. CASE AddWrite(w)
  <2> USE <1>3
  <2>1. addRefCountedJob(jtWRITE, NoCoro) /\ jtWRITE \in JobType
    BY ServerAssumption DEF AddWrite
  <2>2. pc[w] \in AddLabel /\ GoesTo(w, Plain)
    BY DEF AddWrite, AfterStale, Plain, PathLabel, StoreLabel, AddLabel
  <2> QED
    BY <2>1, <2>2, Zenon DEF AddsJob, AddWrite
<1> QED
  BY <1>1, <1>2, <1>3 DEF Validate

\* A step of a thread that is not one of processTask.
LEMMA ThreadSteps ==
  ASSUME ServerTypes, CommandInv, NEW w \in Thread, ThreadStep(w)
  PROVE  \/ processTask(w) /\ UNCHANGED <<pathVars, writerVars>>
         \/ Calm(w) \/ CountsJob(w) \/ AddsJob(w)
BY CommandSteps, FindPathsSteps, ValidateSteps DEF ThreadStep

\* The steps of the network and of the stop.
EnvironmentStep ==
  \/ \E t \in JobType : AddJob(t)
  \/ AddedJob
  \/ GrowOld
  \/ stop
  \/ StopStep

-------------------------------------------------------------------------------
(* Counting. *)

\* One member moves (a thread, a coroutine): the count of a kind changes by
\* its coming and going.
LEMMA CountMove ==
  ASSUME NEW f, NEW g, NEW x, OneMoves(f, g, x), NEW S
  PROVE  /\ Count(f, S) \in Nat
         /\ g[x] \in S /\ f[x] \in S => Count(g, S) = Count(f, S)
         /\ g[x] \notin S /\ f[x] \notin S => Count(g, S) = Count(f, S)
         /\ g[x] \in S /\ f[x] \notin S => Count(g, S) = Count(f, S) + 1
         /\ g[x] \notin S /\ f[x] \in S => Count(g, S) = Count(f, S) - 1
<1> USE DEF OneMoves
<1> DEFINE A == At(f, S) \ {x}
<1>1. IsFiniteSet(At(f, S)) /\ IsFiniteSet(A)
  <2>1. At(f, S) \subseteq DOMAIN f /\ A \subseteq DOMAIN f
    BY DEF At
  <2> QED
    BY <2>1, FS_Subset
<1>2. Cardinality(At(f, S)) \in Nat /\ Cardinality(A) \in Nat
  BY <1>1, FS_CardinalityType
<1>3. Cardinality(At(f, S)) = Cardinality(A) + (IF f[x] \in S THEN 1 ELSE 0)
  <2>1. CASE f[x] \in S
    <3> USE <2>1
    <3>1. x \in At(f, S)
      BY DEF At
    <3>2. Cardinality(At(f, S) \ {x}) = Cardinality(At(f, S)) - 1
      BY <1>1, <3>1, FS_RemoveElement, ZenonT(30)
    <3> QED
      BY <1>2, <3>2
  <2>2. CASE f[x] \notin S
    <3> USE <2>2
    <3>1. A = At(f, S)
      BY DEF At
    <3>2. Cardinality(At(f, S)) = Cardinality(A)
      BY <3>1, Zenon
    <3> QED
      BY <1>2, <3>2
  <2> QED
    BY <2>1, <2>2
<1>4. Cardinality(At(g, S)) = Cardinality(A) + (IF g[x] \in S THEN 1 ELSE 0)
  <2>1. CASE g[x] \in S
    <3> USE <2>1
    <3>1. At(g, S) = A \cup {x} /\ x \notin A
      BY DEF At
    <3> USE <3>1, Zenon
    <3>2. Cardinality(A \cup {x}) = Cardinality(A) + 1
      BY <1>1, FS_AddElement
    <3> QED
      BY <3>2
  <2>2. CASE g[x] \notin S
    <3> USE <2>2
    <3>1. At(g, S) = A
      BY DEF At
    <3>2. Cardinality(At(g, S)) = Cardinality(A)
      BY <3>1, Zenon
    <3> HIDE DEF A
    <3> QED
      BY <1>2, <3>2
  <2> QED
    BY <2>1, <2>2
<1> QED
  BY <1>2, <1>3, <1>4 DEF Count

\* Nobody is somewhere when the count is zero.
LEMMA CountZero ==
  ASSUME NEW f, IsFiniteSet(DOMAIN f), NEW S
  PROVE  Count(f, S) \in Nat /\ (Count(f, S) = 0 <=> \A x \in DOMAIN f : f[x] \notin S)
<1>1. IsFiniteSet(At(f, S))
  <2>1. At(f, S) \subseteq DOMAIN f
    BY DEF At
  <2> QED
    BY <2>1, FS_Subset
<1> USE <1>1
<1>2. Cardinality(At(f, S)) \in Nat
  BY FS_CardinalityType
<1>3. Cardinality(At(f, S)) = 0 <=> At(f, S) = {}
  BY FS_EmptySet
<1> QED
  BY <1>2, <1>3 DEF Count, At

\* A job of type t more that waits and is not held back.
LEMMA SlotsMore ==
  ASSUME NEW free \in [JobType -> Nat], IsFiniteSet(Slots(free)),
         NEW t \in JobType, NEW next, next = [free EXCEPT ![t] = @ + 1]
  PROVE  /\ IsFiniteSet(Slots(next))
         /\ Cardinality(Slots(next)) = Cardinality(Slots(free)) + 1
<1>1. Slots(next) = Slots(free) \cup {<<t, free[t] + 1>>}
      /\ <<t, free[t] + 1>> \notin Slots(free)
  BY DEF Slots
<1> USE <1>1, Zenon
<1>2. IsFiniteSet(Slots(free) \cup {<<t, free[t] + 1>>})
      /\ Cardinality(Slots(free) \cup {<<t, free[t] + 1>>}) =
           Cardinality(Slots(free)) + 1
  BY FS_AddElement
<1> QED
  BY <1>2

\* One less.
LEMMA SlotsLess ==
  ASSUME NEW free \in [JobType -> Nat], IsFiniteSet(Slots(free)),
         NEW t \in JobType, free[t] > 0,
         NEW next, next = [free EXCEPT ![t] = @ - 1]
  PROVE  /\ IsFiniteSet(Slots(next))
         /\ Cardinality(Slots(next)) = Cardinality(Slots(free)) - 1
<1>1. Slots(next) = Slots(free) \ {<<t, free[t]>>}
      /\ <<t, free[t]>> \in Slots(free)
  BY DEF Slots
<1> USE <1>1, Zenon
<1>2. IsFiniteSet(Slots(free) \ {<<t, free[t]>>})
      /\ Cardinality(Slots(free) \ {<<t, free[t]>>}) = Cardinality(Slots(free)) - 1
  BY FS_RemoveElement
<1> QED
  BY <1>2

-------------------------------------------------------------------------------
(* The jobs and the tasks. *)

\* No job begins by adding one, and only the writer's begins by writing.
LEMMA StartLabels ==
  \A t \in JobType :
    /\ Start[t] # "addWrite"
    /\ t # jtWRITE => Start[t] \notin WriteLabel
BY ServerAssumption DEF Start, WriteLabel

\* An empty queue holds nothing back.
LEMMA EmptyData ==
  ASSUME \A t \in JobType : m_jobData[t] = [waiting |-> 0, running |-> 0,
                                            deferred |-> 0],
         \A t \in JobType : Cardinality(JobsOf(t)) = 0
  PROVE  DataInv
<1>1. \A l \in Nat : DataOK([waiting |-> 0, running |-> 0, deferred |-> 0], 0, l)
  BY DEF DataOK
<1> QED
  BY <1>1, QueueAssumption, Zenon DEF DataInv

\* The counters when a job is added, when one is taken and when one ends.
LEMMA DataAdded ==
  ASSUME NEW d \in JobData, NEW n, NEW l \in Nat, DataOK(d, n, l), NEW e,
         e.waiting = d.waiting + 1, e.running = d.running,
         e.deferred = IF d.waiting + d.running < l THEN d.deferred
                      ELSE d.deferred + 1
  PROVE  DataOK(e, n + 1, l)
BY DEF DataOK, JobData

LEMMA DataTaken ==
  ASSUME NEW d \in JobData, NEW n, NEW l \in Nat, DataOK(d, n, l), n - 1 \in Nat,
         d.running < l,
         NEW e, e.waiting = d.waiting - 1, e.running = d.running + 1,
         e.deferred = d.deferred
  PROVE  DataOK(e, n - 1, l) /\ d.waiting > d.deferred
BY DEF DataOK, JobData

LEMMA DataFinished ==
  ASSUME NEW d \in JobData, NEW n, NEW l \in Nat, DataOK(d, n, l),
         NEW e, e.waiting = d.waiting, e.running = d.running - 1,
         e.deferred = IF d.deferred > 0 THEN d.deferred - 1 ELSE d.deferred
  PROVE  DataOK(e, n, l)
BY DEF DataOK, JobData

\* The counters of all types keep their type when a job ends.
LEMMA FinishedType ==
  ASSUME NEW D \in [JobType -> JobData], NEW t \in JobType,
         NEW E, E = [D EXCEPT ![t].deferred = IF D[t].deferred > 0 THEN @ - 1 ELSE @,
                              ![t].running = @ - 1]
  PROVE  E \in [JobType -> JobData]
BY DEF JobData

\* It has no task either.
LEMMA EmptySlots ==
  ASSUME \A t \in JobType : m_jobData[t] = [waiting |-> 0, running |-> 0,
                                            deferred |-> 0]
  PROVE  Slots(Free) = {}
<1>1. \A t \in JobType : Free[t] = 0
  BY DEF Free
<1> QED
  BY <1>1 DEF Slots

\* Of each type, the jobs that wait and are not held back are a natural
\* number.
LEMMA FreeType ==
  ASSUME QueueTypes, DataInv
  PROVE  Free \in [JobType -> Nat]
<1>1. \A t \in JobType : m_jobData[t].waiting - m_jobData[t].deferred \in Nat
  BY DEF QueueTypes, QueueData, DataInv, DataOK, JobData
<1> QED
  BY <1>1 DEF Free

\* A job that is added has a task, or is held back (addRefCountedJob).
LEMMA AddedQueue ==
  ASSUME QueueTypes, QueueInv, NEW t \in JobType, NEW c, addRefCountedJob(t, c),
         Count(pc', {"take"}) = Count(pc, {"take"}), Count(pc, {"take"}) \in Nat
  PROVE  QueueInv'
<1> DEFINE j == [type |-> t, index |-> m_lastJob', coro |-> c]
           below == m_jobData[t].waiting + m_jobData[t].running < JobLimit[t]
<1>1. m_jobSet' = m_jobSet \cup {j} /\ j \notin m_jobSet
  BY DEF addRefCountedJob, QueueTypes, QueueData
<1>2. /\ JobsOf(t)' = JobsOf(t) \cup {j} /\ j \notin JobsOf(t)
      /\ \A u \in JobType \ {t} : JobsOf(u)' = JobsOf(u)
  BY <1>1 DEF JobsOf
<1>3. IsFiniteSet(JobsOf(t))
  <2>1. JobsOf(t) \subseteq m_jobSet
    BY DEF JobsOf
  <2> QED
    BY <2>1, FS_Subset, Zenon DEF QueueTypes, QueueData
<1>4. Cardinality(JobsOf(t) \cup {j}) = Cardinality(JobsOf(t)) + 1
  BY <1>2, <1>3, FS_AddElement, Zenon
<1>5. /\ Cardinality(JobsOf(t)') = Cardinality(JobsOf(t)) + 1
      /\ \A u \in JobType \ {t} : Cardinality(JobsOf(u)') = Cardinality(JobsOf(u))
  BY <1>2, <1>4, Zenon
<1>6. /\ m_jobData'[t].waiting = m_jobData[t].waiting + 1
      /\ m_jobData'[t].running = m_jobData[t].running
      /\ m_jobData'[t].deferred =
           IF below THEN m_jobData[t].deferred ELSE m_jobData[t].deferred + 1
      /\ \A u \in JobType \ {t} : m_jobData'[u] = m_jobData[u]
  BY DEF addRefCountedJob, QueueTypes, QueueData, JobData
<1>7. /\ m_jobData[t] \in JobData /\ JobLimit[t] \in Nat
      /\ DataInv
  BY QueueAssumption, Zenon DEF QueueTypes, QueueData, QueueInv
<1>8. DataOK(m_jobData'[t], Cardinality(JobsOf(t)) + 1, JobLimit[t])
  <2>1. DataOK(m_jobData[t], Cardinality(JobsOf(t)), JobLimit[t])
    BY <1>7, Zenon DEF DataInv
  <2> QED
    BY <1>6, <1>7, <2>1, DataAdded, Zenon
<1>9. DataInv'
  <2>1. ASSUME NEW u \in JobType, u # t
        PROVE  DataOK(m_jobData'[u], Cardinality(JobsOf(u)'), JobLimit[u])
    BY <1>5, <1>6, <1>7, <2>1, ZenonT(30) DEF DataInv
  <2> QED
    BY <1>5, <1>8, <2>1, Zenon DEF DataInv
<1>10. Free' = IF below THEN [Free EXCEPT ![t] = @ + 1] ELSE Free
  BY <1>6, <1>7 DEF Free, JobData
<1>11. tasks' = IF below THEN tasks + 1 ELSE tasks
  BY DEF addRefCountedJob
<1>12. Slots(Free)' = Slots(Free')
  BY DEF Slots
<1>13. TaskInv'
  <2>1. /\ Free \in [JobType -> Nat] /\ IsFiniteSet(Slots(Free)) /\ tasks \in Nat
        /\ tasks + Count(pc, {"take"}) = Cardinality(Slots(Free))
    BY FreeType, Zenon DEF QueueInv, TaskInv, QueueTypes, QueueData
  <2> USE <2>1
  <2>2. /\ IsFiniteSet(Slots(Free'))
        /\ tasks' + Count(pc, {"take"}) = Cardinality(Slots(Free'))
    <3>1. CASE below
      <4> USE <3>1
      <4>1. Free' = [Free EXCEPT ![t] = @ + 1]
        BY <1>10, Zenon
      <4>2. IsFiniteSet(Slots(Free'))
            /\ Cardinality(Slots(Free')) = Cardinality(Slots(Free)) + 1
        BY <4>1, SlotsMore, Zenon
      <4> QED
        BY <1>11, <4>2
    <3>2. CASE ~ below
      BY <1>10, <1>11, <3>2, ZenonT(30)
    <3> QED
      BY <3>1, <3>2, Zenon
  <2> QED
    BY <1>12, <2>2 DEF TaskInv
<1> QED
  BY <1>9, <1>13 DEF QueueInv

\* What a thread does with its own program counter.
LEMMA ThreadMoves ==
  ASSUME QueueTypes, NEW w \in Thread, NEW l, pc' = [pc EXCEPT ![w] = l]
  PROVE  OneMoves(pc, pc', w) /\ pc'[w] = l
BY QueueAssumption DEF QueueTypes, OneMoves

\* A step that leaves jobs, tasks and counts alone keeps the balance of the
\* queue.
LEMMA SameQueue ==
  ASSUME QueueInv, UNCHANGED <<tasks, m_jobSet, m_jobData>>,
         Count(pc', {"take"}) = Count(pc, {"take"})
  PROVE  QueueInv'
<1>1. DataInv'
  BY Zenon DEF QueueInv, DataInv, JobsOf
<1>2. Slots(Free)' = Slots(Free)
  BY Zenon DEF Slots, Free
<1>3. TaskInv'
  BY <1>2 DEF QueueInv, TaskInv
<1> QED
  BY <1>1, <1>3 DEF QueueInv

\* The task of a thread becomes its job (getNextJob).
LEMMA NextJobQueue ==
  ASSUME QueueTypes, QueueInv, NEW w \in Thread, getNextJob(w, Start)
  PROVE  QueueInv'
<1>1. PICK j \in Runnable :
        /\ m_jobSet' = m_jobSet \ {j}
        /\ m_jobData' = [m_jobData EXCEPT ![j.type].waiting = @ - 1,
                                          ![j.type].running = @ + 1]
        /\ pc' = [pc EXCEPT ![w] = Start[j.type]]
  BY Zenon DEF getNextJob
<1> DEFINE t == j.type
<1>2. j \in m_jobSet /\ JobOK(j) /\ t \in JobType
      /\ m_jobData[t].running < JobLimit[t]
  BY <1>1 DEF Runnable, QueueTypes, QueueData, JobOK
<1>3. /\ JobsOf(t)' = JobsOf(t) \ {j} /\ j \in JobsOf(t)
      /\ \A u \in JobType \ {t} : JobsOf(u)' = JobsOf(u)
  BY <1>1, <1>2 DEF JobsOf
<1>4. IsFiniteSet(JobsOf(t))
  <2>1. JobsOf(t) \subseteq m_jobSet
    BY DEF JobsOf
  <2> QED
    BY <2>1, FS_Subset, Zenon DEF QueueTypes, QueueData
<1>5. /\ Cardinality(JobsOf(t) \ {j}) = Cardinality(JobsOf(t)) - 1
      /\ Cardinality(JobsOf(t)) \in Nat
      /\ Cardinality(JobsOf(t) \ {j}) \in Nat
  <2> USE <1>4
  <2>1. IsFiniteSet(JobsOf(t) \ {j})
        /\ Cardinality(JobsOf(t) \ {j}) = Cardinality(JobsOf(t)) - 1
    BY <1>3, FS_RemoveElement, Zenon
  <2> QED
    BY <2>1, FS_CardinalityType
<1>6. /\ Cardinality(JobsOf(t)') = Cardinality(JobsOf(t)) - 1
      /\ \A u \in JobType \ {t} : Cardinality(JobsOf(u)') = Cardinality(JobsOf(u))
  BY <1>3, <1>5, Zenon
<1>7. /\ m_jobData'[t].waiting = m_jobData[t].waiting - 1
      /\ m_jobData'[t].running = m_jobData[t].running + 1
      /\ m_jobData'[t].deferred = m_jobData[t].deferred
      /\ \A u \in JobType \ {t} : m_jobData'[u] = m_jobData[u]
  BY <1>1, <1>2 DEF QueueTypes, QueueData, JobData
<1>8. /\ m_jobData[t] \in JobData /\ JobLimit[t] \in Nat
      /\ DataInv
  BY <1>2, QueueAssumption, Zenon DEF QueueTypes, QueueData, QueueInv
<1> HIDE DEF t
<1>9. DataOK(m_jobData[t], Cardinality(JobsOf(t)), JobLimit[t])
      /\ Cardinality(JobsOf(t)) - 1 \in Nat
  BY <1>2, <1>5, <1>8, Zenon DEF DataInv
<1>10. /\ DataOK(m_jobData'[t], Cardinality(JobsOf(t)) - 1, JobLimit[t])
       /\ m_jobData[t].waiting > m_jobData[t].deferred
  BY <1>2, <1>7, <1>8, <1>9, DataTaken, Zenon
<1>11. DataInv'
  <2>1. ASSUME NEW u \in JobType, u # t
        PROVE  DataOK(m_jobData'[u], Cardinality(JobsOf(u)'), JobLimit[u])
    BY <1>6, <1>7, <1>8, <2>1, ZenonT(30) DEF DataInv
  <2> QED
    BY <1>6, <1>10, <2>1, Zenon DEF DataInv
<1>12. Free' = [Free EXCEPT ![t] = @ - 1] /\ Free[t] > 0
  <2>1. \A u \in JobType : m_jobData'[u].waiting - m_jobData'[u].deferred =
                             IF u = t THEN Free[t] - 1 ELSE Free[u]
    BY <1>2, <1>7, <1>8 DEF Free, JobData
  <2>2. Free' = [u \in JobType |-> m_jobData'[u].waiting - m_jobData'[u].deferred]
    BY DEF Free
  <2>3. DOMAIN Free = JobType
    BY DEF Free
  <2>4. Free' = [Free EXCEPT ![t] = @ - 1]
    BY <2>1, <2>2, <2>3, ZenonT(30)
  <2>5. Free[t] > 0
    BY <1>2, <1>8, <1>10 DEF Free, JobData
  <2> QED
    BY <2>4, <2>5
<1>13. Count(pc', {"take"}) = Count(pc, {"take"}) - 1 /\ Count(pc, {"take"}) \in Nat
  <2>1. pc[w] \in {"take"}
    BY DEF getNextJob
  <2>2. Start[j.type] \notin {"take"}
    BY <1>2, ServerAssumption DEF Start, JobOK
  <2>3. OneMoves(pc, pc', w) /\ pc'[w] = Start[j.type]
    BY <1>1, ThreadMoves, Zenon
  <2> USE <2>3
  <2>4. pc'[w] \notin {"take"}
    BY <2>2
  <2> QED
    BY <2>1, <2>4, CountMove, ZenonT(30)
<1>14. TaskInv'
  <2>1. /\ Free \in [JobType -> Nat] /\ IsFiniteSet(Slots(Free)) /\ tasks \in Nat
        /\ tasks + Count(pc, {"take"}) = Cardinality(Slots(Free))
    BY FreeType, Zenon DEF QueueInv, TaskInv, QueueTypes, QueueData
  <2> USE <2>1
  <2>2. IsFiniteSet(Slots(Free'))
        /\ Cardinality(Slots(Free')) = Cardinality(Slots(Free)) - 1
    BY <1>2, <1>12, SlotsLess, Zenon
  <2>3. Slots(Free)' = Slots(Free') /\ tasks' = tasks
    BY DEF Slots, getNextJob
  <2> USE <2>2
  <2>4. tasks + Count(pc', {"take"}) = Cardinality(Slots(Free'))
    BY <1>13
  <2> QED
    BY <2>3, <2>4 DEF TaskInv
<1> QED
  BY <1>11, <1>14 DEF QueueInv

\* A thread takes a task (the pool calls processTask).
LEMMA TakeTaskQueue ==
  ASSUME QueueTypes, QueueInv, NEW w \in Thread, TakeTask(w)
  PROVE  QueueInv'
<1>1. /\ pc[w] \notin {"take"} /\ pc' = [pc EXCEPT ![w] = "take"]
      /\ tasks' = tasks - 1 /\ tasks \in Nat
      /\ UNCHANGED <<m_jobSet, m_jobData>>
  BY DEF TakeTask, QueueTypes, QueueData
<1> USE <1>1
<1>2. OneMoves(pc, pc', w) /\ pc'[w] \in {"take"}
  BY ThreadMoves, Zenon
<1>3. Count(pc', {"take"}) = Count(pc, {"take"}) + 1 /\ Count(pc, {"take"}) \in Nat
  BY <1>2, CountMove, ZenonT(30)
<1>4. DataInv'
  BY Zenon DEF QueueInv, DataInv, JobsOf
<1>5. Slots(Free)' = Slots(Free)
  BY DEF Slots, Free
<1>6. IsFiniteSet(Slots(Free)) /\ tasks + Count(pc, {"take"}) = Cardinality(Slots(Free))
  BY DEF QueueInv, TaskInv
<1> USE <1>6
<1>7. tasks' + Count(pc', {"take"}) = Cardinality(Slots(Free))
  BY <1>3
<1>8. TaskInv'
  BY <1>5, <1>7 DEF TaskInv
<1> QED
  BY <1>4, <1>8 DEF QueueInv

\* A job ends, and one that was held back gets a task (finishJob).
LEMMA FinishQueue ==
  ASSUME QueueTypes, QueueInv, NEW w \in Thread, finishJob(w)
  PROVE  QueueInv'
<1> DEFINE t == job[w].type
           more == m_jobData[t].deferred > 0
<1>1. /\ pc[w] \notin {"take"} /\ pc' = [pc EXCEPT ![w] = "idle"]
      /\ UNCHANGED m_jobSet
      /\ tasks' = IF more THEN tasks + 1 ELSE tasks
      /\ m_jobData' = [m_jobData EXCEPT
                         ![t].deferred = IF more THEN @ - 1 ELSE @,
                         ![t].running = @ - 1]
  BY DEF finishJob
<1>2. t \in JobType
  BY DEF finishJob, QueueTypes, JobOK, NoWork
<1>3. OneMoves(pc, pc', w) /\ pc'[w] \notin {"take"}
  BY <1>1, ThreadMoves, Zenon
<1>4. Count(pc', {"take"}) = Count(pc, {"take"}) /\ Count(pc, {"take"}) \in Nat
  BY <1>1, <1>3, CountMove, ZenonT(30)
<1> HIDE DEF t
<1>5. /\ m_jobData'[t].waiting = m_jobData[t].waiting
      /\ m_jobData'[t].running = m_jobData[t].running - 1
      /\ m_jobData'[t].deferred =
           IF more THEN m_jobData[t].deferred - 1 ELSE m_jobData[t].deferred
      /\ \A u \in JobType \ {t} : m_jobData'[u] = m_jobData[u]
  BY <1>1, <1>2 DEF QueueTypes, QueueData, JobData
<1>6. /\ m_jobData[t] \in JobData /\ JobLimit[t] \in Nat
      /\ DataInv
  BY <1>2, QueueAssumption DEF QueueTypes, QueueData, QueueInv
<1>7. DataOK(m_jobData'[t], Cardinality(JobsOf(t)), JobLimit[t])
  <2>1. DataOK(m_jobData[t], Cardinality(JobsOf(t)), JobLimit[t])
    BY <1>2, <1>6, Zenon DEF DataInv
  <2> QED
    BY <1>5, <1>6, <2>1, DataFinished, Zenon
<1>8. \A u \in JobType : JobsOf(u)' = JobsOf(u)
  BY <1>1 DEF JobsOf
<1>9. DataInv'
  <2>1. ASSUME NEW u \in JobType, u # t
        PROVE  DataOK(m_jobData'[u], Cardinality(JobsOf(u)'), JobLimit[u])
    BY <1>5, <1>6, <1>8, <2>1, Zenon DEF DataInv
  <2> QED
    BY <1>2, <1>7, <1>8, <2>1, Zenon DEF DataInv
<1>10. Free' = IF more THEN [Free EXCEPT ![t] = @ + 1] ELSE Free
  <2>1. \A u \in JobType : m_jobData'[u].waiting - m_jobData'[u].deferred =
                             IF u = t /\ more THEN Free[t] + 1 ELSE Free[u]
    BY <1>2, <1>5, <1>6 DEF Free, JobData
  <2>2. Free' = [u \in JobType |-> m_jobData'[u].waiting - m_jobData'[u].deferred]
    BY DEF Free
  <2>3. Free = [u \in JobType |-> Free[u]]
    BY DEF Free
  <2> QED
    BY <2>1, <2>2, <2>3, ZenonT(30)
<1>11. TaskInv'
  <2>1. /\ Free \in [JobType -> Nat] /\ IsFiniteSet(Slots(Free)) /\ tasks \in Nat
        /\ tasks + Count(pc, {"take"}) = Cardinality(Slots(Free))
    BY FreeType, Zenon DEF QueueInv, TaskInv, QueueTypes, QueueData
  <2>2. Slots(Free)' = Slots(Free')
    BY DEF Slots
  <2> USE <2>1
  <2>3. /\ IsFiniteSet(Slots(Free'))
        /\ tasks' + Count(pc, {"take"}) = Cardinality(Slots(Free'))
    <3>1. CASE more
      <4> USE <3>1
      <4>1. Free' = [Free EXCEPT ![t] = @ + 1]
        BY <1>10
      <4>2. IsFiniteSet(Slots(Free'))
            /\ Cardinality(Slots(Free')) = Cardinality(Slots(Free)) + 1
        BY <1>2, <4>1, SlotsMore, Zenon
      <4> QED
        BY <1>1, <1>4, <4>2
    <3>2. CASE ~ more
      BY <1>1, <1>10, <3>2
    <3> QED
      BY <3>1, <3>2, Zenon
  <2> QED
    BY <1>4, <2>2, <2>3 DEF TaskInv
<1> QED
  BY <1>9, <1>11, Zenon DEF QueueInv

\* A thread that stays in its job.
LEMMA StaysInJob ==
  ASSUME QueueTypes, NEW w \in Thread, Calm(w) \/ CountsJob(w) \/ AddsJob(w)
  PROVE  /\ OneMoves(pc, pc', w)
         /\ pc[w] \in InJob /\ pc'[w] \in InJob
         /\ pc[w] \in AddLabel <=> AddsJob(w)
         /\ pc'[w] \in AddLabel <=> CountsJob(w)
         /\ pc[w] \notin NoWork /\ pc'[w] \notin NoWork
<1>1. pc[w] \in InJob
  BY DEF Calm, CountsJob, AddsJob, InJob
<1>2. PICK l \in InJob : pc' = [pc EXCEPT ![w] = l]
  BY DEF Calm, CountsJob, AddsJob, GoesTo, InJob
<1>3. OneMoves(pc, pc', w) /\ pc'[w] = l
  BY <1>2, ThreadMoves, ZenonT(30)
<1>4. pc[w] \in AddLabel <=> AddsJob(w)
  BY DEF Calm, CountsJob, AddsJob, AddLabel, Plain, PathLabel, StoreLabel,
     WriteLabel
<1>5. \A L : GoesTo(w, L) => pc'[w] \in L
  BY DEF GoesTo, QueueTypes
<1>6. pc'[w] \in AddLabel <=> CountsJob(w)
  <2> USE <1>5
  <2>1. CASE CountsJob(w)
    BY <2>1, Zenon DEF CountsJob
  <2>2. CASE Calm(w) \/ AddsJob(w)
    <3>1. pc'[w] \in Plain
      BY <2>2, Zenon DEF Calm, AddsJob
    <3>2. pc'[w] \notin AddLabel
      BY <3>1 DEF AddLabel, Plain, PathLabel, StoreLabel, WriteLabel
    <3> USE <3>2
    <3>3. ~ CountsJob(w)
      BY Zenon DEF CountsJob
    <3> QED
      BY <3>3
  <2> QED
    BY <2>1, <2>2
<1>7. \A x \in InJob : x \notin NoWork
  BY DEF InJob, NoWork, AddLabel, Plain, PathLabel, StoreLabel, WriteLabel
<1> QED
  BY <1>1, <1>2, <1>3, <1>4, <1>6, <1>7, ZenonT(30)

\* What the clients, the network and the stop do to the queue: they add a job
\* or leave it alone.
LEMMA OutsideQueue ==
  ASSUME ServerTypes,
         \/ \E c \in Coro : CreateCoro(c) \/ Serve(c)
         \/ EnvironmentStep
         \/ UNCHANGED vars
  PROVE  /\ UNCHANGED pc
         /\ \/ UNCHANGED queue
            \/ \E t \in JobType : \E c : addRefCountedJob(t, c)
<1>1. ASSUME NEW c \in Coro, CreateCoro(c) \/ Serve(c)
      PROVE  UNCHANGED pc /\ (UNCHANGED queue \/ addRefCountedJob(jtCLIENT, c))
  BY <1>1, Zenon DEF CreateCoro, Serve, PostNew, AddNew, expectEarlyExit
<1>2. ASSUME EnvironmentStep, ~ AddedJob
      PROVE  UNCHANGED pc /\ UNCHANGED queue
  BY <1>2, Zenon
     DEF EnvironmentStep, AddJob, GrowOld, stop, StopStep, join, flush,
     FlushWrite, stopAsyncRecursive, stopRecursive, onChildrenStopped, Stopped,
     unstopped
<1>3. CASE AddedJob
  BY <1>3 DEF AddedJob
<1>4. CASE UNCHANGED vars
  BY <1>4 DEF vars
<1>5. jtCLIENT \in JobType
  BY ServerAssumption
<1> QED
  BY <1>1, <1>2, <1>3, <1>4, <1>5, Zenon

\* Every step keeps the balance of tasks, waiting, deferred and running jobs.
LEMMA NextQueue ==
  ASSUME ServerTypes, CommandInv, QueueInv, [Next]_vars
  PROVE  QueueInv'
<1>0. QueueTypes
  BY DEF ServerTypes
<1>1. ASSUME NEW w \in Thread, ThreadStep(w)
      PROVE  QueueInv'
  <2>1. CASE Calm(w) \/ CountsJob(w) \/ AddsJob(w)
    <3>1. OneMoves(pc, pc', w) /\ pc[w] \notin {"take"} /\ pc'[w] \notin {"take"}
      BY <1>0, <2>1, StaysInJob, Zenon DEF NoWork
    <3>2. Count(pc', {"take"}) = Count(pc, {"take"}) /\ Count(pc, {"take"}) \in Nat
      BY <3>1, CountMove, ZenonT(30)
    <3> USE <3>2
    <3>3. CASE AddsJob(w)
      BY <1>0, <3>3, AddedQueue DEF AddsJob
    <3>4. CASE Calm(w) \/ CountsJob(w)
      BY <3>4, SameQueue DEF Calm, CountsJob, queue
    <3> QED
      BY <2>1, <3>3, <3>4
  <2>2. CASE TakeTask(w)
    BY <1>0, <2>2, TakeTaskQueue, Zenon
  <2>3. CASE getNextJob(w, Start)
    BY <1>0, <2>3, NextJobQueue, ZenonT(30)
  <2>4. CASE DestroyJob(w)
    <3> USE <2>4
    <3>1. pc[w] \notin {"take"} /\ pc' = [pc EXCEPT ![w] = "finish"]
      BY DEF DestroyJob
    <3> USE <3>1
    <3>2. OneMoves(pc, pc', w) /\ pc'[w] \notin {"take"}
      BY <1>0, ThreadMoves, Zenon
    <3>3. Count(pc', {"take"}) = Count(pc, {"take"})
      BY <3>2, CountMove, ZenonT(30)
    <3> QED
      BY <3>3, SameQueue DEF DestroyJob, queue
  <2>5. CASE finishJob(w)
    BY <1>0, <2>5, FinishQueue
  <2> QED
    BY <1>1, <2>1, <2>2, <2>3, <2>4, <2>5, ThreadSteps, ZenonT(30) DEF processTask
<1>2. CASE \/ \E c \in Coro : CreateCoro(c) \/ Serve(c)
           \/ EnvironmentStep
           \/ UNCHANGED vars
  <2>1. UNCHANGED pc
        /\ (UNCHANGED queue \/ \E t \in JobType : \E c : addRefCountedJob(t, c))
    BY <1>2, OutsideQueue
  <2>2. Count(pc', {"take"}) = Count(pc, {"take"})
    BY <2>1
  <2> USE <1>0
  <2>3. Count(pc, {"take"}) \in Nat
    <3>1. IsFiniteSet(DOMAIN pc)
      BY QueueAssumption DEF QueueTypes
    <3> QED
      BY <3>1, CountZero
  <2> USE <2>2
  <2>4. CASE UNCHANGED queue
    BY <2>4, SameQueue DEF queue
  <2> QED
    BY <2>1, <2>3, <2>4, AddedQueue
<1> QED
  BY <1>1, <1>2 DEF Next, EnvironmentStep

\* A thread that was given a task finds a job: among the types with a job that
\* is not held back, one is below its limit (getNextJob).
LEMMA TaskHasJob ==
  ASSUME QueueTypes, QueueInv
  PROVE  TaskFindsJob
<1> SUFFICES ASSUME NEW w \in Thread, pc[w] = "take"
             PROVE  Runnable # {}
  BY DEF TaskFindsJob
<1>1. IsFiniteSet(DOMAIN pc) /\ w \in DOMAIN pc /\ pc[w] \in {"take"}
  BY QueueAssumption DEF QueueTypes
<1>2. Count(pc, {"take"}) \in Nat /\ Count(pc, {"take"}) # 0
  BY <1>1, CountZero
<1>3. /\ IsFiniteSet(Slots(Free)) /\ tasks \in Nat
      /\ tasks + Count(pc, {"take"}) = Cardinality(Slots(Free))
  BY Zenon DEF QueueInv, TaskInv, QueueTypes, QueueData
<1>4. Slots(Free) # {}
  BY <1>2, <1>3, FS_EmptySet
<1>5. PICK s \in JobType \X Nat : 1 <= s[2] /\ s[2] <= Free[s[1]]
  BY <1>4 DEF Slots
<1> DEFINE t == s[1]
<1>6. t \in JobType /\ Free[t] >= 1
  BY <1>5, FreeType DEF QueueInv
<1> HIDE DEF t
<1>7. /\ m_jobData[t] \in JobData /\ JobLimit[t] \in Nat
      /\ m_jobData[t].waiting = Cardinality(JobsOf(t))
      /\ 0 <= m_jobData[t].deferred
      /\ m_jobData[t].waiting + m_jobData[t].running - m_jobData[t].deferred
           <= JobLimit[t]
      /\ m_jobData[t].waiting - m_jobData[t].deferred >= 1
  BY <1>6, QueueAssumption, ZenonT(30)
     DEF QueueTypes, QueueData, QueueInv, DataInv, DataOK, Free
<1>8. m_jobData[t].running < JobLimit[t] /\ Cardinality(JobsOf(t)) # 0
  BY <1>7 DEF JobData
<1> USE <1>8
<1>9. JobsOf(t) # {}
  BY FS_EmptySet, Zenon
<1> QED
  BY <1>9 DEF JobsOf, Runnable

-------------------------------------------------------------------------------
(* The counter of jobs in flight. *)

\* The numbers the counter is the sum of.
LEMMA CountTypes ==
  ASSUME ServerTypes
  PROVE  /\ Count(co, {"wrapped"}) \in Nat /\ Count(pc, InJob) \in Nat
         /\ Count(pc, AddLabel) \in Nat /\ Count(pc, Working) \in Nat
         /\ Cardinality(m_jobSet) \in Nat /\ AdderCount \in Nat
         /\ closureCount_ \in Int /\ m_processCount \in Int
<1>1. IsFiniteSet(DOMAIN pc) /\ IsFiniteSet(DOMAIN co)
  BY QueueAssumption DEF ServerTypes, QueueTypes, PathTypes
<1>2. \A S : Count(pc, S) \in Nat /\ Count(co, S) \in Nat
  BY <1>1, CountZero
<1>3. Cardinality(m_jobSet) \in Nat
  BY FS_CardinalityType, Zenon DEF ServerTypes, QueueTypes, QueueData
<1>4. AdderCount \in Nat /\ closureCount_ \in Int /\ m_processCount \in Int
  BY Zenon DEF AdderCount, ServerTypes, QueueTypes, QueueData
<1> QED
  BY <1>2, <1>3, <1>4

\* A job more (addRefCountedJob).
LEMMA AddedCount ==
  ASSUME QueueTypes, NEW t \in JobType, NEW c, addRefCountedJob(t, c)
  PROVE  /\ Cardinality(m_jobSet') = Cardinality(m_jobSet) + 1
         /\ m_processCount' = m_processCount
<1> DEFINE j == [type |-> t, index |-> m_lastJob', coro |-> c]
<1>1. m_jobSet' = m_jobSet \cup {j} /\ j \notin m_jobSet /\ IsFiniteSet(m_jobSet)
  BY DEF addRefCountedJob, QueueTypes, QueueData
<1> USE <1>1
<1>2. Cardinality(m_jobSet \cup {j}) = Cardinality(m_jobSet) + 1
  BY FS_AddElement, Zenon
<1>3. Cardinality(m_jobSet') = Cardinality(m_jobSet) + 1
  BY <1>2, Zenon
<1> QED
  BY <1>3 DEF addRefCountedJob

\* Coroutines that were posted, and those that were not, stay so.
LEMMA KeptCount ==
  ASSUME PathTypes, CoroKept
  PROVE  Count(co', {"wrapped"}) = Count(co, {"wrapped"})
<1>1. At(co', {"wrapped"}) = At(co, {"wrapped"})
  BY DEF At, CoroKept, PathTypes, Early
<1> QED
  BY <1>1, Zenon DEF Count

\* A coroutine that moves.
LEMMA CoroMoves ==
  ASSUME PathTypes, NEW c \in Coro, NEW s, co' = [co EXCEPT ![c] = s]
  PROVE  OneMoves(co, co', c) /\ co'[c] = s
BY QueueAssumption DEF PathTypes, OneMoves

\* A step inside a job keeps JobCounter equal to the counted jobs.
LEMMA ThreadCounter ==
  ASSUME ServerTypes, CounterInv, NEW w \in Thread,
         Calm(w) \/ CountsJob(w) \/ AddsJob(w)
  PROVE  CounterInv'
<1>0. QueueTypes /\ PathTypes
  BY DEF ServerTypes
<1>1. /\ OneMoves(pc, pc', w)
      /\ pc[w] \in InJob /\ pc'[w] \in InJob
      /\ pc[w] \in Working /\ pc'[w] \in Working
      /\ pc[w] \in AddLabel <=> AddsJob(w)
      /\ pc'[w] \in AddLabel <=> CountsJob(w)
  BY <1>0, StaysInJob, Zenon DEF Working
<1>2. /\ Count(pc', InJob) = Count(pc, InJob)
      /\ Count(pc', Working) = Count(pc, Working)
  <2> USE <1>1
  <2>1. Count(pc', InJob) = Count(pc, InJob)
    BY CountMove, ZenonT(30)
  <2>2. Count(pc', Working) = Count(pc, Working)
    BY CountMove, ZenonT(30)
  <2> QED
    BY <2>1, <2>2
<1>3. Count(co', {"wrapped"}) = Count(co, {"wrapped"})
  <2>1. CASE CoroKept
    BY <1>0, <2>1, KeptCount
  <2>2. CASE UNCHANGED co
    BY <2>2
  <2> QED
    BY <2>1, <2>2 DEF Calm, CountsJob, AddsJob
<1>4. AdderCount' = AdderCount
  BY SMTT(30) DEF Calm, CountsJob, AddsJob, env, AdderCount
<1>5. CASE AddsJob(w)
  <2> USE <1>5
  <2>0. PICK t \in JobType : \E c : addRefCountedJob(t, c)
    BY DEF AddsJob
  <2>1. PICK c : addRefCountedJob(t, c)
    BY <2>0
  <2>2. /\ Cardinality(m_jobSet') = Cardinality(m_jobSet) + 1
        /\ m_processCount' = m_processCount /\ closureCount_' = closureCount_
    BY <1>0, <2>1, AddedCount DEF AddsJob, closures
  <2> USE <1>1
  <2>3. pc[w] \in AddLabel /\ pc'[w] \notin AddLabel
    <3>1. ~ CountsJob(w)
      BY Zenon DEF AddsJob, CountsJob, AddLabel, Plain, PathLabel, StoreLabel,
         WriteLabel
    <3> QED
      BY <3>1, Zenon
  <2>4. Count(pc', AddLabel) = Count(pc, AddLabel) - 1
    BY <2>3, CountMove, ZenonT(30)
  <2> QED
    BY <1>2, <1>3, <1>4, <2>2, <2>4, CountTypes, SMTT(30) DEF CounterInv
<1>6. CASE CountsJob(w)
  <2> USE <1>6
  <2>1. UNCHANGED <<m_jobSet, m_processCount>> /\ closureCount_' = closureCount_ + 1
    BY DEF CountsJob, Wrap, queue
  <2> USE <1>1
  <2>2. pc[w] \notin AddLabel /\ pc'[w] \in AddLabel
    <3>1. ~ AddsJob(w)
      BY Zenon DEF AddsJob, CountsJob, AddLabel, Plain, PathLabel, StoreLabel,
         WriteLabel
    <3> QED
      BY <3>1, Zenon
  <2>3. Count(pc', AddLabel) = Count(pc, AddLabel) + 1
    BY <2>2, CountMove, ZenonT(30)
  <2> QED
    BY <1>2, <1>3, <1>4, <2>1, <2>3, CountTypes, SMTT(30) DEF CounterInv
<1>7. CASE Calm(w) /\ ~ AddsJob(w) /\ ~ CountsJob(w)
  <2> USE <1>7
  <2>1. UNCHANGED <<m_jobSet, m_processCount, closureCount_>>
    BY DEF Calm, queue, closures
  <2> USE <1>1
  <2>2. pc[w] \notin AddLabel /\ pc'[w] \notin AddLabel
    BY Zenon
  <2>3. Count(pc', AddLabel) = Count(pc, AddLabel)
    BY <2>2, CountMove, ZenonT(30)
  <2> QED
    BY <1>2, <1>3, <1>4, <2>1, <2>3 DEF CounterInv
<1> QED
  BY <1>5, <1>6, <1>7

\* processTask keeps it: the count drops only where the job is destroyed.
LEMMA TaskCounter ==
  ASSUME ServerTypes, CounterInv, NEW w \in Thread, processTask(w),
         UNCHANGED pathVars
  PROVE  CounterInv'
<1>0. QueueTypes /\ UNCHANGED co /\ AdderCount' = AdderCount
  BY DEF ServerTypes, pathVars, env, AdderCount
<1>1. Count(co', {"wrapped"}) = Count(co, {"wrapped"})
  BY <1>0
<1>8. /\ Count(co, {"wrapped"}) \in Nat /\ Count(pc, InJob) \in Nat
      /\ Count(pc, AddLabel) \in Nat /\ Cardinality(m_jobSet) \in Nat
      /\ AdderCount \in Nat /\ closureCount_ \in Int
  BY CountTypes, ZenonT(30)
<1> USE DEF Working, InJob, Plain, PathLabel, StoreLabel, WriteLabel, AddLabel
<1>2. CASE TakeTask(w)
  <2>1. /\ pc[w] \notin InJob /\ pc[w] \notin AddLabel /\ pc[w] \notin Working
        /\ pc' = [pc EXCEPT ![w] = "take"]
    BY <1>2 DEF TakeTask
  <2>2. /\ OneMoves(pc, pc', w)
        /\ pc'[w] \notin InJob /\ pc'[w] \notin AddLabel /\ pc'[w] \notin Working
    <3>1. OneMoves(pc, pc', w) /\ pc'[w] = "take"
      BY <1>0, <2>1, ThreadMoves, Zenon
    <3> QED
      BY <3>1
  <2> HIDE DEF Working, InJob, AddLabel
  <2>3. /\ Count(pc', InJob) = Count(pc, InJob)
        /\ Count(pc', AddLabel) = Count(pc, AddLabel)
        /\ Count(pc', Working) = Count(pc, Working)
    BY <2>1, <2>2, CountMove, ZenonT(30)
  <2>4. UNCHANGED <<m_jobSet, m_processCount, closureCount_>>
    BY <1>2 DEF TakeTask, closures
  <2> QED
    BY <1>0, <1>1, <2>3, <2>4 DEF CounterInv
<1>3. CASE getNextJob(w, Start)
  <2>1. PICK j \in Runnable : m_jobSet' = m_jobSet \ {j}
                              /\ pc' = [pc EXCEPT ![w] = Start[j.type]]
    BY <1>3, Zenon DEF getNextJob
  <2>2. j \in m_jobSet /\ JobOK(j) /\ IsFiniteSet(m_jobSet)
    BY <1>0, <2>1, Zenon DEF Runnable, QueueTypes, QueueData
  <2>3. Start[j.type] \in Plain
    BY <2>2, ServerAssumption DEF JobOK, Start
  <2>4. pc[w] \notin InJob /\ pc[w] \notin AddLabel /\ pc[w] \notin Working
    BY <1>3 DEF getNextJob
  <2>5. /\ OneMoves(pc, pc', w)
        /\ pc'[w] \in InJob /\ pc'[w] \notin AddLabel /\ pc'[w] \in Working
    <3>1. OneMoves(pc, pc', w) /\ pc'[w] = Start[j.type]
      BY <1>0, <2>1, ThreadMoves, ZenonT(30)
    <3>2. \A l \in Plain : l \in InJob /\ l \notin AddLabel /\ l \in Working
      OBVIOUS
    <3> QED
      BY <2>3, <3>1, <3>2, Zenon
  <2> HIDE DEF Working, InJob, AddLabel
  <2>6. /\ Count(pc', InJob) = Count(pc, InJob) + 1
        /\ Count(pc', AddLabel) = Count(pc, AddLabel)
        /\ Count(pc', Working) = Count(pc, Working) + 1
    BY <2>4, <2>5, CountMove, ZenonT(30)
  <2>7. m_processCount' = m_processCount + 1 /\ closureCount_' = closureCount_
    BY <1>3 DEF getNextJob, closures
  <2>8. Cardinality(m_jobSet \ {j}) = Cardinality(m_jobSet) - 1
    BY <2>2, FS_RemoveElement, Zenon
  <2>9. Cardinality(m_jobSet') = Cardinality(m_jobSet) - 1
    BY <2>1, <2>8, Zenon
  <2> QED
    BY <1>0, <1>1, <2>6, <2>7, <2>9, CountTypes DEF CounterInv
<1>4. CASE DestroyJob(w)
  <2>1. /\ pc[w] \in InJob /\ pc[w] \notin AddLabel /\ pc[w] \in Working
        /\ pc' = [pc EXCEPT ![w] = "finish"]
    BY <1>4 DEF DestroyJob
  <2>2. /\ OneMoves(pc, pc', w)
        /\ pc'[w] \notin InJob /\ pc'[w] \notin AddLabel /\ pc'[w] \in Working
    <3>1. OneMoves(pc, pc', w) /\ pc'[w] = "finish"
      BY <1>0, <2>1, ThreadMoves, Zenon
    <3> QED
      BY <3>1
  <2> HIDE DEF Working, InJob, AddLabel
  <2>3. /\ Count(pc', InJob) = Count(pc, InJob) - 1
        /\ Count(pc', AddLabel) = Count(pc, AddLabel)
        /\ Count(pc', Working) = Count(pc, Working)
    BY <2>1, <2>2, CountMove, ZenonT(30)
  <2>4. UNCHANGED <<m_jobSet, m_processCount>> /\ closureCount_' = closureCount_ - 1
    BY <1>4 DEF DestroyJob, queue
  <2> QED
    BY <1>0, <1>1, <1>8, <2>3, <2>4 DEF CounterInv
<1>5. CASE finishJob(w)
  <2>1. /\ pc[w] \notin InJob /\ pc[w] \notin AddLabel /\ pc[w] \in Working
        /\ pc' = [pc EXCEPT ![w] = "idle"]
    BY <1>5 DEF finishJob
  <2>2. /\ OneMoves(pc, pc', w)
        /\ pc'[w] \notin InJob /\ pc'[w] \notin AddLabel /\ pc'[w] \notin Working
    <3>1. OneMoves(pc, pc', w) /\ pc'[w] = "idle"
      BY <1>0, <2>1, ThreadMoves, Zenon
    <3> QED
      BY <3>1
  <2> HIDE DEF Working, InJob, AddLabel
  <2>3. /\ Count(pc', InJob) = Count(pc, InJob)
        /\ Count(pc', AddLabel) = Count(pc, AddLabel)
        /\ Count(pc', Working) = Count(pc, Working) - 1
    BY <2>1, <2>2, CountMove, ZenonT(30)
  <2>4. UNCHANGED <<m_jobSet, closureCount_>> /\ m_processCount' = m_processCount - 1
    BY <1>5 DEF finishJob, closures
  <2> QED
    BY <1>0, <1>1, <2>3, <2>4, CountTypes, Zenon DEF CounterInv
<1> QED
  BY <1>2, <1>3, <1>4, <1>5 DEF processTask

\* A post of a coroutine keeps it.
LEMMA CoroCounter ==
  ASSUME ServerTypes, CounterInv, NEW c \in Coro, CreateCoro(c) \/ Serve(c)
  PROVE  CounterInv'
<1>0. QueueTypes /\ PathTypes
  BY DEF ServerTypes
<1>1. UNCHANGED pc /\ AdderCount' = AdderCount
  BY Zenon
     DEF CreateCoro, Serve, PostNew, AddNew, expectEarlyExit, env, AdderCount
<1>2. ASSUME NEW s, co' = [co EXCEPT ![c] = s], co[c] # "wrapped", s # "wrapped",
             UNCHANGED <<m_jobSet, m_processCount, closureCount_>>
      PROVE  CounterInv'
  <2> USE <1>2
  <2>1. OneMoves(co, co', c) /\ co'[c] \notin {"wrapped"} /\ co[c] \notin {"wrapped"}
    BY <1>0, CoroMoves, Zenon
  <2>2. Count(co', {"wrapped"}) = Count(co, {"wrapped"})
    BY <2>1, CountMove, ZenonT(30)
  <2> QED
    BY <1>1, <2>2 DEF CounterInv
<1>3. CASE CreateCoro(c) \/ expectEarlyExit(c)
           \/ (PostNew(c) /\ WrapFails /\ co' = [co EXCEPT ![c] = "refused"])
  BY <1>2, <1>3, Zenon
     DEF CreateCoro, expectEarlyExit, PostNew, WrapFails, queue, closures
<1>4. CASE PostNew(c) /\ Wrap /\ co' = [co EXCEPT ![c] = "wrapped"]
  <2>1. OneMoves(co, co', c) /\ co'[c] \in {"wrapped"} /\ co[c] \notin {"wrapped"}
    BY <1>0, <1>4, CoroMoves, ZenonT(30) DEF PostNew
  <2>2. Count(co', {"wrapped"}) = Count(co, {"wrapped"}) + 1
    BY <2>1, CountMove, ZenonT(30)
  <2>3. UNCHANGED <<m_jobSet, m_processCount>> /\ closureCount_' = closureCount_ + 1
    BY <1>4 DEF PostNew, queue, Wrap
  <2> QED
    BY <1>1, <2>2, <2>3, CountTypes DEF CounterInv
<1>5. CASE AddNew(c)
  <2>0. co[c] = "wrapped" /\ co' = [co EXCEPT ![c] = "fresh"]
    BY <1>5 DEF AddNew
  <2>1. OneMoves(co, co', c) /\ co'[c] \notin {"wrapped"} /\ co[c] \in {"wrapped"}
    <3> USE <2>0
    <3>1. OneMoves(co, co', c) /\ co'[c] = "fresh"
      BY <1>0, CoroMoves, Zenon
    <3> QED
      BY <3>1
  <2>2. Count(co', {"wrapped"}) = Count(co, {"wrapped"}) - 1
    BY <2>1, CountMove, ZenonT(30)
  <2>3. jtCLIENT \in JobType /\ addRefCountedJob(jtCLIENT, c)
    BY <1>5, ServerAssumption, Zenon DEF AddNew
  <2>4. /\ Cardinality(m_jobSet') = Cardinality(m_jobSet) + 1
        /\ m_processCount' = m_processCount /\ closureCount_' = closureCount_
    BY <1>0, <1>5, <2>3, AddedCount DEF AddNew, closures
  <2> QED
    BY <1>1, <2>2, <2>4, CountTypes DEF CounterInv
<1> QED
  BY <1>3, <1>4, <1>5 DEF Serve, PostNew

\* The rest of the server keeps it; join only reads the counter.
LEMMA EnvironmentCounter ==
  ASSUME ServerTypes, CounterInv, EnvironmentStep
  PROVE  CounterInv'
<1>1. UNCHANGED <<pc, co>>
  BY ZenonT(30)
     DEF EnvironmentStep, AddJob, AddedJob, GrowOld, stop, StopStep, join, flush,
     FlushWrite, stopAsyncRecursive, stopRecursive, onChildrenStopped, Stopped,
     unstopped, pathVars
<1>2. ASSUME NEW t \in JobType, AddJob(t)
      PROVE  CounterInv'
  <2>1. adder = 0 /\ adder' = t /\ closureCount_' = closureCount_ + 1
        /\ UNCHANGED <<m_jobSet, m_processCount>>
    BY <1>2 DEF AddJob, Wrap, queue
  <2> USE <2>1
  <2>2. AdderCount = 0 /\ AdderCount' = 1
    BY ServerAssumption DEF AdderCount
  <2> QED
    BY <1>1, <2>2, CountTypes DEF CounterInv
<1>3. CASE AddedJob
  <2> USE <1>3
  <2>1. adder \in JobType /\ addRefCountedJob(adder, NoCoro)
    BY DEF AddedJob
  <2>2. /\ Cardinality(m_jobSet') = Cardinality(m_jobSet) + 1
        /\ m_processCount' = m_processCount /\ closureCount_' = closureCount_
    BY <2>1, AddedCount DEF AddedJob, closures, ServerTypes
  <2>3. AdderCount = 1 /\ AdderCount' = 0
    BY ServerAssumption, ZenonT(30) DEF AddedJob, AdderCount
  <2> QED
    BY <1>1, <2>2, <2>3, CountTypes DEF CounterInv
<1>4. CASE GrowOld \/ stop \/ StopStep
  <2>1. UNCHANGED <<m_jobSet, m_processCount, closureCount_, adder>>
    BY <1>4, ZenonT(30) DEF GrowOld, stop, StopStep, join, flush, FlushWrite,
       stopAsyncRecursive, stopRecursive, onChildrenStopped, Stopped, unstopped,
       pathVars, env, queue, closures
  <2> USE <2>1
  <2>2. AdderCount' = AdderCount
    BY DEF AdderCount
  <2> QED
    BY <1>1, <2>2 DEF CounterInv
<1> QED
  BY <1>2, <1>3, <1>4 DEF EnvironmentStep

\* Every step keeps the counter exact.
LEMMA NextCounter ==
  ASSUME ServerTypes, CommandInv, CounterInv, [Next]_vars
  PROVE  CounterInv'
<1>1. ASSUME NEW w \in Thread, ThreadStep(w)
      PROVE  CounterInv'
  BY <1>1, ThreadSteps, ThreadCounter, TaskCounter, SMTT(30)
<1>2. CASE UNCHANGED vars
  <2>1. UNCHANGED <<m_jobSet, m_processCount, closureCount_, adder, pc, co>>
    BY <1>2 DEF vars, pathVars, env, queue, closures
  <2> QED
    BY <2>1 DEF CounterInv, AdderCount
<1> QED
  BY <1>1, <1>2, CoroCounter, EnvironmentCounter DEF Next, EnvironmentStep

\* When the counter is zero no job is counted, waits or runs: the threads have
\* left their jobs (ClosureCounter::join).
LEMMA Drained ==
  ASSUME ServerTypes, CounterInv, closureCount_ = 0
  PROVE  /\ m_jobSet = {} /\ adder = 0
         /\ \A w \in Thread : pc[w] \in Outside
         /\ \A c \in Coro : co[c] # "wrapped"
<1>1. /\ Count(co, {"wrapped"}) = 0 /\ Count(pc, InJob) = 0
      /\ Cardinality(m_jobSet) = 0 /\ AdderCount = 0
  <2>1. \A i, k, l, m, n \in Nat :
          i + k + l + m + n = 0 => i = 0 /\ k = 0 /\ m = 0 /\ n = 0
    OBVIOUS
  <2>2. Count(co, {"wrapped"}) + Count(pc, InJob) + Count(pc, AddLabel)
          + Cardinality(m_jobSet) + AdderCount = 0
    BY DEF CounterInv
  <2> QED
    BY <2>1, <2>2, CountTypes
<1>2. IsFiniteSet(DOMAIN pc) /\ IsFiniteSet(DOMAIN co)
      /\ DOMAIN pc = Thread /\ DOMAIN co = Coro
  BY QueueAssumption DEF ServerTypes, QueueTypes, PathTypes
<1> USE <1>1
<1>3. \A w \in Thread : pc[w] \notin InJob
  BY <1>2, CountZero
<1>4. \A w \in Thread : pc[w] \in Outside
  BY <1>3 DEF ServerTypes, QueueTypes, Label
<1>5. \A c \in Coro : co[c] \notin {"wrapped"}
  BY <1>2, CountZero
<1>6. m_jobSet = {}
  BY FS_EmptySet, Zenon DEF ServerTypes, QueueTypes, QueueData
<1>7. adder = 0
  BY DEF AdderCount
<1> QED
  BY <1>4, <1>5, <1>6, <1>7, ZenonT(30)

\* While the process count is zero every thread is idle or looks for a job.
LEMMA NoProcess ==
  ASSUME ServerTypes, CounterInv, m_processCount = 0
  PROVE  \A w \in Thread : pc[w] \in NoWork
<1>1. IsFiniteSet(DOMAIN pc) /\ DOMAIN pc = Thread /\ Count(pc, Working) = 0
  BY QueueAssumption DEF ServerTypes, QueueTypes, CounterInv
<1>2. \A w \in Thread : pc[w] \notin Working
  BY <1>1, CountZero
<1> QED
  BY <1>2 DEF ServerTypes, QueueTypes, Label, Outside, Working

\* What the phases say of the threads and of the coroutines.
LEMMA DrainedPhase ==
  ASSUME ServerTypes, CounterInv, StopInv, stopper \in DrainPhase
  PROVE  /\ closureCount_ = 0 /\ waitForClosures_
         /\ m_jobSet = {} /\ adder = 0
         /\ \A w \in Thread : pc[w] \in Outside
         /\ \A c \in Coro : co[c] # "wrapped"
<1>1. closureCount_ = 0 /\ waitForClosures_
  BY DEF StopInv, DrainPhase, ClosedPhase, LastPhase
<1> QED
  BY <1>1, Drained

-------------------------------------------------------------------------------
(* The types. *)

\* A job that is added has the next number (queueJob).
LEMMA AddedData ==
  ASSUME QueueData, NEW t \in JobType, NEW c, t # jtCLIENT => c = NoCoro,
         addRefCountedJob(t, c)
  PROVE  QueueData'
<1> USE DEF QueueData
<1> DEFINE j == [type |-> t, index |-> m_lastJob', coro |-> c]
<1>1. m_lastJob' \in Nat /\ m_lastJob' = m_lastJob + 1 /\ tasks' \in Nat
  BY DEF addRefCountedJob
<1>2. m_jobSet' = m_jobSet \cup {j}
  BY DEF addRefCountedJob
<1>3. IsFiniteSet(m_jobSet')
  BY <1>2, FS_AddElement, ZenonT(30)
<1>4. JobOK(j) /\ j.index <= m_lastJob'
  BY <1>1, SMTT(30) DEF JobOK
<1>5. \A k \in m_jobSet' : JobOK(k) /\ k.index <= m_lastJob'
  <2> TAKE k \in m_jobSet'
  <2>1. CASE k \in m_jobSet
    BY <1>1, <2>1, SMTT(30) DEF JobOK
  <2>2. CASE k = j
    BY <1>4, <2>2, ZenonT(30)
  <2> QED
    BY <1>2, <2>1, <2>2, SMTT(30)
<1>6. m_jobData' \in [JobType -> JobData]
  BY DEF addRefCountedJob, JobData
<1>7. m_processCount' \in Int
  BY DEF addRefCountedJob
<1> QED
  BY <1>1, <1>3, <1>5, <1>6, <1>7

\* A step of a thread inside a job keeps the types of the queue.
LEMMA ThreadQueueTypes ==
  ASSUME QueueTypes, NEW w \in Thread, Calm(w) \/ CountsJob(w) \/ AddsJob(w)
  PROVE  QueueTypes'
<1> USE DEF QueueTypes
<1>1. QueueData'
  <2>1. CASE Calm(w) \/ CountsJob(w)
    BY <2>1, ZenonT(30) DEF Calm, CountsJob, queue, QueueData
  <2>2. CASE AddsJob(w)
    BY <2>2, AddedData, ZenonT(30) DEF AddsJob
  <2> QED
    BY <2>1, <2>2, SMTT(30)
<1>2. UNCHANGED <<stopping, job>> /\ waitForClosures_' = waitForClosures_
      /\ closureCount_' \in Int
  BY SMTT(30) DEF Calm, CountsJob, AddsJob, closures, Wrap
<1>3. pc[w] \in InJob /\ GoesTo(w, InJob)
  BY SMTT(30) DEF Calm, CountsJob, AddsJob, GoesTo, InJob
<1>4. pc' \in [Thread -> Label]
      /\ \A v \in Thread : pc'[v] \notin NoWork => pc[v] \notin NoWork
  BY <1>3 DEF GoesTo, InJob, Label, Plain, PathLabel, StoreLabel, WriteLabel,
     AddLabel, Outside, NoWork
<1> QED
  BY <1>1, <1>2, <1>4 DEF stopping

\* So does a step of processTask: taking a job, finishing it, destroying it.
LEMMA TaskQueueTypes ==
  ASSUME QueueTypes, NEW w \in Thread, processTask(w)
  PROVE  QueueTypes'
<1> USE DEF QueueTypes
<1>1. CASE TakeTask(w)
  <2>1. /\ tasks > 0 /\ tasks' = tasks - 1 /\ pc' = [pc EXCEPT ![w] = "take"]
        /\ UNCHANGED <<m_jobSet, m_lastJob, m_jobData, m_processCount>>
        /\ UNCHANGED <<closureCount_, waitForClosures_, job>>
        /\ UNCHANGED <<m_childrenStopped, m_is_stopping, m_stopped, stopper>>
    BY <1>1, ZenonT(30) DEF TakeTask, closures, stopping
  <2> USE <2>1
  <2>2. tasks' \in Nat
    <3>1. tasks \in Nat
      BY Zenon DEF QueueData
    <3> HIDE <2>1 DEF QueueTypes
    <3>2. tasks > 0 /\ tasks' = tasks - 1
      BY <2>1, Zenon
    <3> QED
      BY <3>1, <3>2
  <2>3. QueueData'
    BY <2>2, ZenonT(30) DEF QueueData
  <2>4. "take" \in NoWork /\ "take" \in Label
    BY SMTT(30) DEF Label, Outside, NoWork
  <2>5. \A v \in Thread : pc'[v] = IF v = w THEN "take" ELSE pc[v]
    BY SMTT(30)
  <2> USE <2>4
  <2>6. pc' \in [Thread -> Label]
    OBVIOUS
  <2>7. \A v \in Thread : pc'[v] \notin NoWork => JobOK(job'[v])
    BY <2>5, ZenonT(30)
  <2> QED
    BY <2>3, <2>6, <2>7, ZenonT(30)
<1>2. CASE getNextJob(w, Start)
  <2>1. PICK j \in Runnable :
          /\ m_jobSet' = m_jobSet \ {j}
          /\ m_jobData' = [m_jobData EXCEPT ![j.type].waiting = @ - 1,
                                            ![j.type].running = @ + 1]
          /\ job' = [job EXCEPT ![w] = j]
          /\ pc' = [pc EXCEPT ![w] = Start[j.type]]
    BY <1>2, Zenon DEF getNextJob
  <2> USE <2>1
  <2>2. j \in m_jobSet /\ JobOK(j)
    BY DEF Runnable, QueueData
  <2>3. Start[j.type] \in Plain
    BY <2>2, ServerAssumption DEF JobOK, Start, Plain, PathLabel, StoreLabel,
       WriteLabel
  <2>4. QueueData'
    <3>1. IsFiniteSet(m_jobSet')
      BY FS_RemoveElement, ZenonT(30) DEF QueueData
    <3>2. m_jobData' \in [JobType -> JobData]
      BY <2>2 DEF JobData, JobOK, QueueData
    <3> QED
      BY <1>2, <3>1, <3>2 DEF QueueData, getNextJob
  <2>5. pc' \in [Thread -> Label] /\ DOMAIN job' = Thread
    BY <2>3 DEF Label, InJob
  <2>6. \A v \in Thread : pc'[v] \notin NoWork => JobOK(job'[v])
    BY <2>2, SMTT(30)
  <2> QED
    BY <1>2, <2>4, <2>5, <2>6, SMTT(30) DEF getNextJob, closures, stopping
<1>3. CASE DestroyJob(w)
  <2>1. UNCHANGED queue /\ UNCHANGED <<waitForClosures_, stopping, job>>
        /\ closureCount_' = closureCount_ - 1
        /\ pc[w] = "destroy" /\ pc' = [pc EXCEPT ![w] = "finish"]
    BY <1>3, SMTT(30) DEF DestroyJob
  <2> USE <2>1
  <2>2. QueueData'
    BY ZenonT(30) DEF queue, QueueData
  <2>3. /\ pc' \in [Thread -> Label]
        /\ \A v \in Thread : pc'[v] \notin NoWork => pc[v] \notin NoWork
    BY ZenonT(30) DEF Label, Outside, NoWork
  <2>4. closureCount_' \in Int
    BY SMTT(30)
  <2> QED
    BY <2>2, <2>3, <2>4, ZenonT(30) DEF stopping
<1>4. CASE finishJob(w)
  <2> USE <1>4
  <2>1. JobOK(job[w])
    BY ZenonT(30) DEF finishJob, NoWork
  <2>2. m_jobData' \in [JobType -> JobData] /\ tasks' \in Nat
    <3>1. /\ job[w].type \in JobType /\ m_jobData \in [JobType -> JobData]
          /\ tasks \in Nat
      BY <2>1, ZenonT(30) DEF JobOK, QueueData
    <3> DEFINE more == m_jobData[job[w].type].deferred > 0
    <3>2. /\ tasks' = IF more THEN tasks + 1 ELSE tasks
          /\ m_jobData' = [m_jobData EXCEPT
                             ![job[w].type].deferred = IF more THEN @ - 1 ELSE @,
                             ![job[w].type].running = @ - 1]
      BY ZenonT(30) DEF finishJob
    <3> HIDE <1>4 DEF QueueTypes
    <3>3. m_jobData' \in [JobType -> JobData]
      BY <3>1, <3>2, FinishedType, ZenonT(30)
    <3>4. tasks' \in Nat
      BY <3>1, <3>2
    <3> QED
      BY <3>3, <3>4, Zenon
  <2>3. pc' \in [Thread -> Label] /\ DOMAIN job' = Thread
    BY DEF finishJob, Label, Outside, NoWork
  <2>4. \A v \in Thread : pc'[v] \notin NoWork => JobOK(job'[v])
    BY DEF finishJob, NoWork
  <2>5. m_is_stopping' \in BOOLEAN
    BY ZenonT(30) DEF finishJob, checkStopped
  <2> QED
    BY <2>2, <2>3, <2>4, <2>5 DEF finishJob, QueueData, closures
<1> QED
  BY <1>1, <1>2, <1>3, <1>4, ZenonT(30) DEF processTask

\* Creating or serving a coroutine keeps the types.
LEMMA CoroQueueTypes ==
  ASSUME QueueTypes, PathTypes, NEW c \in Coro, CreateCoro(c) \/ Serve(c)
  PROVE  QueueTypes' /\ PathTypes'
<1> USE DEF QueueTypes
<1>1. UNCHANGED <<stopping, pc, job, m_server, todo, env>>
  BY Zenon DEF CreateCoro, Serve, PostNew, AddNew, expectEarlyExit, locals
<1>2. waitForClosures_' = waitForClosures_ /\ closureCount_' \in Int
  <2>1. /\ waitForClosures_' = waitForClosures_
        /\ \/ closureCount_' = closureCount_
           \/ closureCount_' = closureCount_ + 1
           \/ closureCount_' = closureCount_ - 1
    BY ZenonT(30) DEF CreateCoro, Serve, PostNew, AddNew, expectEarlyExit, closures,
       Wrap, WrapFails
  <2>2. closureCount_ \in Int
    BY Zenon
  <2> HIDE DEF QueueTypes
  <2> QED
    BY <2>1, <2>2
<1>3. QueueData'
  <2>1. CASE AddNew(c)
    <3>1. jtCLIENT \in JobType
      BY ServerAssumption, ZenonT(30)
    <3> QED
      BY <2>1, <3>1, AddedData DEF AddNew
  <2>2. CASE UNCHANGED queue
    BY <2>2, ZenonT(30) DEF queue, QueueData
  <2> QED
    BY <2>1, <2>2, ZenonT(30) DEF CreateCoro, Serve, PostNew, expectEarlyExit
<1>4. co' \in [Coro -> CoState]
  BY ZenonT(30) DEF CreateCoro, Serve, PostNew, AddNew, expectEarlyExit, PathTypes,
     CoState, Early
<1> USE <1>1
<1>5. QueueTypes'
  BY <1>2, <1>3 DEF stopping
<1>6. PathTypes'
  BY <1>4, Zenon DEF PathTypes, env
<1> QED
  BY <1>5, <1>6, ZenonT(30)

\* So does a step of the rest of the server: a peer, the clock, the stop.
LEMMA EnvironmentQueueTypes ==
  ASSUME QueueTypes, PathTypes, EnvironmentStep
  PROVE  QueueTypes' /\ PathTypes'
<1> USE DEF QueueTypes
<1>1. ASSUME NEW t \in JobType, AddJob(t)
      PROVE  QueueTypes' /\ PathTypes'
  <2> USE <1>1
  <2>1. QueueTypes'
    BY DEF AddJob, queue, QueueData, Wrap, stopping
  <2>2. t # jtWRITE
    BY DEF AddJob, PathTypes
  <2> USE <2>2
  <2>3. /\ plan' \in [clients : Nat, jobs : [JobType -> Nat], may : SUBSET STRING]
        /\ plan'.jobs[jtWRITE] = 0
    BY DEF AddJob, PathTypes
  <2> USE ZenonT(30)
  <2>4. PathTypes'
    BY <2>3 DEF AddJob, PathTypes, locals
  <2> QED
    BY <2>1, <2>4
<1>2. CASE AddedJob
  <2> USE <1>2
  <2>1. QueueData'
    <3>1. /\ adder \in JobType
          /\ adder # jtCLIENT => NoCoro = NoCoro
          /\ addRefCountedJob(adder, NoCoro)
      BY DEF AddedJob
    <3> QED
      BY <3>1, AddedData
  <2>2. QueueTypes'
    BY <2>1 DEF AddedJob, closures, stopping
  <2> USE ZenonT(30)
  <2>3. PathTypes'
    BY ServerAssumption DEF AddedJob, PathTypes, locals
  <2> QED
    BY <2>2, <2>3
<1>3. CASE GrowOld
  BY <1>3, ZenonT(30)
     DEF GrowOld, queue, QueueData, closures, stopping, PathTypes, env,
     locals
<1>4. ASSUME UNCHANGED <<queue, closureCount_, pc, job, co, todo, env>>,
             waitForClosures_' \in BOOLEAN, m_childrenStopped' \in BOOLEAN,
             m_is_stopping' \in BOOLEAN, m_stopped' \in BOOLEAN,
             stopper' \in StopPhase, m_server' \in {"open", "closed"}
      PROVE  QueueTypes' /\ PathTypes'
  <2> USE <1>4
  <2>1. QueueTypes'
    BY ZenonT(30) DEF queue, QueueData
  <2>2. PathTypes'
    BY ZenonT(30) DEF PathTypes, env
  <2> QED
    BY <2>1, <2>2, ZenonT(30)
<1>5. CASE stop \/ join \/ stopAsyncRecursive \/ stopRecursive \/ Stopped
  <2> USE <1>5, ZenonT(30)
  <2>1. UNCHANGED <<queue, closureCount_, pc, job, co, todo, env>>
    BY DEF stop, join, stopAsyncRecursive, stopRecursive, Stopped, unstopped,
       locals
  <2>2. /\ waitForClosures_' \in BOOLEAN /\ m_childrenStopped' \in BOOLEAN
        /\ m_is_stopping' \in BOOLEAN /\ m_stopped' \in BOOLEAN
    BY DEF stop, join, stopAsyncRecursive, stopRecursive, Stopped
  <2>3. stopper' \in StopPhase /\ m_server' \in {"open", "closed"}
    BY DEF stop, join, stopAsyncRecursive, stopRecursive, Stopped, StopPhase,
       DrainPhase, ClosedPhase, LastPhase, PathTypes
  <2> QED
    BY <1>4, <2>1, <2>2, <2>3
<1>6. CASE onChildrenStopped
  <2> USE <1>6
  <2>1. m_is_stopping' \in BOOLEAN
    BY DEF onChildrenStopped, checkStopped
  <2> USE ZenonT(30)
  <2>2. stopper' \in StopPhase
    BY DEF onChildrenStopped, StopPhase, DrainPhase, ClosedPhase, LastPhase
  <2> QED
    BY <1>4, <2>1, <2>2 DEF onChildrenStopped, unstopped, locals, PathTypes
<1>7. CASE (flush \/ FlushWrite) /\ UNCHANGED pathVars
  <2> USE <1>7
  <2>1. stopper' \in StopPhase
    BY ZenonT(30) DEF flush, FlushWrite, TakeBatch, NothingStale, WriteBatch, StopPhase,
       DrainPhase
  <2>2. UNCHANGED <<co, todo, env, m_server>>
    BY Zenon DEF pathVars, locals
  <2>3. UNCHANGED <<queue, closures, pc, job, m_childrenStopped, m_is_stopping,
                    m_stopped>>
    BY ZenonT(30) DEF flush, FlushWrite
  <2> QED
    BY <1>4, <2>1, <2>2, <2>3, ZenonT(30) DEF closures, PathTypes
<1> QED
  BY <1>1, <1>2, <1>3, <1>5, <1>6, <1>7, ZenonT(30)
     DEF EnvironmentStep, StopStep

-------------------------------------------------------------------------------
(* The commands. *)

CommandLabel ==
  {"publish", "command", "newPFWork", "addPF", "answerPF", "yield", "status"}

BegunKept == \A c \in Coro : co[c] \notin Early => co'[c] \notin Early

\* What one thread does leaves the commands of the others alone.
LEMMA OthersCommand ==
  ASSUME CommandInv, BegunKept, NEW w \in Thread, OwnCommand(w)',
         \A v \in Thread \ {w} :
           pc'[v] = pc[v] /\ job'[v] = job[v] /\ todo'[v] = todo[v]
  PROVE  CommandInv'
<1>1. ASSUME NEW v \in Thread, v # w
      PROVE  OwnCommand(v)'
  <2>1. OwnCommand(v) /\ pc'[v] = pc[v] /\ job'[v] = job[v] /\ todo'[v] = todo[v]
    BY <1>1, Zenon DEF CommandInv
  <2> USE <2>1
  <2>2. CoroOf(v)' = CoroOf(v)
    BY Zenon DEF CoroOf
  <2> QED
    BY <2>2, ZenonT(30) DEF OwnCommand, Begun, BegunKept
<1> QED
  BY <1>1, SMTT(30) DEF CommandInv

\* A thread that leaves the command, or is not in one, has nothing to show.
LEMMA QuietCommand ==
  ASSUME QueueTypes, PathTypes, CommandInv, BegunKept, NEW w \in Thread,
         GoesTo(w, Label \ CommandLabel), UNCHANGED job,
         todo' = todo \/ \E s : todo' = [todo EXCEPT ![w] = s]
  PROVE  CommandInv' /\ DOMAIN todo' = Thread
<1>1. /\ \A v \in Thread \ {w} : pc'[v] = pc[v] /\ todo'[v] = todo[v]
      /\ pc'[w] \notin CommandLabel
      /\ DOMAIN todo' = Thread
  <2>1. DOMAIN pc = Thread /\ DOMAIN todo = Thread
    BY Zenon DEF QueueTypes, PathTypes
  <2>2. PICK l \in Label \ CommandLabel : pc' = [pc EXCEPT ![w] = l]
    BY Zenon DEF GoesTo
  <2> QED
    BY <2>1, <2>2, Zenon
<1> USE <1>1
<1>2. OwnCommand(w)'
  BY ZenonT(30) DEF OwnCommand, CommandLabel
<1> QED
  BY <1>2, OthersCommand, Zenon

\* A command's own steps keep what its label says of the command.
LEMMA CommandCommand ==
  ASSUME ServerTypes, CommandInv, NEW w \in Thread, Command(w)
  PROVE  CommandInv' /\ DOMAIN todo' = Thread
<1> USE DEF Goto
<1>1. UNCHANGED <<job, todo>> /\ DOMAIN todo' = Thread
  BY Zenon
     DEF Command, resume, EnterCoro, insertPathRequest, OtherCommand, newPFWork,
     AddPF, AnswerPF, yield, EndCoro, Publish, newOrderBookDB, locals,
     ServerTypes, PathTypes
<1> SUFFICES CommandInv'
  BY <1>1
<1>2. BegunKept
  <2>1. CoroKept \/ UNCHANGED co
    BY CommandSteps, ZenonT(30) DEF Calm, CountsJob, AddsJob
  <2> QED
    BY <2>1 DEF CoroKept, BegunKept
<1>3. OwnCommand(w) /\ CoroOf(w)' = CoroOf(w) /\ job'[w] = job[w]
  BY <1>1, Zenon DEF CommandInv, CoroOf
<1>4. \A l : pc' = [pc EXCEPT ![w] = l] => pc'[w] = l
             /\ \A v \in Thread \ {w} : pc'[v] = pc[v]
  BY DEF ServerTypes, QueueTypes
<1>5. JobOK(job[w]) \/ pc[w] \in NoWork
  BY Zenon DEF ServerTypes, QueueTypes
<1>6. \A c : Begun(c) => Begun(c)'
  BY <1>2, Zenon DEF Begun, BegunKept
<1>7. OwnCommand(w)' /\ (\E l : pc' = [pc EXCEPT ![w] = l]) => CommandInv'
  BY <1>1, <1>2, <1>4, OthersCommand, Zenon
<1>8. \A l : pc' = [pc EXCEPT ![w] = l] /\ l \notin CommandLabel => CommandInv'
  BY <1>4, <1>7, Zenon DEF OwnCommand, CommandLabel
<1>9. CASE EnterCoro(w)
  <2>1. PICK l : pc' = [pc EXCEPT ![w] = l]
    BY <1>9 DEF EnterCoro
  <2> USE <2>1
  <2>2. CASE l = "command" \/ l = "status"
    <3>1. Begun(CoroOf(w))
      BY <1>4, <1>9, <2>2, ZenonT(30) DEF EnterCoro, AfterCoro, Begun, Early
    <3>2. Begun(job[w].coro) \/ l = "status"
      <4>1. CASE job[w].type = jtCLIENT
        BY <3>1, <4>1, Zenon DEF CoroOf
      <4>2. CASE job[w].type # jtCLIENT
        BY <1>5, <1>9, <4>2, QueueAssumption, ZenonT(30) DEF EnterCoro, NoWork, JobOK, Begun
      <4> QED
        BY <4>1, <4>2
    <3> USE Zenon
    <3>3. OwnCommand(w)'
      BY <1>3, <1>4, <1>6, <2>2, <3>1, <3>2, ZenonT(30) DEF OwnCommand
    <3> QED
      BY <1>7, <3>3
  <2>3. CASE l \notin CommandLabel
    BY <1>8, <2>3, Zenon
  <2>4. l \in {"command", "status", "destroy", "completed"}
    BY <1>4, <1>9, ZenonT(30) DEF EnterCoro, AfterCoro
  <2> QED
    BY <2>2, <2>3, <2>4, ZenonT(30) DEF CommandLabel
<1>10. CASE insertPathRequest(w) \/ OtherCommand(w)
  <2> USE <1>10
  <2>1. Begun(job[w].coro)' /\ Begun(CoroOf(w))'
    BY <1>3, <1>6, Zenon DEF OwnCommand, insertPathRequest, OtherCommand
  <2>2. OwnCommand(w)'
    BY <1>4, <2>1, Zenon DEF OwnCommand, insertPathRequest, OtherCommand
  <2> QED
    BY <1>7, <2>2, Zenon DEF insertPathRequest, OtherCommand
<1>11. CASE newPFWork(w) \/ AddPF(w)
  <2> USE <1>11
  <2>1. Begun(job[w].coro)'
    BY <1>3, <1>6 DEF OwnCommand, newPFWork, AddPF
  <2>2. pc'[w] \in {"addPF", "answerPF"} /\ \E l : pc' = [pc EXCEPT ![w] = l]
    BY <1>4, Zenon DEF newPFWork, AddPF
  <2> USE <2>2
  <2>3. OwnCommand(w)'
    BY <2>1, Zenon DEF OwnCommand
  <2> QED
    BY <1>7, <2>3, ZenonT(30)
<1>12. CASE AnswerPF(w)
  <2>1. Begun(job[w].coro)'
    BY <1>3, <1>6, <1>12, Zenon DEF OwnCommand, AnswerPF
  <2>2. CASE job[w].type = jtCLIENT
    <3> USE <2>1
    <3>1. Begun(CoroOf(w))'
      BY <1>3, <2>2, ZenonT(30) DEF CoroOf
    <3>2. PICK l \in {"yield", "status", "destroy"} : pc' = [pc EXCEPT ![w] = l]
      BY <1>12 DEF AnswerPF
    <3> USE <3>2
    <3>3. OwnCommand(w)'
      BY <1>4, <3>1, Zenon DEF OwnCommand
    <3> QED
      BY <1>7, <3>3, ZenonT(30)
  <2>3. CASE pc' = [pc EXCEPT ![w] = "destroy"]
    BY <1>8, <2>3, Zenon DEF CommandLabel
  <2> QED
    BY <1>12, <2>2, <2>3, Zenon DEF AnswerPF
<1>13. CASE resume(w) \/ yield(w) \/ EndCoro(w)
  <2>1. PICK l \in {"enter", "destroy", "completed"} : pc' = [pc EXCEPT ![w] = l]
    BY <1>13 DEF resume, yield, EndCoro, AfterCoro
  <2> QED
    BY <1>8, <2>1, ZenonT(30) DEF CommandLabel
<1>14. CASE Publish(w) \/ newOrderBookDB(w)
  <2> USE <1>3, <1>14, ZenonT(30)
  <2>1. job[w].coro = NoCoro
    BY <1>5 DEF Publish, newOrderBookDB, OwnCommand, JobOK, NoWork
  <2>2. Begun(job[w].coro)'
    BY <2>1, QueueAssumption DEF Begun
  <2>3. OwnCommand(w)'
    BY <1>4, <2>2 DEF Publish, newOrderBookDB, OwnCommand
  <2> QED
    BY <1>7, <2>3 DEF Publish, newOrderBookDB
<1> QED
  BY <1>9, <1>10, <1>11, <1>12, <1>13, <1>14 DEF Command

\* The steps of the path handler keep it.
LEMMA FindPathsCommand ==
  ASSUME ServerTypes, CommandInv, NEW w \in Thread, FindPaths(w)
  PROVE  CommandInv' /\ DOMAIN todo' = Thread
<1> USE DEF Goto, GoesTo
<1>1. UNCHANGED <<job, co>>
  BY Zenon
     DEF FindPaths, updatePaths, CancelPF, ChooseLedger, CheckAge, updateAll,
     FirstIsNew, Pick, MissingNode, updateComplete, PostCoro, Completed, Remove,
     NextRequest, PassDone, Refresh
<1>2. BegunKept
  BY <1>1, Zenon DEF BegunKept
<1>3. GoesTo(w, Label \ CommandLabel)
  <2> USE DEF Label, InJob, Plain, PathLabel, AddLabel, CommandLabel
  <2>1. CASE updatePaths(w) \/ CancelPF(w) \/ CheckAge(w) \/ updateAll(w)
             \/ FirstIsNew(w) \/ ChooseLedger(w)
    BY <2>1, Zenon DEF updatePaths, CancelPF, CheckAge, updateAll, FirstIsNew,
       ChooseLedger, LeavePF
  <2>2. CASE Pick(w) \/ MissingNode(w) \/ Completed(w) \/ Remove(w)
    BY <2>2, ZenonT(30) DEF Pick, MissingNode, Completed, Remove, LeaveUpdateAll
  <2>3. CASE NextRequest(w) \/ PassDone(w) \/ Refresh(w)
    BY <2>3, ZenonT(30) DEF NextRequest, PassDone, Refresh, LeaveUpdateAll
  <2>4. CASE updateComplete(w) \/ PostCoro(w)
    BY <2>4 DEF updateComplete, PostCoro
  <2> QED
    BY <2>1, <2>2, <2>3, <2>4, Zenon DEF FindPaths
<1>4. todo' = todo \/ \E s : todo' = [todo EXCEPT ![w] = s]
  BY Zenon
     DEF FindPaths, updatePaths, CancelPF, ChooseLedger, CheckAge, updateAll,
     FirstIsNew, Pick, MissingNode, updateComplete, PostCoro, Completed, Remove,
     NextRequest, PassDone, Refresh, LeaveUpdateAll, locals
<1> QED
  BY <1>1, <1>2, <1>3, <1>4, QuietCommand, ZenonT(30) DEF ServerTypes

\* The steps of the validation handler keep it.
LEMMA ValidateCommand ==
  ASSUME ServerTypes, CommandInv, NEW w \in Thread, Validate(w), UNCHANGED pathVars
  PROVE  CommandInv' /\ DOMAIN todo' = Thread
<1>1. UNCHANGED <<co, todo, job>>
  BY ZenonT(30) DEF pathVars, locals, Validate, addValidation, sweep, onStale, AddWrite,
     doStaleWrite
<1>2. GoesTo(w, Label \ CommandLabel)
  <2> USE DEF Goto, GoesTo, Label, InJob, Plain, PathLabel, AddLabel, StoreLabel,
         WriteLabel, CommandLabel
  <2>1. CASE addValidation(w) \/ sweep(w)
    BY <2>1, Zenon DEF addValidation, sweep
  <2>3. CASE doStaleWrite(w)
    BY <2>3, ZenonT(30) DEF doStaleWrite, TakeBatch, NothingStale, WriteBatch
  <2>2. CASE onStale(w) \/ AddWrite(w)
    BY <2>2 DEF onStale, AddWrite, AfterStale
  <2> QED
    BY <2>1, <2>2, <2>3, ZenonT(30) DEF Validate
<1> QED
  BY <1>1, <1>2, QuietCommand, SMTT(30) DEF ServerTypes, BegunKept

\* A step of processTask keeps it: it starts a command or ends one.
LEMMA TaskCommand ==
  ASSUME ServerTypes, CommandInv, NEW w \in Thread, processTask(w),
         UNCHANGED pathVars
  PROVE  CommandInv'
<1>0. UNCHANGED <<co, todo>> /\ BegunKept
  BY DEF pathVars, locals, BegunKept
<1>1. CASE TakeTask(w) \/ DestroyJob(w)
  <2> USE <1>1
  <2>1. GoesTo(w, Label \ CommandLabel)
    BY DEF GoesTo, TakeTask, DestroyJob, Label, Outside, NoWork, CommandLabel
  <2>2. UNCHANGED job
    BY SMTT(30) DEF TakeTask, DestroyJob
  <2> QED
    BY <1>0, <2>1, <2>2, QuietCommand, ZenonT(30) DEF ServerTypes
<1>2. CASE finishJob(w)
  <2>1. /\ \A v \in Thread \ {w} : pc'[v] = pc[v] /\ job'[v] = job[v]
        /\ pc'[w] = "idle"
    BY <1>2, Zenon DEF finishJob, ServerTypes, QueueTypes
  <2> USE <2>1
  <2>2. OwnCommand(w)'
    BY Zenon DEF OwnCommand
  <2> QED
    BY <1>0, <2>2, OthersCommand, ZenonT(30)
<1>3. CASE getNextJob(w, Start)
  <2>1. PICK j \in Runnable :
          /\ job' = [job EXCEPT ![w] = j]
          /\ pc' = [pc EXCEPT ![w] = Start[j.type]]
    BY <1>3, Zenon DEF getNextJob
  <2>2. JobOK(j)
    BY <2>1, Zenon DEF Runnable, ServerTypes, QueueTypes, QueueData
  <2>3. /\ \A v \in Thread \ {w} : pc'[v] = pc[v] /\ job'[v] = job[v]
        /\ pc'[w] = Start[j.type]
        /\ job'[w] = j
    BY <2>1, ZenonT(30) DEF ServerTypes, QueueTypes
  <2>4. /\ Start[j.type] \notin CommandLabel \ {"publish"}
        /\ Start[j.type] = "publish" => j.type # jtCLIENT
    BY <2>2, ServerAssumption, ZenonT(30) DEF JobOK, Start, CommandLabel
  <2> USE <2>3
  <2>5. OwnCommand(w)'
    BY <2>4, ZenonT(30) DEF OwnCommand, CommandLabel
  <2> QED
    BY <1>0, <2>5, OthersCommand, Zenon
<1> QED
  BY <1>1, <1>2, <1>3 DEF processTask

\* Every step keeps the types of the queue and of the commands.
LEMMA NextCommand ==
  ASSUME ServerTypes, CommandInv, [Next]_vars
  PROVE  QueueTypes' /\ PathTypes' /\ CommandInv'
<1> USE DEF ServerTypes
<1>1. ASSUME NEW w \in Thread, ThreadStep(w)
      PROVE  QueueTypes' /\ PathTypes' /\ CommandInv'
  <2>1. CASE processTask(w) /\ UNCHANGED <<pathVars, writerVars>>
    <3> USE <2>1
    <3>1. UNCHANGED <<co, m_server, todo, env>>
      BY DEF pathVars, locals
    <3>2. PathTypes'
      BY <3>1 DEF PathTypes, env
    <3> QED
      BY <3>2, TaskQueueTypes, TaskCommand, ZenonT(30)
  <2>2. CASE Command(w) \/ FindPaths(w) \/ (Validate(w) /\ UNCHANGED pathVars)
    <3>1. Calm(w) \/ CountsJob(w) \/ AddsJob(w)
      BY <2>2, CommandSteps, FindPathsSteps, ValidateSteps, ZenonT(30)
    <3>2. CommandInv' /\ DOMAIN todo' = Thread
      BY <2>2, CommandCommand, FindPathsCommand, ValidateCommand
    <3> USE <3>1
    <3>3. UNCHANGED <<m_server, env>> /\ co' \in [Coro -> CoState]
      BY ZenonT(30) DEF Calm, CountsJob, AddsJob, CoroKept, PathTypes
    <3> USE <3>2
    <3>4. PathTypes'
      BY <3>3 DEF PathTypes, env
    <3> QED
      BY <3>4, ThreadQueueTypes, Zenon
  <2> QED
    BY <1>1, <2>1, <2>2 DEF ThreadStep
<1>2. ASSUME UNCHANGED <<pc, job, todo>>, BegunKept
      PROVE  CommandInv'
  <2>1. \A w \in Thread : OwnCommand(w)'
    BY <1>2, ZenonT(30) DEF CommandInv, OwnCommand, Begun, BegunKept, CoroOf
  <2> QED
    BY <2>1, SMTT(30) DEF CommandInv
<1>3. ASSUME NEW c \in Coro, CreateCoro(c) \/ Serve(c)
      PROVE  QueueTypes' /\ PathTypes' /\ CommandInv'
  <2> USE <1>3
  <2>1. UNCHANGED <<pc, job, todo>>
    BY ZenonT(30) DEF CreateCoro, Serve, PostNew, AddNew, expectEarlyExit,
       locals
  <2>2. BegunKept
    BY ZenonT(30) DEF CreateCoro, Serve, PostNew, AddNew, expectEarlyExit,
       BegunKept, PathTypes, Early
  <2> QED
    BY <1>2, <2>1, <2>2, CoroQueueTypes, ZenonT(30)
<1>4. ASSUME EnvironmentStep
      PROVE  QueueTypes' /\ PathTypes' /\ CommandInv'
  <2> USE <1>4
  <2>1. UNCHANGED <<pc, job, todo, co>>
    BY Zenon DEF EnvironmentStep, AddJob, AddedJob, GrowOld, stop, StopStep,
       join, flush, FlushWrite, stopAsyncRecursive, stopRecursive,
       onChildrenStopped, Stopped, unstopped, locals, pathVars
  <2> QED
    BY <1>2, <2>1, EnvironmentQueueTypes DEF BegunKept
<1>5. CASE UNCHANGED vars
  <2>1. UNCHANGED <<queue, closures, stopping, pc, job, co, m_server, todo, env>>
    BY <1>5 DEF vars, pathVars, locals
  <2> QED
    BY <1>2, <2>1, ZenonT(30)
       DEF queue, closures, stopping, env, QueueTypes, QueueData,
       PathTypes, BegunKept
<1> QED
  BY <1>1, <1>3, <1>4, <1>5, ZenonT(30) DEF Next, EnvironmentStep

-------------------------------------------------------------------------------
(* The sets of validations. *)

\* A validation that arrives is a new one (RCLValidations, handleNewValidation).
LEMMA NewValidation ==
  ASSUME NEW n \in Nat, arrived = 1..n
  PROVE  /\ Cardinality(arrived) + 1 \notin arrived
         /\ arrived \cup {Cardinality(arrived) + 1} = 1..(n + 1)
<1>1. Cardinality(1..n) = IF 1 > n THEN 0 ELSE n - 1 + 1
  BY FS_Interval
<1>2. Cardinality(arrived) = n
  BY <1>1
<1> QED
  BY <1>2

\* Every step keeps the types of the writer's state.
LEMMA NextWriterTypes ==
  ASSUME WriterTypes, [Next]_vars
  PROVE  WriterTypes'
<1> USE DEF WriterTypes
<1>1. ASSUME NEW w \in Thread, addValidation(w)
      PROVE  WriterTypes'
  <2> USE <1>1
  <2>1. PICK v \in Validation, prior \in {{}} \cup {{u} : u \in current_} :
          /\ v = Cardinality(arrived) + 1
          /\ arrived' = arrived \cup {v}
          /\ current_' = (current_ \ prior) \cup {v}
          /\ handing' = [handing EXCEPT ![w] = prior]
    BY ZenonT(30) DEF addValidation
  <2> USE <2>1
  <2>2. \E n \in Nat : arrived' = 1..n
    BY NewValidation, SMTT(30)
  <2>3. arrived \subseteq arrived' /\ prior \subseteq arrived'
    BY SMTT(30)
  <2> USE <2>3
  <2>4. handing' \in [Thread -> SUBSET arrived']
    BY Zenon
  <2>5. currentStale' \in [Writer -> SUBSET arrived']
    BY Zenon DEF addValidation
  <2> QED
    BY <2>2, <2>4, <2>5, Zenon DEF addValidation
<1>2. ASSUME NEW w \in Thread, sweep(w) \/ onStale(w) \/ AddWrite(w)
      PROVE  WriterTypes'
  BY <1>2, Zenon DEF sweep, onStale, AddWrite
<1>3. ASSUME NEW w \in Writer, NEW P, TakeBatch(w, P) \/ NothingStale(P),
             UNCHANGED <<arrived, current_, handing, database, anyNew>>
      PROVE  WriterTypes'
  BY <1>3, Zenon DEF TakeBatch, NothingStale
<1>4. ASSUME NEW w \in Writer, NEW P, WriteBatch(w, P),
             UNCHANGED <<arrived, current_, handing, staleValidations_,
                         staleWriting_, anyNew>>
      PROVE  WriterTypes'
  BY <1>4, Zenon DEF WriteBatch
<1>5. ASSUME NEW w \in Thread, doStaleWrite(w)
      PROVE  WriterTypes'
  <2>1. w \in Writer
    BY DEF Writer
  <2> QED
    BY <1>3, <1>4, <1>5, <2>1, ZenonT(30) DEF doStaleWrite
<1>6. CASE flush
  BY <1>6, ZenonT(30) DEF flush
<1>7. CASE FlushWrite
  <2>1. 0 \in Writer
    BY DEF Writer
  <2> QED
    BY <1>3, <1>4, <1>7, <2>1, ZenonT(30) DEF FlushWrite
<1>8. CASE UNCHANGED writerVars
  BY <1>8 DEF writerVars
<1> QED
  BY <1>1, <1>2, <1>5, <1>6, <1>7, <1>8, ZenonT(30)
     DEF Next, ThreadStep, Validate, AddJob, AddedJob, GrowOld, stop, StopStep,
     join, stopAsyncRecursive, stopRecursive, onChildrenStopped, Stopped,
     unstopped, vars

===============================================================================
