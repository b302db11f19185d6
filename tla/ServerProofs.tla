----------------------------- MODULE ServerProofs -----------------------------
(***************************************************************************)
(* What module Server guarantees for every number of threads and           *)
(* coroutines, every limit of the job types and every plan: a task finds a *)
(* job, a job that was counted is added before the queue stops, a queue    *)
(* that has stopped is drained, there is one writer of stale validations   *)
(* and the flush leaves none behind.                                       *)
(*                                                                         *)
(* The last two layers of the invariant come first: every validation is in *)
(* one place and there is one writer, and the stop goes through its phases *)
(* only when the number of jobs in flight allows it.                       *)
(***************************************************************************)
EXTENDS ServerJobs

-------------------------------------------------------------------------------
(* The validations: steps that leave them alone. *)

\* A thread that holds validations.
HoldLabel == {"onStale", "addWrite", "storing"}

\* The labels a step of a command or of updatePaths begins and ends at.
CallLabel == PathLabel \cup {"addPF", "postCoro"}

\* A command or the path handler moves only among its own labels.
LEMMA CallLabels ==
  ASSUME ServerTypes, NEW w \in Thread, Command(w) \/ FindPaths(w)
  PROVE  pc[w] \in CallLabel /\ GoesTo(w, CallLabel)
<1> USE DEF CallLabel, PathLabel, Goto, GoesTo
<1>1. CASE resume(w) \/ EnterCoro(w) \/ insertPathRequest(w) \/ OtherCommand(w)
  BY <1>1, ZenonT(30)
     DEF resume, EnterCoro, insertPathRequest, OtherCommand, AfterCoro
<1>2. CASE newPFWork(w) \/ AddPF(w) \/ AnswerPF(w)
  BY <1>2 DEF newPFWork, AddPF, AnswerPF
<1>3. CASE yield(w) \/ EndCoro(w) \/ Publish(w) \/ newOrderBookDB(w)
  BY <1>3, Zenon DEF yield, EndCoro, Publish, newOrderBookDB, AfterCoro
<1>4. CASE updatePaths(w) \/ CancelPF(w) \/ CheckAge(w) \/ updateAll(w)
           \/ FirstIsNew(w) \/ ChooseLedger(w)
  BY <1>4, ZenonT(30)
     DEF updatePaths, CancelPF, CheckAge, updateAll, FirstIsNew,
     ChooseLedger, LeavePF
<1>5. CASE Pick(w) \/ MissingNode(w) \/ Completed(w) \/ Remove(w)
  BY <1>5, ZenonT(30) DEF Pick, MissingNode, Completed, Remove, LeaveUpdateAll
<1>6. CASE NextRequest(w) \/ PassDone(w) \/ Refresh(w)
  BY <1>6 DEF NextRequest, PassDone, Refresh, LeaveUpdateAll
<1>7. CASE updateComplete(w) \/ PostCoro(w)
  BY <1>7 DEF updateComplete, PostCoro
<1> QED
  BY <1>1, <1>2, <1>3, <1>4, <1>5, <1>6, <1>7, ZenonT(30) DEF Command, FindPaths

\* Jobs of other types than the writer's leave the writer's alone.
LEMMA OtherJobs ==
  ASSUME NEW t \in JobType, t # jtWRITE, NEW c, addRefCountedJob(t, c)
  PROVE  JobsOf(jtWRITE)' = JobsOf(jtWRITE)
BY DEF addRefCountedJob, JobsOf

\* Neither adds a write job nor moves the stop.
LEMMA CallJobs ==
  ASSUME NEW w \in Thread, Command(w) \/ FindPaths(w)
  PROVE  JobsOf(jtWRITE)' = JobsOf(jtWRITE) /\ UNCHANGED <<stopper, waitForClosures_>>
<1>1. UNCHANGED <<stopper, waitForClosures_>>
  BY Zenon
     DEF Command, FindPaths, resume, EnterCoro, insertPathRequest, OtherCommand,
     newPFWork, AddPF, AnswerPF, yield, EndCoro, Publish, newOrderBookDB,
     updatePaths, CancelPF, ChooseLedger, CheckAge, updateAll, FirstIsNew, Pick,
     MissingNode, updateComplete, PostCoro, Completed, Remove, NextRequest,
     PassDone, Refresh, closures, stopping, Wrap, WrapFails
<1>2. \/ UNCHANGED queue
      \/ \E c : addRefCountedJob(jtUPDATE_PF, c) \/ addRefCountedJob(jtCLIENT, c)
  BY Zenon
     DEF Command, FindPaths, resume, EnterCoro, insertPathRequest, OtherCommand,
     newPFWork, AddPF, AnswerPF, yield, EndCoro, Publish, newOrderBookDB,
     updatePaths, CancelPF, ChooseLedger, CheckAge, updateAll, FirstIsNew, Pick,
     MissingNode, updateComplete, PostCoro, Completed, Remove, NextRequest,
     PassDone, Refresh
<1>3. UNCHANGED queue => JobsOf(jtWRITE)' = JobsOf(jtWRITE)
  BY ZenonT(30) DEF queue, JobsOf
<1> QED
  BY <1>1, <1>2, <1>3, OtherJobs, ServerAssumption

\* No thread that holds validations moves, and the stop holds none or goes on
\* to hold them.
LEMMA QuietPlaces ==
  ASSUME PlaceInv, UNCHANGED writerVars,
         \A v \in Thread : pc'[v] = pc[v] \/ (/\ pc[v] \notin HoldLabel
                                              /\ pc'[v] \notin HoldLabel),
         stopper' # "storing" => stopper # "storing"
  PROVE  PlaceInv'
<1>1. UNCHANGED <<arrived, current_, handing, staleValidations_, currentStale,
                  database>>
  BY ZenonT(30) DEF writerVars
<1>2. \A v \in Thread :
        /\ pc'[v] \notin {"onStale", "addWrite"} => handing[v] = {}
        /\ pc'[v] # "storing" => currentStale[v] = {}
  BY DEF PlaceInv, HoldLabel
<1> QED
  BY <1>1, <1>2 DEF PlaceInv, Writer

\* The writers in terms of the counts.
StopWrites == IF stopper \in {"flushing", "storing"} THEN 1 ELSE 0

\* The writers, as the sum of their three kinds.
LEMMA WritersCount ==
  ASSUME QueueTypes
  PROVE  Writers = Cardinality(JobsOf(jtWRITE)) + Count(pc, WriteLabel) + StopWrites
<1>1. {j \in m_jobSet : j.type = jtWRITE} = JobsOf(jtWRITE)
  BY DEF JobsOf
<1>2. {w \in Thread : pc[w] \in {"staleWrite", "storing"}} = At(pc, WriteLabel)
  BY DEF At, WriteLabel, QueueTypes
<1> QED
  BY <1>1, <1>2 DEF Writers, Count, StopWrites

\* The same of the next state.
LEMMA WritersCountNext ==
  ASSUME QueueTypes'
  PROVE  Writers' = Cardinality(JobsOf(jtWRITE)') + Count(pc', WriteLabel)
                      + StopWrites'
<1>1. {j \in m_jobSet' : j.type = jtWRITE} = JobsOf(jtWRITE)'
  BY DEF JobsOf
<1>2. {w \in Thread : pc'[w] \in {"staleWrite", "storing"}} = At(pc', WriteLabel)
  BY DEF At, WriteLabel, QueueTypes
<1> QED
  BY <1>1, <1>2 DEF Writers, Count, StopWrites

\* Each kind is a natural number.
LEMMA WriterTerms ==
  ASSUME QueueTypes
  PROVE  /\ Cardinality(JobsOf(jtWRITE)) \in Nat /\ Count(pc, WriteLabel) \in Nat
         /\ StopWrites \in Nat /\ WritingCount \in Nat
         /\ Writers \in Nat
<1>1. JobsOf(jtWRITE) \subseteq m_jobSet /\ IsFiniteSet(m_jobSet)
  BY DEF JobsOf, QueueTypes, QueueData
<1>2. Cardinality(JobsOf(jtWRITE)) \in Nat
  BY <1>1, FS_Subset, FS_CardinalityType
<1>3. IsFiniteSet(DOMAIN pc)
  BY QueueAssumption DEF QueueTypes
<1>4. Count(pc, WriteLabel) \in Nat
  BY <1>3, CountZero
<1>5. StopWrites \in Nat /\ WritingCount \in Nat
  BY DEF StopWrites, WritingCount
<1> QED
  BY <1>2, <1>4, <1>5, WritersCount, SMTT(30)

\* A step that leaves the writer's state and the number of writers alone
\* keeps the writer's invariant.
LEMMA QuietWriter ==
  ASSUME QueueTypes, QueueTypes', WriterInv, UNCHANGED writerVars,
         Writers' = Writers,
         \A v \in Thread : pc'[v] = pc[v] \/ (/\ pc[v] # "addWrite"
                                              /\ pc'[v] # "addWrite"),
         waitForClosures_ => waitForClosures_',
         stopper' \in DrainPhase => stopper \in DrainPhase,
         stopper' \in ClosedPhase \cup {"flushed"}
           => stopper \in ClosedPhase \cup {"flushed"}
  PROVE  WriterInv'
<1>1. UNCHANGED <<current_, staleValidations_, staleWriting_, anyNew>>
  BY DEF writerVars
<1>2. \A v \in Thread : pc'[v] = "addWrite" <=> pc[v] = "addWrite"
  OBVIOUS
<1> USE <1>2
<1>3. StaleFree' <=> StaleFree
  BY DEF StaleFree
<1> USE <1>1, ZenonT(30)
<1>4. WritingCount' = WritingCount
  BY DEF WritingCount
<1> QED
  BY <1>3, <1>4 DEF WriterInv

\* The writers stay when no writer's job comes or goes.
LEMMA SameWriters ==
  ASSUME QueueTypes, QueueTypes', JobsOf(jtWRITE)' = JobsOf(jtWRITE),
         \A v \in Thread : pc'[v] = pc[v] \/ (/\ pc[v] \notin WriteLabel
                                              /\ pc'[v] \notin WriteLabel),
         stopper \in {"flushing", "storing"} <=> stopper' \in {"flushing", "storing"}
  PROVE  Writers' = Writers
<1>1. At(pc', WriteLabel) = At(pc, WriteLabel)
  BY Zenon DEF At, QueueTypes
<1>2. Count(pc', WriteLabel) = Count(pc, WriteLabel)
  BY <1>1, Zenon DEF Count
<1>3. StopWrites' = StopWrites
  BY DEF StopWrites
<1> QED
  BY <1>2, <1>3, WritersCount, WritersCountNext

-------------------------------------------------------------------------------
(* The validations: each stays in one place. *)

\* The store hands over some of its validations, and may take a new one
\* (addValidation, sweep).
LEMMA HandOver ==
  ASSUME ServerTypes, PlaceInv, NEW w \in Thread, NEW aged \in SUBSET current_,
         NEW new, new \cap arrived = {},
         pc[w] = "validation", StoreFree,
         pc' = [pc EXCEPT ![w] = IF aged = {} THEN "destroy" ELSE "onStale"],
         arrived' = arrived \cup new,
         current_' = (current_ \ aged) \cup new,
         handing' = [handing EXCEPT ![w] = aged],
         UNCHANGED <<staleValidations_, currentStale, database, stopper>>
  PROVE  PlaceInv'
<1>1. /\ \A v \in Thread : handing[v] = {}
      /\ \A v \in Thread : handing'[v] = IF v = w THEN aged ELSE {}
      /\ \A v \in Thread : pc'[v] = IF v = w
                                    THEN IF aged = {} THEN "destroy" ELSE "onStale"
                                    ELSE pc[v]
  BY Zenon DEF StoreFree, ServerTypes, QueueTypes, WriterTypes
<1>2. /\ staleValidations_ \subseteq arrived /\ database \subseteq arrived
      /\ current_ \subseteq arrived
      /\ \A u \in Writer : currentStale[u] \subseteq arrived
  BY DEF ServerTypes, WriterTypes
<1>3. \A v \in arrived' :
        \/ v \in current_' \cup staleValidations_' \cup database'
        \/ \E u \in Thread : v \in handing'[u]
        \/ \E u \in Writer : v \in currentStale'[u]
  BY <1>1, SMTT(30) DEF PlaceInv
<1> USE <1>2
<1>4. /\ current_' \cap staleValidations_' = {}
      /\ current_' \cap database' = {}
      /\ staleValidations_' \cap database' = {}
  BY DEF PlaceInv
<1>5. ASSUME NEW v \in Thread
      PROVE  /\ handing'[v] \cap (current_' \cup staleValidations_' \cup database') = {}
             /\ \A u \in Writer : handing'[v] \cap currentStale'[u] = {}
             /\ \A u \in Thread : u # v => handing'[u] = {} \/ handing'[v] = {}
             /\ pc'[v] \notin {"onStale", "addWrite"} => handing'[v] = {}
             /\ pc'[v] # "storing" => currentStale'[v] = {}
  <2> USE <1>1
  <2>1. pc'[v] # "storing" => currentStale[v] = {}
    BY DEF PlaceInv
  <2>2. aged \cap (current_' \cup staleValidations_' \cup database') = {}
    BY DEF PlaceInv
  <2>3. \A u \in Writer : aged \cap currentStale[u] = {}
    BY DEF PlaceInv
  <2> QED
    BY <2>1, <2>2, <2>3, ZenonT(30)
<1>6. ASSUME NEW v \in Writer
      PROVE  /\ currentStale'[v]
                  \cap (current_' \cup staleValidations_' \cup database') = {}
             /\ \A u \in Writer : u # v => currentStale'[u] \cap currentStale'[v] = {}
  BY DEF PlaceInv
<1>7. stopper' # "storing" => currentStale'[0] = {}
  BY Zenon DEF PlaceInv
<1> QED
  BY <1>3, <1>4, <1>5, <1>6, <1>7, ZenonT(30) DEF PlaceInv

\* onStale keeps a validation that it was handed.
LEMMA StaleKept ==
  ASSUME ServerTypes, PlaceInv, NEW w \in Thread, onStale(w)
  PROVE  PlaceInv'
<1>1. PICK x \in handing[w] : /\ handing' = [handing EXCEPT ![w] = @ \ {x}]
                              /\ staleValidations_' = staleValidations_ \cup {x}
  BY Zenon DEF onStale
<1>2. UNCHANGED <<arrived, current_, currentStale, database, stopper>>
  BY DEF onStale, stopping
<1> USE <1>1
<1>3. /\ \A v \in Thread : handing'[v] = IF v = w THEN handing[w] \ {x} ELSE handing[v]
      /\ \A v \in Thread : v # w => pc'[v] = pc[v]
      /\ pc'[w] \notin {"onStale", "addWrite"} => handing'[w] = {}
      /\ pc'[w] # "storing" /\ pc[w] # "storing"
  BY ZenonT(30) DEF onStale, AfterStale, Goto, ServerTypes, QueueTypes, WriterTypes
<1> USE <1>2, <1>3
<1>4. \A v \in arrived' :
        \/ v \in current_' \cup staleValidations_' \cup database'
        \/ \E u \in Thread : v \in handing'[u]
        \/ \E u \in Writer : v \in currentStale'[u]
  BY DEF PlaceInv
<1>5. x \notin current_ \cup database /\ \A u \in Writer : x \notin currentStale[u]
  BY DEF PlaceInv
<1>6. /\ current_' \cap staleValidations_' = {}
      /\ current_' \cap database' = {}
      /\ staleValidations_' \cap database' = {}
  BY <1>5 DEF PlaceInv
<1>7. ASSUME NEW v \in Thread
      PROVE  /\ handing'[v] \cap (current_' \cup staleValidations_' \cup database') = {}
             /\ \A u \in Writer : handing'[v] \cap currentStale'[u] = {}
             /\ \A u \in Thread : u # v => handing'[u] = {} \/ handing'[v] = {}
             /\ pc'[v] \notin {"onStale", "addWrite"} => handing'[v] = {}
             /\ pc'[v] # "storing" => currentStale'[v] = {}
  <2>1. v # w => handing[v] = {}
    BY Zenon DEF PlaceInv
  <2>2. handing'[w] \cap (current_' \cup staleValidations_' \cup database') = {}
    BY DEF PlaceInv
  <2>3. \A u \in Writer : handing'[w] \cap currentStale'[u] = {}
    BY DEF PlaceInv
  <2>4. \A u \in Thread : u # w => handing'[u] = {}
    BY DEF PlaceInv
  <2>5. pc'[v] # "storing" => currentStale'[v] = {}
    BY Zenon DEF PlaceInv
  <2> QED
    BY <2>1, <2>2, <2>3, <2>4, <2>5, ZenonT(30)
<1>8. ASSUME NEW v \in Writer
      PROVE  /\ currentStale'[v]
                  \cap (current_' \cup staleValidations_' \cup database') = {}
             /\ \A u \in Writer : u # v => currentStale'[u] \cap currentStale'[v] = {}
  BY <1>5 DEF PlaceInv
<1>9. stopper' # "storing" => currentStale'[0] = {}
  BY Zenon DEF PlaceInv
<1> QED
  BY <1>4, <1>6, <1>7, <1>8, <1>9, ZenonT(30) DEF PlaceInv

\* The batch of a writer (doStaleWrite): the thread, or the stop, has none
\* before.
LEMMA BatchTaken ==
  ASSUME ServerTypes, PlaceInv, NEW b \in Writer, currentStale[b] = {},
         currentStale' = [currentStale EXCEPT ![b] = staleValidations_],
         staleValidations_' = {},
         UNCHANGED <<arrived, current_, handing, database>>,
         \A v \in Thread : pc'[v] = pc[v] \/ (/\ v = b
                                              /\ pc[v] = "staleWrite"
                                              /\ pc'[v] = "storing"),
         stopper' = stopper \/ (b = 0 /\ stopper' = "storing"),
         b = 0 => stopper' = "storing",
         b \in Thread => pc'[b] = "storing"
  PROVE  PlaceInv'
<1>1. \A u \in Writer :
        currentStale'[u] = IF u = b THEN staleValidations_ ELSE currentStale[u]
  BY DEF ServerTypes, WriterTypes
<1>2. \A v \in arrived' :
        \/ v \in current_' \cup staleValidations_' \cup database'
        \/ \E u \in Thread : v \in handing'[u]
        \/ \E u \in Writer : v \in currentStale'[u]
  <2> TAKE v \in arrived'
  <2>1. \/ v \in current_ \cup staleValidations_ \cup database
        \/ \E u \in Thread : v \in handing[u]
        \/ \E u \in Writer : v \in currentStale[u]
    BY Zenon DEF PlaceInv
  <2> USE <1>1
  <2>2. CASE v \in staleValidations_
    BY <2>2
  <2>3. CASE \E u \in Writer : v \in currentStale[u]
    BY <2>3, Zenon
  <2> QED
    BY <2>1, <2>2, <2>3, Zenon
<1>3. /\ current_' \cap staleValidations_' = {}
      /\ current_' \cap database' = {}
      /\ staleValidations_' \cap database' = {}
  BY Zenon DEF PlaceInv
<1>4. ASSUME NEW v \in Thread
      PROVE  /\ handing'[v] \cap (current_' \cup staleValidations_' \cup database') = {}
             /\ \A u \in Writer : handing'[v] \cap currentStale'[u] = {}
             /\ \A u \in Thread : u # v => handing'[u] = {} \/ handing'[v] = {}
             /\ pc'[v] \notin {"onStale", "addWrite"} => handing'[v] = {}
             /\ pc'[v] # "storing" => currentStale'[v] = {}
  <2>1. handing'[v] \cap (current_' \cup staleValidations_' \cup database') = {}
    BY Zenon DEF PlaceInv
  <2> USE <1>1
  <2>2. \A u \in Writer : handing'[v] \cap currentStale'[u] = {}
    BY DEF PlaceInv
  <2>3. /\ \A u \in Thread : u # v => handing'[u] = {} \/ handing'[v] = {}
        /\ pc'[v] \notin {"onStale", "addWrite"} => handing'[v] = {}
    BY Zenon DEF PlaceInv
  <2>4. pc'[v] # "storing" => currentStale'[v] = {}
    BY ZenonT(30) DEF PlaceInv, Writer
  <2> QED
    BY <2>1, <2>2, <2>3, <2>4, Zenon
<1>5. ASSUME NEW v \in Writer
      PROVE  /\ currentStale'[v]
                  \cap (current_' \cup staleValidations_' \cup database') = {}
             /\ \A u \in Writer : u # v => currentStale'[u] \cap currentStale'[v] = {}
  BY <1>1 DEF PlaceInv
<1>6. stopper' # "storing" => currentStale'[0] = {}
  BY <1>1, Zenon DEF PlaceInv, Writer
<1> QED
  BY <1>2, <1>3, <1>4, <1>5, <1>6, ZenonT(30) DEF PlaceInv

\* The batch is in the database.
LEMMA BatchWritten ==
  ASSUME ServerTypes, PlaceInv, NEW b \in Writer,
         database' = database \cup currentStale[b],
         currentStale' = [currentStale EXCEPT ![b] = {}],
         UNCHANGED <<arrived, current_, handing, staleValidations_>>,
         \A v \in Thread : pc'[v] = pc[v] \/ (/\ v = b
                                              /\ pc[v] = "storing"
                                              /\ pc'[v] = "staleWrite"),
         stopper' = stopper \/ b = 0
  PROVE  PlaceInv'
<1>1. \A u \in Writer :
        currentStale'[u] = IF u = b THEN {} ELSE currentStale[u]
  BY DEF ServerTypes, WriterTypes
<1> USE <1>1
<1>2. \A v \in arrived' :
        \/ v \in current_' \cup staleValidations_' \cup database'
        \/ \E u \in Thread : v \in handing'[u]
        \/ \E u \in Writer : v \in currentStale'[u]
  BY DEF PlaceInv
<1>3. /\ current_' \cap staleValidations_' = {}
      /\ current_' \cap database' = {}
      /\ staleValidations_' \cap database' = {}
  BY DEF PlaceInv
<1>4. ASSUME NEW v \in Thread
      PROVE  /\ handing'[v] \cap (current_' \cup staleValidations_' \cup database') = {}
             /\ \A u \in Writer : handing'[v] \cap currentStale'[u] = {}
             /\ \A u \in Thread : u # v => handing'[u] = {} \/ handing'[v] = {}
             /\ pc'[v] \notin {"onStale", "addWrite"} => handing'[v] = {}
             /\ pc'[v] # "storing" => currentStale'[v] = {}
  <2>1. handing'[v] \cap (current_' \cup staleValidations_' \cup database') = {}
    BY DEF PlaceInv
  <2>2. \A u \in Writer : handing'[v] \cap currentStale'[u] = {}
    BY DEF PlaceInv
  <2>3. /\ \A u \in Thread : u # v => handing'[u] = {} \/ handing'[v] = {}
        /\ pc'[v] \notin {"onStale", "addWrite"} => handing'[v] = {}
    BY DEF PlaceInv
  <2>4. pc'[v] # "storing" => currentStale'[v] = {}
    BY DEF PlaceInv, Writer
  <2> QED
    BY <2>1, <2>2, <2>3, <2>4, ZenonT(30)
<1>5. ASSUME NEW v \in Writer
      PROVE  /\ currentStale'[v]
                  \cap (current_' \cup staleValidations_' \cup database') = {}
             /\ \A u \in Writer : u # v => currentStale'[u] \cap currentStale'[v] = {}
  BY DEF PlaceInv
<1>6. stopper' # "storing" => currentStale'[0] = {}
  BY ZenonT(30) DEF PlaceInv, Writer
<1> QED
  BY <1>2, <1>3, <1>4, <1>5, <1>6, ZenonT(30) DEF PlaceInv

\* What is left when no validation moves.
LEMMA PlacesKept ==
  ASSUME PlaceInv,
         UNCHANGED <<arrived, current_, handing, staleValidations_, currentStale,
                     database>>,
         \A v \in Thread :
           /\ pc'[v] \notin {"onStale", "addWrite"} => handing[v] = {}
           /\ pc'[v] # "storing" => currentStale[v] = {},
         stopper' # "storing" => currentStale[0] = {}
  PROVE  PlaceInv'
BY DEF PlaceInv, Writer

\* The flush hands over what is in the store (Validations::flush).
LEMMA FlushPlaces ==
  ASSUME ServerTypes, PlaceInv, flush
  PROVE  PlaceInv'
<1>1. /\ staleValidations_' = staleValidations_ \cup current_ /\ current_' = {}
      /\ UNCHANGED <<arrived, handing, currentStale, database, pc>>
      /\ stopper = "joining" /\ stopper' # "storing"
      /\ \A v \in Thread : handing[v] = {}
  BY DEF flush, StoreFree
<1> USE <1>1
<1>2. \A v \in arrived' :
        \/ v \in current_' \cup staleValidations_' \cup database'
        \/ \E u \in Thread : v \in handing'[u]
        \/ \E u \in Writer : v \in currentStale'[u]
  BY DEF PlaceInv
<1>3. /\ current_' \cap staleValidations_' = {}
      /\ current_' \cap database' = {}
      /\ staleValidations_' \cap database' = {}
  BY DEF PlaceInv
<1>4. ASSUME NEW v \in Thread
      PROVE  /\ handing'[v] \cap (current_' \cup staleValidations_' \cup database') = {}
             /\ \A u \in Writer : handing'[v] \cap currentStale'[u] = {}
             /\ \A u \in Thread : u # v => handing'[u] = {} \/ handing'[v] = {}
             /\ pc'[v] \notin {"onStale", "addWrite"} => handing'[v] = {}
             /\ pc'[v] # "storing" => currentStale'[v] = {}
  BY DEF PlaceInv
<1>5. ASSUME NEW v \in Writer
      PROVE  /\ currentStale'[v]
                  \cap (current_' \cup staleValidations_' \cup database') = {}
             /\ \A u \in Writer : u # v => currentStale'[u] \cap currentStale'[v] = {}
  BY DEF PlaceInv
<1>6. stopper' # "storing" => currentStale'[0] = {}
  BY DEF PlaceInv
<1> QED
  BY <1>2, <1>3, <1>4, <1>5, <1>6, ZenonT(30) DEF PlaceInv

\* A step of the validation handler keeps every stale validation in one place.
LEMMA ValidatePlaces ==
  ASSUME ServerTypes, PlaceInv, NEW w \in Thread, Validate(w)
  PROVE  PlaceInv'
<1>0. \A l : pc' = [pc EXCEPT ![w] = l] =>
               pc'[w] = l /\ \A v \in Thread : v # w => pc'[v] = pc[v]
  BY DEF ServerTypes, QueueTypes
<1>1. CASE addValidation(w)
  <2>1. PICK v \in Validation, prior \in {{}} \cup {{u} : u \in current_} :
          /\ v = Cardinality(arrived) + 1
          /\ arrived' = arrived \cup {v}
          /\ current_' = (current_ \ prior) \cup {v}
          /\ handing' = [handing EXCEPT ![w] = prior]
          /\ pc' = [pc EXCEPT ![w] = IF prior = {} THEN "destroy" ELSE "onStale"]
    BY <1>1, Zenon DEF addValidation, Goto
  <2> USE <2>1
  <2>2. v \notin arrived
    BY NewValidation DEF ServerTypes, WriterTypes
  <2>3. {v} \cap arrived = {} /\ prior \in SUBSET current_
    BY <2>2
  <2>4. pc[w] = "validation" /\ StoreFree
        /\ UNCHANGED <<staleValidations_, currentStale, database, stopper>>
    BY <1>1 DEF addValidation, stopping
  <2> QED
    BY <2>3, <2>4, HandOver, Zenon
<1>2. CASE sweep(w)
  <2> USE <1>2
  <2>1. PICK aged \in SUBSET current_ :
          /\ current_' = current_ \ aged
          /\ handing' = [handing EXCEPT ![w] = aged]
          /\ pc' = [pc EXCEPT ![w] = IF aged = {} THEN "destroy" ELSE "onStale"]
    BY Zenon DEF sweep, Goto
  <2> USE <2>1
  <2>2. /\ pc[w] = "validation" /\ StoreFree
        /\ UNCHANGED <<staleValidations_, currentStale, database, stopper>>
        /\ arrived' = arrived \cup {} /\ {} \cap arrived = {}
        /\ current_' = (current_ \ aged) \cup {}
    BY DEF sweep, stopping
  <2> QED
    BY <2>2, HandOver, Zenon
<1>3. CASE onStale(w)
  BY <1>3, StaleKept
<1>4. CASE AddWrite(w)
  <2>1. UNCHANGED <<arrived, current_, handing, staleValidations_, currentStale,
                    database, stopper>>
        /\ pc[w] = "addWrite" /\ pc' = [pc EXCEPT ![w] = AfterStale(w)]
    BY <1>4, Zenon DEF AddWrite, stopping, Goto
  <2> USE <2>1
  <2>2. /\ pc'[w] \notin {"onStale", "addWrite"} => handing[w] = {}
        /\ pc'[w] # "storing" /\ \A v \in Thread : v # w => pc'[v] = pc[v]
    BY <1>0, Zenon DEF AfterStale
  <2>3. \A v \in Thread :
          /\ pc'[v] \notin {"onStale", "addWrite"} => handing[v] = {}
          /\ pc'[v] # "storing" => currentStale[v] = {}
    BY <2>2, ZenonT(30) DEF PlaceInv
  <2>4. stopper' # "storing" => currentStale[0] = {}
    BY DEF PlaceInv
  <2> QED
    BY <2>3, <2>4, PlacesKept, Zenon
<1>5. CASE doStaleWrite(w)
  <2>0. w \in Writer /\ w # 0 /\ UNCHANGED <<arrived, current_, handing, stopper>>
    BY <1>5, QueueAssumption DEF Writer, doStaleWrite, stopping
  <2>1. CASE pc[w] = "staleWrite" /\ TakeBatch(w, Goto(w, "storing"))
             /\ UNCHANGED database
    <3> USE <2>1
    <3>1. /\ currentStale' = [currentStale EXCEPT ![w] = staleValidations_]
          /\ staleValidations_' = {}
          /\ pc' = [pc EXCEPT ![w] = "storing"]
      BY DEF TakeBatch, Goto
    <3> USE <3>1, Zenon
    <3>2. /\ currentStale[w] = {} /\ pc'[w] = "storing"
          /\ \A v \in Thread : pc'[v] = pc[v] \/ (/\ v = w
                                                  /\ pc[v] = "staleWrite"
                                                  /\ pc'[v] = "storing")
      BY <1>0 DEF PlaceInv
    <3> QED
      BY <2>0, <3>2, BatchTaken
  <2>2. CASE pc[w] = "staleWrite" /\ NothingStale(Goto(w, "destroy"))
             /\ UNCHANGED database
    <3> USE <2>2, ZenonT(30)
    <3>1. /\ UNCHANGED <<currentStale, staleValidations_>>
          /\ pc' = [pc EXCEPT ![w] = "destroy"]
      BY DEF NothingStale, Goto
    <3> USE <3>1
    <3>2. \A v \in Thread :
            /\ pc'[v] \notin {"onStale", "addWrite"} => handing[v] = {}
            /\ pc'[v] # "storing" => currentStale[v] = {}
      BY <1>0 DEF PlaceInv
    <3> USE <2>0
    <3>3. stopper' # "storing" => currentStale[0] = {}
      BY DEF PlaceInv
    <3> QED
      BY <3>2, <3>3, PlacesKept
  <2>3. CASE pc[w] = "storing" /\ WriteBatch(w, Goto(w, "staleWrite"))
             /\ UNCHANGED staleValidations_
    <3> USE <2>3, ZenonT(30)
    <3>1. /\ database' = database \cup currentStale[w]
          /\ currentStale' = [currentStale EXCEPT ![w] = {}]
          /\ pc' = [pc EXCEPT ![w] = "staleWrite"]
      BY DEF WriteBatch, Goto
    <3> USE <3>1
    <3>2. \A v \in Thread : pc'[v] = pc[v] \/ (/\ v = w
                                               /\ pc[v] = "storing"
                                               /\ pc'[v] = "staleWrite")
      BY <1>0
    <3> QED
      BY <2>0, <3>2, BatchWritten
  <2> QED
    BY <1>5, <2>1, <2>2, <2>3, ZenonT(30) DEF doStaleWrite
<1> QED
  BY <1>1, <1>2, <1>3, <1>4, <1>5, ZenonT(30) DEF Validate

\* So does the write that flush does itself.
LEMMA FlushWritePlaces ==
  ASSUME ServerTypes, PlaceInv, FlushWrite
  PROVE  PlaceInv'
<1>0. 0 \in Writer /\ 0 \notin Thread
      /\ UNCHANGED <<arrived, current_, handing, pc>>
  BY QueueAssumption DEF Writer, FlushWrite
<1> USE <1>0
<1>1. CASE stopper = "flushing" /\ TakeBatch(0, stopper' = "storing")
           /\ UNCHANGED database
  <2> USE <1>1
  <2>1. /\ currentStale' = [currentStale EXCEPT ![0] = staleValidations_]
        /\ staleValidations_' = {} /\ stopper' = "storing"
        /\ currentStale[0] = {}
    BY DEF TakeBatch, PlaceInv
  <2> QED
    BY <2>1, BatchTaken, ZenonT(30)
<1>2. CASE stopper = "flushing" /\ NothingStale(stopper' = "flushed")
           /\ UNCHANGED database
  <2> USE <1>2
  <2>1. /\ UNCHANGED <<currentStale, staleValidations_>> /\ currentStale[0] = {}
        /\ \A v \in Thread :
             /\ pc'[v] \notin {"onStale", "addWrite"} => handing[v] = {}
             /\ pc'[v] # "storing" => currentStale[v] = {}
    BY DEF NothingStale, PlaceInv
  <2> QED
    BY <2>1, PlacesKept, ZenonT(30)
<1>3. CASE stopper = "storing" /\ WriteBatch(0, stopper' = "flushing")
           /\ UNCHANGED staleValidations_
  <2> USE <1>3
  <2>1. /\ database' = database \cup currentStale[0]
        /\ currentStale' = [currentStale EXCEPT ![0] = {}]
        /\ \A v \in Thread : pc'[v] = pc[v]
    BY DEF WriteBatch
  <2> QED
    BY <2>1, BatchWritten, Zenon
<1> QED
  BY <1>1, <1>2, <1>3 DEF FlushWrite

\* Every step keeps a stale validation in one place.
LEMMA NextPlaces ==
  ASSUME ServerTypes, PlaceInv, [Next]_vars
  PROVE  PlaceInv'
<1>1. ASSUME NEW w \in Thread, NEW l, l \notin HoldLabel, pc[w] \notin HoldLabel,
             pc' = [pc EXCEPT ![w] = l], UNCHANGED writerVars, UNCHANGED stopper
      PROVE  PlaceInv'
  <2> USE <1>1
  <2>1. \A v \in Thread : pc'[v] = pc[v] \/ (/\ pc[v] \notin HoldLabel
                                             /\ pc'[v] \notin HoldLabel)
    BY DEF ServerTypes, QueueTypes
  <2> QED
    BY <2>1, QuietPlaces
<1>2. ASSUME NEW w \in Thread, Command(w) \/ FindPaths(w), UNCHANGED writerVars
      PROVE  PlaceInv'
  <2> USE <1>2
  <2>1. pc[w] \in CallLabel /\ GoesTo(w, CallLabel) /\ UNCHANGED stopper
    BY CallLabels, CallJobs
  <2>2. \A l \in CallLabel : l \notin HoldLabel
    BY DEF CallLabel, PathLabel, HoldLabel
  <2> QED
    BY <1>1, <2>1, <2>2, ZenonT(30) DEF GoesTo
<1>3. ASSUME NEW w \in Thread, processTask(w), UNCHANGED writerVars
      PROVE  PlaceInv'
  <2> USE <1>3
  <2>1. CASE TakeTask(w)
    BY <1>1, <2>1, Zenon DEF TakeTask, HoldLabel, stopping
  <2>2. CASE DestroyJob(w)
    BY <1>1, <2>2, Zenon DEF DestroyJob, HoldLabel, stopping
  <2>3. CASE finishJob(w)
    BY <1>1, <2>3, ZenonT(30) DEF finishJob, HoldLabel
  <2>4. CASE getNextJob(w, Start)
    <3>1. PICK j \in Runnable : pc' = [pc EXCEPT ![w] = Start[j.type]]
      BY <2>4, ZenonT(30) DEF getNextJob
    <3> USE <3>1
    <3>2. JobOK(j)
      BY DEF Runnable, ServerTypes, QueueTypes, QueueData
    <3>3. Start[j.type] \notin HoldLabel
      BY <3>2, ServerAssumption DEF JobOK, Start, HoldLabel
    <3>4. pc[w] \notin HoldLabel /\ UNCHANGED stopper
      BY <2>4 DEF getNextJob, stopping, HoldLabel
    <3> QED
      BY <1>1, <3>3, <3>4, Zenon
  <2> QED
    BY <2>1, <2>2, <2>3, <2>4, ZenonT(30) DEF processTask
<1>4. ASSUME UNCHANGED <<pc, writerVars>>, stopper # "storing" \/ UNCHANGED stopper
      PROVE  PlaceInv'
  BY <1>4, QuietPlaces, ZenonT(30)
<1> USE <1>4
<1>5. ASSUME NEW c \in Coro, CreateCoro(c) \/ Serve(c), UNCHANGED writerVars
      PROVE  PlaceInv'
  BY <1>5 DEF CreateCoro, Serve, PostNew, AddNew, expectEarlyExit, stopping
<1>6. ASSUME NEW t \in JobType, AddJob(t)
      PROVE  PlaceInv'
  BY <1>6 DEF AddJob, stopping
<1>7. CASE AddedJob \/ GrowOld
  BY <1>7, Zenon DEF AddedJob, GrowOld, stopping
<1>8. CASE stop \/ join \/ stopAsyncRecursive \/ stopRecursive
           \/ onChildrenStopped \/ Stopped
  BY <1>8, Zenon DEF stop, join, stopAsyncRecursive, stopRecursive,
     onChildrenStopped, Stopped, unstopped
<1>9. CASE UNCHANGED vars
  BY <1>9 DEF vars, stopping
<1> QED
  BY <1>2, <1>3, <1>5, <1>6, <1>7, <1>8, <1>9, ValidatePlaces, FlushPlaces,
     FlushWritePlaces, ZenonT(30) DEF Next, ThreadStep, StopStep

-------------------------------------------------------------------------------
(* The validations: there is one writer. *)

\* The flush comes after the queue has begun to drain.
LEMMA ClosedInDrain ==
  ClosedPhase \cup {"flushed"} \subseteq DrainPhase
BY DEF DrainPhase

\* A thread in a job: the jobs have not drained.
LEMMA BusyPhase ==
  ASSUME ServerTypes, CounterInv, StopInv, NEW w \in Thread, pc[w] \in InJob
  PROVE  stopper \notin DrainPhase /\ stopper \notin ClosedPhase \cup {"flushed"}
<1>1. pc[w] \notin Outside
  BY DEF InJob, Plain, PathLabel, StoreLabel, WriteLabel, AddLabel, Outside,
     NoWork
<1> QED
  BY <1>1, DrainedPhase, ClosedInDrain

\* The store gains or loses validations (addValidation, sweep).
LEMMA StoreWriter ==
  ASSUME ServerTypes, QueueTypes', CounterInv, StopInv, WriterInv,
         NEW w \in Thread, addValidation(w) \/ sweep(w)
  PROVE  WriterInv'
<1>0. QueueTypes
  BY DEF ServerTypes
<1>1. /\ pc[w] = "validation" /\ GoesTo(w, {"destroy", "onStale"})
      /\ UNCHANGED <<queue, stopper, staleValidations_, staleWriting_,
                     waitForClosures_, anyNew>>
  BY DEF addValidation, sweep, Goto, GoesTo, stopping, closures
<1> USE <1>1
<1>2. \A v \in Thread : pc'[v] = pc[v] \/ (v = w /\ pc'[v] \in {"destroy", "onStale"})
  BY <1>0, Zenon DEF GoesTo, QueueTypes
<1>3. Writers' = Writers
  <2>1. \A v \in Thread : pc'[v] = pc[v] \/ (/\ pc[v] \notin WriteLabel
                                             /\ pc'[v] \notin WriteLabel)
    BY <1>2, Zenon DEF WriteLabel
  <2>2. JobsOf(jtWRITE)' = JobsOf(jtWRITE)
    BY DEF queue, JobsOf
  <2> QED
    BY <1>0, <2>1, <2>2, SameWriters, Zenon
<1>4. \A v \in Thread : pc'[v] = "addWrite" <=> pc[v] = "addWrite"
  BY <1>2, Zenon
<1>5. StaleFree' <=> StaleFree
  BY <1>4, Zenon DEF StaleFree
<1>6. pc[w] \in InJob
  BY DEF InJob, Plain, StoreLabel
<1>7. stopper' \notin DrainPhase /\ stopper' \notin ClosedPhase \cup {"flushed"}
  BY <1>6, BusyPhase
<1>8. WritingCount' = WritingCount
  BY ZenonT(30) DEF WritingCount
<1> QED
  BY <1>3, <1>4, <1>5, <1>7, <1>8, ZenonT(30) DEF WriterInv

\* onStale queues the validation, and only one thread goes on to add a writer.
LEMMA StaleWriter ==
  ASSUME ServerTypes, QueueTypes', CounterInv, StopInv, WriterInv,
         NEW w \in Thread, onStale(w)
  PROVE  WriterInv'
<1>0. QueueTypes
  BY DEF ServerTypes
<1>1. /\ pc[w] = "onStale" /\ StaleFree
      /\ UNCHANGED <<queue, stopper, staleWriting_, waitForClosures_, anyNew>>
      /\ GoesTo(w, {"destroy", "onStale", "addWrite"})
  BY DEF onStale, AfterStale, Goto, GoesTo, stopping, closures, Wrap, WrapFails
<1>2. \/ staleWriting_ /\ pc'[w] # "addWrite"
      \/ ~ staleWriting_ /\ pc'[w] = "addWrite"
      \/ waitForClosures_ /\ pc'[w] # "addWrite"
  BY <1>0 DEF onStale, AfterStale, Goto, WrapFails, QueueTypes
<1> USE <1>1
<1>3. \A v \in Thread :
        pc'[v] = pc[v] \/ (v = w /\ pc'[v] \in {"destroy", "onStale", "addWrite"})
  BY <1>0, Zenon DEF GoesTo, QueueTypes
<1>4. Writers' = Writers
  <2>1. \A v \in Thread : pc'[v] = pc[v] \/ (/\ pc[v] \notin WriteLabel
                                             /\ pc'[v] \notin WriteLabel)
    BY <1>3, Zenon DEF WriteLabel
  <2>2. JobsOf(jtWRITE)' = JobsOf(jtWRITE)
    BY DEF queue, JobsOf
  <2> QED
    BY <1>0, <2>1, <2>2, SameWriters, ZenonT(30)
<1>5. \A v \in Thread : pc'[v] = "addWrite" => v = w
  BY <1>3, Zenon DEF StaleFree
<1>6. pc[w] \in InJob
  BY DEF InJob, Plain, StoreLabel
<1>7. stopper' \notin DrainPhase /\ stopper' \notin ClosedPhase \cup {"flushed"}
  BY <1>6, BusyPhase
<1>8. WritingCount' = WritingCount
  BY ZenonT(30) DEF WritingCount
<1> USE <1>2
<1>9. staleWriting_' \/ ~ StaleFree' \/ waitForClosures_'
  BY ZenonT(30) DEF StaleFree
<1> QED
  BY <1>4, <1>5, <1>7, <1>8, <1>9, ZenonT(30) DEF WriterInv

\* Adding the write job sets the flag: before it there was no writer, after it
\* there is one.
LEMMA AddWriter ==
  ASSUME ServerTypes, QueueTypes', WriterInv, NEW w \in Thread, AddWrite(w)
  PROVE  WriterInv'
<1>0. QueueTypes
  BY DEF ServerTypes
<1>1. /\ pc[w] = "addWrite" /\ GoesTo(w, {"destroy", "onStale"})
      /\ staleWriting_' = TRUE /\ addRefCountedJob(jtWRITE, NoCoro)
      /\ UNCHANGED <<stopper, current_, staleValidations_, anyNew>>
  BY Zenon DEF AddWrite, AfterStale, Goto, GoesTo, stopping
<1> USE <1>1
<1>2. \A v \in Thread : pc'[v] = pc[v] \/ (v = w /\ pc'[v] \in {"destroy", "onStale"})
  BY <1>0, ZenonT(30) DEF GoesTo, QueueTypes
<1>3. pc'[w] \in {"destroy", "onStale"}
  BY <1>0, ZenonT(30) DEF GoesTo, QueueTypes
<1>4. \A v \in Thread : pc'[v] # "addWrite"
  BY <1>2, <1>3, Zenon DEF WriterInv
<1>5. WritingCount = 0 /\ WritingCount' = 1
  BY DEF WriterInv, WritingCount
<1>6. Cardinality(JobsOf(jtWRITE)') = Cardinality(JobsOf(jtWRITE)) + 1
  <2> DEFINE j == [type |-> jtWRITE, index |-> m_lastJob', coro |-> NoCoro]
  <2>1. m_jobSet' = m_jobSet \cup {j} /\ j \notin m_jobSet
    BY <1>0 DEF addRefCountedJob, QueueTypes, QueueData
  <2>2. JobsOf(jtWRITE)' = JobsOf(jtWRITE) \cup {j} /\ j \notin JobsOf(jtWRITE)
    BY <2>1 DEF JobsOf
  <2>3. JobsOf(jtWRITE) \subseteq m_jobSet /\ IsFiniteSet(m_jobSet)
    BY <1>0, ZenonT(30) DEF JobsOf, QueueTypes, QueueData
  <2>4. IsFiniteSet(JobsOf(jtWRITE))
    BY <2>3, FS_Subset
  <2> USE <2>2
  <2>5. Cardinality(JobsOf(jtWRITE) \cup {j}) = Cardinality(JobsOf(jtWRITE)) + 1
    BY <2>4, FS_AddElement, ZenonT(30)
  <2> QED
    BY <2>5, ZenonT(30)
<1>7. Count(pc', WriteLabel) = Count(pc, WriteLabel)
  <2> USE ZenonT(30)
  <2>1. At(pc', WriteLabel) = At(pc, WriteLabel)
    BY <1>0, <1>2 DEF At, WriteLabel, QueueTypes
  <2> QED
    BY <2>1 DEF Count
<1>8. StopWrites' = StopWrites
  BY DEF StopWrites
<1>9. Writers' = Writers + 1
  BY <1>0, <1>6, <1>7, <1>8, WritersCount, WritersCountNext, WriterTerms, SMTT(30)
<1>10. Writers' = WritingCount'
  BY <1>5, <1>9 DEF WriterInv
<1> QED
  BY <1>4, <1>10, Zenon DEF WriterInv

\* The job of the writer (doStaleWrite).
LEMMA WriteWriter ==
  ASSUME ServerTypes, QueueTypes', CounterInv, StopInv, WriterInv,
         NEW w \in Thread, doStaleWrite(w)
  PROVE  WriterInv'
<1>0. QueueTypes
  BY DEF ServerTypes
<1>1. /\ pc[w] \in WriteLabel /\ GoesTo(w, WriteLabel \cup {"destroy"})
      /\ UNCHANGED <<queue, stopper, waitForClosures_, current_, anyNew>>
  BY DEF doStaleWrite, TakeBatch, NothingStale, WriteBatch, Goto, GoesTo,
     stopping, closures, WriteLabel
<1>2. \A v \in Thread :
        pc'[v] = pc[v] \/ (v = w /\ pc'[v] \in WriteLabel \cup {"destroy"})
  BY <1>0, <1>1, Zenon DEF GoesTo, QueueTypes
<1>3. \A v \in Thread : pc'[v] = "addWrite" <=> pc[v] = "addWrite"
  BY <1>1, <1>2, Zenon DEF WriteLabel
<1>4. StaleFree' <=> StaleFree
  BY <1>3 DEF StaleFree
<1>5. pc[w] \in InJob
  BY <1>1 DEF InJob, Plain
<1>6. stopper' \notin DrainPhase /\ stopper' \notin ClosedPhase \cup {"flushed"}
  BY <1>1, <1>5, BusyPhase
<1>7. JobsOf(jtWRITE)' = JobsOf(jtWRITE) /\ StopWrites' = StopWrites
  BY <1>1 DEF queue, JobsOf, StopWrites
<1>8. OneMoves(pc, pc', w)
  BY <1>0, <1>1, ThreadMoves, ZenonT(30) DEF GoesTo
<1>9. ASSUME pc'[w] \in WriteLabel, UNCHANGED staleWriting_,
             staleValidations_' = {} \/ UNCHANGED staleValidations_
      PROVE  WriterInv'
  <2> USE <1>1, <1>9
  <2>1. Count(pc', WriteLabel) = Count(pc, WriteLabel)
    BY <1>8, CountMove, ZenonT(30)
  <2>2. Writers' = Writers /\ WritingCount' = WritingCount
    BY <1>0, <1>7, <2>1, WritersCount, WritersCountNext DEF WritingCount
  <2> QED
    BY <1>3, <1>4, <1>6, <2>2, ZenonT(30) DEF WriterInv
<1>10. CASE NothingStale(Goto(w, "destroy"))
  <2>1. /\ staleWriting_' = FALSE /\ staleValidations_' = {} /\ StaleFree
        /\ pc' = [pc EXCEPT ![w] = "destroy"]
    BY <1>10 DEF NothingStale, Goto
  <2>2. pc'[w] \notin WriteLabel
    <3>1. pc'[w] = "destroy"
      BY <1>0, <2>1, ThreadMoves, ZenonT(30)
    <3> QED
      BY <3>1 DEF WriteLabel
  <2>3. Count(pc', WriteLabel) = Count(pc, WriteLabel) - 1
    BY <1>1, <1>8, <2>2, CountMove, ZenonT(30)
  <2>4. Count(pc, WriteLabel) # 0
    <3> USE Zenon
    <3>1. DOMAIN pc = Thread /\ IsFiniteSet(DOMAIN pc)
      BY <1>0, QueueAssumption DEF QueueTypes
    <3> USE <3>1
    <3>2. ~(\A v \in DOMAIN pc : pc[v] \notin WriteLabel)
      BY <1>1
    <3> QED
      BY <3>2, CountZero
  <2>5. Writers' = Writers - 1
    BY <1>0, <1>7, <2>3, WritersCount, WritersCountNext, WriterTerms
  <2>6. Writers # 0
    BY <1>0, <2>4, WritersCount, WriterTerms
  <2>7. Writers = 1 /\ WritingCount' = 0
    BY <2>1, <2>6 DEF WriterInv, WritingCount
  <2>8. Writers' = WritingCount'
    BY <2>5, <2>7
  <2> QED
    BY <1>1, <1>3, <1>6, <2>1, <2>8 DEF WriterInv
<1>11. CASE TakeBatch(w, Goto(w, "storing"))
            \/ (/\ WriteBatch(w, Goto(w, "staleWrite"))
                /\ UNCHANGED <<staleValidations_, staleWriting_>>)
  <2> USE <1>11
  <2>1. PICK l \in WriteLabel : pc' = [pc EXCEPT ![w] = l]
    BY DEF TakeBatch, WriteBatch, Goto, WriteLabel
  <2>2. pc'[w] \in WriteLabel
    BY <1>0, <2>1, ThreadMoves, ZenonT(30)
  <2> QED
    BY <1>9, <2>2 DEF TakeBatch
<1> QED
  BY <1>10, <1>11, ZenonT(30) DEF doStaleWrite

\* The flush finds no other writer: the jobs have drained.
LEMMA FlushWriter ==
  ASSUME ServerTypes, QueueTypes', CounterInv, StopInv, WriterInv, flush
  PROVE  WriterInv'
<1>0. QueueTypes
  BY DEF ServerTypes
<1>1. /\ stopper = "joining" /\ closureCount_ = 0 /\ StaleFree
      /\ current_' = {} /\ anyNew' \in BOOLEAN
      /\ staleWriting_' = (staleWriting_ \/ anyNew')
      /\ stopper' = IF anyNew' /\ ~ staleWriting_ THEN "flushing" ELSE "flushed"
      /\ UNCHANGED <<pc, m_jobSet, waitForClosures_>>
  BY DEF flush, closures, queue
<1>2. m_jobSet = {} /\ \A w \in Thread : pc[w] \in Outside
  BY <1>1, Drained
<1>3. Cardinality(JobsOf(jtWRITE)) = 0 /\ Count(pc, WriteLabel) = 0
  <2>1. JobsOf(jtWRITE) = {}
    BY <1>2 DEF JobsOf
  <2>2. Cardinality({}) = 0
    BY FS_EmptySet
  <2>3. IsFiniteSet(DOMAIN pc) /\ \A w \in DOMAIN pc : pc[w] \notin WriteLabel
    BY <1>0, <1>2, QueueAssumption, ZenonT(30)
       DEF QueueTypes, Outside, NoWork, WriteLabel
  <2>4. Count(pc, WriteLabel) = 0
    BY <2>3, CountZero
  <2> QED
    BY <2>1, <2>2, <2>4
<1>4. StopWrites = 0 /\ StopWrites' = IF stopper' = "flushing" THEN 1 ELSE 0
  BY <1>1 DEF StopWrites
<1>5. JobsOf(jtWRITE)' = JobsOf(jtWRITE) /\ Count(pc', WriteLabel) = Count(pc, WriteLabel)
  BY <1>1 DEF JobsOf
<1>6. Writers = 0
  BY <1>0, <1>3, <1>4, WritersCount, SMTT(30)
<1>7. ~ staleWriting_
  BY <1>6 DEF WriterInv, WritingCount
<1>8. Writers' = WritingCount'
  <2> USE <1>4
  <2>1. Writers' = StopWrites'
    BY <1>3, <1>5, WritersCountNext, SMTT(30)
  <2>2. staleWriting_' <=> stopper' = "flushing"
    BY <1>1, <1>7
  <2> QED
    BY <2>1, <2>2, ZenonT(30) DEF WritingCount
<1>9. waitForClosures_' /\ \A v \in Thread : pc'[v] # "addWrite"
  BY <1>1 DEF StopInv, StaleFree
<1>10. stopper' \in ClosedPhase \cup {"flushed"} => ~ anyNew'
  BY <1>1, <1>7 DEF ClosedPhase, LastPhase
<1> QED
  BY <1>1, <1>8, <1>9, <1>10 DEF WriterInv

\* doStaleWrite, called by the stop.
LEMMA FlushWriteWriter ==
  ASSUME ServerTypes, QueueTypes', StopInv, WriterInv, FlushWrite
  PROVE  WriterInv'
<1>0. QueueTypes
  BY DEF ServerTypes
<1>1. /\ stopper \in {"flushing", "storing"}
      /\ stopper' \in {"flushing", "storing", "flushed"}
      /\ UNCHANGED <<pc, m_jobSet, waitForClosures_, current_, anyNew>>
  BY DEF FlushWrite, TakeBatch, NothingStale, WriteBatch, closures, queue
<1>2. stopper \in DrainPhase /\ waitForClosures_ /\ StopWrites = 1
  BY <1>1 DEF DrainPhase, StopInv, StopWrites
<1>3. JobsOf(jtWRITE)' = JobsOf(jtWRITE) /\ Count(pc', WriteLabel) = Count(pc, WriteLabel)
  BY <1>1 DEF JobsOf
<1>4. Writers = 1 /\ staleWriting_
  <2>1. Writers # 0
    BY <1>0, <1>2, WritersCount, WriterTerms
  <2> QED
    BY <2>1 DEF WriterInv, WritingCount
<1>5. CASE stopper' # "flushed"
  <2> USE <1>5
  <2>1. UNCHANGED staleWriting_
    BY DEF FlushWrite, TakeBatch, NothingStale
  <2> USE <1>1, <2>1, ZenonT(30)
  <2>2. StopWrites' = 1 /\ WritingCount' = WritingCount
    BY DEF StopWrites, WritingCount
  <2> USE <1>2
  <2>3. Writers' = WritingCount'
    BY <1>0, <1>3, <2>2, WritersCount, WritersCountNext DEF WriterInv
  <2>4. stopper' \notin ClosedPhase \cup {"flushed"}
    BY DEF ClosedPhase, LastPhase
  <2> QED
    BY <2>3, <2>4 DEF WriterInv
<1>6. CASE stopper' = "flushed"
  <2>1. StaleFree /\ staleValidations_' = {} /\ staleWriting_' = FALSE
    BY <1>6, ZenonT(30) DEF FlushWrite, TakeBatch, NothingStale, WriteBatch
  <2> USE <2>1
  <2>2. StopWrites' = 0 /\ WritingCount' = 0
    BY <1>6, ZenonT(30) DEF StopWrites, WritingCount
  <2> USE <1>2
  <2>3. Writers' = WritingCount'
    BY <1>0, <1>3, <1>4, <2>2, WritersCount, WritersCountNext, WriterTerms,
       SMTT(30)
  <2> USE <1>1
  <2>4. \A v \in Thread : pc'[v] # "addWrite"
    BY ZenonT(30) DEF StaleFree
  <2> QED
    BY <2>3, <2>4, ZenonT(30) DEF WriterInv
<1> QED
  BY <1>5, <1>6

\* processTask moves a write job to its thread without changing the number of
\* writers.
LEMMA TaskWriter ==
  ASSUME ServerTypes, QueueTypes', WriterInv, NEW w \in Thread, processTask(w),
         UNCHANGED writerVars
  PROVE  WriterInv'
<1>0. QueueTypes
  BY DEF ServerTypes
<1>1. PICK l : pc' = [pc EXCEPT ![w] = l]
  BY Zenon DEF processTask, TakeTask, getNextJob, DestroyJob, finishJob
<1>2. OneMoves(pc, pc', w) /\ pc'[w] = l /\ \A v \in Thread : v # w => pc'[v] = pc[v]
  BY <1>0, <1>1, ThreadMoves, ZenonT(30) DEF QueueTypes
<1>3. UNCHANGED <<stopper, waitForClosures_>>
  BY ZenonT(30) DEF processTask, TakeTask, getNextJob, DestroyJob, finishJob, stopping, closures
<1>4. ASSUME Writers' = Writers, pc[w] # "addWrite", l # "addWrite"
      PROVE  WriterInv'
  BY <1>0, <1>2, <1>3, <1>4, QuietWriter, ZenonT(30)
<1>5. ASSUME pc[w] \notin WriteLabel, l \notin WriteLabel,
             JobsOf(jtWRITE)' = JobsOf(jtWRITE)
      PROVE  Writers' = Writers
  BY <1>0, <1>2, <1>3, <1>5, SameWriters, ZenonT(30)
<1>6. CASE TakeTask(w) \/ DestroyJob(w) \/ finishJob(w)
  <2>1. /\ pc[w] \notin WriteLabel \cup {"addWrite"}
        /\ pc'[w] \notin WriteLabel \cup {"addWrite"}
        /\ m_jobSet' = m_jobSet
    BY <1>0, <1>6, ZenonT(30)
       DEF TakeTask, DestroyJob, finishJob, WriteLabel, queue, QueueTypes
  <2> USE <2>1
  <2>2. JobsOf(jtWRITE)' = JobsOf(jtWRITE)
    BY DEF JobsOf
  <2> QED
    BY <1>2, <1>4, <1>5, <2>2, ZenonT(30)
<1>7. CASE getNextJob(w, Start)
  <2>1. PICK j \in Runnable : m_jobSet' = m_jobSet \ {j}
                              /\ pc' = [pc EXCEPT ![w] = Start[j.type]]
    BY <1>7, Zenon DEF getNextJob
  <2>2. j \in m_jobSet /\ j.type \in JobType /\ pc'[w] = Start[j.type]
    BY <1>0, <2>1, Zenon DEF Runnable, QueueTypes, QueueData, JobOK
  <2>3. pc[w] \notin WriteLabel /\ pc[w] # "addWrite" /\ l # "addWrite"
    <3> USE Zenon
    <3>1. pc[w] = "take"
      BY <1>7 DEF getNextJob
    <3>2. l # "addWrite"
      BY <1>2, <2>2, StartLabels
    <3> QED
      BY <3>1, <3>2 DEF WriteLabel
  <2>4. CASE j.type # jtWRITE
    <3> USE <2>4
    <3>1. l \notin WriteLabel
      BY <1>2, <2>2, StartLabels, ZenonT(30)
    <3>2. JobsOf(jtWRITE)' = JobsOf(jtWRITE)
      BY <2>1 DEF JobsOf
    <3> QED
      BY <1>4, <1>5, <2>3, <3>1, <3>2, ZenonT(30)
  <2>5. CASE j.type = jtWRITE
    <3>1. pc'[w] \in WriteLabel
      BY <2>2, <2>5, ServerAssumption DEF Start, WriteLabel
    <3>2. Count(pc', WriteLabel) = Count(pc, WriteLabel) + 1
      BY <1>2, <2>3, <3>1, CountMove, ZenonT(30)
    <3>3. JobsOf(jtWRITE)' = JobsOf(jtWRITE) \ {j} /\ j \in JobsOf(jtWRITE)
      BY <2>1, <2>2, <2>5 DEF JobsOf
    <3>4. JobsOf(jtWRITE) \subseteq m_jobSet /\ IsFiniteSet(m_jobSet)
      BY <1>0, ZenonT(30) DEF JobsOf, QueueTypes, QueueData
    <3>5. IsFiniteSet(JobsOf(jtWRITE))
      BY <3>4, FS_Subset
    <3>6. Cardinality(JobsOf(jtWRITE) \ {j}) = Cardinality(JobsOf(jtWRITE)) - 1
      BY <3>3, <3>5, FS_RemoveElement, ZenonT(30)
    <3>7. Cardinality(JobsOf(jtWRITE)') = Cardinality(JobsOf(jtWRITE)) - 1
      BY <3>3, <3>6, Zenon
    <3>8. StopWrites' = StopWrites
      BY <1>3, ZenonT(30) DEF StopWrites
    <3>9. Writers' = Writers
      BY <1>0, <3>2, <3>7, <3>8, WritersCount, WritersCountNext, WriterTerms, SMTT(30)
    <3> QED
      BY <1>4, <2>3, <3>9
  <2> QED
    BY <2>4, <2>5
<1> QED
  BY <1>6, <1>7 DEF processTask

\* Every step keeps the number of writers equal to what the flag says.
LEMMA NextWriter ==
  ASSUME ServerTypes, QueueTypes', CounterInv, StopInv, WriterInv, [Next]_vars
  PROVE  WriterInv'
<1>0. QueueTypes
  BY DEF ServerTypes
<1>1. ASSUME NEW w \in Thread, Command(w) \/ FindPaths(w), UNCHANGED writerVars
      PROVE  WriterInv'
  <2> USE ZenonT(30)
  <2>1. pc[w] \in CallLabel /\ GoesTo(w, CallLabel)
        /\ JobsOf(jtWRITE)' = JobsOf(jtWRITE) /\ UNCHANGED <<stopper, waitForClosures_>>
    BY <1>1, CallLabels, CallJobs
  <2>2. \A l \in CallLabel : l \notin WriteLabel /\ l # "addWrite"
    BY DEF CallLabel, PathLabel, WriteLabel
  <2> USE <1>0, <2>1
  <2>3. \A v \in Thread : pc'[v] = pc[v] \/ (pc[v] \in CallLabel /\ pc'[v] \in CallLabel)
    BY DEF GoesTo, QueueTypes
  <2> USE <2>2, <2>3
  <2>4. \A v \in Thread : pc'[v] = pc[v] \/ (/\ pc[v] \notin WriteLabel
                                             /\ pc'[v] \notin WriteLabel)
    OBVIOUS
  <2>5. \A v \in Thread : pc'[v] = pc[v] \/ (/\ pc[v] # "addWrite"
                                             /\ pc'[v] # "addWrite")
    OBVIOUS
  <2>6. Writers' = Writers
    BY <2>4, SameWriters
  <2> QED
    BY <1>1, <2>5, <2>6, QuietWriter
<1>2. ASSUME UNCHANGED <<pc, writerVars>>, JobsOf(jtWRITE)' = JobsOf(jtWRITE),
             waitForClosures_ => waitForClosures_',
             \/ UNCHANGED stopper
             \/ stopper' \in {"join", "joining"}
                /\ stopper \notin {"flushing", "storing"}
             \/ /\ stopper \in ClosedPhase \cup {"flushed"}
                /\ stopper' \in ClosedPhase
      PROVE  WriterInv'
  <2> USE <1>2
  <2>1. /\ stopper \in {"flushing", "storing"} <=> stopper' \in {"flushing", "storing"}
        /\ stopper' \in DrainPhase => stopper \in DrainPhase
        /\ stopper' \in ClosedPhase \cup {"flushed"}
             => stopper \in ClosedPhase \cup {"flushed"}
    BY DEF DrainPhase, ClosedPhase, LastPhase
  <2> USE <1>0, <2>1, ZenonT(30)
  <2>2. Writers' = Writers
    BY SameWriters
  <2> QED
    BY <2>2, QuietWriter
<1>3. ASSUME NEW c \in Coro, CreateCoro(c) \/ Serve(c), UNCHANGED writerVars
      PROVE  WriterInv'
  <2> USE <1>3
  <2>1. UNCHANGED <<pc, stopper, waitForClosures_>>
    BY ZenonT(30) DEF CreateCoro, Serve, PostNew, AddNew, expectEarlyExit,
       closures, stopping, Wrap, WrapFails
  <2>2. UNCHANGED queue \/ addRefCountedJob(jtCLIENT, c)
    BY DEF CreateCoro, Serve, PostNew, AddNew, expectEarlyExit
  <2>3. UNCHANGED queue => JobsOf(jtWRITE)' = JobsOf(jtWRITE)
    BY DEF queue, JobsOf
  <2>4. JobsOf(jtWRITE)' = JobsOf(jtWRITE)
    BY <2>2, <2>3, OtherJobs, ServerAssumption, ZenonT(30)
  <2> QED
    BY <1>2, <2>1, <2>4
<1>4. ASSUME NEW t \in JobType, AddJob(t)
      PROVE  WriterInv'
  BY <1>2, <1>4, ZenonT(30) DEF AddJob, stopping, Wrap, queue, JobsOf
<1>5. CASE AddedJob
  <2> USE <1>5
  <2>1. adder \in JobType /\ adder # jtWRITE /\ addRefCountedJob(adder, NoCoro)
    BY ZenonT(30) DEF AddedJob, ServerTypes, PathTypes
  <2>2. JobsOf(jtWRITE)' = JobsOf(jtWRITE)
    BY <2>1, OtherJobs
  <2> QED
    BY <1>2, <2>2, ZenonT(30) DEF AddedJob, stopping, closures
<1>6. CASE GrowOld
  BY <1>2, <1>6, ZenonT(30) DEF GrowOld, stopping, closures, queue, JobsOf
<1>7. CASE stop \/ join \/ stopAsyncRecursive \/ stopRecursive
           \/ onChildrenStopped \/ Stopped
  <2>1. UNCHANGED <<pc, writerVars, m_jobSet>> /\ (waitForClosures_ => waitForClosures_')
    <3> USE <1>7, Zenon
    <3>1. UNCHANGED <<pc, writerVars, m_jobSet>>
      BY DEF stop, join, stopAsyncRecursive, stopRecursive, onChildrenStopped,
         Stopped, unstopped, queue
    <3>2. waitForClosures_' = TRUE \/ waitForClosures_' = waitForClosures_
      BY DEF stop, join, stopAsyncRecursive, stopRecursive, onChildrenStopped,
         Stopped
    <3>3. waitForClosures_ => waitForClosures_'
      BY <3>2, ZenonT(30)
    <3> QED
      BY <3>1, <3>3, ZenonT(30)
  <2> USE <2>1
  <2>2. JobsOf(jtWRITE)' = JobsOf(jtWRITE)
    BY DEF JobsOf
  <2>3. \/ stopper' \in {"join", "joining"} /\ stopper \notin {"flushing", "storing"}
        \/ /\ stopper \in ClosedPhase \cup {"flushed"}
           /\ stopper' \in ClosedPhase
    BY <1>7, ZenonT(30) DEF stop, join, stopAsyncRecursive, stopRecursive,
       onChildrenStopped, Stopped, ClosedPhase, LastPhase
  <2> QED
    BY <1>2, <2>2, <2>3
<1>8. CASE UNCHANGED vars
  BY <1>2, <1>8 DEF vars, queue, closures, stopping, JobsOf
<1>9. ASSUME NEW w \in Thread, Validate(w)
      PROVE  WriterInv'
  BY <1>9, StoreWriter, StaleWriter, AddWriter, WriteWriter, ZenonT(30)
     DEF Validate
<1> QED
  BY <1>1, <1>3, <1>4, <1>5, <1>6, <1>7, <1>8, <1>9, TaskWriter, FlushWriter,
     FlushWriteWriter, ZenonT(30) DEF Next, ThreadStep, StopStep

-------------------------------------------------------------------------------
(* What the invariants say of the validations. *)

\* The size of a singleton.
LEMMA SingletonCount ==
  ASSUME NEW S, NEW x, S = {x}
  PROVE  Cardinality(S) = 1
<1>1. Cardinality({x}) = 1
  BY FS_Singleton
<1> QED
  BY <1>1, ZenonT(30)

\* The size of the empty set.
LEMMA EmptyCount ==
  ASSUME NEW S, S = {}
  PROVE  Cardinality(S) = 0
<1> USE ZenonT(30)
<1>1. Cardinality({}) = 0
  BY FS_EmptySet
<1> QED
  BY <1>1

\* A validation is in one of five kinds of places, and in one place of that
\* kind.
LEMMA OnePlace ==
  ASSUME PlaceInv, NEW v \in arrived
  PROVE  Places(v) = 1
<1> DEFINE I == {i \in 1..3 : v \in <<current_, staleValidations_, database>>[i]}
           H == {w \in Thread : v \in handing[w]}
           B == {w \in Writer : v \in currentStale[w]}
<1>1. /\ 1 \in I <=> v \in current_
      /\ 2 \in I <=> v \in staleValidations_
      /\ 3 \in I <=> v \in database
      /\ I \subseteq {1, 2, 3}
  BY SMTT(30)
<1>2. \/ v \in current_ \cup staleValidations_ \cup database
      \/ H # {} \/ B # {}
  BY DEF PlaceInv
<1>3. v \in current_ => v \notin staleValidations_ /\ v \notin database
  BY Zenon DEF PlaceInv
<1>4. v \in staleValidations_ => v \notin database
  BY Zenon DEF PlaceInv
<1>5. v \in current_ \cup staleValidations_ \cup database => H = {} /\ B = {}
  BY ZenonT(30) DEF PlaceInv
<1>6. H # {} => I = {} /\ B = {} /\ \E w : H = {w}
  <2> SUFFICES ASSUME NEW w \in Thread, v \in handing[w]
               PROVE  I = {} /\ B = {} /\ H = {w}
    BY Zenon
  <2>1. v \notin current_ \cup staleValidations_ \cup database
    BY Zenon DEF PlaceInv
  <2>2. \A u \in Thread : u # w => v \notin handing[u]
    BY ZenonT(30) DEF PlaceInv
  <2>3. \A u \in Writer : v \notin currentStale[u]
    BY DEF PlaceInv
  <2> QED
    BY <1>1, <2>1, <2>2, <2>3, SMTT(30)
<1>7. B # {} => I = {} /\ H = {} /\ \E w : B = {w}
  <2> USE ZenonT(30)
  <2> SUFFICES ASSUME NEW w \in Writer, v \in currentStale[w]
               PROVE  I = {} /\ H = {} /\ B = {w}
    OBVIOUS
  <2>1. v \notin current_ \cup staleValidations_ \cup database
    BY DEF PlaceInv
  <2>2. \A u \in Writer : u # w => v \notin currentStale[u]
    BY DEF PlaceInv
  <2>3. \A u \in Thread : v \notin handing[u]
    BY DEF PlaceInv
  <2> QED
    BY <1>1, <2>1, <2>2, <2>3
<1>8. v \in current_ \cup staleValidations_ \cup database => \E i : I = {i}
  BY <1>1, <1>3, <1>4
<1>9. Cardinality(I) + Cardinality(H) + Cardinality(B) = 1
  <2> HIDE DEF I, H, B
  <2>1. \A S : S = {} => Cardinality(S) = 0
    BY EmptyCount
  <2>2. \A S, x : S = {x} => Cardinality(S) = 1
    BY SingletonCount
  <2>3. CASE \E i : I = {i} /\ H = {} /\ B = {}
    <3>1. Cardinality(I) = 1 /\ Cardinality(H) = 0 /\ Cardinality(B) = 0
      BY <2>1, <2>2, <2>3, ZenonT(30)
    <3> QED
      BY <3>1
  <2>4. CASE \E i : H = {i} /\ I = {} /\ B = {}
    <3>1. Cardinality(H) = 1 /\ Cardinality(I) = 0 /\ Cardinality(B) = 0
      BY <2>1, <2>2, <2>4, ZenonT(30)
    <3> QED
      BY <3>1
  <2>5. CASE \E i : B = {i} /\ H = {} /\ I = {}
    <3>1. Cardinality(B) = 1 /\ Cardinality(H) = 0 /\ Cardinality(I) = 0
      BY <2>1, <2>2, <2>5, ZenonT(30)
    <3> QED
      BY <3>1
  <2> QED
    BY <1>2, <1>5, <1>6, <1>7, <1>8, <2>3, <2>4, <2>5, ZenonT(30)
<1> QED
  BY <1>9, ZenonT(30) DEF Places

\* The two invariants give the property of the writer.
LEMMA WriterIsOne ==
  ASSUME PlaceInv, WriterInv
  PROVE  OneStaleWriter
<1>1. Writers = IF staleWriting_ THEN 1 ELSE 0
  BY DEF WriterInv, WritingCount
<1>2. staleValidations_ # {} => staleWriting_ \/ ~ StaleFree \/ waitForClosures_
  BY DEF WriterInv
<1> QED
  BY <1>1, <1>2, OnePlace, ZenonT(30) DEF OneStaleWriter

\* After flush nothing is queued, and everything stale is written.
LEMMA FlushLeavesNone ==
  ASSUME ServerTypes, CounterInv, StopInv, PlaceInv, WriterInv
  PROVE  FlushWritesRest
<1> SUFFICES ASSUME Flushed
             PROVE  /\ database \cup staleValidations_ = arrived
                    /\ anyNew => database = arrived
  BY DEF FlushWritesRest
<1>1. /\ stopper \in ClosedPhase \cup {"flushed"} /\ stopper \in DrainPhase
      /\ stopper # "storing"
  BY DEF Flushed, DrainPhase, ClosedPhase, LastPhase
<1> USE <1>1
<1>2. \A w \in Thread : pc[w] \in Outside
  BY DrainedPhase, ZenonT(30)
<1>3. \A w \in Thread : handing[w] = {} /\ currentStale[w] = {}
  BY <1>2, ZenonT(30) DEF PlaceInv, Outside, NoWork
<1>4. \A w \in Writer : currentStale[w] = {}
  BY <1>3 DEF PlaceInv, Writer
<1>5. current_ = {}
  BY DEF WriterInv
<1>6. arrived \subseteq database \cup staleValidations_
  BY <1>3, <1>4, <1>5, ZenonT(30) DEF PlaceInv
<1>7. database \subseteq arrived /\ staleValidations_ \subseteq arrived
  BY DEF ServerTypes, WriterTypes
<1>8. anyNew => staleValidations_ = {}
  BY DEF WriterInv
<1> QED
  BY <1>6, <1>7, <1>8

-------------------------------------------------------------------------------
(* The stop. *)

\* The phases of the stop are nested.
LEMMA LastInDrain ==
  LastPhase \subseteq ClosedPhase /\ ClosedPhase \subseteq DrainPhase
BY SMTT(30) DEF DrainPhase, ClosedPhase

\* A step that comes before the jobs have drained.
LEMMA EarlyStop ==
  ASSUME StopInv, stopper \notin DrainPhase, UNCHANGED <<stopping, m_server>>,
         waitForClosures_' = waitForClosures_
  PROVE  StopInv'
<1>1. UNCHANGED <<m_childrenStopped, m_is_stopping, m_stopped, stopper, m_server>>
  BY DEF stopping
<1>2. stopper \notin ClosedPhase /\ stopper \notin LastPhase
  BY LastInDrain, SMTT(30)
<1> QED
  BY <1>1, <1>2, ZenonT(30) DEF StopInv

\* A step that leaves the counters, the coroutines and the stop alone.
LEMMA SameStop ==
  ASSUME StopInv,
         UNCHANGED <<stopping, m_server, closureCount_, waitForClosures_,
                     m_processCount>>,
         m_childrenStopped => \A c \in Coro : co'[c] \in {"none", "done"}
  PROVE  StopInv'
BY ZenonT(30) DEF StopInv, stopping

\* A step of a thread keeps what each phase of the stop promises.
LEMMA ThreadStop ==
  ASSUME ServerTypes, CommandInv, CounterInv, StopInv, NEW w \in Thread,
         ThreadStep(w)
  PROVE  StopInv'
<1>1. CASE Calm(w) \/ CountsJob(w) \/ AddsJob(w)
  <2>1. pc[w] \notin Outside
    <3>1. pc[w] \in InJob
      BY <1>1, StaysInJob, Zenon DEF ServerTypes
    <3> QED
      BY <3>1 DEF InJob, Plain, PathLabel, StoreLabel, WriteLabel, AddLabel,
         Outside, NoWork
  <2>2. stopper \notin DrainPhase
    BY <2>1, DrainedPhase, ZenonT(30)
  <2>3. UNCHANGED <<stopping, m_server>> /\ waitForClosures_' = waitForClosures_
    BY <1>1 DEF Calm, CountsJob, AddsJob, closures, Wrap
  <2> QED
    BY <2>2, <2>3, EarlyStop
<1>2. CASE processTask(w) /\ UNCHANGED pathVars
  <2>0. UNCHANGED <<co, m_server>>
    BY <1>2 DEF pathVars
  <2>1. CASE TakeTask(w)
    BY <2>0, <2>1, SameStop, ZenonT(30) DEF TakeTask, closures, StopInv
  <2>2. CASE getNextJob(w, Start)
    <3> USE <2>2
    <3>1. m_jobSet # {}
      BY DEF getNextJob, Runnable
    <3>2. stopper \notin DrainPhase
      BY <3>1, DrainedPhase, Zenon
    <3> QED
      BY <2>0, <3>2, EarlyStop DEF getNextJob, closures
  <2>3. CASE DestroyJob(w)
    <3> USE <2>3
    <3>1. pc[w] \notin Outside
      BY DEF DestroyJob, Outside, NoWork
    <3>2. stopper \notin DrainPhase
      BY <3>1, DrainedPhase, ZenonT(30)
    <3> QED
      BY <2>0, <3>2, EarlyStop, ZenonT(30) DEF DestroyJob
  <2>4. CASE finishJob(w)
    <3>1. /\ UNCHANGED <<m_childrenStopped, m_stopped, stopper, closureCount_,
                         waitForClosures_>>
          /\ m_is_stopping' => m_is_stopping
                               \/ (m_childrenStopped /\ m_processCount' = 0)
          /\ m_is_stopping => m_is_stopping'
      BY <2>4, ZenonT(30) DEF finishJob, checkStopped, closures
    <3>2. ~ m_is_stopping
      <4>1. m_is_stopping => m_processCount = 0
        BY DEF StopInv
      <4>2. pc[w] \notin NoWork
        BY <2>4 DEF finishJob, NoWork
      <4> QED
        BY <4>1, <4>2, NoProcess
    <3> QED
      BY <2>0, <3>1, <3>2 DEF StopInv
  <2> QED
    BY <1>2, <2>1, <2>2, <2>3, <2>4, SMTT(30) DEF processTask
<1> QED
  BY <1>1, <1>2, ThreadSteps

\* A coroutine's step keeps it: after the join no post is counted.
LEMMA CoroStop ==
  ASSUME ServerTypes, CounterInv, StopInv, NEW c \in Coro, CreateCoro(c) \/ Serve(c)
  PROVE  StopInv'
<1>0. UNCHANGED <<stopping, m_server>> /\ waitForClosures_' = waitForClosures_
  BY DEF CreateCoro, Serve, PostNew, AddNew, expectEarlyExit, closures, Wrap,
     WrapFails
<1>1. CASE expectEarlyExit(c)
  <2> USE <1>1
  <2>1. \A d \in Coro : co[d] \in {"none", "done"} => co'[d] \in {"none", "done"}
    BY Zenon DEF expectEarlyExit, ServerTypes, PathTypes
  <2> QED
    BY <1>0, <2>1, SameStop, ZenonT(30) DEF expectEarlyExit, queue, closures,
       StopInv
<1>2. CASE ~ m_childrenStopped
  <2>1. m_processCount' = m_processCount
    BY DEF CreateCoro, Serve, PostNew, AddNew, expectEarlyExit, queue,
       addRefCountedJob
  <2> USE <1>0
  <2>2. CASE closureCount_' = closureCount_
    BY <1>2, <2>1, <2>2, SameStop, ZenonT(30)
  <2>3. CASE ~ waitForClosures_
    <3>1. stopper \notin DrainPhase
      BY <2>3, DrainedPhase, ZenonT(30)
    <3> QED
      BY <3>1, EarlyStop
  <2> QED
    BY <2>2, <2>3, ZenonT(30) DEF CreateCoro, Serve, PostNew, AddNew, expectEarlyExit,
       closures, Wrap, WrapFails
<1>3. CASE m_childrenStopped /\ ~ expectEarlyExit(c)
  <2> USE <1>3
  <2>1. co[c] \in {"none", "done"} /\ m_server = "closed"
    BY LastInDrain DEF StopInv
  <2> QED
    BY <2>1 DEF CreateCoro, Serve, PostNew, AddNew
<1> QED
  BY <1>1, <1>2, <1>3, ZenonT(30)

\* A step of the stop itself establishes the next phase's promise.
LEMMA EnvironmentStop ==
  ASSUME ServerTypes, CounterInv, StopInv, EnvironmentStep
  PROVE  StopInv'
<1>1. ASSUME NEW t \in JobType, AddJob(t)
      PROVE  StopInv'
  <2> USE <1>1
  <2>1. stopper \notin DrainPhase
    BY DrainedPhase, ZenonT(30) DEF AddJob, Wrap
  <2> QED
    BY <2>1, EarlyStop DEF AddJob, Wrap
<1>2. CASE AddedJob \/ GrowOld
  <2>1. UNCHANGED <<stopping, m_server, closureCount_, waitForClosures_,
                    m_processCount, co>>
    BY <1>2, ZenonT(30)
       DEF AddedJob, GrowOld, closures, queue, addRefCountedJob
  <2> QED
    BY <2>1, SameStop DEF StopInv
<1> USE DEF StopInv, DrainPhase, ClosedPhase, LastPhase
<1>3. CASE stop \/ join
  <2>1. UNCHANGED <<m_childrenStopped, m_is_stopping, m_stopped, closureCount_, co,
                    m_server, m_processCount>>
    BY <1>3, Zenon DEF stop, join, unstopped, queue
  <2>2. CASE stop
    <3>1. /\ stopper = "idle" /\ stopper' = "join"
          /\ UNCHANGED waitForClosures_
      BY <2>2, Zenon DEF stop
    <3> QED
      BY <2>1, <3>1, ZenonT(30)
  <2>3. CASE join
    <3>1. stopper = "join" /\ stopper' = "joining" /\ waitForClosures_' = TRUE
      BY <2>3 DEF join
    <3> QED
      BY <2>1, <3>1, ZenonT(30)
  <2> QED
    BY <1>3, <2>2, <2>3
<1>4. CASE (flush \/ FlushWrite) /\ UNCHANGED pathVars
  <2> USE <1>4
  <2>1. UNCHANGED <<m_childrenStopped, m_is_stopping, m_stopped, closureCount_, co,
                    m_server, m_processCount, waitForClosures_>>
    BY ZenonT(30) DEF flush, FlushWrite, pathVars, queue, closures
  <2>2. /\ stopper \in {"joining", "flushing", "storing"}
        /\ stopper' \in {"flushing", "storing", "flushed"}
        /\ stopper = "joining" => closureCount_ = 0
    BY ZenonT(30) DEF flush, FlushWrite, TakeBatch, NothingStale, WriteBatch
  <2> QED
    BY <2>1, <2>2, ZenonT(30)
<1>5. CASE stopAsyncRecursive \/ stopRecursive \/ Stopped
  <2> USE <1>5
  <2>1. UNCHANGED <<m_is_stopping, closureCount_, co, m_processCount,
                    waitForClosures_>>
    BY DEF stopAsyncRecursive, stopRecursive, Stopped, unstopped, queue
  <2> QED
    BY <2>1, SMTT(30) DEF stopAsyncRecursive, stopRecursive, Stopped
<1>6. CASE onChildrenStopped
  <2> USE <1>6
  <2>1. UNCHANGED <<m_childrenStopped, m_stopped, closureCount_, co,
                    m_server, m_processCount, waitForClosures_>>
    BY DEF onChildrenStopped, unstopped, queue
  <2>2. /\ stopper = "check" /\ stopper' = "wait"
        /\ m_is_stopping' => m_is_stopping
                             \/ (m_childrenStopped /\ m_processCount = 0)
        /\ m_is_stopping => m_is_stopping'
    BY Zenon DEF onChildrenStopped, checkStopped
  <2> QED
    BY <2>1, <2>2, ZenonT(30)
<1> QED
  BY <1>1, <1>2, <1>3, <1>4, <1>5, <1>6, ZenonT(30) DEF EnvironmentStep, StopStep

\* Every step keeps the promises of the stop.
LEMMA NextStop ==
  ASSUME ServerTypes, CommandInv, CounterInv, StopInv, [Next]_vars
  PROVE  StopInv'
<1>1. CASE UNCHANGED vars
  <2>1. UNCHANGED <<stopping, m_server, closureCount_, waitForClosures_,
                    m_processCount, co>>
    BY <1>1 DEF vars, closures, queue, pathVars
  <2> QED
    BY <2>1, SameStop, ZenonT(30) DEF StopInv
<1> QED
  BY <1>1, ThreadStop, CoroStop, EnvironmentStop, ZenonT(30)
     DEF Next, EnvironmentStep

\* The last jobs are added while the queue may take them (addRefCountedJob).
LEMMA AddsInTime ==
  ASSUME ServerTypes, CounterInv, StopInv
  PROVE  AddedBeforeStop
<1>1. m_childrenStopped => ~ Adding
  <2> SUFFICES ASSUME m_childrenStopped
               PROVE  ~ Adding
    OBVIOUS
  <2>1. stopper \in DrainPhase
    BY LastInDrain DEF StopInv
  <2>2. /\ adder = 0
        /\ \A w \in Thread : pc[w] \in Outside
        /\ \A c \in Coro : co[c] # "wrapped"
    BY <2>1, DrainedPhase
  <2> QED
    BY <2>2, ServerAssumption, ZenonT(30) DEF Adding, Outside, NoWork
<1>2. m_stopped => m_childrenStopped
  BY DEF StopInv
<1> QED
  BY <1>1, <1>2, ZenonT(30) DEF AddedBeforeStop, MayAdd

\* The queue that has stopped is drained (checkStopped).
LEMMA DrainedWhenStopped ==
  ASSUME ServerTypes, QueueInv, CounterInv, StopInv
  PROVE  StoppedMeansDrained
<1> SUFFICES ASSUME m_is_stopping
             PROVE  /\ m_jobSet = {} /\ tasks = 0
                    /\ \A w \in Thread : pc[w] = "idle"
                    /\ \A c \in Coro : co[c] \in {"none", "done"}
  BY DEF StoppedMeansDrained
<1>1. m_processCount = 0 /\ stopper \in DrainPhase
      /\ \A c \in Coro : co[c] \in {"none", "done"}
  BY LastInDrain DEF StopInv
<1>2. m_jobSet = {}
  BY <1>1, DrainedPhase
<1>3. Slots(Free) = {}
  <2>1. \A t \in JobType : JobsOf(t) = {}
    BY <1>2 DEF JobsOf
  <2>2. Cardinality({}) = 0
    BY FS_EmptySet
  <2>3. \A t \in JobType : Cardinality(JobsOf(t)) = 0
    BY <2>1, <2>2, ZenonT(30)
  <2>5. DataInv /\ m_jobData \in [JobType -> JobData]
    BY ZenonT(30) DEF QueueInv, ServerTypes, QueueTypes, QueueData
  <2>4. \A t \in JobType : Free[t] = 0
    BY <2>3, <2>5 DEF DataInv, DataOK, Free, JobData
  <2> QED
    BY <2>4 DEF Slots
<1>4. Cardinality(Slots(Free)) = 0
  BY <1>3, FS_EmptySet, ZenonT(30)
<1>5. IsFiniteSet(DOMAIN pc) /\ DOMAIN pc = Thread /\ tasks \in Nat
  BY QueueAssumption, ZenonT(30) DEF ServerTypes, QueueTypes, QueueData
<1> USE <1>5
<1>6. Count(pc, {"take"}) \in Nat
  BY CountZero
<1>7. tasks = 0 /\ Count(pc, {"take"}) = 0
  BY <1>4, <1>6 DEF QueueInv, TaskInv
<1> USE <1>7
<1>8. \A w \in Thread : pc[w] \notin {"take"} /\ pc[w] \in NoWork
  BY <1>1, CountZero, NoProcess, ZenonT(30)
<1>9. \A w \in Thread : pc[w] = "idle"
  BY <1>8 DEF NoWork
<1> QED
  BY <1>1, <1>2, <1>9, ZenonT(30)

-------------------------------------------------------------------------------
(* The theorems. *)

ServerInv ==
  /\ ServerTypes /\ CommandInv
  /\ QueueInv
  /\ CounterInv
  /\ StopInv
  /\ PlaceInv /\ WriterInv

\* The invariant holds of a server that has just been set up.
LEMMA InitServer ==
  ASSUME Init
  PROVE  ServerInv
<1>0. Cardinality({}) = 0 /\ IsFiniteSet({})
  BY FS_EmptySet, Zenon
<1>10. InitQueue /\ InitPaths /\ InitWriter
  BY Zenon DEF Init
<1>11. /\ pc = [w \in Thread |-> "idle"] /\ m_jobSet = {} /\ stopper = "idle"
       /\ \A w \in Thread : pc[w] = "idle"
  BY <1>10, Zenon DEF InitQueue
<1>12. co = [c \in Coro |-> "none"] /\ \A c \in Coro : co[c] = "none"
  BY <1>10, Zenon DEF InitPaths
<1>1. QueueTypes
  <2> USE <1>10
  <2>1. QueueData
    BY <1>0 DEF QueueData, JobData, InitQueue
  <2>2. pc \in [Thread -> Label] /\ stopper \in StopPhase
    BY <1>11, Zenon DEF StopPhase, Label, Outside, NoWork
  <2>3. DOMAIN job = Thread
    BY Zenon DEF InitQueue
  <2>4. \A w \in Thread : pc[w] \in NoWork
    BY <1>11, ZenonT(30) DEF NoWork
  <2>5. closureCount_ \in Int
    BY DEF InitQueue
  <2>6. /\ waitForClosures_ \in BOOLEAN /\ m_childrenStopped \in BOOLEAN
        /\ m_is_stopping \in BOOLEAN /\ m_stopped \in BOOLEAN
    BY Zenon DEF InitQueue
  <2> QED
    BY <2>1, <2>2, <2>3, <2>4, <2>5, <2>6, ZenonT(30) DEF QueueTypes
<1>2. PathTypes
  BY <1>10, ServerAssumption, Zenon DEF InitPaths, PathTypes, CoState, Early
<1>3. WriterTypes
  <2> USE <1>10
  <2>1. arrived = 1..0
    BY DEF InitWriter
  <2> QED
    BY <2>1, Zenon DEF InitWriter, WriterTypes
<1>4. CommandInv
  BY <1>11, Zenon DEF CommandInv, OwnCommand
<1>5. QueueInv
  <2>1. \A t \in JobType : m_jobData[t] = [waiting |-> 0, running |-> 0,
                                           deferred |-> 0]
    BY <1>10, ZenonT(30) DEF InitQueue
  <2>2. \A t \in JobType : JobsOf(t) = {}
    BY <1>11, Zenon DEF JobsOf
  <2>3. \A t \in JobType : Cardinality(JobsOf(t)) = 0
    BY <1>0, <2>2, Zenon
  <2>4. DataInv
    BY <2>1, <2>3, EmptyData, Zenon
  <2>5. Slots(Free) = {}
    BY <2>1, EmptySlots, Zenon
  <2>6. IsFiniteSet(DOMAIN pc) /\ \A w \in DOMAIN pc : pc[w] \notin {"take"}
    BY <1>11, QueueAssumption, Zenon
  <2>7. Count(pc, {"take"}) = 0
    BY <2>6, CountZero, Zenon
  <2>8. Cardinality(Slots(Free)) = 0 /\ IsFiniteSet(Slots(Free))
    BY <1>0, <2>5, ZenonT(30)
  <2>9. TaskInv
    BY <1>10, <2>7, <2>8, SMTT(30) DEF TaskInv, InitQueue
  <2> QED
    BY <2>4, <2>9, Zenon DEF QueueInv
<1>6. CounterInv
  <2>1. /\ IsFiniteSet(DOMAIN pc) /\ IsFiniteSet(DOMAIN co)
        /\ \A w \in DOMAIN pc : pc[w] \notin Working
        /\ \A w \in DOMAIN pc : pc[w] \notin InJob
        /\ \A w \in DOMAIN pc : pc[w] \notin AddLabel
        /\ \A c \in DOMAIN co : co[c] \notin {"wrapped"}
    BY <1>11, <1>12, QueueAssumption, Zenon
       DEF Working, InJob, AddLabel, Plain, PathLabel, StoreLabel, WriteLabel
  <2>2. /\ Count(co, {"wrapped"}) = 0 /\ Count(pc, InJob) = 0
        /\ Count(pc, AddLabel) = 0 /\ Count(pc, Working) = 0
    BY <2>1, CountZero, ZenonT(30)
  <2> USE <1>10
  <2>3. AdderCount = 0
    BY Zenon DEF InitPaths, AdderCount
  <2>4. Cardinality(m_jobSet) = 0
    BY <1>0, <1>11, Zenon
  <2> QED
    BY <2>2, <2>3, <2>4 DEF CounterInv, InitQueue
<1>7. StopInv
  BY <1>10, Zenon DEF InitQueue, StopInv, DrainPhase, ClosedPhase, LastPhase
<1>8. PlaceInv
  BY <1>10, Zenon DEF InitWriter, PlaceInv, Writer
<1>9. WriterInv
  <2> USE <1>11
  <2>1. IsFiniteSet(DOMAIN pc) /\ \A w \in DOMAIN pc : pc[w] \notin WriteLabel
    BY QueueAssumption, Zenon DEF WriteLabel
  <2>2. Count(pc, WriteLabel) = 0
    BY <2>1, CountZero, Zenon
  <2>3. JobsOf(jtWRITE) = {}
    BY Zenon DEF JobsOf
  <2>4. Cardinality(JobsOf(jtWRITE)) = 0
    BY <1>0, <2>3, Zenon
  <2>5. StopWrites = 0
    BY Zenon DEF StopWrites
  <2>6. ~ staleWriting_ /\ WritingCount = 0
    BY <1>10, ZenonT(30) DEF InitWriter, WritingCount
  <2>7. Writers = WritingCount
    BY <1>1, <2>2, <2>4, <2>5, <2>6, WritersCount, SMTT(30)
  <2>8. stopper \notin DrainPhase /\ stopper \notin ClosedPhase \cup {"flushed"}
    BY Zenon DEF DrainPhase, ClosedPhase, LastPhase
  <2>9. staleValidations_ = {} /\ \A w \in Thread : pc[w] # "addWrite"
    BY <1>10, Zenon DEF InitWriter
  <2> QED
    BY <2>7, <2>8, <2>9, ZenonT(30) DEF WriterInv
<1> QED
  BY <1>1, <1>2, <1>3, <1>4, <1>5, <1>6, <1>7, <1>8, <1>9, ZenonT(30)
     DEF ServerInv, ServerTypes

\* Every step keeps the whole invariant.
LEMMA NextServer ==
  ASSUME ServerInv, [Next]_vars
  PROVE  ServerInv'
<1> USE DEF ServerInv
<1>1. ServerTypes' /\ QueueTypes' /\ CommandInv'
  BY NextCommand, NextWriterTypes DEF ServerTypes
<1> QED
  BY <1>1, NextQueue, NextCounter, NextStop, NextPlaces, NextWriter, ZenonT(30)

\* Every step of the queue, of the commands, of the writer and of the stop
\* keeps the invariant.
THEOREM ServerInvariant == Spec => []ServerInv
BY InitServer, NextServer, PTL DEF Spec

\* A thread that was given a task finds a job, for every number of threads and
\* every limit of the job types (the assertions in JobQueue::getNextJob).
THEOREM TasksFindJobs == Spec => []TaskFindsJob
<1>1. ServerInv => TaskFindsJob
  BY TaskHasJob DEF ServerInv, ServerTypes
<1> QED
  BY <1>1, ServerInvariant, PTL

\* A job that was counted is added before the queue has stopped (the assertion
\* in JobQueue::addRefCountedJob).
THEOREM JobsAddedInTime == Spec => []AddedBeforeStop
<1>1. ServerInv => AddedBeforeStop
  BY AddsInTime, ZenonT(30) DEF ServerInv
<1> QED
  BY <1>1, ServerInvariant, PTL

\* A queue that says it has stopped has no job, no task, no busy thread and no
\* coroutine to resume (JobQueue::checkStopped).
THEOREM StoppedQueueDrained == Spec => []StoppedMeansDrained
<1>1. ServerInv => StoppedMeansDrained
  BY DrainedWhenStopped, ZenonT(30) DEF ServerInv
<1> QED
  BY <1>1, ServerInvariant, PTL

\* staleWriting_ tells whether there is a writer, there is never a second one,
\* and every validation is in one place (RCLValidations: onStale, doStaleWrite).
THEOREM WriterIsAlone == Spec => []OneStaleWriter
<1>1. ServerInv => OneStaleWriter
  BY WriterIsOne, ZenonT(30) DEF ServerInv
<1> QED
  BY <1>1, ServerInvariant, PTL

\* Behind the flush every validation is in the database, or was kept back when
\* the store was empty (RCLValidations: flush).
THEOREM FlushIsComplete == Spec => []FlushWritesRest
<1>1. ServerInv => FlushWritesRest
  BY FlushLeavesNone DEF ServerInv
<1> QED
  BY <1>1, ServerInvariant, PTL

===============================================================================
