--------------------------- MODULE ValidationWriter ---------------------------
(***************************************************************************)
(* The writer of stale validations (app/consensus/RCLValidations.cpp), on  *)
(* the job queue: onStale keeps what the validation store hands over and   *)
(* adds a job that writes it to the database; flush hands over what is     *)
(* left when the server stops.  The lock of the writer is given up while   *)
(* the database is written.                                                *)
(*                                                                         *)
(* The store of module Validations is here the set of its current          *)
(* validations, all of them full: partial ones are never written.          *)
(***************************************************************************)
EXTENDS JobQueue

CONSTANTS
  Validation,       \* validations the network may bring, numbered as they come
  jtVALIDATION,     \* the jobs that add a validation or ask for the current
  jtWRITE

VARIABLES
  arrived,              \* validations the store has seen
  current_,             \* validations in the store
  handing,              \* per thread, those it hands over in this call
  staleValidations_,
  staleWriting_,
  currentStale,         \* per writer, the batch it writes
  database,             \* validations written
  anyNew                \* flush found something in the store

\* The threads that may write: those of the pool and the one that stops.
Writer == Thread \cup {0}

writerVars == <<arrived, current_, handing, staleValidations_, staleWriting_,
                currentStale, database, anyNew>>

InitWriter ==
  /\ arrived = {}
  /\ current_ = {}
  /\ handing = [w \in Thread |-> {}]
  /\ staleValidations_ = {}
  /\ staleWriting_ = FALSE
  /\ currentStale = [w \in Writer |-> {}]
  /\ database = {}
  /\ anyNew = FALSE

\* The store's mutex is free: it is held while validations are handed over.
StoreFree == \A v \in Thread : handing[v] = {} /\ pc[v] # "addWrite"

\* staleLock_ is free: onStale holds it while it adds a job.
StaleFree == \A v \in Thread : pc[v] # "addWrite"

-------------------------------------------------------------------------------
(* The jobs that use the store. *)

\* add: a validation that replaces the one the store had of its signer.
addValidation(w) ==
  /\ pc[w] = "validation"
  /\ StoreFree
  /\ \E v \in Validation, prior \in {{}} \cup {{u} : u \in current_} :
       /\ v = Cardinality(arrived) + 1
       /\ arrived' = arrived \cup {v}
       /\ current_' = (current_ \ prior) \cup {v}
       /\ handing' = [handing EXCEPT ![w] = prior]
       /\ Goto(w, IF prior = {} THEN "destroy" ELSE "onStale")
  /\ UNCHANGED <<queue, nSuspend_, closures, stopping, job, staleValidations_,
                 staleWriting_, currentStale, database, anyNew>>

\* current: the validations that have aged out leave the store.
sweep(w) ==
  /\ pc[w] = "validation"
  /\ StoreFree
  /\ \E aged \in SUBSET current_ :
       /\ current_' = current_ \ aged
       /\ handing' = [handing EXCEPT ![w] = aged]
       /\ Goto(w, IF aged = {} THEN "destroy" ELSE "onStale")
  /\ UNCHANGED <<queue, nSuspend_, closures, stopping, job, arrived,
                 staleValidations_, staleWriting_, currentStale, database,
                 anyNew>>

-------------------------------------------------------------------------------
(* The writer. *)

\* Where the thread goes on when onStale returns.
AfterStale(w) == IF handing'[w] = {} THEN "destroy" ELSE "onStale"

\* onStale up to the job, which is not added when the server stops.
onStale(w) ==
  /\ pc[w] = "onStale"
  /\ StaleFree
  /\ \E v \in handing[w] :
       /\ handing' = [handing EXCEPT ![w] = @ \ {v}]
       /\ staleValidations_' = staleValidations_ \cup {v}
  /\ \/ staleWriting_ /\ Goto(w, AfterStale(w)) /\ UNCHANGED closures
     \/ ~ staleWriting_ /\ Wrap /\ Goto(w, "addWrite")
     \/ ~ staleWriting_ /\ WrapFails /\ Goto(w, AfterStale(w))
  /\ UNCHANGED <<queue, nSuspend_, stopping, job, arrived, current_,
                 staleWriting_, currentStale, database, anyNew>>

AddWrite(w) ==
  /\ pc[w] = "addWrite"
  /\ addRefCountedJob(jtWRITE, NoCoro)
  /\ staleWriting_' = TRUE
  /\ UNCHANGED handing
  /\ Goto(w, AfterStale(w))
  /\ UNCHANGED <<nSuspend_, closures, stopping, job, arrived, current_,
                 staleValidations_, currentStale, database, anyNew>>

\* The batch is copied and not taken.
M_TakeBatch(w, Then) ==
  /\ StaleFree
  /\ staleValidations_ # {}
  /\ currentStale' = [currentStale EXCEPT ![w] = staleValidations_]
  /\ Then
  /\ UNCHANGED <<staleValidations_, staleWriting_>>

\* doStaleWrite, up to the lock being given up: the batch, or the end.
TakeBatch(w, Then) ==
  /\ StaleFree
  /\ staleValidations_ # {}
  /\ currentStale' = [currentStale EXCEPT ![w] = staleValidations_]
  /\ staleValidations_' = {}
  /\ Then
  /\ UNCHANGED staleWriting_

\* The flag is not reset.
M_NothingStale(Then) ==
  /\ StaleFree
  /\ staleValidations_ = {}
  /\ Then
  /\ UNCHANGED <<staleValidations_, staleWriting_, currentStale>>

NothingStale(Then) ==
  /\ StaleFree
  /\ staleValidations_ = {}
  /\ staleWriting_' = FALSE
  /\ Then
  /\ UNCHANGED <<staleValidations_, currentStale>>

WriteBatch(w, Then) ==
  /\ database' = database \cup currentStale[w]
  /\ currentStale' = [currentStale EXCEPT ![w] = {}]
  /\ Then

\* The job.
doStaleWrite(w) ==
  /\ \/ /\ pc[w] = "staleWrite"
        /\ \/ TakeBatch(w, Goto(w, "storing"))
           \/ NothingStale(Goto(w, "destroy"))
        /\ UNCHANGED database
     \/ /\ pc[w] = "storing"
        /\ WriteBatch(w, Goto(w, "staleWrite"))
        /\ UNCHANGED <<staleValidations_, staleWriting_>>
  /\ UNCHANGED <<queue, nSuspend_, closures, stopping, job, arrived, current_,
                 handing, anyNew>>

-------------------------------------------------------------------------------
(* The stop: Application::onStop flushes the store when the jobs are done.  *)

\* The stop leaves the writing to others.
M_flush ==
  /\ stopper = "joining"
  /\ closureCount_ = 0
  /\ StoreFree /\ StaleFree
  /\ staleValidations_' = staleValidations_ \cup current_
  /\ current_' = {}
  /\ anyNew' = (current_ # {})
  /\ stopper' = "flushed"
  /\ UNCHANGED <<queue, nSuspend_, closures, m_calledStop, m_childrenStopped,
                 m_is_stopping, m_stopped, pc, job, arrived, handing,
                 staleWriting_, currentStale, database>>

\* Validations::flush and flush up to the lock being given up.  The stop
\* writes itself when there is something new and nobody else writes.
flush ==
  /\ stopper = "joining"
  /\ closureCount_ = 0
  /\ StoreFree /\ StaleFree
  /\ staleValidations_' = staleValidations_ \cup current_
  /\ current_' = {}
  /\ anyNew' = (current_ # {})
  /\ staleWriting_' = (staleWriting_ \/ anyNew')
  /\ stopper' = IF anyNew' /\ ~ staleWriting_ THEN "flushing" ELSE "flushed"
  /\ UNCHANGED <<queue, nSuspend_, closures, m_calledStop, m_childrenStopped,
                 m_is_stopping, m_stopped, pc, job, arrived, handing,
                 currentStale, database>>

\* doStaleWrite, called by the stop.
FlushWrite ==
  /\ \/ /\ stopper = "flushing"
        /\ \/ TakeBatch(0, stopper' = "storing")
           \/ NothingStale(stopper' = "flushed")
        /\ UNCHANGED database
     \/ /\ stopper = "storing"
        /\ WriteBatch(0, stopper' = "flushing")
        /\ UNCHANGED <<staleValidations_, staleWriting_>>
  /\ UNCHANGED <<queue, nSuspend_, closures, m_calledStop, m_childrenStopped,
                 m_is_stopping, m_stopped, pc, job, arrived, current_,
                 handing, anyNew>>

-------------------------------------------------------------------------------
(* Correctness of the writer. *)

\* In how many places a validation is.
Places(v) ==
  Cardinality({i \in 1..3 : v \in <<current_, staleValidations_, database>>[i]})
    + Cardinality({w \in Thread : v \in handing[w]})
    + Cardinality({w \in Writer : v \in currentStale[w]})

\* How many are going to write: a job that waits, one that runs, the stop.
Writers ==
  Cardinality({j \in m_jobSet : j.type = jtWRITE})
    + Cardinality({w \in Thread : pc[w] \in {"staleWrite", "storing"}})
    + (IF stopper \in {"flushing", "storing"} THEN 1 ELSE 0)

\* There is one writer exactly when staleWriting_ says so, a validation that
\* waits has one unless the stop refused its job, and a validation is in one
\* place: although the lock is given up for each batch, none is written by
\* two threads and none is forgotten when the writer leaves as the next
\* validation comes (onStale, doStaleWrite).
OneStaleWriter ==
  /\ Writers = IF staleWriting_ THEN 1 ELSE 0
  /\ staleValidations_ # {} =>
       staleWriting_ \/ ~ StaleFree \/ waitForClosures_
  /\ \A v \in arrived : Places(v) = 1

\* The flush is over.
Flushed == stopper \in {"children", "check", "wait", "stopped"}

\* After the flush every validation the store ever had is in the database.
\* One whose job the stop refused is still kept back if the store had no
\* current validation then, as the flush looks only for those (flush).
FlushWritesRest ==
  Flushed =>
    /\ database \cup staleValidations_ = arrived
    /\ anyNew => database = arrived

\* A validation that goes stale is written, whatever the order in which the
\* writer, the next stale validation and the stop come (onStale, doStaleWrite).
StaleWritten ==
  \A v \in Validation :
    v \in staleValidations_ ~> v \in database \/ (Flushed /\ ~ anyNew)
===============================================================================
