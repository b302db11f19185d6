------------------------------- MODULE TaskPool -------------------------------
(***************************************************************************)
(* What Workers promises its callers (core/impl/Workers.h): every call of  *)
(* addTask results in exactly one call of processTask, made by a thread    *)
(* of the pool, as long as the pool has threads.                           *)
(***************************************************************************)
EXTENDS Naturals

VARIABLES
  pending,      \* tasks added for which processTask has not been called
  processing    \* calls of processTask that have not returned

Init ==
  /\ pending = 0
  /\ processing = 0

AddTask ==
  /\ pending' = pending + 1
  /\ UNCHANGED processing

StartTask ==
  /\ pending > 0
  /\ pending' = pending - 1
  /\ processing' = processing + 1

FinishTask ==
  /\ processing > 0
  /\ processing' = processing - 1
  /\ UNCHANGED pending

Next == AddTask \/ StartTask \/ FinishTask

Spec == Init /\ [][Next]_<<pending, processing>>
===============================================================================
