------------------------------- MODULE MCServer -------------------------------
(***************************************************************************)
(* Instances of Server for TLC.  A plan is what the environment may bring: *)
(* clients, jobs of each type, and in "may" a server that has its ledgers  *)
(* from the start (sync), missing nodes, ledgers that grow old, new order  *)
(* books and the stop.                                                     *)
(***************************************************************************)
EXTENDS Server

Types == 1..6

\* At most one job of type jtPACK runs at a time; the others have no limit,
\* which is a number no run comes near.
NoLimit == 100
Limits == [t \in Types |-> IF t = jtPACK THEN 1 ELSE NoLimit]

None == [t \in Types |-> 0]

Plan(clients, jobs, may) == [clients |-> clients, jobs |-> jobs, may |-> may]

\* A client whose request meets new ledgers, old ones and missing nodes.
OneClient == Plan(1, [None EXCEPT ![jtADVANCE] = 1],
                  {"sync", "miss", "age"})

\* Two clients whose requests meet each other.
TwoClients == Plan(2, None, {"sync"})

\* A client when the server is stopped.
StopClient == Plan(1, None, {"sync", "miss", "stop"})

\* Jobs beyond the limit of their type when the server is stopped.
StopJobs == Plan(0, [None EXCEPT ![jtPACK] = 3], {"sync", "stop"})

\* A server that is stopped before or after it has its first ledger.
StopEarly == Plan(0, [None EXCEPT ![jtADVANCE] = 1], {"stop", "books"})

\* Validations that go stale while others are written and the server stops.
StopWriter == Plan(0, [None EXCEPT ![jtVALIDATION] = 3], {"sync", "stop"})

AllPlans == {OneClient, TwoClients, StopClient, StopJobs, StopEarly, StopWriter}
StopPlans == {StopClient}
===============================================================================
