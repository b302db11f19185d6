------------------------------ MODULE MCConsensus ------------------------------
(***************************************************************************)
(* Instances of Consensus for TLC.                                         *)
(***************************************************************************)
EXTENDS Consensus, TLC

CONSTANTS p1, p2, p3, t1, t2, A, B

\* Proposal sequence number 0xffffffff; any number above MaxSeq will do.
Leave == 9

\* Ledger 8 is next after A: resolution 30 goes to 20 when A's close time was
\* agreed.  B is a competitor whose close time was not agreed and where the
\* amendment for rounded close times is not enabled.
Ledgers ==
  [l \in Ledger |->
     IF l = A THEN [seq |-> 7, closeTime |-> 95, resolution |-> 30,
                    closeAgree |-> TRUE, rounded |-> TRUE]
     ELSE [seq |-> 7, closeTime |-> 91, resolution |-> 30,
           closeAgree |-> FALSE, rounded |-> FALSE]]

\* An empty set, two that differ from each other and one that holds both.
ManySets == {{}, {t1}, {t2}}
FewSets == {{}, {t1}}
OneSet == {{t1}}

PeerSymmetry == Permutations(Peer)
===============================================================================
