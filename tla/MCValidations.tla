----------------------------- MODULE MCValidations -----------------------------
(***************************************************************************)
(* Instances of Validations: ledger L1 comes before the competing ledgers  *)
(* L2 and M2, which have one sequence number.                              *)
(***************************************************************************)
EXTENDS Validations, TLC

CONSTANTS L1, L2, M2

Seqs == [l \in Ledger |-> IF l = L1 THEN 1 ELSE 2]

NodeSymmetry == Permutations(NodeID)
===============================================================================
