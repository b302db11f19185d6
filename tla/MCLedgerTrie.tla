----------------------------- MODULE MCLedgerTrie -----------------------------
(***************************************************************************)
(* A tree of nine ledgers: two forks, one of them below a run of single    *)
(* children, with IDs that break ties for the older and the newer branch.  *)
(*                                                                         *)
(*    0 - 4 - 2 - 6          (2 and 7 are children of 4)                   *)
(*          \ 7 - 3 - 5                                                    *)
(*    0 - 1 - 8                                                            *)
(***************************************************************************)
EXTENDS LedgerTrie, TLC

MCLedger == 0 .. 8

MCHistory ==
    <<<<0, 1>>, <<0, 4, 2>>, <<0, 4, 7, 3>>, <<0, 4>>, <<0, 4, 7, 3, 5>>,
      <<0, 4, 2, 6>>, <<0, 4, 7>>, <<0, 1, 8>>>> @@ (0 :> <<0>>)

===============================================================================
