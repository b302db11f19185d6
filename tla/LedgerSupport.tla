----------------------------- MODULE LedgerSupport -----------------------------
(***************************************************************************)
(* What the ancestry trie promises about tip support: it is a bag of       *)
(* ledgers, to which insert adds copies and from which remove takes at most *)
(* the copies there are.                                                   *)
(***************************************************************************)
EXTENDS Integers

CONSTANTS Ledger, MaxCount

VARIABLE support   \* how many validators last validated each ledger

Init == support = [l \in Ledger |-> 0]

Insert(l, count) == support' = [support EXCEPT ![l] = @ + count]

Remove(l, count) ==
    support' = [support EXCEPT ![l] = IF @ >= count THEN @ - count ELSE 0]

\* One validator's copy moves from one ledger to another.
Move(old, new) ==
    /\ support[old] > 0
    /\ support' = [[support EXCEPT ![old] = @ - 1] EXCEPT ![new] = @ + 1]

Next ==
    \E l \in Ledger :
        \/ \E count \in 1 .. MaxCount : Insert(l, count) \/ Remove(l, count)
        \/ \E old \in Ledger : Move(old, l)

Spec == Init /\ [][Next]_support

===============================================================================
