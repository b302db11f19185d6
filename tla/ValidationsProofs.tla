--------------------------- MODULE ValidationsProofs ---------------------------
(***************************************************************************)
(* Safety of the validation store, for any constants that                  *)
(* ValidationsAssumption and WindowAssumption allow: what the trie counts, *)
(* what becomes of stale and conflicting validations, that the recorded    *)
(* trust flags follow trustChanged, and that the ledgers being acquired    *)
(* follow the current validations.                                         *)
(***************************************************************************)
EXTENDS Validations, FiniteSetTheorems, TLAPS

-----------------------------------------------------------------------------
(* Support: the trie counts the nodes of lastLedger_. *)

SupportType ==
  [trie : [Ledger -> Nat], last : [NodeID -> MaybeLedger],
   acq : [Ledger -> SUBSET NodeID]]

Counts(trie, last) ==
  \A l \in Ledger : trie[l] = Cardinality({n \in NodeID : last[n] = l})

SupportOK(T) == T \in SupportType /\ Counts(T.trie, T.last)

\* Any set of nodes is finite.
LEMMA NodesFinite ==
  ASSUME NEW S \in SUBSET NodeID
  PROVE  IsFiniteSet(S) /\ Cardinality(S) \in Nat
  BY ValidationsAssumption, FS_Subset, FS_CardinalityType

\* A set of nodes that falls into two parts.
LEMMA TwoParts ==
  ASSUME NEW S \in SUBSET NodeID, NEW R \in SUBSET NodeID, S \cap R = {}
  PROVE  Cardinality(S \cup R) = Cardinality(S) + Cardinality(R)
<1>1. Cardinality(S \cup R) = Cardinality(S) + Cardinality(R) - Cardinality(S \cap R)
  BY NodesFinite, FS_Union
<1>2. Cardinality(S \cap R) = 0
  BY FS_EmptySet
<1> QED
  BY <1>1, <1>2, NodesFinite

\* The nodes of S that last has at l.
At(last, S, l) == {n \in S : last[n] = l}

\* When the nodes ns move from where last has them to where to has them, the
\* count of each ledger loses those that leave and gains those that come.
LEMMA MoveCounts ==
  ASSUME NEW last \in [NodeID -> MaybeLedger],
         NEW to \in [NodeID -> MaybeLedger],
         NEW ns \in SUBSET NodeID, NEW l \in Ledger, NEW new,
         new = [n \in NodeID |-> IF n \in ns THEN to[n] ELSE last[n]]
  PROVE  Cardinality(At(new, NodeID, l))
           = Cardinality(At(last, NodeID, l))
               - Cardinality(At(last, ns, l)) + Cardinality(At(to, ns, l))
<1> DEFINE stay == At(last, NodeID \ ns, l)
           leave == At(last, ns, l)
           come == At(to, ns, l)
<1>1. At(last, NodeID, l) = stay \cup leave /\ stay \cap leave = {}
  BY DEF At
<1>2. At(new, NodeID, l) = stay \cup come /\ stay \cap come = {}
  BY DEF At
<1>3. /\ stay \in SUBSET NodeID
      /\ leave \in SUBSET NodeID
      /\ come \in SUBSET NodeID
  BY DEF At
<1> HIDE DEF stay, leave, come
<1>4. Cardinality(stay \cup leave) = Cardinality(stay) + Cardinality(leave)
  BY <1>1, <1>3, TwoParts
<1>5. Cardinality(stay \cup come) = Cardinality(stay) + Cardinality(come)
  BY <1>2, <1>3, TwoParts
<1>6. /\ Cardinality(stay) \in Nat
      /\ Cardinality(leave) \in Nat
      /\ Cardinality(come) \in Nat
  BY <1>3, NodesFinite
<1>7. Cardinality(At(new, NodeID, l))
        = Cardinality(At(last, NodeID, l))
            - Cardinality(leave) + Cardinality(come)
  <2>1. Cardinality(At(last, NodeID, l)) = Cardinality(stay) + Cardinality(leave)
    BY <1>1, <1>4
  <2>2. Cardinality(At(new, NodeID, l)) = Cardinality(stay) + Cardinality(come)
    BY <1>2, <1>5
  <2> QED
    BY <1>6, <2>1, <2>2
<1> QED
  BY <1>7 DEF leave, come

LEMMA UpdateTrieOK ==
  ASSUME NEW T, SupportOK(T), NEW ns \in SUBSET NodeID,
         NEW to \in [NodeID -> MaybeLedger]
  PROVE  /\ SupportOK(updateTrie(T, ns, to))
         /\ updateTrie(T, ns, to).acq = T.acq
         /\ updateTrie(T, ns, to).last
              = [n \in NodeID |-> IF n \in ns THEN to[n] ELSE T.last[n]]
<1> DEFINE new == [n \in NodeID |-> IF n \in ns THEN to[n] ELSE T.last[n]]
           sum == given(withdrawn(T.trie, T.last, ns), to, ns)
<1>1. /\ T.last \in [NodeID -> MaybeLedger]
      /\ T.trie \in [Ledger -> Nat]
      /\ T.acq \in [Ledger -> SUBSET NodeID]
      /\ T = [trie |-> T.trie, last |-> T.last, acq |-> T.acq]
  BY DEF SupportOK, SupportType
<1>2. updateTrie(T, ns, to) = [trie |-> sum, last |-> new, acq |-> T.acq]
  <2>1. updateTrie(T, ns, to) = [[T EXCEPT !.trie = sum] EXCEPT !.last = new]
    BY Zenon DEF updateTrie
  <2> HIDE DEF sum, new
  <2> QED
    BY <1>1, <2>1, Zenon
<1>3. new \in [NodeID -> MaybeLedger]
  BY <1>1
<1>4. \A l \in Ledger : sum[l] = Cardinality(At(new, NodeID, l))
  <2> SUFFICES ASSUME NEW l \in Ledger
               PROVE  sum[l] = Cardinality(At(new, NodeID, l))
    OBVIOUS
  <2>1. sum[l] = T.trie[l] - Cardinality(At(T.last, ns, l))
                   + Cardinality(At(to, ns, l))
    BY DEF given, withdrawn, At
  <2>2. T.trie[l] = Cardinality(At(T.last, NodeID, l))
    BY DEF SupportOK, Counts, At
  <2>3. Cardinality(At(new, NodeID, l))
          = Cardinality(At(T.last, NodeID, l))
              - Cardinality(At(T.last, ns, l)) + Cardinality(At(to, ns, l))
    BY <1>1, MoveCounts
  <2> HIDE DEF sum, new
  <2> QED
    BY <2>1, <2>2, <2>3
<1>5. sum = [l \in Ledger |-> sum[l]]
  BY DEF given
<1>6. \A l \in Ledger : Cardinality(At(new, NodeID, l)) \in Nat
  BY NodesFinite, Zenon DEF At
<1> HIDE DEF sum, new
<1>7. sum \in [Ledger -> Nat]
  BY <1>4, <1>5, <1>6
<1>8. SupportOK([trie |-> sum, last |-> new, acq |-> T.acq])
  BY <1>1, <1>3, <1>4, <1>7 DEF SupportOK, SupportType, Counts, At
<1> QED
  BY <1>2, <1>8 DEF new

LEMMA RemoveTrieOK ==
  ASSUME NEW T, SupportOK(T), NEW ns \in SUBSET NodeID, NEW vals
  PROVE  SupportOK(removeTrie(T, ns, vals))
<1> DEFINE gone == {n \in ns : T.last[n] = vals[n].ledgerID}
           none == [n \in NodeID |-> NoLedger]
           R == updateTrie(T, gone, none)
           acq == [l \in Ledger |-> T.acq[l] \ {n \in ns : vals[n].ledgerID = l}]
<1>1. SupportOK(R)
  BY UpdateTrieOK, Zenon DEF MaybeLedger
<1>2. R.last = [n \in NodeID |-> IF n \in gone THEN NoLedger ELSE T.last[n]]
  <2>1. R.last = [n \in NodeID |-> IF n \in gone THEN none[n] ELSE T.last[n]]
    BY UpdateTrieOK DEF MaybeLedger
  <2> QED
    BY <2>1
<1>3. R.trie = withdrawn(T.trie, T.last, gone)
  <2>1. R.trie = given(withdrawn(T.trie, T.last, gone), none, gone)
    BY DEF updateTrie, SupportOK, SupportType
  <2>2. \A l \in Ledger : {n \in gone : none[n] = l} = {}
    BY ValidationsAssumption
  <2>3. \A l \in Ledger : withdrawn(T.trie, T.last, gone)[l] \in Int
    BY NodesFinite DEF withdrawn, SupportOK, SupportType
  <2>4. \A l \in Ledger : R.trie[l] = withdrawn(T.trie, T.last, gone)[l]
    BY <2>1, <2>2, <2>3, FS_EmptySet DEF given
  <2> QED
    BY <2>1, <2>4, Zenon DEF given, withdrawn
<1>4. acq \in [Ledger -> SUBSET NodeID]
  BY DEF SupportOK, SupportType
<1>5. removeTrie(T, ns, vals) = [trie |-> R.trie, last |-> R.last, acq |-> acq]
  BY <1>2, <1>3, Zenon DEF removeTrie
<1> HIDE DEF R, acq
<1> QED
  BY <1>1, <1>4, <1>5 DEF SupportOK, SupportType

\* Replacing acquiring_ leaves the counts alone.
LEMMA WithAcqOK ==
  ASSUME NEW T, SupportOK(T), NEW acq \in [Ledger -> SUBSET NodeID]
  PROVE  /\ SupportOK([T EXCEPT !.acq = acq])
         /\ [T EXCEPT !.acq = acq].acq = acq
         /\ [T EXCEPT !.acq = acq].last = T.last
<1>1. /\ T = [trie |-> T.trie, last |-> T.last, acq |-> T.acq]
      /\ T.trie \in [Ledger -> Nat]
      /\ T.last \in [NodeID -> MaybeLedger]
  BY DEF SupportOK, SupportType
<1>2. [T EXCEPT !.acq = acq] = [trie |-> T.trie, last |-> T.last, acq |-> acq]
  BY <1>1
<1> QED
  BY <1>1, <1>2 DEF SupportOK, SupportType

LEMMA CheckAcquiredOK ==
  ASSUME NEW T, SupportOK(T), NEW to \in arrivals(T)
  PROVE  /\ SupportOK(checkAcquired(T, to))
         /\ checkAcquired(T, to).acq
              = [l \in Ledger |-> IF l \in available THEN {} ELSE T.acq[l]]
         /\ checkAcquired(T, to).last
              = [n \in NodeID |-> IF n \in arrived(T) THEN to[n] ELSE T.last[n]]
<1> DEFINE U == updateTrie(T, arrived(T), to)
           acq == [l \in Ledger |-> IF l \in available THEN {} ELSE T.acq[l]]
<1>1. arrived(T) \in SUBSET NodeID /\ to \in [NodeID -> MaybeLedger]
  BY DEF arrived, arrivals
<1>2. SupportOK(U) /\ U.last
        = [n \in NodeID |-> IF n \in arrived(T) THEN to[n] ELSE T.last[n]]
  BY <1>1, UpdateTrieOK
<1>3. acq \in [Ledger -> SUBSET NodeID]
  BY DEF SupportOK, SupportType
<1>4. checkAcquired(T, to) = [U EXCEPT !.acq = acq]
  BY DEF checkAcquired
<1> HIDE DEF U, acq
<1>5. /\ SupportOK(checkAcquired(T, to))
      /\ checkAcquired(T, to).acq = acq
      /\ checkAcquired(T, to).last = U.last
  BY <1>2, <1>3, <1>4, WithAcqOK
<1> QED
  BY <1>2, <1>5 DEF acq

LEMMA SettleOK ==
  ASSUME NEW T, SupportOK(T), NEW ns \in SUBSET NodeID, NEW vals,
         \A n \in ns : vals[n].ledgerID \in Ledger
  PROVE  /\ SupportOK(settle(T, ns, vals))
         /\ settle(T, ns, vals).acq
              = [l \in Ledger |-> T.acq[l] \cup
                   {n \in ns : vals[n].ledgerID \notin available
                                  /\ vals[n].ledgerID = l}]
         /\ settle(T, ns, vals).last
              = [n \in NodeID |->
                   IF n \in ns /\ vals[n].ledgerID \in available
                   THEN vals[n].ledgerID ELSE T.last[n]]
<1> DEFINE now == {n \in ns : vals[n].ledgerID \in available}
           to == [n \in NodeID |-> IF n \in now THEN vals[n].ledgerID ELSE NoLedger]
           U == updateTrie(T, now, to)
           acq == [l \in Ledger |->
                     T.acq[l] \cup {n \in ns \ now : vals[n].ledgerID = l}]
<1>1. now \in SUBSET NodeID /\ to \in [NodeID -> MaybeLedger]
  BY DEF MaybeLedger
<1>2. SupportOK(U)
      /\ U.last = [n \in NodeID |-> IF n \in now THEN to[n] ELSE T.last[n]]
  BY <1>1, UpdateTrieOK
<1>3. U.last = [n \in NodeID |->
                  IF n \in ns /\ vals[n].ledgerID \in available
                  THEN vals[n].ledgerID ELSE T.last[n]]
  BY <1>2
<1>4. acq \in [Ledger -> SUBSET NodeID]
  BY DEF SupportOK, SupportType
<1>5. settle(T, ns, vals) = [U EXCEPT !.acq = acq]
  BY DEF settle
<1>6. acq = [l \in Ledger |-> T.acq[l] \cup
               {n \in ns : vals[n].ledgerID \notin available
                              /\ vals[n].ledgerID = l}]
  <2>1. \A l \in Ledger : {n \in ns \ now : vals[n].ledgerID = l}
          = {n \in ns : vals[n].ledgerID \notin available
                           /\ vals[n].ledgerID = l}
    OBVIOUS
  <2> QED
    BY <2>1
<1> HIDE DEF now, to, U, acq
<1>7. /\ SupportOK(settle(T, ns, vals))
      /\ settle(T, ns, vals).acq = acq
      /\ settle(T, ns, vals).last = U.last
  BY <1>2, <1>4, <1>5, WithAcqOK
<1> QED
  BY <1>3, <1>6, <1>7

\* What is used of settle, apart.
Settling(T, ns, vals) ==
  /\ SupportOK(T) /\ ns \in SUBSET NodeID
  /\ \A n \in ns : vals[n].ledgerID \in Ledger

IsSettled(T, ns, vals, U) ==
  /\ U.acq = [l \in Ledger |-> T.acq[l] \cup
                {m \in ns : vals[m].ledgerID \notin available
                               /\ vals[m].ledgerID = l}]
  /\ U.last = [m \in NodeID |->
                 IF m \in ns /\ vals[m].ledgerID \in available
                 THEN vals[m].ledgerID ELSE T.last[m]]

LEMMA SettleFields ==
  ASSUME NEW T, NEW ns, NEW vals, Settling(T, ns, vals)
  PROVE  IsSettled(T, ns, vals, settle(T, ns, vals))
  BY SettleOK DEF Settling, IsSettled

\* The support as it is now.
LEMMA SupportNow ==
  ASSUME TypeOK, TrieCountsLastLedgers
  PROVE  SupportOK(Support)
  BY DEF TypeOK, TrieCountsLastLedgers, SupportOK, SupportType, Counts, Support

\* Setting the support from a good record keeps it good.
LEMMA SetSupportOK ==
  ASSUME NEW T, SupportOK(T), SetSupport(T)
  PROVE  /\ trie_' \in [Ledger -> Nat]
         /\ lastLedger_' \in [NodeID -> MaybeLedger]
         /\ acquiring_' \in [Ledger -> SUBSET NodeID]
         /\ TrieCountsLastLedgers'
  BY DEF SupportOK, SupportType, Counts, SetSupport, TrieCountsLastLedgers

-----------------------------------------------------------------------------
(* Types and counts. *)

\* The inductive invariant of the types: that the trie stays in Nat rests on
\* its counting the nodes of lastLedger_.
TypeInv == TypeOK /\ TrieCountsLastLedgers

SupportKept ==
  /\ trie_ \in [Ledger -> Nat]
  /\ lastLedger_ \in [NodeID -> MaybeLedger]
  /\ acquiring_ \in [Ledger -> SUBSET NodeID]
  /\ TrieCountsLastLedgers

LEMMA SameSupport ==
  ASSUME TypeInv, UNCHANGED support
  PROVE  SupportKept'
  BY DEF TypeInv, TypeOK, support, SupportKept, TrieCountsLastLedgers

LEMMA NewSupport ==
  ASSUME NEW T, SupportOK(T), SetSupport(T)
  PROVE  SupportKept'
  BY SetSupportOK DEF SupportKept

\* The record of the support without a prior acquisition of node n.
LEMMA PriorDropped ==
  ASSUME TypeInv, NEW n \in NodeID, NEW prior
  PROVE  SupportOK([Support EXCEPT !.acq = [l \in Ledger |->
             IF l = prior THEN acquiring_[l] \ {n} ELSE acquiring_[l]]])
<1>1. SupportOK(Support)
  BY SupportNow DEF TypeInv
<1>2. [l \in Ledger |-> IF l = prior THEN acquiring_[l] \ {n} ELSE acquiring_[l]]
        \in [Ledger -> SUBSET NodeID]
  BY DEF TypeInv, TypeOK
<1> QED
  BY <1>1, <1>2, WithAcqOK, Zenon

LEMMA ReflectKept ==
  ASSUME TypeInv, NEW n \in NodeID, NEW v \in Validation, Reflect(n, v)
  PROVE  SupportKept'
<1> DEFINE prior == IF current_[n] = NoValidation THEN NoLedger
                    ELSE current_[n].ledgerID
           T == [Support EXCEPT !.acq = [l \in Ledger |->
                 IF l = prior THEN acquiring_[l] \ {n} ELSE acquiring_[l]]]
           vals == [current_ EXCEPT ![n] = v]
<1>1. CASE ~v.trusted
  BY <1>1, SameSupport DEF Reflect
<1>2. CASE v.trusted
  <2>1. PICK to \in arrivals(T) :
             SetSupport(settle(checkAcquired(T, to), {n}, vals))
    BY <1>2, Zenon DEF Reflect
  <2>2. SupportOK(T)
    BY PriorDropped, ZenonT(30)
  <2>3. vals[n].ledgerID \in Ledger
    BY DEF TypeInv, TypeOK, Validation
  <2> HIDE DEF T, vals
  <2>4. SupportOK(checkAcquired(T, to))
    BY <2>2, CheckAcquiredOK, Zenon
  <2>5. SupportOK(settle(checkAcquired(T, to), {n}, vals))
    BY <2>3, <2>4, SettleOK, Zenon
  <2> QED
    BY <2>1, <2>5, NewSupport
<1> QED
  BY <1>1, <1>2

LEMMA RetrustKept ==
  ASSUME TypeInv, Retrust
  PROVE  SupportKept'
<1> DEFINE present == {n \in NodeID : current_[n] # NoValidation}
           up == changes.added \cap present
           down == changes.removed \cap present
<1>1. SupportOK(Support)
  BY SupportNow DEF TypeInv
<1>2. up \in SUBSET NodeID /\ down \in SUBSET NodeID
  OBVIOUS
<1>3. CASE SetSupport(removeTrie(Support, down, current_))
  BY <1>1, <1>2, <1>3, RemoveTrieOK, NewSupport
<1>4. ASSUME NEW early \in SUBSET down,
             NEW to \in arrivals(removeTrie(Support, early, current_)),
             SetSupport(settle(removeTrie(
               checkAcquired(removeTrie(Support, early, current_), to),
               down \ early, current_), up, current_))
      PROVE  SupportKept'
  <2> DEFINE T == removeTrie(Support, early, current_)
             R == removeTrie(checkAcquired(T, to), down \ early, current_)
  <2>1. early \in SUBSET NodeID /\ down \ early \in SUBSET NodeID
    OBVIOUS
  <2>2. \A n \in up : current_[n].ledgerID \in Ledger
    BY DEF TypeInv, TypeOK, MaybeValidation, Validation
  <2> HIDE DEF up, down
  <2>3. SupportOK(T)
    BY <1>1, <2>1, RemoveTrieOK
  <2>4. SupportOK(checkAcquired(T, to))
    BY <1>4, <2>3, CheckAcquiredOK, Zenon
  <2>5. SupportOK(R)
    BY <2>1, <2>4, RemoveTrieOK
  <2>6. SupportOK(settle(R, up, current_))
    BY <1>2, <2>2, <2>5, SettleOK, Zenon
  <2> QED
    BY <1>4, <2>6, NewSupport
<1> QED
  BY <1>3, <1>4, Zenon DEF Retrust

LEMMA SweepKept ==
  ASSUME TypeInv, Current \/ WithTrie
  PROVE  SupportKept'
<1> DEFINE T == removeTrie(Support, Aged, current_)
<1>1. SupportOK(T)
  BY SupportNow, RemoveTrieOK DEF TypeInv, Aged
<1> HIDE DEF T
<1>2. CASE SetSupport(T)
  BY <1>1, <1>2, NewSupport
<1>3. ASSUME NEW to \in arrivals(T), SetSupport(checkAcquired(T, to))
      PROVE  SupportKept'
  BY <1>1, <1>3, CheckAcquiredOK, NewSupport, Zenon
<1> QED
  BY <1>2, <1>3 DEF Current, WithTrie, T

LEMMA EnforcedType ==
  ASSUME NEW e \in Enforcer, NEW s \in Nat, steady \in Nat
  PROVE  enforced(e, s) \in Enforcer
<1>1. inForce(e) \in Nat
  BY DEF inForce, Enforcer
<1>2. [e EXCEPT !.seq = inForce(e)] \in Enforcer
  BY <1>1 DEF Enforcer
<1>3. [seq |-> s, when |-> steady] \in Enforcer
  BY DEF Enforcer
<1> QED
  BY <1>2, <1>3, Zenon DEF enforced

LEMMA WithTrustType ==
  ASSUME NEW n \in NodeID, NEW v \in MaybeValidation
  PROVE  /\ withTrust(n, v) \in MaybeValidation
         /\ withTrust(n, v) = NoValidation <=> v = NoValidation
         /\ v # NoValidation => Issued(n, withTrust(n, v)) = Issued(n, v)
<1>1. CASE v = NoValidation
  BY <1>1 DEF withTrust
<1>2. CASE v # NoValidation
  <2>1. v \in Validation
    BY <1>2 DEF MaybeValidation
  <2>2. withTrust(n, v) \in {v, [v EXCEPT !.trusted = TRUE],
                               [v EXCEPT !.trusted = FALSE]}
    BY Zenon DEF withTrust
  <2>3. \A w \in {v, [v EXCEPT !.trusted = TRUE], [v EXCEPT !.trusted = FALSE]} :
          w \in Validation /\ Issued(n, w) = Issued(n, v)
    BY <2>1, Zenon DEF Validation, Issued
  <2> QED
    BY <1>2, <2>2, <2>3, ValidationsAssumption, Zenon DEF MaybeValidation
<1> QED
  BY <1>1, <1>2

IssuedType == [node : NodeID, ledgerID : Ledger, signTime : Nat]

LEMMA HandedOverType ==
  ASSUME TypeOK, NEW ns \in SUBSET NodeID,
         \A n \in ns : current_[n] # NoValidation
  PROVE  HandedOver(ns) \subseteq IssuedType
  BY DEF TypeOK, HandedOver, Issued, IssuedType, MaybeValidation, Validation

LEMMA IndexType ==
  ASSUME TypeOK, NEW n \in NodeID, NEW v \in Validation, Index(n, v)
  PROVE  /\ byLedger_' \in [Ledger -> [NodeID -> MaybeValidation]]
         /\ touched' \in [Ledger -> Nat]
         /\ detached' \in SUBSET NodeID
<1>1. v.ledgerID \in Ledger
  BY DEF Validation
<1>2. byLedger_' \in [Ledger -> [NodeID -> MaybeValidation]]
  BY <1>1 DEF TypeOK, Index, MaybeValidation
<1>3. touched' \in [Ledger -> Nat]
  BY <1>1 DEF TypeOK, Index
<1>4. detached' \in SUBSET NodeID
  BY DEF TypeOK, Index
<1> QED
  BY <1>2, <1>3, <1>4

LEMMA TryAddType ==
  ASSUME TypeOK, NEW n \in NodeID, TryAdd(n)
  PROVE  /\ pending[n] \in Validation
         /\ seqEnforcers_' \in [NodeID -> Enforcer]
         /\ pending' \in [NodeID -> MaybeValidation]
<1>1. pending[n] \in Validation
  BY DEF TypeOK, TryAdd, MaybeValidation
<1>2. LedgerSeq[pending[n].ledgerID] \in Nat
  BY <1>1, ValidationsAssumption DEF Validation
<1>3. enforced(seqEnforcers_[n], LedgerSeq[pending[n].ledgerID]) \in Enforcer
  BY <1>2, EnforcedType, Zenon DEF TypeOK
<1> QED
  BY <1>1, <1>3 DEF TypeOK, TryAdd, MaybeValidation

LEMMA ReceiveType ==
  ASSUME TypeOK, NEW n \in NodeID, NEW l \in Ledger, NEW t \in SignTimes,
         Receive(n, l, t)
  PROVE  pending' \in [NodeID -> MaybeValidation]
<1> DEFINE v == [ledgerID |-> l, signTime |-> t, seenTime |-> netNow,
                 trusted |-> n \in trusted]
<1>1. netNow \in Nat /\ t \in Nat
  BY ValidationsAssumption DEF TypeOK, netNow, SignTimes
<1>2. (n \in trusted) \in BOOLEAN
  OBVIOUS
<1>3. v \in Validation
  <2>1. ASSUME NEW b \in BOOLEAN, b = (n \in trusted)
        PROVE  v \in Validation
    BY <1>1, <2>1 DEF Validation
  <2> QED
    BY <1>2, <2>1, Zenon
<1>4. pending' = [pending EXCEPT ![n] = v]
  BY DEF Receive
<1> QED
  BY <1>3, <1>4 DEF TypeOK, MaybeValidation

\* What TypeOK says beyond the support.
StoreType ==
  /\ current_ \in [NodeID -> MaybeValidation]
  /\ seqEnforcers_ \in [NodeID -> Enforcer]
  /\ localSeqEnforcer_ \in Enforcer
  /\ byLedger_ \in [Ledger -> [NodeID -> MaybeValidation]]
  /\ touched \in [Ledger -> Nat]
  /\ pending \in [NodeID -> MaybeValidation]
  /\ stale \subseteq IssuedType
  /\ detached \in SUBSET NodeID

ContextType ==
  /\ steady \in Nat
  /\ skew \in 0 .. MaxSkew
  /\ trusted \in SUBSET NodeID
  /\ changes \in [added : SUBSET NodeID, removed : SUBSET NodeID]
  /\ available \in SUBSET Ledger

LEMMA TypeInvParts == TypeInv <=> StoreType /\ ContextType /\ SupportKept
  BY DEF TypeInv, TypeOK, StoreType, ContextType, SupportKept, IssuedType

LEMMA InitTypeInv == Init => TypeInv
<1> SUFFICES ASSUME Init PROVE TypeInv
  OBVIOUS
<1>1. StoreType
  BY DEF Init, StoreType, MaybeValidation, Enforcer, IssuedType
<1>2. ContextType
  BY ValidationsAssumption DEF Init, ContextType
<1>3. SupportKept
  <2>1. \A l \in Ledger : {n \in NodeID : lastLedger_[n] = l} = {}
    BY ValidationsAssumption DEF Init
  <2>2. TrieCountsLastLedgers
    BY <2>1, FS_EmptySet, Zenon DEF Init, TrieCountsLastLedgers
  <2> QED
    BY <2>2 DEF Init, SupportKept, MaybeLedger
<1> QED
  BY <1>1, <1>2, <1>3, TypeInvParts

LEMMA NextTypeInv == TypeInv /\ [Next]_vars => TypeInv'
<1> SUFFICES ASSUME TypeInv, [Next]_vars
             PROVE  StoreType' /\ ContextType' /\ SupportKept'
  BY TypeInvParts DEF TypeInv, TypeOK, StoreType, ContextType, SupportKept,
     IssuedType
<1> USE DEF store, clocks, trust
<1>0. TypeOK /\ StoreType /\ ContextType /\ SupportKept
  BY TypeInvParts DEF TypeInv
<1>1. ASSUME NEW n \in NodeID, NEW l \in Ledger, NEW t \in SignTimes,
             Receive(n, l, t)
      PROVE  StoreType' /\ ContextType' /\ SupportKept'
  BY <1>0, <1>1, ReceiveType, SameSupport, ZenonT(30)
     DEF Receive, StoreType, ContextType
<1>2. ASSUME NEW n \in NodeID, AddStale(n)
      PROVE  StoreType' /\ ContextType' /\ SupportKept'
  BY <1>0, <1>2, SameSupport
     DEF AddStale, StoreType, ContextType, MaybeValidation
<1>3. ASSUME NEW n \in NodeID, AddBadSeq(n)
      PROVE  StoreType' /\ ContextType' /\ SupportKept'
  <2>1. TryAdd(n) /\ UNCHANGED <<store, touched, support, stale, detached>>
    BY <1>3 DEF AddBadSeq
  <2> QED
    BY <1>0, <2>1, TryAddType, SameSupport, Zenon
       DEF TryAdd, StoreType, ContextType
<1>4. ASSUME NEW n \in NodeID, AddOutdated(n)
      PROVE  StoreType' /\ ContextType' /\ SupportKept'
  <2>1. TryAdd(n) /\ Index(n, pending[n]) /\ UNCHANGED <<current_, support, stale>>
    BY <1>4 DEF AddOutdated
  <2>2. pending[n] \in Validation
    BY <1>0, <2>1, TryAddType
  <2>3. ContextType'
    BY <1>0, <2>1 DEF TryAdd, ContextType
  <2>4. StoreType'
    BY <1>0, <2>1, <2>2, TryAddType, IndexType, Zenon DEF TryAdd, StoreType
  <2> QED
    BY <2>1, <2>3, <2>4, SameSupport
<1>5. ASSUME NEW n \in NodeID, AddCurrent(n)
      PROVE  StoreType' /\ ContextType' /\ SupportKept'
  <2>1. /\ TryAdd(n)
        /\ Index(n, pending[n])
        /\ current_' = [current_ EXCEPT ![n] = pending[n]]
        /\ stale' = stale \cup HandedOver({m \in {n} : current_[m] # NoValidation})
        /\ Reflect(n, pending[n])
    BY <1>5 DEF AddCurrent
  <2>2. pending[n] \in Validation
    BY <1>0, <2>1, TryAddType, Zenon
  <2>3. ContextType'
    BY <1>0, <2>1, Zenon DEF TryAdd, ContextType
  <2>4. stale' \subseteq IssuedType
    BY <1>0, <2>1, HandedOverType, Zenon DEF StoreType
  <2>5. current_' \in [NodeID -> MaybeValidation]
    BY <1>0, <2>1, <2>2 DEF StoreType, MaybeValidation
  <2>6. StoreType'
    BY <1>0, <2>1, <2>2, <2>4, <2>5, TryAddType, IndexType, Zenon
       DEF TryAdd, StoreType
  <2>7. SupportKept'
    BY <2>1, <2>2, ReflectKept, Zenon
  <2> QED
    BY <2>3, <2>6, <2>7
<1>6. ASSUME NEW new \in TrustSets, UpdateTrusted(new)
      PROVE  StoreType' /\ ContextType' /\ SupportKept'
  BY <1>0, <1>6, SameSupport, ValidationsAssumption
     DEF UpdateTrusted, StoreType, ContextType
<1>7. ASSUME TrustChanged
      PROVE  StoreType' /\ ContextType' /\ SupportKept'
  <2>1. SupportKept'
    BY <1>7, RetrustKept, Zenon DEF TrustChanged
  <2>2. current_' \in [NodeID -> MaybeValidation]
    BY <1>0, <1>7, WithTrustType, Zenon DEF TrustChanged, StoreType
  <2>3. byLedger_' \in [Ledger -> [NodeID -> MaybeValidation]]
    <3>1. \A l \in Ledger, n \in NodeID :
             withTrust(n, byLedger_[l][n]) \in MaybeValidation
      BY <1>0, WithTrustType DEF StoreType
    <3> QED
      BY <1>7, <3>1 DEF TrustChanged
  <2> QED
    BY <1>0, <1>7, <2>1, <2>2, <2>3, ZenonT(30)
       DEF TrustChanged, StoreType, ContextType
<1>8. ASSUME Current \/ WithTrie
      PROVE  StoreType' /\ ContextType' /\ SupportKept'
  <2>1. Sweep
    BY <1>8 DEF Current, WithTrie
  <2>2. SupportKept'
    BY <1>8, SweepKept
  <2>3. stale' \subseteq IssuedType
    BY <1>0, <2>1, HandedOverType DEF Sweep, Aged, StoreType
  <2>4. current_' \in [NodeID -> MaybeValidation]
    BY <1>0, <2>1, Zenon DEF Sweep, StoreType, MaybeValidation
  <2> QED
    BY <1>0, <2>1, <2>2, <2>3, <2>4 DEF Sweep, StoreType, ContextType
<1>9. ASSUME NEW l \in Ledger, ByLedger(l)
      PROVE  StoreType' /\ ContextType' /\ SupportKept'
  BY <1>0, <1>9, SameSupport, Zenon DEF ByLedger, StoreType, ContextType
<1>10. ASSUME NEW l \in Remote, LedgerAvailability(l)
       PROVE  StoreType' /\ ContextType' /\ SupportKept'
  BY <1>0, <1>10, SameSupport, ValidationsAssumption, Zenon
     DEF LedgerAvailability, StoreType, ContextType
<1>11. ASSUME NEW s \in LocalSeqs, CanValidateSeq(s)
       PROVE  StoreType' /\ ContextType' /\ SupportKept'
  <2>1. enforced(localSeqEnforcer_, s) \in Enforcer
    BY <1>0, EnforcedType, ValidationsAssumption, Zenon DEF StoreType, ContextType
  <2> QED
    BY <1>0, <1>11, <2>1, SameSupport, Zenon DEF CanValidateSeq, StoreType, ContextType
<1>12. ASSUME Expire
       PROVE  StoreType' /\ ContextType' /\ SupportKept'
  BY <1>0, <1>12, SameSupport, Zenon
     DEF Expire, StoreType, ContextType, MaybeValidation
<1>13. ASSUME Flush
       PROVE  StoreType' /\ ContextType' /\ SupportKept'
  <2>1. stale' \subseteq IssuedType
    BY <1>0, <1>13, HandedOverType DEF Flush, StoreType
  <2> QED
    BY <1>0, <1>13, <2>1, SameSupport
       DEF Flush, StoreType, ContextType, MaybeValidation
<1>14. ASSUME Tick
       PROVE  StoreType' /\ ContextType' /\ SupportKept'
  BY <1>0, <1>14, SameSupport DEF Tick, StoreType, ContextType
<1>15. ASSUME NEW offset \in 0 .. MaxSkew, AdjustCloseTime(offset)
       PROVE  StoreType' /\ ContextType' /\ SupportKept'
  BY <1>0, <1>15, SameSupport, Zenon DEF AdjustCloseTime, StoreType, ContextType
<1>16. CASE UNCHANGED vars
  BY <1>0, <1>16, SameSupport DEF vars, StoreType, ContextType, support
<1> QED
  BY <1>1, <1>2, <1>3, <1>4, <1>5, <1>6, <1>7, <1>8, <1>9, <1>10, <1>11,
     <1>12, <1>13, <1>14, <1>15, <1>16, ZenonT(30) DEF Next

\* The store keeps its types: no removal takes a ledger's support in the trie
\* below zero (LedgerTrie::remove would then refuse it and the support of
\* another node would be lost).
THEOREM StoreTypeCorrect == Spec => []TypeOK
<1>1. Spec => []TypeInv
  BY InitTypeInv, NextTypeInv, PTL DEF Spec
<1>2. TypeInv => TypeOK
  BY DEF TypeInv
<1> QED
  BY <1>1, <1>2, PTL

\* The comment on lastLedger_ for any validators and ledgers: the support in
\* the trie is exactly one unit for each node of lastLedger_, whatever the
\* order of validations, arriving ledgers, sweeps and trust changes.
THEOREM TrieExact == Spec => []TrieCountsLastLedgers
<1>1. Spec => []TypeInv
  BY InitTypeInv, NextTypeInv, PTL DEF Spec
<1>2. TypeInv => TrieCountsLastLedgers
  BY DEF TypeInv
<1> QED
  BY <1>1, <1>2, PTL

-----------------------------------------------------------------------------
(* The sequence enforcer and the windows of time. *)

\* What the life of the enforcer leaves beyond that of a validation.
Slack ==
  validationSET_EXPIRES - validationCURRENT_WALL - validationCURRENT_EARLY
    - MaxSkew

\* A validation of ledger l that node n signed at t cannot come in again: the
\* enforcer still holds its sequence number, or it is too old by the slack.
Covered(n, l, t) ==
  \/ /\ LedgerSeq[l] <= seqEnforcers_[n].seq
     /\ t < seqEnforcers_[n].when + MaxSkew + validationCURRENT_WALL
  \/ t + Slack + validationCURRENT_EARLY < steady

\* The store holds, or has handed over, such a validation.
Held(n, l, t) ==
  \/ /\ current_[n] # NoValidation
     /\ current_[n].ledgerID = l
     /\ current_[n].signTime = t
  \/ /\ byLedger_[l][n] # NoValidation
     /\ byLedger_[l][n].signTime = t
  \/ [node |-> n, ledgerID |-> l, signTime |-> t] \in stale

\* The inductive invariant: everything the store holds or has handed over is
\* covered.  The last conjunct is for the validation a node is known by.
EnforcerInv ==
  /\ \A n \in NodeID : seqEnforcers_[n].when <= steady
  /\ \A n \in NodeID, l \in Ledger, t \in Nat : Held(n, l, t) => Covered(n, l, t)
  /\ \A n \in NodeID, l \in Ledger :
       current_[n] # NoValidation /\ current_[n].ledgerID = l =>
         \/ LedgerSeq[l] <= seqEnforcers_[n].seq
         \/ steady > seqEnforcers_[n].when + validationSET_EXPIRES

\* The numbers that the arguments below are about.
LEMMA WindowNumbers ==
  /\ validationCURRENT_WALL \in Nat
  /\ validationCURRENT_EARLY \in Nat
  /\ validationSET_EXPIRES \in Nat
  /\ MaxSkew \in Nat
  /\ Slack \in Nat
  BY ValidationsAssumption, WindowAssumption DEF Slack

LEMMA SeqNumbers ==
  ASSUME TypeOK
  PROVE  /\ \A l \in Ledger : LedgerSeq[l] \in Nat
         /\ \A n \in NodeID : /\ seqEnforcers_[n].seq \in Nat
                              /\ seqEnforcers_[n].when \in Nat
         /\ steady \in Nat
         /\ skew \in Nat /\ skew <= MaxSkew
  BY ValidationsAssumption DEF TypeOK, Enforcer

\* Time only moves forward.
LEMMA CoveredLater ==
  ASSUME TypeOK, NEW n, NEW l, NEW t \in Nat, Covered(n, l, t),
         seqEnforcers_' = seqEnforcers_, steady' \in Nat, steady' >= steady
  PROVE  Covered(n, l, t)'
  BY SeqNumbers, WindowNumbers DEF Covered

\* The enforcer of node n after an attempt.
LEMMA EnforcerAfter ==
  ASSUME TypeOK, NEW n \in NodeID, TryAdd(n)
  PROVE  LET e == seqEnforcers_[n]
             s == LedgerSeq[pending[n].ledgerID]
         IN  /\ s \in Nat
             /\ steady' = steady
             /\ \A m \in NodeID : m # n => seqEnforcers_'[m] = seqEnforcers_[m]
             /\ Permitted(n) => /\ seqEnforcers_'[n].seq = s
                                /\ seqEnforcers_'[n].when = steady
                                /\ \/ s > e.seq
                                   \/ steady > e.when + validationSET_EXPIRES
             /\ ~Permitted(n) =>
                  /\ seqEnforcers_'[n].when = e.when
                  /\ \/ seqEnforcers_'[n].seq = e.seq
                     \/ steady > e.when + validationSET_EXPIRES
<1> DEFINE e == seqEnforcers_[n]
           s == LedgerSeq[pending[n].ledgerID]
<1>1. pending[n] \in Validation /\ s \in Nat
  BY TryAddType, ValidationsAssumption DEF Validation
<1>2. /\ seqEnforcers_' = [seqEnforcers_ EXCEPT ![n] = enforced(e, s)]
      /\ steady' = steady
  BY Zenon DEF TryAdd, clocks
<1>3. /\ seqEnforcers_'[n] = enforced(e, s)
      /\ \A m \in NodeID : m # n => seqEnforcers_'[m] = seqEnforcers_[m]
  BY <1>2 DEF TypeOK
<1>4. e \in Enforcer
  BY DEF TypeOK
<1>5. Permitted(n) <=> s > inForce(e)
  BY DEF Permitted, permits
<1>6. ASSUME Permitted(n)
      PROVE  /\ enforced(e, s).seq = s
             /\ enforced(e, s).when = steady
             /\ s > e.seq \/ steady > e.when + validationSET_EXPIRES
  BY <1>5, <1>6 DEF enforced, permits, inForce
<1>7. ASSUME ~Permitted(n)
      PROVE  /\ enforced(e, s).when = e.when
             /\ \/ enforced(e, s).seq = e.seq
                \/ steady > e.when + validationSET_EXPIRES
  BY <1>4, <1>5, <1>7 DEF enforced, permits, inForce, Enforcer
<1> QED
  BY <1>1, <1>2, <1>3, <1>6, <1>7, ZenonT(30)

\* An attempt uncovers nothing: a sequence number that replaces the one in
\* force is larger, and one that has expired belongs to old validations.
LEMMA CoveredTry ==
  ASSUME TypeOK, EnforcerInv, NEW n \in NodeID, TryAdd(n),
         NEW m \in NodeID, NEW l \in Ledger, NEW t \in Nat, Covered(m, l, t)
  PROVE  Covered(m, l, t)'
<1> USE WindowNumbers, SeqNumbers
<1>0. steady' = steady
  BY EnforcerAfter, Zenon
<1>1. CASE m # n
  BY <1>0, <1>1, EnforcerAfter, Zenon DEF Covered
<1>2. CASE t + Slack + validationCURRENT_EARLY < steady
  BY <1>0, <1>2, Zenon DEF Covered
<1>3. ASSUME m = n, steady > seqEnforcers_[n].when + validationSET_EXPIRES,
             t < seqEnforcers_[n].when + MaxSkew + validationCURRENT_WALL
      PROVE  Covered(m, l, t)'
  <2>1. t + Slack + validationCURRENT_EARLY < steady
    BY <1>3 DEF Slack
  <2> QED
    BY <1>2, <2>1, Zenon
<1>4. ASSUME m = n, LedgerSeq[l] <= seqEnforcers_[n].seq,
             t < seqEnforcers_[n].when + MaxSkew + validationCURRENT_WALL,
             ~(steady > seqEnforcers_[n].when + validationSET_EXPIRES)
      PROVE  Covered(m, l, t)'
  <2>1. CASE Permitted(n)
    <3> DEFINE s == LedgerSeq[pending[n].ledgerID]
    <3>1. /\ s \in Nat
          /\ seqEnforcers_'[n].seq = s
          /\ seqEnforcers_'[n].when = steady
          /\ s > seqEnforcers_[n].seq
      BY <1>4, <2>1, EnforcerAfter, Zenon
    <3>2. seqEnforcers_[n].when <= steady
      BY DEF EnforcerInv
    <3> HIDE DEF s
    <3> QED
      BY <1>0, <1>4, <3>1, <3>2 DEF Covered
  <2>2. CASE ~Permitted(n)
    <3>1. /\ seqEnforcers_'[n].when = seqEnforcers_[n].when
          /\ seqEnforcers_'[n].seq = seqEnforcers_[n].seq
      BY <1>4, <2>2, EnforcerAfter, Zenon
    <3> QED
      BY <1>0, <1>4, <3>1, Zenon DEF Covered
  <2> QED
    BY <2>1, <2>2, Zenon
<1> QED
  BY <1>1, <1>2, <1>3, <1>4, ZenonT(30) DEF Covered

\* The bounds that isCurrent puts on the signing time.
LEMMA CurrentWindow ==
  ASSUME TypeOK, NEW v \in Validation, isCurrent(netNow, v)
  PROVE  /\ v.signTime \in Nat
         /\ v.signTime + validationCURRENT_EARLY > steady
         /\ v.signTime < steady + MaxSkew + validationCURRENT_WALL
  BY WindowNumbers, SeqNumbers DEF isCurrent, netNow, Validation

\* A validation that is let in is covered from then on.
LEMMA NewCovered ==
  ASSUME TypeOK, NEW n \in NodeID, TryAdd(n), Permitted(n),
         NEW l, l = pending[n].ledgerID, NEW t, t = pending[n].signTime
  PROVE  Covered(n, l, t)'
<1>1. pending[n] \in Validation /\ isCurrent(netNow, pending[n])
  BY TryAddType, Zenon DEF TryAdd
<1>2. /\ pending[n].signTime < steady + MaxSkew + validationCURRENT_WALL
      /\ pending[n].signTime \in Nat
  BY <1>1, CurrentWindow, Zenon
<1>3. /\ LedgerSeq[l] \in Nat
      /\ seqEnforcers_'[n].seq = LedgerSeq[l]
      /\ seqEnforcers_'[n].when = steady
      /\ steady' = steady
  BY EnforcerAfter, Zenon
<1> QED
  BY <1>2, <1>3, WindowNumbers, SeqNumbers DEF Covered

\* A node's validation that is let in was signed later, by more than the slack,
\* than whatever is covered with its sequence number or a larger one.
LEMMA Fresh ==
  ASSUME TypeOK, NEW n \in NodeID, TryAdd(n), Permitted(n),
         NEW l \in Ledger, NEW t \in Nat, Covered(n, l, t),
         LedgerSeq[l] >= LedgerSeq[pending[n].ledgerID]
  PROVE  pending[n].signTime > t + Slack
<1> USE WindowNumbers, SeqNumbers
<1>1. pending[n] \in Validation /\ isCurrent(netNow, pending[n])
  BY TryAddType, ZenonT(30) DEF TryAdd
<1>2. /\ pending[n].signTime + validationCURRENT_EARLY > steady
      /\ pending[n].signTime \in Nat
  BY <1>1, CurrentWindow, Zenon
<1>3. t + Slack + validationCURRENT_EARLY < steady
  <2> DEFINE s == LedgerSeq[pending[n].ledgerID]
  <2>1. /\ s \in Nat
        /\ \/ s > seqEnforcers_[n].seq
           \/ steady > seqEnforcers_[n].when + validationSET_EXPIRES
    BY EnforcerAfter, Zenon
  <2>2. LedgerSeq[l] >= s
    BY Zenon
  <2> HIDE DEF s
  <2>3. CASE steady > seqEnforcers_[n].when + validationSET_EXPIRES
    BY <2>3 DEF Covered, Slack
  <2>4. CASE s > seqEnforcers_[n].seq
    BY <2>1, <2>2, <2>4 DEF Covered
  <2> QED
    BY <2>1, <2>3, <2>4, Zenon
<1> QED
  BY <1>2, <1>3

\* What a step that admits no validation does to the store.
Quiet ==
  /\ seqEnforcers_' = seqEnforcers_
  /\ steady' \in Nat /\ steady' >= steady
  /\ \A n \in NodeID : current_'[n] # NoValidation =>
       /\ current_[n] # NoValidation
       /\ Issued(n, current_'[n]) = Issued(n, current_[n])
  /\ \A n \in NodeID, l \in Ledger : byLedger_'[l][n] # NoValidation =>
       /\ byLedger_[l][n] # NoValidation
       /\ Issued(n, byLedger_'[l][n]) = Issued(n, byLedger_[l][n])
  /\ \A i \in stale' : \/ i \in stale
                       \/ \E n \in NodeID : /\ current_[n] # NoValidation
                                            /\ i = Issued(n, current_[n])
                                            /\ current_'[n] = NoValidation
  /\ \A n \in NodeID : current_[n] # NoValidation /\ current_'[n] = NoValidation
       => Issued(n, current_[n]) \in stale'

Admits(n) == AddBadSeq(n) \/ AddOutdated(n) \/ AddCurrent(n)

LEMMA QuietUnchanged ==
  ASSUME TypeOK, UNCHANGED <<seqEnforcers_, current_, byLedger_, stale>>,
         steady' \in Nat, steady' >= steady
  PROVE  Quiet
  BY Zenon DEF Quiet

LEMMA QuietSweep ==
  ASSUME TypeOK, Sweep
  PROVE  Quiet
<1>1. \A n \in NodeID : n \in Aged => current_[n] # NoValidation
  BY DEF Aged
<1>2. Aged \subseteq NodeID
  BY DEF Aged
<1>3. steady \in Nat /\ steady' = steady
  BY DEF TypeOK, Sweep, clocks
<1> HIDE DEF Aged
<1> QED
  BY <1>1, <1>2, <1>3 DEF Quiet, Sweep, HandedOver

LEMMA QuietFlush ==
  ASSUME TypeOK, Flush
  PROVE  Quiet
<1>1. steady \in Nat /\ steady' = steady
  BY DEF TypeOK, Flush, clocks
<1> QED
  BY <1>1 DEF Quiet, Flush, HandedOver

LEMMA QuietTrust ==
  ASSUME TypeOK, TrustChanged
  PROVE  Quiet
<1>1. steady \in Nat /\ steady' = steady
  BY DEF TypeOK, TrustChanged, clocks
<1>2. \A n \in NodeID : /\ current_[n] \in MaybeValidation
                        /\ current_'[n] = withTrust(n, current_[n])
  BY DEF TypeOK, TrustChanged
<1>3. \A n \in NodeID, l \in Ledger :
        /\ byLedger_[l][n] \in MaybeValidation
        /\ byLedger_'[l][n] = withTrust(n, byLedger_[l][n])
  BY DEF TypeOK, TrustChanged
<1>4. UNCHANGED <<seqEnforcers_, stale>>
  BY Zenon DEF TrustChanged
<1>5. steady' \in Nat /\ steady' >= steady
  BY <1>1
<1> QED
  <2>1. \A n \in NodeID :
          /\ current_'[n] = NoValidation <=> current_[n] = NoValidation
          /\ current_[n] # NoValidation
               => Issued(n, current_'[n]) = Issued(n, current_[n])
    BY <1>2, WithTrustType, ZenonT(30)
  <2>2. \A n \in NodeID, l \in Ledger :
          byLedger_'[l][n] # NoValidation =>
            /\ byLedger_[l][n] # NoValidation
            /\ Issued(n, byLedger_'[l][n]) = Issued(n, byLedger_[l][n])
    BY <1>3, WithTrustType, ZenonT(30)
  <2> QED
    BY <1>4, <1>5, <2>1, <2>2, ZenonT(30) DEF Quiet

LEMMA QuietExpire ==
  ASSUME TypeOK, Expire
  PROVE  Quiet
<1>1. steady \in Nat /\ steady' = steady
  BY DEF TypeOK, Expire, clocks
<1>2. \A n \in NodeID, l \in Ledger :
        byLedger_'[l][n] \in {NoValidation, byLedger_[l][n]}
  BY DEF TypeOK, Expire
<1>3. steady' \in Nat /\ steady' >= steady
  BY <1>1
<1> QED
  BY <1>2, <1>3, ZenonT(30) DEF Quiet, Expire

LEMMA AdmitsOrQuiet ==
  ASSUME TypeOK, [Next]_vars
  PROVE  (\E n \in NodeID : Admits(n)) \/ Quiet
<1>0. steady \in Nat
  BY DEF TypeOK
<1>1. CASE UNCHANGED vars
  BY <1>0, <1>1, QuietUnchanged DEF vars
<1>2. ASSUME NEW n \in NodeID, NEW l \in Ledger, NEW t \in SignTimes,
             Receive(n, l, t)
      PROVE  Quiet
  BY <1>0, <1>2, QuietUnchanged DEF Receive, store, clocks
<1>3. ASSUME NEW n \in NodeID, AddStale(n)
      PROVE  Quiet
  BY <1>0, <1>3, QuietUnchanged DEF AddStale, store, clocks
<1>4. ASSUME NEW new \in TrustSets, UpdateTrusted(new)
      PROVE  Quiet
  BY <1>0, <1>4, QuietUnchanged DEF UpdateTrusted, store, clocks
<1>5. CASE Current \/ WithTrie
  BY <1>5, QuietSweep DEF Current, WithTrie
<1>6. ASSUME NEW l \in Ledger, ByLedger(l)
      PROVE  Quiet
  BY <1>0, <1>6, QuietUnchanged DEF ByLedger, store, clocks
<1>7. ASSUME NEW l \in Remote, LedgerAvailability(l)
      PROVE  Quiet
  BY <1>0, <1>7, QuietUnchanged DEF LedgerAvailability, store, clocks
<1>8. ASSUME NEW s \in LocalSeqs, CanValidateSeq(s)
      PROVE  Quiet
  BY <1>0, <1>8, QuietUnchanged DEF CanValidateSeq, store, clocks
<1>9. CASE Tick
  BY <1>0, <1>9, QuietUnchanged DEF Tick, store
<1>10. ASSUME NEW offset \in 0 .. MaxSkew, AdjustCloseTime(offset)
       PROVE  Quiet
  BY <1>0, <1>10, QuietUnchanged DEF AdjustCloseTime, store
<1> QED
  BY <1>1, <1>2, <1>3, <1>4, <1>5, <1>6, <1>7, <1>8, <1>9, <1>10,
     QuietFlush, QuietTrust, QuietExpire DEF Next, Admits

\* What an admission does to the store.
LEMMA AdmitsStore ==
  ASSUME TypeOK, NEW n \in NodeID, Admits(n)
  PROVE  LET v == pending[n]
         IN  /\ TryAdd(n)
             /\ v \in Validation /\ v # NoValidation /\ v.ledgerID \in Ledger
             /\ \A m \in NodeID : current_'[m] # current_[m] =>
                  /\ m = n /\ current_'[n] = v
                  /\ Permitted(n) /\ Newer(n) /\ AddCurrent(n)
             /\ \A m \in NodeID, l \in Ledger :
                  byLedger_'[l][m] # byLedger_[l][m] =>
                    /\ m = n /\ l = v.ledgerID
                    /\ byLedger_'[l][n] = v
                    /\ Permitted(n)
             /\ \A i \in stale' : \/ i \in stale
                                  \/ /\ current_[n] # NoValidation
                                     /\ i = Issued(n, current_[n])
                                     /\ AddCurrent(n)
             /\ AddCurrent(n) \/ UNCHANGED <<current_, stale>>
<1> DEFINE v == pending[n]
<1>1. TryAdd(n) /\ v \in Validation
  BY TryAddType, Zenon DEF Admits, AddBadSeq, AddOutdated, AddCurrent
<1>2. v # NoValidation /\ v.ledgerID \in Ledger
  BY <1>1, ValidationsAssumption DEF Validation
<1>3. CASE AddBadSeq(n)
  BY <1>1, <1>2, <1>3, ZenonT(30) DEF AddBadSeq, store
<1>4. ASSUME Index(n, v)
      PROVE  \A m \in NodeID, l \in Ledger :
               byLedger_'[l][m] # byLedger_[l][m] =>
                 m = n /\ l = v.ledgerID /\ byLedger_'[l][n] = v
  <2> HIDE DEF v
  <2> QED
    BY <1>2, <1>4 DEF TypeOK, Index
<1>5. CASE AddOutdated(n)
  BY <1>1, <1>2, <1>4, <1>5, Zenon DEF AddOutdated
<1>6. CASE AddCurrent(n)
  <2>1. /\ current_' = [current_ EXCEPT ![n] = v]
        /\ Permitted(n) /\ Newer(n) /\ Index(n, v)
        /\ stale' = stale \cup HandedOver({m \in {n} : current_[m] # NoValidation})
    BY <1>6, Zenon DEF AddCurrent
  <2>2. \A m \in NodeID : current_'[m] # current_[m] => m = n /\ current_'[n] = v
    <3> HIDE DEF v
    <3> QED
      BY <2>1 DEF TypeOK
  <2>3. \A i \in stale' : \/ i \in stale
                          \/ /\ current_[n] # NoValidation
                             /\ i = Issued(n, current_[n])
    BY <2>1 DEF HandedOver
  <2> QED
    BY <1>1, <1>2, <1>4, <1>6, <2>1, <2>2, <2>3, ZenonT(30)
<1> QED
  BY <1>3, <1>5, <1>6, Zenon DEF Admits

\* Nothing else comes to be held.
LEMMA HeldAdmits ==
  ASSUME TypeOK, NEW n \in NodeID, Admits(n),
         NEW m \in NodeID, NEW l \in Ledger, NEW t \in Nat, Held(m, l, t)'
  PROVE  \/ Held(m, l, t)
         \/ /\ m = n /\ Permitted(n)
            /\ l = pending[n].ledgerID /\ t = pending[n].signTime
<1>1. CASE /\ current_'[m] # NoValidation
           /\ current_'[m].ledgerID = l /\ current_'[m].signTime = t
  BY <1>1, AdmitsStore, ZenonT(30) DEF Held
<1>2. CASE byLedger_'[l][m] # NoValidation /\ byLedger_'[l][m].signTime = t
  <2>1. byLedger_'[l][m] # byLedger_[l][m] =>
          /\ m = n /\ l = pending[n].ledgerID
          /\ byLedger_'[l][n] = pending[n]
          /\ Permitted(n)
    BY AdmitsStore, ZenonT(30)
  <2>2. CASE byLedger_'[l][m] = byLedger_[l][m]
    BY <1>2, <2>2, Zenon DEF Held
  <2>3. CASE byLedger_'[l][m] # byLedger_[l][m]
    BY <1>2, <2>1, <2>3, Zenon
  <2> QED
    BY <2>2, <2>3
<1>3. CASE [node |-> m, ledgerID |-> l, signTime |-> t] \in stale'
  BY <1>3, AdmitsStore, ZenonT(30) DEF Held, Issued
<1> QED
  BY <1>1, <1>2, <1>3, Zenon DEF Held

LEMMA HeldQuiet ==
  ASSUME TypeOK, Quiet,
         NEW m \in NodeID, NEW l \in Ledger, NEW t \in Nat, Held(m, l, t)'
  PROVE  Held(m, l, t)
<1>1. CASE /\ current_'[m] # NoValidation
           /\ current_'[m].ledgerID = l /\ current_'[m].signTime = t
  BY <1>1, Zenon DEF Held, Quiet, Issued
<1>2. CASE byLedger_'[l][m] # NoValidation /\ byLedger_'[l][m].signTime = t
  BY <1>2, Zenon DEF Held, Quiet, Issued
<1>3. CASE [node |-> m, ledgerID |-> l, signTime |-> t] \in stale'
  <2> DEFINE r == [node |-> m, ledgerID |-> l, signTime |-> t]
  <2>1. \/ r \in stale
        \/ \E k \in NodeID : current_[k] # NoValidation /\ r = Issued(k, current_[k])
    BY <1>3, Zenon DEF Quiet
  <2>2. CASE r \in stale
    BY <2>2, Zenon DEF Held
  <2>3. ASSUME NEW k \in NodeID, current_[k] # NoValidation,
               r = Issued(k, current_[k])
        PROVE  Held(m, l, t)
    <3>1. k = m /\ current_[k].ledgerID = l /\ current_[k].signTime = t
      BY <2>3 DEF Issued
    <3> QED
      BY <2>3, <3>1, ZenonT(30) DEF Held
  <2> QED
    BY <2>1, <2>2, <2>3, Zenon
<1> QED
  BY <1>1, <1>2, <1>3 DEF Held

LEMMA InitEnforcer == Init => EnforcerInv
<1> SUFFICES ASSUME Init PROVE EnforcerInv
  OBVIOUS
<1>1. \A n \in NodeID : seqEnforcers_[n].when <= steady
  BY DEF Init
<1>2. \A n \in NodeID : current_[n] = NoValidation
  BY Zenon DEF Init
<1>3. \A n \in NodeID, l \in Ledger : byLedger_[l][n] = NoValidation
  BY Zenon DEF Init
<1>4. stale = {}
  BY Zenon DEF Init
<1> QED
  BY <1>1, <1>2, <1>3, <1>4, ZenonT(30) DEF EnforcerInv, Held

LEMMA QuietEnforcer ==
  ASSUME TypeOK, EnforcerInv, Quiet
  PROVE  EnforcerInv'
<1> USE WindowNumbers, SeqNumbers
<1>0. seqEnforcers_' = seqEnforcers_ /\ steady' \in Nat /\ steady' >= steady
  BY Zenon DEF Quiet
<1>1. \A n \in NodeID : seqEnforcers_'[n].when <= steady'
  BY <1>0 DEF EnforcerInv
<1>2. ASSUME NEW n \in NodeID, NEW l \in Ledger, NEW t \in Nat, Held(n, l, t)'
      PROVE  Covered(n, l, t)'
  <2>1. Covered(n, l, t)
    BY <1>2, HeldQuiet, Zenon DEF EnforcerInv
  <2> QED
    BY <1>0, <2>1, CoveredLater, Zenon
<1>3. ASSUME NEW n \in NodeID, NEW l \in Ledger,
             current_'[n] # NoValidation, current_'[n].ledgerID = l
      PROVE  \/ LedgerSeq[l] <= seqEnforcers_'[n].seq
             \/ steady' > seqEnforcers_'[n].when + validationSET_EXPIRES
  <2>1. current_[n] # NoValidation /\ current_[n].ledgerID = l
    BY <1>3, ZenonT(30) DEF Quiet, Issued
  <2>2. \/ LedgerSeq[l] <= seqEnforcers_[n].seq
        \/ steady > seqEnforcers_[n].when + validationSET_EXPIRES
    BY <2>1, Zenon DEF EnforcerInv
  <2> QED
    BY <1>0, <2>2
<1> QED
  BY <1>1, <1>2, <1>3, Zenon DEF EnforcerInv

LEMMA AdmitsEnforcer ==
  ASSUME TypeOK, EnforcerInv, NEW n \in NodeID, Admits(n)
  PROVE  EnforcerInv'
<1> DEFINE v == pending[n]
           s == LedgerSeq[v.ledgerID]
           expired == steady > seqEnforcers_[n].when + validationSET_EXPIRES
<1>0. TryAdd(n) /\ v \in Validation /\ v.signTime \in Nat
  BY AdmitsStore, Zenon DEF Validation
<1>1. /\ s \in Nat
      /\ steady' = steady
      /\ \A m \in NodeID : m # n => seqEnforcers_'[m] = seqEnforcers_[m]
      /\ Permitted(n) => /\ seqEnforcers_'[n].seq = s
                         /\ seqEnforcers_'[n].when = steady
                         /\ s > seqEnforcers_[n].seq \/ expired
      /\ ~Permitted(n) =>
            /\ seqEnforcers_'[n].when = seqEnforcers_[n].when
            /\ seqEnforcers_'[n].seq = seqEnforcers_[n].seq \/ expired
  BY <1>0, EnforcerAfter, Zenon
<1> HIDE DEF s, expired
<1>2. ASSUME NEW m \in NodeID
      PROVE  seqEnforcers_'[m].when <= steady'
  <2>1. /\ seqEnforcers_[m].when <= steady
        /\ steady <= steady
    BY SeqNumbers DEF EnforcerInv
  <2>2. CASE m # n
    BY <1>1, <2>1, <2>2, Zenon
  <2>3. CASE m = n /\ Permitted(n)
    BY <1>1, <2>1, <2>3, Zenon
  <2>4. CASE m = n /\ ~Permitted(n)
    BY <1>1, <2>1, <2>4, Zenon
  <2> QED
    BY <2>2, <2>3, <2>4, Zenon
<1>3. ASSUME NEW m \in NodeID, NEW l \in Ledger, NEW t \in Nat, Held(m, l, t)'
      PROVE  Covered(m, l, t)'
  <2>1. CASE Held(m, l, t)
    BY <1>0, <2>1, CoveredTry, ZenonT(30) DEF EnforcerInv
  <2>2. CASE /\ m = n /\ Permitted(n)
             /\ l = pending[n].ledgerID /\ t = pending[n].signTime
    BY <1>0, <2>2, NewCovered, Zenon
  <2> QED
    BY <1>3, <2>1, <2>2, HeldAdmits
<1>4. ASSUME NEW m \in NodeID, NEW l \in Ledger,
             current_'[m] # NoValidation, current_'[m].ledgerID = l
      PROVE  \/ LedgerSeq[l] <= seqEnforcers_'[m].seq
             \/ steady' > seqEnforcers_'[m].when + validationSET_EXPIRES
  <2>0. /\ LedgerSeq[l] \in Nat /\ seqEnforcers_[m].seq \in Nat
        /\ steady \in Nat /\ seqEnforcers_[m].when \in Nat
        /\ validationSET_EXPIRES \in Nat
    BY SeqNumbers, WindowNumbers, Zenon
  <2>1. CASE current_'[m] # current_[m]
    <3>1. m = n /\ current_'[n] = v /\ Permitted(n)
      BY <2>1, AdmitsStore, Zenon
    <3>2. LedgerSeq[l] = s
      BY <1>4, <3>1, Zenon DEF s
    <3> QED
      BY <1>1, <2>0, <3>1, <3>2
  <2>2. CASE current_'[m] = current_[m]
    <3>1. \/ LedgerSeq[l] <= seqEnforcers_[m].seq
          \/ steady > seqEnforcers_[m].when + validationSET_EXPIRES
      BY <1>4, <2>2, Zenon DEF EnforcerInv
    <3>2. CASE m # n
      BY <1>1, <3>1, <3>2, Zenon
    <3>3. CASE m = n /\ ~Permitted(n)
      <4>1. CASE seqEnforcers_'[n].seq = seqEnforcers_[n].seq
        BY <1>1, <3>1, <3>3, <4>1, Zenon
      <4>2. CASE expired
        BY <1>1, <3>3, <4>2, Zenon DEF expired
      <4> QED
        BY <1>1, <3>3, <4>1, <4>2, Zenon
    <3>4. CASE m = n /\ Permitted(n) /\ ~expired
      <4>1. /\ LedgerSeq[l] <= seqEnforcers_[n].seq
            /\ seqEnforcers_[n].seq < s /\ s \in Nat
        BY <1>1, <3>1, <3>4, Zenon DEF expired
      <4>2. LedgerSeq[l] <= s
        BY <2>0, <3>4, <4>1
      <4> QED
        BY <1>1, <3>4, <4>2, Zenon
    <3>5. CASE m = n /\ Permitted(n) /\ expired
      <4>1. current_[n] \in Validation
        BY <1>4, <2>2, <3>5, Zenon DEF TypeOK, MaybeValidation
      <4> DEFINE t == current_[n].signTime
      <4>2. t \in Nat /\ current_[n] # NoValidation
        BY <1>4, <2>2, <3>5, <4>1 DEF Validation
      <4>3. Covered(n, l, t)
        BY <1>4, <2>2, <3>5, <4>2, ZenonT(30) DEF EnforcerInv, Held
      <4>4. t + Slack + validationCURRENT_EARLY < steady
        <5> HIDE DEF t
        <5> QED
          BY <2>0, <3>5, <4>2, <4>3, WindowNumbers DEF Covered, Slack, expired
      <4>5. steady < v.signTime + validationCURRENT_EARLY
        <5>1. isCurrent(netNow, v)
          BY <1>0, Zenon DEF TryAdd
        <5> QED
          BY <1>0, <5>1, CurrentWindow, Zenon
      <4>6. v.signTime > t
        <5> HIDE DEF t, v
        <5> QED
          BY <1>0, <2>0, <4>2, <4>4, <4>5, WindowNumbers
      <4>7. Newer(n)
        BY <4>6 DEF Newer
      <4>8. AddCurrent(n)
        BY <3>5, <4>7, Zenon DEF Admits, AddBadSeq, AddOutdated
      <4>9. current_'[n] = v
        BY <4>8, Zenon DEF AddCurrent, TypeOK
      <4>10. LedgerSeq[l] = s
        BY <1>4, <3>5, <4>9 DEF s
      <4>11. seqEnforcers_'[n].seq = s /\ s \in Nat
        BY <1>1, <3>5, ZenonT(30)
      <4>12. LedgerSeq[l] <= seqEnforcers_'[n].seq
        BY <4>10, <4>11
      <4> QED
        BY <3>5, <4>12, Zenon
    <3> QED
      BY <3>2, <3>3, <3>4, <3>5, Zenon
  <2> QED
    BY <2>1, <2>2, Zenon
<1> QED
  BY <1>2, <1>3, <1>4 DEF EnforcerInv

LEMMA NextEnforcer == TypeOK /\ EnforcerInv /\ [Next]_vars => EnforcerInv'
  BY AdmitsOrQuiet, QuietEnforcer, AdmitsEnforcer

LEMMA EnforcerAlways == Spec => [](TypeInv /\ EnforcerInv)
<1>1. Init => TypeInv /\ EnforcerInv
  BY InitTypeInv, InitEnforcer
<1>2. TypeInv /\ EnforcerInv /\ [Next]_vars => (TypeInv /\ EnforcerInv)'
  BY NextTypeInv, NextEnforcer DEF TypeInv
<1> QED
  BY <1>1, <1>2, PTL DEF Spec

-------------------------------------------------------------------------------
(* What the windows and the enforcers promise. *)

LEMMA StaleStep ==
  ASSUME TypeOK, EnforcerInv, StaleNeverCurrent, [Next]_vars
  PROVE  StaleNeverCurrent'
<1> SUFFICES ASSUME NEW m \in NodeID, current_'[m] # NoValidation,
                    Issued(m, current_'[m]) \in stale'
             PROVE  FALSE
  BY Zenon DEF StaleNeverCurrent
<1>1. CASE Quiet
  <2>1. /\ current_[m] # NoValidation
        /\ Issued(m, current_'[m]) = Issued(m, current_[m])
    BY <1>1, Zenon DEF Quiet
  <2>2. Issued(m, current_[m]) \notin stale
    BY <2>1, Zenon DEF StaleNeverCurrent
  <2>3. PICK k \in NodeID : /\ Issued(m, current_'[m]) = Issued(k, current_[k])
                            /\ current_'[k] = NoValidation
    BY <1>1, <2>1, <2>2, Zenon DEF Quiet
  <2>4. k = m
    BY <2>3 DEF Issued
  <2> QED
    BY <2>3, <2>4, Zenon
<1>2. ASSUME NEW n \in NodeID, Admits(n)
      PROVE  FALSE
  <2>1. CASE current_'[m] # current_[m]
    <3> DEFINE v == pending[n]
    <3>1. /\ m = n /\ current_'[n] = v /\ Permitted(n) /\ Newer(n) /\ TryAdd(n)
          /\ v \in Validation
      BY <1>2, <2>1, AdmitsStore, ZenonT(30)
    <3>2. v.ledgerID \in Ledger /\ v.signTime \in Nat
      BY <3>1, Zenon DEF Validation
    <3>3. CASE Issued(n, v) \in stale
      <4>1. Held(n, v.ledgerID, v.signTime)
        BY <3>3, Zenon DEF Held, Issued
      <4>2. Covered(n, v.ledgerID, v.signTime)
        BY <3>2, <4>1, Zenon DEF EnforcerInv
      <4>3. LedgerSeq[v.ledgerID] >= LedgerSeq[v.ledgerID]
        BY <3>2, SeqNumbers
      <4>4. v.signTime > v.signTime + Slack
        BY <3>1, <3>2, <4>2, <4>3, Fresh, Zenon
      <4> QED
        BY <3>2, <4>4, WindowNumbers
    <3>4. CASE current_[n] # NoValidation /\ Issued(n, v) = Issued(n, current_[n])
      <4>1. v.signTime = current_[n].signTime
        BY <3>4, Zenon DEF Issued
      <4>2. v.signTime > current_[n].signTime
        BY <3>1, <3>4, Zenon DEF Newer
      <4> QED
        BY <3>2, <4>1, <4>2
    <3> QED
      BY <1>2, <3>1, <3>3, <3>4, AdmitsStore, ZenonT(30)
  <2>2. CASE current_'[m] = current_[m]
    <3>1. Issued(m, current_[m]) \notin stale
      BY <2>2, ZenonT(30) DEF StaleNeverCurrent
    <3>2. /\ AddCurrent(n)
          /\ Issued(m, current_[m]) = Issued(n, current_[n])
          /\ current_[n] # NoValidation
      BY <1>2, <2>2, <3>1, AdmitsStore, Zenon
    <3>3. m = n
      BY <3>2 DEF Issued
    <3>4. current_'[n] = pending[n] /\ Newer(n) /\ pending[n] \in Validation
      BY <1>2, <3>2, AdmitsStore, ZenonT(30) DEF AddCurrent, TypeOK
    <3>5. pending[n].signTime > pending[n].signTime
      BY <2>2, <3>2, <3>3, <3>4, Zenon DEF Newer
    <3> QED
      BY <3>4, <3>5 DEF Validation
  <2> QED
    BY <2>1, <2>2, ZenonT(30)
<1> QED
  BY <1>1, <1>2, AdmitsOrQuiet, Zenon

\* No validation is handed to the adaptor (onStale, flush) and then becomes
\* current again, so none is written twice.
THEOREM WrittenOnce == Spec => []StaleNeverCurrent
<1>1. Init => StaleNeverCurrent
  BY DEF Init, StaleNeverCurrent
<1>2. TypeInv /\ EnforcerInv /\ StaleNeverCurrent /\ [Next]_vars
        => StaleNeverCurrent'
  BY StaleStep DEF TypeInv
<1> QED
  BY <1>1, <1>2, EnforcerAlways, PTL DEF Spec

\* Of two validations one node has in byLedger_, and whether they conflict.
Apart(v, w) ==
  v.signTime > w.signTime + Slack \/ w.signTime > v.signTime + Slack

LEMMA ConflictsApart ==
  ConflictsFarApart <=>
    \A n \in NodeID : \A k, l \in Ledger :
      /\ k # l /\ LedgerSeq[k] = LedgerSeq[l]
      /\ byLedger_[k][n] # NoValidation /\ byLedger_[l][n] # NoValidation
      => Apart(byLedger_[k][n], byLedger_[l][n])
  BY ZenonT(30) DEF ConflictsFarApart, Apart, Slack

\* A validation that joins a set was signed long after those it conflicts with.
LEMMA JoinsApart ==
  ASSUME TypeOK, EnforcerInv, NEW n \in NodeID, TryAdd(n), Permitted(n),
         NEW l \in Ledger, LedgerSeq[l] = LedgerSeq[pending[n].ledgerID],
         byLedger_[l][n] # NoValidation
  PROVE  pending[n].signTime > byLedger_[l][n].signTime + Slack
<1> DEFINE t == byLedger_[l][n].signTime
<1>0. byLedger_ \in [Ledger -> [NodeID -> MaybeValidation]]
  BY ZenonT(30) DEF TypeOK
<1>1. byLedger_[l][n] \in Validation
  BY <1>0, ZenonT(30) DEF MaybeValidation
<1>2. t \in Nat
  BY <1>1, ZenonT(30) DEF Validation
<1>3. Held(n, l, t)
  BY ZenonT(30) DEF Held
<1>4. Covered(n, l, t)
  BY <1>2, <1>3, Zenon DEF EnforcerInv
<1>5. LedgerSeq[l] >= LedgerSeq[pending[n].ledgerID]
  BY SeqNumbers
<1> QED
  BY <1>2, <1>4, <1>5, Fresh, ZenonT(30)

\* Only the slot of the validation being added changes, and it then holds it.
LEMMA AdmitsSlot ==
  ASSUME TypeOK, NEW n \in NodeID, Admits(n), NEW m \in NodeID,
         NEW l \in Ledger, (byLedger_'[l][m] = byLedger_[l][m]) = FALSE
  PROVE  /\ m = n /\ l = pending[n].ledgerID
         /\ byLedger_'[l][m] = pending[n]
         /\ Permitted(n) /\ TryAdd(n)
<1>1. /\ TryAdd(n)
      /\ \A h \in NodeID, k \in Ledger :
           byLedger_'[k][h] # byLedger_[k][h] =>
             /\ h = n /\ k = pending[n].ledgerID
             /\ byLedger_'[k][n] = pending[n]
             /\ Permitted(n)
  BY AdmitsStore, ZenonT(30)
<1>2. /\ m = n /\ l = pending[n].ledgerID
      /\ byLedger_'[l][n] = pending[n]
      /\ Permitted(n)
  BY <1>1, ZenonT(30)
<1> QED
  BY <1>1, <1>2, ZenonT(30)

\* So a validation being added stands apart from those it conflicts with.
LEMMA AdmitsApart ==
  ASSUME TypeOK, EnforcerInv, NEW n \in NodeID, Admits(n), NEW m \in NodeID,
         NEW k \in Ledger, NEW l \in Ledger,
         k # l, LedgerSeq[k] = LedgerSeq[l],
         (byLedger_'[k][m] = byLedger_[k][m]) = FALSE,
         byLedger_'[l][m] # NoValidation
  PROVE  Apart(byLedger_'[k][m], byLedger_'[l][m])
<1>0. TryAdd(n)
  BY AdmitsStore, ZenonT(30)
<1>1. /\ m = n /\ k = pending[n].ledgerID /\ byLedger_'[k][m] = pending[n]
      /\ Permitted(n)
  <2>1. \A h \in NodeID, j \in Ledger :
          byLedger_'[j][h] # byLedger_[j][h] =>
            /\ h = n /\ j = pending[n].ledgerID
            /\ byLedger_'[j][n] = pending[n]
            /\ Permitted(n)
    BY AdmitsStore, Zenon
  <2> QED
    BY <2>1
<1>2. byLedger_'[l][m] = byLedger_[l][m]
  <2>1. ASSUME (byLedger_'[l][m] = byLedger_[l][m]) = FALSE
        PROVE  l = pending[n].ledgerID
    BY <2>1, AdmitsSlot, ZenonT(30)
  <2> QED
    BY <1>1, <2>1, Zenon
<1>3. pending[n].signTime > byLedger_[l][n].signTime + Slack
  BY <1>0, <1>1, <1>2, JoinsApart, Zenon
<1> QED
  BY <1>1, <1>2, <1>3, ZenonT(30) DEF Apart

LEMMA ConflictStep ==
  ASSUME TypeOK, EnforcerInv, ConflictsFarApart, [Next]_vars
  PROVE  ConflictsFarApart'
<1> SUFFICES ASSUME NEW m \in NodeID, NEW k \in Ledger, NEW l \in Ledger,
                    k # l, LedgerSeq[k] = LedgerSeq[l],
                    byLedger_'[k][m] # NoValidation,
                    byLedger_'[l][m] # NoValidation
             PROVE  Apart(byLedger_'[k][m], byLedger_'[l][m])
  BY ZenonT(30) DEF ConflictsFarApart, Apart, Slack
<1>0. byLedger_[k][m] # NoValidation /\ byLedger_[l][m] # NoValidation
        => Apart(byLedger_[k][m], byLedger_[l][m])
  BY ConflictsApart, Zenon
<1>1. CASE Quiet
  <2>1. /\ byLedger_[k][m] # NoValidation /\ byLedger_[l][m] # NoValidation
        /\ byLedger_'[k][m].signTime = byLedger_[k][m].signTime
        /\ byLedger_'[l][m].signTime = byLedger_[l][m].signTime
    BY <1>1, ZenonT(30) DEF Quiet, Issued
  <2> QED
    BY <1>0, <2>1, Zenon DEF Apart
<1>2. ASSUME NEW n \in NodeID, Admits(n)
      PROVE  Apart(byLedger_'[k][m], byLedger_'[l][m])
  <2>1. CASE byLedger_'[k][m] = byLedger_[k][m] /\ byLedger_'[l][m] = byLedger_[l][m]
    BY <1>0, <2>1, Zenon
  <2>2. CASE (byLedger_'[k][m] = byLedger_[k][m]) = FALSE
    BY <1>2, <2>2, AdmitsApart, ZenonT(30)
  <2>3. CASE (byLedger_'[l][m] = byLedger_[l][m]) = FALSE
    <3>1. Apart(byLedger_'[l][m], byLedger_'[k][m])
      BY <1>2, <2>3, AdmitsApart, ZenonT(30)
    <3> QED
      BY <3>1 DEF Apart
  <2> QED
    BY <2>1, <2>2, <2>3, Zenon
<1> QED
  BY <1>1, <1>2, AdmitsOrQuiet, ZenonT(30)

\* Two validations of one node for ledgers with the same sequence number are in
\* byLedger_ together only when they were signed further apart than the slack
\* that SeqEnforcer's expiry leaves over isCurrent's window.
THEOREM ConflictsAreRare == Spec => []ConflictsFarApart
<1>1. Init => ConflictsFarApart
  BY DEF Init, ConflictsFarApart
<1>2. TypeInv /\ EnforcerInv /\ ConflictsFarApart /\ [Next]_vars
        => ConflictsFarApart'
  BY ConflictStep DEF TypeInv
<1> QED
  BY <1>1, <1>2, EnforcerAlways, PTL DEF Spec

\* Whatever leaves current_, replaced, aged out or flushed, has been handed to
\* the adaptor.
THEOREM HandedToAdaptor == Spec => NothingLost
<1> DEFINE Kept(n) ==
      \/ Issued(n, current_[n]) \in stale'
      \/ /\ current_'[n] # NoValidation
         /\ Issued(n, current_'[n]) = Issued(n, current_[n])
<1>1. ASSUME TypeOK, [Next]_vars, NEW n \in NodeID, current_[n] # NoValidation
      PROVE  Kept(n)
  <2>1. CASE Quiet
    BY <1>1, <2>1, Zenon DEF Quiet
  <2>2. ASSUME NEW m \in NodeID, Admits(m)
        PROVE  Kept(n)
    <3>1. CASE current_'[n] = current_[n]
      BY <1>1, <3>1
    <3>2. CASE current_'[n] # current_[n]
      <4>1. m = n /\ AddCurrent(n)
        BY <1>1, <2>2, <3>2, AdmitsStore, Zenon
      <4> QED
        BY <1>1, <4>1, ZenonT(30) DEF AddCurrent, HandedOver
    <3> QED
      BY <3>1, <3>2, Zenon
  <2> QED
    BY <1>1, <2>1, <2>2, AdmitsOrQuiet, ZenonT(30)
<1>2. TypeInv /\ EnforcerInv /\ [Next]_vars
        => [\A n \in NodeID : current_[n] # NoValidation => Kept(n)]_vars
  BY <1>1 DEF TypeInv
<1> QED
  BY <1>2, EnforcerAlways, PTL DEF Spec, NothingLost

\* A node's current validation gives way only to one signed later; its sequence
\* number grows too, unless the node's enforcer had expired.
THEOREM CurrentMovesForward == Spec => CurrentAdvances
<1> DEFINE Forward(n) ==
      /\ current_'[n].signTime > current_[n].signTime
      /\ \/ LedgerSeq[current_'[n].ledgerID] > LedgerSeq[current_[n].ledgerID]
         \/ steady > seqEnforcers_[n].when + validationSET_EXPIRES
<1>1. ASSUME TypeOK, EnforcerInv, [Next]_vars, NEW n \in NodeID,
             current_[n] # NoValidation, current_'[n] # NoValidation,
             Issued(n, current_[n]) # Issued(n, current_'[n])
      PROVE  Forward(n)
  <2>1. CASE Quiet
    BY <1>1, <2>1, ZenonT(30) DEF Quiet
  <2>2. ASSUME NEW m \in NodeID, Admits(m)
        PROVE  Forward(n)
    <3>1. /\ m = n /\ current_'[n] = pending[n]
          /\ TryAdd(n) /\ Permitted(n) /\ Newer(n)
      BY <1>1, <2>2, AdmitsStore, ZenonT(30)
    <3>2. current_'[n].signTime > current_[n].signTime
      BY <1>1, <3>1, ZenonT(30) DEF Newer
    <3> DEFINE l == current_[n].ledgerID
               s == LedgerSeq[pending[n].ledgerID]
    <3>3. l \in Ledger
      BY <1>1, ZenonT(30) DEF TypeOK, MaybeValidation, Validation
    <3>4. \/ LedgerSeq[l] <= seqEnforcers_[n].seq
          \/ steady > seqEnforcers_[n].when + validationSET_EXPIRES
      BY <1>1, <3>3, ZenonT(30) DEF EnforcerInv
    <3>5. /\ s \in Nat
          /\ \/ s > seqEnforcers_[n].seq
             \/ steady > seqEnforcers_[n].when + validationSET_EXPIRES
      BY <1>1, <3>1, EnforcerAfter, ZenonT(30)
    <3>6. s > LedgerSeq[l]
          \/ steady > seqEnforcers_[n].when + validationSET_EXPIRES
      <4> HIDE DEF s, l
      <4> QED
        BY <1>1, <3>3, <3>4, <3>5, SeqNumbers
    <3> QED
      BY <3>1, <3>2, <3>6, ZenonT(30)
  <2> QED
    BY <1>1, <2>1, <2>2, AdmitsOrQuiet, ZenonT(30)
<1>2. TypeInv /\ EnforcerInv /\ [Next]_vars =>
        [\A n \in NodeID :
           /\ current_[n] # NoValidation /\ current_'[n] # NoValidation
           /\ Issued(n, current_[n]) # Issued(n, current_'[n])
           => Forward(n)]_vars
  BY <1>1, ZenonT(30) DEF TypeInv
<1> QED
  BY <1>2, EnforcerAlways, PTL DEF Spec, CurrentAdvances

-------------------------------------------------------------------------------
(* Trust, and the ledgers being acquired. *)

\* In the support T, nothing is being acquired for node n, or its support is
\* that of ledger l, or will be when l has been acquired.
Free(T, n) == \A k \in Ledger : n \notin T.acq[k]
On(T, n, l) ==
  /\ \A k \in Ledger : n \in T.acq[k] => k = l
  /\ T.last[n] = l \/ n \in T.acq[l]

\* Both outlast checkAcquired, and removeTrie and settle for other nodes.
LEMMA CheckAcquiredFollows ==
  ASSUME NEW T, SupportOK(T), NEW to \in arrivals(T), NEW n \in NodeID,
         available \in SUBSET Ledger
  PROVE  /\ Free(T, n) => Free(checkAcquired(T, to), n)
         /\ \A l \in Ledger : On(T, n, l) => On(checkAcquired(T, to), n, l)
<1>0. /\ checkAcquired(T, to).acq
           = [l \in Ledger |-> IF l \in available THEN {} ELSE T.acq[l]]
      /\ checkAcquired(T, to).last
           = [m \in NodeID |-> IF m \in arrived(T) THEN to[m] ELSE T.last[m]]
  BY CheckAcquiredOK, ZenonT(30)
<1>1. checkAcquired(T, to).last[n]
        = IF n \in arrived(T) THEN to[n] ELSE T.last[n]
  BY <1>0
<1>2. \A k \in Ledger : n \in checkAcquired(T, to).acq[k] <=>
                          k \notin available /\ n \in T.acq[k]
  BY <1>0, ZenonT(30)
<1>3. ASSUME NEW l \in Ledger, On(T, n, l)
      PROVE  On(checkAcquired(T, to), n, l)
  <2>1. CASE n \in T.acq[l] /\ l \in available
    <3>1. ready(T, n) = {l}
      BY <1>3, <2>1, Zenon DEF ready, On
    <3>2. n \in arrived(T)
      BY <3>1 DEF arrived
    <3>3. to[n] = l
      BY <3>1, <3>2 DEF arrivals
    <3> QED
      BY <1>1, <1>2, <1>3, <3>2, <3>3, Zenon DEF On
  <2>2. CASE n \in T.acq[l] /\ l \notin available
    BY <1>2, <1>3, <2>2, ZenonT(30) DEF On
  <2>3. CASE n \notin T.acq[l]
    <3>1. \A k \in Ledger : n \notin T.acq[k]
      BY <1>3, <2>3, Zenon DEF On
    <3>2. n \notin arrived(T)
      BY <3>1 DEF arrived, ready
    <3> QED
      BY <1>1, <1>2, <1>3, <3>1, <3>2, Zenon DEF On
  <2> QED
    BY <2>1, <2>2, <2>3, ZenonT(30)
<1> QED
  BY <1>2, <1>3, ZenonT(30) DEF Free

LEMMA RemoveTrieFollows ==
  ASSUME NEW T, SupportOK(T), NEW ns \in SUBSET NodeID, NEW vals,
         NEW n \in NodeID
  PROVE  /\ n \notin ns => /\ Free(T, n) => Free(removeTrie(T, ns, vals), n)
                           /\ \A l \in Ledger : On(T, n, l)
                                => On(removeTrie(T, ns, vals), n, l)
         /\ n \in ns /\ Free(T, n) => Free(removeTrie(T, ns, vals), n)
         /\ n \in ns /\ On(T, n, vals[n].ledgerID)
              => Free(removeTrie(T, ns, vals), n)
<1>1. \A k \in Ledger : n \in removeTrie(T, ns, vals).acq[k] <=>
                /\ n \in T.acq[k]
                /\ ~(n \in ns /\ vals[n].ledgerID = k)
  BY ZenonT(30) DEF removeTrie
<1>2. n \notin ns => removeTrie(T, ns, vals).last[n] = T.last[n]
  BY Zenon DEF removeTrie
<1> QED
  BY <1>1, <1>2, Zenon DEF Free, On

LEMMA SettleFollows ==
  ASSUME NEW T, SupportOK(T), NEW ns \in SUBSET NodeID, NEW vals,
         \A n \in ns : vals[n].ledgerID \in Ledger,
         NEW n \in NodeID
  PROVE  /\ n \notin ns => /\ Free(T, n) => Free(settle(T, ns, vals), n)
                           /\ \A l \in Ledger : On(T, n, l)
                                => On(settle(T, ns, vals), n, l)
         /\ n \in ns /\ Free(T, n)
              => On(settle(T, ns, vals), n, vals[n].ledgerID)
<1>0. /\ settle(T, ns, vals).acq
           = [l \in Ledger |-> T.acq[l] \cup
                {m \in ns : vals[m].ledgerID \notin available
                               /\ vals[m].ledgerID = l}]
      /\ settle(T, ns, vals).last
           = [m \in NodeID |->
                IF m \in ns /\ vals[m].ledgerID \in available
                THEN vals[m].ledgerID ELSE T.last[m]]
  <2>1. Settling(T, ns, vals)
    BY ZenonT(30) DEF Settling
  <2>2. IsSettled(T, ns, vals, settle(T, ns, vals))
    BY <2>1, SettleFields, ZenonT(30)
  <2> QED
    BY <2>2, ZenonT(30) DEF IsSettled
<1>1. \A k \in Ledger : n \in settle(T, ns, vals).acq[k] <=>
        \/ n \in T.acq[k]
        \/ n \in ns /\ vals[n].ledgerID \notin available /\ vals[n].ledgerID = k
  <2> DEFINE acq == settle(T, ns, vals).acq
             more(l) == {m \in ns : vals[m].ledgerID \notin available
                                       /\ vals[m].ledgerID = l}
  <2> SUFFICES ASSUME NEW k \in Ledger
               PROVE  n \in acq[k] <=> n \in T.acq[k] \/ n \in more(k)
    BY ZenonT(30)
  <2>1. acq = [l \in Ledger |-> T.acq[l] \cup more(l)]
    BY <1>0, ZenonT(30)
  <2> HIDE DEF acq, more
  <2>2. acq[k] = T.acq[k] \cup more(k)
    BY <2>1, ZenonT(30)
  <2> QED
    BY <2>2, ZenonT(30)
<1>2. settle(T, ns, vals).last[n] =
        IF n \in ns /\ vals[n].ledgerID \in available
        THEN vals[n].ledgerID ELSE T.last[n]
  BY <1>0, ZenonT(30)
<1> QED
  BY <1>1, <1>2, Zenon DEF Free, On

\* The support of node n is right for the validation v it is known by.
Follows(T, n, v) ==
  IF v # NoValidation /\ v.trusted THEN On(T, n, v.ledgerID) ELSE Free(T, n)

LEMMA FollowsMeaning ==
  ASSUME NEW T, NEW n, NEW v
  PROVE  Follows(T, n, v) <=>
           /\ \A l \in Ledger : n \in T.acq[l] =>
                /\ v # NoValidation
                /\ v.trusted
                /\ v.ledgerID = l
           /\ v # NoValidation /\ v.trusted =>
                \/ T.last[n] = v.ledgerID
                \/ n \in T.acq[v.ledgerID]
<1>1. CASE v # NoValidation /\ v.trusted
  BY <1>1, Zenon DEF Follows, On
<1>2. CASE ~(v # NoValidation /\ v.trusted)
  BY <1>2, Zenon DEF Follows, Free
<1> QED
  BY <1>1, <1>2, Zenon

LEMMA FollowsNow ==
  ASSUME AcquiringFollowsCurrent, NEW n \in NodeID \ detached
  PROVE  Follows(Support, n, current_[n])
<1>1. Support.acq = acquiring_ /\ Support.last = lastLedger_
  BY DEF Support
<1> QED
  BY <1>1, FollowsMeaning, ZenonT(30) DEF AcquiringFollowsCurrent

LEMMA FollowsAfter ==
  ASSUME NEW T, SetSupport(T),
         \A n \in NodeID \ detached' : Follows(T, n, current_'[n])
  PROVE  AcquiringFollowsCurrent'
<1>1. acquiring_' = T.acq /\ lastLedger_' = T.last
  BY DEF SetSupport
<1> QED
  BY <1>1, FollowsMeaning, Zenon DEF AcquiringFollowsCurrent

LEMMA SupportSet ==
  ASSUME UNCHANGED support
  PROVE  SetSupport(Support)
  BY DEF support, SetSupport, Support

\* The changes this store has not heard of are real changes.
ChangesOK ==
  /\ changes.added \subseteq trusted
  /\ changes.removed \cap trusted = {}

\* Together with TypeInv, inductive.
TrustInv == ChangesOK /\ TrustIsApplied /\ AcquiringFollowsCurrent

\* The trust recorded with the validation v of node n is the one in A.
Records(n, v, A) == v # NoValidation => v.trusted = (n \in A)

LEMMA RecordsMeaning ==
  TrustIsApplied <=> \A n \in NodeID \ detached :
    /\ Records(n, current_[n], applied)
    /\ \A l \in Ledger : Records(n, byLedger_[l][n], applied)
  BY Zenon DEF TrustIsApplied, Records

LEMMA RecordsAfter ==
  ASSUME \A n \in NodeID \ detached' :
           /\ Records(n, current_'[n], applied')
           /\ \A l \in Ledger : Records(n, byLedger_'[l][n], applied')
  PROVE  TrustIsApplied'
  BY ZenonT(30) DEF TrustIsApplied, Records

\* Steps that record no trust.
LEMMA RecordsKept ==
  ASSUME TrustIsApplied, applied' = applied, detached \subseteq detached',
         \A n \in NodeID : current_'[n] \in {NoValidation, current_[n]},
         \A n \in NodeID, l \in Ledger :
           byLedger_'[l][n] \in {NoValidation, byLedger_[l][n]}
  PROVE  TrustIsApplied'
<1> SUFFICES ASSUME NEW n \in NodeID \ detached'
             PROVE  /\ Records(n, current_'[n], applied')
                    /\ \A l \in Ledger : Records(n, byLedger_'[l][n], applied')
  BY RecordsAfter, Zenon
<1>1. \A v : Records(n, NoValidation, v)
  BY Zenon DEF Records
<1>2. /\ Records(n, current_[n], applied)
      /\ \A l \in Ledger : Records(n, byLedger_[l][n], applied)
  BY RecordsMeaning, Zenon
<1> QED
  BY <1>1, <1>2, Zenon

LEMMA AppliedKept ==
  ASSUME UNCHANGED trust
  PROVE  /\ applied' = applied
         /\ ChangesOK => ChangesOK'
  BY Zenon DEF trust, applied, ChangesOK

LEMMA AdmitsRecords ==
  ASSUME TypeOK, TrustIsApplied, NEW n \in NodeID, Admits(n)
  PROVE  /\ TrustIsApplied'
         /\ detached \subseteq detached'
         /\ Permitted(n) /\ n \notin detached' => Records(n, pending[n], applied)
<1> DEFINE v == pending[n]
<1>1. applied' = applied
  BY AdmitsStore, AppliedKept, ZenonT(30) DEF TryAdd
<1>2. /\ detached \subseteq detached'
      /\ Permitted(n) /\ n \notin detached' => Records(n, v, applied)
  <2>1. CASE AddBadSeq(n)
    BY <2>1 DEF AddBadSeq
  <2>2. ASSUME Index(n, v)
        PROVE  /\ detached \subseteq detached'
               /\ n \notin detached' => Records(n, v, applied)
    BY <2>2, ZenonT(30) DEF Index, Records
  <2> QED
    BY <2>1, <2>2, Zenon DEF Admits, AddOutdated, AddCurrent
<1>3. ASSUME NEW m \in NodeID \ detached'
      PROVE  Records(m, current_'[m], applied')
  <2>1. CASE current_'[m] = current_[m]
    BY <1>1, <1>2, <2>1, RecordsMeaning, Zenon
  <2>2. CASE current_'[m] # current_[m]
    BY <1>1, <1>2, <2>2, AdmitsStore, ZenonT(30)
  <2> QED
    BY <2>1, <2>2
<1>4. ASSUME NEW m \in NodeID \ detached', NEW l \in Ledger
      PROVE  Records(m, byLedger_'[l][m], applied')
  <2>1. CASE byLedger_'[l][m] = byLedger_[l][m]
    BY <1>1, <1>2, <2>1, RecordsMeaning, Zenon
  <2>2. CASE byLedger_'[l][m] # byLedger_[l][m]
    <3>1. m = n /\ byLedger_'[l][m] = v /\ Permitted(n)
      BY <2>2, AdmitsSlot, ZenonT(30)
    <3>2. n \notin detached'
      BY <3>1, Zenon
    <3>3. Records(n, v, applied)
      BY <1>2, <3>1, <3>2
    <3> QED
      BY <1>1, <3>1, <3>3, Zenon
  <2> QED
    BY <2>1, <2>2, Zenon
<1> QED
  BY <1>2, <1>3, <1>4, RecordsAfter, Zenon

\* trustChanged records the changes the store has not heard of.
LEMMA ChangedRecords ==
  ASSUME TypeOK, ChangesOK, TrustIsApplied, TrustChanged
  PROVE  TrustIsApplied'
<1>1. applied' = trusted
  BY ZenonT(30) DEF TrustChanged, applied
<1>2. ASSUME NEW n \in NodeID, NEW v \in MaybeValidation, Records(n, v, applied)
      PROVE  Records(n, withTrust(n, v), trusted)
  <2>1. CASE v = NoValidation
    BY <2>1 DEF withTrust, Records
  <2>2. CASE v \in Validation /\ n \in changes.added
    <3>1. n \in trusted
      BY <2>2 DEF ChangesOK
    <3>2. withTrust(n, v) = [v EXCEPT !.trusted = TRUE]
      BY <2>2, ValidationsAssumption DEF withTrust
    <3>3. [v EXCEPT !.trusted = TRUE].trusted = TRUE
      BY <2>2 DEF Validation
    <3> QED
      BY <3>1, <3>2, <3>3, ZenonT(30) DEF Records
  <2>3. CASE v \in Validation /\ n \notin changes.added /\ n \in changes.removed
    <3>1. (n \in trusted) = FALSE
      BY <2>3 DEF ChangesOK
    <3>2. withTrust(n, v) = [v EXCEPT !.trusted = FALSE]
      BY <2>3, ValidationsAssumption DEF withTrust
    <3>3. [v EXCEPT !.trusted = FALSE].trusted = FALSE
      BY <2>3 DEF Validation
    <3> QED
      BY <3>1, <3>2, <3>3, Zenon DEF Records
  <2>4. CASE n \notin changes.added /\ n \notin changes.removed
    <3>1. withTrust(n, v) = v
      BY <2>4 DEF withTrust
    <3>2. (n \in applied) = (n \in trusted)
      BY <2>4 DEF applied
    <3> QED
      BY <1>2, <3>1, <3>2, Zenon DEF Records
  <2> QED
    BY <2>1, <2>2, <2>3, <2>4, Zenon DEF MaybeValidation
<1>3. detached' = detached
  BY ZenonT(30) DEF TrustChanged
<1>4. ASSUME NEW n \in NodeID \ detached'
      PROVE  Records(n, current_'[n], applied')
  <2>1. current_'[n] = withTrust(n, current_[n]) /\ current_[n] \in MaybeValidation
    BY DEF TrustChanged, TypeOK
  <2> QED
    BY <1>1, <1>2, <1>3, <2>1, RecordsMeaning, ZenonT(30)
<1>5. ASSUME NEW n \in NodeID \ detached', NEW l \in Ledger
      PROVE  Records(n, byLedger_'[l][n], applied')
  <2>1. /\ byLedger_'[l][n] = withTrust(n, byLedger_[l][n])
        /\ byLedger_[l][n] \in MaybeValidation
    BY ZenonT(30) DEF TrustChanged, TypeOK
  <2> QED
    BY <1>1, <1>2, <1>3, <2>1, RecordsMeaning, Zenon
<1> QED
  BY <1>4, <1>5, RecordsAfter, ZenonT(30)

\* Follows outlasts what happens to other nodes.
LEMMA FollowsCheck ==
  ASSUME available \in SUBSET Ledger, NEW T, SupportOK(T), NEW to \in arrivals(T),
         NEW n \in NodeID, NEW v \in MaybeValidation, Follows(T, n, v)
  PROVE  Follows(checkAcquired(T, to), n, v)
<1>1. v # NoValidation => v.ledgerID \in Ledger
  BY DEF MaybeValidation, Validation
<1> QED
  BY <1>1, CheckAcquiredFollows, Zenon DEF Follows

LEMMA FollowsRemove ==
  ASSUME NEW T, SupportOK(T), NEW ns \in SUBSET NodeID, NEW vals,
         NEW n \in NodeID, NEW v \in MaybeValidation, Follows(T, n, v)
  PROVE  /\ n \notin ns => Follows(removeTrie(T, ns, vals), n, v)
         /\ n \in ns /\ vals[n] = v => Free(removeTrie(T, ns, vals), n)
<1>1. v # NoValidation => v.ledgerID \in Ledger
  BY DEF MaybeValidation, Validation
<1> QED
  BY <1>1, RemoveTrieFollows, Zenon DEF Follows

LEMMA FollowsSettle ==
  ASSUME NEW T, SupportOK(T), NEW ns \in SUBSET NodeID, NEW vals,
         \A m \in ns : vals[m].ledgerID \in Ledger,
         NEW n \in NodeID, NEW v \in MaybeValidation, Follows(T, n, v)
  PROVE  n \notin ns => Follows(settle(T, ns, vals), n, v)
<1>1. v # NoValidation => v.ledgerID \in Ledger
  BY DEF MaybeValidation, Validation
<1> QED
  BY <1>1, SettleFollows, Zenon DEF Follows

\* The step that records the support of an admitted validation.
LEMMA ReflectFollows ==
  ASSUME TypeInv, AcquiringFollowsCurrent, NEW n \in NodeID,
         NEW v \in Validation, v.trusted, Reflect(n, v),
         current_' = [current_ EXCEPT ![n] = v], detached \subseteq detached'
  PROVE  AcquiringFollowsCurrent'
<1> DEFINE prior == IF current_[n] = NoValidation THEN NoLedger
                    ELSE current_[n].ledgerID
           acq == [l \in Ledger |->
                    IF l = prior THEN acquiring_[l] \ {n} ELSE acquiring_[l]]
           T == [Support EXCEPT !.acq = acq]
           vals == [current_ EXCEPT ![n] = v]
<1>1. PICK to \in arrivals(T) : SetSupport(settle(checkAcquired(T, to), {n}, vals))
  BY Zenon DEF Reflect
<1>2. /\ SupportOK(T)
      /\ T.acq = acq /\ T.last = lastLedger_
      /\ Support.acq = acquiring_ /\ Support.last = lastLedger_
  <2>1. SupportOK(Support) /\ Support.last = lastLedger_ /\ Support.acq = acquiring_
    BY SupportNow DEF TypeInv, Support
  <2>2. acq \in [Ledger -> SUBSET NodeID]
    BY DEF TypeInv, TypeOK
  <2> HIDE DEF acq
  <2> QED
    BY <2>1, <2>2, WithAcqOK
<1>3. /\ vals[n] = v /\ v.ledgerID \in Ledger
      /\ \A m \in NodeID : m # n => current_'[m] = current_[m]
      /\ current_'[n] = v
      /\ \A m \in NodeID : current_[m] \in MaybeValidation
      /\ v # NoValidation
      /\ available \in SUBSET Ledger
  BY ValidationsAssumption DEF TypeInv, TypeOK, Validation
<1>4. \A m \in NodeID \ detached' : Follows(Support, m, current_[m])
  BY FollowsNow
<1>5. ASSUME n \notin detached' PROVE Free(T, n)
  <2>1. Follows(Support, n, current_[n])
    BY <1>4, <1>5
  <2>2. \A k \in Ledger : n \in acquiring_[k] => k = prior
    BY <1>2, <2>1, Zenon DEF Follows, Free, On
  <2> QED
    BY <1>2, <2>2 DEF Free
<1>6. ASSUME NEW m \in NodeID, NEW w, m # n, Follows(Support, m, w),
             w # NoValidation => w.ledgerID \in Ledger
      PROVE  Follows(T, m, w)
  <2>1. \A k \in Ledger : m \in T.acq[k] <=> m \in Support.acq[k]
    BY <1>2, <1>6
  <2> HIDE DEF T
  <2> QED
    BY <1>2, <1>6, <2>1, Zenon DEF Follows, Free, On
<1> HIDE DEF T, vals
<1>7. SupportOK(checkAcquired(T, to))
  BY <1>2, CheckAcquiredOK, ZenonT(30)
<1>8. ASSUME NEW m \in NodeID \ detached'
      PROVE  Follows(settle(checkAcquired(T, to), {n}, vals), m, current_'[m])
  <2>1. CASE m = n
    <3>1. Free(checkAcquired(T, to), n)
      BY <1>2, <1>3, <1>5, <1>8, <2>1, CheckAcquiredFollows, ZenonT(30)
    <3>2. On(settle(checkAcquired(T, to), {n}, vals), n, v.ledgerID)
      BY <1>3, <1>7, <3>1, SettleFollows, Zenon
    <3> QED
      BY <1>3, <2>1, <3>2, Zenon DEF Follows
  <2>2. CASE m # n
    <3> DEFINE w == current_[m]
    <3>1. w \in MaybeValidation /\ current_'[m] = w
      BY <1>3, <2>2, Zenon
    <3>2. w # NoValidation => w.ledgerID \in Ledger
      BY <3>1, Zenon DEF MaybeValidation, Validation
    <3>3. Follows(T, m, w)
      BY <1>4, <1>6, <2>2, <3>2, Zenon
    <3>4. Follows(checkAcquired(T, to), m, w)
      BY <1>2, <1>3, <3>1, <3>3, FollowsCheck, ZenonT(30)
    <3>5. Follows(settle(checkAcquired(T, to), {n}, vals), m, w)
      BY <1>3, <1>7, <2>2, <3>1, <3>4, FollowsSettle, Zenon
    <3> QED
      BY <3>1, <3>5, Zenon
  <2> QED
    BY <2>1, <2>2
<1> QED
  BY <1>1, <1>8, FollowsAfter

LEMMA AdmitsFollows ==
  ASSUME TypeInv, TrustInv, NEW n \in NodeID, Admits(n)
  PROVE  AcquiringFollowsCurrent'
<1> DEFINE v == pending[n]
<1>0. /\ TypeOK /\ TrustIsApplied /\ AcquiringFollowsCurrent
      /\ detached \subseteq detached'
      /\ v \in Validation
  BY AdmitsRecords, AdmitsStore, ZenonT(30) DEF TypeInv, TrustInv
<1>1. CASE UNCHANGED <<current_, support>>
  BY <1>0, <1>1, FollowsNow, FollowsAfter, SupportSet, Zenon
<1>2. CASE AddCurrent(n) /\ v.trusted
  BY <1>0, <1>2, ReflectFollows, Zenon DEF AddCurrent
<1>3. CASE AddCurrent(n) /\ ~v.trusted
  <2>1. UNCHANGED support /\ current_' = [current_ EXCEPT ![n] = v]
    BY <1>3, Zenon DEF AddCurrent, Reflect
  <2>2. /\ \A m \in NodeID : m # n => current_'[m] = current_[m]
        /\ current_'[n] = v
    BY <1>0, <2>1, Zenon DEF TypeOK
  <2>3. ASSUME n \notin detached'
        PROVE  Free(Support, n)
    <3>1. Records(n, v, applied) /\ Records(n, current_[n], applied)
      BY <1>0, <1>3, <2>3, AdmitsRecords, RecordsMeaning, ZenonT(30) DEF AddCurrent
    <3>2. v # NoValidation
      BY <1>0, ValidationsAssumption
    <3>3. n \notin applied
      BY <1>3, <3>1, <3>2, Zenon DEF Records
    <3>4. ~(current_[n] # NoValidation /\ current_[n].trusted)
      BY <3>1, <3>3, ZenonT(30) DEF Records
    <3>5. Follows(Support, n, current_[n])
      BY <1>0, <2>3, FollowsNow, Zenon
    <3> QED
      BY <3>4, <3>5, Zenon DEF Follows
  <2>4. ASSUME NEW m \in NodeID \ detached'
        PROVE  Follows(Support, m, current_'[m])
    <3>1. CASE m = n
      BY <1>3, <2>2, <2>3, <2>4, <3>1, ZenonT(30) DEF Follows
    <3>2. CASE m # n
      BY <1>0, <2>2, <2>4, <3>2, FollowsNow, Zenon
    <3> QED
      BY <3>1, <3>2
  <2> QED
    BY <2>1, <2>4, FollowsAfter, SupportSet, Zenon
<1> QED
  BY <1>1, <1>2, <1>3 DEF Admits, AddBadSeq, AddOutdated, store

LEMMA SweepFollows ==
  ASSUME TypeInv, AcquiringFollowsCurrent, Current \/ WithTrie
  PROVE  AcquiringFollowsCurrent'
<1> DEFINE T == removeTrie(Support, Aged, current_)
<1>1. /\ SupportOK(Support) /\ Aged \in SUBSET NodeID /\ available \in SUBSET Ledger
      /\ \A n \in NodeID : current_[n] \in MaybeValidation
      /\ NoValidation \in MaybeValidation
  BY SupportNow DEF TypeInv, TypeOK, Aged, MaybeValidation
<1>2. SupportOK(T)
  BY <1>1, RemoveTrieOK, Zenon
<1>3. Sweep
  BY Zenon DEF Current, WithTrie
<1>4. /\ detached' = detached
      /\ \A n \in NodeID : current_'[n] =
           IF n \in Aged THEN NoValidation ELSE current_[n]
  BY <1>3 DEF Sweep
<1>5. ASSUME NEW n \in NodeID \ detached'
      PROVE  Follows(T, n, current_'[n]) /\ current_'[n] \in MaybeValidation
  <2>1. Follows(Support, n, current_[n])
    BY <1>4, FollowsNow, ZenonT(30)
  <2>2. CASE n \in Aged
    <3>1. Free(T, n)
      BY <1>1, <2>1, <2>2, FollowsRemove, ZenonT(30)
    <3> QED
      BY <1>1, <1>4, <2>2, <3>1, ZenonT(30) DEF Follows
  <2>3. CASE n \notin Aged
    BY <1>1, <1>4, <2>1, <2>3, FollowsRemove, ZenonT(30)
  <2> QED
    BY <2>2, <2>3, ZenonT(30)
<1> HIDE DEF T
<1>6. CASE SetSupport(T)
  BY <1>5, <1>6, FollowsAfter
<1>7. ASSUME NEW to \in arrivals(T), SetSupport(checkAcquired(T, to))
      PROVE  AcquiringFollowsCurrent'
  <2>1. \A n \in NodeID \ detached' : Follows(checkAcquired(T, to), n, current_'[n])
    BY <1>1, <1>2, <1>5, <1>7, FollowsCheck, Zenon
  <2> QED
    BY <1>7, <2>1, FollowsAfter, ZenonT(30)
<1> QED
  BY <1>6, <1>7, ZenonT(30) DEF Current, WithTrie, T

LEMMA RetrustFollows ==
  ASSUME TypeInv, TrustInv, TrustChanged
  PROVE  AcquiringFollowsCurrent'
<1> DEFINE present == {n \in NodeID : current_[n] # NoValidation}
           up == changes.added \cap present
           down == changes.removed \cap present
<1>1. /\ SupportOK(Support) /\ available \in SUBSET Ledger
      /\ up \in SUBSET NodeID /\ down \in SUBSET NodeID /\ up \cap down = {}
      /\ \A n \in NodeID : current_[n] \in MaybeValidation
      /\ NoValidation \in MaybeValidation
      /\ \A n \in up : current_[n].ledgerID \in Ledger
  <2>1. SupportOK(Support) /\ available \in SUBSET Ledger
    BY SupportNow, ZenonT(30) DEF TypeInv, TypeOK
  <2>2. up \cap down = {}
    BY ZenonT(30) DEF TrustInv, ChangesOK
  <2>3. /\ \A n \in NodeID : current_[n] \in MaybeValidation
        /\ NoValidation \in MaybeValidation
    BY ZenonT(30) DEF TypeInv, TypeOK, MaybeValidation
  <2>4. \A n \in up : current_[n].ledgerID \in Ledger
    BY <2>3, ZenonT(30) DEF MaybeValidation, Validation
  <2> QED
    BY <2>1, <2>2, <2>3, <2>4, ZenonT(30)
<1>2. detached' = detached
  BY ZenonT(30) DEF TrustChanged
\* A node whose trust goes up was not trusted, so nothing is acquired for it.
<1>3. ASSUME NEW n \in up, n \notin detached
      PROVE  /\ Free(Support, n)
             /\ current_'[n].trusted
             /\ current_'[n] # NoValidation
             /\ current_'[n].ledgerID = current_[n].ledgerID
  <2>1. n \notin applied
    BY <1>3, ZenonT(30) DEF TrustInv, ChangesOK, applied
  <2>2. Records(n, current_[n], applied)
    BY <1>1, <1>3, RecordsMeaning, ZenonT(30) DEF TrustInv
  <2>3. ~(current_[n] # NoValidation /\ current_[n].trusted)
    BY <2>1, <2>2, Zenon DEF Records
  <2>4. Free(Support, n)
    BY <1>3, <2>3, FollowsNow, Zenon DEF Follows, TrustInv
  <2>5. current_'[n] = [current_[n] EXCEPT !.trusted = TRUE]
    <3>1. current_'[n] = withTrust(n, current_[n])
      BY <1>3, ZenonT(30) DEF TrustChanged
    <3> QED
      BY <1>3, <3>1, ZenonT(30) DEF withTrust
  <2>6. current_[n] \in Validation
    BY <1>1, <1>3, Zenon DEF MaybeValidation
  <2>7. [current_[n] EXCEPT !.trusted = TRUE].trusted = TRUE
    BY <2>6 DEF Validation
  <2>8. /\ [current_[n] EXCEPT !.trusted = TRUE].ledgerID = current_[n].ledgerID
        /\ [current_[n] EXCEPT !.trusted = TRUE] \in Validation
    BY <2>6, Zenon DEF Validation
  <2>9. current_'[n] # NoValidation
    BY <2>5, <2>8, ValidationsAssumption, Zenon
  <2> QED
    BY <2>4, <2>5, <2>7, <2>8, <2>9, Zenon
<1>4. ASSUME NEW n \in down
      PROVE  ~current_'[n].trusted
  <2>1. current_'[n] = withTrust(n, current_[n]) /\ current_[n] # NoValidation
    BY <1>4, Zenon DEF TrustChanged
  <2>2. n \in changes.removed /\ n \notin changes.added
    BY <1>4 DEF TrustInv, ChangesOK
  <2>3. current_'[n] = [current_[n] EXCEPT !.trusted = FALSE]
    BY <2>1, <2>2, ZenonT(30) DEF withTrust
  <2>4. current_[n] \in Validation
    BY <1>1, <1>4, <2>1, Zenon DEF MaybeValidation
  <2>5. [current_[n] EXCEPT !.trusted = FALSE].trusted = FALSE
    BY <2>4 DEF Validation
  <2> QED
    BY <2>3, <2>5, Zenon
<1>5. ASSUME NEW n \in NodeID, n \notin up, n \notin down
      PROVE  current_'[n] = current_[n]
  BY <1>5 DEF TrustChanged, withTrust
<1>6. \A n \in NodeID \ detached' : Follows(Support, n, current_[n])
  BY <1>2, FollowsNow, Zenon DEF TrustInv
<1> HIDE DEF up, down
<1>7. ASSUME up = {}, SetSupport(removeTrie(Support, down, current_))
      PROVE  AcquiringFollowsCurrent'
  <2> DEFINE R == removeTrie(Support, down, current_)
  <2>1. ASSUME NEW n \in NodeID \ detached'
        PROVE  Follows(R, n, current_'[n])
    <3>1. CASE n \in down
      <4>1. Free(R, n)
        BY <1>1, <1>6, <3>1, FollowsRemove, Zenon
      <4> QED
        BY <1>4, <3>1, <4>1, ZenonT(30) DEF Follows
    <3>2. CASE n \notin down
      BY <1>1, <1>5, <1>6, <1>7, <3>2, FollowsRemove, ZenonT(30)
    <3> QED
      BY <3>1, <3>2
  <2> QED
    BY <1>7, <2>1, FollowsAfter, Zenon
<1>8. ASSUME NEW early \in SUBSET down,
             NEW to \in arrivals(removeTrie(Support, early, current_)),
             SetSupport(settle(removeTrie(
               checkAcquired(removeTrie(Support, early, current_), to),
               down \ early, current_), up, current_))
      PROVE  AcquiringFollowsCurrent'
  <2> DEFINE T == removeTrie(Support, early, current_)
             C == checkAcquired(T, to)
             R == removeTrie(C, down \ early, current_)
             S == settle(R, up, current_)
  <2>1. early \in SUBSET NodeID /\ down \ early \in SUBSET NodeID
    BY <1>1, Zenon
  <2>2. SupportOK(T)
    BY <1>1, <2>1, RemoveTrieOK
  <2>3. SupportOK(C)
    BY <1>8, <2>2, CheckAcquiredOK, ZenonT(30)
  <2>4. SupportOK(R)
    BY <2>1, <2>3, RemoveTrieOK, Zenon
  <2>5. to \in arrivals(T) /\ SetSupport(S)
    BY <1>8
  \* What follows v before follows it after, unless the node loses its trust.
  <2>6. ASSUME NEW n \in NodeID, NEW v \in MaybeValidation,
               Follows(Support, n, v), n \notin down
        PROVE  Follows(R, n, v)
    <3>1. Follows(T, n, v)
      BY <1>1, <2>1, <2>6, FollowsRemove, Zenon
    <3> HIDE DEF T
    <3>2. Follows(C, n, v)
      BY <1>1, <2>2, <2>5, <2>6, <3>1, FollowsCheck, ZenonT(30)
    <3> HIDE DEF C
    <3> QED
      BY <2>1, <2>3, <2>6, <3>2, FollowsRemove, ZenonT(30)
  <2>7. ASSUME NEW n \in NodeID \ detached', n \in down
        PROVE  Free(R, n)
    <3> DEFINE v == current_[n]
    <3>1. CASE n \in early
      <4>1. Free(T, n)
        BY <1>1, <1>6, <2>1, <3>1, FollowsRemove, ZenonT(30)
      <4> HIDE DEF T
      <4>2. Free(C, n)
        BY <1>1, <2>2, <2>5, <4>1, CheckAcquiredFollows, Zenon
      <4> HIDE DEF C
      <4> QED
        BY <2>1, <2>3, <3>1, <4>2, RemoveTrieFollows, Zenon
    <3>2. CASE n \notin early
      <4>1. Follows(T, n, v)
        BY <1>1, <1>6, <2>1, <3>2, FollowsRemove, Zenon
      <4> HIDE DEF T
      <4>2. Follows(C, n, v)
        BY <1>1, <2>2, <2>5, <4>1, FollowsCheck, ZenonT(30)
      <4> HIDE DEF C
      <4> QED
        BY <1>1, <2>1, <2>3, <2>7, <3>2, <4>2, FollowsRemove, ZenonT(30)
    <3> QED
      BY <3>1, <3>2, Zenon
  <2> HIDE DEF R
  <2>8. ASSUME NEW n \in NodeID \ detached'
        PROVE  Follows(S, n, current_'[n])
    <3>1. CASE n \in up
      <4>1. Free(Support, n)
        BY <1>2, <1>3, <3>1, Zenon
      <4>2. Follows(Support, n, NoValidation)
        BY <4>1, Zenon DEF Follows
      <4>3. Follows(R, n, NoValidation)
        BY <1>1, <2>6, <3>1, <4>2, Zenon
      <4>4. Free(R, n)
        BY <4>3, Zenon DEF Follows
      <4>5. On(S, n, current_[n].ledgerID)
        BY <1>1, <2>4, <3>1, <4>4, SettleFollows, Zenon
      <4>6. /\ current_'[n] # NoValidation /\ current_'[n].trusted
            /\ current_'[n].ledgerID = current_[n].ledgerID
        BY <1>2, <1>3, <3>1, Zenon
      <4> QED
        BY <4>5, <4>6, ZenonT(30) DEF Follows
    <3>2. CASE n \in down
      <4>1. n \notin up /\ Free(R, n)
        BY <1>1, <2>7, <3>2, ZenonT(30)
      <4>2. Free(S, n)
        BY <1>1, <2>4, <4>1, SettleFollows, ZenonT(30)
      <4> QED
        BY <1>4, <3>2, <4>2, Zenon DEF Follows
    <3>3. CASE n \notin up /\ n \notin down
      <4>1. Follows(R, n, current_[n])
        BY <1>1, <1>6, <2>6, <3>3, ZenonT(30)
      <4>2. Follows(S, n, current_[n])
        BY <1>1, <2>4, <3>3, <4>1, FollowsSettle, Zenon
      <4> QED
        BY <1>5, <3>3, <4>2
    <3> QED
      BY <3>1, <3>2, <3>3
  <2> HIDE DEF S
  <2> QED
    BY <2>5, <2>8, FollowsAfter, Zenon
<1> QED
  BY <1>7, <1>8, Zenon DEF TrustChanged, Retrust, up, down

LEMMA InitTrust == Init => TrustInv
<1> SUFFICES ASSUME Init PROVE TrustInv
  OBVIOUS
<1>1. ChangesOK
  BY Zenon DEF Init, ChangesOK
<1>2. /\ \A n \in NodeID : current_[n] = NoValidation
      /\ \A n \in NodeID, l \in Ledger : byLedger_[l][n] = NoValidation
      /\ \A n \in NodeID, l \in Ledger : n \notin acquiring_[l]
  BY DEF Init
<1>3. TrustIsApplied
  BY <1>2, Zenon DEF TrustIsApplied
<1>4. AcquiringFollowsCurrent
  BY <1>2, Zenon DEF AcquiringFollowsCurrent
<1> QED
  BY <1>1, <1>3, <1>4, ZenonT(30) DEF TrustInv

\* Steps that leave the store, its support and its trust alone.
LEMMA TrustUnchanged ==
  ASSUME TrustInv, applied' = applied, ChangesOK',
         UNCHANGED <<current_, byLedger_, support, detached>>
  PROVE  TrustInv'
<1>1. TrustIsApplied'
  BY RecordsKept, Zenon DEF TrustInv
<1>2. AcquiringFollowsCurrent'
  BY FollowsNow, FollowsAfter, SupportSet, Zenon DEF TrustInv
<1> QED
  BY <1>1, <1>2, Zenon DEF TrustInv

LEMMA NextTrust == TypeInv /\ TrustInv /\ [Next]_vars => TrustInv'
<1> SUFFICES ASSUME TypeInv, TrustInv, [Next]_vars
             PROVE  TrustInv'
  OBVIOUS
<1>0. TypeOK /\ ChangesOK /\ TrustIsApplied /\ AcquiringFollowsCurrent
  BY DEF TypeInv, TrustInv
<1>1. ASSUME UNCHANGED <<current_, byLedger_, support, detached, trust>>
      PROVE  TrustInv'
  BY <1>0, <1>1, AppliedKept, TrustUnchanged, Zenon
<1>2. CASE UNCHANGED vars
  BY <1>1, <1>2, ZenonT(30) DEF vars, support, trust
<1>3. ASSUME NEW n \in NodeID, NEW l \in Ledger, NEW t \in SignTimes,
             Receive(n, l, t)
      PROVE  TrustInv'
  BY <1>1, <1>3, Zenon DEF Receive, store
<1>4. ASSUME NEW n \in NodeID, AddStale(n)
      PROVE  TrustInv'
  BY <1>1, <1>4, Zenon DEF AddStale, store
<1>5. ASSUME NEW n \in NodeID, Admits(n)
      PROVE  TrustInv'
  <2>1. UNCHANGED trust
    BY <1>0, <1>5, AdmitsStore, Zenon DEF TryAdd
  <2> QED
    BY <1>0, <1>5, <2>1, AppliedKept, AdmitsRecords, AdmitsFollows, Zenon DEF TrustInv
<1>6. ASSUME NEW new \in TrustSets, UpdateTrusted(new)
      PROVE  TrustInv'
  <2>1. /\ changes.added = {} /\ changes.removed = {} /\ trusted' = new
        /\ changes'.added = new \ trusted /\ changes'.removed = trusted \ new
    BY <1>6, Zenon DEF UpdateTrusted
  <2>2. applied' = applied /\ ChangesOK'
    BY <2>1 DEF applied, ChangesOK
  <2> QED
    BY <1>6, <2>2, TrustUnchanged, ZenonT(30) DEF UpdateTrusted, store
<1>7. CASE TrustChanged
  <2>1. ChangesOK'
    BY <1>7, ZenonT(30) DEF TrustChanged, ChangesOK
  <2> QED
    BY <1>0, <1>7, <2>1, ChangedRecords, RetrustFollows, ZenonT(30)
       DEF TrustInv
<1>8. CASE Current \/ WithTrie
  <2>1. Sweep
    BY <1>8, Zenon DEF Current, WithTrie
  <2>2. /\ UNCHANGED <<byLedger_, detached, trust>>
        /\ \A n \in NodeID : current_'[n] \in {NoValidation, current_[n]}
    BY <2>1, Zenon DEF Sweep
  <2> QED
    BY <1>0, <1>8, <2>2, AppliedKept, RecordsKept, SweepFollows, Zenon DEF TrustInv
<1>9. ASSUME NEW l \in Ledger, ByLedger(l)
      PROVE  TrustInv'
  BY <1>1, <1>9, Zenon DEF ByLedger, store
<1>10. ASSUME NEW l \in Remote, LedgerAvailability(l)
       PROVE  TrustInv'
  BY <1>1, <1>10, Zenon DEF LedgerAvailability, store
<1>11. ASSUME NEW s \in LocalSeqs, CanValidateSeq(s)
       PROVE  TrustInv'
  BY <1>1, <1>11 DEF CanValidateSeq, store
<1>12. CASE Expire
  <2>1. /\ UNCHANGED <<current_, support, detached, trust>>
        /\ \A n \in NodeID, l \in Ledger :
             byLedger_'[l][n] \in {NoValidation, byLedger_[l][n]}
    BY <1>0, <1>12 DEF Expire, TypeOK
  <2>2. AcquiringFollowsCurrent'
    BY <1>0, <2>1, FollowsNow, FollowsAfter, SupportSet, ZenonT(30)
  <2> QED
    BY <1>0, <2>1, <2>2, AppliedKept, RecordsKept, ZenonT(30) DEF TrustInv
<1>13. CASE Flush
  <2>1. UNCHANGED trust /\ detached' = NodeID
    BY <1>13, ZenonT(30) DEF Flush
  <2>2. TrustIsApplied' /\ AcquiringFollowsCurrent'
    BY <2>1, Zenon DEF TrustIsApplied, AcquiringFollowsCurrent
  <2> QED
    BY <1>0, <2>1, <2>2, AppliedKept, Zenon DEF TrustInv
<1>14. CASE Tick
  BY <1>1, <1>14, Zenon DEF Tick, store
<1>15. ASSUME NEW offset \in 0 .. MaxSkew, AdjustCloseTime(offset)
       PROVE  TrustInv'
  BY <1>1, <1>15, Zenon DEF AdjustCloseTime, store
<1> QED
  BY <1>2, <1>3, <1>4, <1>5, <1>6, <1>7, <1>8, <1>9, <1>10, <1>11, <1>12, <1>13,
     <1>14, <1>15, Zenon DEF Next, Admits

LEMMA TrustAlways == Spec => [](TypeInv /\ TrustInv)
<1>1. Init => TypeInv /\ TrustInv
  BY InitTypeInv, InitTrust
<1>2. TypeInv /\ TrustInv /\ [Next]_vars => (TypeInv /\ TrustInv)'
  BY NextTypeInv, NextTrust
<1> QED
  BY <1>1, <1>2, PTL DEF Spec

\* The trust flags in current_ and byLedger_, which decide what counts towards
\* the quorum, are those trustChanged was last called with, for every node no
\* validation of which was added with outdated trust.
THEOREM TrustFlagsRight == Spec => []TrustIsApplied
<1>1. TypeInv /\ TrustInv => TrustIsApplied
  BY DEF TrustInv
<1> QED
  BY <1>1, TrustAlways, PTL

\* acquiring_ has a node only for the ledger of its current trusted validation,
\* and a current trusted validation is in lastLedger_ or waiting there.
THEOREM AcquiringExact == Spec => []AcquiringFollowsCurrent
<1>1. TypeInv /\ TrustInv => AcquiringFollowsCurrent
  BY DEF TrustInv
<1> QED
  BY <1>1, TrustAlways, PTL
===============================================================================
