------------------------------ MODULE TrieProofs ------------------------------
(***************************************************************************)
(* The trie of validated ledgers (LedgerTrie) is exact and implements a    *)
(* bag of ledgers: remove, with the loop that erases and merges nodes, and *)
(* the support by sequence number, then the two theorems.                  *)
(*                                                                         *)
(* The inductive invariant TrieInv says that the trie is Exact and Compact *)
(* (TrieShape), that seqSupport is the support by sequence number and that *)
(* the total is within its bound.                                          *)
(***************************************************************************)
EXTENDS TrieShape

-------------------------------------------------------------------------------
(* remove. *)

\* A leaf without support can be erased.
LEMMA Erase ==
  ASSUME NEW t, WellFormed(t), NEW loc \in DOMAIN t, loc # Genesis,
         t[loc].tipSupport = 0, children(t, loc) = {}
  PROVE  LET u == Restrict(t, DOMAIN t \ {loc})
         IN  /\ WellFormed(u) /\ \A x : heldIn(u, x) = heldIn(t, x)
             /\ t[loc].parent \in DOMAIN u
<1> DEFINE u == Restrict(t, DOMAIN t \ {loc})
<1>1. DOMAIN u = DOMAIN t \ {loc} /\ \A n \in DOMAIN u : u[n] = t[n]
  BY DEF Restrict
<1>2. u \in [DOMAIN u -> Node]
  BY DEF Restrict, WellFormed
<1> HIDE DEF u
<1>3. \A n \in DOMAIN t : t[n].parent # loc
  BY Zenon DEF children
<1> USE <1>1
<1>4. \A n \in DOMAIN u : end(u, n) = end(t, n)
  BY Zenon DEF end
<1>5. \A n, m \in DOMAIN u : Inside(u, n, m) => Inside(t, n, m)
  BY Zenon DEF Inside
<1> USE <1>3
<1>6. WellFormed(u)
  BY <1>2, <1>4, <1>5, Zenon DEF WellFormed
<1>7. SameTips(t, u) /\ SameTips(u, t)
  BY DEF SameTips
<1>8. t[loc].parent \in DOMAIN u
  BY DEF WellFormed
<1> QED
  BY <1>6, <1>7, <1>8, HeldSame, Zenon DEF u

IsMerged(t, loc, child, u) ==
  /\ DOMAIN u = DOMAIN t \ {child} /\ u \in [DOMAIN u -> Node]
  /\ u[loc].tip = t[child].tip /\ u[loc].tipSupport = t[child].tipSupport
  /\ u[loc].parent = t[loc].parent
  /\ u[loc].branchSupport = t[child].branchSupport
  /\ \A n \in DOMAIN t \ {child, loc} :
       /\ u[n].tip = t[n].tip /\ u[n].tipSupport = t[n].tipSupport
       /\ u[n].parent = IF t[n].parent = child THEN loc ELSE t[n].parent
       /\ u[n].branchSupport = t[n].branchSupport

\* What merge computes, field by field.
LEMMA MergeFields ==
  ASSUME NEW t, WellFormed(t), NEW loc \in DOMAIN t, NEW child \in DOMAIN t,
         child # loc
  PROVE  IsMerged(t, loc, child, merge(t, loc, child))
<1> DEFINE u == merge(t, loc, child)
           new(n) ==
             CASE n = loc -> [t[child] EXCEPT !.parent = t[loc].parent]
               [] n # loc /\ t[n].parent = child -> [t[n] EXCEPT !.parent = loc]
               [] OTHER -> t[n]
<1>1. u = [n \in DOMAIN t \ {child} |-> new(n)]
  BY Zenon DEF merge
<1>2. loc \in Ledger /\ \A n \in DOMAIN t : t[n] \in Node
  BY DEF WellFormed
<1> HIDE DEF u
<1> USE <1>1
<1>3. DOMAIN u = DOMAIN t \ {child}
  OBVIOUS
<1>4. u[loc] = [t[child] EXCEPT !.parent = t[loc].parent]
  OBVIOUS
<1>5. ASSUME NEW n \in DOMAIN t \ {child, loc}
      PROVE  u[n] = IF t[n].parent = child THEN [t[n] EXCEPT !.parent = loc]
                                           ELSE t[n]
  BY Zenon
<1>6. /\ u[loc].tip = t[child].tip /\ u[loc].tipSupport = t[child].tipSupport
      /\ u[loc].parent = t[loc].parent /\ u[loc] \in Node
      /\ u[loc].branchSupport = t[child].branchSupport
  BY <1>2, <1>4, Zenon DEF Node
<1>7. ASSUME NEW n \in DOMAIN t \ {child, loc}
      PROVE  /\ u[n].tip = t[n].tip /\ u[n].tipSupport = t[n].tipSupport
             /\ u[n].parent = IF t[n].parent = child THEN loc ELSE t[n].parent
             /\ u[n].branchSupport = t[n].branchSupport /\ u[n] \in Node
  BY <1>2, <1>5, ZenonT(30) DEF Node
<1> USE <1>3, <1>6, <1>7
<1>8. u \in [DOMAIN u -> Node]
  <2>1. \A n \in DOMAIN u : u[n] \in Node
    BY Zenon
  <2> QED
    BY <2>1
<1> QED
  BY <1>8, Zenon DEF IsMerged, u

\* A node without support can be merged with its only child.
LEMMA Merge ==
  ASSUME NEW t, WellFormed(t), NEW loc \in DOMAIN t, loc # Genesis,
         t[loc].tipSupport = 0, NEW child, children(t, loc) = {child}
  PROVE  LET u == merge(t, loc, child)
         IN  /\ WellFormed(u) /\ \A x : heldIn(u, x) = heldIn(t, x)
             /\ t[loc].parent \in DOMAIN u
<1> DEFINE u   == merge(t, loc, child)
           tip == t[loc].tip
           far == t[child].tip
           top == t[loc].parent
<1>1. /\ child \in DOMAIN t /\ child # Genesis /\ t[child].parent = loc
      /\ seq[child] = end(t, loc) /\ IsAncestor(tip, child)
  BY ChildFacts
<1>2. /\ loc \in Ledger /\ tip \in Ledger /\ IsAncestor(loc, tip)
      /\ seq[loc] \in Nat /\ seq[tip] \in Nat /\ end(t, loc) = seq[tip] + 1
      /\ seq[loc] < end(t, loc)
  BY NodeFacts
<1>3. child \in Ledger /\ far \in Ledger /\ IsAncestor(child, far)
  BY <1>1, NodeFacts, Zenon
<1>4. top \in DOMAIN t /\ seq[loc] = end(t, top) /\ IsAncestor(t[top].tip, loc)
  BY Zenon DEF WellFormed
<1>5. seq[top] \in Nat /\ seq[top] < end(t, top)
  BY <1>4, NodeFacts, Zenon
<1>6. child # loc /\ top # child /\ top # loc
  BY <1>1, <1>2, <1>4, <1>5
<1>7. IsMerged(t, loc, child, u)
  BY <1>1, <1>6, MergeFields, Zenon
<1>8. \A n \in DOMAIN t : t[n].parent = loc => n = child
  BY DEF children
<1>9. IsAncestor(loc, child) /\ IsAncestor(loc, far) /\ IsAncestor(tip, far)
  BY <1>1, <1>2, <1>3, AncestorTrans, Zenon
<1>10. tip = t[loc].tip /\ far = t[child].tip /\ top = t[loc].parent
  OBVIOUS
<1> HIDE DEF u, tip, far, top
<1>11. /\ DOMAIN u = DOMAIN t \ {child} /\ u \in [DOMAIN u -> Node]
       /\ u[loc].tip = far /\ u[loc].tipSupport = t[child].tipSupport
       /\ u[loc].parent = top
       /\ \A n \in DOMAIN t \ {child, loc} :
            /\ u[n].tip = t[n].tip /\ u[n].tipSupport = t[n].tipSupport
            /\ u[n].parent = IF t[n].parent = child THEN loc ELSE t[n].parent
  BY <1>7, <1>10, ZenonT(30) DEF IsMerged
<1> USE <1>11
<1>12. DOMAIN u \in SUBSET Ledger /\ Genesis \in DOMAIN u
  BY <1>1, Zenon DEF WellFormed
<1>13. \A n \in DOMAIN u : IsAncestor(n, u[n].tip)
  BY <1>9, Zenon DEF WellFormed
<1>14. u[Genesis].parent = NoNode
  <2>1. t[Genesis].parent = NoNode /\ Genesis \in DOMAIN t \ {child, loc}
    BY <1>1, Zenon DEF WellFormed
  <2>2. NoNode # child
    BY <1>3, HistoryAssumption DEF NoNode
  <2> QED
    BY <2>1, <2>2, Zenon
<1>15. ASSUME NEW n \in DOMAIN u \ {Genesis}
       PROVE  /\ u[n].parent \in DOMAIN u
              /\ seq[n] = end(u, u[n].parent)
              /\ IsAncestor(u[u[n].parent].tip, n)
  <2>1. n \in DOMAIN t \ {child}
    OBVIOUS
  <2>2. /\ t[n].parent \in DOMAIN t /\ seq[n] = end(t, t[n].parent)
        /\ IsAncestor(t[t[n].parent].tip, n)
    BY <1>15, <2>1, Zenon DEF WellFormed
  <2>3. \A p \in DOMAIN t \ {child, loc} : end(u, p) = end(t, p)
    BY Zenon DEF end
  <2>4. CASE n = loc
    <3> USE <1>4
    <3>1. top \in DOMAIN t \ {child, loc}
      BY <1>6, Zenon
    <3> USE <2>4, <3>1
    <3>2. u[n].parent = top /\ end(u, top) = end(t, top) /\ u[top].tip = t[top].tip
      BY <2>3, Zenon
    <3> QED
      BY <3>2, Zenon
  <2>5. CASE n # loc /\ t[n].parent = child
    <3> USE <1>10, <2>5
    <3>1. u[n].parent = loc /\ end(u, loc) = end(t, child)
      BY <2>1, Zenon DEF end
    <3> QED
      BY <2>2, <3>1, <1>6, ZenonT(30)
  <2>6. CASE n # loc /\ t[n].parent # child
    <3> DEFINE p == t[n].parent
    <3> USE <2>1, <2>2, <2>6
    <3>1. p \in DOMAIN t \ {child, loc}
      BY <1>8, Zenon
    <3>2. u[n].parent = p
      BY Zenon
    <3>3. u[p].tip = t[p].tip /\ end(u, p) = end(t, p) /\ p \in DOMAIN u
      BY <3>1, <2>3, Zenon
    <3> QED
      BY <3>2, <3>3, ZenonT(30)
  <2> QED
    BY <2>4, <2>5, <2>6, Zenon
<1>16. ASSUME NEW n \in DOMAIN u, NEW m \in DOMAIN u, Inside(u, n, m)
       PROVE  m = n
  <2>1. IsAncestor(n, m) /\ IsAncestor(m, u[n].tip)
    BY <1>16, Zenon DEF Inside
  <2>2. /\ n \in DOMAIN t /\ m \in DOMAIN t /\ m # child /\ n # child
        /\ m \in Ledger /\ seq[m] \in Nat
    BY NodeFacts, Zenon
  <2> USE <2>1, <2>2
  <2>3. CASE n = loc /\ seq[m] <= seq[tip]
    <3> USE <2>3
    <3>1. IsAncestor(m, tip)
      BY <1>2, <1>3, <1>9, AncestorLinear, Zenon
    <3> QED
      BY <3>1, <1>10, ZenonT(30) DEF WellFormed, Inside
  <2>4. CASE n = loc /\ ~(seq[m] <= seq[tip])
    <3> USE <1>1, <2>4
    <3>1. seq[child] <= seq[m]
      BY <1>2
    <3>2. IsAncestor(child, m) /\ IsAncestor(m, far)
      BY <3>1, <1>3, AncestorLinear, Zenon
    <3> QED
      BY <3>2, <1>10, ZenonT(30) DEF WellFormed, Inside
  <2>5. CASE n # loc
    <3>1. u[n].tip = t[n].tip
      BY <2>5
    <3> QED
      BY <3>1, Zenon DEF WellFormed, Inside
  <2> QED
    BY <2>3, <2>4, <2>5, Zenon
<1>17. WellFormed(u)
  BY <1>12, <1>13, <1>14, <1>15, <1>16, Zenon DEF WellFormed
<1>18. SameTips(t, u)
  <2> SUFFICES ASSUME NEW n \in DOMAIN t, t[n].tipSupport # 0
               PROVE  \E m \in DOMAIN u : /\ u[m].tip = t[n].tip
                                          /\ u[m].tipSupport = t[n].tipSupport
    BY DEF SameTips
  <2>1. CASE n = child
    <3>1. loc \in DOMAIN u
      BY <1>6
    <3> QED
      BY <2>1, <3>1, <1>10, Zenon
  <2>2. CASE n # child
    <3>1. n \in DOMAIN u /\ n \in DOMAIN t \ {child, loc}
      BY <2>2
    <3> QED
      BY <3>1, Zenon
  <2> QED
    BY <2>1, <2>2, Zenon
<1>19. SameTips(u, t)
  <2> SUFFICES ASSUME NEW n \in DOMAIN u
               PROVE  \E m \in DOMAIN t : /\ t[m].tip = u[n].tip
                                          /\ t[m].tipSupport = u[n].tipSupport
    BY DEF SameTips
  <2>1. CASE n = loc
    BY <2>1, <1>1, <1>10, Zenon
  <2>2. CASE n # loc
    <3>1. n \in DOMAIN t \ {child, loc} /\ n \in DOMAIN t
      BY <2>2, Zenon
    <3> QED
      BY <3>1, Zenon
  <2> QED
    BY <2>1, <2>2, Zenon
<1> USE <1>17
<1>20. \A x : heldIn(u, x) = heldIn(t, x)
  BY <1>18, <1>19, HeldSame, ZenonT(30)
<1>21. top \in DOMAIN u
  BY <1>4, <1>6
<1> QED
  BY <1>20, <1>21, Zenon DEF u, top

\* Both keep the branch supports exact; a leaf that goes may leave its parent
\* in need of compression, a merged node takes over its child's children.
LEMMA EraseExact ==
  ASSUME NEW t, Exact(t), NEW loc \in DOMAIN t, loc # Genesis,
         t[loc].tipSupport = 0, children(t, loc) = {}, CompactBut(t, loc)
  PROVE  LET u == Restrict(t, DOMAIN t \ {loc})
         IN  Exact(u) /\ CompactBut(u, t[loc].parent)
<1> DEFINE u == Restrict(t, DOMAIN t \ {loc})
<1>0. WellFormed(t) /\ t[Genesis].tip = Genesis /\ Genesis \in DOMAIN t
  BY Zenon DEF Exact, WellFormed
<1>1. DOMAIN u = DOMAIN t \ {loc} /\ \A n \in DOMAIN u : u[n] = t[n]
  BY DEF Restrict
<1>2. WellFormed(u) /\ \A x : heldIn(u, x) = heldIn(t, x)
  BY <1>0, Erase, Zenon
<1> HIDE DEF u
<1>3. \A x : under(u, x) = under(t, x)
  BY <1>2, UnderSame, Zenon
<1> USE <1>1
<1>4. Exact(u)
  BY <1>0, <1>2, <1>3, Zenon DEF Exact
<1>5. ASSUME NEW n \in DOMAIN u, n # Genesis, n # t[loc].parent,
             u[n].tipSupport = 0
      PROVE  TwoKids(u, n)
  <2> USE <1>5, Zenon
  <2>1. n \in DOMAIN t /\ n # loc /\ t[n].tipSupport = 0
    OBVIOUS
  <2>2. TwoKids(t, n)
    BY <2>1 DEF CompactBut
  <2>3. \A c \in children(t, n) : c \in children(u, n)
    BY DEF children
  <2> QED
    BY <2>2, <2>3 DEF TwoKids
<1> QED
  BY <1>4, <1>5, Zenon DEF CompactBut, u

\* Merging a node without support into its only child keeps the trie exact,
\* and its parent is the only node that may have become superfluous.
LEMMA MergeExact ==
  ASSUME NEW t, Exact(t), NEW loc \in DOMAIN t, loc # Genesis,
         t[loc].tipSupport = 0, NEW child, children(t, loc) = {child},
         CompactBut(t, loc)
  PROVE  LET u == merge(t, loc, child)
         IN  Exact(u) /\ CompactBut(u, t[loc].parent)
<1> DEFINE u == merge(t, loc, child)
<1>0. WellFormed(t) /\ t[Genesis].tip = Genesis /\ Genesis \in DOMAIN t
  BY Zenon DEF Exact, WellFormed
<1>1. /\ child \in DOMAIN t /\ child # Genesis /\ t[child].parent = loc
      /\ IsAncestor(t[loc].tip, child) /\ child # loc
  <2>1. child \in children(t, loc)
    OBVIOUS
  <2>2. seq[child] = end(t, loc) /\ seq[loc] < end(t, loc) /\ seq[loc] \in Nat
    BY <2>1, <1>0, ChildFacts, NodeFacts, Zenon
  <2>3. child # loc
    BY <2>2
  <2> QED
    BY <2>1, <2>3, <1>0, ChildFacts, Zenon
<1>2. IsMerged(t, loc, child, u)
  BY <1>0, <1>1, MergeFields, Zenon
<1>3. WellFormed(u) /\ \A x : heldIn(u, x) = heldIn(t, x)
  BY <1>0, Merge, Zenon
<1> HIDE DEF u
<1>4. \A x : under(u, x) = under(t, x)
  BY <1>3, UnderSame, Zenon
<1>5. loc \in DOMAIN u /\ DOMAIN u = DOMAIN t \ {child}
  BY <1>1, <1>2, Zenon DEF IsMerged
<1>6. under(u, child) = under(u, loc)
  <2>1. /\ loc \in Ledger /\ child \in Ledger /\ t[loc].tip \in Ledger
        /\ IsAncestor(loc, t[loc].tip) /\ IsAncestor(child, t[child].tip)
    BY <1>0, <1>1, NodeFacts, ZenonT(30)
  <2>2. IsAncestor(loc, child)
    BY <2>1, <1>1, AncestorTrans, ZenonT(30)
  <2>3. IsAncestor(child, u[loc].tip)
    BY <2>1, <1>2, ZenonT(30) DEF IsMerged
  <2> QED
    BY <2>1, <2>2, <2>3, <1>3, <1>5, SpanTotal, ZenonT(30)
<1>7. ASSUME NEW n \in DOMAIN u PROVE u[n].branchSupport = under(u, n)
  <2>1. CASE n = loc
    BY <2>1, <1>1, <1>2, <1>4, <1>6, ZenonT(30) DEF IsMerged, Exact
  <2>2. CASE n # loc
    BY <2>2, <1>2, <1>4, <1>5, Zenon DEF IsMerged, Exact
  <2> QED
    BY <2>1, <2>2, Zenon
<1>8. Exact(u)
  BY <1>0, <1>1, <1>2, <1>3, <1>7, ZenonT(30) DEF Exact, IsMerged
<1>9. ASSUME NEW n \in DOMAIN u, n # Genesis, u[n].tipSupport = 0
      PROVE  TwoKids(u, n)
  <2>1. CASE n = loc
    <3>1. t[child].tipSupport = 0
      BY <2>1, <1>2, <1>9, ZenonT(30) DEF IsMerged
    <3>2. TwoKids(t, child)
      BY <3>1, <1>1, Zenon DEF CompactBut
    <3>3. ASSUME NEW c \in children(t, child) PROVE c \in children(u, n)
      <4>1. c \in DOMAIN t /\ t[c].parent = child /\ seq[c] = end(t, child)
            /\ seq[child] < end(t, child) /\ seq[child] \in Nat
            /\ end(t, child) \in Nat
        <5>1. c \in DOMAIN t /\ t[c].parent = child /\ seq[c] = end(t, child)
          BY <1>0, <1>1, ChildFacts
        <5>2. /\ seq[child] < end(t, child) /\ seq[child] \in Nat
              /\ end(t, child) \in Nat
          BY <1>0, <1>1, NodeFacts, ZenonT(30)
        <5> QED
          BY <5>1, <5>2, Zenon
      <4>2. c # child
        BY <4>1
      <4>3. c # loc
        <5>1. seq[child] = end(t, loc) /\ seq[loc] < end(t, loc)
              /\ seq[loc] \in Nat /\ end(t, loc) \in Nat
          BY <1>0, <1>1, ChildFacts, NodeFacts, ZenonT(30)
        <5> QED
          BY <5>1, <4>1
      <4> QED
        BY <2>1, <4>1, <4>2, <4>3, <1>2, ZenonT(30) DEF IsMerged, children
    <3> QED
      BY <3>2, <3>3, Zenon DEF TwoKids
  <2>2. CASE n # loc
    <3>1. n \in DOMAIN t \ {child, loc} /\ t[n].tipSupport = 0
      BY <2>2, <1>2, <1>5, <1>9, ZenonT(30) DEF IsMerged
    <3>2. TwoKids(t, n)
      BY <3>1, <1>9, Zenon DEF CompactBut
    <3>3. ASSUME NEW c \in children(t, n) PROVE c \in children(u, n)
      <4>1. c \in DOMAIN t /\ t[c].parent = n
        BY Zenon DEF children
      <4>2. c # child
        BY <4>1, <3>1, <1>1, Zenon
      <4>3. c \in DOMAIN u /\ u[c].parent = n
        BY <4>1, <4>2, <3>1, <1>2, ZenonT(30) DEF IsMerged
      <4> QED
        BY <4>3, Zenon DEF children
    <3> QED
      BY <3>2, <3>3, ZenonT(30) DEF TwoKids
  <2> QED
    BY <2>1, <2>2, Zenon
<1> QED
  BY <1>8, <1>9, Zenon DEF CompactBut, u

\* The states of the loop that ends remove: a trie that holds what t holds,
\* with only the node loc in need of compression.
States(t) ==
  {s \in [t : UNION {[D -> Node] : D \in SUBSET Ledger}, loc : Ledger] :
     /\ Exact(s.t) /\ s.loc \in DOMAIN s.t /\ CompactBut(s.t, s.loc)
     /\ \A x : heldIn(s.t, x) = heldIn(t, x)}

\* What the loop that ends remove may assume of its state.
LEMMA InStates ==
  ASSUME NEW t, NEW u, Exact(u), NEW loc \in DOMAIN u, CompactBut(u, loc),
         \A x : heldIn(u, x) = heldIn(t, x)
  PROVE  [t |-> u, loc |-> loc] \in States(t)
<1>1. DOMAIN u \in SUBSET Ledger /\ u \in [DOMAIN u -> Node] /\ loc \in Ledger
  BY Zenon DEF Exact, WellFormed
<1> USE <1>1
<1>2. u \in UNION {[D -> Node] : D \in SUBSET Ledger}
  BY Zenon
<1> DEFINE T == UNION {[D -> Node] : D \in SUBSET Ledger}
           s == [t |-> u, loc |-> loc]
<1>3. u \in T
  BY <1>2, Zenon
<1> HIDE DEF T
<1>4. s \in [t : T, loc : Ledger] /\ s.t = u /\ s.loc = loc
  BY <1>3, Zenon
<1> HIDE DEF s
<1> QED
  BY <1>4, Zenon DEF States, T, s

\* A turn of the loop keeps this, and either nothing is left to compress or
\* the next node is nearer to the root.
LEMMA CompressOnce ==
  ASSUME NEW t, NEW s \in States(t)
  PROVE  /\ compressOnce(s) \in States(t)
         /\ \/ compressOnce(s) = s /\ Compact(s.t)
            \/ ~Compact(s.t) /\ seq[compressOnce(s).loc] < seq[s.loc]
<1> DEFINE u    == s.t
           loc  == s.loc
           kids == children(u, loc)
           child == CHOOSE c \in kids : TRUE
           v    == IF kids = {} THEN Restrict(u, DOMAIN u \ {loc})
                                ELSE merge(u, loc, child)
<1>1. /\ Exact(u) /\ WellFormed(u) /\ loc \in DOMAIN u /\ CompactBut(u, loc)
      /\ \A x : heldIn(u, x) = heldIn(t, x)
  BY Zenon DEF States, Exact
<1>2. compressOnce(s) =
        IF u[loc].tipSupport # 0 \/ loc = Genesis \/ Cardinality(kids) > 1
        THEN s ELSE [t |-> v, loc |-> u[loc].parent]
  BY Zenon DEF compressOnce
<1>0. TwoKids(u, loc) <=> Cardinality(kids) > 1
  BY <1>1, TwoOrMore, Zenon
<1>3. CASE u[loc].tipSupport # 0 \/ loc = Genesis \/ Cardinality(kids) > 1
  <2> USE <1>3, Zenon
  <2>1. Compact(u)
    BY <1>0, <1>1 DEF Compact, CompactBut
  <2> QED
    BY <2>1, <1>2, ZenonT(30)
<1>4. CASE ~(u[loc].tipSupport # 0 \/ loc = Genesis \/ Cardinality(kids) > 1)
  <2>1. compressOnce(s) = [t |-> v, loc |-> u[loc].parent]
    BY <1>2, <1>4, Zenon
  <2>2. u[loc].tipSupport = 0 /\ loc # Genesis /\ ~(Cardinality(kids) > 1)
    BY <1>4, Zenon
  <2>3. /\ Exact(v) /\ CompactBut(v, u[loc].parent)
        /\ \A x : heldIn(v, x) = heldIn(u, x)
        /\ u[loc].parent \in DOMAIN v
    <3>1. CASE kids = {}
      <4> USE <3>1, Zenon
      <4>1. v = Restrict(u, DOMAIN u \ {loc})
        OBVIOUS
      <4> DEFINE w == Restrict(u, DOMAIN u \ {loc})
      <4> USE <1>1, <2>2
      <4>2. (\A x : heldIn(w, x) = heldIn(u, x)) /\ u[loc].parent \in DOMAIN w
        BY Erase
      <4>3. Exact(w) /\ CompactBut(w, u[loc].parent)
        BY EraseExact
      <4> HIDE DEF v, w
      <4> QED
        BY <4>1, <4>2, <4>3, ZenonT(30) DEF w
    <3>2. CASE kids # {}
      <4>1. IsFiniteSet(kids)
        BY <1>1, TwoOrMore, Zenon
      <4>2. Cardinality(kids) = 1
        <5> HIDE DEF kids
        <5> QED
          BY <4>1, <2>2, <3>2, FS_CardinalityType, FS_EmptySet, SMTT(30)
      <4>3. kids = {child}
        <5> USE Zenon
        <5>1. PICK c : kids = {c}
          BY <4>1, <4>2, FS_Singleton
        <5>2. child \in kids
          BY <3>2
        <5> HIDE DEF kids, child
        <5> QED
          BY <5>1, <5>2
      <4>4. v = merge(u, loc, child)
        BY <3>2, ZenonT(30)
      <4> HIDE DEF child
      <4> DEFINE w == merge(u, loc, child)
      <4> USE <4>3
      <4>5. (\A x : heldIn(w, x) = heldIn(u, x)) /\ u[loc].parent \in DOMAIN w
        BY <2>2, <1>1, Merge, ZenonT(30)
      <4>6. Exact(w) /\ CompactBut(w, u[loc].parent)
        BY <2>2, <1>1, MergeExact, ZenonT(30)
      <4> HIDE DEF v, w
      <4> QED
        BY <4>4, <4>5, <4>6, ZenonT(30) DEF w
    <3> QED
      BY <3>1, <3>2, Zenon
  <2> HIDE DEF v
  <2>4. \A x : heldIn(v, x) = heldIn(t, x)
    BY <2>3, <1>1, Zenon
  <2>5. [t |-> v, loc |-> u[loc].parent] \in States(t)
    BY <2>3, <2>4, InStates, ZenonT(30)
  <2>6. ~Compact(u)
    BY <2>2, <1>0, <1>1, ZenonT(30) DEF Compact, CompactBut
  <2>7. seq[u[loc].parent] < seq[loc]
    <3> DEFINE p == u[loc].parent
    <3> USE <1>1, Zenon
    <3>1. p \in DOMAIN u /\ seq[loc] = end(u, p)
      BY <2>2 DEF WellFormed
    <3> HIDE DEF p
    <3> USE <3>1
    <3>2. seq[p] < end(u, p)
      BY NodeFacts, ZenonT(30)
    <3> QED
      BY <3>2, ZenonT(30) DEF p
  <2> USE <2>1
  <2>8. compressOnce(s).loc = u[loc].parent
    OBVIOUS
  <2> QED
    BY <2>5, <2>6, <2>7, <2>8, ZenonT(30)
<1> QED
  BY <1>3, <1>4, ZenonT(30)

\* The loop keeps the support held, and seq[loc] turns of it leave nothing to
\* compress.
LEMMA Compress ==
  ASSUME NEW t, Exact(t), NEW loc \in DOMAIN t, CompactBut(t, loc)
  PROVE  /\ Exact(compress(t, loc)) /\ Compact(compress(t, loc))
         /\ \A x : heldIn(compress(t, loc), x) = heldIn(t, x)
<1> DEFINE S    == States(t)
           K    == seq[loc]
           s0   == [t |-> t, loc |-> loc]
           step == [s \in S |-> compressOnce(s)]
           direct(f) == [k \in 0 .. K |-> IF k = 0 THEN s0
                                          ELSE compressOnce(f[k - 1])]
           turn == CHOOSE f : f = direct(f)
<1>1. compress(t, loc) = turn[K].t
  BY Zenon DEF compress
<1>2. K \in Nat
  BY NodeFacts DEF Exact
<1>3. s0 \in S /\ s0.loc = loc
  BY InStates, Zenon
<1>4. step \in [S -> S]
  BY CompressOnce
<1>0. ASSUME NEW s \in S
      PROVE  /\ compressOnce(s) \in S
             /\ \/ compressOnce(s) = s /\ Compact(s.t)
                \/ ~Compact(s.t) /\ seq[compressOnce(s).loc] < seq[s.loc]
             /\ s.loc \in Ledger /\ seq[s.loc] \in Nat
             /\ Exact(s.t) /\ CompactBut(s.t, s.loc)
             /\ \A x : heldIn(s.t, x) = heldIn(t, x)
  <2> USE Zenon
  <2>1. s.loc \in Ledger
    BY DEF States, Exact, WellFormed
  <2> USE <2>1
  <2>2. seq[s.loc] \in Nat
    BY Seqs
  <2> QED
    BY <2>2, CompressOnce DEF States
<1> HIDE DEF S, K, s0
<1>5. PICK g : g \in [0 .. K -> S] /\ AreTurns(s0, step, K, g)
  <2> HIDE DEF step
  <2> QED
    BY <1>2, <1>3, <1>4, TurnsExist, Zenon
<1>6. g = direct(g)
  <2>1. \A k \in 0 .. K : k # 0 => k - 1 \in 0 .. K
    BY <1>2
  <2> USE <1>5
  <2>2. \A k \in 0 .. K : k # 0 => step[g[k - 1]] = compressOnce(g[k - 1])
    BY <2>1, Zenon
  <2> HIDE DEF step
  <2> QED
    BY <2>2, ZenonT(30) DEF AreTurns
<1>7. turn = direct(turn)
  BY <1>6, Zenon
<1> HIDE DEF turn
<1> DEFINE done(s, k) == s \in S /\ (Compact(s.t) \/ seq[s.loc] + k <= K)
           Out == {k \in 0 .. K : ~done(turn[k], k)}
<1>8. Out = {}
  <2> SUFFICES ASSUME Out # {} PROVE FALSE
    OBVIOUS
  <2>1. Out \in SUBSET Nat
    OBVIOUS
  <2>2. PICK k \in Out : \A j \in Out : k <= j
    <3> HIDE DEF Out
    <3> QED
      BY <2>1, LeastNatural, Zenon
  <2>3. k \in 0 .. K /\ ~done(turn[k], k)
    BY <2>2, ZenonT(30)
  <2> USE <2>3
  <2>4. k # 0
    <3> USE <1>3
    <3>1. ASSUME k = 0 PROVE FALSE
      <4> USE <3>1
      <4>1. turn[k] = s0
        BY <1>7, Zenon
      <4>2. seq[s0.loc] + k <= K
        BY <1>2 DEF K
      <4> QED
        BY <4>1, <4>2, Zenon
    <3> QED
      BY <3>1, Zenon
  <2>5. k - 1 \in 0 .. K /\ ~(k <= k - 1)
    BY <2>4, <1>2
  <2>6. done(turn[k - 1], k - 1)
    BY <2>2, <2>5, Zenon
  <2> DEFINE s == turn[k - 1]
             r == compressOnce(s)
  <2>7. turn[k] = r
    BY <2>4, <1>7, Zenon
  <2>8. s \in S /\ r \in S
    BY <2>6, <1>0, ZenonT(30)
  <2> USE <2>8
  <2>9. CASE r = s /\ Compact(s.t)
    <3> HIDE DEF s, r
    <3> QED
      BY <2>7, <2>9, Zenon
  <2>10. CASE ~Compact(s.t) /\ seq[r.loc] < seq[s.loc]
    <3> USE <2>10
    <3>1. seq[s.loc] + (k - 1) <= K
      BY <2>6, Zenon
    <3>2. seq[s.loc] \in Nat /\ seq[r.loc] \in Nat
      BY <1>0, ZenonT(30)
    <3> HIDE DEF s, r
    <3>3. seq[r.loc] + k <= K
      BY <3>1, <3>2, <1>2
    <3> QED
      BY <3>3, <2>7, ZenonT(30)
  <2> QED
    BY <2>9, <2>10, <1>0, Zenon
<1> DEFINE s == turn[K]
<1>9. done(s, K)
  <2>1. K \in 0 .. K
    BY <1>2
  <2> QED
    BY <2>1, <1>8, ZenonT(30)
<1> HIDE DEF s
<1> USE <1>9
<1>10. Compact(s.t)
  <2>1. CASE seq[s.loc] + K <= K
    <3> USE <1>0
    <3>1. s.loc \in Ledger /\ seq[s.loc] = 0
      BY <2>1, <1>2
    <3> USE Zenon
    <3>2. s.loc = Genesis
      <4>1. at(s.loc, 0) = s.loc /\ at(s.loc, 0) = Genesis
        BY <3>1, Seqs, ZenonT(30)
      <4> QED
        BY <4>1
    <3> QED
      BY <3>2 DEF Compact
  <2> QED
    BY <2>1, Zenon
<1> QED
  BY <1>0, <1>1, <1>10, Zenon DEF s

\* remove takes the count from the support of l, as far as it goes.
LEMMA Remove ==
  ASSUME NEW t, Exact(t), Compact(t), NEW l \in Ledger, NEW count \in Nat
  PROVE  /\ Exact(removeIn(t, l, count)) /\ Compact(removeIn(t, l, count))
         /\ \A x : heldIn(removeIn(t, l, count), x)
                     = IF x # l THEN heldIn(t, x)
                       ELSE IF heldIn(t, l) >= count THEN heldIn(t, l) - count
                       ELSE 0
<1> DEFINE loc == find(t, l).loc
           d   == Min({count, t[loc].tipSupport})
           u   == addSupport(t, loc, -d)
           w   == removeIn(t, l, count)
<1>0. WellFormed(t)
  BY Zenon DEF Exact
<1>1. /\ tipSupportIn(t, l) = heldIn(t, l) /\ heldIn(t, l) \in Nat
      /\ heldIn(t, l) # 0 => /\ loc \in DOMAIN t /\ t[loc].tip = l
                             /\ t[loc].tipSupport = heldIn(t, l)
  BY <1>0, LookupTip, HeldAtTip, Zenon
<1>2. w = IF heldIn(t, l) > 0 THEN compress(u, loc) ELSE t
  BY <1>1, Zenon DEF removeIn, removable
<1> HIDE DEF loc, w
<1>3. CASE heldIn(t, l) = 0
  <2> USE <1>3
  <2>1. w = t
    BY <1>2
  <2> QED
    BY <2>1 DEF w
<1>4. CASE heldIn(t, l) # 0
  <2>1. /\ loc \in DOMAIN t /\ t[loc].tip = l /\ t[loc].tipSupport = heldIn(t, l)
        /\ w = compress(u, loc)
    BY <1>1, <1>2, <1>4
  <2> USE <2>1
  <2>2. d = IF count <= heldIn(t, l) THEN count ELSE heldIn(t, l)
    BY <1>1, MinOfTwo
  <2> HIDE DEF d
  <2>3. -d \in Int /\ t[loc].tipSupport + (-d) \in Nat
    BY <2>2, <1>1
  <2>4. /\ Exact(u) /\ CompactBut(u, loc) /\ DOMAIN u = DOMAIN t
        /\ \A x : heldIn(u, x) = heldIn(t, x) + (IF x = l THEN -d ELSE 0)
    <3> DEFINE m == -d
    <3>1. m \in Int /\ t[loc].tipSupport + m \in Nat /\ u = addSupport(t, loc, m)
      BY <2>3, Zenon
    <3> HIDE DEF m, u
    <3> USE <3>1
    <3>2. /\ DOMAIN u = DOMAIN t
          /\ \A x : heldIn(u, x) = heldIn(t, x)
                                    + (IF x = t[loc].tip THEN m ELSE 0)
      BY <1>0, AddSupport, SMTT(30)
    <3>3. CompactBut(t, loc)
      BY Zenon DEF Compact, CompactBut
    <3>4. Exact(u) /\ CompactBut(u, loc)
      BY <3>3, AddExact, Zenon
    <3> QED
      BY <3>2, <3>4, Zenon DEF m
  <2> HIDE DEF u
  <2>5. Exact(w) /\ Compact(w) /\ \A x : heldIn(w, x) = heldIn(u, x)
    BY <2>4, Compress, SMTT(30)
  <2> USE <2>5
  <2>6. ASSUME NEW x
        PROVE  heldIn(w, x) = IF x # l THEN heldIn(t, x)
                              ELSE IF heldIn(t, l) >= count
                              THEN heldIn(t, l) - count ELSE 0
    <3>1. heldIn(w, x) = heldIn(t, x) + (IF x = l THEN -d ELSE 0)
      BY <2>4, Zenon
    <3>2. heldIn(t, x) \in Nat
      BY <1>0, HeldAtTip, Zenon
    <3> QED
      BY <3>1, <3>2, <2>2, <1>1, SMTT(30)
  <2> QED
    BY <2>6, Zenon DEF w
<1> QED
  BY <1>3, <1>4, Zenon

-------------------------------------------------------------------------------
(* The support by sequence number. *)

AtSeq(s) == {l \in Ledger : seq[l] = s}

\* What seqSupport should be when the ledgers have the support h.
SeqOf(h) ==
  [s \in {seq[l] : l \in {x \in Ledger : h[x] # 0}} |-> Total(h, AtSeq(s))]

\* seqSupport has an entry exactly for the sequence numbers with support.
LEMMA SeqEntry ==
  ASSUME NEW h, \A x \in Ledger : h[x] \in Nat, NEW s
  PROVE  /\ Total(h, AtSeq(s)) \in Nat
         /\ s \in DOMAIN SeqOf(h) <=> Total(h, AtSeq(s)) # 0
         /\ s \in DOMAIN SeqOf(h) => SeqOf(h)[s] = Total(h, AtSeq(s))
<1>1. AtSeq(s) \in SUBSET Ledger /\ \A x \in AtSeq(s) : h[x] \in Nat
  BY Zenon DEF AtSeq
<1>2. IsFiniteSet(AtSeq(s))
  BY <1>1, HistoryAssumption, FS_Subset, Zenon
<1>3. Total(h, AtSeq(s)) \in Nat
  BY <1>1, <1>2, TotalNat, ZenonT(30)
<1>4. s \in DOMAIN SeqOf(h) <=> \E x \in AtSeq(s) : h[x] # 0
  BY Zenon DEF SeqOf, AtSeq
<1>5. ASSUME NEW x \in AtSeq(s), h[x] # 0 PROVE Total(h, AtSeq(s)) # 0
  <2> USE <1>1
  <2>1. Total(h, AtSeq(s)) = h[x] + Total(h, AtSeq(s) \ {x})
    BY <1>2, TotalRemove, ZenonT(30)
  <2>2. IsFiniteSet(AtSeq(s) \ {x})
    BY <1>2, FS_Subset, Zenon
  <2>3. \A y \in AtSeq(s) \ {x} : h[y] \in Nat
    BY Zenon
  <2>4. Total(h, AtSeq(s) \ {x}) \in Nat
    BY <2>2, <2>3, TotalNat, ZenonT(30)
  <2>5. h[x] \in Nat
    BY Zenon
  <2> QED
    BY <2>1, <2>4, <2>5, <1>5
<1>6. ASSUME ~(\E x \in AtSeq(s) : h[x] # 0) PROVE Total(h, AtSeq(s)) = 0
  <2> USE Zenon
  <2>1. \A x \in AtSeq(s) : h[x] = 0
    BY <1>6
  <2> QED
    BY <2>1, <1>2, TotalZero, ZenonT(30)
<1>7. s \in DOMAIN SeqOf(h) => SeqOf(h)[s] = Total(h, AtSeq(s))
  BY Zenon DEF SeqOf
<1> QED
  BY <1>3, <1>4, <1>5, <1>6, <1>7, ZenonT(30)

\* addSeqSupport follows a change of the support of one ledger.
LEMMA SeqChange ==
  ASSUME NEW h, \A x \in Ledger : h[x] \in Nat,
         NEW g, \A x \in Ledger : g[x] \in Nat,
         NEW l \in Ledger, NEW d \in Int, g[l] = h[l] + d,
         \A x \in Ledger : x # l => g[x] = h[x]
  PROVE  addSeqSupport(SeqOf(h), seq[l], d) = SeqOf(g)
<1> DEFINE s     == seq[l]
           sup   == SeqOf(h)
           total == d + (IF s \in DOMAIN sup THEN sup[s] ELSE 0)
           new   == addSeqSupport(sup, s, d)
<1>1. total = Total(g, AtSeq(s))
  <2>1. /\ l \in AtSeq(s) /\ AtSeq(s) \in SUBSET Ledger
        /\ \A x \in AtSeq(s) : h[x] \in Nat
        /\ \A x \in AtSeq(s) : g[x] \in Nat
        /\ \A x \in AtSeq(s) : x # l => g[x] = h[x]
    BY Zenon DEF AtSeq
  <2>2. IsFiniteSet(AtSeq(s))
    BY <2>1, HistoryAssumption, FS_Subset, ZenonT(30)
  <2>3. Total(g, AtSeq(s)) = Total(h, AtSeq(s)) + (g[l] - h[l])
    <3> DEFINE A == AtSeq(s)
    <3>1. l \in A /\ IsFiniteSet(A)
      BY <2>1, <2>2, Zenon
    <3>2. \A x \in A : h[x] \in Nat
      BY <2>1, Zenon
    <3>3. \A x \in A : g[x] \in Nat
      BY <2>1, Zenon
    <3>4. \A x \in A : x # l => g[x] = h[x]
      BY <2>1, Zenon
    <3> HIDE DEF A
    <3>5. Total(g, A) = Total(h, A) + (g[l] - h[l])
      BY <3>1, <3>2, <3>3, <3>4, TotalChange, SMTT(30)
    <3> QED
      BY <3>5, Zenon DEF A
  <2>4. /\ Total(h, AtSeq(s)) \in Nat /\ h[l] \in Nat /\ g[l] \in Nat
        /\ s \in DOMAIN sup <=> Total(h, AtSeq(s)) # 0
        /\ s \in DOMAIN sup => sup[s] = Total(h, AtSeq(s))
    BY SeqEntry, Zenon
  <2> HIDE DEF sup, s
  <2> QED
    BY <2>3, <2>4
<1>2. ASSUME NEW r, r # s PROVE Total(g, AtSeq(r)) = Total(h, AtSeq(r))
  <2>1. \A x \in AtSeq(r) : g[x] = h[x]
    BY <1>2, Zenon DEF AtSeq
  <2> QED
    BY <2>1, TotalSame, Zenon
<1>3. ASSUME NEW r
      PROVE  /\ r \in DOMAIN sup <=> Total(h, AtSeq(r)) # 0
             /\ r \in DOMAIN sup => sup[r] = Total(h, AtSeq(r))
             /\ r \in DOMAIN SeqOf(g) <=> Total(g, AtSeq(r)) # 0
             /\ r \in DOMAIN SeqOf(g) => SeqOf(g)[r] = Total(g, AtSeq(r))
  BY SeqEntry, Zenon
<1>4. new = IF total = 0 THEN Restrict(sup, DOMAIN sup \ {s})
            ELSE [r \in DOMAIN sup \cup {s} |-> IF r = s THEN total ELSE sup[r]]
  BY Zenon DEF addSeqSupport
<1>5. SeqOf(g) = [r \in DOMAIN SeqOf(g) |-> SeqOf(g)[r]]
  BY DEF SeqOf
<1> HIDE DEF sup, total, s, new
<1>6. CASE total = 0
  <2>1. new = [r \in DOMAIN sup \ {s} |-> sup[r]]
    BY <1>4, <1>6, Zenon DEF Restrict
  <2>2. DOMAIN SeqOf(g) = DOMAIN sup \ {s}
    BY <1>1, <1>2, <1>3, <1>6, ZenonT(30)
  <2>3. \A r \in DOMAIN sup \ {s} : SeqOf(g)[r] = sup[r]
    BY <2>2, <1>2, <1>3, ZenonT(30)
  <2> QED
    BY <2>1, <2>2, <2>3, <1>5, ZenonT(30) DEF new, sup, s
<1>7. CASE total # 0
  <2> DEFINE D == DOMAIN sup \cup {s}
             f == [r \in D |-> IF r = s THEN total ELSE sup[r]]
  <2>1. new = f
    BY <1>4, <1>7, Zenon
  <2>2. DOMAIN SeqOf(g) = D
    BY <1>1, <1>2, <1>3, <1>7, ZenonT(30)
  <2>3. \A r \in D : SeqOf(g)[r] = IF r = s THEN total ELSE sup[r]
    BY <2>2, <1>1, <1>2, <1>3, ZenonT(30)
  <2> QED
    BY <2>1, <2>2, <2>3, <1>5, ZenonT(30) DEF new, sup, s
<1> QED
  BY <1>6, <1>7, ZenonT(30)

\* What insert and remove do to the totals.
LEMMA InsertTotals ==
  ASSUME NEW t, Exact(t), Compact(t), NEW l \in Ledger, NEW count \in Nat \ {0}
  PROVE  LET u == insertIn(t, l, count)
         IN  /\ SeqOf(supportOf(u))
                  = addSeqSupport(SeqOf(supportOf(t)), seq[l], count)
             /\ under(t, Genesis) \in Nat
             /\ under(u, Genesis) = under(t, Genesis) + count
<1> DEFINE u == insertIn(t, l, count)
           h == supportOf(t)
           g == supportOf(u)
<1>1. /\ Exact(u) /\ WellFormed(t) /\ WellFormed(u)
      /\ \A x : heldIn(u, x) = heldIn(t, x) + (IF x = l THEN count ELSE 0)
  BY Insert, ZenonT(30) DEF Exact
<1> HIDE DEF u
<1>2. \A x \in Ledger : /\ h[x] = heldIn(t, x) /\ h[x] \in Nat
                        /\ g[x] = heldIn(u, x) /\ g[x] \in Nat
  BY <1>1, SupportType, Zenon
<1>3. count \in Int
  OBVIOUS
<1>4. Genesis \in Ledger /\ IsAncestor(Genesis, l)
  BY GenesisFirst, Zenon
<1>5. under(t, Genesis) \in Nat /\ under(u, Genesis) = under(t, Genesis) + count
  <2> USE <1>1
  <2>1. \A x : heldIn(u, x) = heldIn(t, x) + (IF x = l THEN count ELSE 0)
    BY Zenon
  <2> USE <1>4
  <2>2. /\ under(t, Genesis) \in Nat
        /\ under(u, Genesis)
             = under(t, Genesis) + (IF IsAncestor(Genesis, l) THEN count ELSE 0)
    BY <1>3, <2>1, UnderChange, SMTT(30)
  <2> QED
    BY <2>2, Zenon
<1> HIDE DEF h, g
<1>6. /\ \A x \in Ledger : h[x] \in Nat
      /\ \A x \in Ledger : g[x] \in Nat
      /\ g[l] = h[l] + count
      /\ \A x \in Ledger : x # l => g[x] = h[x]
  BY <1>1, <1>2
<1>7. addSeqSupport(SeqOf(h), seq[l], count) = SeqOf(g)
  BY <1>3, <1>6, SeqChange, Zenon
<1> QED
  BY <1>5, <1>7, Zenon DEF u, h, g

\* A removal takes from seqSupport, and from the total, what it takes from
\* the ledger.
LEMMA RemoveTotals ==
  ASSUME NEW t, Exact(t), Compact(t), NEW l \in Ledger, NEW count \in Nat,
         removable(t, l)
  PROVE  LET u == removeIn(t, l, count)
             d == Min({count, tipSupportIn(t, l)})
         IN  /\ d \in Nat /\ (count = 1 => d = 1)
             /\ SeqOf(supportOf(u))
                  = addSeqSupport(SeqOf(supportOf(t)), seq[l], -d)
             /\ under(t, Genesis) \in Nat
             /\ under(u, Genesis) = under(t, Genesis) - d
<1> DEFINE u == removeIn(t, l, count)
           h == supportOf(t)
           g == supportOf(u)
           d == Min({count, tipSupportIn(t, l)})
           m == -d
<1>1. /\ Exact(u) /\ WellFormed(t) /\ WellFormed(u)
      /\ \A x : heldIn(u, x) = IF x # l THEN heldIn(t, x)
                       ELSE IF heldIn(t, l) >= count THEN heldIn(t, l) - count
                       ELSE 0
  BY Remove, ZenonT(30) DEF Exact
<1>2. /\ heldIn(t, l) \in Nat /\ tipSupportIn(t, l) = heldIn(t, l)
      /\ heldIn(t, l) > 0
  BY <1>1, HeldAtTip, LookupTip, Zenon DEF removable
<1>3. d = IF count <= heldIn(t, l) THEN count ELSE heldIn(t, l)
  BY <1>2, MinOfTwo
<1> HIDE DEF u, d
<1>4. d \in Nat /\ m \in Int /\ (count = 1 => d = 1)
  BY <1>2, <1>3
<1>5. ASSUME NEW x PROVE heldIn(u, x) = heldIn(t, x) + (IF x = l THEN m ELSE 0)
  <2> USE <1>1
  <2>1. heldIn(t, x) \in Nat
    BY HeldAtTip, Zenon
  <2> QED
    BY <2>1, <1>2, <1>3, SMTT(30)
<1> HIDE DEF m
<1>6. \A x \in Ledger : /\ h[x] = heldIn(t, x) /\ h[x] \in Nat
                        /\ g[x] = heldIn(u, x) /\ g[x] \in Nat
  BY <1>1, SupportType, Zenon
<1>7. Genesis \in Ledger /\ IsAncestor(Genesis, l)
  BY GenesisFirst, Zenon
<1> USE <1>4
<1>8. under(t, Genesis) \in Nat /\ under(u, Genesis) = under(t, Genesis) + m
  <2>1. \A x : heldIn(u, x) = heldIn(t, x) + (IF x = l THEN m ELSE 0)
    BY <1>5, ZenonT(30)
  <2> USE <1>7
  <2>2. /\ under(t, Genesis) \in Nat
        /\ under(u, Genesis)
             = under(t, Genesis) + (IF IsAncestor(Genesis, l) THEN m ELSE 0)
    BY <1>1, <2>1, UnderChange, SMTT(30)
  <2> QED
    BY <2>2, Zenon
<1> HIDE DEF h, g
<1>9. /\ \A x \in Ledger : h[x] \in Nat
      /\ \A x \in Ledger : g[x] \in Nat
      /\ g[l] = h[l] + m
      /\ \A x \in Ledger : x # l => g[x] = h[x]
  BY <1>5, <1>6
<1>10. addSeqSupport(SeqOf(h), seq[l], m) = SeqOf(g)
  BY <1>9, SeqChange, ZenonT(30)
<1> USE <1>8
<1>11. under(u, Genesis) = under(t, Genesis) - d
  BY DEF m
<1> QED
  BY <1>10, <1>11, Zenon DEF u, h, g, d, m

-------------------------------------------------------------------------------
(* What the invariants of the class say. *)

\* The sum of the tip support of a set of nodes (checkInvariants).
LEMMA SumTips ==
  ASSUME NEW t, NEW S
  PROVE  MapThenSumSet(LAMBDA n : t[n].tipSupport, S)
           = Total([n \in S |-> t[n].tipSupport], S)
<1> DEFINE f == [n \in S |-> t[n].tipSupport]
<1> USE ZenonT(30)
<1>1. ASSUME NEW sum
      PROVE  IsSum(f, S, sum) <=>
               sum = [T \in SUBSET S |->
                        IF T = {} THEN 0
                        ELSE t[any(T)].tipSupport + sum[T \ {any(T)}]]
  <2> DEFINE one(T) == IF T = {} THEN 0 ELSE f[any(T)] + sum[T \ {any(T)}]
             two(T) == IF T = {} THEN 0
                       ELSE t[any(T)].tipSupport + sum[T \ {any(T)}]
  <2>1. ASSUME NEW T \in SUBSET S PROVE one(T) = two(T)
    <3>1. CASE T # {}
      <4>1. any(T) \in S
        BY <3>1, Any
      <4>2. f[any(T)] = t[any(T)].tipSupport
        BY <4>1
      <4> HIDE DEF f
      <4> QED
        BY <4>2
    <3> QED
      BY <3>1
  <2>2. [T \in SUBSET S |-> one(T)] = [T \in SUBSET S |-> two(T)]
    BY <2>1
  <2> QED
    BY <2>2 DEF IsSum
<1> QED
  BY <1>1 DEF MapThenSumSet, MapThenFoldSet, Total, any

\* The branch support of a node is its tip support and its children's branch
\* support.
LEMMA ChildrenSum ==
  ASSUME NEW t, Exact(t), NEW n \in DOMAIN t
  PROVE  t[n].branchSupport = t[n].tipSupport
           + MapThenSumSet(LAMBDA c : t[c].branchSupport, children(t, n))
<1> DEFINE K   == children(t, n)
           B   == [c \in K |-> t[c].branchSupport]
           D   == Descendants
           f   == supportOf(t)
           U   == Covered(K, D)
           tip == t[n].tip
<1>0. WellFormed(t) /\ IsFiniteSet(Ledger)
  BY HistoryAssumption, Zenon DEF Exact
<1>1. IsFiniteSet(K)
  BY <1>0, TwoOrMore, ZenonT(30)
<1>2. \A c \in K : /\ c \in DOMAIN t /\ c \in Ledger /\ seq[c] = end(t, n)
                   /\ IsAncestor(tip, c)
  BY <1>0, ChildFacts, NodeFacts, ZenonT(30)
<1>3. /\ \A l \in Ledger : f[l] = heldIn(t, l)
      /\ \A l \in Ledger : f[l] \in Nat
      /\ \A l \in Ledger : D[l] = {d \in Ledger : IsAncestor(l, d)}
      /\ \A l \in Ledger : D[l] \in SUBSET Ledger
      /\ \A l \in Ledger : IsFiniteSet(D[l])
  BY <1>0, SupportType, Zenon
<1>4. /\ n \in Ledger /\ tip \in Ledger /\ IsAncestor(n, tip)
      /\ seq[tip] \in Nat /\ end(t, n) = seq[tip] + 1 /\ seq[n] < end(t, n)
      /\ t[n].tipSupport \in Nat
  BY <1>0, NodeFacts, Zenon
<1>5. IsPartition(K, Ledger, D, f, B)
  <2>1. ASSUME NEW k \in K PROVE D[k] \in SUBSET Ledger /\ B[k] = Total(f, D[k])
    <3> USE Zenon
    <3>1. B[k] = t[k].branchSupport
      OBVIOUS
    <3> USE <1>2
    <3>2. t[k].branchSupport = Total(f, D[k])
      BY DEF Exact, under
    <3> QED
      BY <3>1, <3>2, <1>3
  <2>2. ASSUME NEW j \in K, NEW k \in K, j # k PROVE D[j] \cap D[k] = {}
    <3> SUFFICES ASSUME NEW x \in D[j], x \in D[k] PROVE FALSE
      BY Zenon
    <3>1. /\ j \in Ledger /\ k \in Ledger /\ x \in Ledger
          /\ IsAncestor(j, x) /\ IsAncestor(k, x)
      BY <1>2, <1>3, ZenonT(30)
    <3> USE <3>1
    <3>2. seq[j] = seq[k] /\ seq[j] \in Nat
      BY <1>2, Seqs, ZenonT(30)
    <3> USE <3>2
    <3>3. seq[j] <= seq[k]
      OBVIOUS
    <3>4. IsAncestor(j, k)
      BY <3>3, AncestorLinear, Zenon
    <3> QED
      BY <3>4, <2>2, AncestorSeq, ZenonT(30)
  <2>3. \A x \in Ledger : f[x] \in Nat
    BY <1>3, Zenon
  <2> HIDE DEF B, D, f, K
  <2> QED
    BY <2>1, <2>2, <2>3, <1>0, <1>1, ZenonT(30) DEF IsPartition
<1>6. Total(B, K) = Total(f, U)
  <2> HIDE DEF B, D, f, K
  <2> QED
    BY <1>5, TotalPartition, ZenonT(30)
<1>7. MapThenSumSet(LAMBDA c : t[c].branchSupport, K) = Total(B, K)
  BY SumBranch, Zenon
<1>8. /\ U \in SUBSET D[n] /\ tip \in D[n] /\ tip \notin U
      /\ \A x \in D[n] \ ({tip} \cup U) : f[x] = 0
  <2> USE <1>4
  <2>1. ASSUME NEW x \in U PROVE x \in D[n] /\ x # tip
    <3>1. PICK c \in K : x \in D[c]
      BY Zenon DEF Covered
    <3>2. c \in Ledger /\ x \in Ledger /\ IsAncestor(c, x) /\ IsAncestor(tip, c)
      BY <3>1, <1>2, <1>3, ZenonT(30)
    <3> USE <3>2
    <3>3. IsAncestor(n, c)
      BY AncestorTrans, ZenonT(30)
    <3>4. IsAncestor(n, x)
      BY <3>3, AncestorTrans, Zenon
    <3>5. x # tip
      <4>1. seq[c] = seq[tip] + 1 /\ seq[c] <= seq[x]
        BY <1>2, AncestorSeq, Zenon
      <4> QED
        BY <4>1
    <3> QED
      BY <3>4, <3>5, <1>3, ZenonT(30)
  <2>2. tip \in D[n]
    BY <1>3, Zenon
  <2>3. ASSUME NEW x \in D[n], x # tip, x \notin U PROVE f[x] = 0
    <3> USE <1>3, Zenon
    <3>1. x \in Ledger /\ IsAncestor(n, x) /\ f[x] = heldIn(t, x)
      OBVIOUS
    <3> USE <2>3, <3>1
    <3>2. ASSUME NEW c \in K, IsAncestor(c, x) PROVE FALSE
      <4>1. x \in D[c]
        BY <3>2, <1>2
      <4> QED
        BY <4>1 DEF Covered
    <3> QED
      BY <3>2, <1>0, HeldBelow, ZenonT(30)
  <2> HIDE DEF U, D, f, tip
  <2> QED
    BY <2>1, <2>2, <2>3, Zenon
<1>9. f[tip] = t[n].tipSupport
  BY <1>0, <1>3, <1>4, HeldAtTip, ZenonT(30)
<1>10. t[n].branchSupport = Total(f, D[n])
  BY Zenon DEF Exact, under
<1> HIDE DEF B, D, f, K, U, tip
<1>11. Total(f, D[n]) = f[tip] + Total(f, U)
  <2> USE Zenon
  <2>1. /\ D[n] \in SUBSET Ledger /\ IsFiniteSet(D[n]) /\ {tip} \cup U \in SUBSET D[n]
        /\ \A x \in D[n] : f[x] \in Nat
    BY <1>3, <1>4, <1>8
  <2>2. Total(f, D[n]) = Total(f, {tip} \cup U)
    BY <2>1, <1>8, TotalSupport, ZenonT(30)
  <2>3. IsFiniteSet(U) /\ IsFiniteSet({tip}) /\ {tip} \cap U = {}
    <3> USE <1>8
    <3>1. IsFiniteSet(U)
      BY <2>1, FS_Subset, ZenonT(30)
    <3>2. IsFiniteSet({tip})
      BY FS_Singleton
    <3>3. {tip} \cap U = {}
      OBVIOUS
    <3> QED
      BY <3>1, <3>2, <3>3, ZenonT(30)
  <2>4. \A x \in {tip} \cup U : f[x] \in Nat
    BY <2>1
  <2>5. Total(f, {tip} \cup U) = Total(f, {tip}) + Total(f, U)
    BY <2>3, <2>4, TotalUnion, ZenonT(30)
  <2>6. Total(f, {tip}) = f[tip]
    BY <1>3, <1>4, TotalSingle, ZenonT(30)
  <2> QED
    BY <2>2, <2>5, <2>6, ZenonT(30)
<1> QED
  BY <1>6, <1>7, <1>9, <1>10, <1>11, Zenon DEF K

\* The tip support by sequence number is what the ledgers hold.
LEMMA SeqTips ==
  ASSUME NEW t, WellFormed(t)
  PROVE  LET supported == {n \in DOMAIN t : t[n].tipSupport # 0}
         IN  SeqOf(supportOf(t)) = [s \in {end(t, n) - 1 : n \in supported} |->
               MapThenSumSet(LAMBDA n : t[n].tipSupport,
                             {n \in supported : end(t, n) - 1 = s})]
<1> DEFINE supported == {n \in DOMAIN t : t[n].tipSupport # 0}
           f    == supportOf(t)
           K(s) == {n \in supported : end(t, n) - 1 = s}
           sum(s) == MapThenSumSet(LAMBDA n : t[n].tipSupport, K(s))
<1>1. \A n \in DOMAIN t :
        /\ n \in Ledger /\ t[n].tip \in Ledger /\ t[n].tipSupport \in Nat
        /\ end(t, n) - 1 = seq[t[n].tip] /\ heldIn(t, t[n].tip) = t[n].tipSupport
  <2> SUFFICES ASSUME NEW n \in DOMAIN t
               PROVE  /\ n \in Ledger /\ t[n].tip \in Ledger
                      /\ t[n].tipSupport \in Nat
                      /\ end(t, n) - 1 = seq[t[n].tip]
                      /\ heldIn(t, t[n].tip) = t[n].tipSupport
    BY Zenon
  <2>1. /\ n \in Ledger /\ t[n].tip \in Ledger /\ t[n].tipSupport \in Nat
        /\ end(t, n) = seq[t[n].tip] + 1 /\ seq[t[n].tip] \in Nat
    BY NodeFacts, Zenon
  <2> USE <2>1
  <2>2. end(t, n) - 1 = seq[t[n].tip]
    OBVIOUS
  <2>3. heldIn(t, t[n].tip) = t[n].tipSupport
    BY HeldAtTip, Zenon
  <2> QED
    BY <2>2, <2>3, Zenon
<1>2. /\ \A l \in Ledger : f[l] = heldIn(t, l)
      /\ \A l \in Ledger : f[l] \in Nat
      /\ IsFiniteSet(Ledger)
  BY SupportType, Zenon
<1>3. ASSUME NEW l \in Ledger, f[l] # 0
      PROVE  \E n \in supported : t[n].tip = l
  <2> USE Zenon
  <2>1. heldIn(t, l) # 0
    BY <1>2, <1>3, ZenonT(30)
  <2> USE <2>1
  <2>2. PICK n \in DOMAIN t : t[n].tip = l
    BY HeldAtTip
  <2> USE <2>2
  <2>3. t[n].tipSupport # 0
    BY <1>1
  <2> QED
    BY <2>3
<1>4. ASSUME NEW n \in supported PROVE f[t[n].tip] # 0
  BY <1>1, <1>2, ZenonT(30)
<1>5. {seq[l] : l \in {x \in Ledger : f[x] # 0}} = {end(t, n) - 1 : n \in supported}
  <2> HIDE DEF f
  <2> USE Zenon
  <2>1. ASSUME NEW l \in Ledger, f[l] # 0
        PROVE  \E n \in supported : seq[l] = end(t, n) - 1
    <3>1. PICK n \in supported : t[n].tip = l
      BY <2>1, <1>3
    <3>2. end(t, n) - 1 = seq[l]
      BY <3>1, <1>1
    <3> QED
      BY <3>2
  <2>2. ASSUME NEW n \in supported
        PROVE  \E l \in {x \in Ledger : f[x] # 0} : end(t, n) - 1 = seq[l]
    BY <1>1, <1>4
  <2> QED
    BY <2>1, <2>2, ZenonT(30)
<1>6. ASSUME NEW s PROVE Total(f, AtSeq(s)) = sum(s)
  <2> DEFINE k == K(s)
             B == [n \in k |-> t[n].tipSupport]
             D == [n \in k |-> {t[n].tip}]
             U == Covered(k, D)
  <2> USE ZenonT(30)
  <2>1. sum(s) = Total(B, k)
    BY SumTips
  <2>2. \A n \in k : /\ n \in DOMAIN t /\ seq[t[n].tip] = s
                     /\ B[n] = t[n].tipSupport /\ D[n] = {t[n].tip}
    BY <1>1
  <2>3. IsFiniteSet(k)
    <3>1. k \in SUBSET Ledger
      BY <1>1
    <3> QED
      BY <3>1, <1>2, FS_Subset
  <2>4. \A x \in AtSeq(s) \ U : f[x] = 0
    <3> SUFFICES ASSUME NEW x \in AtSeq(s), f[x] # 0 PROVE x \in U
      OBVIOUS
    <3>1. x \in Ledger /\ seq[x] = s
      BY DEF AtSeq
    <3> USE <3>1
    <3>2. PICK n \in supported : t[n].tip = x
      BY <1>3
    <3> USE <3>2
    <3>3. n \in k
      BY <1>1
    <3> USE <3>3
    <3>4. x \in D[n]
      BY <2>2
    <3> HIDE DEF D, k
    <3> QED
      BY <3>4 DEF Covered
  <2> HIDE DEF f, k, B, D, supported
  <2>5. IsPartition(k, Ledger, D, f, B)
    <3> USE <1>2, <2>2
    <3>1. ASSUME NEW n \in k PROVE D[n] \in SUBSET Ledger /\ B[n] = Total(f, D[n])
      <4>1. t[n].tip \in Ledger /\ f[t[n].tip] = t[n].tipSupport
        BY <1>1
      <4> USE <4>1
      <4>2. Total(f, {t[n].tip}) = f[t[n].tip]
        BY TotalSingle
      <4> QED
        BY <4>2
    <3>2. ASSUME NEW i \in k, NEW j \in k, i # j PROVE D[i] \cap D[j] = {}
      <4>1. t[i].tip # t[j].tip
        BY <3>2, TipUnique
      <4>2. D[i] = {t[i].tip} /\ D[j] = {t[j].tip}
        OBVIOUS
      <4> QED
        BY <4>1, <4>2
    <3>3. \A x \in Ledger : f[x] \in Nat
      OBVIOUS
    <3> QED
      BY <3>1, <3>2, <3>3, <2>3 DEF IsPartition
  <2>6. Total(B, k) = Total(f, U)
    BY <2>5, TotalPartition
  <2>7. U \in SUBSET AtSeq(s)
    <3> SUFFICES ASSUME NEW n \in k, NEW x \in D[n] PROVE x \in AtSeq(s)
      BY DEF Covered
    <3>1. x = t[n].tip /\ seq[x] = s /\ x \in Ledger
      BY <2>2, <1>1
    <3> QED
      BY <3>1 DEF AtSeq
  <2>8. IsFiniteSet(AtSeq(s)) /\ \A x \in AtSeq(s) : f[x] \in Nat
    <3>1. AtSeq(s) \in SUBSET Ledger
      BY DEF AtSeq
    <3> QED
      BY <3>1, <1>2, FS_Subset
  <2> HIDE DEF U
  <2>9. Total(f, AtSeq(s)) = Total(f, U)
    BY <2>4, <2>7, <2>8, TotalSupport
  <2> QED
    BY <2>1, <2>6, <2>9
<1> DEFINE S == {end(t, n) - 1 : n \in supported}
<1>7. SeqOf(f) = [s \in S |-> Total(f, AtSeq(s))]
  BY <1>5, Zenon DEF SeqOf
<1> HIDE DEF f, S
<1>8. [s \in S |-> Total(f, AtSeq(s))] = [s \in S |-> sum(s)]
  BY <1>6, Zenon
<1> QED
  BY <1>7, <1>8, ZenonT(30) DEF f, S

\* branchSupport finds the support of a ledger and of all its descendants.
LEMMA LookupBranch ==
  ASSUME NEW t, Exact(t), NEW l \in Ledger
  PROVE  LET f == find(t, l)
         IN  (IF f.pos > seq[l] /\ seq[l] < end(t, f.loc)
              THEN t[f.loc].branchSupport ELSE 0) = under(t, l)
<1> DEFINE loc == find(t, l).loc
           pos == find(t, l).pos
           tip == t[loc].tip
<1>0. WellFormed(t)
  BY Zenon DEF Exact
<1>1. /\ loc \in DOMAIN t /\ IsAncestor(loc, l) /\ pos = diff(t, loc, l)
      /\ \A m \in DOMAIN t : IsAncestor(m, l) => seq[m] <= seq[loc]
  BY <1>0, FindLast, Zenon
<1> HIDE DEF loc, pos
<1>2. /\ loc \in Ledger /\ tip \in Ledger /\ IsAncestor(loc, tip)
      /\ seq[loc] \in Nat /\ seq[tip] \in Nat /\ end(t, loc) = seq[tip] + 1
      /\ seq[l] \in Nat
  BY <1>0, <1>1, NodeFacts, Seqs, ZenonT(30)
<1>3. /\ pos \in Nat /\ pos <= end(t, loc) /\ pos <= seq[l] + 1
      /\ \A x \in Ledger : IsAncestor(loc, x) /\ IsAncestor(x, tip)
           => (IsAncestor(x, l) <=> seq[x] < pos)
  BY <1>0, <1>1, Diff, ZenonT(30)
<1>4. seq[loc] <= seq[l]
  BY <1>1, <1>2, AncestorSeq, ZenonT(30)
<1> HIDE DEF tip
<1>5. CASE pos > seq[l]
  <2>1. seq[l] < end(t, loc) /\ seq[l] \in 0 .. seq[tip]
    BY <1>2, <1>3, <1>5
  <2> DEFINE x == at(tip, seq[l])
  <2>2. x \in Ledger /\ seq[x] = seq[l] /\ IsAncestor(x, tip)
    BY <2>1, <1>2, AtAncestor, Zenon
  <2> HIDE DEF x
  <2>3. IsAncestor(loc, x)
    BY <2>2, <1>2, <1>4, AncestorLinear, ZenonT(30)
  <2>4. seq[x] < pos
    BY <2>2, <1>2, <1>3, <1>5, ZenonT(30)
  <2>5. IsAncestor(x, l)
    BY <2>2, <2>3, <2>4, <1>3, ZenonT(30)
  <2>6. x = l
    BY <2>2, <2>5, AncestorSeq, ZenonT(30)
  <2>7. under(t, l) = under(t, loc)
    BY <2>2, <2>6, <1>0, <1>1, SpanTotal, ZenonT(30) DEF tip
  <2>8. t[loc].branchSupport = under(t, loc)
    BY <1>1, Zenon DEF Exact
  <2> QED
    BY <2>1, <2>7, <2>8, <1>5, ZenonT(30) DEF loc, pos
<1>6. CASE ~(pos > seq[l])
  <2>1. ~(seq[l] < pos)
    BY <1>2, <1>3, <1>6, Zenon
  <2>2. ~IsAncestor(l, tip)
    BY <2>1, <1>1, <1>3, AncestorRefl, ZenonT(30)
  <2>3. ASSUME NEW d \in Ledger, IsAncestor(l, d) PROVE heldIn(t, d) = 0
    <3> SUFFICES ASSUME heldIn(t, d) # 0 PROVE FALSE
      BY Zenon
    <3>1. PICK n \in DOMAIN t : t[n].tip = d
      BY <1>0, HeldAtTip, ZenonT(30)
    <3>2. n \in Ledger /\ IsAncestor(n, d) /\ seq[n] \in Nat
      BY <3>1, <1>0, NodeFacts, ZenonT(30)
    <3>3. IsAncestor(loc, d)
      BY <2>3, <1>1, <1>2, AncestorTrans, ZenonT(30)
    <3>4. CASE seq[n] <= seq[l]
      <4>1. IsAncestor(n, l)
        BY <3>2, <3>4, <2>3, AncestorLinear, ZenonT(30)
      <4>2. seq[n] <= seq[loc]
        BY <4>1, <1>1, ZenonT(30)
      <4>3. IsAncestor(n, loc)
        BY <4>1, <4>2, <3>2, <1>1, <1>2, AncestorLinear, ZenonT(30)
      <4>4. loc = n
        BY <4>3, <3>1, <3>3, <1>0, <1>1, ZenonT(30) DEF WellFormed, Inside
      <4> QED
        BY <4>4, <3>1, <2>2, <2>3, ZenonT(30) DEF tip
    <3>5. CASE ~(seq[n] <= seq[l])
      <4>1. seq[l] <= seq[n] /\ seq[loc] <= seq[n] /\ seq[loc] < seq[n]
        BY <3>2, <3>5, <1>2, <1>4, SMTT(30)
      <4>2. IsAncestor(l, n) /\ IsAncestor(loc, n) /\ loc # n
        BY <4>1, <3>2, <3>3, <3>5, <2>3, <1>2, <1>4, AncestorLinear, ZenonT(30)
      <4>3. PICK c \in children(t, loc) : IsAncestor(c, n)
        BY <4>2, <1>0, <1>1, ChildAbove, ZenonT(30)
      <4>4. /\ c \in DOMAIN t /\ c \in Ledger /\ seq[c] = end(t, loc)
            /\ IsAncestor(tip, c)
        BY <1>0, <1>1, ChildFacts, NodeFacts, ZenonT(30) DEF tip
      <4>5. IsAncestor(tip, n)
        BY <4>3, <4>4, <3>2, <1>2, AncestorTrans, ZenonT(30)
      <4>6. CASE seq[l] <= seq[tip]
        BY <4>2, <4>5, <4>6, <3>2, <1>2, <2>2, AncestorLinear, ZenonT(30)
      <4>7. CASE ~(seq[l] <= seq[tip])
        <5>1. seq[c] <= seq[l] /\ ~(seq[c] <= seq[loc])
          <6>1. seq[loc] <= seq[tip]
            BY <1>2, AncestorSeq, Zenon
          <6> QED
            BY <6>1, <4>4, <4>7, <1>2, SMTT(30)
        <5>2. IsAncestor(c, l)
          BY <5>1, <4>2, <4>3, <4>4, <3>2, AncestorLinear, ZenonT(30)
        <5> QED
          BY <5>1, <5>2, <4>4, <1>1, ZenonT(30)
      <4> QED
        BY <4>6, <4>7, Zenon
    <3> QED
      BY <3>4, <3>5, Zenon
  <2>4. under(t, l) = 0
    <3> DEFINE S == Descendants[l]
               h == supportOf(t)
    <3>1. IsFiniteSet(S) /\ \A d \in S : h[d] = 0
      BY <1>0, <2>3, SupportType, ZenonT(30)
    <3>2. under(t, l) = Total(h, S)
      BY Zenon DEF under
    <3> HIDE DEF S, h
    <3> QED
      BY <3>1, <3>2, TotalZero, ZenonT(30)
  <2> QED
    BY <2>4, <1>6, Zenon DEF loc, pos
<1> QED
  BY <1>5, <1>6, Zenon

-------------------------------------------------------------------------------
(* The trie is exact and a bag of ledgers. *)

\* The inductive invariant: the tree is well formed, counts exactly what it
\* holds, wastes no node, and holds no more than the bound.
TrieInv ==
  /\ Exact(nodes) /\ Compact(nodes)
  /\ seqSupport = SeqOf(supportOf(nodes))
  /\ under(nodes, Genesis) <= MaxSupport

\* The empty trie is exact, and maps to the empty bag.
LEMMA InitExact == Init => TrieInv /\ Bag!Init
<1> SUFFICES ASSUME Init PROVE TrieInv /\ Bag!Init
  OBVIOUS
<1> DEFINE root == [tip |-> Genesis, tipSupport |-> 0,
                    branchSupport |-> 0, parent |-> NoNode]
           h    == supportOf(nodes)
<1>1. nodes = [n \in {Genesis} |-> root]
  BY DEF Init
<1>2. Genesis \in Ledger /\ IsAncestor(Genesis, Genesis)
  BY HistoryAssumption, AncestorRefl, Zenon
<1>3. root \in Node /\ root.tip = Genesis /\ root.tipSupport = 0
      /\ root.parent = NoNode /\ root.branchSupport = 0
  BY <1>2 DEF Node
<1> HIDE DEF root
<1>4. DOMAIN nodes = {Genesis} /\ nodes[Genesis] = root
  BY <1>1, Zenon
<1>5. nodes \in [DOMAIN nodes -> Node]
  BY <1>1, <1>3, Zenon
<1>6. WellFormed(nodes)
  BY <1>2, <1>3, <1>4, <1>5, ZenonT(30) DEF WellFormed
<1>7. \A l \in Ledger : heldIn(nodes, l) = 0
  <2> SUFFICES ASSUME NEW l \in Ledger PROVE heldIn(nodes, l) = 0
    BY Zenon
  <2> USE <1>3, <1>4, <1>6
  <2>1. CASE l = Genesis
    BY <2>1, HeldAtTip, Zenon
  <2>2. CASE l # Genesis
    BY <2>2, HeldAtTip, Zenon
  <2> QED
    BY <2>1, <2>2, Zenon
<1>8. \A l \in Ledger : h[l] = 0
  BY <1>7, Zenon DEF supportOf
<1>9. under(nodes, Genesis) = 0
  <2> DEFINE S == Descendants[Genesis]
  <2> USE Zenon
  <2>1. IsFiniteSet(S) /\ \A d \in S : h[d] = 0
    BY <1>2, <1>6, <1>8, SupportType, ZenonT(30)
  <2>2. under(nodes, Genesis) = Total(h, S)
    BY DEF under
  <2> HIDE DEF S, h
  <2> QED
    BY <2>1, <2>2, TotalZero, ZenonT(30)
<1>10. Exact(nodes) /\ Compact(nodes)
  BY <1>3, <1>4, <1>6, <1>9, ZenonT(30) DEF Exact, Compact, CompactBut
<1>11. seqSupport = SeqOf(h)
  <2>1. DOMAIN SeqOf(h) = {}
    BY <1>8, Zenon DEF SeqOf
  <2>2. SeqOf(h) = [s \in DOMAIN SeqOf(h) |-> SeqOf(h)[s]]
    BY DEF SeqOf
  <2>3. seqSupport = <<>>
    BY DEF Init
  <2> HIDE DEF h
  <2>4. SeqOf(h) = <<>>
    BY <2>1, <2>2
  <2> QED
    BY <2>3, <2>4, Zenon
<1>12. under(nodes, Genesis) <= MaxSupport
  BY <1>9, HistoryAssumption
<1> QED
  BY <1>7, <1>10, <1>11, <1>12, ZenonT(30) DEF TrieInv, Bag!Init, held

\* Every step keeps it, and is a step of the bag.
LEMMA NextExact ==
  TrieInv /\ [Next]_vars => TrieInv' /\ [Bag!Next]_held
<1> SUFFICES ASSUME TrieInv, [Next]_vars
             PROVE  TrieInv' /\ [Bag!Next]_held
  OBVIOUS
<1>1. /\ Exact(nodes) /\ Compact(nodes) /\ WellFormed(nodes)
      /\ seqSupport = SeqOf(supportOf(nodes))
      /\ under(nodes, Genesis) <= MaxSupport
      /\ \A l : heldIn(nodes, l) \in Nat
      /\ nodes[Genesis].branchSupport = under(nodes, Genesis)
  BY HeldAtTip, Zenon DEF TrieInv, Exact, WellFormed
<1>0. MaxSupport \in Nat
  BY HistoryAssumption, Zenon
<1>2. ASSUME NEW l \in Ledger, NEW count \in 1 .. MaxCount, insert(l, count)
      PROVE  TrieInv' /\ Bag!Next
  <2>1. /\ nodes' = insertIn(nodes, l, count) /\ count \in Nat \ {0}
        /\ seqSupport' = addSeqSupport(seqSupport, seq[l], count)
        /\ nodes[Genesis].branchSupport + count <= MaxSupport
    BY <1>2, HistoryAssumption DEF insert
  <2>2. /\ Exact(nodes') /\ Compact(nodes')
        /\ \A x : heldIn(nodes', x) = heldIn(nodes, x)
                                       + (IF x = l THEN count ELSE 0)
    BY <2>1, <1>1, Insert
  <2>3. /\ SeqOf(supportOf(nodes'))
             = addSeqSupport(SeqOf(supportOf(nodes)), seq[l], count)
        /\ under(nodes', Genesis) = under(nodes, Genesis) + count
    BY <2>1, <1>1, InsertTotals, ZenonT(30)
  <2>4. TrieInv'
    BY <2>1, <2>2, <2>3, <1>1, ZenonT(30) DEF TrieInv
  <2>5. held' = [held EXCEPT ![l] = @ + count]
    <3> DEFINE h == [held EXCEPT ![l] = @ + count]
    <3>1. h = [x \in Ledger |-> h[x]]
      BY ZenonT(30) DEF held
    <3>2. \A x \in Ledger : h[x] = heldIn(nodes, x) + (IF x = l THEN count ELSE 0)
      BY <2>1, <1>1 DEF held
    <3> HIDE DEF h
    <3>3. \A x \in Ledger : h[x] = heldIn(nodes', x)
      BY <2>2, <3>2, Zenon
    <3>4. held' = [x \in Ledger |-> h[x]]
      BY <3>3, Zenon DEF held
    <3> QED
      BY <3>1, <3>4, Zenon DEF h
  <2> QED
    BY <1>2, <2>4, <2>5, ZenonT(30) DEF Bag!Next, Bag!Insert
<1>3. ASSUME NEW l \in Ledger, NEW count \in 1 .. MaxCount, remove(l, count)
      PROVE  TrieInv' /\ Bag!Next
  <2> DEFINE d == Min({count, tipSupportIn(nodes, l)})
  <2>1. /\ nodes' = removeIn(nodes, l, count) /\ count \in Nat
        /\ seqSupport' = IF removable(nodes, l)
                         THEN addSeqSupport(seqSupport, seq[l], -d)
                         ELSE seqSupport
    <3>1. count \in Nat
      BY HistoryAssumption, SMTT(30)
    <3> QED
      BY <1>3, <3>1, Zenon DEF remove, tipSupport
  <2>2. /\ Exact(nodes') /\ Compact(nodes')
        /\ \A x : heldIn(nodes', x)
                    = IF x # l THEN heldIn(nodes, x)
                      ELSE IF heldIn(nodes, l) >= count
                      THEN heldIn(nodes, l) - count ELSE 0
    BY <2>1, <1>1, Remove, SMTT(30)
  <2>3. held' = [held EXCEPT ![l] = IF @ >= count THEN @ - count ELSE 0]
    BY <2>2, <1>1, ZenonT(30) DEF held
  <2>4. CASE removable(nodes, l)
    <3>1. /\ SeqOf(supportOf(nodes'))
               = addSeqSupport(SeqOf(supportOf(nodes)), seq[l], -d)
          /\ d \in Nat /\ under(nodes, Genesis) \in Nat
          /\ under(nodes', Genesis) = under(nodes, Genesis) - d
      BY <2>1, <2>4, <1>1, RemoveTotals, ZenonT(30)
    <3> HIDE DEF d
    <3>2. under(nodes', Genesis) <= MaxSupport
      BY <3>1, <1>0, <1>1, SMTT(30)
    <3>3. TrieInv'
      BY <2>1, <2>2, <2>4, <3>1, <3>2, <1>1, ZenonT(30) DEF TrieInv
    <3> QED
      BY <1>3, <2>3, <3>3, ZenonT(30) DEF Bag!Next, Bag!Remove
  <2>5. CASE ~removable(nodes, l)
    <3>1. nodes' = nodes /\ seqSupport' = seqSupport
      BY <2>1, <2>5, Zenon DEF removeIn
    <3>2. TrieInv'
      BY <3>1, <1>1, Zenon DEF TrieInv
    <3> QED
      BY <1>3, <2>3, <3>2, Zenon DEF Bag!Next, Bag!Remove
  <2> QED
    BY <2>4, <2>5, Zenon
<1>4. ASSUME NEW old \in Ledger, NEW new \in Ledger, updateTrie(old, new)
      PROVE  TrieInv' /\ Bag!Next
  <2> DEFINE u == removeIn(nodes, old, 1)
             mid == addSeqSupport(seqSupport, seq[old], -1)
  <2>0. 1 \in Nat /\ 1 \in Nat \ {0}
    OBVIOUS
  <2>1. /\ nodes' = insertIn(u, new, 1) /\ removable(nodes, old)
        /\ heldIn(nodes, old) > 0
        /\ seqSupport' = addSeqSupport(mid, seq[new], 1)
    BY <1>1, <1>4, LookupTip, ZenonT(30) DEF updateTrie, movedIn, movedSeq, removable
  <2>2. /\ Exact(u) /\ Compact(u)
        /\ \A x : heldIn(u, x) = IF x # old THEN heldIn(nodes, x)
                                 ELSE IF heldIn(nodes, old) >= 1
                                 THEN heldIn(nodes, old) - 1 ELSE 0
    BY <2>0, <1>1, Remove
  <2>3. /\ SeqOf(supportOf(u)) = mid
        /\ under(nodes, Genesis) \in Nat
        /\ under(u, Genesis) = under(nodes, Genesis) - 1
    <3> DEFINE d == Min({1, tipSupportIn(nodes, old)})
    <3>1. /\ SeqOf(supportOf(u))
               = addSeqSupport(SeqOf(supportOf(nodes)), seq[old], -d)
          /\ d = 1 /\ under(nodes, Genesis) \in Nat
          /\ under(u, Genesis) = under(nodes, Genesis) - d
      BY <2>0, <2>1, <1>1, RemoveTotals, Zenon
    <3> HIDE DEF d, u
    <3> QED
      BY <3>1, <1>1, Zenon
  <2> HIDE DEF u, mid
  <2>4. /\ Exact(nodes') /\ Compact(nodes')
        /\ \A x : heldIn(nodes', x) = heldIn(u, x) + (IF x = new THEN 1 ELSE 0)
    BY <2>0, <2>1, <2>2, Insert, SMTT(30)
  <2>5. /\ SeqOf(supportOf(nodes')) = addSeqSupport(mid, seq[new], 1)
        /\ under(nodes', Genesis) = under(u, Genesis) + 1
    BY <2>0, <2>1, <2>2, <2>3, InsertTotals, ZenonT(30)
  <2>6. under(nodes', Genesis) <= MaxSupport
    BY <2>3, <2>5, <1>0, <1>1, SMTT(30)
  <2>7. TrieInv'
    BY <2>1, <2>4, <2>5, <2>6, ZenonT(30) DEF TrieInv
  <2>8. \A x : heldIn(nodes', x) = heldIn(nodes, x) + (IF x = new THEN 1 ELSE 0)
                                   - (IF x = old THEN 1 ELSE 0)
    BY <2>1, <2>2, <2>4, <1>1, SMTT(30)
  <2> DEFINE h == [held EXCEPT ![old] = @ - 1]
  <2>9. h \in [Ledger -> Int] /\ \A x \in Ledger :
           h[x] = heldIn(nodes, x) - (IF x = old THEN 1 ELSE 0)
    BY <1>1 DEF held
  <2>10. held' = [x \in Ledger |-> heldIn(nodes', x)]
    BY Zenon DEF held
  <2> HIDE DEF h
  <2>11. held' = [h EXCEPT ![new] = @ + 1]
    <3> DEFINE g == [h EXCEPT ![new] = @ + 1]
    <3>1. g = [x \in Ledger |-> g[x]]
      BY <2>9, ZenonT(30)
    <3>2. \A x \in Ledger : g[x] = h[x] + (IF x = new THEN 1 ELSE 0)
      BY <2>9
    <3> HIDE DEF g
    <3>3. \A x \in Ledger : g[x] = heldIn(nodes', x)
      BY <2>8, <2>9, <3>2, <1>1
    <3>4. held' = [x \in Ledger |-> g[x]]
      BY <2>10, <3>3, ZenonT(30)
    <3> QED
      BY <3>1, <3>4, Zenon DEF g
  <2>12. held[old] > 0
    BY <2>1, <1>1, Zenon DEF held
  <2> QED
    BY <1>4, <2>7, <2>11, <2>12, ZenonT(30) DEF Bag!Next, Bag!Move, h
<1>5. CASE UNCHANGED vars
  <2>1. nodes' = nodes /\ seqSupport' = seqSupport
    BY <1>5 DEF vars
  <2>2. held' = held
    BY <2>1, Zenon DEF held
  <2>3. TrieInv'
    BY <2>1, <1>1, Zenon DEF TrieInv
  <2> QED
    BY <2>2, <2>3, Zenon
<1> QED
  BY <1>2, <1>3, <1>4, <1>5, ZenonT(30) DEF Next

\* The trie, however nodes were split, grown, erased and merged by insert,
\* remove and updateTrie, answers every tipSupport query as a bag of ledgers.
THEOREM TrieImplementsBag == Spec => ImplementsSupport
<1>1. TrieInv /\ [Next]_vars => TrieInv' /\ [Bag!Next]_held
  BY NextExact, Zenon
<1>2. Init => TrieInv /\ Bag!Init
  BY InitExact, Zenon
<1> QED
  BY <1>1, <1>2, PTL DEF Spec, ImplementsSupport, Bag!Spec

-------------------------------------------------------------------------------
(* The invariants of the class and its lookups. *)

\* A nonempty finite set of numbers has a greatest element.
LEMMA FiniteMax ==
  ASSUME NEW S \in SUBSET Nat, IsFiniteSet(S), S # {}
  PROVE  Max(S) \in S /\ \A y \in S : y <= Max(S)
<1> DEFINE above(x) == {y \in S : ~(y <= x)}
           F == {T \in SUBSET S : \E x \in S : above(x) \in SUBSET T}
<1>1. F \in SUBSET SUBSET S /\ S \in F
  <2> USE Zenon
  <2>1. PICK x : x \in S
    OBVIOUS
  <2>2. above(x) \in SUBSET S
    OBVIOUS
  <2> HIDE DEF above
  <2> QED
    BY <2>1, <2>2
<1>2. PICK T \in F : \A x \in T : T \ {x} \notin F
  <2> HIDE DEF F
  <2> QED
    BY <1>1, MinimalSet, Zenon
<1>3. PICK m \in S : above(m) \in SUBSET T
  BY <1>2, ZenonT(30)
<1>4. \A y \in S : y <= m
  <2> SUFFICES ASSUME NEW y \in S, ~(y <= m) PROVE FALSE
    BY Zenon
  <2>1. y \in T
    BY <1>3, Zenon
  <2>2. ASSUME NEW z \in above(y) PROVE z \in T \ {y}
    <3>1. z \in Nat /\ y \in Nat /\ m \in Nat /\ ~(z <= y)
      BY Zenon
    <3>2. ~(z <= m) /\ z # y
      BY <3>1
    <3> USE <3>2
    <3>3. z \in above(m)
      BY Zenon
    <3> QED
      BY <3>3, <1>3, ZenonT(30)
  <2> USE <1>2
  <2>3. T \ {y} \in SUBSET S
    BY Zenon
  <2>4. above(y) \in SUBSET (T \ {y})
    BY <2>2, Zenon
  <2>5. T \ {y} \in F
    <3> HIDE DEF above
    <3> QED
      BY <2>3, <2>4, Zenon
  <2> QED
    BY <2>1, <2>5, ZenonT(30)
<1>5. m \in Nat /\ S \in SUBSET (0 .. m)
  BY <1>4
<1> QED
  BY <1>5, BoundedMax, Zenon

\* No ledger is beyond the largest sequence number.
LEMMA SeqBound ==
  ASSUME NEW l \in Ledger
  PROVE  MaxSeq \in Nat /\ seq[l] \in 0 .. MaxSeq
<1> DEFINE S == {seq[k] : k \in Ledger}
<1>1. S \in SUBSET Nat /\ seq[l] \in S /\ S # {}
  BY Seqs, Zenon
<1>2. IsFiniteSet(S)
  <2>1. seq \in Surjection(Ledger, S)
    BY DEF seq, Surjection
  <2> HIDE DEF S
  <2> QED
    BY <2>1, HistoryAssumption, FS_Surjection, ZenonT(30)
<1>3. MaxSeq = Max(S)
  BY Zenon DEF MaxSeq
<1> HIDE DEF S
<1> USE <1>1
<1>4. Max(S) \in S /\ seq[l] <= Max(S)
  BY <1>2, FiniteMax, ZenonT(30)
<1> DEFINE m == Max(S)
<1>5. MaxSeq = m /\ m \in Nat /\ seq[l] \in Nat /\ seq[l] <= m
  BY <1>3, <1>4, ZenonT(30)
<1> HIDE DEF m
<1> QED
  BY <1>5

\* No part of the trie holds more than all of it.
LEMMA PartBound ==
  ASSUME NEW t, WellFormed(t), NEW S \in SUBSET Ledger
  PROVE  /\ Total(supportOf(t), S) \in Nat
         /\ under(t, Genesis) \in Nat
         /\ Total(supportOf(t), S) <= under(t, Genesis)
<1> DEFINE h == supportOf(t)
<1>1. /\ \A l \in Ledger : h[l] \in Nat
      /\ IsFiniteSet(Ledger)
  BY SupportType, Zenon
<1>2. Descendants[Genesis] = Ledger
  <2>1. Genesis \in Ledger
    BY HistoryAssumption, Zenon
  <2> USE Zenon
  <2>2. Descendants[Genesis] = {d \in Ledger : IsAncestor(Genesis, d)}
    BY <2>1, SupportType
  <2> QED
    BY <2>2, GenesisFirst
<1>3. under(t, Genesis) = Total(h, Ledger)
  BY <1>2, Zenon DEF under
<1> HIDE DEF h
<1>4. /\ Total(h, S) \in Nat /\ Total(h, Ledger) \in Nat
      /\ Total(h, Ledger \ S) \in Nat
      /\ Total(h, Ledger) = Total(h, S) + Total(h, Ledger \ S)
  BY <1>1, TotalSubset, ZenonT(30)
<1> USE <1>4
<1>5. Total(h, S) <= Total(h, Ledger)
  OBVIOUS
<1> QED
  BY <1>3, <1>5, Zenon DEF h

\* The inductive invariant implies the types.
LEMMA TypeExact == TrieInv => TypeOK
<1> SUFFICES ASSUME TrieInv PROVE TypeOK
  OBVIOUS
<1> DEFINE h == supportOf(nodes)
<1>1. /\ Exact(nodes) /\ WellFormed(nodes) /\ seqSupport = SeqOf(h)
      /\ under(nodes, Genesis) <= MaxSupport /\ MaxSupport \in Nat
  BY HistoryAssumption, ZenonT(30) DEF TrieInv, Exact
<1> USE <1>1
<1>2. ASSUME NEW S \in SUBSET Ledger
      PROVE  Total(h, S) \in Nat /\ Total(h, S) <= MaxSupport
  <2>1. /\ Total(h, S) \in Nat /\ under(nodes, Genesis) \in Nat
        /\ Total(h, S) <= under(nodes, Genesis)
    BY PartBound, Zenon
  <2> HIDE DEF h
  <2> QED
    BY <2>1
<1>3. /\ \A l \in Ledger : h[l] = heldIn(nodes, l)
      /\ \A l \in Ledger : h[l] \in Nat
      /\ \A l \in Ledger : Descendants[l] \in SUBSET Ledger
  BY SupportType, Zenon
<1>4. ASSUME NEW n \in DOMAIN nodes
      PROVE  /\ nodes[n].tip \in Ledger
             /\ nodes[n].parent \in IF n = Genesis THEN {NoNode} ELSE DOMAIN nodes
             /\ nodes[n].tipSupport \in 0 .. MaxSupport
             /\ nodes[n].branchSupport \in 0 .. MaxSupport
  <2>1. n \in Ledger /\ nodes[n].tip \in Ledger
    BY NodeFacts, Zenon
  <2>2. nodes[n].parent \in IF n = Genesis THEN {NoNode} ELSE DOMAIN nodes
    BY Zenon DEF WellFormed
  <2>3. nodes[n].tipSupport = Total(h, {nodes[n].tip})
    <3> USE Zenon
    <3>1. h[nodes[n].tip] = nodes[n].tipSupport /\ h[nodes[n].tip] \in Nat
      BY <2>1, <1>3, HeldAtTip
    <3> HIDE DEF h
    <3> QED
      BY <3>1, TotalSingle
  <2>4. nodes[n].branchSupport = Total(h, Descendants[n])
    BY Zenon DEF Exact, under
  <2> HIDE DEF h
  <2>5. {nodes[n].tip} \in SUBSET Ledger /\ Descendants[n] \in SUBSET Ledger
    BY <2>1, <1>3, ZenonT(30)
  <2>6. /\ nodes[n].tipSupport \in Nat /\ nodes[n].tipSupport <= MaxSupport
        /\ nodes[n].branchSupport \in Nat /\ nodes[n].branchSupport <= MaxSupport
    BY <2>3, <2>4, <2>5, <1>2, ZenonT(30)
  <2>7. /\ nodes[n].tipSupport \in 0 .. MaxSupport
        /\ nodes[n].branchSupport \in 0 .. MaxSupport
    BY <2>6
  <2> QED
    BY <2>1, <2>2, <2>7, ZenonT(30)
<1>5. ASSUME NEW s \in DOMAIN seqSupport
      PROVE  s \in 0 .. MaxSeq /\ seqSupport[s] \in 1 .. MaxSupport
  <2>1. PICK l \in Ledger : s = seq[l]
    BY Zenon DEF SeqOf
  <2>2. s \in 0 .. MaxSeq
    BY <2>1, SeqBound, Zenon
  <2>3. AtSeq(s) \in SUBSET Ledger
    BY Zenon DEF AtSeq
  <2>4. seqSupport[s] = Total(h, AtSeq(s)) /\ Total(h, AtSeq(s)) # 0
    <3> HIDE DEF h
    <3> QED
      BY <1>3, SeqEntry, ZenonT(30)
  <2> HIDE DEF h
  <2>5. Total(h, AtSeq(s)) \in Nat /\ Total(h, AtSeq(s)) <= MaxSupport
    BY <2>3, <1>2, Zenon
  <2>6. seqSupport[s] \in 1 .. MaxSupport
    BY <2>4, <2>5, SMTT(30)
  <2> QED
    BY <2>2, <2>6, Zenon
<1>6. Genesis \in DOMAIN nodes /\ DOMAIN nodes \subseteq Ledger
  BY Zenon DEF WellFormed
<1> QED
  BY <1>4, <1>5, <1>6, ZenonT(30) DEF TypeOK

\* The inductive invariant implies the invariants of the class and its
\* lookups.
LEMMA ExactInvariants == TrieInv => NodesExact
<1> SUFFICES ASSUME TrieInv PROVE NodesExact
  OBVIOUS
<1> USE Zenon
<1>1. /\ Exact(nodes) /\ Compact(nodes) /\ WellFormed(nodes)
      /\ seqSupport = SeqOf(supportOf(nodes))
  BY DEF TrieInv, Exact
<1>2. TypeOK
  BY TypeExact
<1>3. checkInvariants
  <2> USE <1>1
  <2>1. ASSUME NEW n \in DOMAIN nodes, n # Genesis, nodes[n].tipSupport = 0
        PROVE  Cardinality(children(nodes, n)) >= 2
    <3>1. TwoKids(nodes, n)
      BY <2>1 DEF Compact, CompactBut
    <3> QED
      BY <3>1, TwoOrMore
  <2>2. ASSUME NEW n \in DOMAIN nodes
        PROVE  nodes[n].branchSupport =
                 nodes[n].tipSupport + MapThenSumSet(
                     LAMBDA c : nodes[c].branchSupport, children(nodes, n))
    BY ChildrenSum
  <2>3. LET supported == {n \in DOMAIN nodes : nodes[n].tipSupport # 0}
        IN  seqSupport = [s \in {end(nodes, n) - 1 : n \in supported} |->
              MapThenSumSet(LAMBDA n : nodes[n].tipSupport,
                            {n \in supported : end(nodes, n) - 1 = s})]
    BY SeqTips
  <2> QED
    BY <2>1, <2>2, <2>3, ZenonT(30) DEF checkInvariants
<1>4. LookupsExact
  <2>0. held = supportOf(nodes)
    BY DEF held, supportOf
  <2>1. ASSUME NEW l \in Ledger
        PROVE  /\ tipSupport(l) = held[l]
               /\ branchSupport(l)
                    = MapThenSumSet(LAMBDA d : held[d], Descendants[l])
    <3>1. tipSupport(l) = held[l]
      BY <1>1, LookupTip DEF tipSupport, held
    <3>2. branchSupport(l) = under(nodes, l)
      BY <1>1, LookupBranch DEF branchSupport
    <3>3. under(nodes, l) = Total(held, Descendants[l])
      BY <2>0 DEF under
    <3>4. MapThenSumSet(LAMBDA d : held[d], Descendants[l])
            = Total(held, Descendants[l])
      BY SumIs
    <3> QED
      BY <3>1, <3>2, <3>3, <3>4, ZenonT(30)
  <2> QED
    BY <2>1 DEF LookupsExact
<1> QED
  BY <1>2, <1>3, <1>4, ZenonT(30) DEF NodesExact

\* Whatever insert, remove and updateTrie did, LedgerTrie::checkInvariants
\* holds, and tipSupport and branchSupport find exactly the support of every
\* ledger and of its descendants, inside compressed spans too.
THEOREM TrieNodesExact == Spec => []NodesExact
<1>1. TrieInv /\ [Next]_vars => TrieInv'
  BY NextExact, Zenon
<1>2. Init => TrieInv
  BY InitExact, Zenon
<1>3. TrieInv => NodesExact
  BY ExactInvariants
<1> QED
  BY <1>1, <1>2, <1>3, PTL DEF Spec

===============================================================================
