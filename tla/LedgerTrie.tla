------------------------------ MODULE LedgerTrie ------------------------------
(***************************************************************************)
(* The ancestry trie of validated ledgers (consensus/LedgerTrie.h).        *)
(*                                                                         *)
(* A ledger is its ID, and IDs are numbers because the code orders them to *)
(* break ties.  History[l][s + 1] is the ID of l's ancestor at sequence s, *)
(* so History[l] starts with the genesis ledger 0 and ends with l itself.  *)
(*                                                                         *)
(* A trie node is named by the ID that starts its span.  The span is the   *)
(* half-open interval [start, end) of the history of its tip, so startID   *)
(* and tip determine it.  The children of a node are a set: where the code *)
(* looks at their order at all it sorts them first.                        *)
(*                                                                         *)
(* The deployed ledger type knows only its last 256 ancestors; the model   *)
(* has the full history the class comment of LedgerTrie asks for.          *)
(***************************************************************************)
EXTENDS Integers, Sequences, FiniteSets, FiniteSetsExt, Functions

CONSTANTS
    Ledger,      \* ledger IDs, the genesis ledger 0 among them
    History,     \* the ancestry of each ledger
    MaxSupport,  \* bound on the support the trie holds at once
    MaxCount     \* bound on the count of one insert or remove

Genesis == 0
NoNode == -1
None == -1

seq == [l \in Ledger |-> Len(History[l]) - 1]

\* Ledger::operator[]: the ID of the ancestor of l with sequence number s.
at(l, s) == History[l][s + 1]

IsAncestor(a, l) == seq[a] <= seq[l] /\ at(l, seq[a]) = a
Descendants == [l \in Ledger |-> {d \in Ledger : IsAncestor(l, d)}]

\* The unique history invariant: ledgers that agree on the ID at a sequence
\* number agree on every earlier one.
ASSUME HistoryAssumption ==
    /\ Ledger \subseteq Nat /\ IsFiniteSet(Ledger) /\ Genesis \in Ledger
    /\ \A l \in Ledger :
        /\ History[l] \in Seq(Ledger) /\ History[l] # <<>>
        /\ at(l, 0) = Genesis /\ at(l, seq[l]) = l
        /\ \A s \in 0 .. seq[l] :
              History[at(l, s)] = SubSeq(History[l], 1, s + 1)
    /\ MaxSupport \in Nat /\ MaxCount \in Nat \ {0}

MaxSeq == Max({seq[l] : l \in Ledger})

VARIABLES
    nodes,       \* startID -> [tip, tipSupport, branchSupport, parent]
    seqSupport   \* sequence number -> tip support, no entry when it is zero

vars == <<nodes, seqSupport>>

-------------------------------------------------------------------------------
(* Spans. *)

\* mismatch: one past the last sequence number on which a and b agree.
mismatch ==
    [a \in Ledger |-> [b \in Ledger |->
        1 + Max({s \in 0 .. Min({seq[a], seq[b]}) : at(a, s) = at(b, s)})]]

start(n) == seq[n]
end(t, n) == seq[t[n].tip] + 1

\* Span::diff: the first possible difference of node n's span with l.
diff(t, n, l) ==
    Min({Max({start(n), mismatch[t[n].tip][l]}), end(t, n)})

children(t, n) == {c \in DOMAIN t : t[c].parent = n}

-------------------------------------------------------------------------------
(* Lookup. *)

\* The node with the longest common ancestry with l, and the sequence number
\* of the first difference.
find(t, l) ==
    LET descend[n \in DOMAIN t] ==
            LET pos    == diff(t, n, l)
                closer == {c \in children(t, n) : diff(t, c, l) > pos}
            IN  IF pos = end(t, n) /\ closer # {}
                THEN descend[CHOOSE c \in closer : TRUE]
                ELSE [loc |-> n, pos |-> pos]
    IN  descend[Genesis]

\* n and its ancestors, the nodes whose branch support a change at n reaches.
pathToRoot(t, n) ==
    LET up[m \in DOMAIN t] ==
            {m} \cup (IF t[m].parent = NoNode THEN {} ELSE up[t[m].parent])
    IN  up[n]

tipSupportIn(t, l) ==
    LET f == find(t, l)
    IN  IF f.pos = end(t, f.loc) /\ f.pos > seq[l]
        THEN t[f.loc].tipSupport ELSE 0

tipSupport(l) == tipSupportIn(nodes, l)

branchSupport(l) ==
    LET f == find(nodes, l)
    IN  IF f.pos > seq[l] /\ seq[l] < end(nodes, f.loc)
        THEN nodes[f.loc].branchSupport ELSE 0

empty == nodes[Genesis].branchSupport = 0

-------------------------------------------------------------------------------
(* Insertion and removal, on a trie t: the code calls both in one step.    *)

\* Mutant: the truncated prefix keeps the tip support it handed over.
M_split(t, loc, pos) ==
    LET old == at(t[loc].tip, pos)
    IN  [n \in DOMAIN t \cup {old} |->
            CASE n = old -> [t[loc] EXCEPT !.parent = loc]
              [] n = loc -> [t[loc] EXCEPT !.tip = at(t[loc].tip, pos - 1)]
              [] n \notin {old, loc} /\ t[n].parent = loc
                         -> [t[n] EXCEPT !.parent = old]
              [] OTHER   -> t[n]]

\* The node that ends where l departs from it: loc cut at pos, its tail
\* taking over tip support, branch support and children.
split(t, loc, pos) ==
    LET old == at(t[loc].tip, pos)
    IN  [n \in DOMAIN t \cup {old} |->
            CASE n = old -> [t[loc] EXCEPT !.parent = loc]
              [] n = loc -> [t[loc] EXCEPT !.tip = at(t[loc].tip, pos - 1),
                                           !.tipSupport = 0]
              [] n \notin {old, loc} /\ t[n].parent = loc
                         -> [t[n] EXCEPT !.parent = old]
              [] OTHER   -> t[n]]

\* A leaf below loc for the rest of l, without support yet.
grow(t, loc, pos, l) ==
    [n \in DOMAIN t \cup {at(l, pos)} |->
        IF n = at(l, pos)
        THEN [tip |-> l, tipSupport |-> 0, branchSupport |-> 0, parent |-> loc]
        ELSE t[n]]

\* d more tip support at loc, and branch support from there to the root.
addSupport(t, loc, d) ==
    LET path == pathToRoot(t, loc)
    IN  [n \in DOMAIN t |->
            [t[n] EXCEPT
                !.tipSupport    = IF n = loc THEN @ + d ELSE @,
                !.branchSupport = IF n \in path THEN @ + d ELSE @]]

insertIn(t, l, count) ==
    LET f   == find(t, l)
        cut == IF f.pos < end(t, f.loc) THEN split(t, f.loc, f.pos) ELSE t
    IN  IF f.pos <= seq[l]
        THEN addSupport(grow(cut, f.loc, f.pos, l), at(l, f.pos), count)
        ELSE addSupport(cut, f.loc, count)

\* Mutant: a node left without tip support stays when it has one child.
M_compress(t, loc) ==
    IF t[loc].tipSupport = 0 /\ loc # Genesis /\ children(t, loc) = {}
    THEN Restrict(t, DOMAIN t \ {loc})
    ELSE t

\* The span of loc and of its only child become one node.
merge(t, loc, child) ==
    [n \in DOMAIN t \ {child} |->
        CASE n = loc -> [t[child] EXCEPT !.parent = t[loc].parent]
          [] n # loc /\ t[n].parent = child -> [t[n] EXCEPT !.parent = loc]
          [] OTHER -> t[n]]

\* One turn of the loop that ends remove: a node without tip support is erased
\* when it is a leaf and merged into an only child, and its parent is next.
compressOnce(s) ==
    LET kids == children(s.t, s.loc)
    IN  IF s.t[s.loc].tipSupport # 0 \/ s.loc = Genesis \/ Cardinality(kids) > 1
        THEN s
        ELSE [t   |-> IF kids = {}
                      THEN Restrict(s.t, DOMAIN s.t \ {s.loc})
                      ELSE merge(s.t, s.loc, CHOOSE c \in kids : TRUE),
              loc |-> s.t[s.loc].parent]

\* A parent starts at a smaller sequence number, so seq[loc] turns are enough.
compress(t, loc) ==
    LET turn[k \in 0 .. seq[loc]] ==
            IF k = 0 THEN [t |-> t, loc |-> loc] ELSE compressOnce(turn[k - 1])
    IN  turn[seq[loc]].t

removable(t, l) == tipSupportIn(t, l) > 0

removeIn(t, l, count) ==
    LET loc == find(t, l).loc
    IN  IF removable(t, l)
        THEN compress(addSupport(t, loc, -Min({count, t[loc].tipSupport})), loc)
        ELSE t

\* seqSupport[s] += d, an entry that reaches zero being erased.
addSeqSupport(sup, s, d) ==
    LET total == d + (IF s \in DOMAIN sup THEN sup[s] ELSE 0)
    IN  IF total = 0 THEN Restrict(sup, DOMAIN sup \ {s})
                     ELSE [r \in DOMAIN sup \cup {s} |->
                              IF r = s THEN total ELSE sup[r]]

Init ==
    /\ nodes = [n \in {Genesis} |-> [tip |-> Genesis, tipSupport |-> 0,
                                     branchSupport |-> 0, parent |-> NoNode]]
    /\ seqSupport = <<>>

insert(l, count) ==
    /\ nodes[Genesis].branchSupport + count <= MaxSupport
    /\ nodes' = insertIn(nodes, l, count)
    /\ seqSupport' = addSeqSupport(seqSupport, seq[l], count)

\* remove answers false and changes nothing when l has no tip support.
remove(l, count) ==
    /\ nodes' = removeIn(nodes, l, count)
    /\ seqSupport' = IF removable(nodes, l)
                     THEN addSeqSupport(seqSupport, seq[l],
                                        -Min({count, tipSupport(l)}))
                     ELSE seqSupport

\* Validations::updateTrie on a validator that already has a last ledger: its
\* support moves from the old ledger to the new one under one lock.
movedIn(t, old, new) == insertIn(removeIn(t, old, 1), new, 1)
movedSeq(sup, old, new) ==
    addSeqSupport(addSeqSupport(sup, seq[old], -1), seq[new], 1)

updateTrie(old, new) ==
    /\ removable(nodes, old)
    /\ nodes' = movedIn(nodes, old, new)
    /\ seqSupport' = movedSeq(seqSupport, old, new)

Next ==
    \/ \E l \in Ledger, count \in 1 .. MaxCount : insert(l, count)
    \/ \E l \in Ledger, count \in 1 .. MaxCount : remove(l, count)
    \/ \E old, new \in Ledger : updateTrie(old, new)

Spec == Init /\ [][Next]_vars

-------------------------------------------------------------------------------
(* The preferred ledger. *)

\* Mutant: the iterator stops one sequence number early.
M_uncommitted(sup, it) ==
    MapThenSumSet(LAMBDA s : sup[s], {s \in DOMAIN sup : s + 1 < it})

\* The sum of the entries an iterator that stands at the first entry not
\* below `it' has passed.
uncommitted(sup, it) ==
    MapThenSumSet(LAMBDA s : sup[s], {s \in DOMAIN sup : s < it})

\* The walk along one span: how far the preference reaches, and where the
\* iterator over seqSupport stands then.
alongSpan(t, sup, curr, firstSeq, firstIt) ==
    LET walk[w \in [nextSeq : Nat, it : Nat]] ==
            LET ahead == {s \in DOMAIN sup : w.it <= s /\ s < end(t, curr)}
            IN  IF ~(/\ w.nextSeq < end(t, curr)
                     /\ t[curr].branchSupport > uncommitted(sup, w.it))
                THEN w
                ELSE walk[IF ahead # {}
                          THEN [nextSeq |-> Min(ahead) + 1, it |-> Min(ahead) + 1]
                          ELSE [nextSeq |-> end(t, curr), it |-> w.it]]
    IN  walk[[nextSeq |-> firstSeq, it |-> firstIt]]

\* The order in which the children are sorted.
moreSupported(t, a, b) ==
    \/ t[a].branchSupport > t[b].branchSupport
    \/ t[a].branchSupport = t[b].branchSupport /\ a > b

first(t, cs) ==
    CHOOSE c \in cs : \A d \in cs \ {c} : moreSupported(t, c, d)

\* Mutant: a best child that would also win a tie gets no credit for it.
M_margin(t, cs) ==
    LET best == first(t, cs)
        next == first(t, cs \ {best})
    IN  IF cs = {best} THEN t[best].branchSupport
        ELSE t[best].branchSupport - t[next].branchSupport

\* By how much the best of the children cs leads the second.
margin(t, cs) ==
    LET best == first(t, cs)
        next == first(t, cs \ {best})
    IN  IF cs = {best} THEN t[best].branchSupport
        ELSE t[best].branchSupport - t[next].branchSupport
             + (IF best > next THEN 1 ELSE 0)

getPreferredIn(t, sup, largestIssued) ==
    LET prefer[p \in [curr : DOMAIN t, it : Nat]] ==
            LET nextSeq == start(p.curr) + 1
                walk == alongSpan(t, sup, p.curr, nextSeq,
                                  Max({p.it, nextSeq, largestIssued}))
                kids == children(t, p.curr)
                open == uncommitted(sup, walk.it)
            IN  IF walk.nextSeq < end(t, p.curr)
                THEN at(t[p.curr].tip, walk.nextSeq - 1)
                ELSE IF kids # {} /\ (margin(t, kids) > open \/ open = 0)
                     THEN prefer[[curr |-> first(t, kids), it |-> walk.it]]
                     ELSE t[p.curr].tip
    IN  IF t[Genesis].branchSupport = 0 THEN None
        ELSE prefer[[curr |-> Genesis, it |-> 0]]

getPreferred(largestIssued) == getPreferredIn(nodes, seqSupport, largestIssued)

\* Mutant: an ancestor of the working ledger is preferred to it.
M_workingLedger(curr, largestIssued) ==
    LET p == getPreferred(largestIssued)
    IN  IF seq[p] = seq[curr] + 1 /\ at(p, seq[curr]) = curr THEN curr ELSE p

\* Validations::getPreferred on a trie that is not empty: keep the working
\* ledger when it is the parent of the preferred one, which it may be about to
\* build, or a descendant of it.
workingLedger(curr, largestIssued) ==
    LET p == getPreferred(largestIssued)
    IN  IF \/ seq[p] = seq[curr] + 1 /\ at(p, seq[curr]) = curr
           \/ seq[p] <= seq[curr] /\ at(curr, seq[p]) = p
        THEN curr ELSE p

-------------------------------------------------------------------------------
(* Properties. *)

TypeOK ==
    /\ Genesis \in DOMAIN nodes /\ DOMAIN nodes \subseteq Ledger
    /\ \A n \in DOMAIN nodes :
        /\ nodes[n].tip \in Ledger
        /\ nodes[n].parent \in IF n = Genesis THEN {NoNode} ELSE DOMAIN nodes
        /\ nodes[n].tipSupport \in 0 .. MaxSupport
        /\ nodes[n].branchSupport \in 0 .. MaxSupport
    /\ DOMAIN seqSupport \subseteq 0 .. MaxSeq
    /\ \A s \in DOMAIN seqSupport : seqSupport[s] \in 1 .. MaxSupport

\* LedgerTrie::checkInvariants, after any sequence of inserts and removals: no
\* node but the root can be compressed away, a node's branch support is its
\* tip support plus its children's branch support, and seqSupport is the tip
\* support by sequence number.
checkInvariants ==
    /\ \A n \in DOMAIN nodes :
        /\ n # Genesis /\ nodes[n].tipSupport = 0
              => Cardinality(children(nodes, n)) >= 2
        /\ nodes[n].branchSupport =
              nodes[n].tipSupport + MapThenSumSet(
                  LAMBDA c : nodes[c].branchSupport, children(nodes, n))
    /\ LET supported == {n \in DOMAIN nodes : nodes[n].tipSupport # 0}
       IN  seqSupport = [s \in {end(nodes, n) - 1 : n \in supported} |->
              MapThenSumSet(LAMBDA n : nodes[n].tipSupport,
                            {n \in supported : end(nodes, n) - 1 = s})]

\* The support the nodes hold for each ledger, without looking it up.
heldIn(t, l) ==
    LET owners == {n \in DOMAIN t : t[n].tip = l}
    IN  IF owners = {} THEN 0 ELSE t[CHOOSE n \in owners : TRUE].tipSupport

held == [l \in Ledger |-> heldIn(nodes, l)]

\* Lookups find what the nodes hold: tipSupport the support of the ledger
\* itself, branchSupport that of the ledger and of all its descendants,
\* whether the ledger is the tip of a node or inside a compressed span.
LookupsExact ==
    LET sup == held
    IN  \A l \in Ledger :
            /\ tipSupport(l) = sup[l]
            /\ branchSupport(l) =
                  MapThenSumSet(LAMBDA d : sup[d], Descendants[l])

\* However often nodes were split, erased and merged, the trie is well formed
\* and its lookups are right for every ledger (insert, remove).
NodesExact == TypeOK /\ checkInvariants /\ LookupsExact

\* The uncompressed tree the comment of getPreferred describes: from ledger l,
\* go on to the child whose lead no uncommitted support can overturn.  under
\* is the support of each ledger and its descendants, open that of ledgers
\* older than each sequence number.
PreferredBelow(genesis, under, open, largestIssued) ==
    LET below[l \in Ledger] ==
            LET kids == {k \in Descendants[l] :
                            seq[k] = seq[l] + 1 /\ under[k] > 0}
                free == open[Max({seq[l] + 1, largestIssued})]
                \* k stays ahead of j even if all the free support goes to j
                safe(k, j) == \/ under[k] > under[j] + free
                              \/ under[k] = under[j] + free /\ k > j
                winner == {k \in kids : \A j \in kids \ {k} : safe(k, j)}
            IN  IF \E k \in winner : under[k] > free
                THEN below[CHOOSE k \in winner : under[k] > free]
                ELSE l
    IN  below[genesis]

\* getPreferred, which jumps along compressed spans and over runs of sequence
\* numbers without support, computes that definition, for every sequence
\* number the node may have issued a validation for.
PreferredIsReference ==
    LET sup   == held
        under == [l \in Ledger |->
                     MapThenSumSet(LAMBDA d : sup[d], Descendants[l])]
        open  == [s \in 0 .. MaxSeq + 1 |->
                     MapThenSumSet(LAMBDA d : sup[d],
                                   {d \in Ledger : seq[d] < s})]
    IN  \A n \in 0 .. MaxSeq + 1 :
            ~empty => getPreferred(n) = PreferredBelow(Genesis, under, open, n)

\* The promise behind the uncommitted support: when a validator moves on to a
\* descendant of its last ledger, at least as recent as the last validation
\* this node issued, the preferred ledger is not abandoned: it stays, or
\* extends along its own chain.
PreferredOnlyExtends ==
    \A old \in Ledger : removable(nodes, old) =>
        \A new \in Descendants[old] :
            LET t   == movedIn(nodes, old, new)
                sup == movedSeq(seqSupport, old, new)
            IN  \A n \in 0 .. seq[new] :
                    IsAncestor(getPreferred(n), getPreferredIn(t, sup, n))

\* A node that follows the preferred ledger neither goes back along its own
\* chain nor oscillates: having switched, it keeps the ledger it switched to
\* until the support changes.
FollowingSettles ==
    ~empty => \A curr \in Ledger, n \in 0 .. MaxSeq + 1 :
        LET w == workingLedger(curr, n)
        IN  /\ IsAncestor(w, curr) => w = curr
            /\ workingLedger(w, n) = w

\* The trie implements a bag of ledgers (LedgerSupport): the compressed nodes
\* answer every tipSupport query as the bag does.
Bag == INSTANCE LedgerSupport
           WITH support <- held
ImplementsSupport == Bag!Spec

===============================================================================
