------------------------------ MODULE TrieShape -------------------------------
(***************************************************************************)
(* The shape of the trie of validated ledgers, for every set of ledgers    *)
(* with unique histories: what a well formed trie is, what find returns in *)
(* it, and that insert, with its split of a node and its new leaf, keeps   *)
(* it exact.  Sums, loops and ancestry come first.                         *)
(*                                                                         *)
(* WellFormed(t) is the structure: nodes start where their parent's span   *)
(* ends and on a ledger of their own.  Exact(t) adds that branch supports  *)
(* are the support of all descendants, Compact(t) that no node but the     *)
(* root could be erased or merged.  TrieProofs proves the theorems.        *)
(***************************************************************************)
EXTENDS LedgerTrie, FiniteSetTheorems, TLAPS

-------------------------------------------------------------------------------
(* Least elements, and loops. *)

\* A set of natural numbers with a member has a least one.
LEMMA LeastNatural ==
  ASSUME NEW S \in SUBSET Nat, S # {}
  PROVE  \E m \in S : \A k \in S : m <= k
<1>1. \E m \in S : \A k \in S : ~(<<k, m>> \in OpToRel(<, Nat))
  BY NatLessThanWellFounded, WFMin, Zenon
<1>2. PICK m \in S : \A k \in S : ~(<<k, m>> \in OpToRel(<, Nat))
  BY <1>1, Zenon
<1>3. ASSUME NEW k \in S PROVE m <= k
  <2>1. ~(k < m)
    BY <1>2, ZenonT(30) DEF OpToRel
  <2> QED
    BY <2>1
<1> QED
  BY <1>3

\* A loop that goes on from x to next[x], and returns res[x] when x is in
\* Stop.
IsLoop(S, Stop, res, next, f) ==
  f = [x \in S |-> IF x \in Stop THEN res[x] ELSE f[next[x]]]

\* Every turn lowers the rank.
Terminates(S, Stop, next, K, rank) ==
  /\ K \in Nat /\ next \in [S -> S] /\ rank \in [S -> 0 .. K]
  /\ \A x \in S : x \notin Stop => rank[next[x]] < rank[x]

\* From A the loop can stop only with a result in R.
Leads(S, Stop, res, next, A, R) ==
  /\ A \in SUBSET S
  /\ \A x \in A : IF x \in Stop THEN res[x] \in R ELSE next[x] \in A

\* A loop that terminates is a function.
LEMMA LoopExists ==
  ASSUME NEW S, NEW Stop, NEW res, NEW next, NEW K, NEW rank,
         Terminates(S, Stop, next, K, rank)
  PROVE  \E f : IsLoop(S, Stop, res, next, f)
<1> USE DEF Terminates
<1> DEFINE turn(f, x) == IF x \in Stop THEN res[x] ELSE f[next[x]]
           solves(f, k) == \A x \in S : rank[x] <= k => f[x] = turn(f, x)
           Bad == {k \in 0 .. K : ~ \E f : solves(f, k)}
<1>1. Bad = {}
  <2> SUFFICES ASSUME Bad # {} PROVE FALSE
    OBVIOUS
  <2>1. Bad \in SUBSET Nat
    OBVIOUS
  <2>2. PICK k \in Bad : \A j \in Bad : k <= j
    BY <2>1, LeastNatural, ZenonT(30)
  <2>3. k \in 0 .. K /\ k \in Nat /\ ~ \E f : solves(f, k)
    BY <2>2
  <2>4. CASE k = 0
    <3>1. \A x \in S : rank[x] <= k => x \in Stop
      <4> SUFFICES ASSUME NEW x \in S, rank[x] <= k, x \notin Stop PROVE FALSE
        OBVIOUS
      <4>1. rank[x] \in 0 .. K /\ rank[next[x]] \in 0 .. K
        OBVIOUS
      <4> QED
        BY <4>1, <2>4
    <3>2. solves([x \in S |-> res[x]], k)
      BY <3>1
    <3> QED
      BY <3>2, <2>3, ZenonT(30)
  <2>5. CASE k # 0
    <3>1. k - 1 \in 0 .. K /\ ~(k <= k - 1)
      BY <2>3, <2>5
    <3>2. PICK f : solves(f, k - 1)
      BY <3>1, <2>2
    <3> DEFINE g == [x \in S |-> IF rank[x] <= k - 1 THEN f[x] ELSE turn(f, x)]
    <3>3. ASSUME NEW x \in S PROVE g[x] = turn(f, x)
      BY <3>2
    <3>4. ASSUME NEW x \in S, rank[x] <= k, x \notin Stop
          PROVE  g[next[x]] = f[next[x]]
      <4> USE <3>4
      <4>1. rank[x] \in 0 .. K /\ rank[next[x]] \in 0 .. K
            /\ rank[next[x]] < rank[x] /\ next[x] \in S
        OBVIOUS
      <4> USE <4>1
      <4>2. rank[next[x]] <= k - 1
        BY <2>3
      <4> QED
        BY <4>2
    <3> HIDE DEF g
    <3>5. solves(g, k)
      BY <3>3, <3>4
    <3> QED
      BY <3>5, <2>3
  <2> QED
    BY <2>4, <2>5
<1>2. PICK f : solves(f, K)
  <2>1. K \in 0 .. K
    OBVIOUS
  <2> HIDE DEF solves
  <2> QED
    BY <1>1, <2>1, Zenon
<1>3. \A x \in S : f[x] = turn(f, x)
  BY <1>2
<1>4. [x \in S |-> f[x]] = [x \in S |-> turn([y \in S |-> f[y]], x)]
  BY <1>3
<1> QED
  BY <1>4, ZenonT(30) DEF IsLoop

\* What holds of a loop's result: R, when R holds wherever the loop may stop.
LEMMA LoopResult ==
  ASSUME NEW S, NEW Stop, NEW res, NEW next, NEW K, NEW rank,
         Terminates(S, Stop, next, K, rank),
         NEW f, IsLoop(S, Stop, res, next, f),
         NEW A, NEW R, Leads(S, Stop, res, next, A, R)
  PROVE  \A x \in A : f[x] \in R
<1> USE DEF Terminates, Leads
<1> DEFINE Bad == {rank[x] : x \in {y \in A : f[y] \notin R}}
<1> SUFFICES Bad = {}
  OBVIOUS
<1> SUFFICES ASSUME Bad # {} PROVE FALSE
  OBVIOUS
<1>1. Bad \in SUBSET Nat
  OBVIOUS
<1>2. PICK r \in Bad : \A j \in Bad : r <= j
  BY <1>1, LeastNatural, ZenonT(30)
<1>3. PICK x \in A : f[x] \notin R /\ rank[x] = r
  BY <1>2
<1>4. f[x] = IF x \in Stop THEN res[x] ELSE f[next[x]]
  BY DEF IsLoop
<1> USE <1>3
<1>5. x \notin Stop /\ next[x] \in A /\ f[next[x]] \notin R
  BY <1>4
<1>6. rank[next[x]] \in Bad /\ rank[next[x]] < rank[x]
  BY <1>5
<1>7. rank[next[x]] \in 0 .. K /\ rank[x] \in 0 .. K
  OBVIOUS
<1> HIDE DEF Bad
<1> QED
  BY <1>2, <1>6, <1>7

\* A loop of K turns from s0 through the states S.
AreTurns(s0, step, K, f) ==
  f = [k \in 0 .. K |-> IF k = 0 THEN s0 ELSE step[f[k - 1]]]

\* A loop of K turns exists: its turns can be numbered.
LEMMA TurnsExist ==
  ASSUME NEW S, NEW s0 \in S, NEW K \in Nat, NEW step, step \in [S -> S]
  PROVE  \E f : f \in [0 .. K -> S] /\ AreTurns(s0, step, K, f)
<1> DEFINE turn(f, k) == IF k = 0 THEN s0 ELSE step[f[k - 1]]
           solves(f, j) == /\ f \in [0 .. K -> S]
                           /\ \A k \in 0 .. j : f[k] = turn(f, k)
           Bad == {k \in 0 .. K : ~ \E f : solves(f, k)}
<1>1. Bad = {}
  <2> SUFFICES ASSUME Bad # {} PROVE FALSE
    OBVIOUS
  <2>1. Bad \in SUBSET Nat
    OBVIOUS
  <2>2. PICK j \in Bad : \A i \in Bad : j <= i
    BY <2>1, LeastNatural, ZenonT(30)
  <2>3. j \in 0 .. K /\ j \in Nat /\ ~ \E f : solves(f, j)
    BY <2>2
  <2>4. CASE j = 0
    <3>1. solves([k \in 0 .. K |-> s0], j)
      BY <2>4
    <3> QED
      BY <3>1, <2>3
  <2>5. CASE j # 0
    <3>1. j - 1 \in 0 .. K /\ ~(j <= j - 1)
      BY <2>3, <2>5
    <3>2. PICK f : solves(f, j - 1)
      BY <3>1, <2>2, ZenonT(30)
    <3> DEFINE g == [f EXCEPT ![j] = step[f[j - 1]]]
    <3>3. g \in [0 .. K -> S]
      BY <3>1, <3>2
    <3>4. g[j] = step[g[j - 1]]
      BY <3>1, <3>2, <2>3
    <3>5. ASSUME NEW k \in 0 .. (j - 1) PROVE g[k] = turn(g, k)
      BY <3>1, <3>2, <2>3
    <3> HIDE DEF g
    <3>6. solves(g, j)
      <4> SUFFICES ASSUME NEW k \in 0 .. j PROVE g[k] = turn(g, k)
        BY <3>3
      <4>1. CASE k = j
        BY <4>1, <3>4, <2>5
      <4>2. CASE k # j
        <5>1. k \in 0 .. (j - 1)
          BY <4>2, <2>3
        <5> QED
          BY <5>1, <3>5
      <4> QED
        BY <4>1, <4>2
    <3> QED
      BY <3>6, <2>3
  <2> QED
    BY <2>4, <2>5
<1>2. PICK f : solves(f, K)
  <2>1. K \in 0 .. K
    OBVIOUS
  <2> HIDE DEF solves
  <2> QED
    BY <1>1, <2>1, Zenon
<1>3. f \in [0 .. K -> S] /\ f = [k \in 0 .. K |-> turn(f, k)]
  BY <1>2
<1> QED
  BY <1>3, Zenon DEF AreTurns

-------------------------------------------------------------------------------
(* Sums over finite sets. *)

any(T) == CHOOSE x \in T : TRUE

\* The equation a sum of f over the subsets of S satisfies.
IsSum(f, S, sum) ==
  sum = [T \in SUBSET S |->
           IF T = {} THEN 0 ELSE f[any(T)] + sum[T \ {any(T)}]]

Total(f, S) == (CHOOSE sum : IsSum(f, S, sum))[S]

\* any takes a member of a set that has one.
LEMMA Any == ASSUME NEW T, T # {} PROVE any(T) \in T
BY Zenon DEF any

\* A set of subsets of a finite set with a member has a minimal one.
LEMMA MinimalSet ==
  ASSUME NEW S, IsFiniteSet(S), NEW F \in SUBSET SUBSET S, F # {}
  PROVE  \E T \in F : \A x \in T : T \ {x} \notin F
<1> DEFINE Sizes == {Cardinality(T) : T \in F}
<1>1. \A T \in F : IsFiniteSet(T) /\ Cardinality(T) \in Nat
  BY FS_Subset, FS_CardinalityType
<1>2. PICK m \in Sizes : \A k \in Sizes : m <= k
  <2>1. Sizes \in SUBSET Nat /\ Sizes # {}
    BY <1>1
  <2> QED
    BY <2>1, LeastNatural, ZenonT(30)
<1>3. PICK T \in F : m = Cardinality(T)
  BY <1>2
<1>4. ASSUME NEW x \in T, T \ {x} \in F PROVE FALSE
  <2>1. Cardinality(T \ {x}) = m - 1 /\ m \in Nat
    BY <1>1, <1>3, FS_RemoveElement
  <2>2. Cardinality(T \ {x}) \in Sizes
    BY <1>4
  <2>3. m <= Cardinality(T \ {x})
    BY <2>2, <1>2, Zenon
  <2> QED
    BY <2>1, <2>3
<1> QED
  BY <1>4

\* Two functions that agree on S have the same sum over S.
LEMMA TotalSame ==
  ASSUME NEW S, NEW f, NEW g, \A x \in S : f[x] = g[x]
  PROVE  Total(f, S) = Total(g, S)
<1> USE Zenon
<1>1. ASSUME NEW sum PROVE IsSum(f, S, sum) <=> IsSum(g, S, sum)
  <2> DEFINE one(T) == IF T = {} THEN 0 ELSE f[any(T)] + sum[T \ {any(T)}]
             two(T) == IF T = {} THEN 0 ELSE g[any(T)] + sum[T \ {any(T)}]
  <2>1. ASSUME NEW T \in SUBSET S PROVE one(T) = two(T)
    <3>1. CASE T # {}
      BY <3>1, Any
    <3> QED
      BY <3>1
  <2>2. [T \in SUBSET S |-> one(T)] = [T \in SUBSET S |-> two(T)]
    BY <2>1
  <2> QED
    BY <2>2 DEF IsSum
<1>2. (CHOOSE sum : IsSum(f, S, sum)) = (CHOOSE sum : IsSum(g, S, sum))
  BY <1>1
<1> QED
  BY <1>2 DEF Total

\* The sums of the model.
LEMMA SumIs ==
  ASSUME NEW f, NEW S
  PROVE  MapThenSumSet(LAMBDA x : f[x], S) = Total(f, S)
BY Zenon DEF MapThenSumSet, MapThenFoldSet, Total, IsSum, any

\* The sum of the branch support of a set of nodes (checkInvariants).
LEMMA SumBranch ==
  ASSUME NEW t, NEW S
  PROVE  MapThenSumSet(LAMBDA c : t[c].branchSupport, S)
           = Total([c \in S |-> t[c].branchSupport], S)
<1> DEFINE f == [c \in S |-> t[c].branchSupport]
<1> USE ZenonT(30)
<1>1. ASSUME NEW sum
      PROVE  IsSum(f, S, sum) <=>
               sum = [T \in SUBSET S |->
                        IF T = {} THEN 0
                        ELSE t[any(T)].branchSupport + sum[T \ {any(T)}]]
  <2> DEFINE one(T) == IF T = {} THEN 0 ELSE f[any(T)] + sum[T \ {any(T)}]
             two(T) == IF T = {} THEN 0
                       ELSE t[any(T)].branchSupport + sum[T \ {any(T)}]
  <2>1. ASSUME NEW T \in SUBSET S PROVE one(T) = two(T)
    <3>1. CASE T # {}
      <4>1. any(T) \in S
        BY <3>1, Any
      <4>2. f[any(T)] = t[any(T)].branchSupport
        BY <4>1
      <4> HIDE DEF f
      <4> QED
        BY <4>2
    <3> QED
      BY <3>1
  <2>2. [T \in SUBSET S |-> one(T)] = [T \in SUBSET S |-> two(T)]
    BY <2>1
  <2> QED
    BY <2>2 DEF IsSum
<1> QED
  BY <1>1 DEF MapThenSumSet, MapThenFoldSet, Total, any

\* Every function has a sum over the subsets of a finite set.
LEMMA SumExists ==
  ASSUME NEW S, IsFiniteSet(S), NEW f
  PROVE  \E sum : IsSum(f, S, sum)
<1> DEFINE turn(h, T) == IF T = {} THEN 0 ELSE f[any(T)] + h[T \ {any(T)}]
           solves(h, k) ==
             \A T \in SUBSET S : Cardinality(T) <= k => h[T] = turn(h, T)
           Bad == {k \in Nat : ~ \E h : solves(h, k)}
<1>1. \A T \in SUBSET S : IsFiniteSet(T) /\ Cardinality(T) \in Nat
  BY FS_Subset, FS_CardinalityType
<1>2. ASSUME NEW T \in SUBSET S, T # {}
      PROVE  /\ T \ {any(T)} \in SUBSET S
             /\ Cardinality(T \ {any(T)}) = Cardinality(T) - 1
  BY <1>1, <1>2, Any, FS_RemoveElement
<1>3. Bad = {}
  <2> SUFFICES ASSUME Bad # {} PROVE FALSE
    BY ZenonT(30)
  <2>1. PICK k \in Bad : \A j \in Bad : k <= j
    <3>1. Bad \in SUBSET Nat
      OBVIOUS
    <3> HIDE DEF Bad
    <3> QED
      BY <3>1, LeastNatural
  <2>2. k \in Nat /\ ~ \E h : solves(h, k)
    BY <2>1, Zenon
  <2>3. CASE k = 0
    <3>1. ASSUME NEW T \in SUBSET S, Cardinality(T) <= k PROVE T = {}
      BY <3>1, <2>3, <1>1, FS_EmptySet
    <3> USE Zenon
    <3>2. solves([T \in SUBSET S |-> 0], k)
      BY <3>1
    <3> QED
      BY <3>2, <2>2
  <2>4. CASE k # 0
    <3>1. k - 1 \in Nat /\ ~(k <= k - 1)
      BY <2>2, <2>4
    <3>2. PICK h : solves(h, k - 1)
      <4> USE <3>1, Zenon
      <4>1. k - 1 \notin Bad
        BY <2>1
      <4> QED
        BY <4>1
    <3> DEFINE g == [T \in SUBSET S |->
                       IF Cardinality(T) <= k - 1 THEN h[T] ELSE turn(h, T)]
    <3>3. ASSUME NEW T \in SUBSET S PROVE g[T] = turn(h, T)
      BY <3>2, Zenon
    <3>4. ASSUME NEW T \in SUBSET S, Cardinality(T) <= k
          PROVE  turn(g, T) = turn(h, T)
      <4>1. CASE T # {}
        <5>1. T \ {any(T)} \in SUBSET S /\ Cardinality(T \ {any(T)}) <= k - 1
          BY <4>1, <3>4, <1>1, <1>2, <2>2
        <5> USE Zenon
        <5>2. g[T \ {any(T)}] = h[T \ {any(T)}]
          BY <5>1
        <5> HIDE DEF g
        <5> QED
          BY <5>2
      <4> QED
        BY <4>1, Zenon
    <3> HIDE DEF g
    <3>5. solves(g, k)
      BY <3>3, <3>4, Zenon
    <3> QED
      BY <3>5, <2>2, Zenon
  <2> QED
    BY <2>3, <2>4, Zenon
<1>4. PICK h : solves(h, Cardinality(S))
  <2> USE Zenon
  <2>1. Cardinality(S) \notin Bad
    BY <1>3
  <2>2. S \in SUBSET S
    OBVIOUS
  <2> QED
    BY <2>1, <2>2, <1>1
<1> DEFINE sum == [T \in SUBSET S |-> h[T]]
<1>5. ASSUME NEW T \in SUBSET S PROVE h[T] = turn(sum, T)
  <2>1. Cardinality(T) <= Cardinality(S)
    BY FS_Subset
  <2> USE Zenon
  <2>2. h[T] = turn(h, T)
    BY <2>1, <1>4
  <2>3. turn(sum, T) = turn(h, T)
    <3>1. CASE T # {}
      <4>1. sum[T \ {any(T)}] = h[T \ {any(T)}]
        BY <3>1, <1>2
      <4> HIDE DEF sum
      <4> QED
        BY <4>1
    <3> QED
      BY <3>1
  <2> QED
    BY <2>2, <2>3
<1>6. sum = [T \in SUBSET S |-> turn(sum, T)]
  <2>1. sum = [T \in SUBSET S |-> h[T]]
    OBVIOUS
  <2> HIDE DEF sum
  <2> QED
    BY <2>1, <1>5, Zenon
<1> HIDE DEF sum
<1> QED
  BY <1>6, Zenon DEF IsSum

\* What the equation says at one subset.
LEMMA SumTurn ==
  ASSUME NEW S, NEW f, NEW sum, IsSum(f, S, sum), NEW T \in SUBSET S
  PROVE  /\ T = {} => sum[T] = 0
         /\ T # {} => sum[T] = f[any(T)] + sum[T \ {any(T)}]
BY Zenon DEF IsSum

\* The sum does not depend on the set in which it is taken.
LEMMA SumUnique ==
  ASSUME NEW S, IsFiniteSet(S), NEW f, NEW T \in SUBSET S,
         NEW g, IsSum(f, S, g), NEW h, IsSum(f, T, h)
  PROVE  g[T] = h[T]
<1> DEFINE Bad == {U \in SUBSET T : g[U] # h[U]}
<1> SUFFICES ASSUME Bad # {} PROVE FALSE
  BY Zenon
<1>1. IsFiniteSet(T) /\ Bad \in SUBSET SUBSET T
  BY FS_Subset
<1>2. PICK U \in Bad : \A x \in U : U \ {x} \notin Bad
  <2> HIDE DEF Bad
  <2> QED
    BY <1>1, MinimalSet, Zenon
<1>3. U \in SUBSET T /\ U \in SUBSET S /\ g[U] # h[U]
  BY <1>2, Zenon
<1> HIDE DEF Bad
<1> USE <1>3
<1>4. CASE U = {}
  BY <1>4, SumTurn
<1>5. CASE U # {}
  <2> USE <1>5
  <2>1. any(U) \in U
    BY Any, Zenon
  <2>2. g[U \ {any(U)}] = h[U \ {any(U)}]
    BY <2>1, <1>2, Zenon DEF Bad
  <2>3. g[U] = f[any(U)] + g[U \ {any(U)}]
    BY SumTurn
  <2>4. h[U] = f[any(U)] + h[U \ {any(U)}]
    BY SumTurn
  <2> QED
    BY <2>2, <2>3, <2>4, Zenon
<1> QED
  BY <1>4, <1>5, Zenon

\* The sum over no elements.
LEMMA TotalEmpty == ASSUME NEW f PROVE Total(f, {}) = 0
<1> DEFINE h == CHOOSE sum : IsSum(f, {}, sum)
<1> USE ZenonT(30)
<1>1. IsSum(f, {}, h)
  BY FS_EmptySet, SumExists
<1>2. {} \in SUBSET {}
  OBVIOUS
<1> HIDE DEF h
<1>3. h[{}] = 0
  BY <1>1, <1>2, SumTurn
<1> QED
  BY <1>3 DEF Total, h

\* The sum, by the element it takes first.
LEMMA TotalAny ==
  ASSUME NEW S, IsFiniteSet(S), S # {}, NEW f
  PROVE  Total(f, S) = f[any(S)] + Total(f, S \ {any(S)})
<1> DEFINE T == S \ {any(S)}
           g == CHOOSE sum : IsSum(f, S, sum)
           h == CHOOSE sum : IsSum(f, T, sum)
<1>1. IsFiniteSet(T) /\ T \in SUBSET S /\ S \in SUBSET S /\ T \in SUBSET T
  BY FS_Subset
<1>2. IsSum(f, S, g)
  BY SumExists, Zenon
<1> USE <1>1
<1>3. IsSum(f, T, h)
  <2> HIDE DEF T
  <2> QED
    BY SumExists, Zenon
<1>4. Total(f, S) = g[S] /\ Total(f, T) = h[T]
  BY Zenon DEF Total
<1> HIDE DEF g, h
<1> USE <1>2
<1>5. g[S] = f[any(S)] + g[T]
  BY SumTurn
<1>6. g[T] = h[T]
  <2> HIDE DEF T
  <2> QED
    BY <1>3, SumUnique
<1> QED
  BY <1>4, <1>5, <1>6, Zenon

\* A sum of natural numbers is a natural number.
LEMMA TotalNat ==
  ASSUME NEW S, IsFiniteSet(S), NEW f, \A x \in S : f[x] \in Nat
  PROVE  Total(f, S) \in Nat
<1> DEFINE Bad == {T \in SUBSET S : Total(f, T) \notin Nat}
<1> SUFFICES ASSUME Bad # {} PROVE FALSE
  BY Zenon
<1>1. PICK T \in Bad : \A x \in T : T \ {x} \notin Bad
  <2>1. Bad \in SUBSET SUBSET S
    OBVIOUS
  <2> HIDE DEF Bad
  <2> QED
    BY <2>1, MinimalSet, Zenon
<1>2. T \in SUBSET S /\ Total(f, T) \notin Nat /\ IsFiniteSet(T)
  BY <1>1, FS_Subset
<1> USE <1>2
<1>3. T # {}
  BY TotalEmpty
<1> USE <1>3
<1>4. any(T) \in T /\ f[any(T)] \in Nat
  BY Any, Zenon
<1> USE <1>4
<1>5. Total(f, T \ {any(T)}) \in Nat
  BY <1>1, Zenon
<1>6. Total(f, T) = f[any(T)] + Total(f, T \ {any(T)})
  BY TotalAny, Zenon
<1> QED
  BY <1>5, <1>6

\* Any element can be taken out of a sum.
LEMMA TotalRemove ==
  ASSUME NEW S, IsFiniteSet(S), NEW f, \A x \in S : f[x] \in Nat,
         NEW a \in S
  PROVE  Total(f, S) = f[a] + Total(f, S \ {a})
<1> DEFINE Bad == {T \in SUBSET S :
                     \E x \in T : Total(f, T) # f[x] + Total(f, T \ {x})}
<1> SUFFICES ASSUME Bad # {} PROVE FALSE
  BY Zenon
<1>1. PICK T \in Bad : \A x \in T : T \ {x} \notin Bad
  <2>1. Bad \in SUBSET SUBSET S
    OBVIOUS
  <2> HIDE DEF Bad
  <2> QED
    BY <2>1, MinimalSet, Zenon
<1>2. T \in SUBSET S /\ IsFiniteSet(T)
  BY <1>1, FS_Subset
<1>3. PICK x \in T : Total(f, T) # f[x] + Total(f, T \ {x})
  BY <1>1, Zenon
<1> DEFINE c == any(T)
<1> USE <1>3
<1>4. c \in T
  BY Any, Zenon
<1>5. Total(f, T) = f[c] + Total(f, T \ {c})
  BY <1>2, TotalAny, Zenon
<1> HIDE DEF c
<1>6. c # x
  BY <1>5, Zenon
<1>7. T \ {c} \notin Bad /\ T \ {x} \notin Bad
  BY <1>1, <1>4, Zenon
<1>8. x \in T \ {c} /\ c \in T \ {x} /\ T \ {c} \in SUBSET S /\ T \ {x} \in SUBSET S
  BY <1>2, <1>4, <1>6, Zenon
<1>9. Total(f, T \ {c}) = f[x] + Total(f, (T \ {c}) \ {x})
  BY <1>7, <1>8, Zenon
<1>10. Total(f, T \ {x}) = f[c] + Total(f, (T \ {x}) \ {c})
  BY <1>7, <1>8, Zenon
<1>11. Total(f, T \ {x}) = f[c] + Total(f, (T \ {c}) \ {x})
  <2> USE Zenon
  <2>1. (T \ {x}) \ {c} = (T \ {c}) \ {x}
    OBVIOUS
  <2> QED
    BY <1>10, <2>1
<1>12. f[x] \in Nat /\ f[c] \in Nat
  BY <1>2, <1>4, Zenon
<1>13. Total(f, (T \ {c}) \ {x}) \in Nat
  <2> USE Zenon
  <2>1. IsFiniteSet((T \ {c}) \ {x}) /\ \A y \in (T \ {c}) \ {x} : f[y] \in Nat
    BY <1>2, FS_RemoveElement
  <2> QED
    BY <2>1, TotalNat
<1> HIDE DEF Bad
<1> QED
  BY <1>5, <1>9, <1>11, <1>12, <1>13

\* Sums over disjoint sets add up.
LEMMA TotalUnion ==
  ASSUME NEW A, IsFiniteSet(A), NEW B, IsFiniteSet(B), A \cap B = {},
         NEW f, \A x \in A \cup B : f[x] \in Nat
  PROVE  Total(f, A \cup B) = Total(f, A) + Total(f, B)
<1> DEFINE Bad == {T \in SUBSET A :
                     Total(f, T \cup B) # Total(f, T) + Total(f, B)}
<1> SUFFICES ASSUME Bad # {} PROVE FALSE
  BY Zenon
<1>1. PICK T \in Bad : \A x \in T : T \ {x} \notin Bad
  <2>1. Bad \in SUBSET SUBSET A
    OBVIOUS
  <2> HIDE DEF Bad
  <2> QED
    BY <2>1, MinimalSet, Zenon
<1>2. T \in SUBSET A /\ IsFiniteSet(T) /\ IsFiniteSet(T \cup B)
  BY <1>1, FS_Subset, FS_Union, ZenonT(30)
<1>3. Total(f, T \cup B) # Total(f, T) + Total(f, B)
  BY <1>1, Zenon
<1>4. (\A y \in T \cup B : f[y] \in Nat) /\ (\A y \in T : f[y] \in Nat)
  BY <1>2, Zenon
<1>5. Total(f, B) \in Nat
  BY TotalNat
<1>6. CASE T = {}
  <2> USE <1>6
  <2>1. T \cup B = B
    BY Zenon
  <2>2. Total(f, T) = 0
    BY TotalEmpty, Zenon
  <2>3. Total(f, T \cup B) = Total(f, B)
    BY <2>1, Zenon
  <2> HIDE DEF Bad
  <2> QED
    BY <2>2, <2>3, <1>3, <1>5
<1>7. CASE T # {}
  <2>1. PICK x \in T : TRUE
    BY <1>7, Zenon
  <2> USE <1>2
  <2>2. x \notin B /\ x \in T \cup B
    BY <2>1, Zenon
  <2>3. (T \cup B) \ {x} = (T \ {x}) \cup B
    BY <2>2, Zenon
  <2> USE <1>4
  <2>4. Total(f, T \cup B) = f[x] + Total(f, (T \cup B) \ {x})
    BY <2>2, TotalRemove, Zenon
  <2>5. Total(f, T) = f[x] + Total(f, T \ {x})
    BY <2>1, TotalRemove, Zenon
  <2>6. Total(f, (T \ {x}) \cup B) = Total(f, T \ {x}) + Total(f, B)
    BY <1>1, Zenon
  <2>7. f[x] \in Nat
    BY Zenon
  <2>8. Total(f, T \ {x}) \in Nat
    <3> USE Zenon
    <3>1. IsFiniteSet(T \ {x}) /\ \A y \in T \ {x} : f[y] \in Nat
      BY FS_RemoveElement
    <3> QED
      BY <3>1, TotalNat
  <2>9. Total(f, T \cup B) = f[x] + (Total(f, T \ {x}) + Total(f, B))
    BY <2>3, <2>4, <2>6, Zenon
  <2> HIDE DEF Bad
  <2> QED
    BY <2>5, <2>7, <2>8, <2>9, <1>3, <1>5
<1> QED
  BY <1>6, <1>7, Zenon

\* The sum over a subset is no larger.
LEMMA TotalSubset ==
  ASSUME NEW S, IsFiniteSet(S), NEW T \in SUBSET S,
         NEW f, \A x \in S : f[x] \in Nat
  PROVE  /\ Total(f, T) \in Nat /\ Total(f, S) \in Nat
         /\ Total(f, S \ T) \in Nat
         /\ Total(f, S) = Total(f, T) + Total(f, S \ T)
<1>1. /\ IsFiniteSet(T) /\ IsFiniteSet(S \ T)
      /\ T \cap (S \ T) = {} /\ S = T \cup (S \ T)
  BY FS_Subset
<1>2. (\A x \in T : f[x] \in Nat) /\ (\A x \in S \ T : f[x] \in Nat)
  BY Zenon
<1> DEFINE U == S \ T
<1> USE <1>1, <1>2
<1>3. /\ IsFiniteSet(U) /\ T \cap U = {} /\ S = T \cup U
      /\ \A x \in U : f[x] \in Nat
  BY Zenon
<1> HIDE DEF U
<1> USE <1>3
<1>4. Total(f, T \cup U) = Total(f, T) + Total(f, U)
  BY TotalUnion
<1>5. Total(f, T) \in Nat /\ Total(f, U) \in Nat
  BY TotalNat, Zenon
<1>6. Total(f, S) \in Nat
  BY TotalNat, Zenon
<1> QED
  BY <1>4, <1>5, <1>6, Zenon DEF U

\* Zeros add nothing.
LEMMA TotalZero ==
  ASSUME NEW S, IsFiniteSet(S), NEW f, \A x \in S : f[x] = 0
  PROVE  Total(f, S) = 0
<1> DEFINE Bad == {T \in SUBSET S : Total(f, T) # 0}
<1> SUFFICES ASSUME Bad # {} PROVE FALSE
  BY Zenon
<1>1. PICK T \in Bad : \A x \in T : T \ {x} \notin Bad
  <2>1. Bad \in SUBSET SUBSET S
    OBVIOUS
  <2> HIDE DEF Bad
  <2> QED
    BY <2>1, MinimalSet, Zenon
<1>2. T \in SUBSET S /\ Total(f, T) # 0 /\ IsFiniteSet(T)
  BY <1>1, FS_Subset
<1> USE <1>2
<1>3. T # {}
  BY TotalEmpty, Zenon
<1> USE <1>3
<1>4. any(T) \in T /\ f[any(T)] = 0
  BY Any, Zenon
<1> USE <1>4
<1>5. Total(f, T \ {any(T)}) = 0
  BY <1>1, Zenon
<1>6. Total(f, T) = f[any(T)] + Total(f, T \ {any(T)})
  BY TotalAny, Zenon
<1> HIDE DEF Bad
<1> QED
  BY <1>5, <1>6

\* Elements that contribute nothing can be left out.
LEMMA TotalSupport ==
  ASSUME NEW S, IsFiniteSet(S), NEW T \in SUBSET S,
         NEW f, \A x \in S : f[x] \in Nat, \A x \in S \ T : f[x] = 0
  PROVE  Total(f, S) = Total(f, T)
<1>1. /\ Total(f, T) \in Nat /\ Total(f, S) = Total(f, T) + Total(f, S \ T)
  BY TotalSubset, Zenon
<1>2. Total(f, S \ T) = 0
  <2>1. IsFiniteSet(S \ T)
    BY FS_Subset
  <2> DEFINE U == S \ T
  <2> USE Zenon
  <2>2. IsFiniteSet(U) /\ \A x \in U : f[x] = 0
    BY <2>1
  <2> HIDE DEF U
  <2>3. Total(f, U) = 0
    BY <2>2, TotalZero
  <2> QED
    BY <2>3 DEF U
<1> QED
  BY <1>1, <1>2

\* The sum over one element.
LEMMA TotalSingle ==
  ASSUME NEW f, NEW a, f[a] \in Nat
  PROVE  Total(f, {a}) = f[a]
<1>1. IsFiniteSet({a}) /\ {a} \ {a} = {} /\ any({a}) = a
  BY FS_Singleton, Any, Zenon
<1> USE <1>1
<1>2. Total(f, {a}) = f[a] + Total(f, {})
  <2>1. {a} # {}
    OBVIOUS
  <2> USE Zenon
  <2>2. Total(f, {a}) = f[any({a})] + Total(f, {a} \ {any({a})})
    BY <2>1, TotalAny
  <2> QED
    BY <2>2
<1> QED
  BY <1>2, TotalEmpty

\* A change at one point changes the sum by as much.
LEMMA TotalChange ==
  ASSUME NEW S, IsFiniteSet(S), NEW f, \A x \in S : f[x] \in Nat,
         NEW g, \A x \in S : g[x] \in Nat,
         NEW a \in S, \A x \in S : x # a => g[x] = f[x]
  PROVE  Total(g, S) = Total(f, S) + (g[a] - f[a])
<1> DEFINE T == S \ {a}
<1>1. Total(f, S) = f[a] + Total(f, T)
  BY TotalRemove, Zenon
<1>2. Total(g, S) = g[a] + Total(g, T)
  BY TotalRemove, Zenon
<1>3. IsFiniteSet(T) /\ (\A x \in T : f[x] \in Nat) /\ \A x \in T : f[x] = g[x]
  BY FS_RemoveElement, Zenon
<1> HIDE DEF T
<1>4. Total(f, T) = Total(g, T) /\ Total(f, T) \in Nat
  BY <1>3, TotalSame, TotalNat, Zenon
<1>5. f[a] \in Nat /\ g[a] \in Nat
  BY Zenon
<1> QED
  BY <1>1, <1>2, <1>4, <1>5

\* D splits the set it covers into disjoint parts, and B sums f over each.
IsPartition(K, L, D, f, B) ==
  /\ IsFiniteSet(K) /\ IsFiniteSet(L) /\ \A x \in L : f[x] \in Nat
  /\ \A k \in K : D[k] \in SUBSET L /\ B[k] = Total(f, D[k])
  /\ \A j, k \in K : j # k => D[j] \cap D[k] = {}

Covered(K, D) == UNION {D[k] : k \in K}

\* The sum of the sums of disjoint sets is the sum over their union.
LEMMA TotalPartition ==
  ASSUME NEW K, NEW L, NEW D, NEW f, NEW B, IsPartition(K, L, D, f, B)
  PROVE  Total(B, K) = Total(f, Covered(K, D))
<1> DEFINE over(T) == UNION {D[k] : k \in T}
           Bad == {T \in SUBSET K : Total(B, T) # Total(f, over(T))}
<1> SUFFICES ASSUME Bad # {} PROVE FALSE
  BY Zenon DEF Covered
<1>0. IsFiniteSet(K) /\ IsFiniteSet(L) /\ \A x \in L : f[x] \in Nat
  BY Zenon DEF IsPartition
<1>1. PICK T \in Bad : \A x \in T : T \ {x} \notin Bad
  <2>1. Bad \in SUBSET SUBSET K
    OBVIOUS
  <2> HIDE DEF Bad
  <2> QED
    BY <2>1, <1>0, MinimalSet, Zenon
<1>2. T \in SUBSET K /\ IsFiniteSet(T) /\ Total(B, T) # Total(f, over(T))
  BY <1>0, <1>1, FS_Subset
<1>3. CASE T = {}
  <2> USE <1>3
  <2>1. over(T) = {}
    OBVIOUS
  <2> HIDE DEF over, Bad
  <2> QED
    BY <2>1, <1>2, TotalEmpty, Zenon
<1>4. CASE T # {}
  <2> DEFINE a == any(T)
             U == T \ {a}
  <2>1. a \in T
    BY <1>4, Any, Zenon
  <2>2. Total(B, T) = B[a] + Total(B, U)
    BY <1>2, <1>4, TotalAny, Zenon
  <2> HIDE DEF a
  <2>3. U \in SUBSET K /\ Total(B, U) = Total(f, over(U))
    BY <2>1, <1>1, <1>2, Zenon
  <2>4. a \in K /\ D[a] \in SUBSET L /\ B[a] = Total(f, D[a])
    BY <2>1, <1>2, Zenon DEF IsPartition
  <2>5. over(T) = D[a] \cup over(U)
    <3> USE Zenon
    <3>1. ASSUME NEW x PROVE x \in over(T) <=> x \in D[a] \/ x \in over(U)
      BY <2>1
    <3> HIDE DEF over
    <3> QED
      BY <3>1
  <2>6. over(U) \in SUBSET L
    <3> USE Zenon
    <3>1. ASSUME NEW x \in over(U) PROVE x \in L
      BY <2>3 DEF IsPartition
    <3> HIDE DEF over
    <3> QED
      BY <3>1
  <2> USE <2>4
  <2>7. D[a] \cap over(U) = {}
    <3> USE Zenon
    <3>1. ASSUME NEW x, x \in D[a], x \in over(U) PROVE FALSE
      BY <3>1, <2>3, ZenonT(30) DEF IsPartition
    <3> HIDE DEF over
    <3> QED
      BY <3>1
  <2> HIDE DEF over, U, Bad
  <2> USE <1>0, <2>6
  <2>8. Total(f, D[a] \cup over(U)) = Total(f, D[a]) + Total(f, over(U))
    <3>1. IsFiniteSet(D[a]) /\ IsFiniteSet(over(U))
      BY FS_Subset
    <3> USE Zenon
    <3>2. \A x \in D[a] \cup over(U) : f[x] \in Nat
      OBVIOUS
    <3> QED
      BY <3>1, <3>2, <2>7, TotalUnion, ZenonT(30)
  <2> QED
    BY <1>2, <2>2, <2>3, <2>5, <2>8, Zenon
<1> QED
  BY <1>3, <1>4, Zenon

-------------------------------------------------------------------------------
(* Ancestry. *)

\* Every ledger has a sequence number, and its ancestors have theirs.
LEMMA Seqs ==
  ASSUME NEW l \in Ledger
  PROVE  /\ l \in Nat /\ seq[l] \in Nat
         /\ at(l, seq[l]) = l /\ at(l, 0) = Genesis
<1>1. l \in Nat /\ History[l] \in Seq(Ledger) /\ History[l] # <<>>
  BY HistoryAssumption
<1>2. seq[l] = Len(History[l]) - 1
  BY DEF seq
<1> USE <1>1
<1>3. Len(History[l]) \in Nat \ {0}
  OBVIOUS
<1>4. at(l, seq[l]) = l /\ at(l, 0) = Genesis
  BY HistoryAssumption
<1> QED
  BY <1>2, <1>3, <1>4

\* An ancestor shares the history up to itself (the unique history invariant).
LEMMA Ancestor ==
  ASSUME NEW l \in Ledger, NEW s \in 0 .. seq[l]
  PROVE  /\ at(l, s) \in Ledger /\ seq[at(l, s)] = s
         /\ \A r \in 0 .. s : at(at(l, s), r) = at(l, r)
<1>1. seq[l] \in Nat /\ History[l] \in Seq(Ledger) /\ seq[l] = Len(History[l]) - 1
  BY Seqs, HistoryAssumption DEF seq
<1>2. s \in Nat /\ s + 1 \in 1 .. Len(History[l])
  BY <1>1
<1> USE <1>2
<1>3. at(l, s) \in Ledger
  BY <1>1 DEF at
<1>4. History[at(l, s)] = SubSeq(History[l], 1, s + 1)
  BY HistoryAssumption
<1> DEFINE h == History[l]
           g == SubSeq(h, 1, s + 1)
<1>5. Len(g) = s + 1 /\ \A r \in 0 .. s : g[r + 1] = h[r + 1]
  <2>1. h \in Seq(Ledger) /\ s + 1 \in 1 .. Len(h)
    BY <1>1
  <2> HIDE DEF h
  <2> USE <2>1
  <2>2. Len(g) = s + 1
    OBVIOUS
  <2>3. ASSUME NEW r \in 0 .. s PROVE g[r + 1] = h[r + 1]
    <3>1. r + 1 \in 1 .. (s + 1)
      OBVIOUS
    <3> QED
      BY <3>1
  <2> QED
    BY <2>2, <2>3
<1>6. Len(History[at(l, s)]) = s + 1
      /\ \A r \in 0 .. s : History[at(l, s)][r + 1] = History[l][r + 1]
  BY <1>4, <1>5
<1> USE <1>3, <1>6
<1>7. seq[at(l, s)] = s
  <2>1. seq[at(l, s)] = Len(History[at(l, s)]) - 1
    BY DEF seq
  <2> QED
    BY <2>1
<1>8. \A r \in 0 .. s : at(at(l, s), r) = at(l, r)
  BY Zenon DEF at
<1> QED
  BY <1>7, <1>8

\* IsAncestor is a partial order, linear below each ledger.
LEMMA AncestorRefl ==
  ASSUME NEW l \in Ledger
  PROVE  IsAncestor(l, l)
  BY Seqs DEF IsAncestor

\* An ancestor of an ancestor is an ancestor.
LEMMA AncestorTrans ==
  ASSUME NEW a \in Ledger, NEW b \in Ledger, NEW c \in Ledger,
         IsAncestor(a, b), IsAncestor(b, c)
  PROVE  IsAncestor(a, c)
<1>1. /\ seq[a] \in Nat /\ seq[b] \in Nat /\ seq[c] \in Nat
      /\ seq[a] <= seq[b] /\ seq[b] <= seq[c]
      /\ at(b, seq[a]) = a /\ at(c, seq[b]) = b
  BY Seqs DEF IsAncestor
<1> USE <1>1
<1>2. seq[b] \in 0 .. seq[c] /\ seq[a] \in 0 .. seq[b] /\ seq[a] <= seq[c]
  OBVIOUS
<1> USE <1>2
<1>3. at(at(c, seq[b]), seq[a]) = at(c, seq[a])
  BY Ancestor
<1> QED
  BY <1>3 DEF IsAncestor

\* The ancestors of one ledger are a chain.
LEMMA AncestorLinear ==
  ASSUME NEW a \in Ledger, NEW b \in Ledger, NEW c \in Ledger,
         IsAncestor(a, c), IsAncestor(b, c), seq[a] <= seq[b]
  PROVE  IsAncestor(a, b)
<1>1. /\ seq[a] \in Nat /\ seq[b] \in Nat /\ seq[c] \in Nat
      /\ seq[b] <= seq[c]
      /\ at(c, seq[a]) = a /\ at(c, seq[b]) = b
  BY Seqs DEF IsAncestor
<1> USE <1>1
<1>2. seq[b] \in 0 .. seq[c] /\ seq[a] \in 0 .. seq[b]
  OBVIOUS
<1> USE <1>2
<1>3. at(at(c, seq[b]), seq[a]) = at(c, seq[a])
  BY Ancestor
<1> QED
  BY <1>3 DEF IsAncestor

\* Where an ancestor stands in the history of its descendant.
LEMMA AncestorSeq ==
  ASSUME NEW a \in Ledger, NEW b \in Ledger, IsAncestor(a, b)
  PROVE  /\ seq[a] <= seq[b] /\ seq[a] \in 0 .. seq[b] /\ at(b, seq[a]) = a
         /\ seq[a] = seq[b] => a = b
<1>1. seq[a] <= seq[b] /\ at(b, seq[a]) = a /\ seq[a] \in Nat /\ seq[b] \in Nat
  BY Seqs DEF IsAncestor
<1>2. at(b, seq[b]) = b
  BY Seqs
<1> QED
  BY <1>1, <1>2

\* Ledger::operator[] gives an ancestor.
LEMMA AtAncestor ==
  ASSUME NEW l \in Ledger, NEW s \in 0 .. seq[l]
  PROVE  at(l, s) \in Ledger /\ seq[at(l, s)] = s /\ IsAncestor(at(l, s), l)
<1>1. at(l, s) \in Ledger /\ seq[at(l, s)] = s
  BY Ancestor
<1>2. s <= seq[l]
  BY Seqs
<1> QED
  BY <1>1, <1>2 DEF IsAncestor

\* Every history starts with the genesis ledger.
LEMMA GenesisFirst ==
  ASSUME NEW l \in Ledger
  PROVE  Genesis \in Ledger /\ seq[Genesis] = 0 /\ IsAncestor(Genesis, l)
<1>1. 0 \in 0 .. seq[l] /\ at(l, 0) = Genesis
  BY Seqs
<1> QED
  BY <1>1, AtAncestor

-------------------------------------------------------------------------------
(* Spans. *)

\* A bounded set of numbers with a member has a greatest one.
LEMMA BoundedMax ==
  ASSUME NEW K \in Nat, NEW S \in SUBSET (0 .. K), S # {}
  PROVE  Max(S) \in S /\ \A y \in S : y <= Max(S)
<1> DEFINE D == {K - s : s \in S}
<1>1. D \in SUBSET Nat /\ D # {}
  <2>1. \A s \in S : K - s \in Nat
    OBVIOUS
  <2>2. \A e \in D : e \in Nat
    BY <2>1
  <2>3. PICK s \in S : TRUE
    BY ZenonT(30)
  <2>4. K - s \in D
    OBVIOUS
  <2> QED
    BY <2>2, <2>4, Zenon
<1>2. PICK d \in D : \A e \in D : d <= e
  BY <1>1, LeastNatural, Zenon
<1>3. PICK m \in S : d = K - m
  BY <1>2
<1>4. ASSUME NEW y \in S PROVE m >= y
  <2>1. K - y \in D /\ y \in 0 .. K /\ m \in 0 .. K
    OBVIOUS
  <2> USE <2>1
  <2>2. K - m <= K - y
    BY <1>2, <1>3
  <2> QED
    BY <2>2
<1>5. \E x \in S : \A y \in S : x >= y
  BY <1>4
<1>6. Max(S) \in S /\ \A y \in S : Max(S) >= y
  BY <1>5, Zenon DEF Max
<1> QED
  BY <1>6

\* The smaller of two numbers.
LEMMA MinOfTwo ==
  ASSUME NEW a \in Int, NEW b \in Int
  PROVE  Min({a, b}) = IF a <= b THEN a ELSE b
<1> DEFINE m == IF a <= b THEN a ELSE b
<1>1. m \in {a, b} /\ \A y \in {a, b} : m =< y
  OBVIOUS
<1>2. Min({a, b}) \in {a, b} /\ \A y \in {a, b} : Min({a, b}) =< y
  BY <1>1, Zenon DEF Min
<1> QED
  BY <1>2

\* The larger of two numbers.
LEMMA MaxOfTwo ==
  ASSUME NEW a \in Int, NEW b \in Int
  PROVE  Max({a, b}) = IF a >= b THEN a ELSE b
<1> DEFINE m == IF a >= b THEN a ELSE b
<1>1. m \in {a, b} /\ \A y \in {a, b} : m >= y
  OBVIOUS
<1>2. Max({a, b}) \in {a, b} /\ \A y \in {a, b} : Max({a, b}) >= y
  BY <1>1, Zenon DEF Max
<1> QED
  BY <1>2

\* mismatch is one past the last common ancestor.
LEMMA Mismatch ==
  ASSUME NEW a \in Ledger, NEW b \in Ledger
  PROVE  /\ mismatch[a][b] \in 1 .. (seq[a] + 1)
         /\ mismatch[a][b] <= seq[b] + 1
         /\ \A x \in Ledger : IsAncestor(x, a)
              => (IsAncestor(x, b) <=> seq[x] < mismatch[a][b])
<1> DEFINE K == Min({seq[a], seq[b]})
           S == {s \in 0 .. K : at(a, s) = at(b, s)}
<1>1. seq[a] \in Nat /\ seq[b] \in Nat /\ at(a, 0) = Genesis /\ at(b, 0) = Genesis
  BY Seqs
<1>2. K \in Nat /\ K <= seq[a] /\ K <= seq[b]
      /\ \A s \in Nat : s <= seq[a] /\ s <= seq[b] => s \in 0 .. K
  BY <1>1, MinOfTwo
<1> HIDE DEF K
<1>3. S \in SUBSET (0 .. K) /\ S # {}
  <2>1. 0 \in S
    BY <1>1, <1>2
  <2> QED
    BY <2>1
<1>4. Max(S) \in S /\ \A y \in S : y <= Max(S)
  BY <1>2, <1>3, BoundedMax, Zenon
<1>5. mismatch[a][b] = 1 + Max(S)
  BY Zenon DEF mismatch, K
<1> DEFINE m == Max(S)
<1>6. m \in 0 .. K /\ at(a, m) = at(b, m) /\ \A y \in S : y <= m
  BY <1>4
<1> HIDE DEF m
<1>7. m \in 0 .. seq[a] /\ m \in 0 .. seq[b]
  BY <1>1, <1>2, <1>6
<1>8. ASSUME NEW x \in Ledger, IsAncestor(x, a)
      PROVE  IsAncestor(x, b) <=> seq[x] < 1 + m
  <2>1. seq[x] \in Nat
    BY Seqs
  <2>2. ASSUME IsAncestor(x, b) PROVE seq[x] < 1 + m
    <3>1. seq[x] <= seq[a] /\ seq[x] <= seq[b] /\ at(a, seq[x]) = at(b, seq[x])
      BY <1>8, <2>2 DEF IsAncestor
    <3> USE <2>1
    <3>2. seq[x] \in S
      BY <3>1, <1>2
    <3>3. seq[x] <= m
      BY <3>2, <1>6, Zenon
    <3> QED
      BY <3>3, <1>7
  <2>3. ASSUME seq[x] < 1 + m PROVE IsAncestor(x, b)
    <3> USE <1>7
    <3>1. /\ at(a, m) \in Ledger /\ seq[at(a, m)] = m
          /\ IsAncestor(at(a, m), a) /\ IsAncestor(at(b, m), b)
      BY AtAncestor
    <3> USE <3>1
    <3>2. seq[x] <= seq[at(a, m)]
      BY <2>1, <2>3
    <3>3. IsAncestor(x, at(a, m))
      BY <3>2, <1>8, AncestorLinear
    <3> QED
      BY <3>3, <1>6, AncestorTrans, Zenon
  <2> QED
    BY <2>2, <2>3
<1>9. mismatch[a][b] = 1 + m
  BY <1>5 DEF m
<1>10. 1 + m \in 1 .. (seq[a] + 1) /\ 1 + m <= seq[b] + 1
  BY <1>1, <1>7
<1> QED
  BY <1>8, <1>9, <1>10

-------------------------------------------------------------------------------
(* The shape of the trie. *)

Node == [tip : Ledger, tipSupport : Nat, branchSupport : Int,
         parent : Ledger \cup {NoNode}]

\* m is a node that starts inside the span of n.
Inside(t, n, m) == IsAncestor(n, m) /\ IsAncestor(m, t[n].tip)

\* The nodes form a tree: a node's span belongs to the history of its tip, it
\* goes on where its parent's span ends, and spans do not overlap.
WellFormed(t) ==
  /\ DOMAIN t \in SUBSET Ledger /\ Genesis \in DOMAIN t
  /\ t \in [DOMAIN t -> Node]
  /\ \A n \in DOMAIN t : IsAncestor(n, t[n].tip)
  /\ t[Genesis].parent = NoNode
  /\ \A n \in DOMAIN t \ {Genesis} :
        /\ t[n].parent \in DOMAIN t
        /\ seq[n] = end(t, t[n].parent)
        /\ IsAncestor(t[t[n].parent].tip, n)
  /\ \A n, m \in DOMAIN t : Inside(t, n, m) => m = n

\* What is used of one node.
LEMMA NodeFacts ==
  ASSUME NEW t, WellFormed(t), NEW n \in DOMAIN t
  PROVE  /\ n \in Ledger /\ t[n].tip \in Ledger /\ IsAncestor(n, t[n].tip)
         /\ seq[n] \in Nat /\ seq[t[n].tip] \in Nat /\ seq[n] <= seq[t[n].tip]
         /\ t[n].tipSupport \in Nat /\ t[n].branchSupport \in Int
         /\ end(t, n) = seq[t[n].tip] + 1 /\ end(t, n) \in Nat /\ seq[n] < end(t, n)
<1>1. n \in Ledger /\ t[n] \in Node /\ IsAncestor(n, t[n].tip)
  BY DEF WellFormed
<1> USE <1>1
<1>2. t[n].tip \in Ledger /\ t[n].tipSupport \in Nat /\ t[n].branchSupport \in Int
  BY DEF Node
<1> USE <1>2
<1>3. seq[n] \in Nat /\ seq[t[n].tip] \in Nat
  BY Seqs
<1>4. seq[n] <= seq[t[n].tip]
  BY AncestorSeq
<1> QED
  BY <1>3, <1>4 DEF end

\* What is used of a node and its parent.
LEMMA ChildFacts ==
  ASSUME NEW t, WellFormed(t), NEW n \in DOMAIN t, NEW c \in children(t, n)
  PROVE  /\ c \in DOMAIN t /\ c # Genesis /\ t[c].parent = n
         /\ seq[c] = end(t, n) /\ IsAncestor(t[n].tip, c)
<1>1. c \in DOMAIN t /\ t[c].parent = n
  BY DEF children
<1>2. n \in Nat
  BY NodeFacts, HistoryAssumption, ZenonT(30)
<1> USE <1>1
<1>3. c # Genesis
  BY <1>2 DEF WellFormed, NoNode
<1> QED
  BY <1>3 DEF WellFormed

\* diff lies in the span, and is past the ledgers of the span that are
\* ancestors of l.
LEMMA Diff ==
  ASSUME NEW t, WellFormed(t), NEW n \in DOMAIN t, NEW l \in Ledger
  PROVE  /\ diff(t, n, l) \in Nat
         /\ seq[n] <= diff(t, n, l) /\ diff(t, n, l) <= end(t, n)
         /\ IsAncestor(n, l) <=> diff(t, n, l) > seq[n]
         /\ IsAncestor(n, l) => diff(t, n, l) <= seq[l] + 1
         /\ \A x \in Ledger : IsAncestor(n, x) /\ IsAncestor(x, t[n].tip)
              => (IsAncestor(x, l) <=> seq[x] < diff(t, n, l))
<1> DEFINE p == t[n].tip
           m == mismatch[p][l]
<1>1. /\ n \in Ledger /\ p \in Ledger /\ IsAncestor(n, p)
      /\ seq[n] \in Nat /\ seq[p] \in Nat /\ seq[n] <= seq[p]
      /\ end(t, n) = seq[p] + 1 /\ seq[l] \in Nat
  BY NodeFacts, Seqs, Zenon
<1> USE <1>1
<1>2. /\ m \in 1 .. (seq[p] + 1) /\ m <= seq[l] + 1
      /\ \A x \in Ledger : IsAncestor(x, p) => (IsAncestor(x, l) <=> seq[x] < m)
  BY Mismatch, Zenon
<1>3. diff(t, n, l) = Min({Max({seq[n], m}), seq[p] + 1})
  BY Zenon DEF diff, start
<1> HIDE DEF m, p
<1> USE <1>2
<1>4. Max({seq[n], m}) = IF seq[n] >= m THEN seq[n] ELSE m
  BY MaxOfTwo
<1>5. diff(t, n, l) = IF seq[n] >= m THEN seq[n] ELSE m
  <2> DEFINE x == IF seq[n] >= m THEN seq[n] ELSE m
             y == seq[p] + 1
  <2>1. diff(t, n, l) = Min({x, y})
    BY <1>3, <1>4, Zenon
  <2>2. x \in Int /\ y \in Int /\ x <= y
    OBVIOUS
  <2> HIDE DEF x, y
  <2>3. Min({x, y}) = x
    BY <2>2, MinOfTwo, ZenonT(30)
  <2> QED
    BY <2>1, <2>3, Zenon DEF x
<1>6. IsAncestor(n, l) <=> seq[n] < m
  BY Zenon
<1> USE <1>5
<1>7. ASSUME NEW x \in Ledger, IsAncestor(n, x), IsAncestor(x, p)
      PROVE  IsAncestor(x, l) <=> seq[x] < diff(t, n, l)
  <2> USE <1>7
  <2>1. seq[x] \in Nat /\ seq[n] <= seq[x]
    BY AncestorSeq, Seqs, Zenon
  <2>2. IsAncestor(x, l) <=> seq[x] < m
    BY Zenon
  <2> QED
    BY <2>1, <2>2
<1> QED
  BY <1>6, <1>7 DEF p

\* The lookup goes on to a child that is an ancestor of l too.
LEMMA FindStep ==
  ASSUME NEW t, WellFormed(t), NEW n \in DOMAIN t, NEW l \in Ledger,
         diff(t, n, l) = end(t, n),
         NEW c \in children(t, n), diff(t, c, l) > diff(t, n, l)
  PROVE  /\ IsAncestor(n, l) /\ IsAncestor(c, l)
         /\ c \in DOMAIN t /\ seq[n] < seq[c] /\ seq[c] <= seq[l]
<1>1. c \in DOMAIN t /\ seq[c] = end(t, n)
  BY ChildFacts, Zenon
<1> USE <1>1
<1>2. seq[n] \in Nat /\ seq[n] < end(t, n) /\ c \in Ledger
  BY NodeFacts, Zenon
<1> USE <1>2
<1>3. IsAncestor(n, l)
  BY Diff, Zenon
<1>4. IsAncestor(c, l)
  BY Diff
<1> QED
  BY <1>3, <1>4, AncestorSeq, Zenon

\* Where the lookup stops is the last node on the history of l.
LEMMA FindStop ==
  ASSUME NEW t, WellFormed(t), NEW n \in DOMAIN t, NEW l \in Ledger,
         IsAncestor(n, l),
         diff(t, n, l) = end(t, n)
           => \A c \in children(t, n) : ~(diff(t, c, l) > diff(t, n, l))
  PROVE  \A m \in DOMAIN t : IsAncestor(m, l) => seq[m] <= seq[n]
<1> DEFINE Deeper == {m \in DOMAIN t : IsAncestor(m, l) /\ ~(seq[m] <= seq[n])}
<1> SUFFICES ASSUME Deeper # {} PROVE FALSE
  BY Zenon
<1> DEFINE D == {seq[m] : m \in Deeper}
<1>1. D \in SUBSET Nat /\ D # {}
  BY NodeFacts
<1>2. PICK s \in D : \A r \in D : s <= r
  BY <1>1, LeastNatural, Zenon
<1>3. PICK m \in Deeper : seq[m] = s
  BY <1>2, Zenon
<1>4. m \in DOMAIN t /\ IsAncestor(m, l) /\ ~(seq[m] <= seq[n])
  BY Zenon
<1>5. \A k \in Deeper : seq[m] <= seq[k]
  BY <1>2, <1>3, Zenon
<1> HIDE DEF Deeper, D
<1>6. n \in Ledger /\ m \in Ledger /\ seq[n] \in Nat /\ seq[m] \in Nat
  BY <1>4, NodeFacts, Zenon
<1>7. m # Genesis
  BY <1>4, <1>6, GenesisFirst
<1> DEFINE p == t[m].parent
           e == t[p].tip
<1>8. /\ p \in DOMAIN t /\ seq[m] = end(t, p) /\ IsAncestor(e, m)
      /\ m \in children(t, p)
  BY <1>4, <1>7, Zenon DEF WellFormed, children
<1>9. /\ p \in Ledger /\ e \in Ledger /\ IsAncestor(p, e)
      /\ seq[p] \in Nat /\ seq[e] \in Nat /\ end(t, p) = seq[e] + 1
      /\ seq[p] <= seq[e]
  BY <1>8, NodeFacts, Zenon
<1> HIDE DEF p, e
<1>10. IsAncestor(p, l) /\ IsAncestor(e, l)
  BY <1>4, <1>6, <1>8, <1>9, AncestorTrans, Zenon
<1>11. seq[p] <= seq[n]
  <2> SUFFICES ASSUME ~(seq[p] <= seq[n]) PROVE FALSE
    OBVIOUS
  <2> USE <1>8
  <2>1. p \in Deeper
    BY <1>10, Zenon DEF Deeper
  <2>2. seq[m] <= seq[p]
    BY <2>1, <1>5, Zenon
  <2> QED
    BY <2>2, <1>9
<1>12. seq[n] <= seq[e]
  BY <1>4, <1>6, <1>8, <1>9
<1>13. IsAncestor(p, n) /\ IsAncestor(n, e)
  BY <1>6, <1>9, <1>10, <1>11, <1>12, AncestorLinear, Zenon
<1>14. n = p
  BY <1>8, <1>13, Zenon DEF WellFormed, Inside, e
<1> USE <1>14
<1>15. e = t[n].tip
  BY DEF e
<1>16. diff(t, n, l) = end(t, n)
  <2> USE <1>9
  <2>1. seq[e] < diff(t, n, l)
    <3>1. IsAncestor(e, e)
      BY AncestorRefl, Zenon
    <3> QED
      BY <3>1, <1>10, <1>15, Diff, Zenon
  <2>2. diff(t, n, l) \in Nat /\ diff(t, n, l) <= end(t, n)
    BY Diff
  <2> QED
    BY <2>1, <2>2
<1>17. diff(t, m, l) > seq[m]
  BY <1>4, Diff, Zenon
<1> QED
  BY <1>8, <1>16, <1>17, Zenon

\* find returns the last node on the history of l, and where l departs from it.
LEMMA FindLast ==
  ASSUME NEW t, WellFormed(t), NEW l \in Ledger
  PROVE  LET f == find(t, l)
         IN  /\ f.loc \in DOMAIN t /\ IsAncestor(f.loc, l)
             /\ f.pos = diff(t, f.loc, l)
             /\ \A m \in DOMAIN t : IsAncestor(m, l) => seq[m] <= seq[f.loc]
<1> DEFINE S         == DOMAIN t
           closer(n) == {c \in children(t, n) : diff(t, c, l) > diff(t, n, l)}
           Stop      == {n \in S : ~(diff(t, n, l) = end(t, n) /\ closer(n) # {})}
           next      == [n \in S |-> IF n \in Stop THEN n
                                     ELSE CHOOSE c \in closer(n) : TRUE]
           res       == [n \in S |-> [loc |-> n, pos |-> diff(t, n, l)]]
           rank      == [n \in S |-> IF seq[n] <= seq[l] THEN seq[l] - seq[n]
                                     ELSE 0]
           descend   == CHOOSE f : IsLoop(S, Stop, res, next, f)
           A         == {n \in S : IsAncestor(n, l)}
           R         == {res[n] : n \in {k \in A : \A m \in S :
                                  IsAncestor(m, l) => seq[m] <= seq[k]}}
<1>1. find(t, l) = descend[Genesis]
  BY Zenon DEF find, IsLoop
<1>2. ASSUME NEW n \in S, n \notin Stop
      PROVE  /\ next[n] \in S /\ IsAncestor(next[n], l) /\ IsAncestor(n, l)
             /\ seq[n] < seq[next[n]] /\ seq[next[n]] <= seq[l]
  <2> USE <1>2
  <2>1. diff(t, n, l) = end(t, n) /\ closer(n) # {}
    OBVIOUS
  <2> USE <2>1
  <2>2. next[n] \in closer(n)
    OBVIOUS
  <2>3. next[n] \in children(t, n) /\ diff(t, next[n], l) > diff(t, n, l)
    BY <2>2
  <2> HIDE DEF next, Stop, closer
  <2> QED
    BY <2>3, FindStep, Zenon
<1>3. next \in [S -> S]
  <2> SUFFICES ASSUME NEW n \in S PROVE next[n] \in S
    BY Zenon
  <2>1. CASE n \in Stop
    BY <2>1
  <2>2. CASE n \notin Stop
    BY <2>2, <1>2, Zenon
  <2> QED
    BY <2>1, <2>2
<1>4. \A n \in S : seq[n] \in Nat /\ seq[l] \in Nat
  BY NodeFacts, Seqs
<1>5. rank \in [S -> 0 .. seq[l]]
  BY <1>4
<1>6. \A n \in S : n \notin Stop => rank[next[n]] < rank[n]
  <2> SUFFICES ASSUME NEW n \in S, n \notin Stop PROVE rank[next[n]] < rank[n]
    BY Zenon
  <2>1. next[n] \in S /\ seq[n] < seq[next[n]] /\ seq[next[n]] <= seq[l]
    BY <1>2, Zenon
  <2> HIDE DEF next, Stop
  <2> QED
    BY <2>1, <1>4
<1>7. seq[l] \in Nat
  BY Seqs, Zenon
<1>8. \A n \in A : IF n \in Stop THEN res[n] \in R ELSE next[n] \in A
  <2> SUFFICES ASSUME NEW n \in A
               PROVE  /\ n \in Stop => res[n] \in R
                      /\ n \notin Stop => next[n] \in A
    BY Zenon
  <2>1. ASSUME n \in Stop PROVE res[n] \in R
    <3>1. n \in S /\ IsAncestor(n, l)
      OBVIOUS
    <3>2. diff(t, n, l) = end(t, n)
            => \A c \in children(t, n) : ~(diff(t, c, l) > diff(t, n, l))
      BY <2>1
    <3> USE <3>1
    <3>3. \A m \in S : IsAncestor(m, l) => seq[m] <= seq[n]
      BY <3>2, FindStop, Zenon
    <3> HIDE DEF res, Stop
    <3> QED
      BY <3>3
  <2>2. ASSUME n \notin Stop PROVE next[n] \in A
    BY <2>2, <1>2, Zenon
  <2> QED
    BY <2>1, <2>2, Zenon
<1>9. Genesis \in A
  BY GenesisFirst DEF WellFormed
<1> HIDE DEF S, Stop, next, res, rank, A, R
<1>10. Terminates(S, Stop, next, seq[l], rank)
  BY <1>3, <1>5, <1>6, <1>7, Zenon DEF Terminates
<1>11. IsLoop(S, Stop, res, next, descend)
  BY <1>10, LoopExists, ZenonT(30)
<1>12. Leads(S, Stop, res, next, A, R)
  BY <1>8, Zenon DEF Leads, A
<1>13. descend[Genesis] \in R
  BY <1>9, <1>10, <1>11, <1>12, LoopResult, Zenon
<1>14. PICK n \in A : /\ find(t, l) = res[n]
                      /\ \A m \in S : IsAncestor(m, l) => seq[m] <= seq[n]
  BY <1>1, <1>13, ZenonT(30) DEF R
<1> USE <1>14
<1>15. n \in DOMAIN t /\ IsAncestor(n, l)
       /\ find(t, l).loc = n /\ find(t, l).pos = diff(t, n, l)
  BY DEF A, S, res
<1> QED
  BY <1>15 DEF S

-------------------------------------------------------------------------------
(* Support. *)

\* Of two nodes on one history, neither is inside the other's span.
LEMMA Disjoint ==
  ASSUME NEW t, WellFormed(t), NEW n \in DOMAIN t, NEW m \in DOMAIN t,
         NEW x \in Ledger, IsAncestor(n, x), IsAncestor(m, x),
         IsAncestor(x, t[n].tip), IsAncestor(x, t[m].tip)
  PROVE  n = m
<1>1. /\ n \in Ledger /\ m \in Ledger /\ seq[n] \in Nat /\ seq[m] \in Nat
      /\ t[n].tip \in Ledger /\ t[m].tip \in Ledger
  BY NodeFacts, Zenon
<1> USE <1>1
<1>2. CASE seq[n] <= seq[m]
  <2>1. IsAncestor(n, m)
    BY <1>2, AncestorLinear, Zenon
  <2>2. IsAncestor(m, t[n].tip)
    BY AncestorTrans
  <2> QED
    BY <2>1, <2>2, Zenon DEF WellFormed, Inside
<1>3. CASE seq[m] <= seq[n]
  <2>1. IsAncestor(m, n)
    BY <1>3, AncestorLinear, Zenon
  <2>2. IsAncestor(n, t[m].tip)
    BY AncestorTrans
  <2> QED
    BY <2>1, <2>2, Zenon DEF WellFormed, Inside
<1> QED
  BY <1>2, <1>3

\* No two nodes end with the same ledger.
LEMMA TipUnique ==
  ASSUME NEW t, WellFormed(t), NEW n \in DOMAIN t, NEW m \in DOMAIN t,
         t[n].tip = t[m].tip
  PROVE  n = m
<1>1. t[n].tip \in Ledger /\ IsAncestor(n, t[n].tip) /\ IsAncestor(m, t[n].tip)
  BY NodeFacts, Zenon
<1> USE <1>1
<1>2. IsAncestor(t[n].tip, t[n].tip)
  BY AncestorRefl
<1> QED
  BY <1>2, Disjoint, Zenon

\* The support held for a ledger is that of the node it is the tip of.
LEMMA HeldAtTip ==
  ASSUME NEW t, WellFormed(t)
  PROVE  /\ \A n \in DOMAIN t : heldIn(t, t[n].tip) = t[n].tipSupport
         /\ \A l : (\A n \in DOMAIN t : t[n].tip # l) => heldIn(t, l) = 0
         /\ \A l : heldIn(t, l) \in Nat
<1> DEFINE owners(l) == {n \in DOMAIN t : t[n].tip = l}
<1>1. ASSUME NEW n \in DOMAIN t PROVE heldIn(t, t[n].tip) = t[n].tipSupport
  <2> DEFINE m == CHOOSE k \in owners(t[n].tip) : TRUE
  <2>1. m \in owners(t[n].tip)
    OBVIOUS
  <2> USE <2>1
  <2>2. m = n
    BY TipUnique
  <2> USE ZenonT(30)
  <2>3. heldIn(t, t[n].tip) = t[m].tipSupport
    BY DEF heldIn
  <2> QED
    BY <2>2, <2>3
<1>2. ASSUME NEW l, \A n \in DOMAIN t : t[n].tip # l PROVE heldIn(t, l) = 0
  <2>1. owners(l) = {}
    BY <1>2, Zenon
  <2> QED
    BY <2>1, Zenon DEF heldIn
<1> USE <1>1, <1>2
<1>3. ASSUME NEW l PROVE heldIn(t, l) \in Nat
  <2>1. CASE \E n \in DOMAIN t : t[n].tip = l
    BY <2>1, NodeFacts, Zenon
  <2>2. CASE \A n \in DOMAIN t : t[n].tip # l
    BY <2>2
  <2> QED
    BY <2>1, <2>2, Zenon
<1> QED
  BY <1>3

\* Nodes without tip support do not matter.
SameTips(t, u) ==
  \A n \in DOMAIN t : t[n].tipSupport # 0 =>
    \E m \in DOMAIN u : u[m].tip = t[n].tip /\ u[m].tipSupport = t[n].tipSupport

\* Tries with the same tips and tip supports hold the same support.
LEMMA HeldSame ==
  ASSUME NEW t, NEW u, WellFormed(t), WellFormed(u), SameTips(t, u), SameTips(u, t)
  PROVE  \A l : heldIn(u, l) = heldIn(t, l)
<1>1. ASSUME NEW v, NEW w, WellFormed(v), WellFormed(w), SameTips(v, w), NEW l,
             heldIn(v, l) # 0
      PROVE  heldIn(w, l) = heldIn(v, l)
  <2> USE <1>1
  <2>1. PICK n \in DOMAIN v : v[n].tip = l
    BY HeldAtTip, Zenon
  <2> USE <2>1
  <2>2. heldIn(v, l) = v[n].tipSupport
    BY HeldAtTip, Zenon
  <2> USE <2>2
  <2>3. PICK m \in DOMAIN w : w[m].tip = l /\ w[m].tipSupport = v[n].tipSupport
    BY Zenon DEF SameTips
  <2> USE <2>3
  <2>4. heldIn(w, l) = w[m].tipSupport
    BY HeldAtTip, Zenon
  <2> QED
    BY <2>4
<1> SUFFICES ASSUME NEW l PROVE heldIn(u, l) = heldIn(t, l)
  OBVIOUS
<1> USE <1>1
<1>2. CASE heldIn(t, l) # 0
  BY <1>2, Zenon
<1>3. CASE heldIn(u, l) # 0
  BY <1>3, ZenonT(30)
<1> QED
  BY <1>2, <1>3, Zenon

\* The lookup of l ends at the node with tip l, if there is one.
LEMMA FoundTip ==
  ASSUME NEW t, WellFormed(t), NEW l \in Ledger
  PROVE  LET f == find(t, l)
         IN  /\ f.pos = end(t, f.loc) /\ f.pos > seq[l] <=> t[f.loc].tip = l
             /\ \A n \in DOMAIN t : t[n].tip = l => f.loc = n
<1> DEFINE f == find(t, l)
<1>1. /\ f.loc \in DOMAIN t /\ IsAncestor(f.loc, l) /\ f.pos = diff(t, f.loc, l)
      /\ \A m \in DOMAIN t : IsAncestor(m, l) => seq[m] <= seq[f.loc]
  BY FindLast, Zenon
<1> HIDE DEF f
<1> DEFINE n == f.loc
           e == t[n].tip
<1> USE <1>1
<1>2. /\ n \in Ledger /\ e \in Ledger /\ IsAncestor(n, e) /\ IsAncestor(e, e)
      /\ seq[n] \in Nat /\ seq[e] \in Nat /\ end(t, n) = seq[e] + 1
      /\ seq[l] \in Nat
  BY NodeFacts, Seqs, AncestorRefl, Zenon
<1> USE <1>2
<1>3. /\ diff(t, n, l) \in Nat /\ diff(t, n, l) <= end(t, n)
      /\ diff(t, n, l) <= seq[l] + 1
      /\ IsAncestor(e, l) <=> seq[e] < diff(t, n, l)
      /\ IsAncestor(l, e) => (IsAncestor(l, l) <=> seq[l] < diff(t, n, l))
  BY Diff, Zenon
<1>4. ASSUME e = l PROVE f.pos = end(t, n) /\ f.pos > seq[l]
  BY <1>3, <1>4, SMTT(30)
<1>5. ASSUME f.pos = end(t, n), f.pos > seq[l] PROVE e = l
  <2>1. IsAncestor(e, l) /\ seq[e] = seq[l]
    BY <1>3, <1>5
  <2> QED
    BY <2>1, AncestorSeq, Zenon
<1>6. ASSUME NEW m \in DOMAIN t, t[m].tip = l PROVE n = m
  <2> USE <1>6
  <2>1. m \in Ledger /\ IsAncestor(m, l) /\ IsAncestor(l, l)
    BY NodeFacts, AncestorRefl, Zenon
  <2> USE <2>1
  <2>2. seq[m] <= seq[n]
    BY Zenon
  <2>3. IsAncestor(m, n)
    BY <2>2, AncestorLinear, Zenon
  <2> QED
    BY <2>3, Zenon DEF WellFormed, Inside
<1> QED
  BY <1>4, <1>5, <1>6, Zenon DEF f

\* tipSupport answers with the support held.
LEMMA LookupTip ==
  ASSUME NEW t, WellFormed(t), NEW l \in Ledger
  PROVE  /\ tipSupportIn(t, l) = heldIn(t, l)
         /\ heldIn(t, l) # 0 => /\ find(t, l).loc \in DOMAIN t
                                /\ t[find(t, l).loc].tip = l
                                /\ t[find(t, l).loc].tipSupport = heldIn(t, l)
<1> DEFINE f == find(t, l)
<1>1. f.loc \in DOMAIN t
  BY FindLast, Zenon
<1>2. /\ f.pos = end(t, f.loc) /\ f.pos > seq[l] <=> t[f.loc].tip = l
      /\ \A n \in DOMAIN t : t[n].tip = l => f.loc = n
  BY FoundTip
<1>3. tipSupportIn(t, l) = IF f.pos = end(t, f.loc) /\ f.pos > seq[l]
                           THEN t[f.loc].tipSupport ELSE 0
  BY Zenon DEF tipSupportIn
<1> HIDE DEF f
<1> USE <1>1, <1>2
<1>4. CASE t[f.loc].tip = l
  <2> USE <1>4
  <2>1. heldIn(t, l) = t[f.loc].tipSupport
    BY HeldAtTip, Zenon
  <2> QED
    BY <2>1, <1>3 DEF f
<1>5. CASE t[f.loc].tip # l
  <2> USE <1>5
  <2>1. heldIn(t, l) = 0
    BY HeldAtTip, ZenonT(30)
  <2> QED
    BY <2>1, <1>3
<1> QED
  BY <1>4, <1>5, Zenon

-------------------------------------------------------------------------------
(* What is below a node. *)

\* A node above another is above or is its parent.
LEMMA ParentAbove ==
  ASSUME NEW t, WellFormed(t), NEW n \in DOMAIN t, NEW m \in DOMAIN t,
         IsAncestor(n, m), n # m
  PROVE  LET p == t[m].parent
         IN  /\ p \in DOMAIN t /\ m \in children(t, p) /\ seq[p] < seq[m]
             /\ IsAncestor(t[p].tip, m) /\ IsAncestor(p, m) /\ IsAncestor(n, p)
<1> DEFINE p == t[m].parent
<1>1. n \in Ledger /\ m \in Ledger /\ seq[n] \in Nat /\ seq[m] \in Nat
  BY NodeFacts, ZenonT(30)
<1> USE <1>1
<1>2. seq[n] < seq[m]
  BY AncestorSeq
<1>3. m # Genesis
  BY <1>2, GenesisFirst
<1>4. p \in DOMAIN t /\ seq[m] = end(t, p) /\ IsAncestor(t[p].tip, m)
  BY <1>3, Zenon DEF WellFormed
<1> USE <1>4
<1>5. m \in children(t, p)
  BY Zenon DEF children
<1> HIDE DEF p
<1>6. /\ p \in Ledger /\ t[p].tip \in Ledger /\ IsAncestor(p, t[p].tip)
      /\ seq[p] \in Nat /\ seq[t[p].tip] \in Nat /\ seq[p] <= seq[t[p].tip]
      /\ end(t, p) = seq[t[p].tip] + 1
  BY NodeFacts, Zenon
<1> USE <1>6
<1>7. IsAncestor(p, m)
  BY AncestorTrans, Zenon
<1>8. IsAncestor(n, p)
  <2>1. CASE seq[n] <= seq[p]
    BY <2>1, <1>7, AncestorLinear, Zenon
  <2>2. CASE ~(seq[n] <= seq[p])
    <3>1. seq[p] <= seq[n] /\ seq[n] <= seq[t[p].tip]
      BY <2>2, <1>2
    <3>2. IsAncestor(p, n) /\ IsAncestor(n, t[p].tip)
      BY <3>1, <1>7, AncestorLinear
    <3>3. n = p
      BY <3>2, Zenon DEF Inside, WellFormed
    <3> QED
      BY <3>3, AncestorRefl, Zenon
  <2> QED
    BY <2>1, <2>2, Zenon
<1> QED
  BY <1>2, <1>5, <1>7, <1>8 DEF p

\* A node below another is below or is one of its children.
LEMMA ChildAbove ==
  ASSUME NEW t, WellFormed(t), NEW n \in DOMAIN t, NEW m \in DOMAIN t,
         IsAncestor(n, m), n # m
  PROVE  \E c \in children(t, n) : IsAncestor(c, m)
<1> DEFINE below(x) == \E c \in children(t, n) : IsAncestor(c, x)
           Low == {x \in DOMAIN t : IsAncestor(n, x) /\ n # x /\ ~below(x)}
           Bad == {seq[x] : x \in Low}
<1> SUFFICES ASSUME Low # {} PROVE FALSE
  BY Zenon
<1>1. Bad \in SUBSET Nat /\ Bad # {}
  BY NodeFacts, Zenon
<1>2. PICK r \in Bad : \A k \in Bad : r <= k
  <2> HIDE DEF Bad
  <2> QED
    BY <1>1, LeastNatural
<1>3. PICK x \in Low : r = seq[x]
  BY <1>2, Zenon
<1>4. x \in DOMAIN t /\ IsAncestor(n, x) /\ n # x /\ ~below(x) /\ x \in Ledger
  BY <1>3, NodeFacts, Zenon
<1> DEFINE p == t[x].parent
<1> USE <1>4
<1>5. /\ p \in DOMAIN t /\ x \in children(t, p) /\ seq[p] < seq[x]
      /\ IsAncestor(p, x) /\ IsAncestor(n, p) /\ p \in Ledger
  BY ParentAbove, NodeFacts, Zenon
<1> HIDE DEF p
<1>6. CASE p = n
  BY <1>5, <1>6, AncestorRefl, Zenon
<1>7. CASE p # n
  <2>1. seq[p] \in Nat /\ seq[x] \in Nat /\ ~(seq[x] <= seq[p])
    BY <1>5, NodeFacts
  <2> USE Zenon
  <2>2. seq[p] \notin Bad
    BY <2>1, <1>2, <1>3
  <2>3. below(p)
    BY <2>2, <1>5, <1>7
  <2>4. PICK c \in children(t, n) : IsAncestor(c, p)
    BY <2>3
  <2>5. c \in Ledger
    BY ChildFacts, NodeFacts
  <2>6. IsAncestor(c, x)
    BY <2>4, <2>5, <1>5, AncestorTrans
  <2> QED
    BY <2>6
<1> QED
  BY <1>6, <1>7, Zenon

\* What is held below a node is held at its tip or below a child.
LEMMA HeldBelow ==
  ASSUME NEW t, WellFormed(t), NEW n \in DOMAIN t, NEW d \in Ledger,
         IsAncestor(n, d), heldIn(t, d) # 0
  PROVE  d = t[n].tip \/ \E c \in children(t, n) : IsAncestor(c, d)
<1>1. PICK m \in DOMAIN t : t[m].tip = d
  BY HeldAtTip, Zenon
<1>2. /\ n \in Ledger /\ m \in Ledger /\ seq[n] \in Nat /\ seq[m] \in Nat
      /\ IsAncestor(m, d)
  BY <1>1, NodeFacts
<1>3. CASE seq[m] <= seq[n]
  <2>1. IsAncestor(m, n)
    BY <1>2, <1>3, AncestorLinear, Zenon
  <2> USE <1>1, Zenon
  <2>2. n = m
    BY <2>1 DEF Inside, WellFormed
  <2> QED
    BY <2>2
<1>4. CASE ~(seq[m] <= seq[n])
  <2>1. IsAncestor(n, m) /\ n # m
    BY <1>2, <1>4, AncestorLinear
  <2> USE Zenon
  <2>2. PICK c \in children(t, n) : IsAncestor(c, m)
    BY <2>1, <1>1, ChildAbove
  <2>3. c \in Ledger
    BY ChildFacts, NodeFacts
  <2>4. IsAncestor(c, d)
    BY <2>2, <2>3, <1>2, AncestorTrans
  <2> QED
    BY <2>4
<1> QED
  BY <1>3, <1>4, Zenon

supportOf(t) == [l \in Ledger |-> heldIn(t, l)]

\* The support held for a ledger and its descendants.
under(t, n) == Total(supportOf(t), Descendants[n])

\* The support of every ledger is a natural number, its descendants are
\* finitely many.
LEMMA SupportType ==
  ASSUME NEW t, WellFormed(t)
  PROVE  /\ IsFiniteSet(Ledger)
         /\ \A l \in Ledger : /\ supportOf(t)[l] = heldIn(t, l)
                              /\ supportOf(t)[l] \in Nat
         /\ \A l \in Ledger : /\ Descendants[l] = {d \in Ledger : IsAncestor(l, d)}
                              /\ Descendants[l] \in SUBSET Ledger
                              /\ IsFiniteSet(Descendants[l])
<1>1. IsFiniteSet(Ledger)
  BY HistoryAssumption, Zenon
<1>2. ASSUME NEW l \in Ledger PROVE supportOf(t)[l] = heldIn(t, l)
  BY Zenon DEF supportOf
<1>3. ASSUME NEW l \in Ledger
      PROVE  Descendants[l] = {d \in Ledger : IsAncestor(l, d)}
  BY Zenon DEF Descendants
<1> USE <1>3
<1>4. ASSUME NEW l \in Ledger PROVE Descendants[l] \in SUBSET Ledger
  BY Zenon
<1> QED
  BY <1>1, <1>2, <1>4, HeldAtTip, FS_Subset

\* Within a span the support of the descendants is the same.
LEMMA SpanTotal ==
  ASSUME NEW t, WellFormed(t), NEW n \in DOMAIN t, NEW x \in Ledger,
         IsAncestor(n, x), IsAncestor(x, t[n].tip)
  PROVE  under(t, x) = under(t, n)
<1> DEFINE h == supportOf(t)
           S == Descendants[n]
           T == Descendants[x]
<1> USE Zenon
<1>1. n \in Ledger /\ t[n].tip \in Ledger
  BY NodeFacts
<1>2. /\ S = {d \in Ledger : IsAncestor(n, d)} /\ IsFiniteSet(S)
      /\ T = {d \in Ledger : IsAncestor(x, d)}
      /\ \A l \in Ledger : h[l] \in Nat /\ h[l] = heldIn(t, l)
  BY <1>1, SupportType
<1> HIDE DEF h, S, T
<1>3. T \in SUBSET S
  <2> SUFFICES ASSUME NEW d \in T PROVE d \in S
    OBVIOUS
  <2> USE <1>2
  <2>1. d \in Ledger /\ IsAncestor(x, d)
    OBVIOUS
  <2> USE <2>1
  <2>2. IsAncestor(n, d)
    BY <1>1, AncestorTrans
  <2> QED
    BY <2>2
<1>4. ASSUME NEW d \in S \ T PROVE h[d] = 0
  <2> SUFFICES ASSUME h[d] # 0 PROVE FALSE
    OBVIOUS
  <2>1. d \in Ledger /\ IsAncestor(n, d) /\ ~IsAncestor(x, d) /\ heldIn(t, d) # 0
    BY <1>2
  <2> USE <2>1
  <2>2. CASE d = t[n].tip
    BY <2>2
  <2>3. ASSUME NEW c \in children(t, n), IsAncestor(c, d) PROVE FALSE
    <3>1. c \in Ledger /\ IsAncestor(t[n].tip, c)
      BY ChildFacts, NodeFacts
    <3> USE <3>1
    <3>2. IsAncestor(x, c)
      BY <1>1, AncestorTrans
    <3>3. IsAncestor(x, d)
      BY <2>3, <3>2, AncestorTrans
    <3> QED
      BY <3>3
  <2> QED
    BY <2>2, <2>3, HeldBelow
<1>5. \A d \in S : h[d] \in Nat
  BY <1>2
<1>6. Total(h, S) = Total(h, T)
  BY <1>2, <1>3, <1>4, <1>5, TotalSupport
<1> QED
  BY <1>6 DEF under, h, S, T

\* What pathToRoot computes: the nodes a ledger of n's span descends from.
LEMMA Path ==
  ASSUME NEW t, WellFormed(t), NEW n \in DOMAIN t
  PROVE  pathToRoot(t, n) = {m \in DOMAIN t : IsAncestor(m, t[n].tip)}
<1> DEFINE direct(f) ==
             [m \in DOMAIN t |->
                {m} \cup (IF t[m].parent = NoNode THEN {} ELSE f[t[m].parent])]
           up == CHOOSE f : f = direct(f)
           above(m) == {k \in DOMAIN t : IsAncestor(k, m)}
           all == [m \in DOMAIN t |-> above(m)]
<1>1. pathToRoot(t, n) = up[n]
  BY Zenon DEF pathToRoot
<1>2. ASSUME NEW m \in DOMAIN t
      PROVE  /\ t[m].parent = NoNode => above(m) = {m}
             /\ t[m].parent # NoNode => /\ t[m].parent \in DOMAIN t
                                        /\ seq[t[m].parent] < seq[m]
                                        /\ above(m) = {m} \cup above(t[m].parent)
  <2>1. m \in Ledger /\ IsAncestor(m, m)
    BY NodeFacts, AncestorRefl, Zenon
  <2>2. CASE m = Genesis
    <3> USE <2>2
    <3>1. t[m].parent = NoNode
      BY Zenon DEF WellFormed
    <3> USE <2>1
    <3>2. ASSUME NEW k \in DOMAIN t, IsAncestor(k, m) PROVE k = m
      <4>1. k \in Ledger /\ seq[k] \in Nat /\ seq[m] = 0
        BY NodeFacts, GenesisFirst, Zenon
      <4> QED
        BY <4>1, <3>2, AncestorSeq, SMTT(30)
    <3> QED
      BY <3>1, <3>2, Zenon
  <2>3. CASE m # Genesis
    <3> DEFINE p == t[m].parent
    <3>1. /\ p \in DOMAIN t /\ seq[m] = end(t, p) /\ IsAncestor(t[p].tip, m)
      BY <2>3, Zenon DEF WellFormed
    <3> HIDE DEF p
    <3>2. /\ p \in Ledger /\ t[p].tip \in Ledger /\ IsAncestor(p, t[p].tip)
          /\ seq[p] \in Nat /\ seq[t[p].tip] \in Nat /\ seq[p] < end(t, p)
      BY <3>1, NodeFacts, Zenon
    <3>3. IsAncestor(p, m) /\ p # NoNode /\ seq[p] < seq[m]
      <4> USE <3>2
      <4>1. p \in Nat
        BY Seqs, Zenon
      <4> USE <3>1
      <4>2. IsAncestor(p, m)
        BY <2>1, AncestorTrans, ZenonT(30)
      <4>3. p # NoNode
        BY <4>1 DEF NoNode
      <4> QED
        BY <4>2, <4>3, Zenon
    <3>4. ASSUME NEW k \in DOMAIN t
          PROVE  IsAncestor(k, m) <=> k = m \/ IsAncestor(k, p)
      <4> USE Zenon
      <4>1. k \in Ledger
        BY NodeFacts
      <4> USE <2>1
      <4>2. CASE IsAncestor(k, p)
        BY <4>1, <4>2, <3>2, <3>3, AncestorTrans, ZenonT(30)
      <4>3. CASE IsAncestor(k, m) /\ k # m
        BY <4>3, ParentAbove DEF p
      <4> QED
        BY <4>2, <4>3
    <3>5. above(m) = {m} \cup above(p)
      BY <3>4, Zenon
    <3> QED
      BY <3>1, <3>3, <3>5, Zenon DEF p
  <2> QED
    BY <2>2, <2>3, Zenon
<1> HIDE DEF above
<1>3. all = direct(all)
  <2> DEFINE one(m) == {m} \cup (IF t[m].parent = NoNode THEN {}
                                 ELSE all[t[m].parent])
  <2> USE <1>2
  <2>1. ASSUME NEW m \in DOMAIN t PROVE above(m) = one(m)
    <3> USE Zenon
    <3>1. CASE t[m].parent = NoNode
      BY <3>1
    <3>2. CASE t[m].parent # NoNode
      <4> USE <3>2
      <4>1. all[t[m].parent] = above(t[m].parent)
        OBVIOUS
      <4> HIDE DEF all
      <4> QED
        BY <4>1
    <3> QED
      BY <3>1, <3>2
  <2>2. all = [m \in DOMAIN t |-> above(m)]
    OBVIOUS
  <2> HIDE DEF all
  <2> QED
    BY <2>1, <2>2, Zenon
<1> HIDE DEF all
<1>4. up = direct(up)
  BY <1>3, Zenon
<1> HIDE DEF up
<1> DEFINE Bad == {m \in DOMAIN t : up[m] # above(m)}
           Seqs0 == {seq[m] : m \in Bad}
<1>5. Bad = {}
  <2> SUFFICES ASSUME Bad # {} PROVE FALSE
    BY Zenon
  <2>1. Seqs0 \in SUBSET Nat /\ Seqs0 # {}
    BY NodeFacts, Zenon
  <2>2. PICK r \in Seqs0 : \A k \in Seqs0 : r <= k
    <3> HIDE DEF Seqs0
    <3> QED
      BY <2>1, LeastNatural
  <2>3. PICK m \in Bad : r = seq[m]
    BY <2>2, Zenon
  <2>4. m \in DOMAIN t /\ up[m] # above(m)
    BY <2>3, Zenon
  <2> USE <2>4
  <2>5. up[m] = {m} \cup (IF t[m].parent = NoNode THEN {} ELSE up[t[m].parent])
    BY <1>4, Zenon
  <2>6. CASE t[m].parent = NoNode
    BY <2>5, <2>6, <1>2, Zenon
  <2>7. CASE t[m].parent # NoNode
    <3> DEFINE p == t[m].parent
    <3> USE <2>7
    <3>1. p \in DOMAIN t /\ seq[p] < seq[m] /\ above(m) = {m} \cup above(p)
      BY <1>2, Zenon
    <3> HIDE DEF p
    <3> USE <3>1
    <3>2. ~(seq[m] <= seq[p])
      BY NodeFacts
    <3>3. up[p] = above(p)
      BY <3>2, <2>2, <2>3, Zenon
    <3> QED
      BY <3>3, <2>5, Zenon DEF p
  <2> QED
    BY <2>6, <2>7, Zenon
<1>6. up[n] = above(n)
  BY <1>5, Zenon
<1>7. ASSUME NEW m \in DOMAIN t
      PROVE  IsAncestor(m, n) <=> IsAncestor(m, t[n].tip)
  <2>1. /\ m \in Ledger /\ n \in Ledger /\ t[n].tip \in Ledger
        /\ IsAncestor(n, t[n].tip) /\ seq[m] \in Nat /\ seq[n] \in Nat
    BY NodeFacts
  <2> USE <2>1
  <2>2. CASE IsAncestor(m, n)
    BY <2>2, AncestorTrans, Zenon
  <2>3. CASE IsAncestor(m, t[n].tip)
    <3> USE <2>3
    <3>1. CASE seq[m] <= seq[n]
      BY <3>1, AncestorLinear
    <3>2. CASE ~(seq[m] <= seq[n])
      <4>1. IsAncestor(n, m)
        BY <3>2, AncestorLinear
      <4> USE Zenon
      <4>2. m = n
        BY <4>1 DEF Inside, WellFormed
      <4> QED
        BY <4>2, AncestorRefl
    <3> QED
      BY <3>1, <3>2, Zenon
  <2> QED
    BY <2>2, <2>3, Zenon
<1> QED
  BY <1>1, <1>6, <1>7, Zenon DEF above

-------------------------------------------------------------------------------
(* A trie without waste. *)

\* A well-formed trie whose root is the genesis ledger alone, with every
\* branch support exact.
Exact(t) ==
  /\ WellFormed(t) /\ t[Genesis].tip = Genesis
  /\ \A n \in DOMAIN t : t[n].branchSupport = under(t, n)

TwoKids(t, n) == \E c, d \in children(t, n) : c # d

\* No node but the root and loc is in need of compression.
CompactBut(t, loc) ==
  \A n \in DOMAIN t : n # Genesis /\ n # loc /\ t[n].tipSupport = 0
                        => TwoKids(t, n)

Compact(t) == CompactBut(t, Genesis)

\* Operations that keep the support held keep it below each ledger.
LEMMA UnderSame ==
  ASSUME NEW t, NEW u, \A x : heldIn(u, x) = heldIn(t, x)
  PROVE  \A l : under(u, l) = under(t, l)
<1> USE Zenon
<1>1. supportOf(u) = supportOf(t)
  BY DEF supportOf
<1> QED
  BY <1>1 DEF under

\* The test for two children, with and without cardinalities.
LEMMA TwoOrMore ==
  ASSUME NEW t, WellFormed(t), NEW n
  PROVE  /\ IsFiniteSet(children(t, n))
         /\ TwoKids(t, n) <=> Cardinality(children(t, n)) > 1
         /\ TwoKids(t, n) <=> Cardinality(children(t, n)) >= 2
<1> DEFINE S == children(t, n)
<1>1. IsFiniteSet(S)
  <2>1. S \in SUBSET Ledger
    BY DEF children, WellFormed
  <2> QED
    BY <2>1, HistoryAssumption, FS_Subset, Zenon
<1>2. Cardinality(S) \in Nat
  BY <1>1, FS_CardinalityType
<1> HIDE DEF S
<1>3. ASSUME NEW c \in S, NEW d \in S, c # d PROVE Cardinality(S) > 1
  <2>1. {c, d} \in SUBSET S
    OBVIOUS
  <2>2. Cardinality({c, d}) = 2 /\ IsFiniteSet({c, d})
    <3>1. IsFiniteSet({c}) /\ Cardinality({c}) = 1
      BY FS_Singleton, ZenonT(30)
    <3>2. {c, d} = {c} \cup {d} /\ d \notin {c}
      BY <1>3
    <3> QED
      BY <3>1, <3>2, FS_AddElement
  <2> QED
    BY <1>1, <1>2, <2>1, <2>2, FS_Subset
<1>4. ASSUME Cardinality(S) > 1 PROVE \E c, d \in S : c # d
  <2> USE <1>4
  <2>1. S # {}
    BY <1>1, FS_EmptySet
  <2>2. PICK c \in S : TRUE
    BY <2>1, Zenon
  <2>3. S # {c}
    BY FS_Singleton
  <2> QED
    BY <2>2, <2>3, Zenon
<1>5. TwoKids(t, n) <=> Cardinality(S) > 1
  BY <1>3, <1>4, Zenon DEF TwoKids, S
<1>6. Cardinality(S) > 1 <=> Cardinality(S) >= 2
  BY <1>2
<1> QED
  BY <1>1, <1>5, <1>6, Zenon DEF S

\* More support for l counts below every ancestor of l.
LEMMA UnderChange ==
  ASSUME NEW t, WellFormed(t), NEW u, WellFormed(u), NEW l \in Ledger,
         NEW d \in Int,
         \A x : heldIn(u, x) = heldIn(t, x) + (IF x = l THEN d ELSE 0),
         NEW n \in Ledger
  PROVE  /\ under(t, n) \in Nat
         /\ under(u, n) = under(t, n) + (IF IsAncestor(n, l) THEN d ELSE 0)
<1> DEFINE f == supportOf(t)
           g == supportOf(u)
           S == Descendants[n]
<1>1. /\ S = {x \in Ledger : IsAncestor(n, x)} /\ S \in SUBSET Ledger
      /\ IsFiniteSet(S)
      /\ \A x \in S : f[x] = heldIn(t, x) /\ f[x] \in Nat
      /\ \A x \in S : g[x] = heldIn(u, x) /\ g[x] \in Nat
  BY SupportType, Zenon
<1>2. under(t, n) = Total(f, S) /\ under(u, n) = Total(g, S)
  BY Zenon DEF under
<1> HIDE DEF f, g, S
<1>3. \A x \in S : x # l => g[x] = f[x]
  <2> SUFFICES ASSUME NEW x \in S, x # l PROVE g[x] = f[x]
    BY Zenon
  <2>1. heldIn(u, x) = heldIn(t, x) + 0
    BY Zenon
  <2> QED
    BY <2>1, <1>1
<1>4. Total(f, S) \in Nat
  BY <1>1, TotalNat, Zenon
<1>5. CASE IsAncestor(n, l)
  <2> USE <1>1
  <2>1. l \in S
    BY <1>5, Zenon
  <2>2. Total(g, S) = Total(f, S) + (g[l] - f[l])
    <3>1. (\A x \in S : f[x] \in Nat) /\ \A x \in S : g[x] \in Nat
      BY Zenon
    <3> QED
      BY <3>1, <2>1, <1>3, TotalChange
  <2>3. heldIn(u, l) = heldIn(t, l) + d
    BY Zenon
  <2>4. g[l] - f[l] = d
    BY <2>1, <2>3
  <2> QED
    BY <2>2, <2>4, <1>2, <1>4, <1>5, Zenon
<1>6. CASE ~IsAncestor(n, l)
  <2> USE <1>6
  <2>1. l \notin S
    BY <1>1, Zenon
  <2>2. \A x \in S : g[x] = f[x]
    BY <2>1, <1>3, Zenon
  <2>3. Total(g, S) = Total(f, S)
    BY <2>2, TotalSame, Zenon
  <2> QED
    BY <2>3, <1>2, <1>4
<1> QED
  BY <1>5, <1>6, Zenon

-------------------------------------------------------------------------------
(* Splitting a node. *)

\* The fields of the nodes after a split.
IsSplit(t, loc, old, pre, u) ==
  /\ DOMAIN u = DOMAIN t \cup {old} /\ u \in [DOMAIN u -> Node]
  /\ u[old].tip = t[loc].tip /\ u[old].tipSupport = t[loc].tipSupport
  /\ u[old].parent = loc /\ u[old].branchSupport = t[loc].branchSupport
  /\ u[loc].tip = pre /\ u[loc].tipSupport = 0
  /\ u[loc].parent = t[loc].parent
  /\ u[loc].branchSupport = t[loc].branchSupport
  /\ \A n \in DOMAIN t \ {loc} :
       /\ u[n].tip = t[n].tip /\ u[n].tipSupport = t[n].tipSupport
       /\ u[n].parent = IF t[n].parent = loc THEN old ELSE t[n].parent
       /\ u[n].branchSupport = t[n].branchSupport

\* What split computes, field by field.
LEMMA SplitFields ==
  ASSUME NEW t, WellFormed(t), NEW loc \in DOMAIN t, NEW pos,
         at(t[loc].tip, pos) \notin DOMAIN t, at(t[loc].tip, pos) \in Ledger,
         at(t[loc].tip, pos - 1) \in Ledger
  PROVE  IsSplit(t, loc, at(t[loc].tip, pos), at(t[loc].tip, pos - 1),
                 split(t, loc, pos))
<1> DEFINE old == at(t[loc].tip, pos)
           pre == at(t[loc].tip, pos - 1)
           u   == split(t, loc, pos)
           new(n) == CASE n = old -> [t[loc] EXCEPT !.parent = loc]
                       [] n = loc -> [t[loc] EXCEPT !.tip = pre, !.tipSupport = 0]
                       [] n \notin {old, loc} /\ t[n].parent = loc
                                  -> [t[n] EXCEPT !.parent = old]
                       [] OTHER   -> t[n]
<1>1. u = [n \in DOMAIN t \cup {old} |-> new(n)]
  BY Zenon DEF split
<1>2. loc \in Ledger /\ t[loc] \in Node /\ \A n \in DOMAIN t : t[n] \in Node
  BY DEF WellFormed
<1>3. old \notin DOMAIN t /\ old \in Ledger /\ pre \in Ledger
  OBVIOUS
<1> HIDE DEF old, pre, u
<1>4. DOMAIN u = DOMAIN t \cup {old}
  BY <1>1
<1>5. u[old] = [t[loc] EXCEPT !.parent = loc]
  BY <1>1, <1>3, Zenon
<1>6. u[loc] = [t[loc] EXCEPT !.tip = pre, !.tipSupport = 0]
  BY <1>1, <1>3, Zenon
<1>7. ASSUME NEW n \in DOMAIN t \ {loc}
      PROVE  u[n] = IF t[n].parent = loc THEN [t[n] EXCEPT !.parent = old] ELSE t[n]
  BY <1>1, <1>3, Zenon
<1>8. /\ u[old].tip = t[loc].tip /\ u[old].tipSupport = t[loc].tipSupport
      /\ u[old].parent = loc /\ u[old] \in Node
      /\ u[old].branchSupport = t[loc].branchSupport
  BY <1>2, <1>5 DEF Node
<1>9. /\ u[loc].tip = pre /\ u[loc].tipSupport = 0
      /\ u[loc].parent = t[loc].parent /\ u[loc] \in Node
      /\ u[loc].branchSupport = t[loc].branchSupport
  <2> DEFINE v == [t[loc] EXCEPT !.tip = pre]
  <2>1. /\ v \in Node /\ v.tip = pre /\ v.parent = t[loc].parent
        /\ v.branchSupport = t[loc].branchSupport
    BY <1>2, <1>3 DEF Node
  <2>2. u[loc] = [v EXCEPT !.tipSupport = 0]
    BY <1>6, Zenon
  <2> HIDE DEF v
  <2> QED
    BY <2>1, <2>2 DEF Node
<1>10. ASSUME NEW n \in DOMAIN t \ {loc}
       PROVE  /\ u[n].tip = t[n].tip /\ u[n].tipSupport = t[n].tipSupport
              /\ u[n].parent = IF t[n].parent = loc THEN old ELSE t[n].parent
              /\ u[n].branchSupport = t[n].branchSupport /\ u[n] \in Node
  BY <1>2, <1>3, <1>7, ZenonT(30) DEF Node
<1> USE <1>4, <1>8, <1>9, <1>10
<1>11. u \in [DOMAIN u -> Node]
  <2> USE ZenonT(30)
  <2>1. \A n \in DOMAIN u : u[n] \in Node
    OBVIOUS
  <2> QED
    BY <1>1, <2>1
<1> QED
  BY <1>11, Zenon DEF IsSplit, u, old, pre

\* The ledgers around the cut.
LEMMA SplitLedgers ==
  ASSUME NEW t, WellFormed(t), NEW loc \in DOMAIN t, NEW pos \in Nat,
         seq[loc] < pos, pos < end(t, loc)
  PROVE  LET tip == t[loc].tip
             old == at(tip, pos)
             pre == at(tip, pos - 1)
         IN  /\ old \in Ledger /\ seq[old] = pos /\ IsAncestor(old, tip)
             /\ pre \in Ledger /\ seq[pre] = pos - 1 /\ IsAncestor(pre, tip)
             /\ IsAncestor(loc, old) /\ IsAncestor(loc, pre) /\ IsAncestor(pre, old)
             /\ old \notin DOMAIN t
<1> DEFINE tip == t[loc].tip
           old == at(tip, pos)
           pre == at(tip, pos - 1)
<1>1. /\ loc \in Ledger /\ tip \in Ledger /\ IsAncestor(loc, tip)
      /\ seq[loc] \in Nat /\ seq[tip] \in Nat /\ end(t, loc) = seq[tip] + 1
  BY NodeFacts, Zenon
<1> HIDE DEF tip
<1> USE <1>1
<1>2. pos \in 0 .. seq[tip] /\ pos - 1 \in 0 .. seq[tip]
  OBVIOUS
<1>3. old \in Ledger /\ seq[old] = pos /\ IsAncestor(old, tip)
  BY <1>2, AtAncestor, Zenon
<1>4. pre \in Ledger /\ seq[pre] = pos - 1 /\ IsAncestor(pre, tip)
  BY <1>2, AtAncestor, Zenon
<1> HIDE DEF old, pre
<1> USE <1>3, <1>4
<1>5. seq[loc] <= seq[old] /\ seq[loc] <= seq[pre] /\ seq[pre] <= seq[old]
      /\ seq[loc] # seq[old]
  BY SMTT(30)
<1> USE <1>5
<1>6. IsAncestor(loc, old) /\ IsAncestor(loc, pre) /\ IsAncestor(pre, old)
  BY AncestorLinear, Zenon
<1> USE <1>6
<1>7. old \notin DOMAIN t
  BY Zenon DEF WellFormed, Inside, tip
<1> QED
  BY <1>7, Zenon DEF old, pre, tip

\* A split keeps the shape of the trie and the support it holds.
LEMMA Split ==
  ASSUME NEW t, WellFormed(t), NEW loc \in DOMAIN t, NEW pos \in Nat,
         seq[loc] < pos, pos < end(t, loc)
  PROVE  LET u == split(t, loc, pos)
         IN  /\ WellFormed(u) /\ \A l : heldIn(u, l) = heldIn(t, l)
             /\ DOMAIN u = DOMAIN t \cup {at(t[loc].tip, pos)}
             /\ u[loc].tip = at(t[loc].tip, pos - 1)
<1> DEFINE tip == t[loc].tip
           old == at(tip, pos)
           pre == at(tip, pos - 1)
           u   == split(t, loc, pos)
<1>1. /\ old \in Ledger /\ seq[old] = pos /\ IsAncestor(old, tip)
      /\ pre \in Ledger /\ seq[pre] = pos - 1 /\ IsAncestor(pre, tip)
      /\ IsAncestor(loc, old) /\ IsAncestor(loc, pre) /\ IsAncestor(pre, old)
      /\ old \notin DOMAIN t
  BY SplitLedgers, Zenon
<1>0. IsSplit(t, loc, old, pre, u)
  BY <1>1, SplitFields, Zenon
<1>3. /\ loc \in Ledger /\ tip \in Ledger /\ seq[loc] \in Nat /\ seq[tip] \in Nat
      /\ end(t, loc) = seq[tip] + 1 /\ IsAncestor(loc, tip)
  BY NodeFacts, Zenon
<1>4. tip = t[loc].tip
  BY Zenon
<1>5. old # Genesis /\ loc # old
  BY <1>1, <1>3, GenesisFirst
<1> HIDE DEF tip, old, pre, u
<1>2. /\ DOMAIN u = DOMAIN t \cup {old} /\ u \in [DOMAIN u -> Node]
      /\ u[old].tip = tip /\ u[old].tipSupport = t[loc].tipSupport
      /\ u[old].parent = loc
      /\ u[loc].tip = pre /\ u[loc].tipSupport = 0
      /\ u[loc].parent = t[loc].parent
      /\ \A n \in DOMAIN t \ {loc} :
           /\ u[n].tip = t[n].tip /\ u[n].tipSupport = t[n].tipSupport
           /\ u[n].parent = IF t[n].parent = loc THEN old ELSE t[n].parent
  BY <1>0, Zenon DEF IsSplit, tip
<1>6. DOMAIN u \in SUBSET Ledger /\ Genesis \in DOMAIN u
  BY <1>1, <1>2, Zenon DEF WellFormed
<1>7. \A n \in DOMAIN u : IsAncestor(n, u[n].tip)
  <2> SUFFICES ASSUME NEW n \in DOMAIN u PROVE IsAncestor(n, u[n].tip)
    OBVIOUS
  <2>1. n = old \/ n = loc \/ n \in DOMAIN t \ {loc}
    BY <1>2, Zenon
  <2>2. CASE n \in DOMAIN t \ {loc}
    BY <2>2, <1>2, ZenonT(30) DEF WellFormed
  <2> QED
    BY <2>1, <2>2, <1>1, <1>2, ZenonT(30)
<1>8. u[Genesis].parent = NoNode
  <2>1. t[Genesis].parent = NoNode /\ Genesis \in DOMAIN t
    BY Zenon DEF WellFormed
  <2>2. NoNode # loc
    BY <1>3, HistoryAssumption, SMTT(30) DEF NoNode
  <2> QED
    BY <2>1, <2>2, <1>2, Zenon
<1>9. ASSUME NEW n \in DOMAIN u \ {Genesis}
      PROVE  /\ u[n].parent \in DOMAIN u
             /\ seq[n] = end(u, u[n].parent)
             /\ IsAncestor(u[u[n].parent].tip, n)
  <2>1. CASE n = old
    <3>1. end(u, loc) = pos
      BY <1>1, <1>2 DEF end
    <3> QED
      BY <2>1, <3>1, <1>1, <1>2, ZenonT(30)
  <2>2. ASSUME n \in DOMAIN t
        PROVE  /\ t[n].parent \in DOMAIN t /\ seq[n] = end(t, t[n].parent)
               /\ IsAncestor(t[t[n].parent].tip, n)
    BY <1>9, <2>2, ZenonT(30) DEF WellFormed
  <2>3. CASE n \in DOMAIN t /\ t[n].parent = loc
    <3>1. n # loc
      BY <2>2, <2>3, <1>3, NodeFacts
    <3>2. u[n].parent = old /\ end(u, old) = end(t, loc)
      BY <2>3, <3>1, <1>2, <1>4, ZenonT(30) DEF end
    <3> QED
      BY <2>2, <2>3, <3>2, <1>2, <1>4, Zenon
  <2>4. CASE n \in DOMAIN t /\ t[n].parent # loc
    <3> DEFINE p == t[n].parent
    <3>1. u[n].parent = p
      BY <2>4, <1>2, Zenon
    <3>2. p \in DOMAIN t \ {loc} /\ u[p].tip = t[p].tip
      BY <2>2, <2>4, <1>2, Zenon
    <3> HIDE DEF p
    <3>3. end(u, p) = end(t, p)
      BY <3>2, Zenon DEF end
    <3> QED
      BY <3>1, <3>2, <3>3, <2>2, <2>4, <1>2, ZenonT(30) DEF p
  <2> QED
    BY <2>1, <2>3, <2>4, <1>2, Zenon
<1>10. ASSUME NEW n \in DOMAIN u, NEW m \in DOMAIN u, Inside(u, n, m)
       PROVE  m = n
  <2>1. IsAncestor(n, m) /\ IsAncestor(m, u[n].tip)
    BY <1>10, Zenon DEF Inside
  <2>2. n \in Ledger /\ m \in Ledger
    BY <1>6, Zenon
  <2>3. CASE n = old /\ m \in DOMAIN t
    <3>1. IsAncestor(m, tip) /\ IsAncestor(loc, m)
      BY <2>1, <2>2, <2>3, <1>1, <1>2, <1>3, AncestorTrans, Zenon
    <3>2. m = loc
      BY <2>3, <3>1, <1>4, ZenonT(30) DEF WellFormed, Inside
    <3>3. seq[old] <= seq[loc]
      BY <2>1, <2>3, <3>2, <1>1, <1>3, AncestorSeq, Zenon
    <3> QED
      BY <3>3, <1>1, <1>3, SMTT(30)
  <2>4. CASE n = loc
    <3>1. IsAncestor(m, pre) /\ IsAncestor(m, tip)
      BY <2>1, <2>2, <2>4, <1>1, <1>2, <1>3, AncestorTrans, ZenonT(30)
    <3>2. CASE m = old
      <4>1. seq[old] <= seq[pre]
        BY <3>1, <3>2, <1>1, AncestorSeq, Zenon
      <4> QED
        BY <4>1, <1>1
    <3>3. CASE m \in DOMAIN t
      BY <2>1, <2>4, <3>1, <3>3, <1>4, ZenonT(30) DEF WellFormed, Inside
    <3> QED
      BY <3>2, <3>3, <1>2, Zenon
  <2>5. CASE n \in DOMAIN t \ {loc} /\ m = old
    <3>1. IsAncestor(old, t[n].tip) /\ IsAncestor(n, old)
      BY <2>1, <2>5, <1>2, Zenon
    <3>2. n = loc
      BY <2>5, <3>1, <1>1, <1>4, Disjoint, Zenon
    <3> QED
      BY <3>2, <2>5, Zenon
  <2>6. CASE n \in DOMAIN t \ {loc} /\ m \in DOMAIN t
    BY <2>1, <2>6, <1>2, ZenonT(30) DEF WellFormed, Inside
  <2> QED
    BY <2>3, <2>4, <2>5, <2>6, <1>2, Zenon
<1>11. WellFormed(u)
  BY <1>2, <1>6, <1>7, <1>8, <1>9, <1>10, ZenonT(30) DEF WellFormed
<1>12. SameTips(t, u)
  <2> SUFFICES ASSUME NEW n \in DOMAIN t
               PROVE  \E m \in DOMAIN u : /\ u[m].tip = t[n].tip
                                          /\ u[m].tipSupport = t[n].tipSupport
    BY DEF SameTips
  <2>1. CASE n = loc
    BY <2>1, <1>2, <1>4, Zenon
  <2>2. CASE n # loc
    <3>1. n \in DOMAIN u /\ n \in DOMAIN t \ {loc}
      BY <2>2, <1>2, Zenon
    <3> QED
      BY <3>1, <1>2, ZenonT(30)
  <2> QED
    BY <2>1, <2>2, Zenon
<1>13. SameTips(u, t)
  <2> SUFFICES ASSUME NEW n \in DOMAIN u, u[n].tipSupport # 0
               PROVE  \E m \in DOMAIN t : /\ t[m].tip = u[n].tip
                                          /\ t[m].tipSupport = u[n].tipSupport
    BY DEF SameTips
  <2>1. CASE n = old
    BY <2>1, <1>2, <1>4, Zenon
  <2>2. CASE n # old
    <3>1. n \in DOMAIN t \ {loc}
      BY <2>2, <1>2
    <3> QED
      BY <3>1, <1>2, Zenon
  <2> QED
    BY <2>1, <2>2, Zenon
<1>14. \A l : heldIn(u, l) = heldIn(t, l)
  BY <1>11, <1>12, <1>13, HeldSame, Zenon
<1> QED
  BY <1>2, <1>11, <1>14, Zenon DEF u, old, pre, tip

\* A split keeps the branch supports exact, and leaves nothing to compress but
\* the prefix, which has one child now.
LEMMA SplitExact ==
  ASSUME NEW t, Exact(t), NEW loc \in DOMAIN t, NEW pos \in Nat,
         seq[loc] < pos, pos < end(t, loc)
  PROVE  LET u == split(t, loc, pos)
         IN  /\ Exact(u) /\ children(u, loc) # {}
             /\ Compact(t) => CompactBut(u, loc)
<1> DEFINE tip == t[loc].tip
           old == at(tip, pos)
           pre == at(tip, pos - 1)
           u   == split(t, loc, pos)
<1>0. WellFormed(t) /\ t[Genesis].tip = Genesis
  BY Zenon DEF Exact
<1>1. /\ old \in Ledger /\ IsAncestor(old, tip) /\ pre \in Ledger
      /\ IsAncestor(loc, old) /\ old \notin DOMAIN t
  BY <1>0, SplitLedgers, Zenon
<1>2. IsSplit(t, loc, old, pre, u)
  BY <1>0, <1>1, SplitFields, ZenonT(30)
<1>3. WellFormed(u) /\ \A x : heldIn(u, x) = heldIn(t, x)
  BY <1>0, Split, Zenon
<1>4. loc # Genesis
  <2>1. end(t, Genesis) = 1 /\ seq[Genesis] = 0
    <3>1. seq[Genesis] = 0
      BY HistoryAssumption, GenesisFirst, Zenon
    <3> QED
      BY <3>1, <1>0 DEF end
  <2> QED
    BY <2>1
<1>5. under(t, old) = under(t, loc)
  BY <1>0, <1>1, SpanTotal, Zenon
<1> HIDE DEF tip, old, pre, u
<1>6. \A x : under(u, x) = under(t, x)
  BY <1>3, UnderSame, Zenon
<1>7. u[Genesis].tip = Genesis
  <2> USE <1>0, Zenon
  <2>1. Genesis \in DOMAIN t \ {loc}
    BY <1>4 DEF WellFormed
  <2> QED
    BY <2>1, <1>2 DEF IsSplit
<1>8. ASSUME NEW n \in DOMAIN u PROVE u[n].branchSupport = under(u, n)
  <2> USE <1>2, ZenonT(30)
  <2>1. n = old \/ n = loc \/ n \in DOMAIN t \ {loc}
    BY DEF IsSplit
  <2> USE <1>6
  <2>2. CASE n = old
    BY <2>2, <1>5 DEF IsSplit, Exact
  <2>3. CASE n = loc
    BY <2>3 DEF IsSplit, Exact
  <2>4. CASE n \in DOMAIN t \ {loc}
    BY <2>4 DEF IsSplit, Exact
  <2> QED
    BY <2>1, <2>2, <2>3, <2>4
<1>9. Exact(u)
  BY <1>3, <1>7, <1>8, Zenon DEF Exact
<1>10. old \in children(u, loc)
  BY <1>2, Zenon DEF IsSplit, children
<1>11. ASSUME Compact(t), NEW n \in DOMAIN u, n # Genesis, n # loc,
              u[n].tipSupport = 0
       PROVE  TwoKids(u, n)
  <2>1. loc \notin children(t, loc)
    <3>1. ASSUME loc \in children(t, loc) PROVE FALSE
      <4>1. seq[loc] = end(t, loc) /\ seq[loc] \in Nat /\ seq[loc] < end(t, loc)
        BY <3>1, <1>0, ChildFacts, NodeFacts, Zenon
      <4> QED
        BY <4>1
    <3> QED
      BY <3>1, Zenon
  <2>2. CASE n = old
    <3> USE Zenon
    <3>1. t[loc].tipSupport = 0
      BY <2>2, <1>2, <1>11 DEF IsSplit
    <3>2. TwoKids(t, loc)
      BY <3>1, <1>4, <1>11 DEF Compact, CompactBut
    <3>3. ASSUME NEW c \in children(t, loc) PROVE c \in children(u, n)
      <4>1. c \in DOMAIN t \ {loc} /\ t[c].parent = loc
        BY <2>1 DEF children
      <4> QED
        BY <4>1, <2>2, <1>2 DEF IsSplit, children
    <3> QED
      BY <3>2, <3>3 DEF TwoKids
  <2>3. CASE n # old
    <3> USE <1>2, Zenon
    <3>1. n \in DOMAIN t \ {loc} /\ t[n].tipSupport = 0
      BY <2>3, <1>11 DEF IsSplit
    <3>2. TwoKids(t, n)
      BY <3>1, <1>11 DEF Compact, CompactBut
    <3>3. ASSUME NEW c \in children(t, n) PROVE c \in children(u, n)
      <4>1. c \in DOMAIN t /\ t[c].parent = n /\ n # loc
        BY <3>1 DEF children
      <4> USE <4>1
      <4>2. u[c].parent = n
        BY DEF IsSplit
      <4> QED
        BY <4>2 DEF IsSplit, children
    <3> QED
      BY <3>2, <3>3 DEF TwoKids
  <2> QED
    BY <2>2, <2>3, Zenon
<1>12. Compact(t) => CompactBut(u, loc)
  BY <1>11, Zenon DEF CompactBut
<1> QED
  BY <1>9, <1>10, <1>12, Zenon DEF u

-------------------------------------------------------------------------------
(* A new leaf, and more support. *)

IsGrown(t, loc, new, l, u) ==
  /\ DOMAIN u = DOMAIN t \cup {new} /\ u \in [DOMAIN u -> Node]
  /\ u[new].tip = l /\ u[new].tipSupport = 0 /\ u[new].parent = loc
  /\ u[new].branchSupport = 0
  /\ \A n \in DOMAIN t : u[n] = t[n]

\* What grow computes, field by field.
LEMMA GrowFields ==
  ASSUME NEW t, WellFormed(t), NEW loc \in DOMAIN t, NEW pos, NEW l \in Ledger,
         at(l, pos) \notin DOMAIN t
  PROVE  IsGrown(t, loc, at(l, pos), l, grow(t, loc, pos, l))
<1> DEFINE new == at(l, pos)
           leaf == [tip |-> l, tipSupport |-> 0, branchSupport |-> 0,
                    parent |-> loc]
           u == grow(t, loc, pos, l)
<1>1. u = [n \in DOMAIN t \cup {new} |-> IF n = new THEN leaf ELSE t[n]]
  BY Zenon DEF grow
<1>2. loc \in Ledger /\ \A n \in DOMAIN t : t[n] \in Node
  BY Zenon DEF WellFormed
<1>3. leaf \in Node /\ leaf.tip = l /\ leaf.tipSupport = 0 /\ leaf.parent = loc
      /\ leaf.branchSupport = 0
  BY <1>2 DEF Node
<1> HIDE DEF new, leaf, u
<1> USE <1>1
<1>4. DOMAIN u = DOMAIN t \cup {new} /\ u[new] = leaf
  BY Zenon
<1>5. \A n \in DOMAIN t : u[n] = t[n]
  BY Zenon DEF new
<1> USE <1>3, <1>4
<1>6. u \in [DOMAIN u -> Node]
  BY <1>2, Zenon
<1> QED
  BY <1>5, <1>6, Zenon DEF IsGrown, new, u

\* A leaf for the part of l's history the trie does not have yet.
LEMMA Grow ==
  ASSUME NEW t, WellFormed(t), NEW loc \in DOMAIN t, NEW l \in Ledger,
         IsAncestor(t[loc].tip, l), end(t, loc) <= seq[l],
         \A m \in DOMAIN t : IsAncestor(m, l) => seq[m] <= seq[loc]
  PROVE  LET u == grow(t, loc, end(t, loc), l)
             new == at(l, end(t, loc))
         IN  /\ WellFormed(u) /\ \A x : heldIn(u, x) = heldIn(t, x)
             /\ new \in DOMAIN u /\ u[new].tip = l
<1> DEFINE pos == end(t, loc)
           tip == t[loc].tip
           new == at(l, pos)
           u   == grow(t, loc, pos, l)
<1>1. /\ loc \in Ledger /\ tip \in Ledger /\ IsAncestor(loc, tip)
      /\ seq[loc] \in Nat /\ seq[tip] \in Nat /\ pos = seq[tip] + 1
      /\ seq[l] \in Nat /\ seq[loc] <= seq[tip]
  BY NodeFacts, Seqs, Zenon
<1>2. pos \in 0 .. seq[l]
  BY <1>1
<1>3. new \in Ledger /\ seq[new] = pos /\ IsAncestor(new, l)
  BY <1>2, AtAncestor, Zenon
<1>4. new \notin DOMAIN t /\ new # Genesis
  <2> USE <1>1, <1>3
  <2>1. ~(seq[new] <= seq[loc])
    OBVIOUS
  <2>2. seq[Genesis] = 0
    BY GenesisFirst, Zenon
  <2> QED
    BY <2>1, <2>2, SMTT(30)
<1>0. IsGrown(t, loc, new, l, u)
  BY <1>4, GrowFields, Zenon
<1>5. tip = t[loc].tip
  BY Zenon
<1>6. IsAncestor(tip, new) /\ IsAncestor(loc, new) /\ IsAncestor(loc, l)
  <2> USE <1>1, <1>3
  <2>1. IsAncestor(tip, new)
    BY AncestorLinear
  <2> QED
    BY <2>1, AncestorTrans, Zenon
<1> HIDE DEF pos, tip, new, u
<1>7. /\ DOMAIN u = DOMAIN t \cup {new} /\ u \in [DOMAIN u -> Node]
      /\ u[new].tip = l /\ u[new].tipSupport = 0 /\ u[new].parent = loc
      /\ \A n \in DOMAIN t : u[n] = t[n]
  BY <1>0, ZenonT(30) DEF IsGrown
<1> USE <1>7
<1>8. DOMAIN u \in SUBSET Ledger /\ Genesis \in DOMAIN u
  BY <1>3, Zenon DEF WellFormed
<1>9. \A n \in DOMAIN u : IsAncestor(n, u[n].tip)
  BY <1>3, Zenon DEF WellFormed
<1>10. u[Genesis].parent = NoNode
  BY DEF WellFormed
<1>11. \A n \in DOMAIN t : end(u, n) = end(t, n)
  BY Zenon DEF end
<1>12. ASSUME NEW n \in DOMAIN u \ {Genesis}
       PROVE  /\ u[n].parent \in DOMAIN u
              /\ seq[n] = end(u, u[n].parent)
              /\ IsAncestor(u[u[n].parent].tip, n)
  <2>1. CASE n = new
    <3>1. seq[new] = end(u, loc)
      BY <1>3, <1>11, Zenon DEF pos
    <3> QED
      BY <2>1, <3>1, <1>5, <1>6, Zenon
  <2>2. CASE n \in DOMAIN t
    <3> USE <2>2
    <3>1. /\ t[n].parent \in DOMAIN t /\ seq[n] = end(t, t[n].parent)
          /\ IsAncestor(t[t[n].parent].tip, n)
      BY <1>12, Zenon DEF WellFormed
    <3> QED
      BY <3>1, <1>11, Zenon
  <2> QED
    BY <2>1, <2>2, Zenon
<1>13. ASSUME NEW n \in DOMAIN u, NEW m \in DOMAIN u, Inside(u, n, m)
       PROVE  m = n
  <2>1. IsAncestor(n, m) /\ IsAncestor(m, u[n].tip)
    BY <1>13, Zenon DEF Inside
  <2>2. n \in Ledger /\ m \in Ledger /\ seq[n] \in Nat /\ seq[m] \in Nat
    BY <1>8, Seqs, Zenon
  <2>3. CASE n = new /\ m \in DOMAIN t
    <3> USE <2>1, <2>3
    <3>1. seq[m] <= seq[loc]
      BY Zenon
    <3> USE <2>2
    <3>2. seq[new] <= seq[m]
      BY AncestorSeq, Zenon
    <3> QED
      BY <3>1, <3>2, <1>1, <1>3, SMTT(30)
  <2>4. CASE n \in DOMAIN t /\ m = new
    <3> USE <2>4
    <3>1. IsAncestor(new, t[n].tip) /\ IsAncestor(n, new)
      BY <2>1, Zenon
    <3> USE <1>3
    <3>2. t[n].tip \in Ledger /\ IsAncestor(n, l)
      BY <2>2, <3>1, NodeFacts, AncestorTrans, ZenonT(30)
    <3> USE <1>1, <3>2
    <3>3. IsAncestor(n, loc)
      <4>1. seq[n] <= seq[loc]
        BY Zenon
      <4> QED
        BY <4>1, <2>2, <1>6, AncestorLinear, SMTT(30)
    <3>4. IsAncestor(loc, t[n].tip)
      BY <3>1, <1>6, AncestorTrans, ZenonT(30)
    <3>5. n = loc
      BY <3>3, <3>4, ZenonT(30) DEF WellFormed, Inside
    <3>6. seq[new] <= seq[tip]
      BY <3>1, <3>5, <1>5, AncestorSeq, Zenon
    <3> QED
      BY <3>6, SMTT(30)
  <2>5. CASE n \in DOMAIN t /\ m \in DOMAIN t
    BY <2>1, <2>5, ZenonT(30) DEF WellFormed, Inside
  <2> QED
    BY <2>3, <2>4, <2>5, SMTT(30)
<1>14. WellFormed(u)
  BY <1>8, <1>9, <1>10, <1>12, <1>13, Zenon DEF WellFormed
<1>15. SameTips(t, u) /\ SameTips(u, t)
  BY DEF SameTips
<1> USE <1>14
<1>16. \A x : heldIn(u, x) = heldIn(t, x)
  BY <1>15, HeldSame, Zenon
<1> QED
  BY <1>16, Zenon DEF u, new, pos

\* So does a new leaf, which needs support now, and its parent has one child
\* more.
LEMMA GrowExact ==
  ASSUME NEW t, Exact(t), NEW loc \in DOMAIN t, NEW l \in Ledger,
         IsAncestor(t[loc].tip, l), end(t, loc) <= seq[l],
         \A m \in DOMAIN t : IsAncestor(m, l) => seq[m] <= seq[loc]
  PROVE  LET u == grow(t, loc, end(t, loc), l)
             new == at(l, end(t, loc))
         IN  /\ Exact(u)
             /\ (/\ CompactBut(t, loc)
                 /\ loc = Genesis \/ t[loc].tipSupport # 0 \/ children(t, loc) # {})
                => CompactBut(u, new)
<1> DEFINE pos == end(t, loc)
           u   == grow(t, loc, pos, l)
           new == at(l, pos)
<1>0. WellFormed(t) /\ t[Genesis].tip = Genesis
  BY Zenon DEF Exact
<1>1. /\ WellFormed(u) /\ \A x : heldIn(u, x) = heldIn(t, x)
      /\ new \in DOMAIN u /\ u[new].tip = l
  BY <1>0, Grow, ZenonT(30)
<1>2. new \in Ledger /\ new \notin DOMAIN t
  <2>1. /\ pos \in Nat /\ seq[loc] \in Nat /\ seq[loc] < pos /\ seq[l] \in Nat
    BY <1>0, NodeFacts, Seqs, Zenon
  <2> USE <2>1
  <2>2. pos \in 0 .. seq[l]
    BY SMTT(30)
  <2>3. new \in Ledger /\ seq[new] = pos /\ IsAncestor(new, l)
    BY <2>2, AtAncestor, Zenon
  <2> QED
    BY <2>3, SMTT(30)
<1>3. IsGrown(t, loc, new, l, u)
  BY <1>0, <1>2, GrowFields, Zenon
<1> HIDE DEF new, u, pos
<1>4. \A x : under(u, x) = under(t, x)
  BY <1>1, UnderSame, Zenon
<1>5. ASSUME NEW n \in DOMAIN t
      PROVE  /\ u[n] = t[n] /\ n \in DOMAIN u
             /\ \A c \in children(t, n) : c \in children(u, n) /\ c # new
  BY <1>2, <1>3, Zenon DEF IsGrown, children
<1>6. under(u, new) = 0
  <2> DEFINE h == supportOf(u)
             S == Descendants[new]
  <2>1. children(u, new) = {}
    <3>1. ASSUME NEW c \in children(u, new) PROVE FALSE
      <4>1. c \in DOMAIN u /\ u[c].parent = new
        BY Zenon DEF children
      <4> USE <1>2, <4>1
      <4>2. CASE c = new
        BY <4>2, <1>3, Zenon DEF IsGrown
      <4>3. CASE c \in DOMAIN t
        <5> USE <4>3
        <5>1. t[c].parent = new
          BY <1>5, Zenon
        <5>2. new # NoNode
          <6>1. new \in Nat
            BY Seqs, Zenon
          <6> QED
            BY <6>1 DEF NoNode
        <5> QED
          BY <5>1, <5>2, <1>0, Zenon DEF WellFormed
      <4> QED
        BY <4>2, <4>3, <1>3, Zenon DEF IsGrown
    <3> QED
      BY <3>1, Zenon
  <2>2. heldIn(u, l) = 0
    BY <1>1, <1>3, HeldAtTip, Zenon DEF IsGrown
  <2>3. /\ S = {d \in Ledger : IsAncestor(new, d)} /\ IsFiniteSet(S)
        /\ \A d \in Ledger : h[d] = heldIn(u, d)
    BY <1>1, <1>2, SupportType, Zenon
  <2>4. under(u, new) = Total(h, S)
    BY Zenon DEF under
  <2> HIDE DEF h, S
  <2> USE <2>3
  <2>5. ASSUME NEW d \in S PROVE h[d] = 0
    <3> USE Zenon
    <3>1. d \in Ledger /\ IsAncestor(new, d)
      OBVIOUS
    <3> USE <3>1
    <3>2. heldIn(u, d) = 0
      BY <2>1, <2>2, <1>1, HeldBelow, ZenonT(30)
    <3> QED
      BY <3>2
  <2> QED
    BY <2>4, <2>5, TotalZero, Zenon
<1>7. ASSUME NEW n \in DOMAIN u PROVE u[n].branchSupport = under(u, n)
  <2> USE <1>3, Zenon
  <2>1. CASE n = new
    BY <2>1, <1>6 DEF IsGrown
  <2>2. CASE n \in DOMAIN t
    BY <2>2, <1>4, <1>5 DEF Exact
  <2> QED
    BY <2>1, <2>2, ZenonT(30) DEF IsGrown
<1>8. Exact(u)
  <2> USE <1>0, Zenon
  <2>1. u[Genesis] = t[Genesis]
    BY <1>5 DEF WellFormed
  <2> QED
    BY <2>1, <1>1, <1>7, ZenonT(30) DEF Exact
<1>9. ASSUME CompactBut(t, loc),
             loc = Genesis \/ t[loc].tipSupport # 0 \/ children(t, loc) # {}
      PROVE  CompactBut(u, new)
  <2> USE Zenon
  <2> SUFFICES ASSUME NEW n \in DOMAIN u, n # Genesis, n # new,
                      u[n].tipSupport = 0
               PROVE  TwoKids(u, n)
    BY DEF CompactBut
  <2>1. n \in DOMAIN t /\ t[n].tipSupport = 0
    BY <1>3, <1>5 DEF IsGrown
  <2>2. CASE n = loc
    <3> USE <2>2
    <3>1. PICK c \in children(t, loc) : TRUE
      BY <2>1, <1>9
    <3>2. c \in children(u, n) /\ c # new
      BY <1>5
    <3>3. new \in children(u, n)
      BY <1>1, <1>3 DEF IsGrown, children
    <3> QED
      BY <3>2, <3>3 DEF TwoKids
  <2>3. CASE n # loc
    <3> USE <2>1
    <3>1. TwoKids(t, n)
      BY <2>3, <1>9 DEF CompactBut
    <3> QED
      BY <3>1, <1>5 DEF TwoKids
  <2> QED
    BY <2>2, <2>3
<1> QED
  BY <1>8, <1>9, Zenon DEF u, new, pos

IsAdded(t, loc, d, path, u) ==
  /\ DOMAIN u = DOMAIN t /\ u \in [DOMAIN u -> Node]
  /\ \A n \in DOMAIN t :
       /\ u[n].tip = t[n].tip /\ u[n].parent = t[n].parent
       /\ u[n].tipSupport = t[n].tipSupport + (IF n = loc THEN d ELSE 0)
       /\ u[n].branchSupport = t[n].branchSupport + (IF n \in path THEN d ELSE 0)

\* What addSupport computes, field by field.
LEMMA AddFields ==
  ASSUME NEW t, WellFormed(t), NEW loc \in DOMAIN t, NEW d \in Int,
         t[loc].tipSupport + d \in Nat
  PROVE  IsAdded(t, loc, d, pathToRoot(t, loc), addSupport(t, loc, d))
<1> DEFINE path == pathToRoot(t, loc)
           u == addSupport(t, loc, d)
           more(n) == [t[n] EXCEPT
                         !.tipSupport    = IF n = loc THEN @ + d ELSE @,
                         !.branchSupport = IF n \in path THEN @ + d ELSE @]
<1>1. u = [n \in DOMAIN t |-> more(n)]
  BY Zenon DEF addSupport
<1> HIDE DEF u, path
<1>2. ASSUME NEW n \in DOMAIN t
      PROVE  /\ u[n] \in Node /\ u[n].tip = t[n].tip /\ u[n].parent = t[n].parent
             /\ u[n].tipSupport = t[n].tipSupport + (IF n = loc THEN d ELSE 0)
             /\ u[n].branchSupport = t[n].branchSupport
                                        + (IF n \in path THEN d ELSE 0)
  <2> DEFINE v == [t[n] EXCEPT !.tipSupport = IF n = loc THEN @ + d ELSE @]
  <2>1. t[n] \in Node
    BY DEF WellFormed
  <2>2. /\ v \in Node /\ v.tip = t[n].tip /\ v.parent = t[n].parent
        /\ v.tipSupport = t[n].tipSupport + (IF n = loc THEN d ELSE 0)
        /\ v.branchSupport = t[n].branchSupport
    BY <2>1, SMTT(30) DEF Node
  <2>3. u[n] = [v EXCEPT !.branchSupport = IF n \in path THEN @ + d ELSE @]
    BY <1>1, ZenonT(30)
  <2> HIDE DEF v
  <2> QED
    BY <2>2, <2>3 DEF Node
<1> USE <1>2
<1>3. DOMAIN u = DOMAIN t /\ u \in [DOMAIN u -> Node]
  BY <1>1, ZenonT(30)
<1> QED
  BY <1>3, Zenon DEF IsAdded, u, path

\* More or less support changes nothing else.
LEMMA AddSupport ==
  ASSUME NEW t, WellFormed(t), NEW loc \in DOMAIN t, NEW d \in Int,
         t[loc].tipSupport + d \in Nat
  PROVE  LET u == addSupport(t, loc, d)
         IN  /\ WellFormed(u) /\ DOMAIN u = DOMAIN t
             /\ \A x : heldIn(u, x) = heldIn(t, x)
                                      + (IF x = t[loc].tip THEN d ELSE 0)
<1> DEFINE u == addSupport(t, loc, d)
<1>1. IsAdded(t, loc, d, pathToRoot(t, loc), u)
  BY AddFields
<1> HIDE DEF u
<1>2. ASSUME NEW n \in DOMAIN t
      PROVE  /\ u[n].tip = t[n].tip /\ u[n].parent = t[n].parent
             /\ u[n].tipSupport = t[n].tipSupport + (IF n = loc THEN d ELSE 0)
  BY <1>1, Zenon DEF IsAdded
<1>3. DOMAIN u = DOMAIN t /\ u \in [DOMAIN u -> Node]
  BY <1>1, Zenon DEF IsAdded
<1> USE <1>2
<1>4. \A n \in DOMAIN t : end(u, n) = end(t, n)
  BY Zenon DEF end
<1>5. \A n, m \in DOMAIN t : Inside(u, n, m) => Inside(t, n, m)
  BY Zenon DEF Inside
<1>6. WellFormed(u)
  BY <1>3, <1>4, <1>5, Zenon DEF WellFormed
<1>7. ASSUME NEW x
      PROVE  heldIn(u, x) = heldIn(t, x) + (IF x = t[loc].tip THEN d ELSE 0)
  <2>1. CASE \E n \in DOMAIN t : t[n].tip = x
    <3>1. PICK n \in DOMAIN t : t[n].tip = x
      BY <2>1, Zenon
    <3> USE <3>1
    <3>2. heldIn(t, x) = t[n].tipSupport /\ heldIn(u, x) = u[n].tipSupport
      BY <1>3, <1>6, HeldAtTip, Zenon
    <3>3. x = t[loc].tip <=> n = loc
      BY TipUnique, Zenon
    <3> QED
      BY <3>2, <3>3, Zenon
  <2>2. CASE \A n \in DOMAIN t : t[n].tip # x
    <3> USE <2>2
    <3>1. heldIn(t, x) = 0 /\ heldIn(u, x) = 0
      BY <1>3, <1>6, HeldAtTip, SMTT(30)
    <3> QED
      BY <3>1
  <2> QED
    BY <2>1, <2>2, Zenon
<1> QED
  BY <1>3, <1>6, <1>7, Zenon DEF u

\* Support added along the path to the root keeps the branch supports exact.
LEMMA AddExact ==
  ASSUME NEW t, Exact(t), NEW loc \in DOMAIN t, NEW d \in Int,
         t[loc].tipSupport + d \in Nat
  PROVE  LET u == addSupport(t, loc, d)
         IN  /\ Exact(u)
             /\ CompactBut(t, loc) => /\ CompactBut(u, loc)
                                      /\ t[loc].tipSupport + d # 0 => Compact(u)
<1> DEFINE u == addSupport(t, loc, d)
           path == pathToRoot(t, loc)
           tip == t[loc].tip
<1>0. WellFormed(t) /\ t[Genesis].tip = Genesis /\ Genesis \in DOMAIN t
  BY Zenon DEF Exact, WellFormed
<1>1. /\ WellFormed(u) /\ DOMAIN u = DOMAIN t
      /\ \A x : heldIn(u, x) = heldIn(t, x) + (IF x = tip THEN d ELSE 0)
  BY <1>0, AddSupport, Zenon
<1>2. IsAdded(t, loc, d, path, u)
  BY <1>0, AddFields, Zenon
<1>3. path = {m \in DOMAIN t : IsAncestor(m, tip)} /\ tip \in Ledger
  BY <1>0, Path, NodeFacts, Zenon
<1> HIDE DEF u, path, tip
<1>4. ASSUME NEW n \in DOMAIN u PROVE u[n].branchSupport = under(u, n)
  <2>1. n \in DOMAIN t /\ n \in Ledger
    BY <1>0, <1>1, NodeFacts, ZenonT(30)
  <2> USE <2>1
  <2>2. under(u, n) = under(t, n) + (IF IsAncestor(n, tip) THEN d ELSE 0)
    BY <1>0, <1>1, <1>3, UnderChange
  <2>3. n \in path <=> IsAncestor(n, tip)
    BY <1>3, Zenon
  <2>4. u[n].branchSupport = t[n].branchSupport + (IF n \in path THEN d ELSE 0)
    BY <1>2, Zenon DEF IsAdded
  <2>5. t[n].branchSupport = under(t, n)
    BY Zenon DEF Exact
  <2> QED
    BY <2>2, <2>3, <2>4, <2>5, Zenon
<1>5. Exact(u)
  BY <1>0, <1>1, <1>2, <1>4, Zenon DEF Exact, IsAdded
<1>6. ASSUME NEW n \in DOMAIN u PROVE TwoKids(t, n) => TwoKids(u, n)
  <2> USE Zenon
  <2>1. \A c \in children(t, n) : c \in children(u, n)
    BY <1>2 DEF IsAdded, children
  <2> QED
    BY <2>1 DEF TwoKids
<1>7. ASSUME NEW n \in DOMAIN u, n # loc PROVE u[n].tipSupport = t[n].tipSupport
  <2>1. n \in DOMAIN t /\ u[n].tipSupport = t[n].tipSupport + 0
    BY <1>1, <1>2, <1>7, Zenon DEF IsAdded
  <2> QED
    BY <2>1, <1>0, NodeFacts
<1>8. u[loc].tipSupport = t[loc].tipSupport + d
  BY <1>2, Zenon DEF IsAdded
<1>9. ASSUME CompactBut(t, loc)
      PROVE  CompactBut(u, loc) /\ (t[loc].tipSupport + d # 0 => Compact(u))
  <2> USE Zenon
  <2>1. CompactBut(u, loc)
    BY <1>1, <1>6, <1>7, <1>9 DEF CompactBut
  <2> USE <2>1
  <2>2. ASSUME t[loc].tipSupport + d # 0 PROVE Compact(u)
    BY <2>2, <1>8 DEF CompactBut, Compact
  <2> QED
    BY <2>2
<1> QED
  BY <1>5, <1>9, Zenon DEF u

-------------------------------------------------------------------------------
(* insert. *)

\* After the node found has been cut where l departs from it, if need be, its
\* tip is the last ancestor of l that the trie has.
LEMMA Cut ==
  ASSUME NEW t, Exact(t), Compact(t), NEW l \in Ledger
  PROVE  LET f   == find(t, l)
             cut == IF f.pos < end(t, f.loc) THEN split(t, f.loc, f.pos) ELSE t
         IN  /\ Exact(cut) /\ \A x : heldIn(cut, x) = heldIn(t, x)
             /\ f.loc \in DOMAIN cut /\ f.pos = end(cut, f.loc)
             /\ IsAncestor(cut[f.loc].tip, l)
             /\ \A m \in DOMAIN cut : IsAncestor(m, l) => seq[m] <= seq[f.loc]
             /\ CompactBut(cut, f.loc)
             /\ \/ f.loc = Genesis \/ cut[f.loc].tipSupport # 0
                \/ children(cut, f.loc) # {}
<1> DEFINE f   == find(t, l)
           n   == f.loc
           pos == f.pos
           tip == t[n].tip
           cut == IF pos < end(t, n) THEN split(t, n, pos) ELSE t
<1>0. WellFormed(t)
  BY Zenon DEF Exact
<1>1. /\ n \in DOMAIN t /\ IsAncestor(n, l) /\ pos = diff(t, n, l)
      /\ \A m \in DOMAIN t : IsAncestor(m, l) => seq[m] <= seq[n]
  BY <1>0, FindLast, Zenon
<1> HIDE DEF f, n, pos
<1>2. /\ n \in Ledger /\ tip \in Ledger /\ IsAncestor(n, tip)
      /\ seq[n] \in Nat /\ seq[tip] \in Nat /\ end(t, n) = seq[tip] + 1
      /\ IsAncestor(tip, tip)
  BY <1>0, <1>1, NodeFacts, AncestorRefl, Zenon
<1>3. /\ pos \in Nat /\ seq[n] < pos /\ pos <= end(t, n)
      /\ \A x \in Ledger : IsAncestor(n, x) /\ IsAncestor(x, tip)
           => (IsAncestor(x, l) <=> seq[x] < pos)
  BY <1>0, <1>1, Diff, Zenon
<1>4. CASE pos < end(t, n)
  <2> DEFINE old == at(tip, pos)
             pre == at(tip, pos - 1)
             u   == split(t, n, pos)
  <2>1. cut = u
    BY <1>4, Zenon
  <2>0. n \in DOMAIN t /\ pos \in Nat /\ seq[n] < pos
    BY <1>1, <1>3, Zenon
  <2>2. /\ old \in Ledger /\ seq[old] = pos /\ IsAncestor(old, tip)
        /\ pre \in Ledger /\ seq[pre] = pos - 1 /\ IsAncestor(pre, tip)
        /\ IsAncestor(n, old) /\ IsAncestor(n, pre) /\ old \notin DOMAIN t
    BY <1>0, <2>0, <1>4, SplitLedgers, ZenonT(30)
  <2>3. /\ \A x : heldIn(u, x) = heldIn(t, x)
        /\ DOMAIN u = DOMAIN t \cup {old} /\ u[n].tip = pre
    <3> USE <1>0, <2>0, Zenon
    <3>1. \A x : heldIn(u, x) = heldIn(t, x)
      BY <1>4, Split
    <3>2. IsSplit(t, n, old, pre, u)
      BY <2>2, SplitFields
    <3> QED
      BY <3>1, <3>2 DEF IsSplit
  <2>4. Exact(u) /\ CompactBut(u, n) /\ children(u, n) # {}
    BY <2>0, <1>4, SplitExact, ZenonT(30)
  <2> HIDE DEF u, cut, old, pre, tip
  <2>5. IsAncestor(pre, l)
    BY <2>2, <1>3, SMTT(30)
  <2>6. ~IsAncestor(old, l)
    BY <2>2, <1>3
  <2> USE <2>3
  <2>7. \A m \in DOMAIN u : IsAncestor(m, l) => seq[m] <= seq[n]
    BY <2>6, <1>1, ZenonT(30)
  <2>8. n \in DOMAIN u /\ pos = end(u, n)
    BY <2>2, <1>1, <1>3, SMTT(30) DEF end
  <2>9. /\ Exact(cut) /\ \A x : heldIn(cut, x) = heldIn(t, x)
        /\ n \in DOMAIN cut /\ pos = end(cut, n) /\ IsAncestor(cut[n].tip, l)
        /\ \A m \in DOMAIN cut : IsAncestor(m, l) => seq[m] <= seq[n]
        /\ CompactBut(cut, n) /\ children(cut, n) # {}
    BY <2>1, <2>4, <2>5, <2>7, <2>8, ZenonT(30)
  <2> QED
    BY <2>9, Zenon DEF cut, n, pos, f
<1>5. CASE ~(pos < end(t, n))
  <2>1. cut = t
    BY <1>5, Zenon
  <2>2. pos = end(t, n)
    BY <1>2, <1>3, <1>5
  <2>3. CompactBut(t, n)
    BY Zenon DEF Compact, CompactBut
  <2> USE <1>1
  <2>4. n = Genesis \/ t[n].tipSupport # 0 \/ children(t, n) # {}
    BY Zenon DEF Compact, CompactBut, TwoKids
  <2> HIDE DEF cut, tip
  <2> USE <2>2
  <2>5. IsAncestor(tip, l)
    BY <1>2, <1>3
  <2>6. /\ Exact(cut) /\ \A x : heldIn(cut, x) = heldIn(t, x)
        /\ n \in DOMAIN cut /\ pos = end(cut, n) /\ IsAncestor(cut[n].tip, l)
        /\ \A m \in DOMAIN cut : IsAncestor(m, l) => seq[m] <= seq[n]
        /\ CompactBut(cut, n)
        /\ n = Genesis \/ cut[n].tipSupport # 0 \/ children(cut, n) # {}
    BY <2>1, <2>3, <2>4, <2>5, Zenon DEF tip
  <2> QED
    BY <2>6, Zenon DEF cut, n, pos, f
<1> QED
  BY <1>4, <1>5, Zenon

\* insert adds the count to the support of l, and to no other's.
LEMMA Insert ==
  ASSUME NEW t, Exact(t), Compact(t), NEW l \in Ledger, NEW count \in Nat \ {0}
  PROVE  /\ Exact(insertIn(t, l, count)) /\ Compact(insertIn(t, l, count))
         /\ \A x : heldIn(insertIn(t, l, count), x)
                     = heldIn(t, x) + (IF x = l THEN count ELSE 0)
<1> DEFINE f   == find(t, l)
           n   == f.loc
           pos == f.pos
           cut == IF pos < end(t, n) THEN split(t, n, pos) ELSE t
<1>1. /\ Exact(cut) /\ \A x : heldIn(cut, x) = heldIn(t, x)
      /\ n \in DOMAIN cut /\ pos = end(cut, n)
      /\ IsAncestor(cut[n].tip, l)
      /\ \A m \in DOMAIN cut : IsAncestor(m, l) => seq[m] <= seq[n]
      /\ CompactBut(cut, n)
      /\ n = Genesis \/ cut[n].tipSupport # 0 \/ children(cut, n) # {}
  BY Cut, Zenon
<1>2. insertIn(t, l, count) =
        IF pos <= seq[l]
        THEN addSupport(grow(cut, n, pos, l), at(l, pos), count)
        ELSE addSupport(cut, n, count)
  BY Zenon DEF insertIn
<1> HIDE DEF f, n, pos, cut
<1> USE <1>1
<1>0. WellFormed(cut)
  BY Zenon DEF Exact
<1>3. CASE pos <= seq[l]
  <2> DEFINE u   == grow(cut, n, pos, l)
             new == at(l, pos)
  <2>1. /\ \A x : heldIn(u, x) = heldIn(cut, x)
        /\ new \in DOMAIN u /\ u[new].tip = l
    BY <1>0, <1>3, Grow, SMTT(30)
  <2>2. Exact(u) /\ CompactBut(u, new)
    BY <1>3, GrowExact, Zenon
  <2> HIDE DEF u, new
  <2>3. WellFormed(u)
    BY <2>2, ZenonT(30) DEF Exact
  <2> USE <2>1
  <2>4. u[new].tipSupport + count \in Nat /\ u[new].tipSupport + count # 0
    BY <2>3, NodeFacts, SMTT(30)
  <2> DEFINE w == addSupport(u, new, count)
  <2> USE <2>4
  <2>5. \A x : heldIn(w, x) = heldIn(u, x) + (IF x = l THEN count ELSE 0)
    BY <2>3, AddSupport, SMTT(30)
  <2>6. Exact(w) /\ Compact(w)
    BY <2>2, AddExact, SMTT(30)
  <2>7. w = insertIn(t, l, count)
    BY <1>2, <1>3, Zenon DEF u, new
  <2> HIDE DEF w
  <2> QED
    BY <2>5, <2>6, <2>7, ZenonT(30)
<1>4. CASE ~(pos <= seq[l])
  <2>1. cut[n].tip \in Ledger /\ seq[cut[n].tip] \in Nat /\ seq[l] \in Nat
        /\ pos = seq[cut[n].tip] + 1
    BY <1>0, NodeFacts, Seqs, Zenon
  <2>2. cut[n].tip = l
    BY <1>4, <2>1, AncestorSeq, SMTT(30)
  <2>3. cut[n].tipSupport + count \in Nat /\ cut[n].tipSupport + count # 0
    BY <1>0, NodeFacts, SMTT(30)
  <2> DEFINE w == addSupport(cut, n, count)
  <2> USE <2>3
  <2>4. \A x : heldIn(w, x) = heldIn(cut, x) + (IF x = l THEN count ELSE 0)
    BY <2>2, <1>0, AddSupport, SMTT(30)
  <2>5. Exact(w) /\ Compact(w)
    BY AddExact
  <2>6. w = insertIn(t, l, count)
    BY <1>2, <1>4
  <2> HIDE DEF w
  <2> QED
    BY <2>4, <2>5, <2>6, ZenonT(30)
<1> QED
  BY <1>3, <1>4, Zenon

===============================================================================
