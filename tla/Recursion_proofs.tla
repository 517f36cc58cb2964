--------------------------- MODULE Recursion_proofs ---------------------------
(***************************************************************************)
(* Functions defined by recursion exist, and what their iteration reaches. *)
(* The induction theorems of the library take a predicate as a parameter;  *)
(* here a predicate is the set of numbers it holds for, and a step of a    *)
(* recursion is a function, so that the lemmas can be cited by name.       *)
(***************************************************************************)
EXTENDS Integers, FiniteSets, FiniteSetTheorems, WellFoundedInduction, TLAPS

\* A non-empty set of naturals has a least element.
LEMMA LeastNat ==
    ASSUME NEW S \in SUBSET Nat, S # {}
    PROVE  \E m \in S : \A a \in S : m <= a
<1>1. PICK m \in S : \A a \in S : ~ (<<a, m>> \in OpToRel(<, Nat))
  BY NatLessThanWellFounded, WFMin
<1>2. \A a \in S : ~ (a < m)
  BY <1>1 DEF OpToRel
<1>3. QED
  BY <1>2

\* Induction up to a bound, for the set of numbers a claim holds for.
LEMMA Ascend ==
    ASSUME NEW N \in Nat, NEW S, 0 \in S,
           \A i \in 0..N : i \in S /\ i + 1 <= N => i + 1 \in S
    PROVE  \A i \in 0..N : i \in S
<1> DEFINE Bad == {i \in 0..N : i \notin S}
<1>1. ASSUME Bad # {} PROVE FALSE
  <2>1. Bad \in SUBSET Nat
    OBVIOUS
  <2>2. PICK m \in Bad : \A k \in Bad : m <= k
    BY <1>1, <2>1, LeastNat
  <2>3. m \in 0..N /\ m \notin S /\ m # 0
    OBVIOUS
  <2>4. m - 1 \in 0..N /\ m - 1 \notin Bad
    BY <2>2, <2>3
  <2>5. m - 1 \in S
    BY <2>4
  <2>6. QED
    BY <2>3, <2>4, <2>5
<1>2. QED
  BY <1>1

\* A set is bounded below by induction on a rank: if a claim holds for a node
\* whenever it holds for all nodes of lower rank, it holds for every node.
LEMMA RankInduction ==
    ASSUME NEW S, NEW rank \in [S -> Nat], NEW P,
           \A n \in S : (\A m \in S : rank[m] < rank[n] => m \in P) => n \in P
    PROVE  S \subseteq P
<1> DEFINE bad == {rank[n] : n \in S \ P}
<1> SUFFICES ASSUME S \ P # {} PROVE FALSE
  OBVIOUS
<1>1. bad # {} /\ bad \in SUBSET Nat
  OBVIOUS
<1>2. PICK r \in bad : \A q \in bad : r <= q
  BY <1>1, LeastNat
<1>3. PICK n \in S \ P : rank[n] = r
  OBVIOUS
<1>4. \A m \in S : rank[m] < rank[n] => m \in P
  BY <1>2, <1>3
<1>5. QED
  BY <1>3, <1>4

-----------------------------------------------------------------------------
(* Iteration.                                                              *)

Iteration(f, N, a, step) ==
    f = [i \in 0..N |-> IF i = 0 THEN a ELSE step[f[i - 1]]]

\* The iterates of a function on a set exist.
LEMMA Iterates ==
    ASSUME NEW N \in Nat, NEW R, NEW a \in R, NEW step \in [R -> R]
    PROVE  \E f \in [0..N -> R] : Iteration(f, N, a, step)
<1> DEFINE Good(n) == \E f \in [0..n -> R] :
              f = [i \in 0..n |-> IF i = 0 THEN a ELSE step[f[i - 1]]]
           Found == {n \in 0..N : Good(n)}
<1>1. Good(0)
  <2>1. [i \in 0..0 |-> a] = [i \in 0..0 |-> IF i = 0 THEN a ELSE step[[j \in 0..0 |-> a][i - 1]]]
    OBVIOUS
  <2>2. QED
    BY <2>1
<1>2. ASSUME NEW n \in Nat, Good(n) PROVE Good(n + 1)
  <2>1. PICK f \in [0..n -> R] : f = [i \in 0..n |-> IF i = 0 THEN a ELSE step[f[i - 1]]]
    BY <1>2
  <2> DEFINE g == [i \in 0..(n + 1) |-> IF i = n + 1 THEN step[f[n]] ELSE f[i]]
  <2>2. g \in [0..(n + 1) -> R]
    OBVIOUS
  <2>3. ASSUME NEW i \in 0..(n + 1) PROVE g[i] = IF i = 0 THEN a ELSE step[g[i - 1]]
    <3>1. CASE i = n + 1
      BY <3>1
    <3>2. CASE i \in 0..n
      <4>1. g[i] = f[i] /\ (i # 0 => g[i - 1] = f[i - 1])
        BY <3>2
      <4>2. f[i] = IF i = 0 THEN a ELSE step[f[i - 1]]
        BY <2>1, <3>2
      <4>3. QED
        BY <4>1, <4>2
    <3>3. QED
      BY <3>1, <3>2
  <2>4. g = [i \in 0..(n + 1) |-> IF i = 0 THEN a ELSE step[g[i - 1]]]
    BY <2>3
  <2>5. QED
    BY <2>2, <2>4
<1> HIDE DEF Good
<1>3. 0 \in Found /\ \A i \in 0..N : i \in Found /\ i + 1 <= N => i + 1 \in Found
  BY <1>1, <1>2
<1>4. Good(N)
  <2>1. \A i \in 0..N : i \in Found
    BY <1>3, Ascend
  <2>2. QED
    BY <2>1
<1>5. QED
  BY <1>4 DEF Good, Iteration

\* f is what a monotone step makes of start in up to N rounds, within S, and N
\* is enough to add all that is not there at the start.
Growth(S, grow, start, N, f) ==
    /\ IsFiniteSet(S)
    /\ grow \in [SUBSET S -> SUBSET S]
    /\ \A X, Y \in SUBSET S : X \subseteq Y => grow[X] \subseteq grow[Y]
    /\ start \in SUBSET S /\ start \subseteq grow[start]
    /\ N \in Nat /\ Cardinality(S) <= N + Cardinality(start)
    /\ f \in [0..N -> SUBSET S] /\ f[0] = start
    /\ \A i \in 0..N : i + 1 <= N => f[i + 1] = grow[f[i]]

\* Growing within a finite set by a monotone step comes to an end: each step
\* that adds something adds an element, and there are only so many.
LEMMA Saturates ==
    ASSUME NEW S, NEW grow, NEW start, NEW N, NEW f, Growth(S, grow, start, N, f)
    PROVE  grow[f[N]] = f[N]
<1> USE DEF Growth
<1>n. /\ Cardinality(S) \in Nat /\ Cardinality(start) \in Nat
      /\ \A X \in SUBSET S : IsFiniteSet(X) /\ Cardinality(X) \in Nat
  BY FS_CardinalityType, FS_Subset
<1>r. \A i \in 0..N : f[i] \in SUBSET S
  OBVIOUS
<1>1. \A i \in 0..N : f[i] \subseteq grow[f[i]]
  <2> DEFINE Grows == {i \in 0..N : f[i] \subseteq grow[f[i]]}
  <2>1. 0 \in Grows
    <3>1. 0 \in 0..N
      OBVIOUS
    <3>2. f[0] \subseteq grow[f[0]]
      OBVIOUS
    <3>3. QED
      BY <3>1, <3>2
  <2>2. ASSUME NEW i \in 0..N, i \in Grows, i + 1 <= N PROVE i + 1 \in Grows
    <3>1. i + 1 \in 0..N
      BY <2>2
    <3>2. f[i + 1] = grow[f[i]] /\ f[i] \in SUBSET S /\ f[i + 1] \in SUBSET S
      BY <1>r, <2>2, <3>1
    <3>3. grow[f[i]] \subseteq grow[f[i + 1]]
      BY <2>2, <3>2
    <3>4. QED
      BY <3>1, <3>2, <3>3
  <2> HIDE DEF Grows
  <2>3. \A i \in 0..N : i \in Grows
    <3>1. \A i \in 0..N : i \in Grows /\ i + 1 <= N => i + 1 \in Grows
      BY <2>2
    <3>2. QED
      BY <2>1, <3>1, Ascend
  <2>4. QED
    BY <2>3 DEF Grows
<1>2. \A i \in 0..N : grow[f[i]] = f[i] \/ Cardinality(f[i]) >= i + Cardinality(start)
  <2> DEFINE Fine == {i \in 0..N : \/ grow[f[i]] = f[i]
                                   \/ Cardinality(f[i]) >= i + Cardinality(start)}
  <2>1. 0 \in Fine
    <3>1. 0 \in 0..N
      OBVIOUS
    <3>2. Cardinality(f[0]) >= 0 + Cardinality(start)
      BY <1>n
    <3>3. QED
      BY <3>1, <3>2
  <2>2. ASSUME NEW i \in 0..N, i \in Fine, i + 1 <= N PROVE i + 1 \in Fine
    <3>i. i + 1 \in 0..N
      BY <2>2
    <3>1. i + 1 \in 0..N /\ f[i + 1] = grow[f[i]]
      BY <3>i, <2>2
    <3>2. CASE grow[f[i]] = f[i]
      BY <3>1, <3>2
    <3>3. CASE grow[f[i]] # f[i] /\ Cardinality(f[i]) >= i + Cardinality(start)
      <4>1. /\ f[i] \in SUBSET S /\ f[i + 1] \in SUBSET S
            /\ f[i] \subseteq f[i + 1] /\ f[i] # f[i + 1]
        BY <1>1, <1>r, <3>1, <3>3
      <4>2. IsFiniteSet(f[i]) /\ IsFiniteSet(f[i + 1])
        BY <4>1, <1>n
      <4>3. Cardinality(f[i]) \in Nat /\ Cardinality(f[i + 1]) \in Nat
        BY <4>1, <1>n
      <4>4. Cardinality(f[i]) <= Cardinality(f[i + 1]) /\ Cardinality(f[i]) # Cardinality(f[i + 1])
        BY <4>1, <4>2, FS_Subset
      <4>5. Cardinality(f[i + 1]) >= (i + 1) + Cardinality(start)
        BY <1>n, <3>3, <4>3, <4>4
      <4>6. QED
        BY <3>1, <4>5
    <3>4. QED
      BY <2>2, <3>2, <3>3
  <2> HIDE DEF Fine
  <2>3. \A i \in 0..N : i \in Fine
    <3>1. \A i \in 0..N : i \in Fine /\ i + 1 <= N => i + 1 \in Fine
      BY <2>2
    <3>2. QED
      BY <2>1, <3>1, Ascend
  <2>4. QED
    BY <2>3 DEF Fine
<1>3. N \in 0..N /\ f[N] \in SUBSET S
  BY <1>r
<1>4. CASE Cardinality(f[N]) >= N + Cardinality(start)
  <2>1. IsFiniteSet(f[N]) /\ Cardinality(f[N]) <= Cardinality(S) /\ Cardinality(f[N]) \in Nat
    BY <1>n, <1>3, FS_Subset
  <2>2. Cardinality(f[N]) = Cardinality(S)
    BY <1>n, <1>4, <2>1
  <2>3. f[N] = S
    BY <1>3, <2>2, FS_Subset
  <2>4. grow[f[N]] \in SUBSET S
    BY <1>3
  <2>5. QED
    BY <1>1, <1>3, <2>3, <2>4
<1>5. QED
  BY <1>2, <1>3, <1>4

\* f adds to start, round by round, what edges lead to.
Search(f, N, start, edges) ==
    f = [i \in 0..N |-> IF i = 0 THEN start
                        ELSE f[i - 1] \cup UNION {edges[x] : x \in f[i - 1]}]

\* Such a function exists.
LEMMA SearchExists ==
    ASSUME NEW S, NEW edges \in [S -> SUBSET S], NEW start \in SUBSET S, NEW N \in Nat
    PROVE  \E f \in [0..N -> SUBSET S] : Search(f, N, start, edges)
<1> DEFINE step == [X \in SUBSET S |-> X \cup UNION {edges[x] : x \in X}]
           R == SUBSET S
<1>1. \A X \in R : X \cup UNION {edges[x] : x \in X} \in R
  OBVIOUS
<1>2. step \in [R -> R] /\ start \in R
  BY <1>1
<1>3. PICK f \in [0..N -> R] : f = [i \in 0..N |-> IF i = 0 THEN start ELSE step[f[i - 1]]]
  <2> HIDE DEF step, R
  <2>1. PICK f \in [0..N -> R] : Iteration(f, N, start, step)
    BY <1>2, Iterates
  <2>2. QED
    BY <2>1 DEF Iteration
<1>4. \A i \in 0..N : i # 0 => step[f[i - 1]] = f[i - 1] \cup UNION {edges[x] : x \in f[i - 1]}
  <2>1. \A i \in 0..N : i # 0 => f[i - 1] \in R
    OBVIOUS
  <2>2. QED
    BY <2>1
<1>5. \A i \in 0..N : f[i] = IF i = 0 THEN start
                              ELSE f[i - 1] \cup UNION {edges[x] : x \in f[i - 1]}
  <2> HIDE DEF step
  <2>1. QED
    BY <1>3, <1>4
<1>6. QED
  BY <1>5 DEF Search

\* A search along the edges of S, with enough rounds to add every other node.
Follows(S, edges, start, N, f) ==
    /\ IsFiniteSet(S) /\ edges \in [S -> SUBSET S] /\ start \in SUBSET S
    /\ N \in Nat /\ Cardinality(S) <= N + Cardinality(start)
    /\ Search(f, N, start, edges)

\* Following edges from a set of nodes for as many rounds as there are nodes
\* besides them gives the least set that contains them and loses no edge.
LEMMA SearchCloses ==
    ASSUME NEW S, NEW edges, NEW start, NEW N, NEW f, Follows(S, edges, start, N, f)
    PROVE  /\ start \subseteq f[N] /\ f[N] \in SUBSET S
           /\ \A x \in f[N] : edges[x] \subseteq f[N]
           /\ \A X \in SUBSET S :
                 start \subseteq X /\ (\A x \in X : edges[x] \subseteq X) => f[N] \subseteq X
<1>s. /\ IsFiniteSet(S) /\ edges \in [S -> SUBSET S] /\ start \in SUBSET S
      /\ N \in Nat /\ Cardinality(S) <= N + Cardinality(start)
      /\ f = [i \in 0..N |-> f[i]]
  BY DEF Follows, Search
<1> USE <1>s
<1>f. f[0] = start /\ \A i \in 0..N : i + 1 <= N => f[i + 1] = f[i] \cup UNION {edges[x] : x \in f[i]}
  <2>1. \A i \in 0..N : f[i] = IF i = 0 THEN start ELSE f[i - 1] \cup UNION {edges[x] : x \in f[i - 1]}
    BY DEF Follows, Search
  <2>2. \A i \in 0..N : i + 1 <= N => i + 1 \in 0..N /\ i + 1 # 0 /\ (i + 1) - 1 = i
    OBVIOUS
  <2>3. 0 \in 0..N
    OBVIOUS
  <2>4. QED
    BY <2>1, <2>2, <2>3
<1> DEFINE grow == [X \in SUBSET S |-> X \cup UNION {edges[x] : x \in X}]
<1>1. \A X \in SUBSET S : UNION {edges[x] : x \in X} \in SUBSET S
  OBVIOUS
<1>2. grow \in [SUBSET S -> SUBSET S]
  BY <1>1
<1>3. ASSUME NEW X \in SUBSET S, start \subseteq X, \A x \in X : edges[x] \subseteq X
      PROVE  \A i \in 0..N : start \subseteq f[i] /\ f[i] \subseteq X
  <2> DEFINE Within == {i \in 0..N : start \subseteq f[i] /\ f[i] \subseteq X}
  <2>1. 0 \in Within
    <3>1. 0 \in 0..N
      OBVIOUS
    <3>2. QED
      BY <1>3, <1>f, <3>1
  <2>2. ASSUME NEW i \in 0..N, i \in Within, i + 1 <= N PROVE i + 1 \in Within
    <3>1. i + 1 \in 0..N
      BY <2>2
    <3>2. f[i + 1] = f[i] \cup UNION {edges[x] : x \in f[i]}
      BY <1>f, <2>2
    <3>3. start \subseteq f[i] /\ f[i] \subseteq X
      BY <2>2
    <3>4. UNION {edges[x] : x \in f[i]} \subseteq X
      BY <1>3, <3>3
    <3>5. QED
      BY <3>1, <3>2, <3>3, <3>4
  <2> HIDE DEF Within
  <2>3. \A i \in 0..N : i \in Within /\ i + 1 <= N => i + 1 \in Within
    BY <2>2
  <2>4. \A i \in 0..N : i \in Within
    BY <2>1, <2>3, Ascend
  <2>5. QED
    BY <2>4 DEF Within
<1>4. \A i \in 0..N : start \subseteq f[i] /\ f[i] \subseteq S
  BY <1>3
<1>5. f \in [0..N -> SUBSET S]
  BY <1>4
<1>6. \A i \in 0..N : i + 1 <= N => f[i + 1] = grow[f[i]]
  BY <1>f, <1>4
<1>7. grow[f[N]] = f[N]
  <2>1. \A X, Y \in SUBSET S : X \subseteq Y => grow[X] \subseteq grow[Y]
    OBVIOUS
  <2>2. start \subseteq grow[start]
    OBVIOUS
  <2> HIDE DEF grow
  <2>3. Growth(S, grow, start, N, f)
    BY <1>2, <1>5, <1>6, <1>f, <2>1, <2>2 DEF Growth
  <2>4. QED
    BY <2>3, Saturates
<1>8. N \in 0..N
  OBVIOUS
<1>9. f[N] \in SUBSET S /\ start \subseteq f[N]
  BY <1>4, <1>8
<1>10. f[N] \cup UNION {edges[x] : x \in f[N]} = f[N]
  BY <1>7, <1>9
<1>11. QED
  BY <1>3, <1>8, <1>9, <1>10

-----------------------------------------------------------------------------
(* Recursion along the edges of an acyclic graph.                          *)

FiniteSubsets(R) == {X \in SUBSET R : IsFiniteSet(X)}

\* The edges of a finite graph lead to nodes of lower rank, and the value of a
\* node is computed from those of the nodes below it.
Recursive(S, below, K, rank, R, value) ==
    /\ IsFiniteSet(S) /\ below \in [S -> SUBSET S]
    /\ K \in Nat /\ rank \in [S -> 0..K]
    /\ \A n \in S : \A d \in below[n] : rank[d] < rank[n]
    /\ value \in [S -> [FiniteSubsets(R) -> R]]

Computes(f, S, below, R, value) ==
    /\ f \in [S -> R]
    /\ \A n \in S : f[n] = value[n][{f[d] : d \in below[n]}]

\* Such a recursion has a solution.
LEMMA GraphRecursion ==
    ASSUME NEW S, NEW below, NEW K, NEW rank, NEW R, NEW value,
           Recursive(S, below, K, rank, R, value)
    PROVE  \E f : Computes(f, S, below, R, value)
<1> USE DEF Recursive
<1> DEFINE Low(k) == {n \in S : rank[n] < k}
           Solves(f, k) == f = [n \in Low(k) |-> value[n][{f[d] : d \in below[n]}]]
           Good(k) == \E f \in [Low(k) -> R] : Solves(f, k)
           Found == {k \in 0..(K + 1) : Good(k)}
<1>1. Good(0)
  <2>1. Low(0) = {}
    OBVIOUS
  <2>2. [n \in Low(0) |-> 0] \in [Low(0) -> R] /\ Solves([n \in Low(0) |-> 0], 0)
    BY <2>1
  <2>3. QED
    BY <2>2
<1>2. ASSUME NEW k \in Nat, Good(k) PROVE Good(k + 1)
  <2>1. PICK f \in [Low(k) -> R] : Solves(f, k)
    BY <1>2
  <2>2. \A n \in Low(k + 1) : below[n] \subseteq Low(k)
    OBVIOUS
  <2>3. ASSUME NEW n \in Low(k + 1) PROVE {f[d] : d \in below[n]} \in FiniteSubsets(R)
    <3>1. IsFiniteSet(below[n])
      BY FS_Subset
    <3> DEFINE img == {f[d] : d \in below[n]}
               g == [d \in below[n] |-> f[d]]
    <3>2. g \in Surjection(below[n], img)
      BY DEF Surjection
    <3>3. IsFiniteSet(img)
      BY <3>1, <3>2, FS_Surjection
    <3>4. img \in SUBSET R
      BY <2>2
    <3>5. QED
      BY <3>3, <3>4 DEF FiniteSubsets
  <2> DEFINE g == [n \in Low(k + 1) |-> value[n][{f[d] : d \in below[n]}]]
  <2>4. g \in [Low(k + 1) -> R]
    BY <2>3
  <2>5. ASSUME NEW n \in Low(k) PROVE n \in Low(k + 1) /\ g[n] = f[n]
    <3>1. n \in Low(k + 1)
      OBVIOUS
    <3>2. f[n] = value[n][{f[d] : d \in below[n]}]
      <4> HIDE DEF Low
      <4>1. QED
        BY <2>1
    <3>3. g[n] = value[n][{f[d] : d \in below[n]}]
      <4> HIDE DEF Low
      <4>1. QED
        BY <3>1
    <3>4. QED
      BY <3>1, <3>2, <3>3
  <2>6. ASSUME NEW n \in Low(k + 1) PROVE {g[d] : d \in below[n]} = {f[d] : d \in below[n]}
    BY <2>2, <2>5
  <2>7. Solves(g, k + 1)
    BY <2>6
  <2>8. QED
    BY <2>4, <2>7
<1> HIDE DEF Good
<1>3. Good(K + 1)
  <2>1. 0 \in Found /\ \A i \in 0..(K + 1) : i \in Found /\ i + 1 <= K + 1 => i + 1 \in Found
    BY <1>1, <1>2
  <2> HIDE DEF Found
  <2>2. \A i \in 0..(K + 1) : i \in Found
    <3>1. K + 1 \in Nat
      OBVIOUS
    <3>2. QED
      BY <2>1, <3>1, Ascend
  <2>3. QED
    BY <2>2 DEF Found
<1>4. Low(K + 1) = S
  OBVIOUS
<1>5. PICK f \in [S -> R] : f = [n \in S |-> value[n][{f[d] : d \in below[n]}]]
  BY <1>3, <1>4 DEF Good
<1>6. \A n \in S : f[n] = value[n][{f[d] : d \in below[n]}]
  BY <1>5
<1>7. QED
  BY <1>6 DEF Computes
===============================================================================
