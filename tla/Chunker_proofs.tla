----------------------------- MODULE Chunker_proofs -----------------------------
(* Proofs about Chunker.tla, for every stream, buffer, read length and cut     *)
(* rule: the chunks depend on the content alone.                              *)
EXTENDS Chunker, FiniteSetTheorems, WellFoundedInduction, TLAPS

\* A set of numbers has a least one.
LEMMA LeastNumber ==
  ASSUME NEW T, T \subseteq Nat, T # {}
  PROVE  \E x \in T : \A y \in T : x <= y
<1> DEFINE R == {ss \in Nat \X Nat : ss[1] < ss[2]}
<1>1. IsWellFoundedOn(R, Nat)
  BY NatLessThanWellFounded DEF OpToRel
<1>2. \A x, y \in Nat : <<y, x>> \in R <=> y < x
  OBVIOUS
<1> HIDE DEF R
<1>3. PICK x \in T : \A y \in T : ~(<<y, x>> \in R)
  BY <1>1, WFMin, Zenon
<1>4. \A y \in T : ~(y < x)
  BY <1>2, <1>3
<1> QED
  BY <1>4

\* Induction on a number that ranks the elements of D: P has each element
\* whose lower ones it has.
Inductive(P, rank, D) ==
  /\ \A x \in D : rank[x] \in Nat
  /\ \A x \in D : (\A y \in D : rank[y] < rank[x] => y \in P) => x \in P

LEMMA RankInduction ==
  ASSUME NEW D, NEW rank, NEW P, Inductive(P, rank, D)
  PROVE  D \subseteq P
<1> USE DEF Inductive
<1> SUFFICES ASSUME NEW z \in D, z \notin P PROVE FALSE
  OBVIOUS
<1> DEFINE T == {rank[x] : x \in D \ P}
<1>1. PICK n \in T : \A m \in T : n <= m
  <2>1. T \subseteq Nat /\ T # {}
    OBVIOUS
  <2> HIDE DEF T
  <2> QED BY <2>1, LeastNumber, Zenon
<1>2. PICK x \in D \ P : n = rank[x]
  OBVIOUS
<1>3. ASSUME NEW y \in D, rank[y] < rank[x] PROVE y \in P
  <2> SUFFICES ASSUME y \notin P PROVE FALSE
    OBVIOUS
  <2>1. rank[y] \in T
    OBVIOUS
  <2> HIDE DEF T
  <2>2. rank[x] <= rank[y]
    BY <1>1, <1>2, <2>1
  <2> QED BY <1>3, <2>2
<1> QED
  BY <1>3

\* The same for the numbers.
LEMMA NumberInduction ==
  ASSUME NEW P, 0 \in P, \A n \in Nat : n \in P => n + 1 \in P
  PROVE  Nat \subseteq P
<1> DEFINE rank == [n \in Nat |-> n]
<1>1. ASSUME NEW n \in Nat, \A m \in Nat : rank[m] < rank[n] => m \in P
      PROVE  n \in P
  <2>1. CASE n = 0
    BY <2>1
  <2>2. CASE n # 0
    <3>1. n - 1 \in Nat /\ n - 1 < n
      BY <2>2
    <3>2. n - 1 \in P
      BY <1>1, <3>1
    <3>3. (n - 1) + 1 \in P
      BY <3>1, <3>2, Zenon
    <3>4. (n - 1) + 1 = n
      OBVIOUS
    <3> QED BY <3>3, <3>4
  <2> QED BY <2>1, <2>2
<1>2. \A n \in Nat : rank[n] \in Nat
  OBVIOUS
<1> HIDE DEF rank
<1> QED
  BY <1>1, <1>2, RankInduction DEF Inductive

\* Recursion on a rank: step gives the value at x from the values at the
\* elements below x.
Descends(step, rank, D, V) ==
  /\ V # {} /\ \A x \in D : rank[x] \in Nat
  /\ \A x \in D, f \in [D -> V] : step[<<x, f>>] \in V
  /\ \A x \in D : \A f, g \in [D -> V] :
       (\A y \in D : rank[y] < rank[x] => f[y] = g[y]) => step[<<x, f>>] = step[<<x, g>>]

Solution(f, step, D, V) == f \in [D -> V] /\ \A x \in D : f[x] = step[<<x, f>>]

LEMMA Recursion ==
  ASSUME NEW D, NEW V, NEW rank, NEW step, Descends(step, rank, D, V)
  PROVE  \E f : Solution(f, step, D, V)
<1> USE DEF Descends
<1> DEFINE Solves(f, n) == f \in [D -> V] /\ \A x \in D : rank[x] < n => f[x] = step[<<x, f>>]
<1>1. ASSUME NEW f, NEW g, NEW n \in Nat, NEW m \in Nat, n <= m, Solves(f, n), Solves(g, m)
      PROVE  \A x \in D : rank[x] < n => f[x] = g[x]
  <2> DEFINE P == {x \in D : rank[x] < n => f[x] = g[x]}
  <2>1. ASSUME NEW x \in D, \A y \in D : rank[y] < rank[x] => y \in P
        PROVE  x \in P
    <3> SUFFICES ASSUME rank[x] < n PROVE f[x] = g[x]
      OBVIOUS
    <3>0. rank[x] \in Nat /\ rank[x] < m
      BY <1>1
    <3>1. \A y \in D : rank[y] < rank[x] => f[y] = g[y]
      <4> TAKE y \in D
      <4>1. rank[y] \in Nat
        OBVIOUS
      <4> QED BY <2>1, <3>0, <4>1
    <3>2. step[<<x, f>>] = step[<<x, g>>]
      BY <1>1, <3>1
    <3> QED BY <1>1, <3>0, <3>2
  <2>2. D \subseteq P
    <3> HIDE DEF P
    <3>1. Inductive(P, rank, D)
      BY <2>1 DEF Inductive
    <3> QED BY <3>1, RankInduction, Zenon
  <2> QED BY <2>2
<1> DEFINE Q == {n \in Nat : \E f : Solves(f, n)}
<1>2. Nat \subseteq Q
  <2>1. 0 \in Q
    <3>1. PICK v \in V : TRUE
      OBVIOUS
    <3>2. Solves([x \in D |-> v], 0)
      <4>1. \A x \in D : ~(rank[x] < 0)
        OBVIOUS
      <4> QED BY <4>1
    <3> HIDE DEF Solves
    <3> QED BY <3>2
  <2>2. ASSUME NEW n \in Nat, n \in Q PROVE n + 1 \in Q
    <3>1. PICK f : Solves(f, n)
      BY <2>2
    <3> DEFINE g == [x \in D |-> IF rank[x] < n THEN f[x] ELSE step[<<x, f>>]]
    <3>2. g \in [D -> V]
      BY <3>1
    <3>3. ASSUME NEW x \in D, rank[x] < n + 1 PROVE g[x] = step[<<x, g>>]
      <4>1. \A y \in D : rank[y] < rank[x] => f[y] = g[y]
        <5> TAKE y \in D
        <5>1. rank[y] \in Nat /\ rank[x] \in Nat
          OBVIOUS
        <5> QED BY <3>3, <5>1
      <4>2. step[<<x, f>>] = step[<<x, g>>]
        <5> HIDE DEF g
        <5> QED BY <3>1, <3>2, <4>1
      <4>3. g[x] = step[<<x, f>>]
        BY <3>1
      <4> QED BY <4>2, <4>3, Zenon
    <3>4. Solves(g, n + 1)
      <4> HIDE DEF g
      <4> QED BY <3>2, <3>3
    <3> HIDE DEF Solves, g
    <3> QED BY <3>4
  <2> HIDE DEF Q
  <2> QED BY <2>1, <2>2, NumberInduction, Zenon
<1> DEFINE part == [n \in Nat |-> CHOOSE f : Solves(f, n)]
<1>3. \A n \in Nat : Solves(part[n], n)
  <2> TAKE n \in Nat
  <2>1. \E f : Solves(f, n)
    <3> HIDE DEF Solves
    <3> QED BY <1>2
  <2>2. part[n] = CHOOSE f : Solves(f, n)
    OBVIOUS
  <2> HIDE DEF Solves, part
  <2> QED BY <2>1, <2>2, Zenon
<1> HIDE DEF part, Q
<1> DEFINE f == [x \in D |-> part[rank[x] + 1][x]]
<1>4. f \in [D -> V]
  <2>1. ASSUME NEW x \in D PROVE part[rank[x] + 1][x] \in V
    <3>1. rank[x] + 1 \in Nat
      OBVIOUS
    <3>2. part[rank[x] + 1] \in [D -> V]
      BY <1>3, <3>1, Zenon
    <3> QED BY <3>2
  <2> QED BY <2>1
<1>5. ASSUME NEW x \in D PROVE f[x] = step[<<x, f>>]
  <2> DEFINE p == part[rank[x] + 1]
  <2>1. rank[x] + 1 \in Nat /\ rank[x] < rank[x] + 1 /\ Solves(p, rank[x] + 1)
    BY <1>3
  <2>2. \A y \in D : rank[y] < rank[x] => f[y] = p[y]
    <3> SUFFICES ASSUME NEW y \in D, rank[y] < rank[x] PROVE f[y] = p[y]
      OBVIOUS
    <3>1. rank[y] + 1 \in Nat /\ rank[y] + 1 <= rank[x] + 1 /\ rank[y] < rank[y] + 1
      OBVIOUS
    <3>2. Solves(part[rank[y] + 1], rank[y] + 1)
      BY <1>3, <3>1
    <3> HIDE DEF Solves, p
    <3>3. part[rank[y] + 1][y] = p[y]
      BY <1>1, <2>1, <3>1, <3>2
    <3> QED BY <3>3
  <2>3. f[x] = p[x] /\ p \in [D -> V] /\ p[x] = step[<<x, p>>]
    BY <2>1
  <2> HIDE DEF f, p, Solves
  <2>4. step[<<x, f>>] = step[<<x, p>>]
    BY <1>4, <2>2, <2>3
  <2> QED BY <2>3, <2>4, Zenon
<1> HIDE DEF f
<1> QED
  BY <1>4, <1>5 DEF Solution
--------------------------------------------------------------------------------
(* The powers and the sums of the hash in closed form.                        *)

LEMMA PowerRecursion == Power = [k \in Nat |-> IF k = 0 THEN 1 ELSE 2 * Power[k - 1]]
<1> DEFINE E(h) == [k \in Nat |-> IF k = 0 THEN 1 ELSE 2 * h[k - 1]]
<1> DEFINE step == [p \in Nat \X [Nat -> Nat] |-> IF p[1] = 0 THEN 1 ELSE 2 * p[2][p[1] - 1]]
<1> DEFINE rank == [k \in Nat |-> k]
<1>1. \A k \in Nat, h \in [Nat -> Nat] : step[<<k, h>>] = IF k = 0 THEN 1 ELSE 2 * h[k - 1]
  OBVIOUS
<1>2. \A k \in Nat : rank[k] = k
  OBVIOUS
<1> HIDE DEF step, rank
<1>3. \A k \in Nat, h \in [Nat -> Nat] : step[<<k, h>>] \in Nat
  <2> TAKE k \in Nat, h \in [Nat -> Nat]
  <2>1. k # 0 => k - 1 \in Nat
    OBVIOUS
  <2>2. k # 0 => h[k - 1] \in Nat
    BY <2>1
  <2> QED BY <1>1, <2>2
<1>4. ASSUME NEW k \in Nat, NEW f \in [Nat -> Nat], NEW g \in [Nat -> Nat],
             \A j \in Nat : rank[j] < rank[k] => f[j] = g[j]
      PROVE  step[<<k, f>>] = step[<<k, g>>]
  <2>1. k # 0 => k - 1 \in Nat /\ rank[k - 1] < rank[k]
    BY <1>2
  <2>2. k # 0 => f[k - 1] = g[k - 1]
    BY <1>4, <2>1
  <2> QED BY <1>1, <2>2
<1>5. PICK h : Solution(h, step, Nat, Nat)
  <2>1. \A k \in Nat : rank[k] \in Nat
    BY <1>2
  <2>2. Nat # {}
    OBVIOUS
  <2>3. \A k \in Nat : \A f, g \in [Nat -> Nat] :
          (\A j \in Nat : rank[j] < rank[k] => f[j] = g[j]) => step[<<k, f>>] = step[<<k, g>>]
    BY <1>4
  <2>4. Descends(step, rank, Nat, Nat)
    BY <1>3, <2>1, <2>2, <2>3 DEF Descends
  <2> QED BY <2>4, Recursion, Zenon
<1>6. h = E(h)
  BY <1>1, <1>5 DEF Solution
<1>7. Power = CHOOSE p : p = E(p)
  BY Zenon DEF Power
<1> HIDE DEF E
<1>8. Power = E(Power)
  BY <1>6, <1>7, Zenon
<1> QED
  BY <1>8, Zenon DEF E

LEMMA PowerGrows ==
  /\ Power[0] = 1
  /\ \A k \in Nat : Power[k] \in Nat /\ Power[k + 1] = 2 * Power[k]
<1>1. Power[0] = 1
  BY PowerRecursion
<1>2. ASSUME NEW k \in Nat PROVE Power[k + 1] = 2 * Power[k]
  <2>1. k + 1 \in Nat /\ k + 1 # 0 /\ (k + 1) - 1 = k
    OBVIOUS
  <2> QED BY <2>1, PowerRecursion
<1> DEFINE P == {k \in Nat : Power[k] \in Nat}
<1>3. Nat \subseteq P
  <2>1. 0 \in P
    BY <1>1
  <2>2. \A k \in Nat : k \in P => k + 1 \in P
    BY <1>2
  <2> HIDE DEF P
  <2> QED BY <2>1, <2>2, NumberInduction, Zenon
<1> QED
  BY <1>1, <1>2, <1>3

\* The fold of the terms: the sum over each set of indices, one term at a time.
Total(terms) == FoldFunction(LAMBDA term, sum : term + sum, 0, terms)
Sums(terms, sum) ==
  /\ sum \in [SUBSET DOMAIN terms -> Int]
  /\ sum[{}] = 0
  /\ \A s \in SUBSET DOMAIN terms : s # {} =>
       sum[s] = terms[CHOOSE i \in s : TRUE] + sum[s \ {CHOOSE i \in s : TRUE}]

LEMMA TotalSums ==
  ASSUME NEW S, IsFiniteSet(S), NEW terms \in [S -> Int]
  PROVE  \E sum : Sums(terms, sum) /\ Total(terms) = sum[S]
<1> DEFINE D == SUBSET S
           first == [s \in D |-> CHOOSE i \in s : TRUE]
           E(h) == [s \in D |-> IF s = {} THEN 0 ELSE terms[first[s]] + h[s \ {first[s]}]]
           step == [p \in D \X [D -> Int] |->
                      IF p[1] = {} THEN 0 ELSE terms[first[p[1]]] + p[2][p[1] \ {first[p[1]]}]]
           rank == [s \in D |-> Cardinality(s)]
<1>1. \A s \in D : s # {} => first[s] \in s /\ first[s] = CHOOSE i \in s : TRUE
  OBVIOUS
<1>2. \A s \in D, h \in [D -> Int] :
        step[<<s, h>>] = IF s = {} THEN 0 ELSE terms[first[s]] + h[s \ {first[s]}]
  <2> HIDE DEF first
  <2> QED OBVIOUS
<1>3. \A s \in D : rank[s] = Cardinality(s) /\ rank[s] \in Nat
  <2> TAKE s \in D
  <2>1. IsFiniteSet(s)
    BY FS_Subset
  <2> QED BY <2>1, FS_CardinalityType
<1>4. \A s \in D : s # {} => s \ {first[s]} \in D /\ rank[s \ {first[s]}] < rank[s]
  <2> SUFFICES ASSUME NEW s \in D, s # {}
      PROVE  s \ {first[s]} \in D /\ rank[s \ {first[s]}] < rank[s]
    OBVIOUS
  <2>1. IsFiniteSet(s) /\ first[s] \in s
    BY <1>1, FS_Subset
  <2>2. Cardinality(s \ {first[s]}) = Cardinality(s) - 1
    BY <2>1, FS_RemoveElement
  <2>3. s \ {first[s]} \in D
    OBVIOUS
  <2> HIDE DEF rank, first, D
  <2> QED BY <2>2, <2>3, <1>3
<1>5. E(CHOOSE h : h = E(h)) = (CHOOSE h : h = E(h))
  <2> HIDE DEF first, step, rank
  <2>1. \A s \in D, h \in [D -> Int] : step[<<s, h>>] \in Int
    <3> TAKE s \in D, h \in [D -> Int]
    <3>1. s # {} => terms[first[s]] \in Int /\ h[s \ {first[s]}] \in Int
      <4>1. s # {} => first[s] \in S /\ s \ {first[s]} \in D
        BY <1>1, <1>4
      <4> HIDE DEF D
      <4> QED BY <4>1
    <3> HIDE DEF D
    <3> QED BY <1>2, <3>1
  <2>2. ASSUME NEW s \in D, NEW f \in [D -> Int], NEW g \in [D -> Int],
               \A t \in D : rank[t] < rank[s] => f[t] = g[t]
        PROVE  step[<<s, f>>] = step[<<s, g>>]
    <3>1. s # {} => f[s \ {first[s]}] = g[s \ {first[s]}]
      BY <1>4, <2>2
    <3> HIDE DEF D
    <3> QED BY <1>2, <3>1
  <2>3. Int # {}
    OBVIOUS
  <2>4. \A s \in D : rank[s] \in Nat
    BY <1>3
  <2>5. PICK h : Solution(h, step, D, Int)
    <3>1. \A s \in D : \A f, g \in [D -> Int] :
            (\A t \in D : rank[t] < rank[s] => f[t] = g[t]) => step[<<s, f>>] = step[<<s, g>>]
      BY <2>2
    <3> HIDE DEF D
    <3>2. Descends(step, rank, D, Int)
      BY <2>1, <2>3, <2>4, <3>1 DEF Descends
    <3> QED BY <3>2, Recursion, Zenon
  <2>6. h = E(h)
    <3> HIDE DEF D
    <3> QED BY <1>2, <2>5 DEF Solution
  <2> HIDE DEF E
  <2> QED BY <2>6, Zenon
<1> DEFINE sum == CHOOSE h : h = E(h)
<1>6. Total(terms) = sum[S]
  <2> DEFINE G(h) == [s \in SUBSET DOMAIN terms |-> IF s = {} THEN 0
                        ELSE terms[CHOOSE i \in s : TRUE] + h[s \ {CHOOSE i \in s : TRUE}]]
  <2>1. Total(terms) = (CHOOSE h : h = G(h))[DOMAIN terms]
    BY Zenon DEF Total, FoldFunction, FoldFunctionOnSet, MapThenFoldSet
  <2>2. \A h : G(h) = E(h)
    <3> TAKE h
    <3>1. DOMAIN terms = S
      OBVIOUS
    <3>2. G(h) = [s \in D |-> IF s = {} THEN 0
                        ELSE terms[CHOOSE i \in s : TRUE] + h[s \ {CHOOSE i \in s : TRUE}]]
      BY <3>1, Zenon
    <3>3. \A s \in D : (IF s = {} THEN 0 ELSE terms[CHOOSE i \in s : TRUE] + h[s \ {CHOOSE i \in s : TRUE}])
                       = (IF s = {} THEN 0 ELSE terms[first[s]] + h[s \ {first[s]}])
      <4> TAKE s \in D
      <4> HIDE DEF first
      <4>1. CASE s = {}
        BY <4>1
      <4>2. CASE s # {}
        <5>1. first[s] = CHOOSE i \in s : TRUE
          BY <1>1, <4>2
        <5> QED BY <4>2, <5>1, Zenon
      <4> QED BY <4>1, <4>2
    <3> HIDE DEF first, D
    <3> QED BY <3>2, <3>3, Zenon
  <2> HIDE DEF E, G
  <2>3. (CHOOSE h : h = G(h)) = (CHOOSE h : h = E(h))
    BY <2>2, Zenon
  <2> QED BY <2>1, <2>3
<1>7. sum = E(sum)
  BY <1>5, Zenon
<1> HIDE DEF sum
<1>8. \A s \in D : sum[s] = IF s = {} THEN 0 ELSE terms[first[s]] + sum[s \ {first[s]}]
  <2> HIDE DEF first, D
  <2> QED BY <1>7
<1>9. \A s \in D : sum[s] \in Int
  <2> DEFINE P == {s \in D : sum[s] \in Int}
  <2>1. ASSUME NEW s \in D, \A t \in D : rank[t] < rank[s] => t \in P PROVE s \in P
    <3> HIDE DEF first, rank
    <3>1. s # {} => first[s] \in S /\ s \ {first[s]} \in D /\ rank[s \ {first[s]}] < rank[s]
      BY <1>1, <1>4
    <3>2. s # {} => terms[first[s]] \in Int /\ sum[s \ {first[s]}] \in Int
      <4> HIDE DEF D
      <4> QED BY <2>1, <3>1
    <3> HIDE DEF D
    <3> QED BY <1>8, <3>2
  <2>2. \A s \in D : rank[s] \in Nat
    BY <1>3
  <2> HIDE DEF P, D, rank
  <2>3. D \subseteq P
    <3>1. Inductive(P, rank, D)
      BY <2>1, <2>2 DEF Inductive
    <3> QED BY <3>1, RankInduction, Zenon
  <2> QED BY <2>3 DEF P
<1>10. sum \in [SUBSET DOMAIN terms -> Int]
  <2>1. DOMAIN sum = D
    <3> HIDE DEF first, D
    <3> QED BY <1>7
  <2>2. sum = [s \in D |-> sum[s]]
    <3> HIDE DEF first, D
    <3> QED BY <1>7
  <2> QED BY <1>9, <2>2
<1>11. Sums(terms, sum)
  <2>1. DOMAIN terms = S
    OBVIOUS
  <2>2. sum[{}] = 0
    BY <1>8
  <2>3. ASSUME NEW s \in D, s # {}
        PROVE  sum[s] = terms[CHOOSE i \in s : TRUE] + sum[s \ {CHOOSE i \in s : TRUE}]
    <3> HIDE DEF first, D
    <3> QED BY <1>1, <1>8, <2>3, Zenon
  <2> QED BY <1>10, <2>1, <2>2, <2>3 DEF Sums
<1> QED
  BY <1>6, <1>11
\* Any term may come last.
CountsLast(terms, sum, S, x) == sum[S] = terms[x] + sum[S \ {x}]

LEMMA SumAnyOrder ==
  ASSUME NEW S, IsFiniteSet(S), NEW terms \in [S -> Int], NEW sum, Sums(terms, sum),
         NEW x \in S
  PROVE  CountsLast(terms, sum, S, x)
<1> DEFINE P == {s \in SUBSET S : \A y \in s : sum[s] = terms[y] + sum[s \ {y}]}
           rank == [s \in SUBSET S |-> Cardinality(s)]
<1>1. \A s \in SUBSET S : rank[s] \in Nat
  <2> TAKE s \in SUBSET S
  <2>1. IsFiniteSet(s)
    BY FS_Subset
  <2> QED BY <2>1, FS_CardinalityType
<1>2. ASSUME NEW s \in SUBSET S, NEW first \in s
      PROVE  rank[s \ {first}] < rank[s]
  <2>1. IsFiniteSet(s)
    BY FS_Subset
  <2>2. Cardinality(s \ {first}) = Cardinality(s) - 1 /\ Cardinality(s) \in Nat
    BY <2>1, FS_RemoveElement, FS_CardinalityType
  <2>3. rank[s] = Cardinality(s) /\ rank[s \ {first}] = Cardinality(s \ {first})
    OBVIOUS
  <2> QED BY <2>2, <2>3
<1>3. ASSUME NEW s \in SUBSET S, \A t \in SUBSET S : rank[t] < rank[s] => t \in P, NEW y \in s
      PROVE  sum[s] = terms[y] + sum[s \ {y}]
  <2> DEFINE first == CHOOSE i \in s : TRUE
  <2>1. first \in s
    OBVIOUS
  <2>2. sum[s] = terms[first] + sum[s \ {first}]
    BY DEF Sums
  <2> HIDE DEF first
  <2>3. CASE first = y
    BY <2>2, <2>3
  <2>4. CASE first # y
    <3>1. s \ {first} \in P /\ s \ {y} \in P
      BY <1>2, <1>3, <2>1
    <3>2. y \in s \ {first} /\ first \in s \ {y}
      BY <2>1, <2>4
    <3>3. sum[s \ {first}] = terms[y] + sum[(s \ {first}) \ {y}]
      BY <3>1, <3>2
    <3>4. sum[s \ {y}] = terms[first] + sum[(s \ {y}) \ {first}]
      BY <3>1, <3>2
    <3>5. (s \ {first}) \ {y} = (s \ {y}) \ {first} /\ (s \ {y}) \ {first} \in SUBSET S
      OBVIOUS
    <3>6. sum[(s \ {y}) \ {first}] \in Int /\ terms[first] \in Int /\ terms[y] \in Int
      BY <2>1, <3>5 DEF Sums
    <3>7. sum[s] = terms[first] + (terms[y] + sum[(s \ {y}) \ {first}])
      BY <2>2, <3>3, <3>5, Zenon
    <3> DEFINE u == sum[(s \ {y}) \ {first}]
    <3>8. u \in Int /\ sum[s] = terms[first] + (terms[y] + u) /\ sum[s \ {y}] = terms[first] + u
      BY <3>4, <3>6, <3>7
    <3> HIDE DEF u
    <3> QED BY <3>6, <3>8
  <2> QED BY <2>3, <2>4
<1> HIDE DEF rank
<1>4. \A s \in SUBSET S : (\A t \in SUBSET S : rank[t] < rank[s] => t \in P) => s \in P
  BY <1>3
<1>5. SUBSET S \subseteq P
  <2> DEFINE D == SUBSET S
  <2>1. Inductive(P, rank, D)
    <3> HIDE DEF P
    <3> QED BY <1>1, <1>4 DEF Inductive
  <2> HIDE DEF P, D
  <2>2. D \subseteq P
    BY <2>1, RankInduction, Zenon
  <2> QED BY <2>2 DEF D
<1> QED
  BY <1>5 DEF CountsLast

\* A hash with one more byte: each earlier term counts twice.
LEMMA TotalDoubles ==
  ASSUME NEW lo \in Int, NEW hi \in Int, lo <= hi + 1,
         NEW f \in [lo .. hi -> Int], NEW g \in [lo .. hi + 1 -> Int],
         \A j \in lo .. hi : g[j] = 2 * f[j]
  PROVE  Total(f) \in Int /\ Total(g) = 2 * Total(f) + g[hi + 1]
<1> DEFINE S == lo .. hi
           T == lo .. hi + 1
<1>1. IsFiniteSet(S) /\ IsFiniteSet(T) /\ S \subseteq T /\ hi + 1 \in T /\ T \ {hi + 1} = S
  <2>1. hi + 1 \in Int
    OBVIOUS
  <2>2. IsFiniteSet(S) /\ IsFiniteSet(T)
    BY <2>1, FS_Interval
  <2>3. S \subseteq T /\ hi + 1 \in T /\ T \ {hi + 1} = S
    OBVIOUS
  <2> QED BY <2>2, <2>3
<1>2. PICK a : Sums(f, a) /\ Total(f) = a[S]
  BY <1>1, TotalSums
<1>3. PICK b : Sums(g, b) /\ Total(g) = b[T]
  BY <1>1, TotalSums
<1>4. b[T] = g[hi + 1] + b[S]
  <2>1. g \in [T -> Int]
    OBVIOUS
  <2>2. IsFiniteSet(T) /\ hi + 1 \in T
    BY <1>1
  <2> HIDE DEF S, T
  <2>3. CountsLast(g, b, T, hi + 1)
    BY <1>3, <2>1, <2>2, SumAnyOrder, Zenon
  <2> QED BY <1>1, <2>3, Zenon DEF CountsLast
<1>5. a[S] \in Int /\ b[S] \in Int /\ b[S] = 2 * a[S]
  <2> DEFINE P == {s \in SUBSET S : b[s] = 2 * a[s]}
             rank == [s \in SUBSET S |-> Cardinality(s)]
  <2>0. /\ \A s \in SUBSET S : a[s] \in Int /\ b[s] \in Int
        /\ a[{}] = 0 /\ b[{}] = 0
    BY <1>1, <1>2, <1>3 DEF Sums
  <2>1. \A s \in SUBSET S : rank[s] \in Nat
    <3> TAKE s \in SUBSET S
    <3>1. IsFiniteSet(s)
      BY <1>1, FS_Subset
    <3> QED BY <3>1, FS_CardinalityType
  <2>2. ASSUME NEW s \in SUBSET S, \A t \in SUBSET S : rank[t] < rank[s] => t \in P
        PROVE  s \in P
    <3>1. CASE s = {}
      BY <2>0, <3>1
    <3>2. CASE s # {}
      <4>1. PICK x \in s : x = CHOOSE i \in s : TRUE
        BY <3>2
      <4>2. a[s] = f[x] + a[s \ {x}]
        BY <1>2, <3>2, <4>1 DEF Sums
      <4>3. b[s] = g[x] + b[s \ {x}]
        <5>1. s \in SUBSET DOMAIN g
          BY <1>1
        <5> QED BY <1>3, <3>2, <4>1, <5>1 DEF Sums
      <4>4. IsFiniteSet(s)
        BY <1>1, FS_Subset
      <4>5. Cardinality(s \ {x}) = Cardinality(s) - 1 /\ Cardinality(s) \in Nat
        BY <4>4, FS_RemoveElement, FS_CardinalityType
      <4>6. rank[s] = Cardinality(s) /\ rank[s \ {x}] = Cardinality(s \ {x})
        OBVIOUS
      <4>7. b[s \ {x}] = 2 * a[s \ {x}]
        <5>1. s \ {x} \in SUBSET S /\ rank[s \ {x}] < rank[s]
          BY <4>5, <4>6
        <5> QED BY <2>2, <5>1
      <4>8. g[x] = 2 * f[x] /\ f[x] \in Int /\ a[s \ {x}] \in Int
        BY <2>0
      <4>9. b[s] = 2 * a[s]
        <5>1. a[s] \in Int /\ b[s] \in Int /\ b[s \ {x}] \in Int
          BY <2>0
        <5>2. b[s] = 2 * f[x] + 2 * a[s \ {x}]
          BY <4>3, <4>7, <4>8, Zenon
        <5> DEFINE u == a[s \ {x}]
                   v == f[x]
        <5>3. u \in Int /\ v \in Int /\ b[s] = 2 * v + 2 * u /\ a[s] = v + u
          BY <4>2, <4>8, <5>2, Zenon
        <5> HIDE DEF u, v
        <5> QED BY <5>3
      <4> QED BY <4>9
    <3> QED BY <3>1, <3>2
  <2>3. SUBSET S \subseteq P
    <3> DEFINE D == SUBSET S
    <3>1. Inductive(P, rank, D)
      <4> HIDE DEF P, rank, S
      <4> QED BY <2>1, <2>2 DEF Inductive
    <3> HIDE DEF P, rank, D
    <3>2. D \subseteq P
      BY <3>1, RankInduction, Zenon
    <3> QED BY <3>2 DEF D
  <2> QED BY <2>0, <2>3
<1>6. g[hi + 1] \in Int
  BY <1>1
<1> HIDE DEF S, T
<1> QED
  BY <1>2, <1>3, <1>4, <1>5, <1>6

LEMMA TotalOfNone ==
  ASSUME NEW f \in [{} -> Int]
  PROVE  Total(f) = 0
<1>1. PICK a : Sums(f, a) /\ Total(f) = a[{}]
  BY TotalSums, FS_EmptySet
<1> QED
  BY <1>1 DEF Sums

--------------------------------------------------------------------------------
(* The fingerprint of cutPoint is the hash in closed form.                    *)

LEMMA DoubleModulo ==
  ASSUME NEW x \in Int, NEW g \in Int, NEW w \in Nat \ {0}
  PROVE  (2 * (x % w) + g) % w = (2 * x + g) % w
<1>1. PICK q \in Int, r \in 0 .. w - 1 : x = q * w + r /\ x % w = r
  <2>1. x \div w \in Int /\ x % w \in 0 .. w - 1 /\ x = (x \div w) * w + (x % w)
    OBVIOUS
  <2> QED BY <2>1
<1>2. PICK p \in Int, s \in 0 .. w - 1 : 2 * r + g = p * w + s /\ (2 * r + g) % w = s
  <2> DEFINE y == 2 * r + g
  <2>1. y \in Int
    OBVIOUS
  <2> HIDE DEF y
  <2>2. y \div w \in Int /\ y % w \in 0 .. w - 1 /\ y = (y \div w) * w + (y % w)
    BY <2>1
  <2> QED BY <2>2 DEF y
<1>3. 2 * x + g = (2 * q + p) * w + s
  <2>1. (2 * q + p) * w = 2 * (q * w) + p * w
    OBVIOUS
  <2> QED BY <1>1, <1>2, <2>1
<1>4. (2 * x + g) % w = s
  <2> DEFINE y == 2 * x + g
             k == 2 * q + p
  <2>1. y \in Int /\ k \in Int /\ y = k * w + s
    BY <1>3
  <2> HIDE DEF y, k
  <2>2. y % w = s
    BY <2>1
  <2> QED BY <2>2 DEF y
<1> QED
  BY <1>1, <1>2, <1>4

LEMMA FingerprintRecursion ==
  ASSUME NEW data \in Seq(Byte)
  PROVE  \A i \in MinLen - 1 .. Len(data) - 1 :
           Fingerprint(data)[i] = IF i < MinLen THEN 0
                                  ELSE (2 * Fingerprint(data)[i - 1] + Gear[data[i + 1]]) % Word
<1> DEFINE D == MinLen - 1 .. Len(data) - 1
           E(h) == [i \in D |-> IF i < MinLen THEN 0 ELSE (2 * h[i - 1] + Gear[data[i + 1]]) % Word]
           step == [p \in D \X [D -> Int] |->
                      IF p[1] < MinLen THEN 0 ELSE (2 * p[2][p[1] - 1] + Gear[data[p[1] + 1]]) % Word]
           rank == [i \in D |-> i - (MinLen - 1)]
<1>0. MinLen \in Nat /\ Len(data) \in Nat /\ D \subseteq Int
  BY ProfileAssumption
<1>1. \A i \in D, h \in [D -> Int] :
        step[<<i, h>>] = IF i < MinLen THEN 0 ELSE (2 * h[i - 1] + Gear[data[i + 1]]) % Word
  <2> HIDE DEF D
  <2> QED OBVIOUS
<1>2. \A i \in D : rank[i] = i - (MinLen - 1) /\ rank[i] \in Nat
  BY <1>0
<1>3. \A i \in D : ~(i < MinLen) => i - 1 \in D /\ rank[i - 1] < rank[i]
  BY <1>0
<1>4. \A i \in D : ~(i < MinLen) => Gear[data[i + 1]] \in Nat
  <2> SUFFICES ASSUME NEW i \in D, ~(i < MinLen) PROVE Gear[data[i + 1]] \in Nat
    OBVIOUS
  <2>1. i + 1 \in 1 .. Len(data)
    BY <1>0
  <2>2. data[i + 1] \in Byte
    BY <2>1
  <2> QED BY <2>2, GearAssumption
<1>5. \E h : h = E(h)
  <2>1. \A i \in D, h \in [D -> Int] : step[<<i, h>>] \in Int
    <3> TAKE i \in D, h \in [D -> Int]
    <3>1. CASE i < MinLen
      BY <1>1, <3>1
    <3>2. CASE ~(i < MinLen)
      <4>1. h[i - 1] \in Int
        <5> HIDE DEF D
        <5> QED BY <1>3, <3>2
      <4>2. (2 * h[i - 1] + Gear[data[i + 1]]) % Word \in Int
        BY <1>4, <3>2, <4>1, GearAssumption
      <4> HIDE DEF D, step
      <4> QED BY <1>1, <3>2, <4>2
    <3> QED BY <3>1, <3>2
  <2>2. ASSUME NEW i \in D, NEW f \in [D -> Int], NEW g \in [D -> Int],
               \A j \in D : rank[j] < rank[i] => f[j] = g[j]
        PROVE  step[<<i, f>>] = step[<<i, g>>]
    <3>1. ~(i < MinLen) => f[i - 1] = g[i - 1]
      BY <1>3, <2>2
    <3> HIDE DEF D, step
    <3> QED BY <1>1, <3>1
  <2> HIDE DEF D, step, rank
  <2>3. Descends(step, rank, D, Int)
    <3>1. \A i \in D : \A f, g \in [D -> Int] :
            (\A j \in D : rank[j] < rank[i] => f[j] = g[j]) => step[<<i, f>>] = step[<<i, g>>]
      BY <2>2
    <3>2. Int # {}
      OBVIOUS
    <3>3. \A i \in D : rank[i] \in Nat
      BY <1>2
    <3> QED BY <2>1, <3>1, <3>2, <3>3 DEF Descends
  <2>4. PICK h : Solution(h, step, D, Int)
    BY <2>3, Recursion, Zenon
  <2>5. h = E(h)
    BY <1>1, <2>4 DEF Solution
  <2> HIDE DEF E
  <2> QED BY <2>5
<1>6. Fingerprint(data) = CHOOSE h : h = E(h)
  BY Zenon DEF Fingerprint
<1>7. Fingerprint(data) = E(Fingerprint(data))
  <2> HIDE DEF E
  <2> QED BY <1>5, <1>6, Zenon
<1> HIDE DEF D
<1>8. \A i \in D : Fingerprint(data)[i] = E(Fingerprint(data))[i]
  <2> HIDE DEF E
  <2> QED BY <1>7, Zenon
<1> QED
  BY <1>8 DEF D

LEMMA TermsType ==
  ASSUME NEW data \in Seq(Byte), NEW i \in MinLen - 1 .. Len(data) - 1
  PROVE  Terms(data, i) \in [MinLen .. i -> Int]
<1>1. ASSUME NEW j \in MinLen .. i PROVE Gear[data[j + 1]] * Power[i - j] \in Int
  <2>1. j + 1 \in 1 .. Len(data) /\ i - j \in Nat
    BY ProfileAssumption
  <2>2. data[j + 1] \in Byte
    BY <2>1
  <2>3. Gear[data[j + 1]] \in Nat
    BY <2>2, GearAssumption
  <2>4. Power[i - j] \in Nat
    BY <2>1, PowerGrows
  <2> QED BY <2>3, <2>4
<1> QED
  BY <1>1 DEF Terms

\* Each byte doubles the hash and adds the number of the byte; a fingerprint
\* of 64 bits loses nothing that the closed form keeps.
LEMMA FingerprintIsHash ==
  ASSUME NEW data \in Seq(Byte)
  PROVE  \A i \in MinLen - 1 .. Len(data) - 1 : Fingerprint(data)[i] = Hash(data, i)
<1> DEFINE D == MinLen - 1 .. Len(data) - 1
           P == {i \in D : Fingerprint(data)[i] = Hash(data, i)}
           rank == [i \in D |-> i - (MinLen - 1)]
<1>0. MinLen \in Nat /\ Len(data) \in Nat
  BY ProfileAssumption
<1>1. \A i \in D : rank[i] \in Nat
  BY <1>0
<1>2. ASSUME NEW i \in D, i < MinLen PROVE i \in P
  <2>1. MinLen .. i = {}
    BY <1>0, <1>2
  <2>2. Terms(data, i) \in [{} -> Int]
    BY <2>1, TermsType
  <2>3. Total(Terms(data, i)) = 0
    BY <2>2, TotalOfNone
  <2>4. Hash(data, i) = Total(Terms(data, i)) % Word
    BY Zenon DEF Hash, Total
  <2>5. Hash(data, i) = 0
    BY <2>3, <2>4, GearAssumption
  <2> QED BY <1>2, <2>5, FingerprintRecursion
<1>3. ASSUME NEW i \in D, ~(i < MinLen), i - 1 \in P PROVE i \in P
  <2> DEFINE f == Terms(data, i - 1)
             g == Terms(data, i)
             n == Gear[data[i + 1]]
  <2>1. i - 1 \in D /\ i \in Int /\ MinLen <= (i - 1) + 1 /\ (i - 1) + 1 = i
    BY <1>0, <1>3
  <2>2. f \in [MinLen .. i - 1 -> Int] /\ g \in [MinLen .. i -> Int]
    BY <2>1, TermsType
  <2>3. \A j \in MinLen .. i - 1 : g[j] = 2 * f[j]
    <3> TAKE j \in MinLen .. i - 1
    <3>1. j \in MinLen .. i /\ (i - 1) - j \in Nat /\ ((i - 1) - j) + 1 = i - j /\ j + 1 \in 1 .. Len(data)
      BY <1>0, <2>1
    <3>2. Power[i - j] = 2 * Power[(i - 1) - j] /\ Power[(i - 1) - j] \in Nat
      BY <3>1, PowerGrows
    <3>3. Gear[data[j + 1]] \in Nat
      BY <3>1, GearAssumption
    <3>4. g[j] = Gear[data[j + 1]] * Power[i - j] /\ f[j] = Gear[data[j + 1]] * Power[(i - 1) - j]
      BY <3>1 DEF Terms
    <3> DEFINE a == Gear[data[j + 1]]
               b == Power[(i - 1) - j]
    <3>5. a \in Nat /\ b \in Nat /\ g[j] = a * (2 * b) /\ f[j] = a * b
      BY <3>2, <3>3, <3>4
    <3> HIDE DEF a, b, f, g
    <3>6. a * (2 * b) = 2 * (a * b)
      BY <3>5
    <3> QED BY <3>5, <3>6
  <2>4. g[i] = n /\ n \in Nat
    <3>1. i \in MinLen .. i /\ i - i = 0 /\ i + 1 \in 1 .. Len(data)
      BY <1>0, <1>3, <2>1
    <3>2. n \in Nat
      BY <3>1, GearAssumption
    <3>3. g[i] = n * Power[i - i]
      BY <3>1 DEF Terms
    <3>4. g[i] = n * 1
      BY <3>1, <3>3, PowerGrows
    <3> HIDE DEF n, g
    <3> QED BY <3>2, <3>4
  <2>5. Total(f) \in Int /\ Total(g) = 2 * Total(f) + n
    <3>1. g \in [MinLen .. (i - 1) + 1 -> Int]
      BY <2>1, <2>2
    <3>2. MinLen \in Int /\ i - 1 \in Int
      BY <1>0, <2>1
    <3> HIDE DEF f, g, n
    <3>3. Total(f) \in Int /\ Total(g) = 2 * Total(f) + g[(i - 1) + 1]
      BY <2>1, <2>2, <2>3, <3>1, <3>2, TotalDoubles
    <3> QED BY <2>1, <2>4, <3>3
  <2>6. Hash(data, i) = Total(g) % Word /\ Hash(data, i - 1) = Total(f) % Word
    BY Zenon DEF Hash, Total
  <2>7. Fingerprint(data)[i] = (2 * Fingerprint(data)[i - 1] + n) % Word
    BY <1>3, FingerprintRecursion
  <2>8. Fingerprint(data)[i - 1] = Hash(data, i - 1)
    BY <1>3
  <2> HIDE DEF f, g, n
  <2>9. (2 * (Total(f) % Word) + n) % Word = (2 * Total(f) + n) % Word
    BY <2>4, <2>5, DoubleModulo, GearAssumption
  <2>10. Fingerprint(data)[i] = (2 * (Total(f) % Word) + n) % Word
    BY <2>6, <2>7, <2>8, Zenon
  <2>11. Fingerprint(data)[i] = Hash(data, i)
    BY <2>5, <2>6, <2>9, <2>10, Zenon
  <2> QED BY <2>11
<1>4. ASSUME NEW i \in D, \A j \in D : rank[j] < rank[i] => j \in P
      PROVE  i \in P
  <2>1. CASE i < MinLen
    BY <1>2, <2>1
  <2>2. CASE ~(i < MinLen)
    <3>1. i - 1 \in D /\ rank[i - 1] < rank[i]
      BY <1>0, <2>2
    <3> HIDE DEF D, P, rank
    <3>2. i - 1 \in P
      BY <1>4, <3>1
    <3> QED BY <1>3, <2>2, <3>2
  <2> QED BY <2>1, <2>2
<1> HIDE DEF D, rank
<1>5. D \subseteq P
  <2> HIDE DEF P
  <2>1. Inductive(P, rank, D)
    BY <1>1, <1>4 DEF Inductive
  <2> QED BY <2>1, RankInduction, Zenon
<1> QED
  BY <1>5 DEF D

--------------------------------------------------------------------------------
(* cutPoint cuts at the first hit.                                            *)

Hit(data, i) == Clear(Hash(data, i), Mask(i))

\* The cut c of the data of n bytes is the first one from the offset i.
CutsFirst(data, i, n, c) ==
  \/ c = n /\ \A j \in i .. n - 1 : ~Hit(data, j)
  \/ c - 1 \in i .. n - 1 /\ Hit(data, c - 1) /\ \A j \in i .. c - 2 : ~Hit(data, j)

LEMMA OneFirst ==
  ASSUME NEW data, NEW i \in Int, NEW n \in Int, i <= n, NEW c \in Int, NEW d \in Int,
         CutsFirst(data, i, n, c), CutsFirst(data, i, n, d)
  PROVE  c = d
BY DEF CutsFirst

\* Capped(data) bytes are enough for the first cut.
Capped(data) == IF Len(data) < MaxLen THEN Len(data) ELSE MaxLen

LEMMA FirstCutCutsFirst ==
  ASSUME NEW data \in Seq(Byte)
  PROVE  /\ FirstCut(data) \in Int
         /\ IF Capped(data) <= MinLen THEN FirstCut(data) = Capped(data)
            ELSE CutsFirst(data, MinLen, Capped(data), FirstCut(data))
<1> DEFINE n == Capped(data)
           hits == {i \in MinLen .. n - 1 : Hit(data, i)}
<1>0. n \in Nat /\ MinLen \in Nat
  BY ProfileAssumption DEF Capped
<1>1. FirstCut(data) = IF hits = {} THEN n ELSE Min(hits) + 1
  BY Zenon DEF FirstCut, Capped, Hit
<1> HIDE DEF n
<1>2. CASE hits = {}
  <2>1. \A j \in MinLen .. n - 1 : ~Hit(data, j)
    BY <1>2
  <2>2. FirstCut(data) = n
    BY <1>1, <1>2
  <2> HIDE DEF hits
  <2> QED BY <1>0, <2>1, <2>2 DEF CutsFirst, n
<1>3. CASE hits # {}
  <2>0. hits \subseteq Nat
    BY <1>0
  <2>1. PICK m \in hits : \A j \in hits : m <= j
    <3> HIDE DEF hits
    <3> QED BY <1>3, <2>0, LeastNumber
  <2>2. Min(hits) = m
    <3>1. Min(hits) = CHOOSE x \in hits : \A y \in hits : x <= y
      BY Zenon DEF Min
    <3>2. PICK x \in hits : x = Min(hits) /\ \A y \in hits : x <= y
      <4> HIDE DEF hits
      <4> QED BY <2>1, <3>1, Zenon
    <3> QED BY <2>0, <2>1, <3>2
  <2>3. m \in MinLen .. n - 1 /\ Hit(data, m) /\ m \in Nat
    BY <2>0, <2>1
  <2>4. \A j \in MinLen .. m - 1 : ~Hit(data, j)
    <3> SUFFICES ASSUME NEW j \in MinLen .. m - 1, Hit(data, j) PROVE FALSE
      OBVIOUS
    <3>1. j \in hits
      BY <1>0, <2>3
    <3> HIDE DEF hits
    <3> QED BY <1>0, <2>1, <2>3, <3>1
  <2>5. FirstCut(data) = m + 1
    BY <1>1, <1>3, <2>2
  <2> HIDE DEF hits
  <2>6. (m + 1) - 1 = m /\ (m + 1) - 2 = m - 1 /\ m + 1 \in Int
    BY <2>3
  <2>7. CutsFirst(data, MinLen, n, m + 1)
    BY <2>3, <2>4, <2>6 DEF CutsFirst
  <2>8. ~(n <= MinLen)
    BY <1>0, <2>3
  <2> QED BY <2>5, <2>6, <2>7, <2>8 DEF n
<1> QED
  BY <1>2, <1>3

\* A chunk has at least one byte and at most MaxLen.
LEMMA FirstCutBounds ==
  ASSUME NEW data \in Seq(Byte), data # << >>
  PROVE  FirstCut(data) \in 1 .. Len(data) /\ FirstCut(data) <= MaxLen
<1>1. Len(data) \in Nat /\ Len(data) # 0
  OBVIOUS
<1>2. Capped(data) \in 1 .. Len(data) /\ Capped(data) <= MaxLen
  BY <1>1, ProfileAssumption DEF Capped
<1>3. CASE Capped(data) <= MinLen
  BY <1>2, <1>3, FirstCutCutsFirst
<1>4. CASE ~(Capped(data) <= MinLen)
  <2>1. FirstCut(data) \in Int /\ CutsFirst(data, MinLen, Capped(data), FirstCut(data))
    BY <1>4, FirstCutCutsFirst
  <2> QED BY <1>1, <1>2, <2>1, ProfileAssumption DEF CutsFirst
<1> QED
  BY <1>3, <1>4

LEMMA ScanRecursion ==
  ASSUME NEW data \in Seq(Byte)
  PROVE  \A i \in MinLen .. Len(data) :
           Scan(data)[i] = IF i = Len(data) THEN i
                           ELSE IF Clear(Fingerprint(data)[i], Mask(i)) THEN i + 1
                           ELSE IF i + 1 >= MaxLen THEN MaxLen
                           ELSE Scan(data)[i + 1]
<1> DEFINE n == Len(data)
           D == MinLen .. n
           C(i) == Clear(Fingerprint(data)[i], Mask(i))
           E(h) == [i \in D |-> IF i = n THEN i ELSE IF C(i) THEN i + 1
                                ELSE IF i + 1 >= MaxLen THEN MaxLen ELSE h[i + 1]]
           step == [p \in D \X [D -> Int] |-> IF p[1] = n THEN p[1] ELSE IF C(p[1]) THEN p[1] + 1
                                ELSE IF p[1] + 1 >= MaxLen THEN MaxLen ELSE p[2][p[1] + 1]]
           rank == [i \in D |-> n - i]
<1>0. MinLen \in Nat /\ MaxLen \in Nat /\ n \in Nat /\ D \subseteq Int
  BY ProfileAssumption
<1> HIDE DEF C
<1>1. \A i \in D, h \in [D -> Int] :
        step[<<i, h>>] = IF i = n THEN i ELSE IF C(i) THEN i + 1
                         ELSE IF i + 1 >= MaxLen THEN MaxLen ELSE h[i + 1]
  <2> HIDE DEF D
  <2> QED OBVIOUS
<1>2. \A i \in D : rank[i] = n - i /\ rank[i] \in Nat
  BY <1>0
<1>3. \A i \in D : i # n => i + 1 \in D /\ rank[i + 1] < rank[i]
  BY <1>0
<1>4. \E h : h = E(h)
  <2>1. \A i \in D, h \in [D -> Int] : step[<<i, h>>] \in Int
    <3> TAKE i \in D, h \in [D -> Int]
    <3>1. i # n => h[i + 1] \in Int
      <4> HIDE DEF D, n
      <4> QED BY <1>3
    <3>2. i \in Int
      BY <1>0
    <3> HIDE DEF D, n, step
    <3> QED BY <1>0, <1>1, <3>1, <3>2
  <2>2. \A i \in D : \A f, g \in [D -> Int] :
          (\A j \in D : rank[j] < rank[i] => f[j] = g[j]) => step[<<i, f>>] = step[<<i, g>>]
    <3> SUFFICES ASSUME NEW i \in D, NEW f \in [D -> Int], NEW g \in [D -> Int],
                        \A j \in D : rank[j] < rank[i] => f[j] = g[j]
                 PROVE  step[<<i, f>>] = step[<<i, g>>]
      OBVIOUS
    <3>1. i # n => f[i + 1] = g[i + 1]
      BY <1>3
    <3> HIDE DEF D, n, step
    <3> QED BY <1>1, <3>1
  <2> HIDE DEF D, step, rank
  <2>3. Descends(step, rank, D, Int)
    <3>1. Int # {}
      OBVIOUS
    <3>2. \A i \in D : rank[i] \in Nat
      BY <1>2
    <3> QED BY <2>1, <2>2, <3>1, <3>2 DEF Descends
  <2>4. PICK h : Solution(h, step, D, Int)
    BY <2>3, Recursion, Zenon
  <2>5. h = E(h)
    <3> HIDE DEF n
    <3> QED BY <1>1, <2>4 DEF Solution
  <2> HIDE DEF E
  <2> QED BY <2>5
<1>5. Scan(data) = CHOOSE h : h = E(h)
  BY Zenon DEF Scan, C
<1>6. Scan(data) = E(Scan(data))
  <2> HIDE DEF E
  <2> QED BY <1>4, <1>5, Zenon
<1>7. \A i \in D : Scan(data)[i] = E(Scan(data))[i]
  <2> HIDE DEF E
  <2> QED BY <1>6, Zenon
<1> HIDE DEF D, n
<1>8. \A i \in D : Scan(data)[i] = IF i = n THEN i ELSE IF C(i) THEN i + 1
                                   ELSE IF i + 1 >= MaxLen THEN MaxLen ELSE Scan(data)[i + 1]
  BY <1>7
<1> QED
  BY <1>8, Zenon DEF D, n, C

\* The loop that goes on byte by byte finds the first hit.
LEMMA CutPointIsFirstCut ==
  ASSUME NEW data \in Seq(Byte), Len(data) <= MaxLen
  PROVE  CutPoint(data) = FirstCut(data)
<1> DEFINE n == Len(data)
           D == MinLen .. n
           P == {i \in D : Scan(data)[i] \in Int /\ CutsFirst(data, i, n, Scan(data)[i])}
           rank == [i \in D |-> n - i]
<1>0. n \in Nat /\ MinLen \in Nat /\ MaxLen \in Nat /\ MinLen < MaxLen /\ Capped(data) = n
  BY ProfileAssumption DEF Capped
<1>1. ASSUME NEW i \in D, \A j \in D : rank[j] < rank[i] => j \in P
      PROVE  i \in P
  <2>0. i \in Int /\ i <= n /\ MinLen <= i
    BY <1>0
  <2>1. i # n => (Clear(Fingerprint(data)[i], Mask(i)) <=> Hit(data, i))
    <3>1. i # n => i \in MinLen - 1 .. Len(data) - 1
      BY <1>0
    <3>2. i # n => Fingerprint(data)[i] = Hash(data, i)
      BY <3>1, FingerprintIsHash
    <3> QED BY <3>2 DEF Hit
  <2>2. Scan(data)[i] = IF i = n THEN i ELSE IF Clear(Fingerprint(data)[i], Mask(i)) THEN i + 1
                        ELSE IF i + 1 >= MaxLen THEN MaxLen ELSE Scan(data)[i + 1]
    BY ScanRecursion
  <2> DEFINE s == Scan(data)[i]
  <2>3. CASE i = n
    <3>1. s = n
      BY <2>2, <2>3
    <3> HIDE DEF s, n
    <3> QED BY <1>0, <2>0, <2>3, <3>1 DEF CutsFirst, s
  <2>4. CASE i # n /\ Hit(data, i)
    <3>1. s = i + 1
      BY <2>1, <2>2, <2>4
    <3> HIDE DEF s, n
    <3>2. CutsFirst(data, i, n, i + 1)
      BY <1>0, <2>0, <2>4 DEF CutsFirst
    <3> QED BY <2>0, <3>1, <3>2 DEF s
  <2>5. CASE i # n /\ ~Hit(data, i)
    <3>1. CASE i + 1 >= MaxLen
      <4>1. i + 1 = n /\ MaxLen = n
        BY <1>0, <2>0, <2>5, <3>1
      <4>2. s = n
        BY <2>1, <2>2, <2>5, <3>1, <4>1
      <4> HIDE DEF s, n
      <4>3. CutsFirst(data, i, n, n)
        BY <1>0, <2>0, <2>5, <4>1 DEF CutsFirst
      <4> QED BY <1>0, <4>2, <4>3 DEF s
    <3>2. CASE ~(i + 1 >= MaxLen)
      <4>1. i + 1 \in D /\ rank[i + 1] < rank[i]
        BY <1>0, <2>0, <2>5
      <4>2. i + 1 \in P
        <5> HIDE DEF D, P, rank
        <5> QED BY <1>1, <4>1
      <4>3. s = Scan(data)[i + 1]
        BY <2>1, <2>2, <2>5, <3>2
      <4>4. s \in Int /\ CutsFirst(data, i + 1, n, s)
        BY <4>2, <4>3
      <4> HIDE DEF s, n
      <4>5. CutsFirst(data, i, n, s)
        BY <1>0, <2>0, <2>5, <4>4 DEF CutsFirst
      <4> QED BY <4>4, <4>5 DEF s
    <3> QED BY <3>1, <3>2
  <2> QED BY <2>3, <2>4, <2>5
<1>2. D \subseteq P
  <2>1. \A i \in D : rank[i] \in Nat
    BY <1>0
  <2> HIDE DEF D, P, rank
  <2>2. Inductive(P, rank, D)
    BY <1>1, <2>1 DEF Inductive
  <2> QED BY <2>2, RankInduction, Zenon
<1>3. CASE n <= MinLen
  BY <1>0, <1>3, FirstCutCutsFirst DEF CutPoint
<1>4. CASE ~(n <= MinLen)
  <2>1. CutPoint(data) = Scan(data)[MinLen]
    BY <1>4 DEF CutPoint
  <2>2. MinLen \in P
    BY <1>0, <1>2, <1>4
  <2>3. CutPoint(data) \in Int /\ CutsFirst(data, MinLen, n, CutPoint(data))
    BY <2>1, <2>2
  <2>4. FirstCut(data) \in Int /\ CutsFirst(data, MinLen, n, FirstCut(data))
    BY <1>0, <1>4, FirstCutCutsFirst
  <2>5. MinLen \in Int /\ n \in Int /\ MinLen <= n
    BY <1>0, <1>4
  <2> HIDE DEF n
  <2> QED BY <2>3, <2>4, <2>5, OneFirst
<1> QED
  BY <1>3, <1>4

--------------------------------------------------------------------------------
(* Sequences.                                                                 *)

LEMMA SameSequence ==
  ASSUME NEW S, NEW s \in Seq(S), NEW t \in Seq(S), Len(s) = Len(t),
         \A i \in 1 .. Len(s) : s[i] = t[i]
  PROVE  s = t
OBVIOUS

LEMMA JoinParts ==
  ASSUME NEW S, NEW s \in Seq(S), NEW k \in 0 .. Len(s)
  PROVE  SubSeq(s, 1, k) \o SubSeq(s, k + 1, Len(s)) = s
<1>1. PICK a : a = SubSeq(s, 1, k)
  OBVIOUS
<1>2. PICK b : b = SubSeq(s, k + 1, Len(s))
  OBVIOUS
<1>3. a \in Seq(S) /\ Len(a) = k /\ \A i \in 1 .. k : a[i] = s[i]
  BY <1>1
<1>4. b \in Seq(S) /\ Len(b) = Len(s) - k /\ \A i \in 1 .. Len(s) - k : b[i] = s[k + i]
  BY <1>2
<1>5. a \o b \in Seq(S) /\ Len(a \o b) = Len(s)
  BY <1>3, <1>4
<1>6. ASSUME NEW i \in 1 .. Len(s) PROVE (a \o b)[i] = s[i]
  <2>1. CASE i <= k
    BY <1>3, <1>4, <2>1
  <2>2. CASE ~(i <= k)
    <3>1. (a \o b)[i] = b[i - k] /\ i - k \in 1 .. Len(s) - k
      BY <1>3, <1>4, <2>2
    <3>2. k + (i - k) = i
      OBVIOUS
    <3> QED BY <1>4, <3>1, <3>2
  <2> QED BY <2>1, <2>2
<1>7. a \o b = s
  BY <1>5, <1>6, SameSequence
<1> QED
  BY <1>1, <1>2, <1>7

LEMMA JoinAnyOrder ==
  ASSUME NEW S, NEW s \in Seq(S), NEW t \in Seq(S), NEW u \in Seq(S)
  PROVE  (s \o t) \o u = s \o (t \o u)
<1> DEFINE a == (s \o t) \o u
           b == s \o (t \o u)
<1>1. a \in Seq(S) /\ b \in Seq(S) /\ Len(a) = Len(b) /\ Len(a) = Len(s) + Len(t) + Len(u)
  OBVIOUS
<1>2. \A i \in 1 .. Len(a) : a[i] = b[i]
  OBVIOUS
<1> HIDE DEF a, b
<1>3. a = b
  BY <1>1, <1>2, SameSequence
<1> QED
  BY <1>3 DEF a, b

LEMMA TailOfJoined ==
  ASSUME NEW S, NEW s \in Seq(S), NEW t \in Seq(S), NEW k \in 0 .. Len(s)
  PROVE  /\ SubSeq(s \o t, 1, k) = SubSeq(s, 1, k)
         /\ SubSeq(s \o t, k + 1, Len(s \o t)) = SubSeq(s, k + 1, Len(s)) \o t
<1> DEFINE a == SubSeq(s \o t, k + 1, Len(s \o t))
           b == SubSeq(s, k + 1, Len(s)) \o t
<1>1. a \in Seq(S) /\ b \in Seq(S) /\ Len(a) = Len(b) /\ Len(a) = (Len(s) - k) + Len(t)
  OBVIOUS
<1>2. \A i \in 1 .. Len(a) : a[i] = b[i]
  OBVIOUS
<1> HIDE DEF a, b
<1>3. a = b
  BY <1>1, <1>2, SameSequence
<1>4. SubSeq(s \o t, 1, k) = SubSeq(s, 1, k)
  <2> DEFINE c == SubSeq(s \o t, 1, k)
             d == SubSeq(s, 1, k)
  <2>1. c \in Seq(S) /\ d \in Seq(S) /\ Len(c) = Len(d)
    OBVIOUS
  <2>2. \A i \in 1 .. Len(c) : c[i] = d[i]
    OBVIOUS
  <2> HIDE DEF c, d
  <2>3. c = d
    BY <2>1, <2>2, SameSequence
  <2> QED BY <2>3 DEF c, d
<1> QED
  BY <1>3, <1>4 DEF a, b

LEMMA AppendJoins ==
  ASSUME NEW S, NEW s \in Seq(S), NEW e \in S
  PROVE  Append(s, e) = s \o <<e>> /\ Append(s, e) \in Seq(S) /\ <<e>> \in Seq(S)
OBVIOUS

--------------------------------------------------------------------------------
(* The cuts of a file do not depend on how much of it is at hand.             *)

LEMMA HashOfPrefix ==
  ASSUME NEW a \in Seq(Byte), NEW b \in Seq(Byte), NEW i \in Int, i < Len(a), i < Len(b),
         \A k \in 1 .. i + 1 : a[k] = b[k]
  PROVE  Hash(a, i) = Hash(b, i)
<1>1. ASSUME NEW j \in MinLen .. i
      PROVE  Gear[a[j + 1]] * Power[i - j] = Gear[b[j + 1]] * Power[i - j]
  <2>1. j + 1 \in 1 .. i + 1
    BY ProfileAssumption
  <2>2. a[j + 1] = b[j + 1]
    BY <2>1
  <2> QED BY <2>2, Zenon
<1>2. Terms(a, i) = Terms(b, i)
  BY <1>1, Zenon DEF Terms
<1> QED
  BY <1>2, Zenon DEF Hash

\* A full buffer, or the end of the file, is enough for the cut of all of it.
LEMMA CutOfBuffer ==
  ASSUME NEW a \in Seq(Byte), NEW b \in Seq(Byte), Len(a) = MaxLen \/ b = << >>
  PROVE  FirstCut(a \o b) = FirstCut(a)
<1> DEFINE d == a \o b
           n == Capped(a)
<1>1. d \in Seq(Byte) /\ Len(d) = Len(a) + Len(b) /\ \A k \in 1 .. Len(a) : d[k] = a[k]
  OBVIOUS
<1>2. Capped(d) = n /\ n <= Len(a) /\ n <= Len(d) /\ n \in Nat
  <2>1. Len(a) \in Nat /\ Len(b) \in Nat /\ (b = << >> => Len(b) = 0)
    OBVIOUS
  <2> HIDE DEF d
  <2> QED BY <1>1, <2>1, ProfileAssumption DEF Capped
<1> HIDE DEF d, n
<1>3. ASSUME NEW i \in MinLen .. n - 1 PROVE Hit(d, i) <=> Hit(a, i)
  <2>1. i \in Int /\ i < Len(a) /\ i < Len(d) /\ \A k \in 1 .. i + 1 : d[k] = a[k]
    BY <1>1, <1>2, ProfileAssumption
  <2>2. Hash(d, i) = Hash(a, i)
    BY <1>1, <2>1, HashOfPrefix
  <2> QED BY <2>2 DEF Hit
<1>4. {i \in MinLen .. n - 1 : Hit(d, i)} = {i \in MinLen .. n - 1 : Hit(a, i)}
  BY <1>3
<1>5. FirstCut(a) = IF {i \in MinLen .. n - 1 : Hit(a, i)} = {} THEN n
                    ELSE Min({i \in MinLen .. n - 1 : Hit(a, i)}) + 1
  BY Zenon DEF FirstCut, Hit, Capped, n
<1>6. FirstCut(d) = IF {i \in MinLen .. Capped(d) - 1 : Hit(d, i)} = {} THEN Capped(d)
                    ELSE Min({i \in MinLen .. Capped(d) - 1 : Hit(d, i)}) + 1
  BY Zenon DEF FirstCut, Hit, Capped
<1>7. FirstCut(d) = IF {i \in MinLen .. n - 1 : Hit(d, i)} = {} THEN n
                    ELSE Min({i \in MinLen .. n - 1 : Hit(d, i)}) + 1
  BY <1>2, <1>6, Zenon
<1>8. FirstCut(d) = FirstCut(a)
  <2> DEFINE A == {i \in MinLen .. n - 1 : Hit(a, i)}
             B == {i \in MinLen .. n - 1 : Hit(d, i)}
  <2>1. A = B
    BY <1>4
  <2>2. FirstCut(a) = IF A = {} THEN n ELSE Min(A) + 1
    BY <1>5, Zenon
  <2>3. FirstCut(d) = IF B = {} THEN n ELSE Min(B) + 1
    BY <1>7, Zenon
  <2> HIDE DEF A, B
  <2> QED BY <2>1, <2>2, <2>3
<1> QED
  BY <1>8 DEF d

LEMMA CutsRecursion ==
  /\ Cuts \in [Seq(Byte) -> Seq(Seq(Byte))]
  /\ \A data \in Seq(Byte) :
       Cuts[data] = IF data = << >> THEN << >>
                    ELSE <<SubSeq(data, 1, FirstCut(data))>>
                           \o Cuts[SubSeq(data, FirstCut(data) + 1, Len(data))]
<1> DEFINE D == Seq(Byte)
           V == Seq(Seq(Byte))
           one(d) == <<SubSeq(d, 1, FirstCut(d))>>
           tail(d) == SubSeq(d, FirstCut(d) + 1, Len(d))
           E(h) == [d \in D |-> IF d = << >> THEN << >> ELSE one(d) \o h[tail(d)]]
           step == [p \in D \X [D -> V] |-> IF p[1] = << >> THEN << >> ELSE one(p[1]) \o p[2][tail(p[1])]]
           rank == [d \in D |-> Len(d)]
<1>1. ASSUME NEW d \in D, d # << >>
      PROVE  tail(d) \in D /\ Len(tail(d)) < Len(d) /\ one(d) \in V
  <2>1. FirstCut(d) \in 1 .. Len(d)
    BY <1>1, FirstCutBounds
  <2>2. PICK c \in 1 .. Len(d) : c = FirstCut(d)
    BY <2>1
  <2>3. SubSeq(d, c + 1, Len(d)) \in D /\ Len(SubSeq(d, c + 1, Len(d))) < Len(d)
    OBVIOUS
  <2>4. SubSeq(d, 1, c) \in D
    OBVIOUS
  <2>5. <<SubSeq(d, 1, c)>> \in V
    BY <2>4
  <2> QED BY <2>2, <2>3, <2>5
<1> HIDE DEF one, tail, V
<1>2. \A d \in D, h \in [D -> V] : step[<<d, h>>] = IF d = << >> THEN << >> ELSE one(d) \o h[tail(d)]
  <2> HIDE DEF D
  <2> QED OBVIOUS
<1>3. \A d \in D : rank[d] = Len(d) /\ rank[d] \in Nat
  OBVIOUS
<1>4. \A u, v \in V : u \o v \in V
  BY DEF V
<1>5. << >> \in V
  BY DEF V
<1>6. \E h : h = E(h)
  <2>1. \A d \in D, h \in [D -> V] : step[<<d, h>>] \in V
    <3> TAKE d \in D, h \in [D -> V]
    <3>1. d # << >> => one(d) \in V /\ h[tail(d)] \in V
      <4> HIDE DEF D
      <4> QED BY <1>1
    <3> HIDE DEF D, step
    <3> QED BY <1>2, <1>4, <1>5, <3>1
  <2>2. \A d \in D : \A f, g \in [D -> V] :
          (\A e \in D : rank[e] < rank[d] => f[e] = g[e]) => step[<<d, f>>] = step[<<d, g>>]
    <3> SUFFICES ASSUME NEW d \in D, NEW f \in [D -> V], NEW g \in [D -> V],
                        \A e \in D : rank[e] < rank[d] => f[e] = g[e]
                 PROVE  step[<<d, f>>] = step[<<d, g>>]
      OBVIOUS
    <3>1. d # << >> => f[tail(d)] = g[tail(d)]
      <4> HIDE DEF D, rank
      <4> QED BY <1>1, <1>3
    <3> HIDE DEF D, step, rank
    <3>2. step[<<d, f>>] = IF d = << >> THEN << >> ELSE one(d) \o f[tail(d)]
      BY <1>2, Zenon
    <3>3. step[<<d, g>>] = IF d = << >> THEN << >> ELSE one(d) \o g[tail(d)]
      BY <1>2, Zenon
    <3>4. CASE d = << >>
      BY <3>2, <3>3, <3>4, Zenon
    <3>5. CASE d # << >>
      <4>1. f[tail(d)] = g[tail(d)]
        BY <3>1, <3>5, Zenon
      <4> QED BY <3>2, <3>3, <3>5, <4>1, Zenon
    <3> QED BY <3>4, <3>5, Zenon
  <2> HIDE DEF D, step, rank
  <2>3. Descends(step, rank, D, V)
    <3>1. V # {}
      BY <1>5
    <3>2. \A d \in D : rank[d] \in Nat
      BY <1>3
    <3> QED BY <2>1, <2>2, <3>1, <3>2 DEF Descends
  <2>4. PICK h : Solution(h, step, D, V)
    BY <2>3, Recursion, Zenon
  <2>5. h = E(h)
    BY <1>2, <2>4 DEF Solution
  <2> HIDE DEF E
  <2> QED BY <2>5
<1>7. Cuts = CHOOSE h : h = E(h)
  BY Zenon DEF Cuts, one, tail
<1>8. Cuts = E(Cuts)
  <2> HIDE DEF E
  <2> QED BY <1>6, <1>7, Zenon
<1>9. \A d \in D : Cuts[d] = IF d = << >> THEN << >> ELSE one(d) \o Cuts[tail(d)]
  <2>1. \A d \in D : Cuts[d] = E(Cuts)[d]
    <3> HIDE DEF E
    <3> QED BY <1>8, Zenon
  <2> HIDE DEF D
  <2> QED BY <2>1
<1> DEFINE P == {d \in D : Cuts[d] \in V}
<1>10. D \subseteq P
  <2>1. \A d \in D : (\A e \in D : rank[e] < rank[d] => e \in P) => d \in P
    <3> SUFFICES ASSUME NEW d \in D, \A e \in D : rank[e] < rank[d] => e \in P
                 PROVE  d \in P
      OBVIOUS
    <3> HIDE DEF D, rank
    <3>1. d # << >> => one(d) \in V /\ Cuts[tail(d)] \in V
      BY <1>1, <1>3
    <3> QED BY <1>4, <1>5, <1>9, <3>1
  <2> HIDE DEF D, P, rank
  <2>2. Inductive(P, rank, D)
    BY <1>3, <2>1 DEF Inductive
  <2> QED BY <2>2, RankInduction, Zenon
<1>11. Cuts \in [D -> V]
  <2>1. Cuts = [d \in D |-> Cuts[d]]
    <3> HIDE DEF D
    <3> QED BY <1>8
  <2> QED BY <1>10, <2>1
<1> QED
  BY <1>9, <1>11, Zenon DEF one, tail, V, D

--------------------------------------------------------------------------------
(* The buffer and the reader hold what is not cut yet.                        *)

StreamOK ==
  /\ file \in Seq(Byte) /\ rest \in Seq(Byte) /\ buf \in Seq(Byte)
  /\ Len(buf) <= MaxLen
  /\ eof \in BOOLEAN /\ (eof => rest = << >>)
  /\ end \in {"open", "EOF", "error"} /\ (end = "EOF" => buf = << >> /\ rest = << >>)

\* The chunks so far and the cuts of what is left are the cuts of the file.
CutsGoOn == chunks \in Seq(Seq(Byte)) /\ Cuts[file] = chunks \o Cuts[buf \o rest]

StreamInv == StreamOK /\ CutsGoOn

LEMMA StreamInit == Init => StreamInv
<1> SUFFICES ASSUME Init PROVE StreamInv
  OBVIOUS
<1>1. file \in Seq(Byte) /\ << >> \in Seq(Byte)
  BY GearAssumption DEF Init
<1>2. StreamOK
  <2>1. eof \in BOOLEAN /\ (eof => rest = << >>)
    BY Zenon DEF Init
  <2>2. Len(buf) <= MaxLen
    BY ProfileAssumption DEF Init
  <2>3. end \in {"open", "EOF", "error"} /\ (end = "EOF" => buf = << >> /\ rest = << >>)
    BY DEF Init
  <2>4. rest \in Seq(Byte) /\ buf \in Seq(Byte)
    BY <1>1 DEF Init
  <2> QED BY <1>1, <2>1, <2>2, <2>3, <2>4, Zenon DEF StreamOK
<1>3. << >> \o file = file
  BY <1>1
<1>4. Cuts[file] \in Seq(Seq(Byte))
  BY <1>1, CutsRecursion
<1>5. << >> \o Cuts[file] = Cuts[file]
  BY <1>4
<1>6. CutsGoOn
  BY <1>3, <1>4, <1>5 DEF CutsGoOn, Init
<1> QED
  BY <1>2, <1>6 DEF StreamInv

LEMMA StreamFill ==
  ASSUME StreamInv, NEW k \in 0 .. Len(rest), Fill(k)
  PROVE  StreamInv'
<1>1. SubSeq(rest, 1, k) \in Seq(Byte) /\ SubSeq(rest, k + 1, Len(rest)) \in Seq(Byte)
      /\ Len(SubSeq(rest, 1, k)) = k
  BY DEF StreamInv, StreamOK
<1>2. buf' \in Seq(Byte) /\ Len(buf') = Len(buf) + k /\ rest' \in Seq(Byte)
  BY <1>1 DEF Fill, StreamInv, StreamOK
<1>3. buf' \o rest' = buf \o rest
  <2>1. SubSeq(rest, 1, k) \o SubSeq(rest, k + 1, Len(rest)) = rest
    BY JoinParts, Zenon DEF StreamInv, StreamOK
  <2>2. (buf \o SubSeq(rest, 1, k)) \o SubSeq(rest, k + 1, Len(rest))
        = buf \o (SubSeq(rest, 1, k) \o SubSeq(rest, k + 1, Len(rest)))
    <3>1. buf \in Seq(Byte)
      BY DEF StreamInv, StreamOK
    <3>2. PICK a, b : a = SubSeq(rest, 1, k) /\ b = SubSeq(rest, k + 1, Len(rest))
      OBVIOUS
    <3>3. a \in Seq(Byte) /\ b \in Seq(Byte)
      BY <1>1, <3>2, Zenon
    <3>4. (buf \o a) \o b = buf \o (a \o b)
      BY <3>1, <3>3, JoinAnyOrder
    <3> QED BY <3>2, <3>4, Zenon
  <2> QED BY <2>1, <2>2 DEF Fill
<1>4. eof' \in BOOLEAN /\ (eof' => rest' = << >>)
  <2>1. eof' \in BOOLEAN /\ (eof' => k = Len(rest))
    BY Zenon DEF Fill
  <2>2. k = Len(rest) => rest' = << >>
    BY DEF Fill, StreamInv, StreamOK
  <2> QED BY <2>1, <2>2, Zenon
<1>5. StreamOK'
  <2>1. Len(buf') <= MaxLen
    BY <1>2 DEF Fill
  <2> QED BY <1>2, <1>4, <2>1, Zenon DEF Fill, StreamInv, StreamOK
<1>6. CutsGoOn'
  BY <1>3 DEF Fill, StreamInv, CutsGoOn
<1> QED
  BY <1>5, <1>6 DEF StreamInv

LEMMA StreamNextChunk == StreamInv /\ NextChunk => StreamInv'
<1> SUFFICES ASSUME StreamInv, NextChunk PROVE StreamInv'
  OBVIOUS
<1> USE DEF StreamInv
<1>1. CASE buf = << >>
  <2>1. eof
    BY <1>1, ProfileAssumption DEF NextChunk, Filled
  <2>2. StreamOK'
    BY <1>1, <2>1 DEF NextChunk, StreamOK
  <2>3. CutsGoOn'
    BY <1>1 DEF NextChunk, CutsGoOn
  <2> QED BY <2>2, <2>3
<1>2. CASE buf # << >>
  <2> DEFINE d == buf \o rest
  <2>1. CutPoint(buf) = FirstCut(buf)
    BY CutPointIsFirstCut DEF StreamOK
  <2>2. FirstCut(d) = FirstCut(buf)
    <3>1. Len(buf) = MaxLen \/ rest = << >>
      BY DEF NextChunk, Filled, StreamOK
    <3> QED BY <3>1, CutOfBuffer DEF StreamOK
  <2>3. PICK c \in 1 .. Len(buf) : c = FirstCut(buf)
    BY <1>2, FirstCutBounds DEF StreamOK
  <2>4. /\ chunks' = Append(chunks, SubSeq(buf, 1, c)) /\ buf' = SubSeq(buf, c + 1, Len(buf))
        /\ UNCHANGED <<file, rest, eof, end>> /\ end = "open"
    BY <1>2, <2>1, <2>3 DEF NextChunk
  <2>5. /\ buf' \in Seq(Byte) /\ Len(buf') = Len(buf) - c /\ SubSeq(buf, 1, c) \in Seq(Byte)
        /\ d \in Seq(Byte) /\ d # << >> /\ Len(d) = Len(buf) + Len(rest)
    BY <1>2, <2>4 DEF StreamOK
  <2>6. SubSeq(d, 1, c) = SubSeq(buf, 1, c) /\ SubSeq(d, c + 1, Len(d)) = buf' \o rest'
    <3>0. c \in 0 .. Len(buf) /\ buf \in Seq(Byte) /\ rest \in Seq(Byte)
      BY DEF StreamOK
    <3>1. SubSeq(d, 1, c) = SubSeq(buf, 1, c) /\ SubSeq(d, c + 1, Len(d)) = SubSeq(buf, c + 1, Len(buf)) \o rest
      BY <3>0, TailOfJoined, Zenon
    <3> QED BY <2>4, <3>1, Zenon
  <2>7. StreamOK'
    <3>1. Len(buf') <= MaxLen
      BY <2>5, ProfileAssumption DEF StreamOK
    <3>2. end # "EOF"
      BY <2>4
    <3> QED BY <2>4, <2>5, <3>1, <3>2, Zenon DEF StreamOK
  <2>8. Cuts[d] = <<SubSeq(buf, 1, c)>> \o Cuts[buf' \o rest']
    <3> HIDE DEF d
    <3>1. Cuts[d] = <<SubSeq(d, 1, FirstCut(d))>> \o Cuts[SubSeq(d, FirstCut(d) + 1, Len(d))]
      BY <2>5, CutsRecursion
    <3> QED BY <2>2, <2>3, <2>6, <3>1, Zenon
  <2>9. Cuts[buf' \o rest'] \in Seq(Seq(Byte))
    <3>1. buf' \o rest' \in Seq(Byte)
      BY <2>7 DEF StreamOK
    <3> QED BY <3>1, CutsRecursion
  <2>10. CutsGoOn'
    <3> DEFINE u == SubSeq(buf, 1, c)
               v == Cuts[buf' \o rest']
    <3>1. u \in Seq(Byte) /\ v \in Seq(Seq(Byte)) /\ chunks \in Seq(Seq(Byte))
      BY <2>5, <2>9 DEF CutsGoOn
    <3>2. Cuts[file] = chunks \o (<<u>> \o v)
      BY <2>8, Zenon DEF CutsGoOn
    <3>3. chunks' = Append(chunks, u) /\ file' = file
      BY <2>4
    <3>4. (Cuts[buf \o rest])' = Cuts[buf' \o rest']
      BY Zenon DEF Cuts
    <3> HIDE DEF u, v
    <3>5. chunks \o (<<u>> \o v) = Append(chunks, u) \o v /\ Append(chunks, u) \in Seq(Seq(Byte))
      <4> DEFINE S == Seq(Byte)
      <4> HIDE DEF S
      <4>1. u \in S /\ v \in Seq(S) /\ chunks \in Seq(S)
        BY <3>1 DEF S
      <4>2. Append(chunks, u) = chunks \o <<u>> /\ Append(chunks, u) \in Seq(S) /\ <<u>> \in Seq(S)
        BY <4>1, AppendJoins
      <4>3. (chunks \o <<u>>) \o v = chunks \o (<<u>> \o v)
        BY <4>1, <4>2, JoinAnyOrder
      <4> QED BY <4>2, <4>3 DEF S
    <3>6. chunks' \in Seq(Seq(Byte)) /\ Cuts[file'] = chunks' \o v
      BY <3>2, <3>3, <3>5
    <3> QED BY <3>6 DEF CutsGoOn, v
  <2> QED BY <2>7, <2>10
<1> QED
  BY <1>1, <1>2

LEMMA StreamStep == StreamInv /\ [Next]_vars => StreamInv'
<1> SUFFICES ASSUME StreamInv, [Next]_vars PROVE StreamInv'
  OBVIOUS
<1>1. CASE NextChunk
  BY <1>1, StreamNextChunk
<1>2. CASE ReadError
  <2>1. StreamOK'
    BY <1>2 DEF ReadError, StreamInv, StreamOK
  <2>2. CutsGoOn'
    BY <1>2 DEF ReadError, StreamInv, CutsGoOn
  <2> QED BY <2>1, <2>2 DEF StreamInv
<1>3. CASE \E k \in 0 .. Len(rest) : Fill(k)
  BY <1>3, StreamFill
<1>4. CASE UNCHANGED vars
  <2>1. StreamOK'
    BY <1>4 DEF vars, StreamInv, StreamOK
  <2>2. CutsGoOn'
    BY <1>4 DEF vars, StreamInv, CutsGoOn
  <2> QED BY <2>1, <2>2 DEF StreamInv
<1> QED
  BY <1>1, <1>2, <1>3, <1>4 DEF Next

\* The chunks of a file depend on its bytes only: whatever pieces the reader
\* hands out and wherever io.EOF comes, Next returns the cuts of the closed
\* form in their order, and all of them before io.EOF.
THEOREM ChunksDependOnContent == Spec => []CutsAreOfContent
<1>1. StreamInv => CutsAreOfContent
  <2> SUFFICES ASSUME StreamInv PROVE CutsAreOfContent
    OBVIOUS
  <2> DEFINE v == Cuts[buf \o rest]
  <2>1. v \in Seq(Seq(Byte)) /\ chunks \in Seq(Seq(Byte)) /\ Cuts[file] = chunks \o v
    <3>1. buf \o rest \in Seq(Byte)
      BY DEF StreamInv, StreamOK
    <3> QED BY <3>1, CutsRecursion DEF StreamInv, CutsGoOn
  <2>2. IsPrefix(chunks, Cuts[file])
    <3> HIDE DEF v
    <3>1. Len(chunks) <= Len(chunks \o v)
          /\ SubSeq(chunks, 1, Len(chunks)) = SubSeq(chunks \o v, 1, Len(chunks))
      BY <2>1
    <3> QED BY <2>1, <3>1 DEF IsPrefix
  <2>3. ASSUME end = "EOF" PROVE chunks = Cuts[file]
    <3>1. buf \o rest = << >> /\ << >> \in Seq(Byte)
      BY <2>3 DEF StreamInv, StreamOK
    <3>2. v = << >>
      BY <3>1, CutsRecursion
    <3> HIDE DEF v
    <3> QED BY <2>1, <3>2
  <2> QED BY <2>2, <2>3 DEF CutsAreOfContent
<1> QED
  BY <1>1, StreamInit, StreamStep, PTL DEF Spec

================================================================================
