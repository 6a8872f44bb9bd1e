---------------------------- MODULE PackOrder_proofs ----------------------------
(* Proofs about the pack order and the budget of a disc, for all objects,     *)
(* times, file sizes, discs and capacities: a run is closed, no sound Staged  *)
(* item is forgotten, the oldest snapshot goes first, and a run fits.         *)
(*                                                                            *)
(* The walk is recursive over the trees of the objects, and so are its loops  *)
(* over entries, snapshots and damaged chunks.  The first part proves what a  *)
(* recursive definition needs: on a set without an endless descent (Grounded) *)
(* a rule that looks down only (Local) has a function that follows it, thus   *)
(* the definition by CHOOSE follows it too, and induction is sound.           *)
(*                                                                            *)
(* WalkOK holds between any two visits of a walk: the units are the items     *)
(* that the walk has taken, each once and after its children; what it has     *)
(* seen is taken or on a disc; what it has marked bad has something unsound   *)
(* below; and it has met all below an item that it has met, but for what is   *)
(* on a disc and, below a snapshot of a disc, what has no record.  OrderOK    *)
(* adds that a snapshot comes after the sound ones that are older.            *)
EXTENDS PackOrder, FiniteSetTheorems, WellFoundedInduction, TLAPS

-----------------------------------------------------------------------------
(* Recursive functions over a finite order. *)

\* Sub gives the elements that come before each element of S: no set of them
\* goes on for ever.
Grounded(S, Sub) ==
  /\ Sub \in [S -> SUBSET S]
  /\ \A X \in SUBSET S : X # {} => \E x \in X : Sub[x] \cap X = {}

\* The rule G looks at what comes before an element only.
Local(S, T, Sub, G) ==
  /\ G \in [S \X [S -> T] -> T]
  /\ \A x \in S : \A f, g \in [S -> T] :
       (\A y \in Sub[x] : f[y] = g[y]) => G[<<x, f>>] = G[<<x, g>>]

\* f follows the rule on D, which has all that comes before its elements.
Follows(f, D, S, T, Sub, G) ==
  /\ f \in [S -> T] /\ D \in SUBSET S
  /\ \A x \in D : Sub[x] \subseteq D /\ f[x] = G[<<x, f>>]

\* Two functions that follow a local rule agree where both do.
LEMMA FollowsAgree ==
  ASSUME NEW S, NEW T, NEW Sub, NEW G, Grounded(S, Sub), Local(S, T, Sub, G),
         NEW f, NEW C, NEW g, NEW D, Follows(f, C, S, T, Sub, G), Follows(g, D, S, T, Sub, G)
  PROVE  \A x \in C \cap D : f[x] = g[x]
<1> DEFINE X == {x \in C \cap D : f[x] # g[x]}
<1>1. SUFFICES ASSUME X # {} PROVE FALSE
  OBVIOUS
<1>2. X \in SUBSET S
  BY DEF Follows
<1>3. PICK x \in X : Sub[x] \cap X = {}
  BY <1>1, <1>2 DEF Grounded
<1>4. x \in S /\ x \in C /\ x \in D /\ f \in [S -> T] /\ g \in [S -> T]
  BY <1>2 DEF Follows
<1>5. Sub[x] \subseteq C /\ Sub[x] \subseteq D /\ f[x] = G[<<x, f>>] /\ g[x] = G[<<x, g>>]
  BY <1>4 DEF Follows
<1>6. \A y \in Sub[x] : f[y] = g[y]
  BY <1>3, <1>5
<1>7. G[<<x, f>>] = G[<<x, g>>]
  BY <1>4, <1>6 DEF Local
<1> QED BY <1>5, <1>7

Solution(f, S, T, G) == f \in [S -> T] /\ \A x \in S : f[x] = G[<<x, f>>]

\* A local rule has a function that follows it everywhere.
LEMMA RecursionExists ==
  ASSUME NEW S, NEW T, T # {}, NEW Sub, NEW G, Grounded(S, Sub), Local(S, T, Sub, G)
  PROVE  \E f : Solution(f, S, T, G)
<1>0. PICK t \in T : TRUE
  OBVIOUS
<1> DEFINE P == {p \in [S -> T] \X SUBSET S : Follows(p[1], p[2], S, T, Sub, G)}
           A == {x \in S : \E p \in P : x \in p[2]}
           Of(x) == CHOOSE p \in P : x \in p[2]
           f == [x \in S |-> IF x \in A THEN Of(x)[1][x] ELSE t]
<1>1. \A x \in A : Of(x) \in P /\ x \in Of(x)[2]
  OBVIOUS
<1>2. \A p \in P : /\ p[1] \in [S -> T] /\ p[2] \in SUBSET S /\ p[2] \subseteq A
                 /\ Follows(p[1], p[2], S, T, Sub, G)
  OBVIOUS
<1>3. f \in [S -> T]
  <2>1. \A x \in A : Of(x)[1][x] \in T
    BY <1>1, <1>2
  <2> QED BY <2>1
<1>4. \A p \in P : \A x \in p[2] : f[x] = p[1][x]
  <2> SUFFICES ASSUME NEW p \in P, NEW x \in p[2] PROVE f[x] = p[1][x]
    OBVIOUS
  <2>1. x \in A /\ x \in S
    BY <1>2
  <2>2. Of(x) \in P /\ x \in Of(x)[2]
    BY <1>1, <2>1
  <2>3. PICK q \in P : q = Of(x)
    BY <2>2
  <2>4. Follows(q[1], q[2], S, T, Sub, G) /\ Follows(p[1], p[2], S, T, Sub, G)
    BY <1>2
  <2>5. q[1][x] = p[1][x]
    BY <2>2, <2>3, <2>4, FollowsAgree
  <2>6. f[x] = Of(x)[1][x]
    BY <2>1
  <2> QED BY <2>3, <2>5, <2>6
<1> HIDE DEF f
<1>5. Follows(f, A, S, T, Sub, G)
  <2>1. SUFFICES ASSUME NEW x \in A PROVE Sub[x] \subseteq A /\ f[x] = G[<<x, f>>]
    BY <1>3 DEF Follows
  <2>2. PICK p \in P : x \in p[2]
    OBVIOUS
  <2>3. p[1] \in [S -> T] /\ p[2] \subseteq A /\ x \in S
    BY <1>2
  <2>4. Sub[x] \subseteq p[2] /\ p[1][x] = G[<<x, p[1]>>]
    BY <1>2, <2>2 DEF Follows
  <2>5. \A y \in Sub[x] : f[y] = p[1][y]
    BY <1>4, <2>4
  <2>6. G[<<x, f>>] = G[<<x, p[1]>>]
    BY <1>3, <2>3, <2>5 DEF Local
  <2> QED BY <1>4, <2>2, <2>3, <2>4, <2>6
<1>6. A = S
  <2>1. SUFFICES ASSUME S \ A # {} PROVE FALSE
    OBVIOUS
  <2>2. PICK x \in S \ A : Sub[x] \cap (S \ A) = {}
    BY <2>1 DEF Grounded
  <2>3. Sub[x] \subseteq A /\ x \notin A /\ x \in S
    BY <2>2 DEF Grounded
  <2> DEFINE g == [f EXCEPT ![x] = G[<<x, f>>]]
             D == A \cup {x}
  <2>4. G[<<x, f>>] \in T
    BY <1>3, <2>3 DEF Local
  <2>5. g \in [S -> T] /\ D \in SUBSET S /\ g[x] = G[<<x, f>>] /\ \A y \in A : g[y] = f[y]
    BY <1>3, <2>3, <2>4
  <2> HIDE DEF g
  <2>6. \A y \in D : Sub[y] \subseteq A
    BY <1>5, <2>3 DEF Follows
  <2>7. \A y \in D : G[<<y, g>>] = G[<<y, f>>]
    <3> SUFFICES ASSUME NEW y \in D PROVE G[<<y, g>>] = G[<<y, f>>]
      OBVIOUS
    <3>1. y \in S /\ \A z \in Sub[y] : g[z] = f[z]
      BY <2>5, <2>6
    <3> QED BY <1>3, <2>5, <3>1 DEF Local
  <2>8. \A y \in D : g[y] = G[<<y, g>>]
    <3> SUFFICES ASSUME NEW y \in D PROVE g[y] = G[<<y, g>>]
      OBVIOUS
    <3>1. CASE y = x
      BY <2>5, <2>7, <3>1
    <3>2. CASE y \in A
      <4>1. f[y] = G[<<y, f>>]
        BY <1>5, <3>2 DEF Follows
      <4> QED BY <2>5, <2>7, <3>2, <4>1
    <3> QED BY <3>1, <3>2
  <2>9. Follows(g, D, S, T, Sub, G)
    BY <2>5, <2>6, <2>8 DEF Follows
  <2>10. <<g, D>> \in P
    BY <2>5, <2>9
  <2>11. x \in A
    <3>1. PICK p \in P : p[2] = D
      BY <2>10
    <3> QED BY <2>3, <3>1
  <2> QED BY <2>3, <2>11
<1>7. \A x \in S : f[x] = G[<<x, f>>]
  <2>1. Follows(f, S, S, T, Sub, G)
    BY <1>5, <1>6
  <2> HIDE DEF A, P
  <2> QED BY <2>1 DEF Follows
<1> QED BY <1>3, <1>7 DEF Solution

\* A set of numbers has a least one.
LEMMA LeastNumber ==
  ASSUME NEW X, X \subseteq Nat, X # {}
  PROVE  \E m \in X : \A n \in X : m <= n
<1> DEFINE R == {ss \in Nat \X Nat : ss[1] < ss[2]}
<1>1. IsWellFoundedOn(R, Nat)
  BY NatLessThanWellFounded DEF OpToRel
<1>2. \A x, y \in Nat : <<y, x>> \in R <=> y < x
  OBVIOUS
<1> HIDE DEF R
<1>3. PICK m \in X : \A y \in X : ~(<<y, m>> \in R)
  BY <1>1, WFMin, Zenon
<1>4. \A y \in X : ~(y < m)
  BY <1>2, <1>3
<1> QED BY <1>4

\* An order with a rank in the numbers is grounded.
LEMMA RankGrounds ==
  ASSUME NEW S, NEW Sub \in [S -> SUBSET S], NEW rank \in [S -> Nat],
         \A x \in S : \A y \in Sub[x] : rank[y] < rank[x]
  PROVE  Grounded(S, Sub)
<1> SUFFICES ASSUME NEW X \in SUBSET S, X # {} PROVE \E x \in X : Sub[x] \cap X = {}
  BY DEF Grounded
<1> DEFINE N == {rank[x] : x \in X}
<1>1. N \subseteq Nat /\ N # {}
  OBVIOUS
<1>2. PICK m \in N : \A n \in N : m <= n
  BY <1>1, LeastNumber
<1>3. PICK x \in X : rank[x] = m
  OBVIOUS
<1>4. \A y \in X : rank[x] <= rank[y]
  BY <1>2, <1>3
<1>5. \A y \in Sub[x] : y \in S /\ rank[y] \in Nat /\ rank[x] \in Nat /\ rank[y] < rank[x]
  OBVIOUS
<1> QED BY <1>4, <1>5

\* The numbers up to n, each after the one below it.
Before(n) == [k \in 0 .. n |-> {j \in 0 .. n : j < k}]

\* The numbers up to n, the sets that shrink and the sets that grow are grounded.
LEMMA NumbersGrounded == ASSUME NEW n \in Nat PROVE Grounded(0 .. n, Before(n))
<1>1. [k \in 0 .. n |-> k] \in [0 .. n -> Nat]
  OBVIOUS
<1>2. PICK rank \in [0 .. n -> Nat] : \A k \in 0 .. n : rank[k] = k
  BY <1>1
<1>3. Before(n) \in [0 .. n -> SUBSET (0 .. n)] /\ \A k \in 0 .. n : \A j \in Before(n)[k] : rank[j] < rank[k]
  BY <1>2 DEF Before
<1> QED BY <1>3, RankGrounds

\* The parts of a finite set, each after its own parts.
Parts(F) == [U \in SUBSET F |-> {V \in SUBSET F : V \subseteq U /\ V # U}]

LEMMA PartsGrounded == ASSUME NEW F, IsFiniteSet(F) PROVE Grounded(SUBSET F, Parts(F))
<1> DEFINE rank == [U \in SUBSET F |-> Cardinality(U)]
<1>1. \A U \in SUBSET F : IsFiniteSet(U) /\ Cardinality(U) \in Nat
  BY FS_Subset, FS_CardinalityType
<1>2. rank \in [SUBSET F -> Nat] /\ \A U \in SUBSET F : rank[U] = Cardinality(U)
  BY <1>1
<1> HIDE DEF rank
<1>3. \A U \in SUBSET F : \A V \in Parts(F)[U] : rank[V] < rank[U]
  <2> SUFFICES ASSUME NEW U \in SUBSET F, NEW V \in Parts(F)[U] PROVE rank[V] < rank[U]
    OBVIOUS
  <2>1. V \in SUBSET F /\ V \in SUBSET U /\ V # U
    BY DEF Parts
  <2>2. Cardinality(V) <= Cardinality(U) /\ Cardinality(V) # Cardinality(U)
    BY <1>1, <2>1, FS_Subset
  <2> QED BY <1>1, <1>2, <2>1, <2>2
<1>4. Parts(F) \in [SUBSET F -> SUBSET (SUBSET F)]
  BY DEF Parts
<1> QED BY <1>2, <1>3, <1>4, RankGrounds

\* The parts of a finite set, each after the larger ones.
Larger(F) == [U \in SUBSET F |-> {V \in SUBSET F : U \subseteq V /\ V # U}]

LEMMA LargerGrounded == ASSUME NEW F, IsFiniteSet(F) PROVE Grounded(SUBSET F, Larger(F))
<1> DEFINE rank == [U \in SUBSET F |-> Cardinality(F) - Cardinality(U)]
<1>1. \A U \in SUBSET F : IsFiniteSet(U) /\ Cardinality(U) \in Nat /\ Cardinality(U) <= Cardinality(F)
  BY FS_Subset, FS_CardinalityType
<1>0. Cardinality(F) \in Nat
  BY FS_CardinalityType
<1>2. rank \in [SUBSET F -> Nat] /\ \A U \in SUBSET F : rank[U] = Cardinality(F) - Cardinality(U)
  BY <1>0, <1>1
<1> HIDE DEF rank
<1>3. \A U \in SUBSET F : \A V \in Larger(F)[U] : rank[V] < rank[U]
  <2> SUFFICES ASSUME NEW U \in SUBSET F, NEW V \in Larger(F)[U] PROVE rank[V] < rank[U]
    OBVIOUS
  <2>1. V \in SUBSET F /\ U \in SUBSET V /\ V # U
    BY DEF Larger
  <2>2. Cardinality(U) <= Cardinality(V) /\ Cardinality(V) # Cardinality(U)
    BY <1>1, <2>1, FS_Subset
  <2> QED BY <1>0, <1>1, <1>2, <2>1, <2>2
<1>4. Larger(F) \in [SUBSET F -> SUBSET (SUBSET F)]
  BY DEF Larger
<1> QED BY <1>2, <1>3, <1>4, RankGrounds

\* What has each element that it has all before of has every element.
LEMMA GroundInduction ==
  ASSUME NEW S, NEW Sub, Grounded(S, Sub), NEW P, \A x \in S : Sub[x] \subseteq P => x \in P
  PROVE  S \subseteq P
<1> SUFFICES ASSUME S \ P # {} PROVE FALSE
  OBVIOUS
<1>1. PICK x \in S \ P : Sub[x] \cap (S \ P) = {}
  BY DEF Grounded
<1>2. Sub[x] \subseteq P
  BY <1>1 DEF Grounded
<1> QED BY <1>1, <1>2

-----------------------------------------------------------------------------
(* The items and what they reach. *)

Children == [i \in Item |-> Range(Entries[i])]

LEMMA RangeOf == ASSUME NEW s, NEW T, s \in Seq(T) PROVE Range(s) = {s[k] : k \in 1 .. Len(s)} /\ Range(s) \subseteq T
<1>1. DOMAIN s = 1 .. Len(s) /\ \A k \in 1 .. Len(s) : s[k] \in T
  OBVIOUS
<1> QED BY <1>1 DEF Range

LEMMA EntriesType ==
  \A i \in Item : Entries[i] \in Seq(Item) /\ Range(Entries[i]) \subseteq Item /\ Children[i] = Range(Entries[i])
BY EntriesAssumption, RangeOf DEF Children

\* No object is below itself, thus a walk down the entries ends.
LEMMA ItemsGrounded == Grounded(Item, Children)
<1>1. Children \in [Item -> SUBSET Item]
  BY EntriesType DEF Children
<1> SUFFICES ASSUME NEW X \in SUBSET Item, X # {} PROVE \E x \in X : Children[x] \cap X = {}
  BY <1>1 DEF Grounded
<1>2. CASE X \cap Chunk # {}
  <2>1. PICK c \in X \cap Chunk : TRUE
    BY <1>2
  <2>2. c \in Item /\ Entries[c] = << >> /\ Children[c] = Range(Entries[c])
    BY EntriesAssumption, EntriesType
  <2>3. Children[c] = {}
    BY <2>2 DEF Range
  <2> QED BY <2>1, <2>3
<1>3. CASE X \cap Chunk = {}
  <2>1. X \in (SUBSET Meta) \ {{}}
    BY <1>3 DEF Item
  <2>2. PICK i \in X : Range(Entries[i]) \cap X = {}
    BY <2>1, EntriesAssumption
  <2> QED BY <2>2, EntriesType
<1> QED BY <1>2, <1>3

\* Reach follows its recursive definition.
LEMMA ReachType ==
  /\ Reach \in [Item -> SUBSET Item]
  /\ \A i \in Item : Reach[i] = {i} \cup UNION {Reach[j] : j \in Range(Entries[i])}
<1> DEFINE T == SUBSET Item
           G == [a \in Item \X [Item -> T] |-> {a[1]} \cup UNION {a[2][j] : j \in Range(Entries[a[1]])}]
<1>1. Local(Item, T, Children, G)
  <2>1. \A a \in Item \X [Item -> T] : {a[1]} \cup UNION {a[2][j] : j \in Range(Entries[a[1]])} \in T
    <3> TAKE a \in Item \X [Item -> T]
    <3>1. a[1] \in Item /\ a[2] \in [Item -> T] /\ Range(Entries[a[1]]) \subseteq Item
      BY EntriesType
    <3> QED BY <3>1
  <2>2. ASSUME NEW x \in Item, NEW f \in [Item -> T], NEW g \in [Item -> T],
               \A y \in Children[x] : f[y] = g[y]
        PROVE  G[<<x, f>>] = G[<<x, g>>]
    <3>1. {f[j] : j \in Range(Entries[x])} = {g[j] : j \in Range(Entries[x])}
      BY <2>2, EntriesType
    <3>2. G[<<x, f>>] = {x} \cup UNION {f[j] : j \in Range(Entries[x])}
      OBVIOUS
    <3>3. G[<<x, g>>] = {x} \cup UNION {g[j] : j \in Range(Entries[x])}
      OBVIOUS
    <3> QED BY <3>1, <3>2, <3>3
  <2> QED BY <2>1, <2>2 DEF Local
<1> DEFINE E(h) == [i \in Item |-> {i} \cup UNION {h[j] : j \in Range(Entries[i])}]
<1>2. \E f : Solution(f, Item, T, G)
  <2>1. T # {}
    OBVIOUS
  <2> HIDE DEF G, T
  <2> QED BY <1>1, <2>1, ItemsGrounded, RecursionExists
<1>3. PICK f : Solution(f, Item, T, G)
  BY <1>2, Zenon
<1>4. f = E(f)
  <2>0. f \in [Item -> T]
    BY <1>3 DEF Solution
  <2>1. \A x \in Item : G[<<x, f>>] = {x} \cup UNION {f[j] : j \in Range(Entries[x])}
    BY <2>0
  <2> HIDE DEF G
  <2> QED BY <1>3, <2>1 DEF Solution
<1>40. Reach = CHOOSE h : h = E(h)
  BY Zenon DEF Reach
<1> HIDE DEF T, G, E
<1>5. Reach = E(Reach)
  BY <1>4, <1>40, Zenon
<1>6. \A i \in Item : Reach[i] = {i} \cup UNION {Reach[j] : j \in Range(Entries[i])}
  BY <1>5, Zenon DEF E
<1> DEFINE P == {i \in Item : Reach[i] \in SUBSET Item}
<1>7. \A i \in Item : Children[i] \subseteq P => i \in P
  <2> SUFFICES ASSUME NEW i \in Item, Children[i] \subseteq P PROVE Reach[i] \in SUBSET Item
    OBVIOUS
  <2>1. \A j \in Range(Entries[i]) : Reach[j] \in SUBSET Item
    BY EntriesType
  <2>2. Reach[i] = {i} \cup UNION {Reach[j] : j \in Range(Entries[i])}
    BY <1>6
  <2> HIDE DEF P
  <2> QED BY <2>1, <2>2
<1>8. Item \subseteq P
  <2> HIDE DEF P
  <2> QED BY <1>7, ItemsGrounded, GroundInduction
<1>9. \A i \in Item : Reach[i] \in SUBSET Item
  BY <1>8
<1>10. Reach \in [Item -> SUBSET Item]
  <2>1. \A i \in Item : {i} \cup UNION {Reach[j] : j \in Range(Entries[i])} \in SUBSET Item
    BY <1>6, <1>9
  <2> QED BY <1>5, <2>1 DEF E
<1> QED BY <1>6, <1>10

\* What an item reaches has all that it names.
LEMMA ReachCloses ==
  ASSUME NEW i \in Item, NEW j \in Range(Entries[i])
  PROVE  j \in Item /\ i \in Reach[i] /\ Reach[j] \subseteq Reach[i] /\ j \in Reach[i]
<1>1. j \in Item
  BY EntriesType
<1>2. Reach[i] = {i} \cup UNION {Reach[k] : k \in Range(Entries[i])} /\ j \in Reach[j]
  BY <1>1, ReachType
<1> QED BY <1>1, <1>2

LEMMA ReachSelf == \A i \in Item : i \in Reach[i] /\ Reach[i] \subseteq Item
BY ReachType

\* A set that has i and, of each of its items, the entries has all that i reaches.
LEMMA ReachIsLeast ==
  ASSUME NEW Z, \A x \in Z \cap Item : Range(Entries[x]) \subseteq Z
  PROVE  \A i \in Item : i \in Z => Reach[i] \subseteq Z
<1> DEFINE P == {i \in Item : i \in Z => Reach[i] \subseteq Z}
<1>1. \A i \in Item : Children[i] \subseteq P => i \in P
  <2> SUFFICES ASSUME NEW i \in Item, Children[i] \subseteq P, i \in Z PROVE Reach[i] \subseteq Z
    OBVIOUS
  <2>1. \A j \in Range(Entries[i]) : j \in P /\ j \in Z
    BY EntriesType
  <2>2. \A j \in Range(Entries[i]) : Reach[j] \subseteq Z
    BY <2>1
  <2>3. Reach[i] = {i} \cup UNION {Reach[k] : k \in Range(Entries[i])}
    BY ReachType
  <2> HIDE DEF P
  <2> QED BY <2>2, <2>3
<1>2. Item \subseteq P
  <2> HIDE DEF P
  <2> QED BY <1>1, ItemsGrounded, GroundInduction
<1> QED BY <1>2

-----------------------------------------------------------------------------
(* The visit of an item. *)

Outcome == [w : Walk, cause : Cause]
Visits == [Item -> [Walk -> Outcome]]

VisitsOf(visit, entries) == \A j \in Range(entries) : visit[j] \in [Walk -> Outcome]

\* b has the outcome after each of the first entries.
Steps(b, w, entries, visit) ==
  /\ b \in [0 .. Len(entries) -> Outcome]
  /\ b[0] = [w |-> w, cause |-> NoCause]
  /\ \A k \in 1 .. Len(entries) : b[k] = Then(b[k - 1], entries[k], visit)

LEMMA CauseType == NoCause \in Cause /\ NoCause \notin Item /\ Item \subseteq Cause
BY OrderAssumption DEF NoCause, Cause

LEMMA ThenType ==
  ASSUME NEW a \in Outcome, NEW visit, NEW j, visit[j] \in [Walk -> Outcome]
  PROVE  /\ Then(a, j, visit) \in Outcome
         /\ Then(a, j, visit).w = visit[j][a.w].w
         /\ Then(a, j, visit).cause = IF a.cause = NoCause THEN visit[j][a.w].cause ELSE a.cause
<1>1. a.w \in Walk /\ a.cause \in Cause
  BY DEF Outcome
<1>2. visit[j][a.w] \in Outcome
  BY <1>1
<1> HIDE DEF Walk
<1> QED BY <1>1, <1>2 DEF Then, Outcome

\* The visits of the entries follow their recursive definition.
LEMMA BelowIs ==
  ASSUME NEW w \in Walk, NEW entries \in Seq(Item), NEW visit, VisitsOf(visit, entries)
  PROVE  \E b : Steps(b, w, entries, visit) /\ Below(w, entries, visit) = b[Len(entries)]
<1> DEFINE N == 0 .. Len(entries)
           start == [w |-> w, cause |-> NoCause]
           E(h) == [k \in 0 .. Len(entries) |->
                      IF k = 0 THEN [w |-> w, cause |-> NoCause] ELSE Then(h[k - 1], entries[k], visit)]
           G == [a \in N \X [N -> Outcome] |->
                   IF a[1] = 0 THEN start ELSE Then(a[2][a[1] - 1], entries[a[1]], visit)]
<1>1. Len(entries) \in Nat /\ \A k \in 1 .. Len(entries) : visit[entries[k]] \in [Walk -> Outcome]
  BY RangeOf DEF VisitsOf
<1>2. start \in Outcome
  BY CauseType DEF Outcome
<1>3. \A k \in N, f \in [N -> Outcome] :
        G[<<k, f>>] = IF k = 0 THEN start ELSE Then(f[k - 1], entries[k], visit)
  OBVIOUS
<1>4. \A k \in N, f \in [N -> Outcome] : k # 0 => Then(f[k - 1], entries[k], visit) \in Outcome
  <2> SUFFICES ASSUME NEW k \in N, NEW f \in [N -> Outcome], k # 0
               PROVE  Then(f[k - 1], entries[k], visit) \in Outcome
    OBVIOUS
  <2>1. f[k - 1] \in Outcome /\ visit[entries[k]] \in [Walk -> Outcome]
    BY <1>1
  <2> QED BY <2>1, ThenType
<1> HIDE DEF start
<1>5. Local(N, Outcome, Before(Len(entries)), G)
  <2>1. G \in [N \X [N -> Outcome] -> Outcome]
    <3>1. \A a \in N \X [N -> Outcome] :
            (IF a[1] = 0 THEN start ELSE Then(a[2][a[1] - 1], entries[a[1]], visit)) \in Outcome
      BY <1>2, <1>4
    <3> QED BY <3>1
  <2>2. ASSUME NEW k \in N, NEW f \in [N -> Outcome], NEW g \in [N -> Outcome],
               \A y \in Before(Len(entries))[k] : f[y] = g[y]
        PROVE  G[<<k, f>>] = G[<<k, g>>]
    <3>1. k # 0 => f[k - 1] = g[k - 1]
      BY <1>1, <2>2 DEF Before
    <3> HIDE DEF G
    <3> QED BY <1>3, <3>1
  <2> HIDE DEF G, N
  <2> QED BY <2>1, <2>2 DEF Local
<1>6. Grounded(N, Before(Len(entries)))
  BY <1>1, NumbersGrounded
<1>7. PICK b : Solution(b, N, Outcome, G)
  <2> HIDE DEF G, N
  <2>1. Outcome # {}
    BY <1>2
  <2> QED BY <1>5, <1>6, <2>1, RecursionExists
<1>8. b \in [N -> Outcome] /\ \A k \in N : b[k] = IF k = 0 THEN start ELSE Then(b[k - 1], entries[k], visit)
  <2>1. b \in [N -> Outcome]
    BY <1>7 DEF Solution
  <2> HIDE DEF G
  <2> QED BY <1>3, <1>7, <2>1 DEF Solution
<1>9. b = E(b)
  BY <1>8 DEF start
<1>10. Below(w, entries, visit) = (CHOOSE h : h = E(h))[Len(entries)]
  BY Zenon DEF Below
<1> HIDE DEF E, G
<1>11. (CHOOSE h : h = E(h)) = E(CHOOSE h : h = E(h))
  BY <1>9, Zenon
<1>12. ASSUME NEW h, h = E(h) PROVE Steps(h, w, entries, visit)
  <2>1. h = [k \in 0 .. Len(entries) |-> IF k = 0 THEN start ELSE Then(h[k - 1], entries[k], visit)]
    BY <1>12, Zenon DEF E, start
  <2>2. \A k \in N : h[k] = IF k = 0 THEN start ELSE Then(h[k - 1], entries[k], visit)
    BY <2>1
  <2> DEFINE P == {k \in N : h[k] \in Outcome}
  <2>3. \A k \in N : Before(Len(entries))[k] \subseteq P => k \in P
    <3> SUFFICES ASSUME NEW k \in N, Before(Len(entries))[k] \subseteq P PROVE h[k] \in Outcome
      OBVIOUS
    <3>1. CASE k = 0
      BY <1>2, <2>2, <3>1
    <3>2. CASE k # 0
      <4>1. k - 1 \in N /\ h[k - 1] \in Outcome /\ visit[entries[k]] \in [Walk -> Outcome]
        BY <1>1, <3>2 DEF Before
      <4> HIDE DEF P, N
      <4> QED BY <2>2, <3>2, <4>1, ThenType
    <3> QED BY <3>1, <3>2
  <2>4. N \subseteq P
    <3> HIDE DEF P, N
    <3> QED BY <1>6, <2>3, GroundInduction
  <2>5. \A k \in N : h[k] \in Outcome
    BY <2>4
  <2>6. h \in [N -> Outcome]
    <3>1. \A k \in N : (IF k = 0 THEN start ELSE Then(h[k - 1], entries[k], visit)) \in Outcome
      BY <2>2, <2>5
    <3> QED BY <2>1, <3>1
  <2>7. 0 \in N /\ \A k \in 1 .. Len(entries) : k \in N /\ k # 0
    BY <1>1
  <2> QED BY <2>2, <2>6, <2>7 DEF Steps, start
<1> QED
  <2> DEFINE h == CHOOSE x : x = E(x)
  <2>1. h = E(h) /\ Below(w, entries, visit) = h[Len(entries)]
    BY <1>10, <1>11
  <2> HIDE DEF h
  <2> QED BY <1>12, <2>1

\* Two visits that agree on the entries give one outcome.
LEMMA BelowLocal ==
  ASSUME NEW w \in Walk, NEW entries \in Seq(Item), NEW f, NEW g,
         VisitsOf(f, entries), VisitsOf(g, entries),
         \A j \in Range(entries) : f[j] = g[j]
  PROVE  Below(w, entries, f) = Below(w, entries, g)
<1> DEFINE N == 0 .. Len(entries)
<1>1. PICK b : Steps(b, w, entries, f) /\ Below(w, entries, f) = b[Len(entries)]
  BY BelowIs
<1>2. PICK c : Steps(c, w, entries, g) /\ Below(w, entries, g) = c[Len(entries)]
  BY BelowIs
<1>3. Len(entries) \in Nat
  OBVIOUS
<1> DEFINE P == {k \in N : b[k] = c[k]}
<1>4. \A k \in N : Before(Len(entries))[k] \subseteq P => k \in P
  <2> SUFFICES ASSUME NEW k \in N, Before(Len(entries))[k] \subseteq P PROVE b[k] = c[k]
    OBVIOUS
  <2>1. CASE k = 0
    BY <1>1, <1>2, <2>1 DEF Steps
  <2>2. CASE k # 0
    <3>1. b[k - 1] = c[k - 1] /\ k \in 1 .. Len(entries)
      BY <1>3, <2>2 DEF Before
    <3>2. f[entries[k]] = g[entries[k]]
      BY <3>1, RangeOf
    <3>3. b[k] = Then(b[k - 1], entries[k], f) /\ c[k] = Then(c[k - 1], entries[k], g)
      BY <1>1, <1>2, <3>1 DEF Steps
    <3> QED BY <3>1, <3>2, <3>3 DEF Then
  <2> QED BY <2>1, <2>2
<1>5. N \subseteq P
  <2>1. Grounded(N, Before(Len(entries)))
    BY <1>3, NumbersGrounded
  <2> HIDE DEF P, N
  <2> QED BY <1>4, <2>1, GroundInduction
<1>6. b[Len(entries)] = c[Len(entries)]
  BY <1>3, <1>5
<1> QED BY <1>1, <1>2, <1>6

LEMMA BelowType ==
  ASSUME NEW w \in Walk, NEW entries \in Seq(Item), NEW visit, VisitsOf(visit, entries)
  PROVE  Below(w, entries, visit) \in Outcome
<1>1. PICK b : Steps(b, w, entries, visit) /\ Below(w, entries, visit) = b[Len(entries)]
  BY BelowIs
<1>2. Len(entries) \in 0 .. Len(entries)
  OBVIOUS
<1> QED BY <1>1, <1>2 DEF Steps

WalkFields(w) ==
  /\ w.seen \in SUBSET Item /\ w.bad \in [Item -> Cause] /\ w.units \in Seq(Unit)
  /\ w.staged \in SUBSET Item /\ w.want \in SUBSET Item /\ w.damaged \in SUBSET Item
  /\ w.underDisc \in BOOLEAN

BadAt(w, i, c) == [w EXCEPT !.want = @ \ {i}, !.bad[i] = c]

\* What Passed, MarkBad and Take make of a walk.
LEMMA PassedIs ==
  ASSUME NEW w \in Walk, NEW i \in Item
  PROVE  /\ Passed(w, i) \in Outcome /\ Passed(w, i).cause = NoCause
         /\ Passed(w, i).w = [w EXCEPT !.seen = w.seen \cup {i}]
<1>1. [w EXCEPT !.seen = w.seen \cup {i}] \in Walk
  BY DEF Walk
<1> HIDE DEF Walk
<1> QED BY <1>1, CauseType DEF Passed, Outcome

LEMMA MarkBadIs ==
  ASSUME NEW w \in Walk, NEW i \in Item, NEW c \in Cause
  PROVE  /\ MarkBad(w, i, c) \in Outcome /\ MarkBad(w, i, c).cause = c
         /\ MarkBad(w, i, c).w = BadAt(w, i, c)
<1>1. BadAt(w, i, c) \in Walk
  BY DEF Walk, BadAt
<1>2. MarkBad(w, i, c) = [w |-> BadAt(w, i, c), cause |-> c]
  BY DEF MarkBad, BadAt
<1> HIDE DEF Walk
<1> QED BY <1>1, <1>2, CauseType DEF Outcome

UnitOf(i) == [id |-> i, size |-> Size[i], children |-> {j \in Range(Entries[i]) : OnDisc(j)}]

LEMMA UnitType == \A i \in Item : UnitOf(i) \in Unit
<1> TAKE i \in Item
<1>1. Size[i] \in Nat /\ {j \in Range(Entries[i]) : OnDisc(j)} \in SUBSET Item
  BY OrderAssumption, EntriesType
<1> QED BY <1>1 DEF Unit, UnitOf

LEMMA TakeIs ==
  ASSUME NEW w \in Walk, NEW i \in Item
  PROVE  /\ Take(w, i) \in Outcome /\ Take(w, i).cause = NoCause
         /\ Take(w, i).w = [w EXCEPT !.want = w.want \ {i}, !.seen = w.seen \cup {i},
                                     !.units = Append(w.units, UnitOf(i))]
<1> DEFINE v == [w EXCEPT !.want = @ \ {i}, !.units = Append(@, UnitOf(i))]
<1>0. Append(w.units, UnitOf(i)) \in Seq(Unit)
  <2>1. w.units \in Seq(Unit) /\ UnitOf(i) \in Unit
    BY UnitType DEF Walk
  <2> HIDE DEF Unit
  <2> QED BY <2>1
<1>1. v \in Walk /\ v.seen = w.seen
  BY <1>0 DEF Walk
<1>2. [v EXCEPT !.seen = v.seen \cup {i}] = [w EXCEPT !.want = w.want \ {i}, !.seen = w.seen \cup {i},
                                                     !.units = Append(w.units, UnitOf(i))]
  BY DEF Walk
<1>3. Take(w, i) = Passed(v, i)
  BY DEF Take, UnitOf
<1> HIDE DEF v
<1> QED BY <1>1, <1>2, <1>3, PassedIs

\* The cases of a visit.
LEMMA VisitedCases ==
  ASSUME NEW w \in Walk, NEW i \in Item, NEW role, NEW b \in Outcome
  PROVE  LET v == Visited(w, i, role, b) IN
         /\ v \in Outcome
         /\ w.bad[i] # NoCause => v = [w |-> w, cause |-> w.bad[i]]
         /\ w.bad[i] = NoCause /\ (i \in w.seen \/ role = "unknown") => v = [w |-> w, cause |-> NoCause]
         /\ w.bad[i] = NoCause /\ i \notin w.seen /\ role # "unknown" =>
              IF role = "disc"
              THEN IF i \in Chunk \/ w.want = {} \/ Unreadable(w, i) THEN v = Passed(w, i)
                   ELSE v.w = Passed(b.w, i).w /\ v.cause = b.cause
              ELSE v = IF Unreadable(w, i) THEN MarkBad(w, i, i)
                       ELSE IF b.cause # NoCause THEN MarkBad(b.w, i, b.cause) ELSE Take(b.w, i)
<1>1. b.w \in Walk /\ b.cause \in Cause /\ w.bad[i] \in Cause
  BY DEF Outcome, Walk
<1>2. /\ Passed(w, i) \in Outcome /\ Passed(b.w, i) \in Outcome /\ MarkBad(w, i, i) \in Outcome
      /\ MarkBad(b.w, i, b.cause) \in Outcome /\ Take(b.w, i) \in Outcome
  BY <1>1, CauseType, PassedIs, MarkBadIs, TakeIs
<1>3. /\ [w |-> w, cause |-> w.bad[i]] \in Outcome /\ [w |-> w, cause |-> NoCause] \in Outcome
      /\ [Passed(b.w, i) EXCEPT !.cause = b.cause] \in Outcome
      /\ [Passed(b.w, i) EXCEPT !.cause = b.cause].w = Passed(b.w, i).w
      /\ [Passed(b.w, i) EXCEPT !.cause = b.cause].cause = b.cause
  <2> HIDE DEF Walk
  <2> QED BY <1>1, <1>2, CauseType DEF Outcome
<1> HIDE DEF Walk, Outcome
<1> QED BY <1>2, <1>3 DEF Visited

\* The visit of an item follows its recursive definition.
LEMMA VisitIs ==
  /\ Visit \in Visits
  /\ \A i \in Item : \A w \in Walk :
       Visit[i][w] = Visited(w, i, Role(w, i), Below(w, Entries[i], Visit))
<1> DEFINE T == [Walk -> Outcome]
           E(h) == [i \in Item |-> [w \in Walk |-> Visited(w, i, Role(w, i), Below(w, Entries[i], h))]]
           G == [a \in Item \X [Item -> T] |->
                   [w \in Walk |-> Visited(w, a[1], Role(w, a[1]), Below(w, Entries[a[1]], a[2]))]]
<1>1. \A i \in Item, h \in Visits, w \in Walk :
        /\ Below(w, Entries[i], h) \in Outcome
        /\ Visited(w, i, Role(w, i), Below(w, Entries[i], h)) \in Outcome
  <2> TAKE i \in Item, h \in Visits, w \in Walk
  <2>1. Below(w, Entries[i], h) \in Outcome
    BY BelowType, EntriesType DEF VisitsOf, Visits
  <2> QED BY <2>1, VisitedCases
<1>2. \A i \in Item, f \in Visits :
        G[<<i, f>>] = [w \in Walk |-> Visited(w, i, Role(w, i), Below(w, Entries[i], f))]
  BY DEF Visits
<1>3. Local(Item, T, Children, G)
  <2>1. G \in [Item \X [Item -> T] -> T]
    <3>1. \A a \in Item \X [Item -> T] :
            [w \in Walk |-> Visited(w, a[1], Role(w, a[1]), Below(w, Entries[a[1]], a[2]))] \in T
      <4> TAKE a \in Item \X [Item -> T]
      <4>1. a[1] \in Item /\ a[2] \in Visits
        BY DEF Visits
      <4> QED BY <1>1, <4>1
    <3> QED BY <3>1
  <2>2. ASSUME NEW i \in Item, NEW f \in [Item -> T], NEW g \in [Item -> T],
               \A y \in Children[i] : f[y] = g[y]
        PROVE  G[<<i, f>>] = G[<<i, g>>]
    <3>1. f \in Visits /\ g \in Visits /\ \A j \in Range(Entries[i]) : f[j] = g[j]
      BY <2>2, EntriesType DEF Visits
    <3>2. \A w \in Walk : Below(w, Entries[i], f) = Below(w, Entries[i], g)
      BY <3>1, BelowLocal, EntriesType DEF VisitsOf, Visits
    <3>3. [w \in Walk |-> Visited(w, i, Role(w, i), Below(w, Entries[i], f))]
            = [w \in Walk |-> Visited(w, i, Role(w, i), Below(w, Entries[i], g))]
      BY <3>2
    <3> HIDE DEF G
    <3> QED BY <1>2, <3>1, <3>3
  <2> HIDE DEF G, T
  <2> QED BY <2>1, <2>2 DEF Local
<1>4. \E f : Solution(f, Item, T, G)
  <2>1. T # {}
    <3>1. \A w \in Walk : [w |-> w, cause |-> NoCause] \in Outcome
      BY CauseType DEF Outcome
    <3>2. [w \in Walk |-> [w |-> w, cause |-> NoCause]] \in T
      BY <3>1
    <3> QED BY <3>2
  <2> HIDE DEF G, T
  <2> QED BY <1>3, <2>1, ItemsGrounded, RecursionExists
<1>5. PICK f : Solution(f, Item, T, G)
  BY <1>4, Zenon
<1>6. f \in Visits
  BY <1>5 DEF Solution, Visits
<1>7. f = E(f)
  <2>1. f \in [Item -> T] /\ \A i \in Item : f[i] = G[<<i, f>>]
    BY <1>5 DEF Solution
  <2>2. \A i \in Item : f[i] = [w \in Walk |-> Visited(w, i, Role(w, i), Below(w, Entries[i], f))]
    <3> HIDE DEF G
    <3> QED BY <1>2, <1>6, <2>1
  <2> HIDE DEF G, T
  <2> QED BY <2>1, <2>2
<1>8. Visit = CHOOSE h : h = E(h)
  BY Zenon DEF Visit
<1> HIDE DEF T, G, E
<1>9. Visit = E(Visit)
  BY <1>7, <1>8, Zenon
<1>10. Visit = [i \in Item |-> [w \in Walk |-> Visited(w, i, Role(w, i), Below(w, Entries[i], Visit))]]
  BY <1>9, Zenon DEF E
<1>11. \A i \in Item : Visit[i] = [w \in Walk |-> Visited(w, i, Role(w, i), Below(w, Entries[i], Visit))]
  BY <1>10, Zenon
<1> DEFINE P == {i \in Item : Visit[i] \in [Walk -> Outcome]}
<1>12. \A i \in Item : Children[i] \subseteq P => i \in P
  <2> SUFFICES ASSUME NEW i \in Item, Children[i] \subseteq P PROVE Visit[i] \in [Walk -> Outcome]
    OBVIOUS
  <2>1. VisitsOf(Visit, Entries[i])
    BY EntriesType DEF VisitsOf
  <2>2. \A w \in Walk : Visited(w, i, Role(w, i), Below(w, Entries[i], Visit)) \in Outcome
    <3> TAKE w \in Walk
    <3>1. Below(w, Entries[i], Visit) \in Outcome
      BY <2>1, BelowType, EntriesType
    <3> QED BY <3>1, VisitedCases
  <2>3. [w \in Walk |-> Visited(w, i, Role(w, i), Below(w, Entries[i], Visit))] \in [Walk -> Outcome]
    BY <2>2
  <2> HIDE DEF P
  <2> QED BY <1>11, <2>3
<1>13. Item \subseteq P
  <2> HIDE DEF P
  <2> QED BY <1>12, ItemsGrounded, GroundInduction
<1>14. \A i \in Item : Visit[i] \in [Walk -> Outcome]
  BY <1>13
<1>15. Visit \in Visits
  <2>1. \A i \in Item : [w \in Walk |-> Visited(w, i, Role(w, i), Below(w, Entries[i], Visit))] \in [Walk -> Outcome]
    BY <1>11, <1>14
  <2>2. [i \in Item |-> [w \in Walk |-> Visited(w, i, Role(w, i), Below(w, Entries[i], Visit))]] \in [Item -> [Walk -> Outcome]]
    BY <2>1
  <2> QED BY <1>10, <2>2 DEF Visits
<1>16. \A i \in Item : \A w \in Walk : Visit[i][w] = Visited(w, i, Role(w, i), Below(w, Entries[i], Visit))
  BY <1>11
<1> QED BY <1>15, <1>16

-----------------------------------------------------------------------------
(* What a visit leaves of a walk. *)

\* The items below a snapshot that a disc holds.
Hidden == {i \in Item : \E s \in Carried : i \in Reach[s]}

\* An item that a run may leave out when it takes one above it.
Settled(w, j) == OnDisc(j) \/ (j \notin w.staged /\ j \in Hidden)
Unsound(w, j) == ~OnDisc(j) /\ (file[j] # "good" \/ j \in w.damaged)

SameScope(w, v) == v.staged = w.staged /\ v.damaged = w.damaged /\ v.underDisc = w.underDisc

\* The units of w come first in v, and the others are items of U.
Extends(w, v, U) ==
  /\ Len(w.units) <= Len(v.units)
  /\ \A k \in 1 .. Len(w.units) : v.units[k] = w.units[k]
  /\ \A k \in 1 .. Len(v.units) : k <= Len(w.units) \/ v.units[k].id \in U

\* v is the walk w after it has met items of U.
Grows(w, v, U) ==
  /\ SameScope(w, v) /\ Extends(w, v, U)
  /\ w.seen \subseteq v.seen /\ v.seen \subseteq w.seen \cup U
  /\ \A x \in Item : w.bad[x] # NoCause => v.bad[x] # NoCause
  /\ \A x \in Item \ U : v.bad[x] = w.bad[x]
  /\ v.want \subseteq w.want /\ w.want \subseteq v.want \cup Met(v)

TakenUnits(w) ==
  \A k \in 1 .. Len(w.units) :
    /\ w.units[k].id \in w.seen /\ ~OnDisc(w.units[k].id) /\ w.units[k] = UnitOf(w.units[k].id)
    /\ ~Unreadable(w, w.units[k].id)
SeenTaken(w) == \A x \in w.seen : OnDisc(x) \/ \E k \in 1 .. Len(w.units) : w.units[k].id = x
UnitsDiffer(w) == \A k, l \in 1 .. Len(w.units) : w.units[k].id = w.units[l].id => k = l
UnitsClosed(w) ==
  \A k \in 1 .. Len(w.units) : \A j \in Range(Entries[w.units[k].id]) :
    Settled(w, j) \/ \E l \in 1 .. k - 1 : w.units[l].id = j
BadUnsound(w) == \A x \in Item : w.bad[x] # NoCause => \E j \in Reach[x] : Unsound(w, j)
MetCovers(w) ==
  \A x \in Met(w) : ~OnDisc(x) /\ ~Unreadable(w, x) => \A j \in Range(Entries[x]) : Settled(w, j) \/ j \in Met(w)

WalkOK(w) ==
  TakenUnits(w) /\ SeenTaken(w) /\ UnitsDiffer(w) /\ UnitsClosed(w) /\ BadUnsound(w) /\ MetCovers(w)

LEMMA WalkHas == ASSUME NEW w \in Walk PROVE WalkFields(w) /\ Len(w.units) \in Nat /\ \A k \in 1 .. Len(w.units) : w.units[k].id \in Item
<1>1. w.units \in Seq(Unit)
  BY DEF Walk
<1>2. Len(w.units) \in Nat /\ \A k \in 1 .. Len(w.units) : w.units[k] \in Unit
  <2> HIDE DEF Unit
  <2> QED BY <1>1
<1> QED BY <1>2 DEF Walk, WalkFields, Unit

LEMMA MetIs == ASSUME NEW w \in Walk PROVE Met(w) \subseteq Item /\ \A x \in Item : x \in Met(w) <=> x \in w.seen \/ w.bad[x] # NoCause
BY WalkHas DEF Met, WalkFields

LEMMA ScopeKeeps ==
  ASSUME NEW w, NEW v, SameScope(w, v), NEW j
  PROVE  /\ Settled(w, j) <=> Settled(v, j)
         /\ Unsound(w, j) <=> Unsound(v, j)
         /\ Unreadable(w, j) <=> Unreadable(v, j)
         /\ Role(w, j) = Role(v, j)
BY DEF SameScope, Settled, Unsound, Unreadable, Role

LEMMA GrowsMet ==
  ASSUME NEW w \in Walk, NEW v \in Walk, NEW U, Grows(w, v, U)
  PROVE  Met(w) \subseteq Met(v) /\ Met(v) \subseteq Met(w) \cup U
BY MetIs DEF Grows

LEMMA GrowsSelf == ASSUME NEW w \in Walk, NEW U PROVE Grows(w, w, U)
BY WalkHas DEF Grows, SameScope, Extends

LEMMA GrowsWider ==
  ASSUME NEW w, NEW v, NEW U, NEW V, U \subseteq V, Grows(w, v, U)
  PROVE  Grows(w, v, V)
BY DEF Grows, Extends

\* A walk that has grown two times has grown.
LEMMA GrowsOn ==
  ASSUME NEW u \in Walk, NEW v \in Walk, NEW w \in Walk, NEW U, Grows(u, v, U), Grows(v, w, U)
  PROVE  Grows(u, w, U)
<1>1. SameScope(u, w)
  BY DEF Grows, SameScope
<1>2. Extends(u, w, U)
  <2>1. Len(u.units) \in Nat /\ Len(v.units) \in Nat /\ Len(w.units) \in Nat
    BY WalkHas
  <2>2. Extends(u, v, U) /\ Extends(v, w, U)
    BY DEF Grows
  <2>3. Len(u.units) <= Len(w.units) /\ \A k \in 1 .. Len(u.units) : w.units[k] = u.units[k]
    BY <2>1, <2>2 DEF Extends
  <2>4. ASSUME NEW k \in 1 .. Len(w.units) PROVE k <= Len(u.units) \/ w.units[k].id \in U
    <3>1. CASE k \in 1 .. Len(v.units)
      BY <2>2, <3>1 DEF Extends
    <3>2. CASE k \notin 1 .. Len(v.units)
      BY <2>1, <2>2, <3>2 DEF Extends
    <3> QED BY <3>1, <3>2
  <2> QED BY <2>3, <2>4 DEF Extends
<1>3. u.seen \subseteq w.seen /\ w.seen \subseteq u.seen \cup U
  BY DEF Grows
<1>4. \A x \in Item : u.bad[x] # NoCause => w.bad[x] # NoCause
  BY DEF Grows
<1>5. \A x \in Item \ U : w.bad[x] = u.bad[x]
  BY DEF Grows
<1>6. w.want \subseteq u.want /\ u.want \subseteq w.want \cup Met(w)
  BY GrowsMet DEF Grows
<1> QED BY <1>1, <1>2, <1>3, <1>4, <1>5, <1>6 DEF Grows

\* What an item reaches has all that its items name.
LEMMA ReachWithin ==
  ASSUME NEW i \in Item
  PROVE  \A x \in Reach[i] : Range(Entries[x]) \subseteq Reach[i] /\ Reach[x] \subseteq Reach[i]
<1> DEFINE Z == {x \in Item : \A y \in Reach[x] : Range(Entries[y]) \subseteq Reach[x]}
<1>1. \A x \in Item : Children[x] \subseteq Z => x \in Z
  <2> SUFFICES ASSUME NEW x \in Item, Children[x] \subseteq Z, NEW y \in Reach[x]
               PROVE  Range(Entries[y]) \subseteq Reach[x]
    OBVIOUS
  <2>1. CASE y = x
    BY <2>1, ReachCloses
  <2>2. CASE y # x
    <3>1. PICK c \in Range(Entries[x]) : y \in Reach[c]
      BY <2>2, ReachType
    <3>2. c \in Z /\ Reach[c] \subseteq Reach[x]
      BY <3>1, EntriesType, ReachCloses
    <3> QED BY <3>1, <3>2
  <2> QED BY <2>1, <2>2
<1>2. Item \subseteq Z
  <2> HIDE DEF Z
  <2> QED BY <1>1, ItemsGrounded, GroundInduction
<1>3. \A x \in Reach[i] \cap Item : Range(Entries[x]) \subseteq Reach[i]
  BY <1>2
<1>4. \A x \in Item : x \in Reach[i] => Reach[x] \subseteq Reach[i]
  BY <1>3, ReachIsLeast
<1> QED BY <1>3, <1>4, ReachSelf

\* No child of an item reaches the item.
LEMMA Acyclic == ASSUME NEW i \in Item, NEW j \in Range(Entries[i]) PROVE i \notin Reach[j]
<1> DEFINE X == {x \in Item : x \in Reach[i] /\ i \in Reach[x]}
<1> SUFFICES ASSUME i \in Reach[j] PROVE FALSE
  OBVIOUS
<1>1. \A x \in X : Reach[x] \subseteq Reach[i]
  BY ReachWithin
<1>2. i \in X
  BY ReachSelf
<1>3. X \in SUBSET Item /\ X # {}
  BY <1>2
<1>4. PICK x \in X : Children[x] \cap X = {}
  <2> HIDE DEF X
  <2> QED BY <1>3, ItemsGrounded DEF Grounded
<1>5. CASE x = i
  <2>1. j \in X /\ j \in Children[x]
    BY <1>5, ReachCloses, EntriesType
  <2> QED BY <1>4, <2>1
<1>6. CASE x # i
  <2>1. PICK c \in Range(Entries[x]) : i \in Reach[c]
    BY <1>6, ReachType
  <2>2. c \in Item /\ c \in Reach[x] /\ c \in Children[x]
    BY <2>1, ReachCloses, EntriesType
  <2>3. c \in X
    BY <1>1, <2>1, <2>2
  <2> QED BY <1>4, <2>2, <2>3
<1> QED BY <1>5, <1>6

\* What is below a hidden item is hidden.
LEMMA HiddenCloses == ASSUME NEW i \in Hidden PROVE Range(Entries[i]) \subseteq Hidden
<1>1. PICK s \in Carried : i \in Reach[s]
  BY DEF Hidden
<1>2. s \in Item /\ i \in Item
  BY DEF Hidden, Carried, Snaps, Item, Meta
<1>3. Range(Entries[i]) \subseteq Reach[s]
  BY <1>1, <1>2, ReachWithin
<1> QED BY <1>1, <1>2, <1>3, EntriesType DEF Hidden

\* An item of a disc passes.
LEMMA PassedOK ==
  ASSUME NEW w \in Walk, WalkOK(w), NEW i \in Item, OnDisc(i)
  PROVE  LET v == Passed(w, i).w IN v \in Walk /\ Grows(w, v, {i}) /\ WalkOK(v) /\ i \in v.seen
<1> DEFINE v == Passed(w, i).w
<1>1. /\ v \in Walk /\ v.seen = w.seen \cup {i} /\ v.bad = w.bad /\ v.units = w.units /\ v.want = w.want
      /\ v.staged = w.staged /\ v.damaged = w.damaged /\ v.underDisc = w.underDisc
  <2>1. Passed(w, i) \in Outcome /\ v = [w EXCEPT !.seen = w.seen \cup {i}]
    BY PassedIs
  <2>2. v \in Walk
    <3> HIDE DEF v, Walk
    <3>1. Passed(w, i).w \in Walk
      BY <2>1 DEF Outcome
    <3> QED BY <3>1 DEF v
  <2> HIDE DEF v
  <2> QED BY <2>1, <2>2 DEF Walk
<1> HIDE DEF v
<1>2. SameScope(w, v)
  BY <1>1 DEF SameScope
<1>3. Grows(w, v, {i})
  BY <1>1, <1>2, WalkHas DEF Grows, Extends
<1>4. Met(w) \subseteq Met(v) /\ Met(v) \subseteq Met(w) \cup {i}
  BY <1>1, <1>3, GrowsMet
<1>5. TakenUnits(v)
  BY <1>1, <1>2, ScopeKeeps DEF WalkOK, TakenUnits
<1>6. SeenTaken(v)
  BY <1>1 DEF WalkOK, SeenTaken
<1>7. UnitsDiffer(v)
  BY <1>1 DEF WalkOK, UnitsDiffer
<1>8. UnitsClosed(v)
  BY <1>1, <1>2, ScopeKeeps DEF WalkOK, UnitsClosed
<1>9. BadUnsound(v)
  BY <1>1, <1>2, ScopeKeeps DEF WalkOK, BadUnsound
<1>10. MetCovers(v)
  BY <1>2, <1>4, ScopeKeeps DEF WalkOK, MetCovers
<1> QED BY <1>1, <1>3, <1>5, <1>6, <1>7, <1>8, <1>9, <1>10 DEF WalkOK, v

\* An item that the walk cannot take goes bad.
LEMMA MarkBadOK ==
  ASSUME NEW w \in Walk, WalkOK(w), NEW i \in Item, NEW c \in Item, \E j \in Reach[i] : Unsound(w, j),
         Unreadable(w, i) \/ \A j \in Range(Entries[i]) : Settled(w, j) \/ j \in Met(w)
  PROVE  LET v == MarkBad(w, i, c).w IN v \in Walk /\ Grows(w, v, {i}) /\ WalkOK(v) /\ i \in Met(v)
<1> DEFINE v == MarkBad(w, i, c).w
<1>1. /\ v \in Walk /\ v.seen = w.seen /\ v.bad = [w.bad EXCEPT ![i] = c] /\ v.units = w.units
      /\ v.want = w.want \ {i} /\ v.staged = w.staged /\ v.damaged = w.damaged /\ v.underDisc = w.underDisc
  <2>0. c \in Cause
    BY CauseType
  <2>1. MarkBad(w, i, c) \in Outcome /\ v = BadAt(w, i, c)
    BY <2>0, MarkBadIs
  <2>2. v \in Walk
    <3> HIDE DEF v, Walk
    <3>1. MarkBad(w, i, c).w \in Walk
      BY <2>1 DEF Outcome
    <3> QED BY <3>1 DEF v
  <2> HIDE DEF v
  <2> QED BY <2>1, <2>2 DEF Walk, BadAt
<1> HIDE DEF v
<1>2. SameScope(w, v)
  BY <1>1 DEF SameScope
<1>3. w.bad \in [Item -> Cause] /\ c # NoCause
  BY WalkHas, CauseType DEF WalkFields
<1>4. i \in Met(v)
  BY <1>1, <1>3, MetIs
<1>5. Grows(w, v, {i})
  <2>1. Extends(w, v, {i})
    BY <1>1, WalkHas DEF Extends
  <2>2. \A x \in Item : w.bad[x] # NoCause => v.bad[x] # NoCause
    BY <1>1, <1>3
  <2>3. \A x \in Item \ {i} : v.bad[x] = w.bad[x]
    BY <1>1, <1>3
  <2> QED BY <1>1, <1>2, <1>4, <2>1, <2>2, <2>3 DEF Grows
<1>6. Met(w) \subseteq Met(v) /\ Met(v) \subseteq Met(w) \cup {i}
  BY <1>1, <1>5, GrowsMet
<1>7. TakenUnits(v)
  BY <1>1, <1>2, ScopeKeeps DEF WalkOK, TakenUnits
<1>8. SeenTaken(v)
  BY <1>1 DEF WalkOK, SeenTaken
<1>9. UnitsDiffer(v)
  BY <1>1 DEF WalkOK, UnitsDiffer
<1>10. UnitsClosed(v)
  BY <1>1, <1>2, ScopeKeeps DEF WalkOK, UnitsClosed
<1>11. BadUnsound(v)
  BY <1>1, <1>2, <1>3, ScopeKeeps DEF WalkOK, BadUnsound
<1>12. MetCovers(v)
  BY <1>2, <1>6, ScopeKeeps DEF WalkOK, MetCovers
<1> QED BY <1>1, <1>4, <1>5, <1>7, <1>8, <1>9, <1>10, <1>11, <1>12 DEF WalkOK, v

\* An item whose entries the walk has settled or taken is the next unit.
LEMMA TakeOK ==
  ASSUME NEW w \in Walk, WalkOK(w), NEW i \in Item, ~OnDisc(i), i \notin w.seen, ~Unreadable(w, i),
         \A j \in Range(Entries[i]) : Settled(w, j) \/ j \in w.seen
  PROVE  LET v == Take(w, i).w IN v \in Walk /\ Grows(w, v, {i}) /\ WalkOK(v) /\ i \in v.seen
<1> DEFINE v == Take(w, i).w
           n == Len(w.units)
<1>1. /\ v \in Walk /\ v.seen = w.seen \cup {i} /\ v.bad = w.bad /\ v.units = Append(w.units, UnitOf(i))
      /\ v.want = w.want \ {i} /\ v.staged = w.staged /\ v.damaged = w.damaged /\ v.underDisc = w.underDisc
  <2>1. Take(w, i) \in Outcome /\ v = [w EXCEPT !.want = w.want \ {i}, !.seen = w.seen \cup {i}, !.units = Append(w.units, UnitOf(i))]
    BY TakeIs
  <2>2. v \in Walk
    <3> HIDE DEF v, Walk
    <3>1. Take(w, i).w \in Walk
      BY <2>1 DEF Outcome
    <3> QED BY <3>1 DEF v
  <2> HIDE DEF v
  <2> QED BY <2>1, <2>2 DEF Walk
<1> HIDE DEF v
<1>2. SameScope(w, v)
  BY <1>1 DEF SameScope
<1>3. n \in Nat /\ Len(v.units) = n + 1 /\ (\A k \in 1 .. n : v.units[k] = w.units[k]) /\ v.units[n + 1] = UnitOf(i)
  <2>1. w.units \in Seq(Unit) /\ UnitOf(i) \in Unit
    BY WalkHas, UnitType DEF WalkFields
  <2> HIDE DEF Unit
  <2> QED BY <1>1, <2>1
<1>4. UnitOf(i).id = i
  BY DEF UnitOf
<1>5. i \in Met(v)
  BY <1>1, MetIs
<1>6. Grows(w, v, {i})
  <2>1. Extends(w, v, {i})
    <3>1. \A k \in 1 .. Len(v.units) : k <= n \/ v.units[k].id \in {i}
      <4> TAKE k \in 1 .. Len(v.units)
      <4>1. k <= n \/ k = n + 1
        BY <1>3
      <4> QED BY <1>3, <1>4, <4>1
    <3> QED BY <1>3, <3>1 DEF Extends
  <2> QED BY <1>1, <1>2, <1>5, <2>1 DEF Grows
<1>7. Met(w) \subseteq Met(v) /\ Met(v) \subseteq Met(w) \cup {i}
  BY <1>1, <1>6, GrowsMet
<1>8. \A k \in 1 .. Len(v.units) : (k \in 1 .. n /\ v.units[k] = w.units[k]) \/ (k = n + 1 /\ v.units[k] = UnitOf(i))
  BY <1>3
<1>9. \A k \in 1 .. n : k \in 1 .. Len(v.units) /\ w.units[k].id # i
  BY <1>3 DEF WalkOK, TakenUnits
<1>10. TakenUnits(v)
  <2> SUFFICES ASSUME NEW k \in 1 .. Len(v.units)
               PROVE  /\ v.units[k].id \in v.seen /\ ~OnDisc(v.units[k].id)
                      /\ v.units[k] = UnitOf(v.units[k].id) /\ ~Unreadable(v, v.units[k].id)
    BY DEF TakenUnits
  <2>1. CASE k \in 1 .. n /\ v.units[k] = w.units[k]
    BY <1>1, <1>2, <2>1, ScopeKeeps DEF WalkOK, TakenUnits
  <2>2. CASE k = n + 1 /\ v.units[k] = UnitOf(i)
    BY <1>1, <1>2, <1>4, <2>2, ScopeKeeps
  <2> QED BY <1>8, <2>1, <2>2
<1>11. SeenTaken(v)
  <2>1. \A x \in w.seen : OnDisc(x) \/ \E k \in 1 .. Len(v.units) : v.units[k].id = x
    BY <1>3, <1>9 DEF WalkOK, SeenTaken
  <2>2. n + 1 \in 1 .. Len(v.units) /\ v.units[n + 1].id = i
    BY <1>3, <1>4
  <2> QED BY <1>1, <2>1, <2>2 DEF SeenTaken
<1>12. UnitsDiffer(v)
  BY <1>4, <1>8, <1>9 DEF WalkOK, UnitsDiffer
<1>13. UnitsClosed(v)
  <2> SUFFICES ASSUME NEW k \in 1 .. Len(v.units), NEW j \in Range(Entries[v.units[k].id])
               PROVE  Settled(v, j) \/ \E l \in 1 .. k - 1 : v.units[l].id = j
    BY DEF UnitsClosed
  <2>1. CASE k \in 1 .. n /\ v.units[k] = w.units[k]
    <3>1. Settled(w, j) \/ \E l \in 1 .. k - 1 : w.units[l].id = j
      BY <2>1 DEF WalkOK, UnitsClosed
    <3>2. \A l \in 1 .. k - 1 : v.units[l] = w.units[l]
      BY <1>3, <2>1
    <3> QED BY <1>2, <3>1, <3>2, ScopeKeeps
  <2>2. CASE k = n + 1 /\ v.units[k] = UnitOf(i)
    <3>1. Settled(w, j) \/ j \in w.seen
      BY <1>4, <2>2
    <3>2. Settled(w, j) \/ \E l \in 1 .. n : w.units[l].id = j
      BY <3>1 DEF WalkOK, SeenTaken, Settled
    <3>3. Settled(w, j) \/ \E l \in 1 .. k - 1 : v.units[l].id = j
      BY <1>3, <2>2, <3>2
    <3> QED BY <1>2, <3>3, ScopeKeeps
  <2> QED BY <1>8, <2>1, <2>2
<1>14. BadUnsound(v)
  BY <1>1, <1>2, ScopeKeeps DEF WalkOK, BadUnsound
<1>15. MetCovers(v)
  <2>1. w.seen \subseteq Met(v)
    BY <1>1, MetIs, WalkHas DEF WalkFields
  <2> QED BY <1>2, <1>7, <2>1, ScopeKeeps DEF WalkOK, MetCovers
<1> QED BY <1>1, <1>6, <1>10, <1>11, <1>12, <1>13, <1>14, <1>15 DEF WalkOK, v

-----------------------------------------------------------------------------
(* The visit of an item leaves a sound walk. *)

\* What the visit v of the item i makes of the walk w.
VisitOutcome(w, i, v) ==
  /\ Grows(w, v.w, Reach[i]) /\ WalkOK(v.w)
  /\ Settled(w, i) \/ i \in Met(v.w)
  /\ v.cause = NoCause => Settled(w, i) \/ i \in v.w.seen
  /\ v.cause # NoCause => \E j \in Reach[i] : Unsound(w, j)

\* An item of the walk w that may be visited.
MayVisit(w, i) == w \in Walk /\ WalkOK(w) /\ (w.underDisc => i \in Hidden)

VisitsWell(i) == \A w \in Walk : MayVisit(w, i) => VisitOutcome(w, i, Visit[i][w])

\* After the first k entries of i.
BelowOutcome(w, i, k, a) ==
  /\ Grows(w, a.w, UNION {Reach[j] : j \in Range(Entries[i])}) /\ WalkOK(a.w)
  /\ \A l \in 1 .. k : Settled(w, Entries[i][l]) \/ Entries[i][l] \in Met(a.w)
  /\ a.cause = NoCause => \A l \in 1 .. k : Settled(w, Entries[i][l]) \/ Entries[i][l] \in a.w.seen
  /\ a.cause # NoCause => \E j \in Reach[i] : Unsound(w, j)

\* One more entry keeps what is known of those before it.
LEMMA BelowStep ==
  ASSUME NEW i \in Item, \A j \in Range(Entries[i]) : VisitsWell(j), NEW w \in Walk, MayVisit(w, i),
         NEW k \in 1 .. Len(Entries[i]), NEW a \in Outcome, BelowOutcome(w, i, k - 1, a)
  PROVE  BelowOutcome(w, i, k, Then(a, Entries[i][k], Visit))
<1> DEFINE U == UNION {Reach[j] : j \in Range(Entries[i])}
           c == Entries[i][k]
           t == Then(a, c, Visit)
           v == Visit[c][a.w]
<1>0. Len(Entries[i]) \in Nat
  BY EntriesType
<1>1. c \in Range(Entries[i]) /\ c \in Item /\ Reach[c] \subseteq U /\ Reach[c] \subseteq Reach[i]
  BY EntriesType, RangeOf, ReachCloses
<1>2. a.w \in Walk /\ v \in Outcome /\ v.w \in Walk /\ a.cause \in Cause
  <2>1. a.w \in Walk /\ a.cause \in Cause
    BY DEF Outcome
  <2>2. v \in Outcome
    BY <1>1, <2>1, VisitIs DEF Visits
  <2> HIDE DEF v
  <2> QED BY <2>1, <2>2 DEF Outcome
<1>3. t \in Outcome /\ t.w = v.w /\ t.cause = IF a.cause = NoCause THEN v.cause ELSE a.cause
  <2>1. Visit[c] \in [Walk -> Outcome]
    BY <1>1, VisitIs DEF Visits
  <2> QED BY <2>1, ThenType
<1>4. SameScope(w, a.w) /\ Grows(w, a.w, U) /\ WalkOK(a.w)
  BY DEF BelowOutcome, Grows
<1>5. MayVisit(a.w, c)
  <2>1. a.w.underDisc = w.underDisc
    BY <1>4 DEF SameScope
  <2>2. w.underDisc => c \in Hidden
    BY <1>1, HiddenCloses DEF MayVisit
  <2> QED BY <1>2, <1>4, <2>1, <2>2 DEF MayVisit
<1>6. VisitOutcome(a.w, c, v)
  BY <1>1, <1>2, <1>5 DEF VisitsWell
<1> HIDE DEF U, c, t, v
<1>7. Grows(a.w, v.w, U)
  BY <1>1, <1>6, GrowsWider DEF VisitOutcome
<1>8. Grows(w, v.w, U) /\ WalkOK(v.w)
  BY <1>2, <1>4, <1>6, <1>7, GrowsOn DEF VisitOutcome
<1>9. Met(a.w) \subseteq Met(v.w) /\ a.w.seen \subseteq v.w.seen
  BY <1>2, <1>7, GrowsMet DEF Grows
<1>10. \A l \in 1 .. k : l \in 1 .. k - 1 \/ Entries[i][l] = c
  BY <1>0 DEF c
<1>11. \A j : (Settled(w, j) <=> Settled(a.w, j)) /\ (Unsound(w, j) <=> Unsound(a.w, j))
  BY <1>4, ScopeKeeps
<1>12. \A l \in 1 .. k : Settled(w, Entries[i][l]) \/ Entries[i][l] \in Met(v.w)
  BY <1>6, <1>9, <1>10, <1>11 DEF BelowOutcome, VisitOutcome
<1>13. t.cause = NoCause => \A l \in 1 .. k : Settled(w, Entries[i][l]) \/ Entries[i][l] \in v.w.seen
  BY <1>3, <1>6, <1>9, <1>10, <1>11 DEF BelowOutcome, VisitOutcome
<1>14. t.cause # NoCause => \E j \in Reach[i] : Unsound(w, j)
  BY <1>1, <1>3, <1>6, <1>11 DEF BelowOutcome, VisitOutcome
<1> QED BY <1>3, <1>8, <1>12, <1>13, <1>14 DEF BelowOutcome, U, t, c

\* The visits of the entries keep the walk right, when those of the items do.
LEMMA BelowOK ==
  ASSUME NEW i \in Item, \A j \in Range(Entries[i]) : VisitsWell(j), NEW w \in Walk, MayVisit(w, i)
  PROVE  /\ Below(w, Entries[i], Visit) \in Outcome
         /\ BelowOutcome(w, i, Len(Entries[i]), Below(w, Entries[i], Visit))
<1> DEFINE n == Len(Entries[i])
           N == 0 .. n
<1>1. n \in Nat /\ Entries[i] \in Seq(Item) /\ VisitsOf(Visit, Entries[i])
  BY EntriesType, VisitIs DEF VisitsOf, Visits
<1>2. PICK b : Steps(b, w, Entries[i], Visit) /\ Below(w, Entries[i], Visit) = b[n]
  BY <1>1, BelowIs
<1>3. \A k \in N : b[k] \in Outcome
  BY <1>2 DEF Steps
<1> DEFINE P == {k \in N : BelowOutcome(w, i, k, b[k])}
<1>4. \A k \in N : Before(n)[k] \subseteq P => k \in P
  <2> SUFFICES ASSUME NEW k \in N, Before(n)[k] \subseteq P PROVE BelowOutcome(w, i, k, b[k])
    OBVIOUS
  <2>1. CASE k = 0
    <3>1. b[0] = [w |-> w, cause |-> NoCause] /\ b[0].w = w /\ b[0].cause = NoCause
      BY <1>2 DEF Steps
    <3> HIDE DEF N, P, n
    <3> QED BY <2>1, <3>1, GrowsSelf DEF BelowOutcome, MayVisit
  <2>2. CASE k # 0
    <3>1. k \in 1 .. n /\ k - 1 \in N /\ k - 1 \in Before(n)[k]
      BY <1>1, <2>2 DEF Before
    <3>2. BelowOutcome(w, i, k - 1, b[k - 1])
      BY <3>1
    <3>3. b[k] = Then(b[k - 1], Entries[i][k], Visit)
      BY <1>2, <3>1 DEF Steps
    <3> HIDE DEF N, P
    <3> QED BY <1>3, <3>1, <3>2, <3>3, BelowStep
  <2> QED BY <2>1, <2>2
<1>5. N \subseteq P
  <2>1. Grounded(N, Before(n))
    BY <1>1, NumbersGrounded
  <2> HIDE DEF P, N
  <2> QED BY <1>4, <2>1, GroundInduction
<1>6. n \in P
  BY <1>1, <1>5
<1> QED BY <1>1, <1>2, <1>3, <1>6

\* The visit of an item keeps the walk right, when those of its children do.
LEMMA VisitedWell ==
  ASSUME NEW i \in Item, NEW w \in Walk, MayVisit(w, i), NEW b \in Outcome,
         BelowOutcome(w, i, Len(Entries[i]), b)
  PROVE  VisitOutcome(w, i, Visited(w, i, Role(w, i), b))
<1> DEFINE U == UNION {Reach[j] : j \in Range(Entries[i])}
           role == Role(w, i)
           v == Visited(w, i, role, b)
<1>1. b.w \in Walk /\ b.cause \in Cause
  BY DEF Outcome
<1>2. /\ Reach[i] = {i} \cup U /\ i \notin U /\ {i} \subseteq Reach[i] /\ U \subseteq Reach[i]
  BY ReachType, Acyclic
<1>3. /\ v \in Outcome
      /\ w.bad[i] # NoCause => v = [w |-> w, cause |-> w.bad[i]]
      /\ w.bad[i] = NoCause /\ (i \in w.seen \/ role = "unknown") => v = [w |-> w, cause |-> NoCause]
      /\ w.bad[i] = NoCause /\ i \notin w.seen /\ role # "unknown" =>
           IF role = "disc"
           THEN IF i \in Chunk \/ w.want = {} \/ Unreadable(w, i) THEN v = Passed(w, i)
                ELSE v.w = Passed(b.w, i).w /\ v.cause = b.cause
           ELSE v = IF Unreadable(w, i) THEN MarkBad(w, i, i)
                    ELSE IF b.cause # NoCause THEN MarkBad(b.w, i, b.cause) ELSE Take(b.w, i)
  BY VisitedCases
<1> SUFFICES VisitOutcome(w, i, v)
  OBVIOUS
<1> HIDE DEF v
<1>4. WalkOK(w) /\ Grows(w, b.w, U) /\ WalkOK(b.w) /\ SameScope(w, b.w)
  BY DEF MayVisit, BelowOutcome, Grows
<1>5. \A j \in Range(Entries[i]) : Settled(w, j) \/ j \in Met(b.w)
  BY EntriesType, RangeOf DEF BelowOutcome
<1>6. b.cause = NoCause => \A j \in Range(Entries[i]) : Settled(w, j) \/ j \in b.w.seen
  BY EntriesType, RangeOf DEF BelowOutcome
<1>7. role = "disc" => OnDisc(i)
  BY DEF Role
<1>8. role \notin {"disc", "unknown"} => ~OnDisc(i)
  BY DEF Role
<1>9. role = "unknown" => Settled(w, i)
  BY DEF Role, MayVisit, Settled
<1>10. Grows(w, w, Reach[i]) /\ Grows(w, b.w, Reach[i])
  BY <1>1, <1>2, <1>4, GrowsSelf, GrowsWider
<1> HIDE DEF role, U
<1>11. CASE w.bad[i] # NoCause
  <2>1. v.w = w /\ v.cause = w.bad[i]
    BY <1>3, <1>11
  <2>2. i \in Met(w) /\ \E j \in Reach[i] : Unsound(w, j)
    BY <1>4, <1>11, MetIs DEF WalkOK, BadUnsound
  <2> QED BY <1>4, <1>10, <1>11, <2>1, <2>2 DEF VisitOutcome
<1>12. CASE w.bad[i] = NoCause /\ (i \in w.seen \/ role = "unknown")
  <2>1. v.w = w /\ v.cause = NoCause
    BY <1>3, <1>12
  <2>2. Settled(w, i) \/ i \in w.seen
    BY <1>9, <1>12
  <2> QED BY <1>4, <1>10, <2>1, <2>2, MetIs DEF VisitOutcome
<1>13. CASE w.bad[i] = NoCause /\ i \notin w.seen /\ role = "disc"
  <2>0. OnDisc(i) /\ Settled(w, i)
    BY <1>7, <1>13 DEF Settled
  <2>1. CASE v = Passed(w, i)
    <3>1. v.cause = NoCause /\ v.w = Passed(w, i).w
      BY <2>1, PassedIs
    <3>2. v.w \in Walk /\ Grows(w, v.w, {i}) /\ WalkOK(v.w)
      BY <1>4, <2>0, <3>1, PassedOK
    <3>3. Grows(w, v.w, Reach[i])
      BY <1>2, <3>2, GrowsWider
    <3> QED BY <2>0, <3>1, <3>2, <3>3 DEF VisitOutcome
  <2>2. CASE v.w = Passed(b.w, i).w /\ v.cause = b.cause
    <3>1. v.w \in Walk /\ Grows(b.w, v.w, {i}) /\ WalkOK(v.w)
      BY <1>1, <1>4, <2>0, <2>2, PassedOK
    <3>2. Grows(w, v.w, Reach[i])
      BY <1>1, <1>2, <1>10, <3>1, GrowsWider, GrowsOn
    <3> QED BY <2>0, <2>2, <3>1, <3>2 DEF VisitOutcome, BelowOutcome
  <2> QED BY <1>3, <1>13, <2>1, <2>2
<1>14. CASE w.bad[i] = NoCause /\ i \notin w.seen /\ role \notin {"disc", "unknown"}
  <2>0. ~OnDisc(i) /\ v = IF Unreadable(w, i) THEN MarkBad(w, i, i)
                          ELSE IF b.cause # NoCause THEN MarkBad(b.w, i, b.cause) ELSE Take(b.w, i)
    BY <1>3, <1>8, <1>14
  <2>1. CASE Unreadable(w, i)
    <3>0. i \in Cause /\ i # NoCause
      BY CauseType
    <3>1. v.cause = i /\ v.w = MarkBad(w, i, i).w
      BY <2>0, <2>1, <3>0, MarkBadIs
    <3>2. Unsound(w, i)
      BY <2>0, <2>1 DEF Unsound, Unreadable
    <3>3. v.w \in Walk /\ Grows(w, v.w, {i}) /\ WalkOK(v.w) /\ i \in Met(v.w)
      BY <1>2, <1>4, <2>1, <3>1, <3>2, MarkBadOK
    <3>4. Grows(w, v.w, Reach[i])
      BY <1>2, <3>3, GrowsWider
    <3> QED BY <1>2, <3>0, <3>1, <3>2, <3>3, <3>4 DEF VisitOutcome
  <2>2. CASE ~Unreadable(w, i) /\ b.cause # NoCause
    <3>0. b.cause \in Item
      BY <1>1, <2>2 DEF Cause
    <3>1. v.cause = b.cause /\ v.w = MarkBad(b.w, i, b.cause).w
      BY <1>1, <2>0, <2>2, MarkBadIs
    <3>2. \E j \in Reach[i] : Unsound(w, j)
      BY <2>2 DEF BelowOutcome
    <3>3. (\E j \in Reach[i] : Unsound(b.w, j)) /\ \A j \in Range(Entries[i]) : Settled(b.w, j) \/ j \in Met(b.w)
      BY <1>4, <1>5, <3>2, ScopeKeeps
    <3>4. v.w \in Walk /\ Grows(b.w, v.w, {i}) /\ WalkOK(v.w) /\ i \in Met(v.w)
      BY <1>1, <1>4, <3>0, <3>1, <3>3, MarkBadOK
    <3>5. Grows(w, v.w, Reach[i])
      BY <1>1, <1>2, <1>10, <3>4, GrowsWider, GrowsOn
    <3> QED BY <2>2, <3>1, <3>2, <3>4, <3>5 DEF VisitOutcome
  <2>3. CASE ~Unreadable(w, i) /\ b.cause = NoCause
    <3>1. v.cause = NoCause /\ v.w = Take(b.w, i).w
      BY <1>1, <2>0, <2>3, TakeIs
    <3>2. i \notin b.w.seen
      BY <1>2, <1>4, <1>14 DEF Grows
    <3>3. ~Unreadable(b.w, i) /\ \A j \in Range(Entries[i]) : Settled(b.w, j) \/ j \in b.w.seen
      BY <1>4, <1>6, <2>3, ScopeKeeps
    <3>4. v.w \in Walk /\ Grows(b.w, v.w, {i}) /\ WalkOK(v.w) /\ i \in v.w.seen
      BY <1>1, <1>4, <2>0, <3>1, <3>2, <3>3, TakeOK
    <3>5. Grows(w, v.w, Reach[i])
      BY <1>1, <1>2, <1>10, <3>4, GrowsWider, GrowsOn
    <3> QED BY <3>1, <3>4, <3>5, MetIs DEF VisitOutcome
  <2> QED BY <2>1, <2>2, <2>3
<1> QED BY <1>11, <1>12, <1>13, <1>14

\* Each visit keeps the walk right: the induction over the entries.
LEMMA VisitOK == \A i \in Item : VisitsWell(i)
<1> DEFINE P == {i \in Item : VisitsWell(i)}
<1>1. \A i \in Item : Children[i] \subseteq P => i \in P
  <2> SUFFICES ASSUME NEW i \in Item, Children[i] \subseteq P, NEW w \in Walk, MayVisit(w, i)
               PROVE  VisitOutcome(w, i, Visit[i][w])
    BY DEF VisitsWell
  <2>1. \A j \in Range(Entries[i]) : VisitsWell(j)
    BY EntriesType
  <2> DEFINE b == Below(w, Entries[i], Visit)
  <2>2. b \in Outcome /\ BelowOutcome(w, i, Len(Entries[i]), b)
    BY <2>1, BelowOK
  <2>3. Visit[i][w] = Visited(w, i, Role(w, i), b)
    BY VisitIs
  <2> HIDE DEF b, P
  <2> QED BY <2>2, <2>3, VisitedWell
<1>2. Item \subseteq P
  <2> HIDE DEF P
  <2> QED BY <1>1, ItemsGrounded, GroundInduction
<1> QED BY <1>2

-----------------------------------------------------------------------------
(* The walk of the snapshots. *)

LEMMA SnapsAre == IsFiniteSet(Snaps) /\ Snaps \subseteq Item /\ Snaps \subseteq Snapshot /\ \A s \in Snaps : When(s) \in Nat /\ s \in Nat
<1>1. Snaps \subseteq Item
  BY DEF Snaps, Item, Meta
<1>2. IsFiniteSet(Snaps)
  BY <1>1, OrderAssumption, FS_Subset
<1> QED BY <1>1, <1>2, OrderAssumption DEF Snaps, When

\* The pack order of the snapshots is a strict order.
LEMMA EarlierOrders ==
  /\ \A a \in Snaps : ~Earlier(a, a)
  /\ \A a, b \in Snaps : a # b => Earlier(a, b) \/ Earlier(b, a)
  /\ \A a, b \in Snaps : Earlier(a, b) => ~Earlier(b, a)
  /\ \A a, b, c \in Snaps : Earlier(a, b) /\ Earlier(b, c) => Earlier(a, c)
BY SnapsAre DEF Earlier

\* A set of snapshots has a latest one.
LEMMA LatestIs ==
  \A S \in SUBSET Snaps : S # {} => Latest(S) \in S /\ \A x \in S \ {Latest(S)} : Earlier(x, Latest(S))
<1> DEFINE P == {S \in SUBSET Snaps : S # {} => \E m \in S : \A x \in S \ {m} : Earlier(x, m)}
<1>1. \A S \in SUBSET Snaps : Parts(Snaps)[S] \subseteq P => S \in P
  <2> SUFFICES ASSUME NEW S \in SUBSET Snaps, Parts(Snaps)[S] \subseteq P, NEW s \in S
               PROVE  \E m \in S : \A x \in S \ {m} : Earlier(x, m)
    OBVIOUS
  <2>1. S \ {s} \in P
    BY DEF Parts
  <2>2. CASE S \ {s} = {}
    BY <2>2
  <2>3. CASE S \ {s} # {}
    <3>1. PICK m \in S \ {s} : \A x \in (S \ {s}) \ {m} : Earlier(x, m)
      BY <2>1, <2>3
    <3>2. CASE Earlier(s, m)
      BY <3>1, <3>2
    <3>3. CASE Earlier(m, s)
      <4>1. \A x \in S \ {s} : Earlier(x, s)
        BY <3>1, <3>3, EarlierOrders
      <4> QED BY <4>1
    <3> QED BY <3>1, <3>2, <3>3, EarlierOrders
  <2> QED BY <2>2, <2>3
<1>2. SUBSET Snaps \subseteq P
  <2>1. Grounded(SUBSET Snaps, Parts(Snaps))
    BY SnapsAre, PartsGrounded
  <2> HIDE DEF P
  <2> QED BY <1>1, <2>1, GroundInduction
<1> SUFFICES ASSUME NEW S \in SUBSET Snaps, S # {}
             PROVE  Latest(S) \in S /\ \A x \in S \ {Latest(S)} : Earlier(x, Latest(S))
  OBVIOUS
<1>3. \E m \in S : \A x \in S \ {m} : Earlier(x, m)
  BY <1>2
<1> QED BY <1>3, Zenon DEF Latest

Turned(w, s) == [w EXCEPT !.underDisc = OnDisc(s)]

LEMMA TurnedIs ==
  ASSUME NEW w \in Walk, NEW s
  PROVE  /\ Turned(w, s) \in Walk /\ Turned(w, s).underDisc = OnDisc(s)
         /\ Turned(w, s).seen = w.seen /\ Turned(w, s).bad = w.bad /\ Turned(w, s).units = w.units
         /\ Turned(w, s).want = w.want /\ Turned(w, s).staged = w.staged /\ Turned(w, s).damaged = w.damaged
<1>1. OnDisc(s) \in BOOLEAN
  BY DEF OnDisc, Taken
<1> QED BY <1>1 DEF Turned, Walk

LEMMA WalkSnapshotType == ASSUME NEW w \in Walk, NEW s \in Snaps PROVE WalkSnapshot(w, s) \in Walk
<1>1. s \in Item /\ Turned(w, s) \in Walk
  BY SnapsAre, TurnedIs
<1>2. Visit[s][Turned(w, s)] \in Outcome
  BY <1>1, VisitIs DEF Visits
<1> QED BY <1>2 DEF Outcome, WalkSnapshot, Turned

LEMMA NewWalkType ==
  ASSUME NEW staged \in SUBSET Item, NEW want \in SUBSET Item, NEW damaged \in SUBSET Item
  PROVE  NewWalk(staged, want, damaged) \in Walk
<1>1. [i \in Item |-> NoCause] \in [Item -> Cause]
  BY CauseType
<1>2. << >> \in Seq(Unit)
  OBVIOUS
<1> HIDE DEF Unit
<1> QED BY <1>1, <1>2 DEF NewWalk, Walk

\* walk has the walk of each set of snapshots.
WalksOf(walk, staged, want, damaged) ==
  /\ walk \in [SUBSET Snaps -> Walk]
  /\ \A S \in SUBSET Snaps :
       walk[S] = IF S = {} THEN NewWalk(staged, want, damaged) ELSE WalkSnapshot(walk[S \ {Latest(S)}], Latest(S))

\* The walk of the snapshots follows its recursive definition.
LEMMA WalkedIs ==
  ASSUME NEW staged \in SUBSET Item, NEW want \in SUBSET Item, NEW damaged \in SUBSET Item
  PROVE  \E walk : WalksOf(walk, staged, want, damaged) /\ Walked(staged, want, damaged) = walk[Snaps]
<1> DEFINE N == SUBSET Snaps
           start == NewWalk(staged, want, damaged)
           E(h) == [S \in SUBSET Snaps |->
                      IF S = {} THEN NewWalk(staged, want, damaged) ELSE WalkSnapshot(h[S \ {Latest(S)}], Latest(S))]
           G == [a \in N \X [N -> Walk] |->
                   IF a[1] = {} THEN start ELSE WalkSnapshot(a[2][a[1] \ {Latest(a[1])}], Latest(a[1]))]
<1>1. \A S \in N : S # {} => Latest(S) \in Snaps /\ S \ {Latest(S)} \in N /\ S \ {Latest(S)} \in Parts(Snaps)[S]
  BY LatestIs DEF Parts
<1>2. start \in Walk
  BY NewWalkType
<1>3. \A S \in N, f \in [N -> Walk] :
        G[<<S, f>>] = IF S = {} THEN start ELSE WalkSnapshot(f[S \ {Latest(S)}], Latest(S))
  OBVIOUS
<1>4. \A S \in N, f \in [N -> Walk] : S # {} => WalkSnapshot(f[S \ {Latest(S)}], Latest(S)) \in Walk
  <2> SUFFICES ASSUME NEW S \in N, NEW f \in [N -> Walk], S # {}
               PROVE  WalkSnapshot(f[S \ {Latest(S)}], Latest(S)) \in Walk
    OBVIOUS
  <2>1. f[S \ {Latest(S)}] \in Walk /\ Latest(S) \in Snaps
    BY <1>1
  <2> QED BY <2>1, WalkSnapshotType
<1> HIDE DEF start
<1>5. Local(N, Walk, Parts(Snaps), G)
  <2>1. G \in [N \X [N -> Walk] -> Walk]
    <3>1. \A a \in N \X [N -> Walk] :
            (IF a[1] = {} THEN start ELSE WalkSnapshot(a[2][a[1] \ {Latest(a[1])}], Latest(a[1]))) \in Walk
      BY <1>2, <1>4
    <3> QED BY <3>1
  <2>2. ASSUME NEW S \in N, NEW f \in [N -> Walk], NEW g \in [N -> Walk],
               \A y \in Parts(Snaps)[S] : f[y] = g[y]
        PROVE  G[<<S, f>>] = G[<<S, g>>]
    <3>1. S # {} => f[S \ {Latest(S)}] = g[S \ {Latest(S)}]
      BY <1>1, <2>2
    <3> HIDE DEF G
    <3> QED BY <1>3, <3>1
  <2> HIDE DEF G, N
  <2> QED BY <2>1, <2>2 DEF Local
<1>6. Grounded(N, Parts(Snaps))
  BY SnapsAre, PartsGrounded
<1>7. PICK f : Solution(f, N, Walk, G)
  <2> HIDE DEF G, N
  <2>1. Walk # {}
    BY <1>2
  <2> QED BY <1>5, <1>6, <2>1, RecursionExists
<1>8. f \in [N -> Walk] /\ \A S \in N : f[S] = IF S = {} THEN start ELSE WalkSnapshot(f[S \ {Latest(S)}], Latest(S))
  <2>1. f \in [N -> Walk]
    BY <1>7 DEF Solution
  <2> HIDE DEF G
  <2> QED BY <1>3, <1>7, <2>1 DEF Solution
<1>9. f = E(f)
  BY <1>8 DEF start
<1>10. Walked(staged, want, damaged) = (CHOOSE h : h = E(h))[Snaps]
  BY Zenon DEF Walked
<1> HIDE DEF E, G
<1>11. (CHOOSE h : h = E(h)) = E(CHOOSE h : h = E(h))
  BY <1>9, Zenon
<1>12. ASSUME NEW h, h = E(h) PROVE WalksOf(h, staged, want, damaged)
  <2>1. h = [S \in SUBSET Snaps |-> IF S = {} THEN start ELSE WalkSnapshot(h[S \ {Latest(S)}], Latest(S))]
    BY <1>12, Zenon DEF E, start
  <2>2. \A S \in N : h[S] = IF S = {} THEN start ELSE WalkSnapshot(h[S \ {Latest(S)}], Latest(S))
    BY <2>1
  <2> DEFINE P == {S \in N : h[S] \in Walk}
  <2>3. \A S \in N : Parts(Snaps)[S] \subseteq P => S \in P
    <3> SUFFICES ASSUME NEW S \in N, Parts(Snaps)[S] \subseteq P PROVE h[S] \in Walk
      OBVIOUS
    <3>1. CASE S = {}
      BY <1>2, <2>2, <3>1
    <3>2. CASE S # {}
      <4>1. h[S \ {Latest(S)}] \in Walk /\ Latest(S) \in Snaps
        BY <1>1, <3>2
      <4> HIDE DEF P, N
      <4> QED BY <2>2, <3>2, <4>1, WalkSnapshotType
    <3> QED BY <3>1, <3>2
  <2>4. N \subseteq P
    <3> HIDE DEF P, N
    <3> QED BY <1>6, <2>3, GroundInduction
  <2>5. \A S \in N : h[S] \in Walk
    BY <2>4
  <2>6. h \in [N -> Walk]
    <3>1. \A S \in N : (IF S = {} THEN start ELSE WalkSnapshot(h[S \ {Latest(S)}], Latest(S))) \in Walk
      BY <2>2, <2>5
    <3> QED BY <2>1, <3>1
  <2> QED BY <2>2, <2>6 DEF WalksOf, start
<1> QED
  <2> DEFINE h == CHOOSE x : x = E(x)
  <2>1. h = E(h) /\ Walked(staged, want, damaged) = h[Snaps]
    BY <1>10, <1>11
  <2> HIDE DEF h
  <2> QED BY <1>12, <2>1

\* v is w after the walk has met items of U, whatever the snapshot that it is in.
MovesOn(w, v, U) ==
  /\ v.staged = w.staged /\ v.damaged = w.damaged /\ Extends(w, v, U)
  /\ w.seen \subseteq v.seen /\ Met(w) \subseteq Met(v) /\ Met(v) \subseteq Met(w) \cup U
  /\ v.want \subseteq w.want /\ w.want \subseteq v.want \cup Met(v)

LEMMA GrowsMovesOn ==
  ASSUME NEW w \in Walk, NEW v \in Walk, NEW U, Grows(w, v, U)
  PROVE  MovesOn(w, v, U)
BY GrowsMet DEF Grows, SameScope, MovesOn

LEMMA ScopeOfStaged ==
  ASSUME NEW w, NEW v, v.staged = w.staged, v.damaged = w.damaged, NEW j
  PROVE  /\ Settled(w, j) <=> Settled(v, j)
         /\ Unsound(w, j) <=> Unsound(v, j)
         /\ Unreadable(w, j) <=> Unreadable(v, j)
BY DEF Settled, Unsound, Unreadable

LEMMA TurnedOK ==
  ASSUME NEW w \in Walk, NEW v \in Walk, v.seen = w.seen, v.bad = w.bad, v.units = w.units,
         v.staged = w.staged, v.damaged = w.damaged, WalkOK(w)
  PROVE  WalkOK(v) /\ Met(v) = Met(w)
<1>1. Met(v) = Met(w)
  BY DEF Met
<1>2. TakenUnits(v)
  BY ScopeOfStaged DEF WalkOK, TakenUnits
<1>3. SeenTaken(v)
  BY DEF WalkOK, SeenTaken
<1>4. UnitsDiffer(v)
  BY DEF WalkOK, UnitsDiffer
<1>5. UnitsClosed(v)
  BY ScopeOfStaged DEF WalkOK, UnitsClosed
<1>6. BadUnsound(v)
  BY ScopeOfStaged DEF WalkOK, BadUnsound
<1>7. MetCovers(v)
  BY <1>1, ScopeOfStaged DEF WalkOK, MetCovers
<1> QED BY <1>1, <1>2, <1>3, <1>4, <1>5, <1>6, <1>7 DEF WalkOK

\* The walk of one snapshot keeps the walk right and meets the snapshot.
LEMMA WalkSnapshotOK ==
  ASSUME NEW w \in Walk, WalkOK(w), NEW s \in Snaps
  PROVE  LET v == WalkSnapshot(w, s) IN
         v \in Walk /\ WalkOK(v) /\ MovesOn(w, v, Reach[s]) /\ (Settled(w, s) \/ s \in Met(v))
<1> DEFINE u == Turned(w, s)
           v == WalkSnapshot(w, s)
<1>1. /\ u \in Walk /\ u.underDisc = OnDisc(s) /\ u.seen = w.seen /\ u.bad = w.bad /\ u.units = w.units
      /\ u.want = w.want /\ u.staged = w.staged /\ u.damaged = w.damaged
  BY TurnedIs
<1>2. s \in Item /\ v = Visit[s][u].w /\ v \in Walk
  BY SnapsAre, WalkSnapshotType DEF WalkSnapshot, Turned
<1> HIDE DEF u, v
<1>3. WalkOK(u) /\ Met(u) = Met(w)
  BY <1>1, TurnedOK
<1>4. OnDisc(s) => s \in Hidden
  BY <1>2, ReachSelf DEF Hidden, Carried
<1>5. MayVisit(u, s)
  BY <1>1, <1>3, <1>4 DEF MayVisit
<1>6. VisitOutcome(u, s, Visit[s][u])
  BY <1>1, <1>2, <1>5, VisitOK DEF VisitsWell
<1>7. Grows(u, v, Reach[s]) /\ WalkOK(v) /\ (Settled(u, s) \/ s \in Met(v))
  BY <1>2, <1>6 DEF VisitOutcome
<1>8. MovesOn(u, v, Reach[s])
  BY <1>1, <1>2, <1>7, GrowsMovesOn
<1>9. MovesOn(w, v, Reach[s])
  BY <1>1, <1>3, <1>8 DEF MovesOn, Extends
<1> QED BY <1>1, <1>2, <1>7, <1>9, ScopeOfStaged DEF v

FreshWalk(w, staged, want, damaged) ==
  /\ w \in Walk /\ WalkOK(w) /\ Met(w) = {} /\ w.staged = staged /\ w.damaged = damaged
  /\ w.want = want /\ Len(w.units) = 0

LEMMA NewWalkOK ==
  ASSUME NEW staged \in SUBSET Item, NEW want \in SUBSET Item, NEW damaged \in SUBSET Item
  PROVE  FreshWalk(NewWalk(staged, want, damaged), staged, want, damaged)
<1> DEFINE w == NewWalk(staged, want, damaged)
<1>1. /\ w \in Walk /\ w.seen = {} /\ w.units = << >> /\ (\A x \in Item : w.bad[x] = NoCause)
      /\ w.staged = staged /\ w.damaged = damaged /\ w.want = want
  <2>1. w \in Walk
    BY NewWalkType
  <2> QED BY <2>1 DEF NewWalk
<1> SUFFICES FreshWalk(w, staged, want, damaged)
  OBVIOUS
<1> HIDE DEF w
<1>2. Len(w.units) = 0 /\ 1 .. Len(w.units) = {}
  BY <1>1
<1>3. Met(w) = {}
  BY <1>1 DEF Met
<1>4. TakenUnits(w) /\ SeenTaken(w) /\ UnitsDiffer(w) /\ UnitsClosed(w)
  BY <1>1, <1>2 DEF TakenUnits, SeenTaken, UnitsDiffer, UnitsClosed
<1>5. BadUnsound(w) /\ MetCovers(w)
  BY <1>1, <1>3 DEF BadUnsound, MetCovers
<1> QED BY <1>1, <1>2, <1>3, <1>4, <1>5 DEF WalkOK, FreshWalk

-----------------------------------------------------------------------------
(* What is left of a snapshot, and the order of the units. *)

\* Left follows its recursive definition.
LEMMA LeftIs ==
  \A i \in Item : Left[i] = IF OnDisc(i) THEN {} ELSE {i} \cup UNION {Left[j] : j \in Range(Entries[i])}
<1> DEFINE T == SUBSET Item
           G == [a \in Item \X [Item -> T] |->
                   IF OnDisc(a[1]) THEN {} ELSE {a[1]} \cup UNION {a[2][j] : j \in Range(Entries[a[1]])}]
           E(h) == [i \in Item |-> IF OnDisc(i) THEN {} ELSE {i} \cup UNION {h[j] : j \in Range(Entries[i])}]
<1>1. Local(Item, T, Children, G)
  <2>1. \A a \in Item \X [Item -> T] :
          (IF OnDisc(a[1]) THEN {} ELSE {a[1]} \cup UNION {a[2][j] : j \in Range(Entries[a[1]])}) \in T
    <3> TAKE a \in Item \X [Item -> T]
    <3>1. a[1] \in Item /\ a[2] \in [Item -> T] /\ Range(Entries[a[1]]) \subseteq Item
      BY EntriesType
    <3> QED BY <3>1
  <2>2. ASSUME NEW x \in Item, NEW f \in [Item -> T], NEW g \in [Item -> T],
               \A y \in Children[x] : f[y] = g[y]
        PROVE  G[<<x, f>>] = G[<<x, g>>]
    <3>1. {f[j] : j \in Range(Entries[x])} = {g[j] : j \in Range(Entries[x])}
      BY <2>2, EntriesType
    <3>2. G[<<x, f>>] = IF OnDisc(x) THEN {} ELSE {x} \cup UNION {f[j] : j \in Range(Entries[x])}
      OBVIOUS
    <3>3. G[<<x, g>>] = IF OnDisc(x) THEN {} ELSE {x} \cup UNION {g[j] : j \in Range(Entries[x])}
      OBVIOUS
    <3> QED BY <3>1, <3>2, <3>3
  <2> QED BY <2>1, <2>2 DEF Local
<1>2. \E f : Solution(f, Item, T, G)
  <2>1. T # {}
    OBVIOUS
  <2> HIDE DEF G, T
  <2> QED BY <1>1, <2>1, ItemsGrounded, RecursionExists
<1>3. PICK f : Solution(f, Item, T, G)
  BY <1>2, Zenon
<1>4. f = E(f)
  <2>0. f \in [Item -> T]
    BY <1>3 DEF Solution
  <2>1. \A x \in Item : G[<<x, f>>] = IF OnDisc(x) THEN {} ELSE {x} \cup UNION {f[j] : j \in Range(Entries[x])}
    BY <2>0
  <2> HIDE DEF G
  <2> QED BY <1>3, <2>1 DEF Solution
<1>5. Left = CHOOSE h : h = E(h)
  BY Zenon DEF Left
<1> HIDE DEF T, G, E
<1>6. Left = E(Left)
  BY <1>4, <1>5, Zenon
<1> QED BY <1>6, Zenon DEF E

Sound(w, x) == \A j \in Reach[x] : ~Unsound(w, j)
Decided(w, x) == \A j \in Reach[x] : Settled(w, j) => OnDisc(j)

Upto(w, k) == {w.units[l].id : l \in 1 .. k}

\* Of a sound item that the walk has met, it has taken all that is left.
LEMMA LeftIsTaken ==
  ASSUME NEW w \in Walk, WalkOK(w)
  PROVE  \A x \in Item : (x \in Met(w) \/ OnDisc(x)) /\ Sound(w, x) /\ Decided(w, x)
                           => Left[x] \subseteq Upto(w, Len(w.units))
<1> DEFINE Taking(x) == (x \in Met(w) \/ OnDisc(x)) /\ Sound(w, x) /\ Decided(w, x)
                           => Left[x] \subseteq Upto(w, Len(w.units))
           P == {x \in Item : Taking(x)}
<1>1. \A x \in Item : Children[x] \subseteq P => x \in P
  <2> SUFFICES ASSUME NEW x \in Item, Children[x] \subseteq P, x \in Met(w), ~OnDisc(x),
                      Sound(w, x), Decided(w, x)
               PROVE  Left[x] \subseteq Upto(w, Len(w.units))
    BY LeftIs
  <2>1. x \in w.seen
    BY MetIs DEF WalkOK, BadUnsound, Sound
  <2>2. x \in Upto(w, Len(w.units))
    BY <2>1 DEF WalkOK, SeenTaken, Upto
  <2>3. ~Unreadable(w, x)
    BY ReachSelf DEF Sound, Unsound, Unreadable
  <2>4. ASSUME NEW j \in Range(Entries[x]) PROVE Left[j] \subseteq Upto(w, Len(w.units))
    <3>1. j \in Item /\ Reach[j] \subseteq Reach[x] /\ j \in Reach[x]
      BY ReachCloses
    <3>2. Sound(w, j) /\ Decided(w, j)
      BY <3>1 DEF Sound, Decided
    <3>3. j \in Met(w) \/ OnDisc(j)
      BY <2>3, <3>1 DEF WalkOK, MetCovers, Decided
    <3>4. j \in P
      BY EntriesType
    <3> QED BY <3>2, <3>3, <3>4
  <2>5. Left[x] = {x} \cup UNION {Left[j] : j \in Range(Entries[x])}
    BY LeftIs
  <2> HIDE DEF P
  <2> QED BY <2>2, <2>4, <2>5
<1>2. Item \subseteq P
  <2> HIDE DEF P
  <2> QED BY <1>1, ItemsGrounded, GroundInduction
<1> QED BY <1>2

\* All that is left of a unit comes before it.
LEMMA LeftIsEarlier ==
  ASSUME NEW w \in Walk, WalkOK(w)
  PROVE  \A x \in Item : Decided(w, x) => \A k \in 1 .. Len(w.units) : w.units[k].id = x => Left[x] \subseteq Upto(w, k)
<1> DEFINE Taking(x) == Decided(w, x) => \A k \in 1 .. Len(w.units) : w.units[k].id = x => Left[x] \subseteq Upto(w, k)
           P == {x \in Item : Taking(x)}
<1>0. Len(w.units) \in Nat
  BY WalkHas
<1>1. \A x \in Item : Children[x] \subseteq P => x \in P
  <2> SUFFICES ASSUME NEW x \in Item, Children[x] \subseteq P, Decided(w, x),
                      NEW k \in 1 .. Len(w.units), w.units[k].id = x
               PROVE  Left[x] \subseteq Upto(w, k)
    OBVIOUS
  <2>1. x \in Upto(w, k) /\ ~OnDisc(x)
    BY <1>0 DEF WalkOK, TakenUnits, Upto
  <2>2. ASSUME NEW j \in Range(Entries[x]) PROVE Left[j] \subseteq Upto(w, k)
    <3>1. j \in Item /\ Reach[j] \subseteq Reach[x] /\ j \in Reach[x]
      BY ReachCloses
    <3>2. Decided(w, j) /\ j \in P
      BY <3>1, EntriesType DEF Decided
    <3>3. Settled(w, j) \/ \E l \in 1 .. k - 1 : w.units[l].id = j
      BY DEF WalkOK, UnitsClosed
    <3>4. CASE Settled(w, j)
      BY <3>1, <3>4, LeftIs DEF Decided
    <3>5. CASE \E l \in 1 .. k - 1 : w.units[l].id = j
      <4>1. PICK l \in 1 .. k - 1 : w.units[l].id = j
        BY <3>5
      <4>2. l \in 1 .. Len(w.units) /\ Left[j] \subseteq Upto(w, l)
        BY <1>0, <3>2, <4>1
      <4>3. Upto(w, l) \subseteq Upto(w, k)
        BY <1>0 DEF Upto
      <4> QED BY <4>2, <4>3
    <3> QED BY <3>3, <3>4, <3>5
  <2>3. Left[x] = {x} \cup UNION {Left[j] : j \in Range(Entries[x])}
    BY <2>1, LeftIs
  <2> HIDE DEF P
  <2> QED BY <2>1, <2>2, <2>3
<1>2. Item \subseteq P
  <2> HIDE DEF P
  <2> QED BY <1>1, ItemsGrounded, GroundInduction
<1> QED BY <1>2

\* A unit that is a snapshot is one of S, and comes after all that is left of
\* each earlier one of S.
OrderOK(w, S) ==
  \A k \in 1 .. Len(w.units) : w.units[k].id \in Snapshot =>
    /\ w.units[k].id \in S
    /\ \A s \in S : Earlier(s, w.units[k].id) /\ Sound(w, s) /\ Decided(w, s) => Left[s] \subseteq Upto(w, k)

LEMMA ReachOfSnapshot == \A i \in Item : \A x \in Reach[i] : x \in Snapshot => x = i
<1> SUFFICES ASSUME NEW i \in Item, NEW x \in Reach[i], x # i PROVE x \notin Snapshot
  OBVIOUS
<1> DEFINE Z == {i} \cup {y \in Item : y \notin Snapshot}
<1>1. \A y \in Z \cap Item : Range(Entries[y]) \subseteq Z
  BY EntriesAssumption, EntriesType
<1>2. Reach[i] \subseteq Z
  <2>1. i \in Z
    OBVIOUS
  <2> HIDE DEF Z
  <2> QED BY <1>1, <2>1, ReachIsLeast
<1> QED BY <1>2

\* What the walk of the snapshots S leaves.
WalkedWell(w, S, staged, want, damaged) ==
  /\ WalkOK(w) /\ w.staged = staged /\ w.damaged = damaged
  /\ \A s \in S : Settled(w, s) \/ s \in Met(w)
  /\ w.want \subseteq want /\ want \subseteq w.want \cup Met(w)
  /\ OrderOK(w, S)

\* The next snapshot comes after all that is left of the earlier ones.
LEMMA WalkedStep ==
  ASSUME NEW S \in SUBSET Snaps, S # {}, NEW staged, NEW want, NEW damaged,
         NEW w \in Walk, WalkedWell(w, S \ {Latest(S)}, staged, want, damaged)
  PROVE  WalkedWell(WalkSnapshot(w, Latest(S)), S, staged, want, damaged)
<1> DEFINE t == Latest(S)
           v == WalkSnapshot(w, t)
           n == Len(w.units)
<1>1. t \in S /\ t \in Snaps /\ t \in Item /\ \A s \in S \ {t} : Earlier(s, t)
  BY LatestIs, SnapsAre
<1>2. v \in Walk /\ WalkOK(v) /\ MovesOn(w, v, Reach[t]) /\ (Settled(w, t) \/ t \in Met(v))
  BY <1>1, WalkSnapshotOK DEF WalkedWell
<1> HIDE DEF t, v
<1>3. v.staged = staged /\ v.damaged = damaged /\ Met(w) \subseteq Met(v)
  BY <1>2 DEF MovesOn, WalkedWell
<1>4. w.staged = v.staged /\ w.damaged = v.damaged
  BY <1>2 DEF MovesOn
<1>5. \A j : (Settled(w, j) <=> Settled(v, j)) /\ (Unsound(w, j) <=> Unsound(v, j))
  BY <1>4, ScopeOfStaged
<1>6. \A s \in S : Settled(v, s) \/ s \in Met(v)
  <2>1. \A s \in S \ {t} : Settled(w, s) \/ s \in Met(w)
    BY DEF WalkedWell, t
  <2> QED BY <1>2, <1>3, <1>5, <2>1
<1>7. v.want \subseteq want /\ want \subseteq v.want \cup Met(v)
  BY <1>2, <1>3 DEF MovesOn, WalkedWell
<1>8. OrderOK(v, S)
  <2> SUFFICES ASSUME NEW k \in 1 .. Len(v.units), v.units[k].id \in Snapshot
               PROVE  /\ v.units[k].id \in S
                      /\ \A s \in S : Earlier(s, v.units[k].id) /\ Sound(v, s) /\ Decided(v, s)
                                        => Left[s] \subseteq Upto(v, k)
    BY DEF OrderOK
  <2>1. n \in Nat /\ Len(v.units) \in Nat /\ n <= Len(v.units) /\ \A l \in 1 .. n : v.units[l] = w.units[l]
    BY <1>2, WalkHas DEF MovesOn, Extends
  <2>2. \A s : (Sound(v, s) <=> Sound(w, s)) /\ (Decided(v, s) <=> Decided(w, s))
    BY <1>5 DEF Sound, Decided
  <2>3. CASE k <= n
    <3>1. k \in 1 .. n /\ v.units[k] = w.units[k] /\ Upto(v, k) = Upto(w, k)
      <4>1. k \in 1 .. n /\ \A l \in 1 .. k : v.units[l] = w.units[l]
        BY <2>1, <2>3
      <4> QED BY <4>1 DEF Upto
    <3>2. /\ v.units[k].id \in S \ {t}
          /\ \A s \in S \ {t} : Earlier(s, v.units[k].id) /\ Sound(w, s) /\ Decided(w, s)
                                  => Left[s] \subseteq Upto(w, k)
      BY <3>1 DEF WalkedWell, OrderOK, t
    <3>3. ~Earlier(t, v.units[k].id)
      BY <1>1, <3>2, EarlierOrders
    <3> QED BY <2>2, <3>1, <3>2, <3>3
  <2>4. CASE ~(k <= n)
    <3>1. v.units[k].id = t
      BY <1>1, <1>2, <2>4, ReachOfSnapshot DEF MovesOn, Extends
    <3>2. ASSUME NEW s \in S, Earlier(s, t), Sound(w, s), Decided(w, s) PROVE Left[s] \subseteq Upto(v, k)
      <4>1. s \in S \ {t} /\ s \in Item
        BY <1>1, <3>2, EarlierOrders, SnapsAre
      <4>2. s \in Met(w) \/ OnDisc(s)
        BY <3>2, <4>1, ReachSelf DEF WalkedWell, Decided, t
      <4>3. Left[s] \subseteq Upto(w, n)
        BY <3>2, <4>1, <4>2, LeftIsTaken DEF WalkedWell
      <4>4. Upto(w, n) \subseteq Upto(v, k)
        BY <2>1, <2>4 DEF Upto
      <4> QED BY <4>3, <4>4
    <3> QED BY <1>1, <2>2, <3>1, <3>2
  <2> QED BY <2>3, <2>4
<1> QED BY <1>2, <1>3, <1>6, <1>7, <1>8 DEF WalkedWell, v, t

\* The walk of all snapshots is right and in pack order.
LEMMA WalkedOK ==
  ASSUME NEW staged \in SUBSET Item, NEW want \in SUBSET Item, NEW damaged \in SUBSET Item
  PROVE  LET w == Walked(staged, want, damaged) IN w \in Walk /\ WalkedWell(w, Snaps, staged, want, damaged)
<1> DEFINE start == NewWalk(staged, want, damaged)
<1>0. FreshWalk(start, staged, want, damaged)
  BY NewWalkOK
<1> HIDE DEF start
<1>1. PICK walk : WalksOf(walk, staged, want, damaged) /\ Walked(staged, want, damaged) = walk[Snaps]
  BY WalkedIs
<1>2. \A S \in SUBSET Snaps :
        /\ walk[S] \in Walk
        /\ walk[S] = IF S = {} THEN NewWalk(staged, want, damaged) ELSE WalkSnapshot(walk[S \ {Latest(S)}], Latest(S))
  BY <1>1 DEF WalksOf
<1> DEFINE P == {S \in SUBSET Snaps : WalkedWell(walk[S], S, staged, want, damaged)}
<1>3. \A S \in SUBSET Snaps : Parts(Snaps)[S] \subseteq P => S \in P
  <2> SUFFICES ASSUME NEW S \in SUBSET Snaps, Parts(Snaps)[S] \subseteq P
               PROVE  WalkedWell(walk[S], S, staged, want, damaged)
    OBVIOUS
  <2>1. CASE S = {}
    <3>1. walk[S] = start
      BY <1>2, <2>1 DEF start
    <3>2. /\ WalkOK(walk[S]) /\ walk[S].staged = staged /\ walk[S].damaged = damaged
          /\ walk[S].want = want /\ Len(walk[S].units) = 0
      BY <1>0, <3>1 DEF FreshWalk
    <3>3. OrderOK(walk[S], S)
      <4>1. 1 .. Len(walk[S].units) = {}
        BY <3>2
      <4> QED BY <4>1 DEF OrderOK
    <3> QED BY <2>1, <3>2, <3>3 DEF WalkedWell
  <2>2. CASE S # {}
    <3>1. S \ {Latest(S)} \in Parts(Snaps)[S] /\ S \ {Latest(S)} \in SUBSET Snaps
      BY <2>2, LatestIs DEF Parts
    <3>2. WalkedWell(walk[S \ {Latest(S)}], S \ {Latest(S)}, staged, want, damaged)
      BY <3>1
    <3>3. walk[S] = WalkSnapshot(walk[S \ {Latest(S)}], Latest(S)) /\ walk[S \ {Latest(S)}] \in Walk
      BY <1>2, <2>2, <3>1
    <3> HIDE DEF P
    <3> QED BY <2>2, <3>2, <3>3, WalkedStep
  <2> QED BY <2>1, <2>2
<1>4. SUBSET Snaps \subseteq P
  <2>1. Grounded(SUBSET Snaps, Parts(Snaps))
    BY SnapsAre, PartsGrounded
  <2> HIDE DEF P
  <2> QED BY <1>3, <2>1, GroundInduction
<1>5. Snaps \in SUBSET Snaps
  OBVIOUS
<1>6. WalkedWell(walk[Snaps], Snaps, staged, want, damaged) /\ walk[Snaps] \in Walk
  BY <1>2, <1>4, <1>5
<1> QED BY <1>1, <1>6

-----------------------------------------------------------------------------
(* A walk that looks for nothing below the items of a disc stays in a set     *)
(* that has the entries of its readable items.                                *)

StaysIn(w, Z) ==
  /\ w.want = {} /\ Met(w) \subseteq Z
  /\ \A x \in Z \cap Item : ~OnDisc(x) /\ ~Unreadable(w, x) => Range(Entries[x]) \subseteq Z

LEMMA StaysOn ==
  ASSUME NEW w \in Walk, NEW Z, StaysIn(w, Z), NEW v \in Walk, NEW i \in Z,
         v.damaged = w.damaged, v.want \subseteq w.want, Met(v) \subseteq Met(w) \cup {i}
  PROVE  StaysIn(v, Z)
BY DEF StaysIn, Unreadable

LEMMA StaysAt ==
  ASSUME NEW w \in Walk, NEW Z, StaysIn(w, Z), NEW i \in Item, i \in Z
  PROVE  /\ StaysIn(Passed(w, i).w, Z)
         /\ StaysIn(Take(w, i).w, Z)
         /\ \A c \in Cause : StaysIn(MarkBad(w, i, c).w, Z)
<1>1. StaysIn(Passed(w, i).w, Z)
  <2> DEFINE v == Passed(w, i).w
  <2>1. v \in Walk
    BY PassedIs DEF Outcome
  <2>2. v.damaged = w.damaged /\ v.want = w.want /\ v.seen = w.seen \cup {i} /\ v.bad = w.bad
    BY PassedIs DEF Walk
  <2> HIDE DEF v
  <2>3. Met(v) \subseteq Met(w) \cup {i}
    BY <2>1, <2>2, MetIs
  <2>4. StaysIn(v, Z)
    BY <2>1, <2>2, <2>3, StaysOn
  <2> QED BY <2>4 DEF v
<1>2. StaysIn(Take(w, i).w, Z)
  <2> DEFINE v == Take(w, i).w
  <2>1. v \in Walk
    BY TakeIs DEF Outcome
  <2>2. v.damaged = w.damaged /\ v.want = w.want \ {i} /\ v.seen = w.seen \cup {i} /\ v.bad = w.bad
    <3>1. v = [w EXCEPT !.want = w.want \ {i}, !.seen = w.seen \cup {i}, !.units = Append(w.units, UnitOf(i))]
      BY TakeIs
    <3> HIDE DEF v
    <3> QED BY <3>1 DEF Walk
  <2> HIDE DEF v
  <2>3. Met(v) \subseteq Met(w) \cup {i}
    BY <2>1, <2>2, MetIs
  <2>4. StaysIn(v, Z)
    BY <2>1, <2>2, <2>3, StaysOn
  <2> QED BY <2>4 DEF v
<1>3. ASSUME NEW c \in Cause PROVE StaysIn(MarkBad(w, i, c).w, Z)
  <2> DEFINE v == MarkBad(w, i, c).w
  <2>1. v \in Walk /\ v = BadAt(w, i, c)
    BY MarkBadIs DEF Outcome
  <2> HIDE DEF v
  <2>2. /\ v.damaged = w.damaged /\ v.want = w.want \ {i} /\ v.seen = w.seen
        /\ \A x \in Item \ {i} : v.bad[x] = w.bad[x]
    BY <2>1 DEF Walk, BadAt
  <2>3. Met(v) \subseteq Met(w) \cup {i}
    BY <2>1, <2>2, MetIs
  <2>4. StaysIn(v, Z)
    BY <2>1, <2>2, <2>3, StaysOn
  <2> QED BY <2>4 DEF v
<1> QED BY <1>1, <1>2, <1>3

VisitStays(i, Z) == \A w \in Walk : StaysIn(w, Z) => StaysIn(Visit[i][w].w, Z)

\* A visit meets nothing outside a set that is closed below.
LEMMA BelowStays ==
  ASSUME NEW Z, NEW i \in Item, \A j \in Range(Entries[i]) : VisitStays(j, Z), NEW w \in Walk, StaysIn(w, Z)
  PROVE  StaysIn(Below(w, Entries[i], Visit).w, Z)
<1> DEFINE n == Len(Entries[i])
           N == 0 .. n
<1>1. n \in Nat /\ Entries[i] \in Seq(Item) /\ VisitsOf(Visit, Entries[i])
  BY EntriesType, VisitIs DEF VisitsOf, Visits
<1>2. PICK b : Steps(b, w, Entries[i], Visit) /\ Below(w, Entries[i], Visit) = b[n]
  BY <1>1, BelowIs
<1>3. \A k \in N : b[k] \in Outcome
  BY <1>2 DEF Steps
<1> DEFINE P == {k \in N : StaysIn(b[k].w, Z)}
<1>4. \A k \in N : Before(n)[k] \subseteq P => k \in P
  <2> SUFFICES ASSUME NEW k \in N, Before(n)[k] \subseteq P PROVE StaysIn(b[k].w, Z)
    OBVIOUS
  <2>1. CASE k = 0
    <3>1. b[0].w = w
      BY <1>2 DEF Steps
    <3> HIDE DEF N, P, n
    <3> QED BY <2>1, <3>1
  <2>2. CASE k # 0
    <3>1. k \in 1 .. n /\ k - 1 \in N /\ k - 1 \in Before(n)[k]
      BY <1>1, <2>2 DEF Before
    <3>2. StaysIn(b[k - 1].w, Z)
      BY <3>1
    <3>3. b[k] = Then(b[k - 1], Entries[i][k], Visit)
      BY <1>2, <3>1 DEF Steps
    <3>4. Entries[i][k] \in Range(Entries[i])
      BY <1>1, <3>1, RangeOf
    <3>5. b[k].w = Visit[Entries[i][k]][b[k - 1].w].w
      BY <1>1, <1>3, <3>1, <3>3, <3>4, ThenType DEF VisitsOf
    <3>6. b[k - 1].w \in Walk
      BY <1>3, <3>1 DEF Outcome
    <3> HIDE DEF N, P
    <3> QED BY <3>2, <3>4, <3>5, <3>6 DEF VisitStays
  <2> QED BY <2>1, <2>2
<1>5. N \subseteq P
  <2>1. Grounded(N, Before(n))
    BY <1>1, NumbersGrounded
  <2> HIDE DEF P, N
  <2> QED BY <1>4, <2>1, GroundInduction
<1>6. n \in P
  BY <1>1, <1>5
<1> QED BY <1>1, <1>2, <1>3, <1>6

LEMMA VisitStaysIn == ASSUME NEW Z PROVE \A i \in Item : i \in Z => VisitStays(i, Z)
<1> DEFINE P == {i \in Item : i \in Z => VisitStays(i, Z)}
<1>1. \A i \in Item : Children[i] \subseteq P => i \in P
  <2> SUFFICES ASSUME NEW i \in Item, Children[i] \subseteq P, i \in Z, NEW w \in Walk, StaysIn(w, Z)
               PROVE  StaysIn(Visit[i][w].w, Z)
    BY DEF VisitStays
  <2> DEFINE b == Below(w, Entries[i], Visit)
             role == Role(w, i)
             v == Visited(w, i, role, b)
  <2>1. Visit[i][w] = v
    BY VisitIs
  <2>2. b \in Outcome
    BY EntriesType, VisitIs, BelowType DEF VisitsOf, Visits
  <2>3. b.w \in Walk /\ b.cause \in Cause
    BY <2>2 DEF Outcome
  <2>4. ~OnDisc(i) /\ ~Unreadable(w, i) => StaysIn(b.w, Z)
    <3> SUFFICES ASSUME ~OnDisc(i), ~Unreadable(w, i) PROVE StaysIn(b.w, Z)
      OBVIOUS
    <3>1. Range(Entries[i]) \subseteq Z
      BY DEF StaysIn
    <3>2. \A j \in Range(Entries[i]) : VisitStays(j, Z)
      BY <3>1, EntriesType
    <3> HIDE DEF P
    <3> QED BY <3>2, BelowStays
  <2>5. /\ w.bad[i] # NoCause => v = [w |-> w, cause |-> w.bad[i]]
        /\ w.bad[i] = NoCause /\ (i \in w.seen \/ role = "unknown") => v = [w |-> w, cause |-> NoCause]
        /\ w.bad[i] = NoCause /\ i \notin w.seen /\ role # "unknown" =>
             IF role = "disc"
             THEN IF i \in Chunk \/ w.want = {} \/ Unreadable(w, i) THEN v = Passed(w, i)
                  ELSE v.w = Passed(b.w, i).w /\ v.cause = b.cause
             ELSE v = IF Unreadable(w, i) THEN MarkBad(w, i, i)
                      ELSE IF b.cause # NoCause THEN MarkBad(b.w, i, b.cause) ELSE Take(b.w, i)
    BY <2>2, VisitedCases
  <2>6. role \notin {"disc", "unknown"} => ~OnDisc(i)
    BY DEF Role
  <2>7. w.want = {}
    BY DEF StaysIn
  <2>8. i \in Cause
    BY CauseType
  <2> HIDE DEF b, role, v, P
  <2>9. CASE v.w = w
    BY <2>1, <2>9
  <2>10. CASE v = Passed(w, i)
    BY <2>1, <2>10, StaysAt
  <2>11. CASE ~OnDisc(i) /\ v = IF Unreadable(w, i) THEN MarkBad(w, i, i)
                                ELSE IF b.cause # NoCause THEN MarkBad(b.w, i, b.cause) ELSE Take(b.w, i)
    <3>1. CASE Unreadable(w, i)
      BY <2>1, <2>8, <2>11, <3>1, StaysAt
    <3>2. CASE ~Unreadable(w, i)
      BY <2>1, <2>3, <2>4, <2>11, <3>2, StaysAt
    <3> QED BY <3>1, <3>2
  <2>12. v.w = w \/ v = Passed(w, i)
           \/ (~OnDisc(i) /\ v = IF Unreadable(w, i) THEN MarkBad(w, i, i)
                                 ELSE IF b.cause # NoCause THEN MarkBad(b.w, i, b.cause) ELSE Take(b.w, i))
    <3>1. CASE w.bad[i] # NoCause
      BY <2>5, <3>1
    <3>2. CASE w.bad[i] = NoCause /\ (i \in w.seen \/ role = "unknown")
      BY <2>5, <3>2
    <3>3. CASE w.bad[i] = NoCause /\ i \notin w.seen /\ role = "disc"
      BY <2>5, <2>7, <3>3
    <3>4. CASE w.bad[i] = NoCause /\ i \notin w.seen /\ role \notin {"disc", "unknown"}
      BY <2>5, <2>6, <3>4
    <3> QED BY <3>1, <3>2, <3>3, <3>4
  <2> QED BY <2>9, <2>10, <2>11, <2>12
<1>2. Item \subseteq P
  <2> HIDE DEF P
  <2> QED BY <1>1, ItemsGrounded, GroundInduction
<1> QED BY <1>2

-----------------------------------------------------------------------------
(* The second walk. *)

\* Nor does the walk of all snapshots.
LEMMA WalkStays ==
  ASSUME NEW staged \in SUBSET Item, NEW damaged \in SUBSET Item, NEW Z, Snaps \subseteq Z,
         StaysIn(NewWalk(staged, {}, damaged), Z)
  PROVE  Met(Walked(staged, {}, damaged)) \subseteq Z
<1>1. PICK walk : WalksOf(walk, staged, {}, damaged) /\ Walked(staged, {}, damaged) = walk[Snaps]
  BY WalkedIs
<1>2. \A S \in SUBSET Snaps :
        /\ walk[S] \in Walk
        /\ walk[S] = IF S = {} THEN NewWalk(staged, {}, damaged) ELSE WalkSnapshot(walk[S \ {Latest(S)}], Latest(S))
  BY <1>1 DEF WalksOf
<1> DEFINE P == {S \in SUBSET Snaps : StaysIn(walk[S], Z)}
<1>3. \A S \in SUBSET Snaps : Parts(Snaps)[S] \subseteq P => S \in P
  <2> SUFFICES ASSUME NEW S \in SUBSET Snaps, Parts(Snaps)[S] \subseteq P
               PROVE  StaysIn(walk[S], Z)
    OBVIOUS
  <2>1. CASE S = {}
    BY <1>2, <2>1
  <2>2. CASE S # {}
    <3> DEFINE t == Latest(S)
               w == walk[S \ {t}]
    <3>1. S \ {t} \in Parts(Snaps)[S] /\ S \ {t} \in SUBSET Snaps /\ t \in Snaps /\ t \in Item /\ t \in Z
      BY <2>2, LatestIs, SnapsAre DEF Parts
    <3>2. StaysIn(w, Z) /\ w \in Walk /\ walk[S] = WalkSnapshot(w, t)
      BY <1>2, <2>2, <3>1
    <3> HIDE DEF P, t, w
    <3>3. /\ Turned(w, t) \in Walk /\ Turned(w, t).seen = w.seen /\ Turned(w, t).bad = w.bad
          /\ Turned(w, t).want = w.want /\ Turned(w, t).damaged = w.damaged
      BY <3>2, TurnedIs
    <3>4. StaysIn(Turned(w, t), Z)
      BY <3>2, <3>3 DEF StaysIn, Met, Unreadable
    <3>5. StaysIn(Visit[t][Turned(w, t)].w, Z)
      BY <3>1, <3>3, <3>4, VisitStaysIn DEF VisitStays
    <3> QED BY <3>2, <3>5 DEF WalkSnapshot, Turned
  <2> QED BY <2>1, <2>2
<1>4. SUBSET Snaps \subseteq P
  <2>1. Grounded(SUBSET Snaps, Parts(Snaps))
    BY SnapsAre, PartsGrounded
  <2> HIDE DEF P
  <2> QED BY <1>3, <2>1, GroundInduction
<1>5. StaysIn(walk[Snaps], Z)
  BY <1>4
<1> QED BY <1>1, <1>5 DEF StaysIn

\* No item without a record is below a snapshot that the walk takes and below
\* one that a disc holds.
AllDecided(staged) ==
  \A s \in Snaps : ~OnDisc(s) => \A j \in Reach[s] : j \notin staged /\ j \in Hidden => OnDisc(j)

\* What the first walk meets, the second one meets too.
LEMMA SecondMeets ==
  ASSUME NEW staged \in SUBSET Item, NEW want \in SUBSET Item, NEW damaged \in SUBSET Item, AllDecided(staged)
  PROVE  \A x \in Met(Walked(staged, {}, damaged)) : OnDisc(x) \/ x \in Met(Walked(staged, want, damaged))
<1> DEFINE w == Walked(staged, want, damaged)
           u == NewWalk(staged, {}, damaged)
           Z == {x \in Item : OnDisc(x) \/ (x \in Met(w) /\ \E s \in Snaps : ~OnDisc(s) /\ x \in Reach[s])}
<1>1. w \in Walk /\ WalkedWell(w, Snaps, staged, want, damaged)
  BY WalkedOK
<1>2. {} \in SUBSET Item
  OBVIOUS
<1>3. FreshWalk(u, staged, {}, damaged)
  BY <1>2, NewWalkOK
<1> HIDE DEF w, u
<1>4. WalkOK(w) /\ w.staged = staged /\ w.damaged = damaged /\ \A s \in Snaps : Settled(w, s) \/ s \in Met(w)
  BY <1>1 DEF WalkedWell
<1>5. Snaps \subseteq Z
  <2> SUFFICES ASSUME NEW s \in Snaps, ~OnDisc(s) PROVE s \in Met(w) /\ s \in Item /\ s \in Reach[s]
    BY SnapsAre
  <2>1. s \in Item /\ s \in Reach[s]
    BY SnapsAre, ReachSelf
  <2> QED BY <1>4, <2>1 DEF Settled, AllDecided
<1>6. \A x \in Z \cap Item : ~OnDisc(x) /\ ~Unreadable(u, x) => Range(Entries[x]) \subseteq Z
  <2> SUFFICES ASSUME NEW x \in Z, ~OnDisc(x), ~Unreadable(u, x), NEW j \in Range(Entries[x]), ~OnDisc(j)
               PROVE  j \in Item /\ j \in Met(w) /\ \E s \in Snaps : ~OnDisc(s) /\ j \in Reach[s]
    BY EntriesType
  <2>1. PICK s \in Snaps : ~OnDisc(s) /\ x \in Reach[s]
    OBVIOUS
  <2>2. j \in Item /\ j \in Reach[s]
    BY <2>1, SnapsAre, ReachWithin, EntriesType
  <2>3. Settled(w, j) \/ j \in Met(w)
    <3>1. ~Unreadable(w, x)
      BY <1>3, <1>4 DEF Unreadable, FreshWalk
    <3> QED BY <1>4, <3>1 DEF WalkOK, MetCovers
  <2>4. j \in Met(w)
    BY <1>4, <2>1, <2>2, <2>3 DEF Settled, AllDecided
  <2> QED BY <2>1, <2>2, <2>4
<1>7. StaysIn(u, Z)
  BY <1>3, <1>6 DEF StaysIn, FreshWalk
<1>8. Met(Walked(staged, {}, damaged)) \subseteq Z
  <2> HIDE DEF Z
  <2> QED BY <1>5, <1>7, WalkStays DEF u
<1> QED BY <1>8 DEF w

\* The Staged items that a plan is made for: no disc holds one, and the item log
\* knows the snapshots.
PlanOf(staged) == staged \in SUBSET Item /\ \A i \in staged : ~OnDisc(i) /\ (i \in Snapshot => log[i].state # "none")

\* What the walks leave.
Searched(w, staged, damaged) ==
  /\ w \in Walk
  /\ \E want \in SUBSET staged : WalkedWell(w, Snaps, staged, want, damaged)
  /\ AllDecided(staged) => staged \subseteq w.want \cup Met(w)

\* After the second walk each Staged item is met or wanted, when all is decided.
LEMMA SecondWalkOK ==
  ASSUME NEW staged, PlanOf(staged), NEW damaged \in SUBSET Item
  PROVE  Searched(SecondWalk(Walked(staged, {}, damaged), staged, damaged), staged, damaged)
<1> DEFINE one == Walked(staged, {}, damaged)
           missed == staged \ Met(one)
           two == Walked(staged, missed, damaged)
<1>1. staged \in SUBSET Item /\ {} \in SUBSET Item /\ missed \in SUBSET Item
  BY DEF PlanOf
<1>2. one \in Walk /\ WalkedWell(one, Snaps, staged, {}, damaged)
  BY <1>1, WalkedOK
<1>3. two \in Walk /\ WalkedWell(two, Snaps, staged, missed, damaged)
  <2> HIDE DEF one, missed
  <2> QED BY <1>1, WalkedOK
<1>4. AllDecided(staged) => \A x \in Met(one) : OnDisc(x) \/ x \in Met(two)
  <2> HIDE DEF missed
  <2> QED BY <1>1, SecondMeets
<1>5. SecondWalk(one, staged, damaged) = IF missed = {} THEN one ELSE two
  BY DEF SecondWalk
<1> HIDE DEF one, two
<1>6. CASE missed = {}
  <2>1. staged \subseteq Met(one)
    BY <1>6
  <2>2. {} \in SUBSET staged
    OBVIOUS
  <2> HIDE DEF missed
  <2> QED BY <1>2, <1>5, <1>6, <2>1, <2>2 DEF Searched, one
<1>7. CASE missed # {}
  <2>1. missed \in SUBSET staged /\ \A x \in staged : x \in missed \/ x \in Met(one)
    OBVIOUS
  <2> HIDE DEF missed
  <2>2. AllDecided(staged) => staged \subseteq two.want \cup Met(two)
    BY <1>3, <1>4, <2>1 DEF WalkedWell, PlanOf
  <2> QED BY <1>3, <1>5, <1>7, <2>1, <2>2 DEF Searched, one
<1> QED BY <1>6, <1>7

-----------------------------------------------------------------------------
(* The orphans. *)

\* A finite set of numbers has a largest one.
LEMMA MaxOf ==
  ASSUME NEW F, F \subseteq Nat, IsFiniteSet(F)
  PROVE  \A S \in SUBSET F : S # {} => Max(S) \in S /\ \A x \in S : Max(S) >= x
<1> DEFINE P == {S \in SUBSET F : S # {} => \E m \in S : \A x \in S : m >= x}
<1> DEFINE N == SUBSET F
<1>1. \A S \in N : Parts(F)[S] \subseteq P => S \in P
  <2> SUFFICES ASSUME NEW S \in SUBSET F, Parts(F)[S] \subseteq P, NEW s \in S
               PROVE  \E m \in S : \A x \in S : m >= x
    OBVIOUS
  <2>1. S \ {s} \in P
    BY DEF Parts
  <2>2. CASE S \ {s} = {}
    BY <2>2
  <2>3. CASE S \ {s} # {}
    <3>1. PICK m \in S \ {s} : \A x \in S \ {s} : m >= x
      BY <2>1, <2>3
    <3>2. m \in Nat /\ s \in Nat /\ \A x \in S : x \in Nat
      OBVIOUS
    <3>3. CASE m >= s
      BY <3>1, <3>3
    <3>4. CASE s >= m
      <4>1. \A x \in S : s >= x
        BY <3>1, <3>2, <3>4
      <4> QED BY <4>1
    <3> QED BY <3>2, <3>3, <3>4
  <2> QED BY <2>2, <2>3
<1>2. N \subseteq P
  <2>1. Grounded(N, Parts(F))
    BY PartsGrounded
  <2> HIDE DEF P, N
  <2> QED BY <1>1, <2>1, GroundInduction
<1> SUFFICES ASSUME NEW S \in SUBSET F, S # {} PROVE Max(S) \in S /\ \A x \in S : Max(S) >= x
  OBVIOUS
<1>3. \E m \in S : \A x \in S : m >= x
  BY <1>2
<1> QED BY <1>3, Zenon DEF Max

LEMMA MaxIs == \A S \in SUBSET Item : S # {} => Max(S) \in S /\ Max(S) \in Item
BY OrderAssumption, MaxOf

LEMMA MinIs == \A S \in SUBSET Item : S # {} => Min(S) \in S
<1> SUFFICES ASSUME NEW S \in SUBSET Item, S # {} PROVE Min(S) \in S
  OBVIOUS
<1>1. \E m \in S : \A n \in S : m <= n
  BY OrderAssumption, LeastNumber
<1> QED BY <1>1, Zenon DEF Min

LEMMA OrphanType == ASSUME NEW w \in Walk, NEW i \in Item PROVE Orphan(w, i) \in Walk
<1>1. MarkBad(w, i, i) \in Outcome
  BY CauseType, MarkBadIs
<1>2. Visit[i][w] \in Outcome
  BY VisitIs DEF Visits
<1> HIDE DEF Walk
<1> QED BY <1>1, <1>2 DEF Orphan, Outcome

\* rest has the walk after each set of wanted items.
RestsOf(rest, w) ==
  /\ rest \in [SUBSET w.want -> Walk]
  /\ \A S \in SUBSET w.want :
       rest[S] = IF S = {} THEN [w EXCEPT !.want = {}, !.underDisc = FALSE] ELSE Orphan(rest[S \ {Max(S)}], Max(S))

\* The loop over the orphans follows its recursive definition.
LEMMA OrphansAre ==
  ASSUME NEW w \in Walk
  PROVE  \E rest : RestsOf(rest, w) /\ Orphans(w) = rest[w.want]
<1> DEFINE N == SUBSET w.want
           start == [w EXCEPT !.want = {}, !.underDisc = FALSE]
           E(h) == [S \in SUBSET w.want |->
                      IF S = {} THEN [w EXCEPT !.want = {}, !.underDisc = FALSE] ELSE Orphan(h[S \ {Max(S)}], Max(S))]
           G == [a \in N \X [N -> Walk] |->
                   IF a[1] = {} THEN start ELSE Orphan(a[2][a[1] \ {Max(a[1])}], Max(a[1]))]
<1>0. w.want \subseteq Item /\ IsFiniteSet(w.want)
  BY WalkHas, OrderAssumption, FS_Subset DEF WalkFields
<1>1. \A S \in N : S # {} => Max(S) \in Item /\ S \ {Max(S)} \in N /\ S \ {Max(S)} \in Parts(w.want)[S]
  BY <1>0, MaxIs DEF Parts
<1>2. start \in Walk
  BY DEF Walk
<1>3. \A S \in N, f \in [N -> Walk] :
        G[<<S, f>>] = IF S = {} THEN start ELSE Orphan(f[S \ {Max(S)}], Max(S))
  OBVIOUS
<1>4. \A S \in N, f \in [N -> Walk] : S # {} => Orphan(f[S \ {Max(S)}], Max(S)) \in Walk
  <2> SUFFICES ASSUME NEW S \in N, NEW f \in [N -> Walk], S # {}
               PROVE  Orphan(f[S \ {Max(S)}], Max(S)) \in Walk
    OBVIOUS
  <2>1. f[S \ {Max(S)}] \in Walk /\ Max(S) \in Item
    BY <1>1
  <2> QED BY <2>1, OrphanType
<1> HIDE DEF start
<1>5. Local(N, Walk, Parts(w.want), G)
  <2>1. G \in [N \X [N -> Walk] -> Walk]
    <3>1. \A a \in N \X [N -> Walk] :
            (IF a[1] = {} THEN start ELSE Orphan(a[2][a[1] \ {Max(a[1])}], Max(a[1]))) \in Walk
      BY <1>2, <1>4
    <3> QED BY <3>1
  <2>2. ASSUME NEW S \in N, NEW f \in [N -> Walk], NEW g \in [N -> Walk],
               \A y \in Parts(w.want)[S] : f[y] = g[y]
        PROVE  G[<<S, f>>] = G[<<S, g>>]
    <3>1. S # {} => f[S \ {Max(S)}] = g[S \ {Max(S)}]
      BY <1>1, <2>2
    <3> HIDE DEF G
    <3> QED BY <1>3, <3>1
  <2> HIDE DEF G, N
  <2> QED BY <2>1, <2>2 DEF Local
<1>6. Grounded(N, Parts(w.want))
  BY <1>0, PartsGrounded
<1>7. PICK f : Solution(f, N, Walk, G)
  <2> HIDE DEF G, N
  <2>1. Walk # {}
    BY <1>2
  <2> QED BY <1>5, <1>6, <2>1, RecursionExists
<1>8. f \in [N -> Walk] /\ \A S \in N : f[S] = IF S = {} THEN start ELSE Orphan(f[S \ {Max(S)}], Max(S))
  <2>1. f \in [N -> Walk]
    BY <1>7 DEF Solution
  <2> HIDE DEF G
  <2> QED BY <1>3, <1>7, <2>1 DEF Solution
<1>9. f = E(f)
  BY <1>8 DEF start
<1>10. Orphans(w) = (CHOOSE h : h = E(h))[w.want]
  BY Zenon DEF Orphans
<1> HIDE DEF E, G
<1>11. (CHOOSE h : h = E(h)) = E(CHOOSE h : h = E(h))
  BY <1>9, Zenon
<1>12. ASSUME NEW h, h = E(h) PROVE RestsOf(h, w)
  <2>1. h = [S \in SUBSET w.want |-> IF S = {} THEN start ELSE Orphan(h[S \ {Max(S)}], Max(S))]
    BY <1>12, Zenon DEF E, start
  <2>2. \A S \in N : h[S] = IF S = {} THEN start ELSE Orphan(h[S \ {Max(S)}], Max(S))
    BY <2>1
  <2> DEFINE P == {S \in N : h[S] \in Walk}
  <2>3. \A S \in N : Parts(w.want)[S] \subseteq P => S \in P
    <3> SUFFICES ASSUME NEW S \in N, Parts(w.want)[S] \subseteq P PROVE h[S] \in Walk
      OBVIOUS
    <3>1. CASE S = {}
      BY <1>2, <2>2, <3>1
    <3>2. CASE S # {}
      <4>1. h[S \ {Max(S)}] \in Walk /\ Max(S) \in Item
        BY <1>1, <3>2
      <4> HIDE DEF P, N
      <4> QED BY <2>2, <3>2, <4>1, OrphanType
    <3> QED BY <3>1, <3>2
  <2>4. N \subseteq P
    <3> HIDE DEF P, N
    <3> QED BY <1>6, <2>3, GroundInduction
  <2>5. \A S \in N : h[S] \in Walk
    BY <2>4
  <2>6. h \in [N -> Walk]
    <3>1. \A S \in N : (IF S = {} THEN start ELSE Orphan(h[S \ {Max(S)}], Max(S))) \in Walk
      BY <2>2, <2>5
    <3> QED BY <2>1, <3>1
  <2> QED BY <2>2, <2>6 DEF RestsOf, start
<1> QED
  <2> DEFINE h == CHOOSE x : x = E(x)
  <2>1. h = E(h) /\ Orphans(w) = h[w.want]
    BY <1>10, <1>11
  <2> HIDE DEF h
  <2> QED BY <1>12, <2>1

PlanWell(w, staged, damaged) ==
  /\ w \in Walk /\ WalkOK(w) /\ w.staged = staged /\ w.damaged = damaged /\ OrderOK(w, Snaps)
  /\ AllDecided(staged) => staged \subseteq Met(w)

\* What the orphans S of the walk w leave.
OrphansWell(v, w, S, staged, damaged) ==
  /\ WalkOK(v) /\ v.staged = staged /\ v.damaged = damaged /\ v.underDisc = FALSE /\ OrderOK(v, Snaps)
  /\ Met(w) \subseteq Met(v) /\ S \subseteq Met(v)

\* An object without a file is no unit.
LEMMA OrderKeeps ==
  ASSUME NEW u \in Walk, NEW v \in Walk, WalkOK(v), v.staged = u.staged, v.damaged = u.damaged,
         NEW U, Extends(u, v, U), \A x \in U : x \in Snapshot => file[x] # "good", OrderOK(u, Snaps)
  PROVE  OrderOK(v, Snaps)
<1> SUFFICES ASSUME NEW k \in 1 .. Len(v.units), v.units[k].id \in Snapshot
             PROVE  /\ v.units[k].id \in Snaps
                    /\ \A s \in Snaps : Earlier(s, v.units[k].id) /\ Sound(v, s) /\ Decided(v, s)
                                          => Left[s] \subseteq Upto(v, k)
  BY DEF OrderOK
<1>1. Len(u.units) \in Nat /\ Len(v.units) \in Nat
  BY WalkHas
<1>2. ~Unreadable(v, v.units[k].id)
  BY DEF WalkOK, TakenUnits
<1>3. v.units[k].id \notin Chunk
  BY OrderAssumption DEF Meta
<1>4. v.units[k].id \notin U
  BY <1>2, <1>3 DEF Unreadable
<1>5. k \in 1 .. Len(u.units) /\ \A l \in 1 .. k : v.units[l] = u.units[l]
  BY <1>1, <1>4 DEF Extends
<1>6. Upto(v, k) = Upto(u, k) /\ v.units[k] = u.units[k]
  BY <1>1, <1>5 DEF Upto
<1>7. \A s : (Sound(v, s) <=> Sound(u, s)) /\ (Decided(v, s) <=> Decided(u, s))
  BY ScopeOfStaged DEF Sound, Decided
<1> QED BY <1>5, <1>6, <1>7 DEF OrderOK

\* One orphan keeps the walk right and the snapshots in their order.
LEMMA OrphanStep ==
  ASSUME NEW staged, PlanOf(staged), NEW damaged, NEW w \in Walk, Searched(w, staged, damaged),
         NEW S, NEW i \in staged, NEW u \in Walk, OrphansWell(u, w, S, staged, damaged)
  PROVE  OrphansWell(Orphan(u, i), w, S \cup {i}, staged, damaged)
<1> DEFINE v == Orphan(u, i)
<1>1. i \in Item /\ ~OnDisc(i)
  BY DEF PlanOf
<1>2. CASE i \in Met(u)
  <2>1. v = u
    BY <1>2 DEF Orphan
  <2> HIDE DEF v
  <2>2. OrphansWell(v, w, S \cup {i}, staged, damaged)
    BY <1>2, <2>1 DEF OrphansWell
  <2> QED BY <2>2 DEF v
<1>3. CASE i \notin Met(u) /\ file[i] = "missing"
  <2>1. v = MarkBad(u, i, i).w
    BY <1>3 DEF Orphan
  <2>2. Unsound(u, i) /\ i \in Reach[i]
    BY <1>1, <1>3, ReachSelf DEF Unsound
  <2>3. Unreadable(u, i) \/ \A j \in Range(Entries[i]) : Settled(u, j) \/ j \in Met(u)
    <3>1. CASE i \in Chunk
      BY <3>1, EntriesAssumption DEF Range
    <3>2. CASE i \notin Chunk
      BY <1>3, <3>2 DEF Unreadable
    <3> QED BY <3>1, <3>2
  <2>4. v \in Walk /\ Grows(u, v, {i}) /\ WalkOK(v) /\ i \in Met(v)
    <3>1. WalkOK(u)
      BY DEF OrphansWell
    <3> HIDE DEF v
    <3> QED BY <1>1, <2>1, <2>2, <2>3, <3>1, MarkBadOK
  <2> HIDE DEF v
  <2>5. SameScope(u, v) /\ Extends(u, v, {i}) /\ Met(u) \subseteq Met(v)
    BY <2>4, GrowsMet DEF Grows
  <2>6. OrderOK(v, Snaps)
    BY <1>3, <2>4, <2>5, OrderKeeps DEF SameScope, OrphansWell
  <2>7. OrphansWell(v, w, S \cup {i}, staged, damaged)
    BY <2>4, <2>5, <2>6 DEF OrphansWell, SameScope
  <2> QED BY <2>7 DEF v
<1>4. CASE i \notin Met(u) /\ file[i] # "missing"
  <2>1. v = Visit[i][u].w
    BY <1>4 DEF Orphan
  <2>2. MayVisit(u, i)
    BY DEF MayVisit, OrphansWell
  <2>3. VisitOutcome(u, i, Visit[i][u])
    BY <1>1, <2>2, VisitOK DEF VisitsWell
  <2>4. v \in Walk
    BY <1>1, OrphanType
  <2> HIDE DEF v
  <2>5. Grows(u, v, Reach[i]) /\ WalkOK(v) /\ (Settled(u, i) \/ i \in Met(v))
    BY <2>1, <2>3 DEF VisitOutcome
  <2>6. i \in Met(v)
    BY <1>1, <2>5 DEF Settled, OrphansWell
  <2>7. SameScope(u, v) /\ Extends(u, v, Reach[i]) /\ Met(u) \subseteq Met(v)
    BY <2>4, <2>5, GrowsMet DEF Grows
  <2>8. i \notin Snapshot
    <3> SUFFICES ASSUME i \in Snapshot PROVE FALSE
      OBVIOUS
    <3>1. i \in Snaps
      BY <1>4 DEF PlanOf, Snaps
    <3>2. Settled(w, i) \/ i \in Met(w)
      BY <3>1 DEF Searched, WalkedWell
    <3>3. w.staged = staged
      BY DEF Searched, WalkedWell
    <3> QED BY <1>1, <1>4, <3>2, <3>3 DEF Settled, OrphansWell
  <2>9. \A x \in Reach[i] : x \notin Snapshot
    BY <1>1, <2>8, ReachOfSnapshot
  <2>10. OrderOK(v, Snaps)
    BY <2>4, <2>5, <2>7, <2>9, OrderKeeps DEF SameScope, OrphansWell
  <2>11. OrphansWell(v, w, S \cup {i}, staged, damaged)
    BY <2>5, <2>6, <2>7, <2>10 DEF OrphansWell, SameScope
  <2> QED BY <2>11 DEF v
<1> QED BY <1>2, <1>3, <1>4

\* After the orphans each Staged item is met, when all is decided.
LEMMA OrphansOK ==
  ASSUME NEW staged, PlanOf(staged), NEW damaged, NEW w \in Walk, Searched(w, staged, damaged)
  PROVE  PlanWell(Orphans(w), staged, damaged)
<1>1. PICK rest : RestsOf(rest, w) /\ Orphans(w) = rest[w.want]
  BY OrphansAre
<1>2. \A S \in SUBSET w.want :
        /\ rest[S] \in Walk
        /\ rest[S] = IF S = {} THEN [w EXCEPT !.want = {}, !.underDisc = FALSE] ELSE Orphan(rest[S \ {Max(S)}], Max(S))
  BY <1>1 DEF RestsOf
<1>3. PICK want \in SUBSET staged : WalkedWell(w, Snaps, staged, want, damaged)
  BY DEF Searched
<1>4. w.want \subseteq staged /\ w.want \subseteq Item /\ IsFiniteSet(w.want) /\ w.staged = staged /\ w.damaged = damaged
  BY <1>3, OrderAssumption, FS_Subset DEF WalkedWell, PlanOf
<1> DEFINE P == {S \in SUBSET w.want : OrphansWell(rest[S], w, S, staged, damaged)}
<1>5. \A S \in SUBSET w.want : Parts(w.want)[S] \subseteq P => S \in P
  <2> SUFFICES ASSUME NEW S \in SUBSET w.want, Parts(w.want)[S] \subseteq P
               PROVE  OrphansWell(rest[S], w, S, staged, damaged)
    OBVIOUS
  <2>1. CASE S = {}
    <3> DEFINE v == rest[S]
    <3>1. v \in Walk /\ v = [w EXCEPT !.want = {}, !.underDisc = FALSE]
      BY <1>2, <2>1
    <3> HIDE DEF v
    <3>2. /\ v.seen = w.seen /\ v.bad = w.bad /\ v.units = w.units /\ v.staged = w.staged
          /\ v.damaged = w.damaged /\ v.underDisc = FALSE
      BY <3>1 DEF Walk
    <3>3. WalkOK(w) /\ OrderOK(w, Snaps)
      BY <1>3 DEF WalkedWell
    <3>4. WalkOK(v) /\ Met(v) = Met(w)
      BY <3>1, <3>2, <3>3, TurnedOK
    <3>6. OrderOK(v, Snaps)
      BY <3>2, <3>3, ScopeOfStaged DEF OrderOK, Upto, Sound, Decided
    <3>7. OrphansWell(v, w, S, staged, damaged)
      BY <1>4, <2>1, <3>2, <3>4, <3>6 DEF OrphansWell
    <3> QED BY <3>7 DEF v
  <2>2. CASE S # {}
    <3> DEFINE i == Max(S)
               u == rest[S \ {i}]
    <3>1. i \in S /\ i \in staged /\ S \ {i} \in Parts(w.want)[S] /\ S \ {i} \in SUBSET w.want /\ S = (S \ {i}) \cup {i}
      BY <1>4, <2>2, MaxIs DEF Parts
    <3>2. OrphansWell(u, w, S \ {i}, staged, damaged) /\ u \in Walk /\ rest[S] = Orphan(u, i)
      BY <1>2, <2>2, <3>1
    <3> HIDE DEF i, u, P
    <3>3. OrphansWell(Orphan(u, i), w, (S \ {i}) \cup {i}, staged, damaged)
      BY <3>1, <3>2, OrphanStep
    <3> QED BY <3>1, <3>2, <3>3
  <2> QED BY <2>1, <2>2
<1>6. SUBSET w.want \subseteq P
  <2>1. Grounded(SUBSET w.want, Parts(w.want))
    BY <1>4, PartsGrounded
  <2> HIDE DEF P
  <2> QED BY <1>5, <2>1, GroundInduction
<1>7. OrphansWell(rest[w.want], w, w.want, staged, damaged) /\ rest[w.want] \in Walk
  BY <1>2, <1>6
<1>8. AllDecided(staged) => staged \subseteq Met(rest[w.want])
  BY <1>7 DEF OrphansWell, Searched
<1> HIDE DEF P
<1> QED BY <1>1, <1>7, <1>8 DEF PlanWell, OrphansWell

\* The candidates are the units of a walk that is right and in pack order.
LEMMA BuildPackPlanOK ==
  ASSUME NEW staged, PlanOf(staged), NEW damaged \in SUBSET Item
  PROVE  \E w : PlanWell(w, staged, damaged) /\ BuildPackPlan(staged, damaged) = w.units
<1> DEFINE w == SecondWalk(Walked(staged, {}, damaged), staged, damaged)
<1>1. Searched(w, staged, damaged)
  BY SecondWalkOK
<1>2. BuildPackPlan(staged, damaged) = Finished(w).units
  BY DEF BuildPackPlan
<1> HIDE DEF w
<1>3. w \in Walk
  BY <1>1 DEF Searched
<1>4. PlanWell(Finished(w), staged, damaged)
  <2>1. CASE w.want = {}
    BY <1>1, <2>1 DEF Finished, Searched, PlanWell, WalkedWell
  <2>2. CASE w.want # {}
    BY <1>1, <1>3, <2>2, OrphansOK DEF Finished
  <2> QED BY <2>1, <2>2
<1> QED BY <1>2, <1>4

-----------------------------------------------------------------------------
(* The plan, built again without the chunks that miss. *)

LEMMA UnitsType ==
  ASSUME NEW staged \in SUBSET Item, NEW damaged \in SUBSET Item
  PROVE  BuildPackPlan(staged, damaged) \in Seq(Unit)
<1> DEFINE one == Walked(staged, {}, damaged)
           w == SecondWalk(one, staged, damaged)
<1>1. \A want \in SUBSET Item : Walked(staged, want, damaged) \in Walk
  BY WalkedOK
<1>2. one \in Walk /\ staged \ Met(one) \in SUBSET Item
  BY <1>1
<1>3. w \in Walk
  BY <1>1, <1>2 DEF SecondWalk
<1> HIDE DEF w
<1>4. Finished(w) \in Walk
  <2>1. PICK rest : RestsOf(rest, w) /\ Orphans(w) = rest[w.want]
    BY <1>3, OrphansAre
  <2>2. w.want \in SUBSET w.want
    OBVIOUS
  <2>3. Orphans(w) \in Walk
    BY <2>1, <2>2 DEF RestsOf
  <2> QED BY <1>3, <2>3 DEF Finished
<1>5. BuildPackPlan(staged, damaged) = Finished(w).units
  BY DEF BuildPackPlan, w
<1>6. WalkFields(Finished(w))
  BY <1>4, WalkHas
<1> QED BY <1>5, <1>6 DEF WalkFields

LEMMA IdsType ==
  ASSUME NEW units \in Seq(Unit)
  PROVE  /\ Ids(units) \subseteq Item /\ Len(units) \in Nat
         /\ Ids(units) = {units[k].id : k \in 1 .. Len(units)}
<1>1. \A u \in Unit : u.id \in Item
  BY DEF Unit
<1>2. Len(units) \in Nat /\ DOMAIN units = 1 .. Len(units) /\ \A k \in 1 .. Len(units) : units[k] \in Unit
  <2> HIDE DEF Unit
  <2> QED OBVIOUS
<1> QED BY <1>1, <1>2 DEF Ids

Missing(units, damaged) == {i \in Ids(units) \cap Chunk : file[i] = "missing"} \ damaged

LEMMA ReplanIs ==
  ASSUME NEW units \in Seq(Unit), NEW D \in SUBSET Chunk, NEW plan
  PROVE  /\ Replan(units, D, plan) = IF Missing(units, D) = {} THEN units ELSE plan[D \cup Missing(units, D)]
         /\ Missing(units, D) # {} => D \cup Missing(units, D) \in Larger(Chunk)[D]
         /\ D \cup Missing(units, D) \in SUBSET Chunk
BY DEF Replan, Missing, Larger

PlansOf(plan, staged) ==
  /\ plan \in [SUBSET Chunk -> Seq(Unit)]
  /\ \A D \in SUBSET Chunk : plan[D] = Replan(BuildPackPlan(staged, D), D, plan)

LEMMA ChunksAre == IsFiniteSet(Chunk) /\ Chunk \subseteq Item
<1>1. Chunk \subseteq Item
  BY DEF Item
<1> QED BY <1>1, OrderAssumption, FS_Subset

\* The plan that is built again follows its recursive definition.
LEMMA PlanIs ==
  ASSUME NEW staged \in SUBSET Item, NEW damaged
  PROVE  \E plan : PlansOf(plan, staged) /\ Plan(staged, damaged) = plan[damaged]
<1> DEFINE N == SUBSET Chunk
           T == Seq(Unit)
           B == [D \in N |-> BuildPackPlan(staged, D)]
           E(h) == [D \in SUBSET Chunk |-> Replan(BuildPackPlan(staged, D), D, h)]
           G == [a \in N \X [N -> T] |-> Replan(B[a[1]], a[1], a[2])]
<1>1. \A D \in N : B[D] = BuildPackPlan(staged, D) /\ B[D] \in T
  <2> TAKE D \in N
  <2>1. D \in SUBSET Item
    BY ChunksAre
  <2>2. BuildPackPlan(staged, D) \in T
    BY <2>1, UnitsType
  <2> QED BY <2>2
<1> HIDE DEF B
<1>2. \A D \in N, f \in [N -> T] : G[<<D, f>>] = Replan(B[D], D, f)
  OBVIOUS
<1>3. \A D \in N, f \in [N -> T] : Replan(B[D], D, f) \in T
  <2> SUFFICES ASSUME NEW D \in N, NEW f \in [N -> T] PROVE Replan(B[D], D, f) \in T
    OBVIOUS
  <2>1. B[D] \in T
    BY <1>1
  <2> HIDE DEF B, T, N
  <2> DEFINE m == Missing(B[D], D)
  <2>2. Replan(B[D], D, f) = IF m = {} THEN B[D] ELSE f[D \cup m]
    BY <2>1, ReplanIs DEF T, N
  <2>3. D \cup m \in N
    BY <2>1, ReplanIs DEF T, N
  <2> HIDE DEF m
  <2> QED BY <2>1, <2>2, <2>3
<1>4. Local(N, T, Larger(Chunk), G)
  <2>1. G \in [N \X [N -> T] -> T]
    <3>1. \A a \in N \X [N -> T] : Replan(B[a[1]], a[1], a[2]) \in T
      BY <1>3
    <3> QED BY <3>1
  <2>2. ASSUME NEW D \in N, NEW f \in [N -> T], NEW g \in [N -> T],
               \A y \in Larger(Chunk)[D] : f[y] = g[y]
        PROVE  G[<<D, f>>] = G[<<D, g>>]
    <3>1. B[D] \in Seq(Unit)
      BY <1>1
    <3> DEFINE m == Missing(B[D], D)
    <3>2. /\ Replan(B[D], D, f) = IF m = {} THEN B[D] ELSE f[D \cup m]
          /\ Replan(B[D], D, g) = IF m = {} THEN B[D] ELSE g[D \cup m]
          /\ m # {} => D \cup m \in Larger(Chunk)[D]
      <4> HIDE DEF B, T, G
      <4> QED BY <3>1, ReplanIs
    <3> HIDE DEF G, m, N, T
    <3>3. Replan(B[D], D, f) = Replan(B[D], D, g)
      BY <2>2, <3>2
    <3> QED BY <1>2, <3>3
  <2> HIDE DEF G, N, T
  <2> QED BY <2>1, <2>2 DEF Local
<1>5. Grounded(N, Larger(Chunk))
  BY ChunksAre, LargerGrounded
<1>6. PICK f : Solution(f, N, T, G)
  <2>1. T # {}
    <3>1. << >> \in T
      OBVIOUS
    <3> QED BY <3>1
  <2> HIDE DEF G, N, T
  <2> QED BY <1>4, <1>5, <2>1, RecursionExists
<1>7. f \in [N -> T] /\ \A D \in N : f[D] = Replan(B[D], D, f)
  <2>1. f \in [N -> T]
    BY <1>6 DEF Solution
  <2> HIDE DEF G, N, T
  <2> QED BY <1>2, <1>6, <2>1 DEF Solution
<1>8. f = E(f)
  <2>1. \A D \in N : f[D] = Replan(BuildPackPlan(staged, D), D, f)
    BY <1>1, <1>7
  <2> HIDE DEF T
  <2> QED BY <1>7, <2>1
<1>9. Plan(staged, damaged) = (CHOOSE h : h = E(h))[damaged]
  BY Zenon DEF Plan
<1> HIDE DEF E, G
<1>10. (CHOOSE h : h = E(h)) = E(CHOOSE h : h = E(h))
  BY <1>8, Zenon
<1>11. ASSUME NEW h, h = E(h) PROVE PlansOf(h, staged)
  <2>1. h = [D \in SUBSET Chunk |-> Replan(BuildPackPlan(staged, D), D, h)]
    BY <1>11, Zenon DEF E
  <2>2. \A D \in N : h[D] = Replan(BuildPackPlan(staged, D), D, h)
    BY <2>1
  <2>3. \A D \in N : h[D] = Replan(B[D], D, h) /\ B[D] \in Seq(Unit)
    BY <1>1, <2>2
  <2> DEFINE P == {D \in N : h[D] \in T}
  <2>4. \A D \in N : Larger(Chunk)[D] \subseteq P => D \in P
    <3> SUFFICES ASSUME NEW D \in N, Larger(Chunk)[D] \subseteq P PROVE h[D] \in T
      OBVIOUS
    <3> DEFINE m == Missing(B[D], D)
    <3>1. /\ Replan(B[D], D, h) = IF m = {} THEN B[D] ELSE h[D \cup m]
          /\ m # {} => D \cup m \in Larger(Chunk)[D]
      <4> HIDE DEF P, T
      <4> QED BY <2>3, ReplanIs
    <3> HIDE DEF m, N
    <3>2. m # {} => h[D \cup m] \in T
      BY <3>1
    <3> HIDE DEF P
    <3> QED BY <2>3, <3>1, <3>2
  <2>5. N \subseteq P
    <3> HIDE DEF P, N
    <3> QED BY <1>5, <2>4, GroundInduction
  <2>6. h \in [N -> T]
    <3>1. \A D \in N : h[D] \in T
      BY <2>5
    <3>2. \A D \in N : Replan(BuildPackPlan(staged, D), D, h) \in T
      BY <2>2, <3>1
    <3> HIDE DEF T
    <3> QED BY <2>1, <3>2
  <2> QED BY <2>2, <2>6 DEF PlansOf
<1> QED
  <2> DEFINE h == CHOOSE x : x = E(x)
  <2>1. h = E(h) /\ Plan(staged, damaged) = h[damaged]
    BY <1>9, <1>10
  <2> HIDE DEF h
  <2> QED BY <1>11, <2>1

\* The units of a plan without the chunks D are those of a walk without D and
\* some chunks that have no file.
LEMMA PlanOK ==
  ASSUME NEW staged, PlanOf(staged), NEW damaged \in SUBSET Chunk
  PROVE  \E D \in SUBSET Chunk, w \in Walk :
           /\ PlanWell(w, staged, D) /\ Plan(staged, damaged) = w.units
           /\ damaged \subseteq D /\ \A i \in D \ damaged : file[i] = "missing"
<1>1. PICK plan : PlansOf(plan, staged) /\ Plan(staged, damaged) = plan[damaged]
  BY PlanIs DEF PlanOf
<1> DEFINE Good(C) == \E D \in SUBSET Chunk, w \in Walk : /\ PlanWell(w, staged, D) /\ plan[C] = w.units /\ C \subseteq D
                                                 /\ \A i \in D \ C : file[i] = "missing"
           P == {C \in SUBSET Chunk : Good(C)}
<1>2. \A C \in SUBSET Chunk : Larger(Chunk)[C] \subseteq P => C \in P
  <2> SUFFICES ASSUME NEW C \in SUBSET Chunk, Larger(Chunk)[C] \subseteq P PROVE Good(C)
    OBVIOUS
  <2> DEFINE units == BuildPackPlan(staged, C)
             m == Missing(units, C)
  <2>0. staged \in SUBSET Item /\ C \in SUBSET Item
    BY ChunksAre DEF PlanOf
  <2>1. units \in Seq(Unit)
    BY <2>0, UnitsType
  <2>2. PICK w : PlanWell(w, staged, C) /\ units = w.units
    BY <2>0, BuildPackPlanOK
  <2> HIDE DEF units
  <2>3. plan[C] = Replan(units, C, plan)
    BY <1>1 DEF PlansOf, units
  <2>4. /\ plan[C] = IF m = {} THEN units ELSE plan[C \cup m]
        /\ m # {} => C \cup m \in Larger(Chunk)[C]
    <3> HIDE DEF P
    <3> QED BY <2>1, <2>3, ReplanIs
  <2>50. w \in Walk
    BY <2>2 DEF PlanWell
  <2>5. CASE m = {}
    <3>1. plan[C] = w.units
      BY <2>2, <2>4, <2>5
    <3> QED BY <2>2, <2>50, <3>1
  <2>6. CASE m # {}
    <3>1. C \cup m \in P /\ plan[C] = plan[C \cup m]
      BY <2>4, <2>6
    <3>2. \A i \in m : file[i] = "missing"
      BY DEF Missing
    <3>3. PICK D \in SUBSET Chunk, v \in Walk : /\ PlanWell(v, staged, D) /\ plan[C \cup m] = v.units /\ C \cup m \subseteq D
                                      /\ \A i \in D \ (C \cup m) : file[i] = "missing"
      BY <3>1
    <3> HIDE DEF m, P
    <3>4. plan[C] = v.units /\ C \subseteq D /\ \A i \in D \ C : file[i] = "missing"
      BY <3>1, <3>2, <3>3
    <3> QED BY <3>3, <3>4
  <2> QED BY <2>5, <2>6
<1>3. SUBSET Chunk \subseteq P
  <2>1. Grounded(SUBSET Chunk, Larger(Chunk))
    BY ChunksAre, LargerGrounded
  <2> HIDE DEF P
  <2> QED BY <1>2, <2>1, GroundInduction
<1>4. Good(damaged)
  BY <1>3
<1> QED BY <1>1, <1>4

-----------------------------------------------------------------------------
(* The run of pack, built again without the chunks that the copy finds bad. *)

Run == [placed : Seq(Unit), staged : SUBSET Item, fits : BOOLEAN]

\* The selection ends before the first candidate that does not fit.
LEMMA SelectRunIs ==
  ASSUME NEW units \in Seq(Unit), NEW fixed, NEW files, NEW t
  PROVE  LET k == SelectRun(units, fixed, files, t) IN
         k \in 0 .. Len(units) /\ \A j \in 1 .. k : Fits(units, j, fixed, files, t)
<1> DEFINE F == 0 .. Len(units)
           S == {k \in F : \A j \in 1 .. k : Fits(units, j, fixed, files, t)}
<1>1. F \subseteq Nat /\ IsFiniteSet(F)
  <2>1. Len(units) \in Nat
    BY IdsType
  <2> QED BY <2>1, FS_Interval
<1>2. 0 \in S
  <2>1. Len(units) \in Nat
    BY IdsType
  <2>2. 1 .. 0 = {} /\ 0 \in F
    BY <2>1
  <2> QED BY <2>2
<1>3. S \in SUBSET F /\ S # {}
  BY <1>2
<1>4. Max(S) \in S
  <2> HIDE DEF S, F
  <2> QED BY <1>1, <1>3, MaxOf
<1>5. SelectRun(units, fixed, files, t) = Max(S)
  BY Zenon DEF SelectRun
<1> QED BY <1>4, <1>5

FirstOf(placed, units) == \E k \in 0 .. Len(units) : placed = SubSeq(units, 1, k)

\* The run has the first units.
LEMMA RunIs ==
  ASSUME NEW units \in Seq(Unit), NEW staged \in SUBSET Item, NEW t
  PROVE  /\ Planned(units, staged, t) \in Run
         /\ Planned(units, staged, t).staged = staged \cup Ids(units)
         /\ FirstOf(Planned(units, staged, t).placed, units)
<1> DEFINE k == SelectRun(units, Fixed, Files, t)
           fits == CheckCapacity(LaidOut(units, k, Cardinality(Carried), Fixed, Files), Files + k + 1, t)
           placed == SubSeq(units, 1, k)
           all == staged \cup Ids(units)
<1>1. k \in 0 .. Len(units)
  BY SelectRunIs
<1>2. all \in SUBSET Item /\ Len(units) \in Nat
  BY IdsType
<1>3. fits \in BOOLEAN
  BY DEF CheckCapacity
<1>4. Planned(units, staged, t) = [placed |-> placed, staged |-> all, fits |-> fits]
  BY DEF Planned, RunOf
<1> HIDE DEF k, fits, all
<1>5. placed \in Seq(Unit)
  <2> HIDE DEF Unit
  <2> QED BY <1>1, <1>2
<1>6. FirstOf(placed, units)
  BY <1>1 DEF FirstOf
<1> HIDE DEF placed
<1>7. Planned(units, staged, t) \in Run
  BY <1>2, <1>3, <1>4, <1>5 DEF Run
<1> QED BY <1>4, <1>6, <1>7 DEF all

BadCopies(run, D) == {i \in Ids(run.placed) \cap Chunk : file[i] = "bad"} \ D

\* A run with a bad chunk is built again with one more damaged chunk.
LEMMA CopyRunIs ==
  ASSUME NEW run \in Run, NEW D \in SUBSET Chunk, NEW pack
  PROVE  /\ CopyRun(run, D, pack) = IF ~run.fits \/ BadCopies(run, D) = {} THEN run
                                    ELSE pack[D \cup {Min(BadCopies(run, D))}][run.staged]
         /\ BadCopies(run, D) # {} => /\ D \cup {Min(BadCopies(run, D))} \in Larger(Chunk)[D]
                                      /\ file[Min(BadCopies(run, D))] = "bad"
<1> DEFINE b == BadCopies(run, D)
<1>1. b \in SUBSET Item /\ b \in SUBSET Chunk /\ b \cap D = {} /\ \A i \in b : file[i] = "bad"
  BY ChunksAre DEF BadCopies
<1>2. CopyRun(run, D, pack) = IF ~run.fits \/ b = {} THEN run ELSE pack[D \cup {Min(b)}][run.staged]
  BY DEF CopyRun, BadCopies
<1> HIDE DEF b
<1>3. b # {} => Min(b) \in b
  BY <1>1, MinIs
<1> QED BY <1>1, <1>2, <1>3 DEF Larger, b

\* The run for the damaged chunks D and the Staged items, before the copy.
Offered(staged, D, t) == Planned(Plan(staged, D), staged, t)

LEMMA OfferedType ==
  ASSUME NEW staged \in SUBSET Item, NEW D \in SUBSET Chunk, NEW t
  PROVE  Plan(staged, D) \in Seq(Unit) /\ Offered(staged, D, t) \in Run
<1>1. Plan(staged, D) \in Seq(Unit)
  <2>1. PICK plan : PlansOf(plan, staged) /\ Plan(staged, D) = plan[D]
    BY PlanIs
  <2> DEFINE T == Seq(Unit)
  <2>2. plan \in [SUBSET Chunk -> T]
    BY <2>1 DEF PlansOf
  <2> HIDE DEF T
  <2>3. plan[D] \in T
    BY <2>2
  <2> QED BY <2>1, <2>3 DEF T
<1> QED BY <1>1, RunIs DEF Offered

PacksOf(pack, t) ==
  /\ pack \in [SUBSET Chunk -> [SUBSET Item -> Run]]
  /\ \A D \in SUBSET Chunk : \A staged \in SUBSET Item :
       pack[D][staged] = CopyRun(Offered(staged, D, t), D, pack)

\* The run that is built again follows its recursive definition.
LEMMA PackRunIs ==
  ASSUME NEW t
  PROVE  \E pack : PacksOf(pack, t) /\ PackRun(t) = pack[{}][StagedItems]
<1> DEFINE N == SUBSET Chunk
           A == SUBSET Item
           T == [A -> Run]
           B(D, f) == [staged \in SUBSET Item |-> CopyRun(Offered(staged, D, t), D, f)]
           E(h) == [D \in SUBSET Chunk |->
                     [staged \in SUBSET Item |-> CopyRun(Planned(Plan(staged, D), staged, t), D, h)]]
           G == [a \in N \X [N -> T] |-> B(a[1], a[2])]
<1>1. ASSUME NEW D \in N, NEW f, \A C \in Larger(Chunk)[D] : f[C] \in T, NEW staged \in A
      PROVE  CopyRun(Offered(staged, D, t), D, f) \in Run
  <2> DEFINE run == Offered(staged, D, t)
             b == BadCopies(run, D)
  <2>1. run \in Run
    BY OfferedType
  <2> HIDE DEF run
  <2>2. /\ CopyRun(run, D, f) = IF ~run.fits \/ b = {} THEN run ELSE f[D \cup {Min(b)}][run.staged]
        /\ b # {} => D \cup {Min(b)} \in Larger(Chunk)[D]
    BY <2>1, CopyRunIs
  <2>3. run.staged \in A
    BY <2>1 DEF Run
  <2> HIDE DEF b
  <2>4. b # {} => f[D \cup {Min(b)}][run.staged] \in Run
    BY <1>1, <2>2, <2>3
  <2>5. CopyRun(run, D, f) \in Run
    BY <2>1, <2>2, <2>4
  <2> QED BY <2>5 DEF run
<1>2. \A D \in N, f \in [N -> T] : B(D, f) \in T
  <2> SUFFICES ASSUME NEW D \in N, NEW f \in [N -> T] PROVE B(D, f) \in T
    OBVIOUS
  <2>1. \A C \in Larger(Chunk)[D] : f[C] \in T
    BY DEF Larger
  <2>2. \A staged \in A : CopyRun(Offered(staged, D, t), D, f) \in Run
    BY <1>1, <2>1
  <2> QED BY <2>2
<1>3. \A D \in N, f \in [N -> T] : G[<<D, f>>] = B(D, f)
  OBVIOUS
<1>4. Local(N, T, Larger(Chunk), G)
  <2>1. G \in [N \X [N -> T] -> T]
    <3>1. \A a \in N \X [N -> T] : B(a[1], a[2]) \in T
      BY <1>2
    <3> HIDE DEF B, T, N
    <3> QED BY <3>1
  <2>2. ASSUME NEW D \in N, NEW f \in [N -> T], NEW g \in [N -> T],
               \A y \in Larger(Chunk)[D] : f[y] = g[y]
        PROVE  G[<<D, f>>] = G[<<D, g>>]
    <3>1. ASSUME NEW staged \in A PROVE CopyRun(Offered(staged, D, t), D, f) = CopyRun(Offered(staged, D, t), D, g)
      <4> DEFINE run == Offered(staged, D, t)
                 b == BadCopies(run, D)
      <4>1. run \in Run
        BY OfferedType
      <4> HIDE DEF run
      <4>2. /\ CopyRun(run, D, f) = IF ~run.fits \/ b = {} THEN run ELSE f[D \cup {Min(b)}][run.staged]
            /\ CopyRun(run, D, g) = IF ~run.fits \/ b = {} THEN run ELSE g[D \cup {Min(b)}][run.staged]
            /\ b # {} => D \cup {Min(b)} \in Larger(Chunk)[D]
        BY <4>1, CopyRunIs
      <4> HIDE DEF b
      <4>3. CopyRun(run, D, f) = CopyRun(run, D, g)
        BY <2>2, <4>2
      <4> QED BY <4>3 DEF run
    <3>2. B(D, f) = B(D, g)
      BY <3>1
    <3> HIDE DEF G, B, T, N
    <3> QED BY <1>3, <3>2
  <2> HIDE DEF G, N, T
  <2> QED BY <2>1, <2>2 DEF Local
<1>5. Grounded(N, Larger(Chunk))
  BY ChunksAre, LargerGrounded
<1>6. PICK f : Solution(f, N, T, G)
  <2>1. T # {}
    <3>1. {} \in SUBSET Item /\ {} \in SUBSET Chunk
      OBVIOUS
    <3>2. PICK r \in Run : TRUE
      BY <3>1, OfferedType
    <3>3. [staged \in A |-> r] \in T
      BY <3>2
    <3> QED BY <3>3
  <2> HIDE DEF G, N, T
  <2> QED BY <1>4, <1>5, <2>1, RecursionExists
<1>7. f \in [N -> T] /\ \A D \in N : f[D] = B(D, f)
  <2>1. f \in [N -> T]
    BY <1>6 DEF Solution
  <2> HIDE DEF G, N, T, B
  <2> QED BY <1>3, <1>6, <2>1 DEF Solution
<1>8. f = E(f)
  <2>1. \A D \in N : f[D] = [staged \in SUBSET Item |-> CopyRun(Planned(Plan(staged, D), staged, t), D, f)]
    BY <1>7 DEF Offered
  <2> HIDE DEF T
  <2> QED BY <1>7, <2>1
<1>9. PackRun(t) = (CHOOSE h : h = E(h))[{}][StagedItems]
  BY Zenon DEF PackRun
<1> HIDE DEF E, G
<1>10. (CHOOSE h : h = E(h)) = E(CHOOSE h : h = E(h))
  BY <1>8, Zenon
<1>11. ASSUME NEW h, h = E(h) PROVE PacksOf(h, t)
  <2>1. h = [D \in SUBSET Chunk |-> B(D, h)]
    BY <1>11, Zenon DEF E, Offered
  <2> HIDE DEF B
  <2>2. \A D \in N : h[D] = B(D, h)
    BY <2>1
  <2> USE DEF B
  <2> DEFINE P == {D \in N : h[D] \in T}
  <2>4. \A D \in N : Larger(Chunk)[D] \subseteq P => D \in P
    <3> SUFFICES ASSUME NEW D \in N, Larger(Chunk)[D] \subseteq P PROVE h[D] \in T
      OBVIOUS
    <3>1. \A C \in Larger(Chunk)[D] : h[C] \in T
      OBVIOUS
    <3> HIDE DEF P
    <3>2. \A staged \in A : CopyRun(Offered(staged, D, t), D, h) \in Run
      BY <1>1, <3>1
    <3> QED BY <2>2, <3>2
  <2>5. N \subseteq P
    <3> HIDE DEF P, N
    <3> QED BY <1>5, <2>4, GroundInduction
  <2>6. h \in [N -> T]
    <3>1. \A D \in N : h[D] \in T
      BY <2>5
    <3>2. \A D \in N : B(D, h) \in T
      BY <2>2, <3>1
    <3> HIDE DEF T, B
    <3> QED BY <2>1, <3>2
  <2>7. \A D \in N : \A staged \in A : h[D][staged] = CopyRun(Offered(staged, D, t), D, h)
    BY <2>2
  <2> QED BY <2>6, <2>7 DEF PacksOf
<1> QED
  <2> DEFINE h == CHOOSE x : x = E(x)
  <2>1. h = E(h) /\ PackRun(t) = h[{}][StagedItems]
    BY <1>9, <1>10
  <2> HIDE DEF h
  <2> QED BY <1>11, <2>1

\* The run is the first units of a plan.
PlannedRun(run, staged) ==
  \E all \in SUBSET Item, D \in SUBSET Chunk, w \in Walk :
    /\ PlanOf(all) /\ staged \subseteq all /\ PlanWell(w, all, D) /\ \A i \in D : file[i] # "good"
    /\ FirstOf(run.placed, w.units)

\* The items of a plan may be staged.
LEMMA PlanAgain ==
  ASSUME NEW staged, PlanOf(staged), NEW w, NEW D, PlanWell(w, staged, D)
  PROVE  PlanOf(staged \cup Ids(w.units))
<1>1. w \in Walk /\ WalkOK(w) /\ OrderOK(w, Snaps)
  BY DEF PlanWell
<1>2. w.units \in Seq(Unit)
  BY <1>1, WalkHas DEF WalkFields
<1>3. Ids(w.units) \subseteq Item /\ Ids(w.units) = {w.units[k].id : k \in 1 .. Len(w.units)}
  BY <1>2, IdsType
<1>4. ASSUME NEW i \in Ids(w.units) PROVE ~OnDisc(i) /\ (i \in Snapshot => log[i].state # "none")
  <2>1. PICK k \in 1 .. Len(w.units) : i = w.units[k].id
    BY <1>3
  <2> QED BY <1>1, <2>1 DEF WalkOK, TakenUnits, OrderOK, Snaps
<1> QED BY <1>3, <1>4 DEF PlanOf

\* The run of pack is the first units of a plan, however often it was built again.
LEMMA PackRunOK ==
  ASSUME NEW t, PlanOf(StagedItems)
  PROVE  PlannedRun(PackRun(t), StagedItems)
<1>1. PICK pack : PacksOf(pack, t) /\ PackRun(t) = pack[{}][StagedItems]
  BY PackRunIs
<1> DEFINE Well(D) == (\A i \in D : file[i] # "good")
                        => \A staged \in SUBSET Item : PlanOf(staged) => PlannedRun(pack[D][staged], staged)
           P == {D \in SUBSET Chunk : Well(D)}
<1>2. \A D \in SUBSET Chunk : Larger(Chunk)[D] \subseteq P => D \in P
  <2> SUFFICES ASSUME NEW D \in SUBSET Chunk, Larger(Chunk)[D] \subseteq P,
                      \A i \in D : file[i] # "good", NEW staged \in SUBSET Item, PlanOf(staged)
               PROVE  PlannedRun(pack[D][staged], staged)
    OBVIOUS
  <2> DEFINE run == Offered(staged, D, t)
             b == BadCopies(run, D)
  <2>1. PICK C \in SUBSET Chunk, w \in Walk :
          /\ PlanWell(w, staged, C) /\ Plan(staged, D) = w.units
          /\ D \subseteq C /\ \A i \in C \ D : file[i] = "missing"
    BY PlanOK
  <2>2. run \in Run /\ w.units \in Seq(Unit)
    BY <2>1, OfferedType
  <2>3. /\ run.staged = staged \cup Ids(w.units)
        /\ FirstOf(run.placed, w.units)
    <3>1. run = Planned(w.units, staged, t)
      BY <2>1 DEF Offered
    <3> HIDE DEF run
    <3> QED BY <2>2, <3>1, RunIs
  <2> HIDE DEF run
  <2>4. pack[D][staged] = CopyRun(run, D, pack)
    BY <1>1 DEF PacksOf, run
  <2>5. /\ CopyRun(run, D, pack) = IF ~run.fits \/ b = {} THEN run ELSE pack[D \cup {Min(b)}][run.staged]
        /\ b # {} => D \cup {Min(b)} \in Larger(Chunk)[D] /\ file[Min(b)] = "bad"
    <3> HIDE DEF P
    <3> QED BY <2>2, CopyRunIs
  <2>6. \A i \in C : file[i] # "good"
    BY <2>1
  <2>7. CASE pack[D][staged] = run
    <3>1. FirstOf(pack[D][staged].placed, w.units)
      BY <2>3, <2>7
    <3>2. PlanOf(staged) /\ staged \subseteq staged /\ PlanWell(w, staged, C)
      BY <2>1
    <3> QED BY <2>6, <3>1, <3>2, Zenon DEF PlannedRun
  <2>8. CASE b # {} /\ pack[D][staged] = pack[D \cup {Min(b)}][run.staged]
    <3>1. D \cup {Min(b)} \in P /\ \A i \in D \cup {Min(b)} : file[i] # "good"
      BY <2>5, <2>8
    <3>2. PlanOf(run.staged) /\ run.staged \in SUBSET Item
      BY <2>1, <2>2, <2>3, PlanAgain DEF Run
    <3>3. PlannedRun(pack[D \cup {Min(b)}][run.staged], run.staged)
      BY <3>1, <3>2
    <3> HIDE DEF P, b
    <3>4. staged \subseteq run.staged
      BY <2>3
    <3> QED BY <2>8, <3>3, <3>4 DEF PlannedRun
  <2> HIDE DEF P, b
  <2> QED BY <2>4, <2>5, <2>7, <2>8
<1>3. SUBSET Chunk \subseteq P
  <2>1. Grounded(SUBSET Chunk, Larger(Chunk))
    BY ChunksAre, LargerGrounded
  <2> HIDE DEF P
  <2> QED BY <1>2, <2>1, GroundInduction
<1>4. Well({})
  BY <1>3
<1>5. StagedItems \in SUBSET Item
  BY DEF StagedItems
<1> QED BY <1>1, <1>4, <1>5

-----------------------------------------------------------------------------
(* The budget of a disc. *)

\* The bytes that DataBudgetSectors sets aside.
Reserved(t, n) == Overhead(n, t) + 2 * RunFileLen

LEMMA CountBounds ==
  ASSUME NEW n \in Nat
  PROVE  /\ SectorCount(n) \in Nat
         /\ n <= SectorCount(n) * SectorSize
         /\ SectorCount(n) * SectorSize < n + SectorSize
BY DEF SectorCount, SectorSize

LEMMA CountGrows ==
  ASSUME NEW m \in Nat, NEW n \in Nat, m <= n
  PROVE  SectorCount(m) <= SectorCount(n)
BY DEF SectorCount, SectorSize

LEMMA OverheadType ==
  ASSUME NEW n \in Nat, NEW t \in Nat
  PROVE  Overhead(n, t) \in Nat
<1>1. SpaceBitmap(t) \in Nat
  <2>1. (t + 7) \div 8 \in Nat
    OBVIOUS
  <2> QED BY <2>1, CountBounds DEF SpaceBitmap, SectorSize
<1>2. (t * SectorSize) \div 1000 \in Nat
  BY DEF SectorSize
<1>3. DirCount(n) \in Nat
  BY DEF DirCount
<1> QED BY <1>1, <1>2, <1>3 DEF Overhead, SectorSize

\* More files never need less overhead.
LEMMA OverheadGrows ==
  ASSUME NEW t \in Nat, NEW m \in Nat, NEW n \in Nat, m <= n
  PROVE  Overhead(m, t) <= Overhead(n, t)
<1>1. SpaceBitmap(t) \in Nat
  <2>1. (t + 7) \div 8 \in Nat
    OBVIOUS
  <2> QED BY <2>1, CountBounds DEF SpaceBitmap, SectorSize
<1>2. (t * SectorSize) \div 1000 \in Nat
  BY DEF SectorSize
<1>3. DirCount(m) \in Nat /\ DirCount(n) \in Nat /\ DirCount(m) <= DirCount(n)
  BY DEF DirCount
<1> QED BY <1>1, <1>2, <1>3 DEF Overhead, SectorSize

LEMMA ReservedGrows ==
  ASSUME NEW t \in Nat, NEW m \in Nat, NEW n \in Nat, m <= n
  PROVE  /\ Reserved(t, m) \in Nat
         /\ Reserved(t, n) \in Nat
         /\ Reserved(t, m) <= Reserved(t, n)
<1>1. Overhead(m, t) \in Nat /\ Overhead(n, t) \in Nat
  BY OverheadType
<1>2. Overhead(m, t) <= Overhead(n, t)
  BY OverheadGrows
<1> QED BY <1>1, <1>2 DEF Reserved, RunFileLen

LEMMA BudgetIsWhatIsLeft ==
  ASSUME NEW t \in Nat, NEW n \in Nat
  PROVE  DataBudget(t, n) = IF SectorCount(Reserved(t, n)) >= t THEN 0
                            ELSE t - SectorCount(Reserved(t, n))
BY DEF DataBudget, Reserved

--------------------------------------------------------------------------------

\* The budget only shrinks as the run grows (the comment of selectRun): more
\* files never leave more sectors, thus the first candidate that does not fit
\* may end the selection.
THEOREM BudgetShrinks ==
  ASSUME NEW t \in Nat, NEW m \in Nat, NEW n \in Nat, m <= n
  PROVE  DataBudget(t, n) <= DataBudget(t, m)
<1> DEFINE a == SectorCount(Reserved(t, m))
           b == SectorCount(Reserved(t, n))
<1>1. Reserved(t, m) \in Nat /\ Reserved(t, n) \in Nat /\ Reserved(t, m) <= Reserved(t, n)
  BY ReservedGrows
<1>2. a \in Nat /\ b \in Nat /\ a <= b
  BY <1>1, CountBounds, CountGrows
<1> QED BY <1>2, BudgetIsWhatIsLeft

\* Files that stay within the budget pass the check of their capacity: the two
\* formulas agree whatever the rounding.
THEOREM BudgetPassesCheck ==
  ASSUME NEW t \in Nat, NEW n \in Nat, NEW sectors \in Nat \ {0},
         sectors <= DataBudget(t, n)
  PROVE  CheckCapacity(sectors, n, t)
<1> DEFINE r == Reserved(t, n)
           a == SectorCount(Reserved(t, n))
<1>1. r \in Nat
  BY ReservedGrows
<1>2. a \in Nat /\ r <= a * SectorSize
  BY <1>1, CountBounds
<1>3. a < t /\ sectors + a <= t
  BY <1>2, BudgetIsWhatIsLeft
<1>4. (sectors + a) * SectorSize <= t * SectorSize
  BY <1>2, <1>3 DEF SectorSize
<1>5. sectors * SectorSize + r <= t * SectorSize
  BY <1>1, <1>2, <1>4 DEF SectorSize
<1>6. Overhead(n, t) \in Nat
  BY OverheadType
<1> QED BY <1>1, <1>3, <1>5, <1>6 DEF CheckCapacity, Reserved, RunFileLen, SectorSize

--------------------------------------------------------------------------------
(* The run of the first k candidates. *)

LEMMA CountOfSum ==
  ASSUME NEW m \in Nat, NEW n \in Nat
  PROVE  SectorCount(m + n) <= SectorCount(m) + SectorCount(n)
BY DEF SectorCount, SectorSize

\* A run that selectRun selects fits when packRun has laid it out, as long as
\* it carries no snapshot.
THEOREM SelectedRunFits ==
  ASSUME NEW cands, NEW k \in Nat, NEW fixed \in Nat \ {0}, NEW files \in Nat, NEW t \in Nat,
         PrefixSectors(cands)[k] \in Nat, IsFiniteSet(Prereqs(cands, k)),
         Fits(cands, k, fixed, files, t)
  PROVE  CheckCapacity(LaidOut(cands, k, 0, fixed, files), files + k + 1, t)
<1> DEFINE p == Cardinality(Prereqs(cands, k))
           laid == LaidOut(cands, k, 0, fixed, files)
<1>1. p \in Nat
  BY FS_CardinalityType
<1>2. SectorCount(IndexLen(files + k + 1, k, p)) \in Nat
  <2>1. IndexLen(files + k + 1, k, p) \in Nat
    BY <1>1 DEF IndexLen
  <2> QED BY <2>1, CountBounds
<1>3. laid = RunSectors(cands, k, fixed, files)
  BY DEF LaidOut, RunSectors
<1>4. laid \in Nat \ {0}
  BY <1>2, <1>3 DEF RunSectors
<1>5. laid <= DataBudget(t, files + k + 1)
  BY <1>3 DEF Fits
<1> QED BY <1>4, <1>5, BudgetPassesCheck

\* What selectRun leaves out for the snapshots that a run carries is never more
\* than the sectors of their INDEX rows, 40 bytes each.
THEOREM CarriedRowsAreTheGap ==
  ASSUME NEW cands, NEW k \in Nat, NEW carried \in Nat, NEW fixed \in Nat, NEW files \in Nat,
         PrefixSectors(cands)[k] \in Nat, IsFiniteSet(Prereqs(cands, k))
  PROVE  LaidOut(cands, k, carried, fixed, files)
           <= RunSectors(cands, k, fixed, files) + SectorCount(40 * carried)
<1> DEFINE p == Cardinality(Prereqs(cands, k))
           short == IndexLen(files + k + 1, k, p)
           long == IndexLen(files + k + 1, k + carried, p)
<1>1. p \in Nat
  BY FS_CardinalityType
<1>2. short \in Nat /\ 40 * carried \in Nat /\ long = short + 40 * carried
  BY <1>1 DEF IndexLen
<1>3. SectorCount(long) <= SectorCount(short) + SectorCount(40 * carried)
  BY <1>2, CountOfSum
<1>4. SectorCount(short) \in Nat /\ SectorCount(long) \in Nat /\ SectorCount(40 * carried) \in Nat
  BY <1>2, CountBounds
<1> QED BY <1>3, <1>4 DEF LaidOut, RunSectors

-----------------------------------------------------------------------------
(* The properties, in a state. *)

LogType == log \in [Item -> Record \cup {NoRecord}]

\* An item that is neither Staged nor on a disc has no record.
LEMMA States ==
  ASSUME LogType
  PROVE  \A i \in Item : ~OnDisc(i) /\ i \notin StagedItems => log[i].state = "none"
BY DEF LogType, OnDisc, Taken, StagedItems, Record, NoRecord

LEMMA StagedPlan == PlanOf(StagedItems)
BY DEF PlanOf, StagedItems, OnDisc, Taken

\* The run p has the first k units of the walk.
HasFirst(p, k, units) ==
  /\ Len(p) = k /\ DOMAIN p = 1 .. k /\ \A m \in 1 .. k : p[m] = units[m] /\ m \in 1 .. Len(units)
  /\ \A m \in 0 .. k : Ids(SubSeq(p, 1, m)) = {units[l].id : l \in 1 .. m}

LEMMA FirstUnits ==
  ASSUME NEW units \in Seq(Unit), NEW k \in 0 .. Len(units), NEW p, p = SubSeq(units, 1, k)
  PROVE  HasFirst(p, k, units)
<1>1. Len(units) \in Nat
  BY IdsType
<1>2. p \in Seq(Unit) /\ Len(p) = k /\ DOMAIN p = 1 .. k /\ \A m \in 1 .. k : p[m] = units[m] /\ m \in 1 .. Len(units)
  <2> HIDE DEF Unit
  <2> QED BY <1>1
<1>3. ASSUME NEW m \in 0 .. k PROVE Ids(SubSeq(p, 1, m)) = {units[l].id : l \in 1 .. m}
  <2> DEFINE q == SubSeq(p, 1, m)
  <2>1. DOMAIN q = 1 .. m /\ \A l \in 1 .. m : q[l] = units[l]
    <3> HIDE DEF Unit
    <3> QED BY <1>1, <1>2
  <2> HIDE DEF q
  <2>2. Ids(q) = {units[l].id : l \in 1 .. m}
    BY <2>1 DEF Ids
  <2> QED BY <2>2 DEF q
<1> QED BY <1>2, <1>3 DEF HasFirst

\* The four properties, in a state with a typed log.
LEMMA ClosedState == LogType => PlacedIsClosed
<1> SUFFICES ASSUME LogType, NEW t \in Capacities, NEW k \in DOMAIN Placed(t), NEW j \in Range(Entries[Placed(t)[k].id])
             PROVE  \/ j \in Ids(SubSeq(Placed(t), 1, k - 1))
                    \/ OnDisc(j) /\ j \in Prereqs(Placed(t), Len(Placed(t)))
                    \/ log[j].state = "none" /\ \E s \in Carried : j \in Reach[s]
  BY DEF PlacedIsClosed
<1>1. PICK all \in SUBSET Item, D \in SUBSET Chunk, w \in Walk :
        /\ PlanOf(all) /\ StagedItems \subseteq all /\ PlanWell(w, all, D) /\ FirstOf(Placed(t), w.units)
  BY StagedPlan, PackRunOK, Zenon DEF PlannedRun, Placed
<1> DEFINE p == Placed(t)
<1>2. w.units \in Seq(Unit) /\ WalkOK(w) /\ w.staged = all
  BY <1>1, WalkHas DEF WalkFields, PlanWell
<1>3. PICK n \in 0 .. Len(w.units) : p = SubSeq(w.units, 1, n)
  BY <1>1 DEF FirstOf
<1> HIDE DEF p
<1>4. /\ Len(p) = n /\ DOMAIN p = 1 .. n /\ \A m \in 1 .. n : p[m] = w.units[m] /\ m \in 1 .. Len(w.units)
      /\ \A m \in 0 .. n : Ids(SubSeq(p, 1, m)) = {w.units[l].id : l \in 1 .. m}
  <2>1. HasFirst(p, n, w.units)
    <3> HIDE DEF Unit
    <3> QED BY <1>2, <1>3, FirstUnits
  <2> QED BY <2>1 DEF HasFirst
<1>5. k \in 1 .. n /\ k - 1 \in 0 .. n /\ n \in Nat
  <2>1. Len(w.units) \in Nat
    BY <1>2, IdsType
  <2> QED BY <1>4, <2>1 DEF p
<1>6. p[k] = w.units[k] /\ k \in 1 .. Len(w.units) /\ j \in Range(Entries[w.units[k].id])
  BY <1>4, <1>5 DEF p
<1>7. Settled(w, j) \/ \E l \in 1 .. k - 1 : w.units[l].id = j
  BY <1>2, <1>6 DEF WalkOK, UnitsClosed
<1>8. CASE \E l \in 1 .. k - 1 : w.units[l].id = j
  BY <1>4, <1>5, <1>8 DEF p
<1>9. CASE OnDisc(j)
  <2>1. w.units[k] = UnitOf(w.units[k].id)
    BY <1>2, <1>6 DEF WalkOK, TakenUnits
  <2>2. j \in w.units[k].children
    BY <1>6, <1>9, <2>1 DEF UnitOf
  <2>3. j \in Prereqs(p, Len(p))
    BY <1>4, <1>5, <1>6, <2>2 DEF Prereqs
  <2> QED BY <1>9, <2>3 DEF p
<1>10. CASE ~OnDisc(j) /\ Settled(w, j)
  <2>1. j \in Hidden /\ j \notin StagedItems
    BY <1>1, <1>2, <1>10 DEF Settled
  <2> QED BY <1>10, <2>1, States DEF Hidden
<1> QED BY <1>7, <1>8, <1>9, <1>10

\* With nothing undecided the walk settles only what a disc holds.
LEMMA AllAreDecided ==
  ASSUME LogType, Undecided = {}, NEW all, StagedItems \subseteq all
  PROVE  AllDecided(all)
<1> SUFFICES ASSUME NEW s \in Snaps, ~OnDisc(s), NEW j \in Reach[s], j \notin all, j \in Hidden, ~OnDisc(j)
             PROVE  FALSE
  BY DEF AllDecided
<1>1. s \in StagedItems
  BY States, SnapsAre DEF Snaps
<1>2. log[j].state = "none" /\ j \in Item
  BY States DEF Hidden
<1> QED BY <1>1, <1>2 DEF Undecided, Hidden

\* Nothing of the item is unsound for the walk.
LEMMA GoodIsSound ==
  ASSUME NEW w, \A i \in w.damaged : file[i] # "good", NEW s, \A j \in Reach[s] : OnDisc(j) \/ file[j] = "good"
  PROVE  Sound(w, s)
BY DEF Sound, Unsound

\* Units that differ are as many as their ids.
LEMMA CountIds ==
  ASSUME NEW units \in Seq(Unit), \A k, l \in 1 .. Len(units) : units[k].id = units[l].id => k = l
  PROVE  Cardinality(Ids(units)) = Len(units)
<1> DEFINE n == Len(units)
           I == Ids(units)
           f == [k \in 1 .. n |-> units[k].id]
<1>1. n \in Nat /\ I = {units[k].id : k \in 1 .. n} /\ \A k, l \in 1 .. n : units[k].id = units[l].id => k = l
  BY IdsType
<1> HIDE DEF n, I
<1>2. f \in Bijection(1 .. n, I)
  <2>1. f \in [1 .. n -> I] /\ \A k \in 1 .. n : f[k] = units[k].id
    BY <1>1
  <2> HIDE DEF f
  <2>2. \A k, l \in 1 .. n : f[k] = f[l] => k = l
    BY <1>1, <2>1
  <2>3. \A i \in I : \E k \in 1 .. n : f[k] = i
    BY <1>1, <2>1
  <2> QED BY <2>1, <2>2, <2>3 DEF Bijection, Injection, Surjection, IsInjective
<1>3. IsFiniteSet(1 .. n) /\ Cardinality(1 .. n) = n
  <2>1. 1 \in Int /\ n \in Int
    BY <1>1
  <2>2. IsFiniteSet(1 .. n) /\ Cardinality(1 .. n) = IF 1 > n THEN 0 ELSE n - 1 + 1
    BY <2>1, FS_Interval
  <2> QED BY <1>1, <2>2
<1>4. Cardinality(I) = Cardinality(1 .. n)
  <2>1. ExistsBijection(1 .. n, I)
    BY <1>2 DEF ExistsBijection
  <2> QED BY <1>3, <2>1, FS_Bijection
<1> QED BY <1>3, <1>4 DEF n, I

LEMMA SoundState == LogType => TakesEverySound
<1> SUFFICES ASSUME LogType, Undecided = {}
             PROVE  LET units == Plan(StagedItems, {i \in Chunk : file[i] = "bad"})
                    IN /\ Cardinality(Ids(units)) = Len(units)
                       /\ {i \in StagedItems : \A j \in Reach[i] : OnDisc(j) \/ file[j] = "good"} \subseteq Ids(units)
  BY DEF TakesEverySound
<1> DEFINE bad == {i \in Chunk : file[i] = "bad"}
           units == Plan(StagedItems, bad)
<1>1. PICK D \in SUBSET Chunk, w \in Walk :
        /\ PlanWell(w, StagedItems, D) /\ units = w.units
        /\ bad \subseteq D /\ \A i \in D \ bad : file[i] = "missing"
  <2>1. bad \in SUBSET Chunk
    OBVIOUS
  <2> HIDE DEF bad
  <2> QED BY <2>1, StagedPlan, PlanOK
<1>2. /\ w.units \in Seq(Unit) /\ WalkOK(w) /\ w.damaged = D
      /\ AllDecided(StagedItems) => StagedItems \subseteq Met(w)
  BY <1>1, WalkHas DEF WalkFields, PlanWell
<1>3. \A i \in w.damaged : file[i] # "good"
  BY <1>1, <1>2
<1> HIDE DEF units
<1>4. Cardinality(Ids(units)) = Len(units)
  BY <1>1, <1>2, CountIds DEF WalkOK, UnitsDiffer
<1>5. ASSUME NEW i \in StagedItems, \A j \in Reach[i] : OnDisc(j) \/ file[j] = "good"
      PROVE  i \in Ids(units)
  <2>1. i \in Met(w) /\ i \in Item
    BY <1>2, AllAreDecided DEF StagedItems
  <2>2. Sound(w, i)
    BY <1>3, <1>5, GoodIsSound
  <2>3. i \in w.seen
    BY <1>2, <2>1, <2>2, MetIs DEF WalkOK, BadUnsound, Sound
  <2>4. ~OnDisc(i)
    BY DEF StagedItems, OnDisc, Taken
  <2>5. \E k \in 1 .. Len(w.units) : w.units[k].id = i
    BY <1>2, <2>3, <2>4 DEF WalkOK, SeenTaken
  <2> QED BY <1>1, <1>2, <2>5, IdsType
<1> QED BY <1>4, <1>5 DEF units

LEMMA OlderState == LogType => OlderFirst
<1> SUFFICES ASSUME LogType, Undecided = {}, NEW t \in Capacities, NEW k \in DOMAIN Placed(t), NEW s \in Snaps,
                    Placed(t)[k].id \in Snapshot, Time[s] < Time[Placed(t)[k].id] \/ s = Placed(t)[k].id,
                    \A j \in Reach[s] : OnDisc(j) \/ file[j] = "good"
             PROVE  Left[s] \subseteq Ids(SubSeq(Placed(t), 1, k))
  BY DEF OlderFirst
<1>1. PICK all \in SUBSET Item, D \in SUBSET Chunk, w \in Walk :
        /\ PlanOf(all) /\ StagedItems \subseteq all /\ PlanWell(w, all, D) /\ \A i \in D : file[i] # "good"
        /\ FirstOf(Placed(t), w.units)
  BY StagedPlan, PackRunOK, Zenon DEF PlannedRun, Placed
<1> DEFINE p == Placed(t)
           u == p[k].id
<1>2. w.units \in Seq(Unit) /\ WalkOK(w) /\ w.staged = all /\ w.damaged = D /\ OrderOK(w, Snaps)
  BY <1>1, WalkHas DEF WalkFields, PlanWell
<1>3. PICK n \in 0 .. Len(w.units) : p = SubSeq(w.units, 1, n)
  BY <1>1 DEF FirstOf
<1>0. k \in DOMAIN p /\ u \in Snapshot /\ (Time[s] < Time[u] \/ s = u)
  OBVIOUS
<1> SUFFICES Left[s] \subseteq Ids(SubSeq(p, 1, k))
  OBVIOUS
<1> HIDE DEF p
<1>4. /\ Len(p) = n /\ DOMAIN p = 1 .. n /\ \A m \in 1 .. n : p[m] = w.units[m] /\ m \in 1 .. Len(w.units)
      /\ \A m \in 0 .. n : Ids(SubSeq(p, 1, m)) = {w.units[l].id : l \in 1 .. m}
  <2>1. HasFirst(p, n, w.units)
    <3> HIDE DEF Unit
    <3> QED BY <1>2, <1>3, FirstUnits
  <2> QED BY <2>1 DEF HasFirst
<1>5. k \in 1 .. n /\ k \in 0 .. n /\ k \in 1 .. Len(w.units)
  <2>1. Len(w.units) \in Nat
    BY <1>2, IdsType
  <2> QED BY <1>0, <1>4, <2>1
<1>6. u = w.units[k].id /\ Ids(SubSeq(p, 1, k)) = Upto(w, k)
  BY <1>4, <1>5 DEF Upto
<1> HIDE DEF u
<1>7. s \in Item /\ s \in Reach[s]
  BY SnapsAre, ReachSelf
<1>8. CASE OnDisc(s)
  BY <1>7, <1>8, LeftIs
<1>9. CASE ~OnDisc(s)
  <2>1. Sound(w, s)
    BY <1>1, <1>2, GoodIsSound
  <2>2. Decided(w, s)
    <3>1. AllDecided(all)
      BY <1>1, AllAreDecided
    <3> QED BY <1>2, <1>9, <3>1 DEF AllDecided, Decided, Settled
  <2>3. CASE s = u
    BY <1>2, <1>5, <1>6, <1>7, <2>2, <2>3, LeftIsEarlier
  <2>4. CASE Time[s] < Time[u]
    <3>1. u \in Snaps /\ file[u] = "good"
      <4>1. u \in Snaps /\ ~Unreadable(w, u)
        BY <1>0, <1>2, <1>5, <1>6 DEF OrderOK, WalkOK, TakenUnits
      <4>2. u \notin Chunk
        BY <1>0, OrderAssumption DEF Meta
      <4> QED BY <4>1, <4>2 DEF Unreadable
    <3>2. file[s] = "good"
      BY <1>7, <1>9
    <3>3. Earlier(s, u)
      BY <2>4, <3>1, <3>2 DEF Earlier, When
    <3> QED BY <1>0, <1>2, <1>5, <1>6, <2>1, <2>2, <3>3 DEF OrderOK
  <2> QED BY <1>0, <2>3, <2>4
<1> QED BY <1>8, <1>9

-----------------------------------------------------------------------------
(* The run that carries no snapshot fits. *)

\* The sectors of the first units.
LEMMA SectorsType ==
  ASSUME NEW units \in Seq(Unit)
  PROVE  \A k \in 0 .. Len(units) : PrefixSectors(units)[k] \in Nat
<1> DEFINE N == 0 .. Len(units)
           sectors(k) == SectorCount(units[k].size)
           E(h) == [k \in 0 .. Len(units) |-> IF k = 0 THEN 0 ELSE h[k - 1] + SectorCount(units[k].size)]
           G == [a \in N \X [N -> Nat] |-> IF a[1] = 0 THEN 0 ELSE a[2][a[1] - 1] + sectors(a[1])]
<1>1. Len(units) \in Nat /\ \A k \in 1 .. Len(units) : sectors(k) \in Nat
  <2>1. Len(units) \in Nat /\ \A k \in 1 .. Len(units) : units[k] \in Unit
    <3> HIDE DEF Unit
    <3> QED OBVIOUS
  <2>2. \A k \in 1 .. Len(units) : units[k].size \in Nat
    BY <2>1 DEF Unit
  <2> QED BY <2>1, <2>2, CountBounds
<1>2. \A k \in N, f \in [N -> Nat] : G[<<k, f>>] = IF k = 0 THEN 0 ELSE f[k - 1] + sectors(k)
  OBVIOUS
<1> HIDE DEF sectors
<1>3. \A k \in N, f \in [N -> Nat] : (IF k = 0 THEN 0 ELSE f[k - 1] + sectors(k)) \in Nat
  BY <1>1
<1>4. Local(N, Nat, Before(Len(units)), G)
  <2>1. G \in [N \X [N -> Nat] -> Nat]
    <3>1. \A a \in N \X [N -> Nat] : (IF a[1] = 0 THEN 0 ELSE a[2][a[1] - 1] + sectors(a[1])) \in Nat
      BY <1>3
    <3> QED BY <3>1
  <2>2. ASSUME NEW k \in N, NEW f \in [N -> Nat], NEW g \in [N -> Nat],
               \A y \in Before(Len(units))[k] : f[y] = g[y]
        PROVE  G[<<k, f>>] = G[<<k, g>>]
    <3>1. k # 0 => f[k - 1] = g[k - 1]
      BY <1>1, <2>2 DEF Before
    <3> HIDE DEF G
    <3> QED BY <1>2, <3>1
  <2> HIDE DEF G, N
  <2> QED BY <2>1, <2>2 DEF Local
<1>5. Grounded(N, Before(Len(units)))
  BY <1>1, NumbersGrounded
<1>6. PICK b : Solution(b, N, Nat, G)
  <2> HIDE DEF G, N
  <2> QED BY <1>4, <1>5, RecursionExists
<1>7. b \in [N -> Nat] /\ \A k \in N : b[k] = IF k = 0 THEN 0 ELSE b[k - 1] + sectors(k)
  <2>1. b \in [N -> Nat]
    BY <1>6 DEF Solution
  <2> HIDE DEF G
  <2> QED BY <1>2, <1>6, <2>1 DEF Solution
<1>8. b = E(b)
  BY <1>7 DEF sectors
<1>9. PrefixSectors(units) = CHOOSE h : h = E(h)
  BY Zenon DEF PrefixSectors
<1> HIDE DEF E, G
<1>10. PrefixSectors(units) = E(PrefixSectors(units))
  BY <1>8, <1>9, Zenon
<1> DEFINE h == PrefixSectors(units)
<1>11. h = E(h)
  BY <1>10
<1> HIDE DEF h
<1>12. \A k \in N : h[k] = IF k = 0 THEN 0 ELSE h[k - 1] + sectors(k)
  BY <1>11 DEF E, sectors
<1> DEFINE P == {k \in N : h[k] \in Nat}
<1>13. \A k \in N : Before(Len(units))[k] \subseteq P => k \in P
  <2> SUFFICES ASSUME NEW k \in N, Before(Len(units))[k] \subseteq P PROVE h[k] \in Nat
    OBVIOUS
  <2>1. CASE k = 0
    BY <1>12, <2>1
  <2>2. CASE k # 0
    <3>1. k - 1 \in Before(Len(units))[k] /\ k \in 1 .. Len(units)
      BY <1>1, <2>2 DEF Before
    <3>2. h[k - 1] \in Nat /\ sectors(k) \in Nat
      BY <1>1, <3>1
    <3> QED BY <1>12, <2>2, <3>2
  <2> QED BY <2>1, <2>2
<1>14. N \subseteq P
  <2> HIDE DEF P, N
  <2> QED BY <1>5, <1>13, GroundInduction
<1> QED BY <1>14 DEF h

\* The snapshots that a run carries take no sectors when there are none.
LEMMA NoSum == FoldSet(LAMBDA s, n : n + SectorCount(Size[s]), 0, {}) = 0
<1> DEFINE E(h) == [s \in SUBSET {} |->
                      IF s = {} THEN 0 ELSE h[s \ {CHOOSE x \in s : TRUE}] + SectorCount(Size[CHOOSE x \in s : TRUE])]
           f == [s \in SUBSET {} |-> 0]
<1>1. FoldSet(LAMBDA s, n : n + SectorCount(Size[s]), 0, {}) = (CHOOSE h : h = E(h))[{}]
  BY Zenon DEF FoldSet, MapThenFoldSet
<1>2. \A h : E(h) = f
  OBVIOUS
<1>3. f = E(f) /\ f[{}] = 0
  BY <1>2
<1> HIDE DEF E
<1>4. (CHOOSE h : h = E(h)) = E(CHOOSE h : h = E(h))
  BY <1>3, Zenon
<1> QED BY <1>1, <1>2, <1>3, <1>4

LEMMA NothingCarried ==
  ASSUME Carried = {}
  PROVE  Fixed \in Nat \ {0} /\ Files = 7 /\ Cardinality(Carried) = 0
<1>1. Cardinality(Carried) = 0
  BY FS_EmptySet
<1>2. Rows \in Nat
  <2>1. IsFiniteSet({d \in Disc : disc[d] # "unused"})
    BY OrderAssumption, FS_Subset
  <2> QED BY <2>1, FS_CardinalityType DEF Rows
<1>3. SectorCount(56 + 176 * (Rows + 1)) \in Nat
  <2>1. 56 + 176 * (Rows + 1) \in Nat
    BY <1>2
  <2> QED BY <2>1, CountBounds
<1>4. Fixed = FixedSectors + SectorCount(56 + 176 * (Rows + 1)) + 0
  BY NoSum DEF Fixed
<1>5. FixedSectors \in Nat \ {0}
  BY OrderAssumption
<1> QED BY <1>1, <1>3, <1>4, <1>5 DEF Files

LEMMA FitsState == FitsWithoutCarried
<1> SUFFICES ASSUME Carried = {}, NEW t \in Capacities,
                    Planned(Plan(StagedItems, {}), StagedItems, t).placed # << >>
             PROVE  Planned(Plan(StagedItems, {}), StagedItems, t).fits
  BY DEF FitsWithoutCarried
<1> DEFINE units == Plan(StagedItems, {})
           all == StagedItems \cup Ids(units)
           k == SelectRun(units, Fixed, Files, t)
<1>1. units \in Seq(Unit) /\ Len(units) \in Nat
  <2>1. StagedItems \in SUBSET Item /\ {} \in SUBSET Chunk
    BY DEF StagedItems
  <2>2. units \in Seq(Unit)
    BY <2>1, OfferedType
  <2> HIDE DEF units
  <2> QED BY <2>2, IdsType
<1> HIDE DEF units
<1>2. k \in 0 .. Len(units) /\ \A j \in 1 .. k : Fits(units, j, Fixed, Files, t)
  BY <1>1, SelectRunIs
<1>3. Fixed \in Nat \ {0} /\ Files \in Nat /\ Cardinality(Carried) = 0 /\ t \in Nat
  BY NothingCarried, OrderAssumption
<1>4. Planned(units, StagedItems, t)
        = [placed |-> SubSeq(units, 1, k), staged |-> all,
           fits |-> CheckCapacity(LaidOut(units, k, 0, Fixed, Files), Files + k + 1, t)]
  BY <1>3 DEF Planned, RunOf
<1>5. SubSeq(units, 1, k) # << >>
  <2>1. Planned(units, StagedItems, t).placed # << >>
    BY DEF units
  <2> QED BY <1>4, <2>1
<1> HIDE DEF k, all
<1>6. k \in Nat /\ k \in 1 .. k
  <2>1. k = 0 => SubSeq(units, 1, k) = << >>
    <3> HIDE DEF Unit
    <3> QED BY <1>1
  <2> QED BY <1>1, <1>2, <1>5, <2>1
<1>7. PrefixSectors(units)[k] \in Nat
  BY <1>1, <1>2, SectorsType
<1>8. IsFiniteSet(Prereqs(units, k))
  <2>1. \A l \in 1 .. Len(units) : units[l] \in Unit
    <3> HIDE DEF Unit
    <3> QED BY <1>1
  <2>2. Prereqs(units, k) \subseteq Item
    BY <1>1, <1>2, <2>1 DEF Prereqs, Unit
  <2> QED BY <2>2, FS_Subset, OrderAssumption
<1>9. CheckCapacity(LaidOut(units, k, 0, Fixed, Files), Files + k + 1, t)
  BY <1>2, <1>3, <1>6, <1>7, <1>8, SelectedRunFits
<1> QED BY <1>4, <1>9 DEF units

-----------------------------------------------------------------------------
(* The commands keep the types. *)

\* The records that the commands write.
LEMMA RecordsAre ==
  /\ Staged \in Record /\ StagedByLoss \in Record
  /\ \A d \in Disc : PackedOn(d) \in Record /\ OnDiscOf(d) \in Record /\ LostOf(d) \in Record
BY DEF Record, Reasons, Staged, StagedByLoss, PackedOn, OnDiscOf, LostOf

LEMMA LossType ==
  ASSUME NEW r \in Record \cup {NoRecord}, NEW held
  PROVE  Follow("lost", r, held) \in Record \cup {NoRecord}
<1>1. r.state = "OnDisc" => LostOf(r.disc) \in Record
  BY RecordsAre DEF Record, NoRecord
<1>2. Follow("lost", r, held) \in {StagedByLoss, r} \/ (r.state = "OnDisc" /\ Follow("lost", r, held) = LostOf(r.disc))
  BY Zenon DEF Follow
<1> QED BY <1>1, <1>2, RecordsAre

\* The item log has a record or none of each item, and each file and each disc
\* a state, whatever commit, pack, gc, disc lost and a bad file do.
THEOREM TypeCorrect == Spec => []TypeOK
<1>1. Init => TypeOK
  <2> SUFFICES ASSUME Init PROVE TypeOK
    OBVIOUS
  <2>1. torn \in 0 .. MaxTorn /\ faults \in 0 .. MaxFaults
    BY OrderAssumption DEF Init
  <2> QED BY <2>1, StartsAssumption DEF Init, TypeOK
<1>2. TypeOK /\ [Next]_vars => TypeOK'
  <2> SUFFICES ASSUME TypeOK, [Next]_vars PROVE TypeOK'
    OBVIOUS
  <2>0. /\ log \in [Item -> Record \cup {NoRecord}]
        /\ file \in [Item -> {"good", "bad", "missing"}]
        /\ disc \in [Disc -> {"unused", "packed", "freed", "lost"}]
        /\ torn \in 0 .. MaxTorn /\ faults \in 0 .. MaxFaults
    BY DEF TypeOK
  <2>1. ASSUME NEW s \in Snapshot, Commit(s) PROVE TypeOK'
    <3>1. log' \in [Item -> Record \cup {NoRecord}]
      BY <2>0, <2>1, RecordsAre DEF Commit
    <3>2. file' \in [Item -> {"good", "bad", "missing"}]
      BY <2>0, <2>1 DEF Commit
    <3>3. torn' \in 0 .. MaxTorn
      <4>1. torn' \in {torn, torn + 1} /\ torn' <= MaxTorn
        BY <2>1 DEF Commit
      <4> QED BY <2>0, <4>1, OrderAssumption
    <3> QED BY <2>0, <2>1, <3>1, <3>2, <3>3 DEF Commit, TypeOK
  <2>2. ASSUME NEW t \in Capacities, Pack(t) PROVE TypeOK'
    <3> DEFINE run == PackRun(t)
               placed == IF run.fits THEN Ids(run.placed) ELSE {}
               recorded == [i \in Item |-> IF i \in run.staged \ StagedItems THEN Staged ELSE log[i]]
               d == Rows + 1
    <3>1. \/ log' = recorded /\ disc' = disc
          \/ /\ d \in Disc
             /\ log' = [i \in Item |-> IF i \in placed THEN PackedOn(d) ELSE recorded[i]]
             /\ disc' = [disc EXCEPT ![d] = "packed"]
      BY <2>2 DEF Pack
    <3>2. recorded \in [Item -> Record \cup {NoRecord}]
      BY <2>0, RecordsAre
    <3> HIDE DEF run, placed, recorded, d
    <3>3. log' \in [Item -> Record \cup {NoRecord}] /\ disc' \in [Disc -> {"unused", "packed", "freed", "lost"}]
      BY <2>0, <3>1, <3>2, RecordsAre
    <3> QED BY <2>0, <2>2, <3>3 DEF Pack, TypeOK
  <2>3. ASSUME NEW d \in Disc, Gc(d) PROVE TypeOK'
    <3>1. log' \in [Item -> Record \cup {NoRecord}]
      BY <2>0, <2>3, RecordsAre DEF Gc
    <3> QED BY <2>0, <2>3, <3>1 DEF Gc, TypeOK
  <2>4. ASSUME NEW d \in Disc, DiscLost(d) PROVE TypeOK'
    <3>1. \A i \in Item : Follow("lost", log[i], i \in Meta /\ file[i] = "good") \in Record \cup {NoRecord}
      BY <2>0, LossType
    <3>2. log' \in [Item -> Record \cup {NoRecord}]
      BY <2>0, <2>4, <3>1 DEF DiscLost
    <3> QED BY <2>0, <2>4, <3>2 DEF DiscLost, TypeOK
  <2>5. ASSUME NEW i \in Item, Fault(i) PROVE TypeOK'
    <3>1. faults' \in 0 .. MaxFaults
      BY <2>0, <2>5, OrderAssumption DEF Fault
    <3>2. file' \in [Item -> {"good", "bad", "missing"}]
      BY <2>0, <2>5 DEF Fault
    <3> QED BY <2>0, <2>5, <3>1, <3>2 DEF Fault, TypeOK
  <2>6. CASE UNCHANGED vars
    BY <2>0, <2>6 DEF vars, TypeOK
  <2> QED BY <2>1, <2>2, <2>3, <2>4, <2>5, <2>6 DEF Next
<1> QED BY <1>1, <1>2, PTL DEF Spec

LEMMA TypedLog == TypeOK => LogType
BY DEF TypeOK, LogType

-----------------------------------------------------------------------------
(* The runs of pack. *)

\* A run is closed (the walk of snaporder.go is in post-order): each child of
\* an item of the run is earlier in it or on the disc that it names, in every
\* state that commit, pack, gc, disc lost and faults can reach.
THEOREM RunsAreClosed == Spec => []PlacedIsClosed
<1>1. TypeOK => PlacedIsClosed
  BY TypedLog, ClosedState
<1> QED BY <1>1, TypeCorrect, PTL

\* The two walks and the orphans take each Staged item once that is sound,
\* below whatever items of a disc it is (snaporder.go, buildPackPlan).
THEOREM NoStagedIsForgotten == Spec => []TakesEverySound
<1>1. TypeOK => TakesEverySound
  BY TypedLog, SoundState
<1> QED BY <1>1, TypeCorrect, PTL

\* The oldest snapshot is whole on the discs first: a run has all that is left
\* of each older snapshot before it has a newer one.
THEOREM OldestFirst == Spec => []OlderFirst
<1>1. TypeOK => OlderFirst
  BY TypedLog, OlderState
<1> QED BY <1>1, TypeCorrect, PTL

\* What selectRun takes passes the check of packRun, at every capacity and
\* every size of the files, when no snapshot is carried.
THEOREM RunsFit == Spec => []FitsWithoutCarried
BY FitsState, PTL

=============================================================================
