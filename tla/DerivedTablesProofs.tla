------------------------ MODULE DerivedTablesProofs ------------------------
(***************************************************************************)
(* Proofs about DerivedTables, for any runs, traces, threads, deployments  *)
(* and jobs: the tables hold rows of their kind; however transactions      *)
(* overlap, the rollups count exactly the visible runs, and the tree and   *)
(* the root columns of run_heads agree.                                    *)
(***************************************************************************)
EXTENDS DerivedTables, FiniteSetTheorems, SequenceTheorems, WellFoundedInduction, TLAPS

(* Numbers, and functions that are defined by recursion. *)

\* Min is the least number of a set of natural numbers.
LEMMA MinIsLeast ==
  ASSUME NEW S \in SUBSET Nat, S # {}
  PROVE  Min(S) \in S /\ \A y \in S : Min(S) =< y
<1> DEFINE R == OpToRel(<, Nat)
<1>1. IsWellFoundedOn(R, Nat)
      BY NatLessThanWellFounded
<1> HIDE DEF R
<1>2. PICK x \in S : \A y \in S : ~(<<y, x>> \in R)
      BY <1>1, WFMin
<1>3. ASSUME NEW y \in S PROVE x =< y
  <2>1. x \in Nat /\ y \in Nat
        OBVIOUS
  <2>2. ~(y < x)
        BY <1>2, <2>1 DEF R, OpToRel
  <2> QED
        BY <2>1, <2>2
<1> QED
      BY <1>3 DEF Min

\* Induction: a set of numbers that has 0 and with every number the next is Nat.
LEMMA NumbersByInduction ==
  ASSUME NEW S, 0 \in S, \A n \in Nat : n \in S => n + 1 \in S
  PROVE  Nat \subseteq S
<1> DEFINE T == Nat \ S
<1> SUFFICES ASSUME T # {} PROVE FALSE
      OBVIOUS
<1>1. T \in SUBSET Nat
      OBVIOUS
<1>2. Min(T) \in T /\ \A y \in T : Min(T) =< y
      BY <1>1, MinIsLeast
<1> DEFINE n == Min(T) - 1
<1>3. Min(T) \in Nat /\ Min(T) # 0 /\ Min(T) \notin S
      BY <1>2
<1>4. n \in Nat /\ n + 1 = Min(T) /\ ~(Min(T) =< n)
      BY <1>3
<1>5. n \in S
      BY <1>2, <1>4
<1> QED
      BY <1>3, <1>4, <1>5

\* A function that is given at 0, and at every number by what it is before.
Recursion(f, V, b, F) ==
  f \in [Nat -> V] /\ f[0] = b /\ \A n \in Nat : f[n + 1] = F[n][f[n]]

\* There is one.
LEMMA RecursionExists ==
  ASSUME NEW V, NEW b \in V, NEW F \in [Nat -> [V -> V]]
  PROVE  \E f : Recursion(f, V, b, F)
<1> DEFINE Upto(n, g) == /\ g \in [0..n -> V] /\ g[0] = b
                         /\ \A k \in 0..(n - 1) : g[k + 1] = F[k][g[k]]
           S == {n \in Nat : \E g : Upto(n, g)}
<1>1. 0 \in S
  <2>1. Upto(0, [k \in 0..0 |-> b])
        OBVIOUS
  <2> HIDE DEF Upto
  <2> QED
        BY <2>1
<1>2. ASSUME NEW n \in Nat, n \in S PROVE n + 1 \in S
  <2>1. PICK g : Upto(n, g)
        BY <1>2
  <2> DEFINE h == [k \in 0..(n + 1) |-> IF k = n + 1 THEN F[n][g[n]] ELSE g[k]]
  <2>2. g[n] \in V /\ F[n][g[n]] \in V
        BY <2>1
  <2>3. h \in [0..(n + 1) -> V]
        BY <2>1, <2>2
  <2>4. h[0] = b
        BY <2>1
  <2>5. \A k \in 0..n : h[k + 1] = F[k][h[k]]
        BY <2>1
  <2> HIDE DEF h
  <2>6. (n + 1) - 1 = n
        OBVIOUS
  <2>7. Upto(n + 1, h)
        BY <2>3, <2>4, <2>5, <2>6
  <2> HIDE DEF Upto
  <2> QED
        BY <2>7
<1>3. \A n \in Nat : \E g : Upto(n, g)
      BY <1>1, <1>2, NumbersByInduction
<1>4. ASSUME NEW m \in Nat, NEW n \in Nat, m =< n, NEW g, Upto(m, g), NEW h, Upto(n, h)
      PROVE  g[m] = h[m]
  <2> DEFINE A == {k \in Nat : k =< m => g[k] = h[k]}
  <2>1. 0 \in A
        BY <1>4
  <2>2. ASSUME NEW k \in Nat, k \in A PROVE k + 1 \in A
    <3>1. CASE k + 1 =< m
      <4>1. k \in 0..(m - 1) /\ k \in 0..(n - 1)
            BY <1>4, <3>1
      <4> QED
            BY <1>4, <2>2, <4>1
    <3> QED
          BY <3>1
  <2>3. m \in A
        BY <2>1, <2>2, NumbersByInduction
  <2> QED
        BY <2>3
<1> DEFINE f == [n \in Nat |-> (CHOOSE g : Upto(n, g))[n]]
<1>5. \A n \in Nat : Upto(n, CHOOSE g : Upto(n, g))
      BY <1>3
<1> HIDE DEF Upto, S
<1>6. \A n \in Nat : \A g : Upto(n, g) => f[n] = g[n]
      BY <1>4, <1>5
<1>7. \A n \in Nat : \A g : Upto(n, g) => g[n] \in V
      BY DEF Upto
<1>8. f \in [Nat -> V]
      BY <1>5, <1>7
<1> HIDE DEF f
<1>9. f[0] = b
  <2>1. PICK g : Upto(0, g)
        BY <1>3
  <2>2. f[0] = g[0]
        BY <1>6, <2>1
  <2>3. g[0] = b
        BY <2>1 DEF Upto
  <2> QED
        BY <2>2, <2>3
<1>10. ASSUME NEW n \in Nat PROVE f[n + 1] = F[n][f[n]]
  <2>1. n + 1 \in Nat /\ n =< n + 1
        OBVIOUS
  <2>2. PICK g : Upto(n + 1, g)
        BY <1>3, <2>1
  <2>3. PICK h : Upto(n, h)
        BY <1>3
  <2>4. h[n] = g[n]
        BY <1>4, <2>1, <2>2, <2>3
  <2>5. f[n + 1] = g[n + 1] /\ f[n] = h[n]
        BY <1>6, <2>1, <2>2, <2>3
  <2>6. g[n + 1] = F[n][g[n]]
        BY <2>2 DEF Upto
  <2> QED
        BY <2>4, <2>5, <2>6
<1> QED
      BY <1>8, <1>9, <1>10 DEF Recursion

----------------------------------------------------------------------------
(* build_trace_tree_index. *)

\* Distinct numbers below the size of a set are all taken.
LEMMA NumbersAreTaken ==
  ASSUME NEW S, IsFiniteSet(S), NEW f \in [S -> 0..(Cardinality(S) - 1)],
         \A x, y \in S : f[x] = f[y] => x = y
  PROVE  \A n \in 0..(Cardinality(S) - 1) : \E x \in S : f[x] = n
<1> DEFINE T == 0..(Cardinality(S) - 1)
<1>1. Cardinality(S) \in Nat
      BY FS_CardinalityType
<1>2. IsFiniteSet(T) /\ Cardinality(T) = Cardinality(S)
      BY <1>1, FS_Interval
<1>3. f \in Injection(S, T)
      BY DEF Injection, IsInjective
<1>4. f \in Surjection(S, T)
      BY <1>2, <1>3, FS_Injection
<1> QED
      BY <1>4 DEF Surjection

\* The runs in their order are the runs.
LEMMA InOrderType ==
  ASSUME NEW hs, NEW S \in SUBSET Nat, IsFiniteSet(S), \A s \in S : hs[s].start \in Nat
  PROVE  InOrder(hs, S) \in Seq(S)
<1> DEFINE Less(s) == {t \in S : StartsBefore(hs, t, s)}
           f == [s \in S |-> Cardinality(Less(s))]
<1>1. Cardinality(S) \in Nat
      BY FS_CardinalityType
<1>2. \A s \in S : /\ Less(s) \in SUBSET S /\ s \notin Less(s)
                   /\ IsFiniteSet(Less(s)) /\ Cardinality(Less(s)) \in Nat
  <2> SUFFICES ASSUME NEW s \in S
               PROVE  /\ Less(s) \in SUBSET S /\ s \notin Less(s)
                      /\ IsFiniteSet(Less(s)) /\ Cardinality(Less(s)) \in Nat
        OBVIOUS
  <2>1. Less(s) \in SUBSET S
        OBVIOUS
  <2>2. ~StartsBefore(hs, s, s)
        BY DEF StartsBefore
  <2>3. s \notin Less(s)
        BY <2>2
  <2> HIDE DEF Less
  <2>4. IsFiniteSet(Less(s))
        BY <2>1, FS_Subset
  <2> QED
        BY <2>1, <2>3, <2>4, FS_CardinalityType
<1>3. ASSUME NEW s \in S PROVE f[s] \in 0..(Cardinality(S) - 1)
  <2>1. Cardinality(Less(s)) =< Cardinality(S) /\ Cardinality(Less(s)) # Cardinality(S)
        BY <1>2, FS_Subset
  <2> HIDE DEF Less
  <2> QED
        BY <1>1, <1>2, <2>1
<1>4. ASSUME NEW s \in S, NEW t \in S, StartsBefore(hs, s, t) PROVE f[s] # f[t]
  <2>1. Less(s) \subseteq Less(t) /\ s \in Less(t) /\ s \notin Less(s)
    <3>1. \A x \in S : StartsBefore(hs, x, s) => StartsBefore(hs, x, t)
          BY <1>4 DEF StartsBefore
    <3>2. s \in Less(t)
          BY <1>4
    <3> QED
          BY <1>2, <3>1, <3>2
  <2>2. IsFiniteSet(Less(t)) /\ Less(s) \in SUBSET Less(t) /\ Less(s) # Less(t)
        BY <1>2, <2>1
  <2> HIDE DEF Less
  <2>3. Cardinality(Less(s)) # Cardinality(Less(t))
        BY <2>2, FS_Subset
  <2> QED
        BY <2>3
<1>5. \A s, t \in S : s # t => StartsBefore(hs, s, t) \/ StartsBefore(hs, t, s)
  <2> SUFFICES ASSUME NEW s \in S, NEW t \in S, s # t
               PROVE  StartsBefore(hs, s, t) \/ StartsBefore(hs, t, s)
        OBVIOUS
  <2> DEFINE a == hs[s].start
             c == hs[t].start
  <2>1. a \in Nat /\ c \in Nat /\ s \in Nat /\ t \in Nat
        OBVIOUS
  <2> HIDE DEF a, c
  <2>2. a < c \/ c < a \/ (a = c /\ (s < t \/ t < s))
        BY <2>1
  <2> QED
        BY <2>2 DEF StartsBefore, a, c
<1>6. \A s, t \in S : f[s] = f[t] => s = t
      BY <1>4, <1>5
<1>7. f \in [S -> 0..(Cardinality(S) - 1)]
      BY <1>3
<1>8. \A n \in 0..(Cardinality(S) - 1) : \E s \in S : f[s] = n
  <2> HIDE DEF f
  <2> QED
        BY <1>6, <1>7, NumbersAreTaken
<1> DEFINE at(i) == CHOOSE s \in S : Cardinality(Less(s)) = i - 1
<1>9. \A i \in 1..Cardinality(S) : at(i) \in S
  <2> SUFFICES ASSUME NEW i \in 1..Cardinality(S) PROVE \E s \in S : Cardinality(Less(s)) = i - 1
        OBVIOUS
  <2>1. i - 1 \in 0..(Cardinality(S) - 1)
        BY <1>1
  <2>2. PICK s \in S : f[s] = i - 1
        BY <1>8, <2>1
  <2> QED
        BY <2>2
<1>10. InOrder(hs, S) = [i \in 1..Cardinality(S) |-> at(i)]
      BY DEF InOrder
<1> HIDE DEF at
<1>11. InOrder(hs, S) \in [1..Cardinality(S) -> S]
      BY <1>9, <1>10
<1> QED
      BY <1>1, <1>11, SeqDef

\* What a visit results in, for rows of a kind.
Result(Row) == [next : Nat, rows : {R \in SUBSET Row : IsFiniteSet(R)}]

\* Visits of siblings result in rows of their kind.
LEMMA VisitInOrderType ==
  ASSUME NEW Row, NEW runs, NEW visit \in [runs -> [Nat -> [Nat -> Result(Row)]]],
         NEW siblings \in Seq(runs), NEW next_order \in Nat
  PROVE  VisitInOrder(visit, siblings, next_order) \in Result(Row)
<1> DEFINE m == Len(siblings)
           V == Result(Row)
           b == [next |-> next_order, rows |-> {}]
           Then(i, x) == LET v == visit[siblings[i]][i - 1][x.next]
                         IN  [next |-> v.next, rows |-> x.rows \cup v.rows]
           Solves(f) == f = [i \in 0..m |-> IF i = 0 THEN b ELSE Then(i, f[i - 1])]
           F == [n \in Nat |-> [x \in V |-> IF n + 1 \in 1..m THEN Then(n + 1, x) ELSE b]]
<1>1. m \in Nat /\ siblings \in [1..m -> runs]
      OBVIOUS
<1>2. b \in V
      BY FS_EmptySet DEF Result
<1>3. ASSUME NEW i \in 1..m, NEW x \in V PROVE Then(i, x) \in V
  <2> DEFINE v == visit[siblings[i]][i - 1][x.next]
  <2>1. x.next \in Nat /\ i - 1 \in Nat /\ siblings[i] \in runs
        BY <1>1 DEF Result
  <2>2. v \in Result(Row)
        BY <2>1
  <2> HIDE DEF v
  <2>3. /\ IsFiniteSet(x.rows) /\ x.rows \in SUBSET Row
        /\ IsFiniteSet(v.rows) /\ v.rows \in SUBSET Row /\ v.next \in Nat
        BY <2>2 DEF Result
  <2>4. Then(i, x) = [next |-> v.next, rows |-> x.rows \cup v.rows]
        BY DEF v
  <2>5. IsFiniteSet(x.rows \cup v.rows)
        BY <2>3, FS_Union
  <2>6. x.rows \cup v.rows \in SUBSET Row
        BY <2>3
  <2> HIDE DEF Then
  <2> QED
        BY <2>3, <2>4, <2>5, <2>6 DEF Result
<1> HIDE DEF Then, V, b
<1>4. F \in [Nat -> [V -> V]]
      BY <1>2, <1>3
<1>5. PICK g : g \in [Nat -> V] /\ g[0] = b /\ \A n \in Nat : g[n + 1] = F[n][g[n]]
  <2> HIDE DEF F
  <2>1. PICK f : Recursion(f, V, b, F)
        BY <1>2, <1>4, RecursionExists
  <2> QED
        BY <2>1 DEF Recursion
<1> DEFINE h == [i \in 0..m |-> g[i]]
<1>6. Solves(h)
  <2>1. ASSUME NEW i \in 1..m PROVE g[i] = Then(i, g[i - 1])
    <3>1. i - 1 \in Nat /\ (i - 1) + 1 = i
          BY <1>1
    <3>2. g[i] = F[i - 1][g[i - 1]] /\ g[i - 1] \in V
          BY <1>5, <3>1
    <3> QED
          BY <3>1, <3>2
  <2>2. \A i \in 0..m : h[i] = IF i = 0 THEN b ELSE Then(i, h[i - 1])
    <3> SUFFICES ASSUME NEW i \in 0..m PROVE h[i] = IF i = 0 THEN b ELSE Then(i, h[i - 1])
          OBVIOUS
    <3>1. CASE i = 0
          BY <1>5, <3>1
    <3>2. CASE i # 0
      <4>1. i \in 1..m /\ i - 1 \in 0..m
            BY <1>1, <3>2
      <4> QED
            BY <2>1, <3>2, <4>1
    <3> QED
          BY <3>1, <3>2
  <2>3. h = [i \in 0..m |-> h[i]]
        OBVIOUS
  <2> HIDE DEF h
  <2> QED
        BY <2>2, <2>3
<1> DEFINE upto == CHOOSE f : Solves(f)
<1>7. Solves(upto)
  <2> HIDE DEF Solves, h
  <2> QED
        BY <1>6
<1>8. VisitInOrder(visit, siblings, next_order) = upto[m]
      BY Zenon DEF VisitInOrder, Then, b
<1> HIDE DEF upto
<1>9. \A i \in 0..m : upto[i] \in V
  <2> DEFINE A == {i \in Nat : i =< m => upto[i] \in V}
  <2>1. upto[0] = b /\ \A i \in 1..m : upto[i] = Then(i, upto[i - 1])
    <3>1. \A i \in 0..m : upto[i] = IF i = 0 THEN b ELSE Then(i, upto[i - 1])
          BY <1>7, Zenon
    <3>2. 0 \in 0..m /\ \A i \in 1..m : i \in 0..m /\ i # 0
          BY <1>1
    <3> QED
          BY <3>1, <3>2, Zenon
  <2> HIDE DEF Solves
  <2>2. 0 \in A
        BY <1>2, <2>1
  <2>3. ASSUME NEW n \in Nat, n \in A PROVE n + 1 \in A
    <3>1. CASE n + 1 =< m
      <4>1. n + 1 \in 1..m /\ (n + 1) - 1 = n /\ upto[n] \in V
            BY <1>1, <2>3, <3>1
      <4> QED
            BY <1>3, <2>1, <4>1
    <3> QED
          BY <3>1
  <2>4. Nat \subseteq A
    <3> HIDE DEF A
    <3> QED
          BY <2>2, <2>3, NumbersByInduction
  <2> QED
        BY <1>1, <2>4
<1> QED
      BY <1>1, <1>8, <1>9 DEF V

\* A row that the visit of a root results in.
TreeNode(hs, runs, root, s, left, sibling_order, start, end, count) ==
  [span |-> s, parent |-> EffectiveParent(hs, runs, s), root |-> root,
   depth |-> Cardinality(runs) - left, sibling_order |-> sibling_order,
   subtree_start |-> start, subtree_end |-> end, descendant_count |-> count,
   unresolved_parent |-> hs[s].parent # None /\ hs[s].parent \notin runs,
   cycle_detected |-> hs[s].parent \in runs /\ ParentCreatesCycle(hs, runs, s)]

TreeRow(hs, runs, root) ==
  {TreeNode(hs, runs, root, s, left, sibling_order, start, end, count) :
     s \in runs, left \in Nat, sibling_order \in Nat, start \in Nat, end \in Nat, count \in Nat}

\* The visit of a root results in rows of runs, with that root.
LEMMA VisitTreeNodeType ==
  ASSUME NEW hs, NEW runs, \A s \in runs : Children(hs, runs, s) \in Seq(runs),
         Cardinality(runs) \in Nat, NEW root \in runs
  PROVE  VisitTreeNode(hs, runs, root) \in [Nat -> [Nat -> Result(TreeRow(hs, runs, root))]]
<1> DEFINE Row == TreeRow(hs, runs, root)
           V == [runs -> [Nat -> [Nat -> Result(Row)]]]
           Node(left, s, o, n, below) ==
             [next |-> below.next + 1,
              rows |-> below.rows \cup {TreeNode(hs, runs, root, s, left, o, n, below.next,
                                                 Cardinality(below.rows))}]
           Leaf(n) == [next |-> n + 1, rows |-> {}]
           Level(left, x) ==
             [s \in runs |-> [o \in Nat |-> [n \in Nat |->
                Node(left, s, o, n, IF left = 0 THEN Leaf(n)
                                    ELSE VisitInOrder(x, Children(hs, runs, s), n + 1))]]]
           Solves(f) == f = [left \in Nat |-> Level(left, f[left - 1])]
<1>1. ASSUME NEW left \in Nat, NEW s \in runs, NEW o \in Nat, NEW n \in Nat,
             NEW below \in Result(Row)
      PROVE  Node(left, s, o, n, below) \in Result(Row)
  <2> DEFINE r == TreeNode(hs, runs, root, s, left, o, n, below.next, Cardinality(below.rows))
  <2> HIDE DEF Row
  <2>1. below.next \in Nat /\ below.rows \in SUBSET Row /\ IsFiniteSet(below.rows)
        BY DEF Result
  <2>2. Cardinality(below.rows) \in Nat
        BY <2>1, FS_CardinalityType
  <2>3. r \in Row
        BY <2>1, <2>2, SMT DEF Row, TreeRow
  <2>4. Node(left, s, o, n, below) = [next |-> below.next + 1, rows |-> below.rows \cup {r}]
        BY Zenon
  <2> HIDE DEF r, Node
  <2>5. IsFiniteSet(below.rows \cup {r})
        BY <2>1, FS_AddElement
  <2>6. below.rows \cup {r} \in SUBSET Row /\ below.next + 1 \in Nat
        BY <2>1, <2>3
  <2> QED
        BY <2>4, <2>5, <2>6 DEF Result
<1>2. ASSUME NEW n \in Nat PROVE Leaf(n) \in Result(Row)
      BY FS_EmptySet DEF Result
<1>3. ASSUME NEW left \in Nat, NEW x, left # 0 => x \in V PROVE Level(left, x) \in V
  <2> DEFINE below(s, n) == IF left = 0 THEN Leaf(n)
                            ELSE VisitInOrder(x, Children(hs, runs, s), n + 1)
  <2>1. ASSUME NEW s \in runs, NEW n \in Nat PROVE below(s, n) \in Result(Row)
    <3>1. n + 1 \in Nat /\ Children(hs, runs, s) \in Seq(runs)
          OBVIOUS
    <3> HIDE DEF Leaf, Row
    <3>2. CASE left = 0
          BY <1>2, <3>2
    <3>3. CASE left # 0
          BY <1>3, <3>1, <3>3, VisitInOrderType
    <3> QED
          BY <3>2, <3>3
  <2>2. Level(left, x) = [s \in runs |-> [o \in Nat |-> [n \in Nat |-> Node(left, s, o, n, below(s, n))]]]
        OBVIOUS
  <2> HIDE DEF below, Node, Leaf, Level, Row
  <2>3. \A s \in runs, o \in Nat, n \in Nat : Node(left, s, o, n, below(s, n)) \in Result(Row)
        BY <1>1, <2>1
  <2> QED
        BY <2>2, <2>3
<1> DEFINE F == [n \in Nat |-> [x \in V |-> Level(n + 1, x)]]
           b == Level(0, <<>>)
<1> HIDE DEF Level, Node, Leaf, V, Row
<1>4. F \in [Nat -> [V -> V]]
  <2>1. \A n \in Nat : n + 1 \in Nat /\ n + 1 # 0
        OBVIOUS
  <2> QED
        BY <1>3, <2>1
<1>5. b \in V
      BY <1>3
<1>6. PICK g : g \in [Nat -> V] /\ g[0] = b /\ \A n \in Nat : g[n + 1] = F[n][g[n]]
  <2> HIDE DEF F, b
  <2>1. PICK f : Recursion(f, V, b, F)
        BY <1>4, <1>5, RecursionExists
  <2> QED
        BY <2>1 DEF Recursion
<1>7. Solves(g)
  <2>1. ASSUME NEW n \in Nat PROVE g[n] = Level(n, g[n - 1])
    <3>1. CASE n = 0
      <4>1. \A x, y : Level(0, x) = Level(0, y)
            BY Zenon DEF Level
      <4> QED
            BY <1>6, <3>1, <4>1
    <3>2. CASE n # 0
      <4>1. n - 1 \in Nat /\ (n - 1) + 1 = n
            BY <3>2
      <4> QED
            BY <1>6, <4>1
    <3> QED
          BY <3>1, <3>2
  <2>2. g = [n \in Nat |-> g[n]]
        BY <1>6
  <2> QED
        BY <2>1, <2>2
<1> DEFINE visit == CHOOSE f : Solves(f)
<1>8. Solves(visit)
  <2> HIDE DEF Solves
  <2> QED
        BY <1>7
<1>9. VisitTreeNode(hs, runs, root) = visit[Cardinality(runs)][root]
      BY Zenon DEF VisitTreeNode, Level, Node, Leaf, TreeNode
<1> HIDE DEF visit
<1>10. \A n \in Nat : visit[n] \in V
  <2> DEFINE A == {n \in Nat : visit[n] \in V}
  <2>1. \A n \in Nat : visit[n] = Level(n, visit[n - 1])
        BY <1>8, Zenon
  <2> HIDE DEF Solves
  <2>2. 0 \in A
        BY <1>3, <2>1
  <2>3. ASSUME NEW n \in Nat, n \in A PROVE n + 1 \in A
    <3>1. n + 1 \in Nat /\ (n + 1) - 1 = n
          OBVIOUS
    <3> QED
          BY <1>3, <2>1, <2>3, <3>1
  <2> HIDE DEF A
  <2>4. Nat \subseteq A
        BY <2>2, <2>3, NumbersByInduction
  <2> QED
        BY <2>4 DEF A
<1> QED
      BY <1>9, <1>10 DEF V, Row

\* The rows of the tree of a trace are rows of its runs, with roots among them.
LEMMA TreeIndexType ==
  ASSUME NEW hs, NEW runs \in SUBSET Nat, IsFiniteSet(runs),
         \A s \in runs : hs[s].start \in Nat
  PROVE  \A n \in BuildTraceTreeIndex(hs, runs) : n.span \in runs /\ n.root \in runs
<1> DEFINE Row == UNION {TreeRow(hs, runs, r) : r \in runs}
           visit == [r \in runs |-> VisitTreeNode(hs, runs, r)]
           v == VisitInOrder(visit, Children(hs, runs, None), 0)
<1>1. ASSUME NEW p PROVE Children(hs, runs, p) \in Seq(runs)
  <2> DEFINE S == {s \in runs : EffectiveParent(hs, runs, s) = p}
  <2>1. S \in SUBSET runs
        OBVIOUS
  <2>2. Children(hs, runs, p) = InOrder(hs, S)
        BY Zenon DEF Children
  <2> HIDE DEF S
  <2>3. IsFiniteSet(S) /\ S \in SUBSET Nat /\ \A s \in S : hs[s].start \in Nat
        BY <2>1, FS_Subset
  <2>4. InOrder(hs, S) \in Seq(S)
        BY <2>3, InOrderType
  <2> DEFINE o == InOrder(hs, S)
  <2> HIDE DEF o
  <2>5. o \in Seq(runs)
    <3>1. o \in Seq(S)
          BY <2>4 DEF o
    <3>2. Len(o) \in Nat /\ o \in [1..Len(o) -> S]
          BY <3>1, LenProperties
    <3>3. o \in [1..Len(o) -> runs]
          BY <2>1, <3>2
    <3> QED
          BY <3>2, <3>3, SeqDef
  <2> QED
        BY <2>2, <2>5 DEF o
<1>2. Cardinality(runs) \in Nat
      BY FS_CardinalityType
<1>3. \A r \in runs : VisitTreeNode(hs, runs, r) \in [Nat -> [Nat -> Result(TreeRow(hs, runs, r))]]
      BY <1>1, <1>2, VisitTreeNodeType
<1>4. \A r \in runs : Result(TreeRow(hs, runs, r)) \subseteq Result(Row)
  <2> SUFFICES ASSUME NEW r \in runs PROVE Result(TreeRow(hs, runs, r)) \subseteq Result(Row)
        OBVIOUS
  <2>1. TreeRow(hs, runs, r) \subseteq Row
        BY Zenon
  <2> HIDE DEF Row
  <2> QED
        BY <2>1 DEF Result
<1> HIDE DEF Row
<1>5. \A r \in runs : VisitTreeNode(hs, runs, r) \in [Nat -> [Nat -> Result(Row)]]
      BY <1>3, <1>4
<1>6. visit \in [runs -> [Nat -> [Nat -> Result(Row)]]]
      BY <1>5
<1>7. BuildTraceTreeIndex(hs, runs) = v.rows
      BY Zenon DEF BuildTraceTreeIndex
<1> HIDE DEF visit
<1>8. v \in Result(Row)
      BY <1>1, <1>6, VisitInOrderType
<1> HIDE DEF v
<1>9. BuildTraceTreeIndex(hs, runs) \subseteq Row
      BY <1>7, <1>8 DEF Result
<1>10. \A n \in Row : n.span \in runs /\ n.root \in runs
  <2> SUFFICES ASSUME NEW n \in Row PROVE n.span \in runs /\ n.root \in runs
        OBVIOUS
  <2>1. PICK r \in runs : n \in TreeRow(hs, runs, r)
        BY Zenon DEF Row
  <2>2. PICK s \in runs, left \in Nat, o \in Nat, a \in Nat, e \in Nat, c \in Nat :
          n = TreeNode(hs, runs, r, s, left, o, a, e, c)
        BY <2>1, SMT DEF TreeRow
  <2>3. n.span = s /\ n.root = r
        BY <2>2 DEF TreeNode
  <2> QED
        BY <2>3
<1> QED
      BY <1>9, <1>10

----------------------------------------------------------------------------
(* The invariants. *)

NodeOK(n) ==
  n.node.span \in Spans /\ n.node.root \in Spans /\ TraceOf[n.node.span] = n.trace
ThreadTraceOK(r) == r.thread \in Threads /\ r.trace \in Traces

Refreshing == {"tree", "tree_delete", "tree_lock", "tree_insert", "tree_heads",
               "thread_delete", "thread_lock", "thread_upsert", "summary"}

\* A transaction, over the heads hs: its rows are of their kind, and those of a tree
\* are of runs that have a head.
TxOK(t, hs) ==
  /\ DOMAIN t = DOMAIN IdleTx
  /\ t.todo \in Seq(WriteOp) \cup Seq(DeleteOp)
  /\ t.pc = "heads" => t.todo # <<>>
  /\ t.traces \subseteq Traces
  /\ t.pc \in Refreshing => t.traces # {}
  /\ DOMAIN t.heads \subseteq Spans
  /\ \A s \in DOMAIN t.heads : t.heads[s] \in RunHead
  /\ t.deletions \subseteq Spans
  /\ \A n \in t.nodes_new : NodeOK(n)
  /\ \A r \in t.tt_new : ThreadTraceOK(r)
  /\ DOMAIN t.rollups \subseteq Groups
  /\ t.affected \subseteq Threads
  /\ t.pc \in {"tree_delete", "tree_lock", "tree_insert", "tree_heads"} =>
       \A n \in t.rows : NodeOK(n) /\ (n.node.span \in DOMAIN t.heads \/ hs[n.node.span] # None)
  /\ t.pc = "thread_upsert" => \A r \in t.rows : ThreadTraceOK(r)

TypeInv ==
  /\ conns \in Deployments
  /\ heads \in [Spans -> RunHead \cup {None}]
  /\ deletions \subseteq Spans
  /\ \A n \in nodes : NodeOK(n)
  /\ \A r \in thread_traces : ThreadTraceOK(r)
  /\ DOMAIN rollups \subseteq Groups
  /\ DOMAIN tx = Workers
  /\ \A w \in Workers : TxOK(tx[w], heads)
  /\ writes \in 0..MaxWrites

\* A transaction, over the heads hs and the deletions ds: it has changed nothing, or
\* refreshes what it has changed, or holds the rows of the project's stats and has
\* the rollups of what it sees.
RollupsTx(t, hs, ds) ==
  /\ t.pc = "rollups" => t.stats
  /\ t.pc \in {"stats", "rollups", "commit"} => t.traces = {}
  /\ t.pc \notin {"idle", "heads"} => t.todo \in Seq(DeleteOp)
  /\ t.pc = "heads" /\ t.todo \notin Seq(DeleteOp) => ~t.stats /\ t.deletions = {}
  /\ t.pc = "heads" /\ t.todo \in Seq(DeleteOp) => t.traces = {}
  /\ t.pc \in {"heads", "commit"} /\ ~t.stats /\ t.traces = {} =>
       t.deletions = {} /\ \A s \in DOMAIN t.heads : t.heads[s] = hs[s]
  /\ t.pc \in {"heads", "commit"} /\ t.stats =>
       t.rollups = RollupRows(Overlay(t.heads, hs), ds \cup t.deletions)

RollupsInv ==
  /\ rollups = RollupRows(heads, deletions)
  /\ \A w \in conns : RollupsTx(tx[w], heads, deletions)
  /\ \A v, w \in conns : v # w => /\ DOMAIN tx[v].heads \cap DOMAIN tx[w].heads = {}
                                  /\ ~(tx[v].stats /\ tx[w].stats)

\* The head that the transaction t has written for the run of the node m has the root
\* of m, if the run is still visible over the deletions ds.
Agrees(t, ds, m) ==
  LET s == m.node.span
  IN  s \in ds \cup t.deletions \/ t.heads[s].marked \/ t.heads[s].root = m.node.root

\* The node m of a run whose head the transaction t has written: its tree is still to
\* be rebuilt, or it is about to be deleted, or is one whose root is about to be
\* written to the head, or the head agrees with it.
Settled(t, ds, m) ==
  \/ /\ TraceOf[m.node.span] \in t.traces
     /\ t.pc \in {"heads", "tree", "tree_delete"} \/ TraceOf[m.node.span] # Min(t.traces)
  \/ t.pc = "tree_lock" /\ m \in t.victims
  \/ t.pc = "tree_heads" /\ m \in t.rows
  \/ Agrees(t, ds, m)

\* The nodes that a transaction sees, over the nodes ns.
Seen(t, ns) == (ns \ t.nodes_gone) \cup t.nodes_new

\* A transaction, over the deletions ds and the nodes ns: its new nodes are the only
\* ones of their runs, whose heads it has written or is about to write.
TreeTx(t, ds, ns) ==
  /\ \A m \in t.nodes_new, n \in Seen(t, ns) : SameNode(m, n) => m = n
  /\ \A n \in t.nodes_new : \/ n.node.span \in DOMAIN t.heads
                            \/ t.pc = "tree_heads" /\ n \in t.rows
  /\ t.pc = "tree_heads" => t.rows \subseteq t.nodes_new
  /\ \A m \in Seen(t, ns) : m.node.span \in DOMAIN t.heads => Settled(t, ds, m)

TreeInv ==
  /\ HeadRootsAgreeWithTheTree
  /\ \A w \in conns : TreeTx(tx[w], deletions, nodes)
  /\ \A v, w \in conns : v # w => \A m \in tx[v].nodes_new, n \in tx[w].nodes_new : ~SameNode(m, n)

----------------------------------------------------------------------------
(* What the steps do to the transaction. *)

Fields == {"pc", "id", "todo", "traces", "heads", "deletions", "nodes_new", "nodes_gone",
           "tt_new", "tt_gone", "threads", "stats", "rollups", "rows", "victims", "affected"}

LEMMA IdleFields ==
  DOMAIN IdleTx = Fields
  BY DEF IdleTx, Fields

\* The transaction u is t but for some fields.
Same(t, u, changed) ==
  DOMAIN u = Fields /\ \A f \in Fields \ changed : u[f] = t[f]

\* A step of the transaction of w alone.
StepOf(w) ==
  /\ w \in conns /\ DOMAIN tx' = Workers
  /\ \A v \in Workers \ {w} : tx'[v] = tx[v]
  /\ UNCHANGED <<conns, tables>>

LEMMA BecomeIsStep ==
  ASSUME TypeInv, NEW w \in Workers, w \in conns, NEW t, Become(w, t), UNCHANGED <<conns, tables>>
  PROVE  StepOf(w) /\ tx'[w] = t
  BY DEF TypeInv, Become, StepOf

LEMMA TreeSelectStep ==
  ASSUME TypeInv, NEW w \in Workers, TreeSelect(w)
  PROVE  /\ StepOf(w) /\ writes' = writes /\ tx[w].pc = "tree" /\ tx'[w].pc = "tree_delete"
         /\ tx'[w].rows = {[id |-> tx[w].id, trace |-> Trace(w), node |-> n] :
                   n \in BuildTraceTreeIndex(HeadsOf(w), InTrace(VisibleTo(w), Trace(w)))}
         /\ Same(tx[w], tx'[w], {"pc", "rows"})
<1> DEFINE R == {[id |-> tx[w].id, trace |-> Trace(w), node |-> n] :
                   n \in BuildTraceTreeIndex(HeadsOf(w), InTrace(VisibleTo(w), Trace(w)))}
<1>1. /\ w \in conns /\ tx[w].pc = "tree" /\ Become(w, [tx[w] EXCEPT !.pc = "tree_delete", !.rows = R])
      /\ UNCHANGED <<conns, tables, writes>>
      BY Zenon DEF TreeSelect, At
<1> HIDE DEF R
<1>2. StepOf(w) /\ tx'[w] = [tx[w] EXCEPT !.pc = "tree_delete", !.rows = R]
      BY <1>1, BecomeIsStep
<1>3. DOMAIN tx[w] = Fields
      BY IdleFields DEF TypeInv, TxOK
<1> DEFINE t == tx[w]
<1> HIDE DEF t
<1>4. /\ Same(t, [t EXCEPT !.pc = "tree_delete", !.rows = R], {"pc", "rows"})
      /\ [t EXCEPT !.pc = "tree_delete", !.rows = R].pc = "tree_delete"
      /\ [t EXCEPT !.pc = "tree_delete", !.rows = R].rows = R
      BY <1>3 DEF t, Same, Fields
<1> QED
      BY <1>1, <1>2, <1>4 DEF t, R

\* The fields of a transaction.
LEMMA TxFields ==
  ASSUME TypeInv, NEW w \in Workers
  PROVE  DOMAIN tx[w] = Fields
  BY IdleFields DEF TypeInv, TxOK

\* The end of a transaction that fails.
LEMMA FailStep ==
  ASSUME TypeInv, NEW w \in Workers, Fail(w) \/ TreeConflict(w)
  PROVE  StepOf(w) /\ writes' = writes /\ tx'[w] = IdleTx
<1>1. w \in conns /\ Become(w, IdleTx) /\ UNCHANGED <<conns, tables, writes>>
      BY DEF Fail, TreeConflict, At
<1> QED
      BY <1>1, BecomeIsStep

LEMMA BeginStep ==
  ASSUME TypeInv, NEW w \in Workers, Begin(w)
  PROVE  \E job \in Jobs[conns] :
           /\ StepOf(w) /\ writes' \in 0..MaxWrites
           /\ tx'[w].pc = "heads" /\ tx'[w].todo = job
           /\ Same(IdleTx, tx'[w], {"pc", "id", "todo"})
<1> DEFINE t(job) == [IdleTx EXCEPT !.pc = "heads", !.id = FreshId, !.todo = job]
<1>1. PICK job \in Jobs[conns] :
        /\ IsWrite(job) => writes < MaxWrites
        /\ writes' = IF IsWrite(job) THEN writes + 1 ELSE writes
        /\ Become(w, t(job))
      BY Zenon DEF Begin
<1>2. w \in conns /\ UNCHANGED <<conns, tables>>
      BY DEF Begin, At
<1>3. writes' \in 0..MaxWrites
  <2>1. writes \in 0..MaxWrites /\ MaxWrites \in Nat
        BY SpansAssumption DEF TypeInv
  <2> QED
        BY <1>1, <2>1
<1>4. t(job).pc = "heads" /\ t(job).todo = job /\ Same(IdleTx, t(job), {"pc", "id", "todo"})
  <2> DEFINE i == FreshId
             j == IdleTx
  <2> HIDE DEF i, j
  <2>1. DOMAIN j = Fields
        BY IdleFields DEF j
  <2>2. /\ [j EXCEPT !.pc = "heads", !.id = i, !.todo = job].pc = "heads"
        /\ [j EXCEPT !.pc = "heads", !.id = i, !.todo = job].todo = job
        /\ Same(j, [j EXCEPT !.pc = "heads", !.id = i, !.todo = job], {"pc", "id", "todo"})
        BY <2>1 DEF Same, Fields
  <2> QED
        BY <2>2 DEF i, j
<1> HIDE DEF t
<1>5. StepOf(w) /\ tx'[w] = t(job)
      BY <1>1, <1>2, BecomeIsStep
<1> QED
      BY <1>3, <1>4, <1>5

LEMMA UpsertHeadStep ==
  ASSUME TypeInv, NEW w \in Workers, UpsertHead(w)
  PROVE  LET t == tx[w]
             r == Head(t.todo)
             old == HeadsOf(w)[r.span]
             updated == old = None \/ old.at =< r.at
             new == [parent |-> r.parent, thread |-> r.thread, group |-> r.group,
                     start |-> r.start, at |-> r.at, root |-> RootLocator(w, r),
                     marked |-> FALSE]
             traces == IF updated THEN t.traces \cup {TraceOf[r.span]} ELSE t.traces
         IN  /\ StepOf(w) /\ writes' = writes /\ t.pc = "heads"
             /\ r.op = "write" /\ ~HeadIsLocked(w, r.span)
             /\ tx'[w].pc = AfterHeads(Tail(t.todo), traces)
             /\ tx'[w].todo = Tail(t.todo) /\ tx'[w].traces = traces
             /\ tx'[w].heads = With(t.heads, r.span, IF updated THEN new ELSE old)
             /\ Same(t, tx'[w], {"pc", "todo", "traces", "heads"})
<1> DEFINE t == tx[w]
           r == Head(t.todo)
           old == HeadsOf(w)[r.span]
           updated == old = None \/ old.at =< r.at
           new == [parent |-> r.parent, thread |-> r.thread, group |-> r.group,
                   start |-> r.start, at |-> r.at, root |-> RootLocator(w, r),
                   marked |-> FALSE]
           traces == IF updated THEN t.traces \cup {TraceOf[r.span]} ELSE t.traces
           H == With(t.heads, r.span, IF updated THEN new ELSE old)
           D == Tail(t.todo)
           P == AfterHeads(D, traces)
           u == [t EXCEPT !.heads = H, !.todo = D, !.traces = traces, !.pc = P]
<1>1. /\ w \in conns /\ t.pc = "heads" /\ r.op = "write" /\ ~HeadIsLocked(w, r.span)
      /\ Become(w, u) /\ UNCHANGED <<conns, tables, writes>>
      BY Zenon DEF UpsertHead, At
<1>2. DOMAIN t = Fields
      BY TxFields
<1>3. /\ u.pc = P /\ u.todo = D /\ u.traces = traces /\ u.heads = H
      /\ Same(t, u, {"pc", "todo", "traces", "heads"})
  <2> HIDE DEF t, traces, H, D, P
  <2> QED
        BY <1>2 DEF Same, Fields
<1>4. StepOf(w) /\ tx'[w] = u
  <2> HIDE DEF u
  <2> QED
        BY <1>1, BecomeIsStep
<1> HIDE DEF u
<1> QED
      BY <1>1, <1>3, <1>4, Zenon

LEMMA DeleteHeadStep ==
  ASSUME TypeInv, NEW w \in Workers, DeleteHead(w)
  PROVE  LET t == tx[w]
             r == Head(t.todo)
             old == HeadsOf(w)[r.span]
             found == old # None /\ ~old.marked
             traces == IF found THEN {TraceOf[r.span]} ELSE {}
         IN  /\ StepOf(w) /\ writes' = writes /\ t.pc = "heads"
             /\ r.op = "delete"
             /\ found => ~HeadIsLocked(w, r.span)
             /\ tx'[w].pc = AfterHeads(Tail(t.todo), traces)
             /\ tx'[w].todo = Tail(t.todo) /\ tx'[w].traces = traces
             /\ tx'[w].heads = IF found THEN With(t.heads, r.span, [old EXCEPT !.marked = TRUE, !.at = r.at])
                               ELSE t.heads
             /\ tx'[w].deletions = IF found THEN t.deletions \cup {r.span} ELSE t.deletions
             /\ Same(t, tx'[w], {"pc", "todo", "traces", "heads", "deletions"})
<1> DEFINE t == tx[w]
           r == Head(t.todo)
           old == HeadsOf(w)[r.span]
           found == old # None /\ ~old.marked
           traces == IF found THEN {TraceOf[r.span]} ELSE {}
           H == IF found THEN With(t.heads, r.span, [old EXCEPT !.marked = TRUE, !.at = r.at])
                ELSE t.heads
           X == IF found THEN t.deletions \cup {r.span} ELSE t.deletions
           D == Tail(t.todo)
           P == AfterHeads(D, traces)
           u == [t EXCEPT !.heads = H, !.deletions = X, !.todo = D, !.traces = traces, !.pc = P]
<1>1. /\ w \in conns /\ t.pc = "heads" /\ r.op = "delete" /\ (found => ~HeadIsLocked(w, r.span))
      /\ Become(w, u) /\ UNCHANGED <<conns, tables, writes>>
      BY Zenon DEF DeleteHead, At
<1>2. DOMAIN t = Fields
      BY TxFields
<1>3. /\ u.pc = P /\ u.todo = D /\ u.traces = traces /\ u.heads = H /\ u.deletions = X
      /\ Same(t, u, {"pc", "todo", "traces", "heads", "deletions"})
  <2> HIDE DEF t, traces, H, X, D, P
  <2> QED
        BY <1>2 DEF Same, Fields
<1>4. StepOf(w) /\ tx'[w] = u
  <2> HIDE DEF u
  <2> QED
        BY <1>1, BecomeIsStep
<1> HIDE DEF u
<1> QED
      BY <1>1, <1>3, <1>4, Zenon

LEMMA TreeDeleteStep ==
  ASSUME TypeInv, NEW w \in Workers, TreeDelete(w)
  PROVE  /\ StepOf(w) /\ writes' = writes
         /\ tx[w].pc = "tree_delete"
         /\ tx'[w].pc = "tree_lock"
         /\ tx'[w].victims = {n \in NodesOf(w) : n.trace = Trace(w)}
         /\ Same(tx[w], tx'[w], {"pc", "victims"})
<1> DEFINE t == tx[w]
           x1 == {n \in NodesOf(w) : n.trace = Trace(w)}
           u == [t EXCEPT !.pc = "tree_lock", !.victims = x1]
<1>1. /\ w \in conns
      /\ tx[w].pc = "tree_delete"
      /\ Become(w, u) /\ UNCHANGED <<conns, tables, writes>>
      BY Zenon DEF TreeDelete, At
<1>2. DOMAIN t = Fields
      BY TxFields
<1>3. /\ u.pc = "tree_lock" /\ u.victims = x1
      /\ Same(t, u, {"pc", "victims"})
  <2> HIDE DEF t, x1
  <2> QED
        BY <1>2 DEF Same, Fields
<1>4. StepOf(w) /\ tx'[w] = u
  <2> HIDE DEF u
  <2> QED
        BY <1>1, BecomeIsStep
<1> HIDE DEF u
<1> QED
      BY <1>1, <1>3, <1>4, Zenon

LEMMA TreeLockStep ==
  ASSUME TypeInv, NEW w \in Workers, TreeLock(w)
  PROVE  /\ StepOf(w) /\ writes' = writes
         /\ tx[w].pc = "tree_lock"
         /\ tx'[w].pc = "tree_insert"
         /\ tx'[w].victims = {}
         /\ tx'[w].nodes_gone = tx[w].nodes_gone \cup (tx[w].victims \cap nodes)
         /\ tx'[w].nodes_new = tx[w].nodes_new \ tx[w].victims
         /\ Same(tx[w], tx'[w], {"pc", "victims", "nodes_gone", "nodes_new"})
<1> DEFINE t == tx[w]
           x1 == tx[w].nodes_gone \cup (tx[w].victims \cap nodes)
           x2 == tx[w].nodes_new \ tx[w].victims
           u == [t EXCEPT !.pc = "tree_insert", !.victims = {}, !.nodes_gone = x1, !.nodes_new = x2]
<1>1. /\ w \in conns
      /\ tx[w].pc = "tree_lock"
      /\ Become(w, u) /\ UNCHANGED <<conns, tables, writes>>
      BY Zenon DEF TreeLock, At
<1>2. DOMAIN t = Fields
      BY TxFields
<1>3. /\ u.pc = "tree_insert" /\ u.victims = {} /\ u.nodes_gone = x1 /\ u.nodes_new = x2
      /\ Same(t, u, {"pc", "victims", "nodes_gone", "nodes_new"})
  <2> HIDE DEF t, x1, x2
  <2> QED
        BY <1>2 DEF Same, Fields
<1>4. StepOf(w) /\ tx'[w] = u
  <2> HIDE DEF u
  <2> QED
        BY <1>1, BecomeIsStep
<1> HIDE DEF u
<1> QED
      BY <1>1, <1>3, <1>4, Zenon

LEMMA TreeInsertStep ==
  ASSUME TypeInv, NEW w \in Workers, TreeInsert(w)
  PROVE  /\ StepOf(w) /\ writes' = writes
         /\ tx[w].pc = "tree_insert"
         /\ \A m, n \in tx[w].rows : SameNode(m, n) => m = n
         /\ \A n \in tx[w].rows : \A m \in NodesOf(w) : ~SameNode(m, n)
         /\ \A n \in tx[w].rows : \A v \in Others(w) : \A m \in tx[v].nodes_new : ~SameNode(m, n)
         /\ tx'[w].pc = "tree_heads"
         /\ tx'[w].nodes_new = tx[w].nodes_new \cup tx[w].rows
         /\ Same(tx[w], tx'[w], {"pc", "nodes_new"})
<1> DEFINE t == tx[w]
           x1 == tx[w].nodes_new \cup tx[w].rows
           u == [t EXCEPT !.pc = "tree_heads", !.nodes_new = x1]
<1>1. /\ w \in conns
      /\ tx[w].pc = "tree_insert"
      /\ \A m, n \in tx[w].rows : SameNode(m, n) => m = n
      /\ \A n \in tx[w].rows : \A m \in NodesOf(w) : ~SameNode(m, n)
      /\ \A n \in tx[w].rows : \A v \in Others(w) : \A m \in tx[v].nodes_new : ~SameNode(m, n)
      /\ Become(w, u) /\ UNCHANGED <<conns, tables, writes>>
      BY Zenon DEF TreeInsert, At
<1>2. DOMAIN t = Fields
      BY TxFields
<1>3. /\ u.pc = "tree_heads" /\ u.nodes_new = x1
      /\ Same(t, u, {"pc", "nodes_new"})
  <2> HIDE DEF t, x1
  <2> QED
        BY <1>2 DEF Same, Fields
<1>4. StepOf(w) /\ tx'[w] = u
  <2> HIDE DEF u
  <2> QED
        BY <1>1, BecomeIsStep
<1> HIDE DEF u
<1> QED
      BY <1>1, <1>3, <1>4, Zenon

LEMMA TreeHeadsStep ==
  ASSUME TypeInv, NEW w \in Workers, TreeHeads(w)
  PROVE  LET mine == {n.node.span : n \in tx[w].rows}
             root(s) == (CHOOSE n \in tx[w].rows : n.node.span = s).node.root
         IN  /\ StepOf(w) /\ writes' = writes
             /\ tx[w].pc = "tree_heads"
             /\ \A s \in mine : ~HeadIsLocked(w, s)
             /\ tx'[w].pc = "thread_delete"
             /\ tx'[w].rows = {}
             /\ tx'[w].heads = [s \in DOMAIN tx[w].heads \cup mine |->
                   IF s \in mine THEN [HeadsOf(w)[s] EXCEPT !.root = root(s)] ELSE tx[w].heads[s]]
             /\ Same(tx[w], tx'[w], {"pc", "rows", "heads"})
<1> DEFINE t == tx[w]
           mine == {n.node.span : n \in tx[w].rows}
           root(s) == (CHOOSE n \in tx[w].rows : n.node.span = s).node.root
           x1 == [s \in DOMAIN tx[w].heads \cup mine |->
                   IF s \in mine THEN [HeadsOf(w)[s] EXCEPT !.root = root(s)] ELSE tx[w].heads[s]]
           u == [t EXCEPT !.pc = "thread_delete", !.rows = {}, !.heads = x1]
<1>1. /\ w \in conns
      /\ tx[w].pc = "tree_heads"
      /\ \A s \in mine : ~HeadIsLocked(w, s)
      /\ Become(w, u) /\ UNCHANGED <<conns, tables, writes>>
      BY Zenon DEF TreeHeads, At
<1>2. DOMAIN t = Fields
      BY TxFields
<1>3. /\ u.pc = "thread_delete" /\ u.rows = {} /\ u.heads = x1
      /\ Same(t, u, {"pc", "rows", "heads"})
  <2> HIDE DEF t, x1
  <2> QED
        BY <1>2 DEF Same, Fields
<1>4. StepOf(w) /\ tx'[w] = u
  <2> HIDE DEF u
  <2> QED
        BY <1>1, BecomeIsStep
<1> HIDE DEF u
<1> QED
      BY <1>1, <1>3, <1>4, Zenon

LEMMA ThreadDeleteStep ==
  ASSUME TypeInv, NEW w \in Workers, ThreadDelete(w)
  PROVE  LET old == {r \in ThreadTracesOf(w) : r.trace = Trace(w)}
         IN  /\ StepOf(w) /\ writes' = writes
             /\ tx[w].pc = "thread_delete"
             /\ tx'[w].pc = "thread_lock"
             /\ tx'[w].victims = old
             /\ tx'[w].affected = {r.thread : r \in old}
             /\ Same(tx[w], tx'[w], {"pc", "victims", "affected"})
<1> DEFINE t == tx[w]
           old == {r \in ThreadTracesOf(w) : r.trace = Trace(w)}
           x1 == {r.thread : r \in old}
           u == [t EXCEPT !.pc = "thread_lock", !.victims = old, !.affected = x1]
<1>1. /\ w \in conns
      /\ tx[w].pc = "thread_delete"
      /\ Become(w, u) /\ UNCHANGED <<conns, tables, writes>>
      BY Zenon DEF ThreadDelete, At
<1>2. DOMAIN t = Fields
      BY TxFields
<1>3. /\ u.pc = "thread_lock" /\ u.victims = old /\ u.affected = x1
      /\ Same(t, u, {"pc", "victims", "affected"})
  <2> HIDE DEF t, old, x1
  <2> QED
        BY <1>2 DEF Same, Fields
<1>4. StepOf(w) /\ tx'[w] = u
  <2> HIDE DEF u
  <2> QED
        BY <1>1, BecomeIsStep
<1> HIDE DEF u
<1> QED
      BY <1>1, <1>3, <1>4, Zenon

LEMMA ThreadLockStep ==
  ASSUME TypeInv, NEW w \in Workers, ThreadLock(w)
  PROVE  LET ids == {<<r.id, r.thread>> : r \in tx[w].victims}
             old == {r \in ThreadTracesOf(w) : r.trace = Trace(w) /\ <<r.id, r.thread>> \in ids}
             rows == ThreadTraceRows(HeadsOf(w), InTrace(VisibleTo(w), Trace(w)), Trace(w))
         IN  /\ StepOf(w) /\ writes' = writes
             /\ tx[w].pc = "thread_lock"
             /\ tx'[w].pc = "thread_upsert"
             /\ tx'[w].victims = {}
             /\ tx'[w].rows = rows
             /\ tx'[w].affected = tx[w].affected \cup {r.thread : r \in rows}
             /\ tx'[w].tt_gone = tx[w].tt_gone \cup (old \cap thread_traces)
             /\ tx'[w].tt_new = tx[w].tt_new \ old
             /\ Same(tx[w], tx'[w], {"pc", "victims", "rows", "affected", "tt_gone", "tt_new"})
<1> DEFINE t == tx[w]
           ids == {<<r.id, r.thread>> : r \in tx[w].victims}
           old == {r \in ThreadTracesOf(w) : r.trace = Trace(w) /\ <<r.id, r.thread>> \in ids}
           rows == ThreadTraceRows(HeadsOf(w), InTrace(VisibleTo(w), Trace(w)), Trace(w))
           x1 == tx[w].affected \cup {r.thread : r \in rows}
           x2 == tx[w].tt_gone \cup (old \cap thread_traces)
           x3 == tx[w].tt_new \ old
           u == [t EXCEPT !.pc = "thread_upsert", !.victims = {}, !.rows = rows, !.affected = x1, !.tt_gone = x2, !.tt_new = x3]
<1>1. /\ w \in conns
      /\ tx[w].pc = "thread_lock"
      /\ Become(w, u) /\ UNCHANGED <<conns, tables, writes>>
      BY Zenon DEF ThreadLock, At
<1>2. DOMAIN t = Fields
      BY TxFields
<1>3. /\ u.pc = "thread_upsert" /\ u.victims = {} /\ u.rows = rows /\ u.affected = x1 /\ u.tt_gone = x2 /\ u.tt_new = x3
      /\ Same(t, u, {"pc", "victims", "rows", "affected", "tt_gone", "tt_new"})
  <2> HIDE DEF t, rows, x1, x2, x3
  <2> QED
        BY <1>2 DEF Same, Fields
<1>4. StepOf(w) /\ tx'[w] = u
  <2> HIDE DEF u
  <2> QED
        BY <1>1, BecomeIsStep
<1> HIDE DEF u
<1> QED
      BY <1>1, <1>3, <1>4, Zenon

LEMMA ThreadUpsertStep ==
  ASSUME TypeInv, NEW w \in Workers, ThreadUpsert(w)
  PROVE  LET h == Min({r.thread : r \in tx[w].rows})
             row == CHOOSE r \in tx[w].rows : r.thread = h
             same == {r \in ThreadTracesOf(w) : r.thread = h /\ r.trace = Trace(w)}
             id == IF same = {} THEN tx[w].id ELSE (CHOOSE r \in same : TRUE).id
             thread == IF ThreadsOf(w)[h] = None THEN NewThread ELSE ThreadsOf(w)[h]
         IN  /\ StepOf(w) /\ writes' = writes
             /\ tx[w].pc = "thread_upsert"
             /\ tx[w].rows # {}
             /\ tx'[w].rows = tx[w].rows \ {row}
             /\ tx'[w].threads = With(tx[w].threads, h, thread)
             /\ tx'[w].tt_gone = tx[w].tt_gone \cup (same \cap thread_traces)
             /\ tx'[w].tt_new = (tx[w].tt_new \ same) \cup
               {[id |-> id, thread |-> h, trace |-> row.trace, start |-> row.start,
                 tokens |-> row.tokens]}
             /\ Same(tx[w], tx'[w], {"rows", "threads", "tt_gone", "tt_new"})
<1> DEFINE t == tx[w]
           h == Min({r.thread : r \in tx[w].rows})
           row == CHOOSE r \in tx[w].rows : r.thread = h
           same == {r \in ThreadTracesOf(w) : r.thread = h /\ r.trace = Trace(w)}
           id == IF same = {} THEN tx[w].id ELSE (CHOOSE r \in same : TRUE).id
           thread == IF ThreadsOf(w)[h] = None THEN NewThread ELSE ThreadsOf(w)[h]
           x1 == tx[w].rows \ {row}
           x2 == With(tx[w].threads, h, thread)
           x3 == tx[w].tt_gone \cup (same \cap thread_traces)
           x4 == (tx[w].tt_new \ same) \cup
               {[id |-> id, thread |-> h, trace |-> row.trace, start |-> row.start,
                 tokens |-> row.tokens]}
           u == [t EXCEPT !.rows = x1, !.threads = x2, !.tt_gone = x3, !.tt_new = x4]
<1>1. /\ w \in conns
      /\ tx[w].pc = "thread_upsert"
      /\ tx[w].rows # {}
      /\ Become(w, u) /\ UNCHANGED <<conns, tables, writes>>
      BY Zenon DEF ThreadUpsert, At
<1>2. DOMAIN t = Fields
      BY TxFields
<1>3. /\ u.rows = x1 /\ u.threads = x2 /\ u.tt_gone = x3 /\ u.tt_new = x4
      /\ Same(t, u, {"rows", "threads", "tt_gone", "tt_new"})
  <2> HIDE DEF t, x1, x2, x3, x4
  <2> QED
        BY <1>2 DEF Same, Fields
<1>4. StepOf(w) /\ tx'[w] = u
  <2> HIDE DEF u
  <2> QED
        BY <1>1, BecomeIsStep
<1> HIDE DEF u
<1> QED
      BY <1>1, <1>3, <1>4, Zenon

LEMMA SummaryReadStep ==
  ASSUME TypeInv, NEW w \in Workers, SummaryRead(w)
  PROVE  /\ StepOf(w) /\ writes' = writes
         /\ tx[w].pc = "thread_upsert"
         /\ tx'[w].pc = "summary"
         /\ tx'[w].rows = {r \in ThreadTracesOf(w) : r.thread = Thread(w)}
         /\ Same(tx[w], tx'[w], {"pc", "rows"})
<1> DEFINE t == tx[w]
           x1 == {r \in ThreadTracesOf(w) : r.thread = Thread(w)}
           u == [t EXCEPT !.pc = "summary", !.rows = x1]
<1>1. /\ w \in conns
      /\ tx[w].pc = "thread_upsert"
      /\ Become(w, u) /\ UNCHANGED <<conns, tables, writes>>
      BY Zenon DEF SummaryRead, At
<1>2. DOMAIN t = Fields
      BY TxFields
<1>3. /\ u.pc = "summary" /\ u.rows = x1
      /\ Same(t, u, {"pc", "rows"})
  <2> HIDE DEF t, x1
  <2> QED
        BY <1>2 DEF Same, Fields
<1>4. StepOf(w) /\ tx'[w] = u
  <2> HIDE DEF u
  <2> QED
        BY <1>1, BecomeIsStep
<1> HIDE DEF u
<1> QED
      BY <1>1, <1>3, <1>4, Zenon

LEMMA SummaryWriteStep ==
  ASSUME TypeInv, NEW w \in Workers, SummaryWrite(w)
  PROVE  LET h == Thread(w)
             found == ThreadsOf(w)[h] # None
             row == IF tx[w].rows = {} THEN None ELSE Summary(tx[w].rows)
             cascade == {r \in ThreadTracesOf(w) : found /\ tx[w].rows = {} /\ r.thread = h}
         IN  /\ StepOf(w) /\ writes' = writes
             /\ tx[w].pc = "summary"
             /\ tx'[w].pc = "thread_upsert"
             /\ tx'[w].rows = {}
             /\ tx'[w].affected = tx[w].affected \ {h}
             /\ tx'[w].threads = IF found THEN With(tx[w].threads, h, row) ELSE tx[w].threads
             /\ tx'[w].tt_gone = tx[w].tt_gone \cup (cascade \cap thread_traces)
             /\ tx'[w].tt_new = tx[w].tt_new \ cascade
             /\ Same(tx[w], tx'[w], {"pc", "rows", "affected", "threads", "tt_gone", "tt_new"})
<1> DEFINE t == tx[w]
           h == Thread(w)
           found == ThreadsOf(w)[h] # None
           row == IF tx[w].rows = {} THEN None ELSE Summary(tx[w].rows)
           cascade == {r \in ThreadTracesOf(w) : found /\ tx[w].rows = {} /\ r.thread = h}
           x1 == tx[w].affected \ {h}
           x2 == IF found THEN With(tx[w].threads, h, row) ELSE tx[w].threads
           x3 == tx[w].tt_gone \cup (cascade \cap thread_traces)
           x4 == tx[w].tt_new \ cascade
           u == [t EXCEPT !.pc = "thread_upsert", !.rows = {}, !.affected = x1, !.threads = x2, !.tt_gone = x3, !.tt_new = x4]
<1>1. /\ w \in conns
      /\ tx[w].pc = "summary"
      /\ Become(w, u) /\ UNCHANGED <<conns, tables, writes>>
      BY Zenon DEF SummaryWrite, At
<1>2. DOMAIN t = Fields
      BY TxFields
<1>3. /\ u.pc = "thread_upsert" /\ u.rows = {} /\ u.affected = x1 /\ u.threads = x2 /\ u.tt_gone = x3 /\ u.tt_new = x4
      /\ Same(t, u, {"pc", "rows", "affected", "threads", "tt_gone", "tt_new"})
  <2> HIDE DEF t, x1, x2, x3, x4
  <2> QED
        BY <1>2 DEF Same, Fields
<1>4. StepOf(w) /\ tx'[w] = u
  <2> HIDE DEF u
  <2> QED
        BY <1>1, BecomeIsStep
<1> HIDE DEF u
<1> QED
      BY <1>1, <1>3, <1>4, Zenon

LEMMA TraceDoneStep ==
  ASSUME TypeInv, NEW w \in Workers, TraceDone(w)
  PROVE  LET left == tx[w].traces \ {Trace(w)}
         IN  /\ StepOf(w) /\ writes' = writes
             /\ tx[w].pc = "thread_upsert"
             /\ tx[w].rows = {}
             /\ tx'[w].traces = left
             /\ tx'[w].pc = IF left = {} THEN "stats" ELSE "tree"
             /\ Same(tx[w], tx'[w], {"traces", "pc"})
<1> DEFINE t == tx[w]
           left == tx[w].traces \ {Trace(w)}
           x1 == IF left = {} THEN "stats" ELSE "tree"
           u == [t EXCEPT !.traces = left, !.pc = x1]
<1>1. /\ w \in conns
      /\ tx[w].pc = "thread_upsert"
      /\ tx[w].rows = {}
      /\ Become(w, u) /\ UNCHANGED <<conns, tables, writes>>
      BY Zenon DEF TraceDone, At
<1>2. DOMAIN t = Fields
      BY TxFields
<1>3. /\ u.traces = left /\ u.pc = x1
      /\ Same(t, u, {"traces", "pc"})
  <2> HIDE DEF t, left, x1
  <2> QED
        BY <1>2 DEF Same, Fields
<1>4. StepOf(w) /\ tx'[w] = u
  <2> HIDE DEF u
  <2> QED
        BY <1>1, BecomeIsStep
<1> HIDE DEF u
<1> QED
      BY <1>1, <1>3, <1>4, Zenon

LEMMA StatsUpsertStep ==
  ASSUME TypeInv, NEW w \in Workers, StatsUpsert(w)
  PROVE  /\ StepOf(w) /\ writes' = writes
         /\ tx[w].pc = "stats"
         /\ \A v \in Others(w) : ~tx[v].stats
         /\ tx'[w].pc = "rollups"
         /\ tx'[w].stats = TRUE
         /\ Same(tx[w], tx'[w], {"pc", "stats"})
<1> DEFINE t == tx[w]
           u == [t EXCEPT !.pc = "rollups", !.stats = TRUE]
<1>1. /\ w \in conns
      /\ tx[w].pc = "stats"
      /\ \A v \in Others(w) : ~tx[v].stats
      /\ Become(w, u) /\ UNCHANGED <<conns, tables, writes>>
      BY Zenon DEF StatsUpsert, At
<1>2. DOMAIN t = Fields
      BY TxFields
<1>3. /\ u.pc = "rollups" /\ u.stats = TRUE
      /\ Same(t, u, {"pc", "stats"})
  <2> HIDE DEF t
  <2> QED
        BY <1>2 DEF Same, Fields
<1>4. StepOf(w) /\ tx'[w] = u
  <2> HIDE DEF u
  <2> QED
        BY <1>1, BecomeIsStep
<1> HIDE DEF u
<1> QED
      BY <1>1, <1>3, <1>4, Zenon

LEMMA RefreshRollupsStep ==
  ASSUME TypeInv, NEW w \in Workers, RefreshRollups(w)
  PROVE  /\ StepOf(w) /\ writes' = writes
         /\ tx[w].pc = "rollups"
         /\ tx'[w].rollups = RollupRows(HeadsOf(w), DeletionsOf(w))
         /\ tx'[w].pc = AfterHeads(tx[w].todo, {})
         /\ Same(tx[w], tx'[w], {"rollups", "pc"})
<1> DEFINE t == tx[w]
           x1 == RollupRows(HeadsOf(w), DeletionsOf(w))
           x2 == AfterHeads(tx[w].todo, {})
           u == [t EXCEPT !.rollups = x1, !.pc = x2]
<1>1. /\ w \in conns
      /\ tx[w].pc = "rollups"
      /\ Become(w, u) /\ UNCHANGED <<conns, tables, writes>>
      BY Zenon DEF RefreshRollups, At
<1>2. DOMAIN t = Fields
      BY TxFields
<1>3. /\ u.rollups = x1 /\ u.pc = x2
      /\ Same(t, u, {"rollups", "pc"})
  <2> HIDE DEF t, x1, x2
  <2> QED
        BY <1>2 DEF Same, Fields
<1>4. StepOf(w) /\ tx'[w] = u
  <2> HIDE DEF u
  <2> QED
        BY <1>1, BecomeIsStep
<1> HIDE DEF u
<1> QED
      BY <1>1, <1>3, <1>4, Zenon

----------------------------------------------------------------------------
(* The tables hold rows of their kind. *)

LEMMA StepKeepsTypes ==
  ASSUME TypeInv, NEW w \in Workers, StepOf(w), writes' \in 0..MaxWrites, TxOK(tx'[w], heads)
  PROVE  TypeInv'
<1>1. /\ conns' = conns /\ heads' = heads /\ deletions' = deletions /\ nodes' = nodes
      /\ thread_traces' = thread_traces /\ rollups' = rollups /\ DOMAIN tx' = Workers
      BY DEF StepOf, tables
<1>2. ASSUME NEW v \in Workers PROVE TxOK(tx'[v], heads')
      BY <1>1 DEF StepOf, TypeInv
<1> QED
      BY <1>1, <1>2 DEF TypeInv

\* What a transaction sees of run_heads.
LEMMA HeadsSeen ==
  ASSUME NEW t, NEW hs \in [Spans -> RunHead \cup {None}], TxOK(t, hs), NEW s \in Spans
  PROVE  /\ Overlay(t.heads, hs)[s] = IF s \in DOMAIN t.heads THEN t.heads[s] ELSE hs[s]
         /\ Overlay(t.heads, hs)[s] \in RunHead \cup {None}
<1>1. Overlay(t.heads, hs)[s] = IF s \in DOMAIN t.heads THEN t.heads[s] ELSE hs[s]
      BY DEF Overlay
<1>2. s \in DOMAIN t.heads => t.heads[s] \in RunHead
      BY DEF TxOK
<1> QED
      BY <1>1, <1>2

\* None is no head.
LEMMA NoneIsNoHead ==
  ASSUME NEW h \in RunHead \cup {None}
  PROVE  (h # None) <=> h \in RunHead
  BY NoneAssumption

LEMMA TracesAreNumbers ==
  Traces \subseteq Nat
  BY SpansAssumption DEF Traces

\* The next trace of a transaction.
LEMMA NextTrace ==
  ASSUME TypeInv, NEW w \in Workers, tx[w].pc \in Refreshing
  PROVE  Trace(w) \in tx[w].traces /\ Trace(w) \in Traces
<1>1. tx[w].traces \subseteq Traces /\ tx[w].traces # {}
      BY DEF TypeInv, TxOK
<1>2. tx[w].traces \in SUBSET Nat
      BY <1>1, TracesAreNumbers
<1>3. Trace(w) \in tx[w].traces
      BY <1>1, <1>2, MinIsLeast DEF Trace
<1> QED
      BY <1>1, <1>3

\* An idle transaction, whatever the heads.
LEMMA IdleTxOK ==
  ASSUME NEW hs
  PROVE  TxOK(IdleTx, hs)
<1>1. <<>> \in Seq(WriteOp)
      OBVIOUS
<1>2. DOMAIN IdleTx.heads = {} /\ DOMAIN IdleTx.rollups = {} /\ IdleTx.pc = "idle"
      BY DEF IdleTx
<1> QED
      BY <1>1, <1>2 DEF TxOK, IdleTx, Refreshing

LEMMA InitTypes ==
  Init => TypeInv
<1> SUFFICES ASSUME Init PROVE TypeInv
      OBVIOUS
<1>1. TxOK(IdleTx, heads)
      BY IdleTxOK
<1>2. heads \in [Spans -> RunHead \cup {None}]
      BY DEF Init
<1>3. 0 \in 0..MaxWrites
      BY SpansAssumption
<1>4. DOMAIN rollups \subseteq Groups
  <2>1. rollups = <<>>
        BY DEF Init
  <2> QED
        BY <2>1
<1> QED
      BY <1>1, <1>2, <1>3, <1>4 DEF Init, TypeInv

LEMMA FailTypes ==
  ASSUME TypeInv, NEW w \in Workers, Fail(w) \/ TreeConflict(w)
  PROVE  TypeInv'
<1>1. StepOf(w) /\ writes' = writes /\ tx'[w] = IdleTx
      BY FailStep
<1> QED
      BY <1>1, IdleTxOK, StepKeepsTypes DEF TypeInv

LEMMA BeginTypes ==
  ASSUME TypeInv, NEW w \in Workers, Begin(w)
  PROVE  TypeInv'
<1>1. PICK job \in Jobs[conns] :
           /\ StepOf(w) /\ writes' \in 0..MaxWrites
           /\ tx'[w].pc = "heads" /\ tx'[w].todo = job
           /\ Same(IdleTx, tx'[w], {"pc", "id", "todo"})
      BY BeginStep
<1>2. job \in Seq(WriteOp) \cup Seq(DeleteOp) /\ job # <<>>
      BY JobsAssumption DEF TypeInv
<1> DEFINE u == tx'[w]
           i == IdleTx
<1>3. TxOK(i, heads) /\ i.pc = "idle"
      BY IdleTxOK DEF IdleTx
<1>4. Same(i, u, {"pc", "id", "todo"}) /\ u.pc = "heads" /\ u.todo = job
      BY <1>1
<1> HIDE DEF u, i
<1>5. /\ DOMAIN u = Fields /\ u.traces = i.traces /\ u.heads = i.heads /\ u.deletions = i.deletions
      /\ u.nodes_new = i.nodes_new /\ u.tt_new = i.tt_new /\ u.rollups = i.rollups
      /\ u.affected = i.affected
      BY <1>4 DEF Same, Fields
<1>6. TxOK(u, heads)
      BY <1>2, <1>3, <1>4, <1>5, IdleFields DEF TxOK, Refreshing
<1> QED
      BY <1>1, <1>6, StepKeepsTypes DEF u

\* The records left are of the kind of those there were.
LEMMA RecordsLeft ==
  ASSUME NEW q \in Seq(WriteOp) \cup Seq(DeleteOp), q # <<>>
  PROVE  /\ Head(q).op = "write" => Head(q) \in WriteOp /\ q \in Seq(WriteOp) /\ Tail(q) \in Seq(WriteOp)
         /\ Head(q).op = "delete" => Head(q) \in DeleteOp /\ q \in Seq(DeleteOp) /\ Tail(q) \in Seq(DeleteOp)
         /\ Tail(q) \in Seq(WriteOp) \cup Seq(DeleteOp)
         /\ Head(q).span \in Spans
<1>1. CASE q \in Seq(WriteOp)
  <2>1. Head(q) \in WriteOp /\ Tail(q) \in Seq(WriteOp)
        BY <1>1, HeadTailProperties
  <2>2. Head(q).op = "write" /\ Head(q).span \in Spans
        BY <2>1 DEF WriteOp
  <2> QED
        BY <1>1, <2>1, <2>2
<1>2. CASE q \in Seq(DeleteOp)
  <2>1. Head(q) \in DeleteOp /\ Tail(q) \in Seq(DeleteOp)
        BY <1>2, HeadTailProperties
  <2>2. Head(q).op = "delete" /\ Head(q).span \in Spans
        BY <2>1 DEF DeleteOp
  <2> QED
        BY <1>2, <2>1, <2>2
<1> QED
      BY <1>1, <1>2

\* The statement after the records follows from what is left.
LEMMA AfterHeadsIs ==
  ASSUME NEW todo, NEW traces
  PROVE  LET pc == AfterHeads(todo, traces)
         IN  /\ pc \in {"heads", "tree", "commit"}
             /\ pc = "heads" => todo # <<>>
             /\ pc = "tree" => traces # {}
             /\ pc = "commit" => todo = <<>> /\ traces = {}
             /\ pc = "heads" => Head(todo).op = "write" \/ traces = {}
             /\ pc # "heads" => todo = <<>> \/ Head(todo).op # "write"
  BY DEF AfterHeads

\* The root of a record's head is a run.
LEMMA RootLocatorType ==
  ASSUME TypeInv, NEW w \in Workers, NEW r \in WriteOp
  PROVE  RootLocator(w, r) \in Spans
<1>1. r.span \in Spans
      BY DEF WriteOp
<1>2. ASSUME r.parent \in Spans, HeadsOf(w)[r.parent] # None PROVE HeadsOf(w)[r.parent].root \in Spans
  <2>1. HeadsOf(w)[r.parent] \in RunHead \cup {None}
        BY <1>2, HeadsSeen DEF TypeInv, HeadsOf
  <2>2. HeadsOf(w)[r.parent] \in RunHead
        BY <1>2, <2>1
  <2> QED
        BY <2>2 DEF RunHead
<1> QED
      BY <1>1, <1>2 DEF RootLocator

\* Fields of a transaction whose heads have changed at one run.
LEMMA WithType ==
  ASSUME NEW own, DOMAIN own \subseteq Spans, \A s \in DOMAIN own : own[s] \in RunHead,
         NEW k \in Spans, NEW h \in RunHead
  PROVE  /\ DOMAIN With(own, k, h) = DOMAIN own \cup {k}
         /\ DOMAIN With(own, k, h) \subseteq Spans
         /\ \A s \in DOMAIN With(own, k, h) : With(own, k, h)[s] \in RunHead
  BY DEF With

LEMMA UpsertHeadTypes ==
  ASSUME TypeInv, NEW w \in Workers, UpsertHead(w)
  PROVE  TypeInv'
<1> DEFINE t == tx[w]
           u == tx'[w]
           r == Head(t.todo)
           old == HeadsOf(w)[r.span]
           updated == old = None \/ old.at =< r.at
           new == [parent |-> r.parent, thread |-> r.thread, group |-> r.group,
                   start |-> r.start, at |-> r.at, root |-> RootLocator(w, r),
                   marked |-> FALSE]
           h == IF updated THEN new ELSE old
           traces == IF updated THEN t.traces \cup {TraceOf[r.span]} ELSE t.traces
<1>1. /\ StepOf(w) /\ writes' = writes /\ t.pc = "heads" /\ r.op = "write"
      /\ u.pc = AfterHeads(Tail(t.todo), traces)
      /\ u.todo = Tail(t.todo) /\ u.traces = traces
      /\ u.heads = With(t.heads, r.span, h)
      /\ Same(t, u, {"pc", "todo", "traces", "heads"})
      BY UpsertHeadStep, Zenon
<1>2. TxOK(t, heads) /\ heads \in [Spans -> RunHead \cup {None}]
      BY DEF TypeInv
<1>3. t.todo \in Seq(WriteOp) \cup Seq(DeleteOp) /\ t.todo # <<>>
      BY <1>1, <1>2 DEF TxOK
<1>4. r \in WriteOp /\ Tail(t.todo) \in Seq(WriteOp)
      BY <1>1, <1>3, RecordsLeft
<1>5. r.span \in Spans
      BY <1>4 DEF WriteOp
<1>6. h \in RunHead
  <2>1. new \in RunHead
    <3>1. RootLocator(w, r) \in Spans
          BY <1>4, RootLocatorType
    <3> QED
          BY <1>4, <3>1 DEF WriteOp, RunHead
  <2>2. old \in RunHead \cup {None}
        BY <1>2, <1>5, HeadsSeen DEF HeadsOf
  <2> HIDE DEF new, old
  <2> QED
        BY <2>1, <2>2
<1>7. traces \subseteq Traces
  <2>1. TraceOf[r.span] \in Traces
        BY <1>5 DEF Traces
  <2> QED
        BY <1>2, <2>1 DEF TxOK
<1> DEFINE P == AfterHeads(Tail(t.todo), traces)
<1>8. P \in {"heads", "tree", "commit"} /\ (P = "heads" => Tail(t.todo) # <<>>) /\ (P = "tree" => traces # {})
      BY AfterHeadsIs, Zenon
<1> HIDE DEF t, u, h, traces, P
<1>9. DOMAIN u.heads \subseteq Spans /\ \A s \in DOMAIN u.heads : u.heads[s] \in RunHead
  <2>1. DOMAIN t.heads \subseteq Spans /\ \A s \in DOMAIN t.heads : t.heads[s] \in RunHead
        BY <1>2 DEF TxOK
  <2> DEFINE own == t.heads
             k == r.span
  <2>2. u.heads = With(own, k, h)
        BY <1>1
  <2>3. k \in Spans /\ DOMAIN own \subseteq Spans /\ \A s \in DOMAIN own : own[s] \in RunHead
        BY <1>5, <2>1
  <2> HIDE DEF own, k
  <2>4. /\ DOMAIN With(own, k, h) \subseteq Spans
        /\ \A s \in DOMAIN With(own, k, h) : With(own, k, h)[s] \in RunHead
        BY <1>6, <2>3, WithType
  <2> QED
        BY <2>2, <2>4
<1>10. /\ DOMAIN u = Fields /\ u.deletions = t.deletions
      /\ u.nodes_new = t.nodes_new /\ u.tt_new = t.tt_new /\ u.rollups = t.rollups
      /\ u.affected = t.affected
      BY <1>1 DEF Same, Fields
<1>11. u.pc = P
      BY <1>1 DEF P
<1>12. TxOK(u, heads)
      BY <1>1, <1>2, <1>4, <1>7, <1>8, <1>9, <1>10, <1>11, IdleFields DEF TxOK, Refreshing
<1> QED
      BY <1>1, <1>12, StepKeepsTypes DEF u, TypeInv

LEMMA DeleteHeadTypes ==
  ASSUME TypeInv, NEW w \in Workers, DeleteHead(w)
  PROVE  TypeInv'
<1> DEFINE t == tx[w]
           u == tx'[w]
           r == Head(t.todo)
           old == HeadsOf(w)[r.span]
           found == old # None /\ ~old.marked
           h == [old EXCEPT !.marked = TRUE, !.at = r.at]
           traces == IF found THEN {TraceOf[r.span]} ELSE {}
<1>1. /\ StepOf(w) /\ writes' = writes /\ t.pc = "heads" /\ r.op = "delete"
      /\ u.pc = AfterHeads(Tail(t.todo), traces)
      /\ u.todo = Tail(t.todo) /\ u.traces = traces
      /\ u.heads = IF found THEN With(t.heads, r.span, h) ELSE t.heads
      /\ u.deletions = IF found THEN t.deletions \cup {r.span} ELSE t.deletions
      /\ Same(t, u, {"pc", "todo", "traces", "heads", "deletions"})
      BY DeleteHeadStep, Zenon
<1>2. TxOK(t, heads) /\ heads \in [Spans -> RunHead \cup {None}]
      BY DEF TypeInv
<1>3. t.todo \in Seq(WriteOp) \cup Seq(DeleteOp) /\ t.todo # <<>>
      BY <1>1, <1>2 DEF TxOK
<1>4. r \in DeleteOp /\ Tail(t.todo) \in Seq(DeleteOp)
      BY <1>1, <1>3, RecordsLeft
<1>5. r.span \in Spans /\ r.at \in Nat
      BY <1>4 DEF DeleteOp
<1>6. found => h \in RunHead
  <2>1. old \in RunHead \cup {None}
        BY <1>2, <1>5, HeadsSeen DEF HeadsOf
  <2> HIDE DEF old, r
  <2>2. CASE old \in RunHead
        BY <1>5, <2>2 DEF RunHead
  <2> QED
        BY <2>1, <2>2
<1>7. traces \subseteq Traces
      BY <1>5 DEF Traces
<1> DEFINE P == AfterHeads(Tail(t.todo), traces)
<1>8. P \in {"heads", "tree", "commit"} /\ (P = "heads" => Tail(t.todo) # <<>>) /\ (P = "tree" => traces # {})
      BY AfterHeadsIs, Zenon
<1> HIDE DEF t, u, h, traces, P, found
<1>9. DOMAIN u.heads \subseteq Spans /\ \A s \in DOMAIN u.heads : u.heads[s] \in RunHead
  <2>1. DOMAIN t.heads \subseteq Spans /\ \A s \in DOMAIN t.heads : t.heads[s] \in RunHead
        BY <1>2 DEF TxOK
  <2>2. CASE found
    <3> DEFINE own == t.heads
               k == r.span
    <3>1. u.heads = With(own, k, h)
          BY <1>1, <2>2
    <3>2. k \in Spans /\ DOMAIN own \subseteq Spans /\ \A s \in DOMAIN own : own[s] \in RunHead
          BY <1>5, <2>1
    <3> HIDE DEF own, k
    <3>3. /\ DOMAIN With(own, k, h) \subseteq Spans
          /\ \A s \in DOMAIN With(own, k, h) : With(own, k, h)[s] \in RunHead
          BY <1>6, <2>2, <3>2, WithType
    <3> QED
          BY <3>1, <3>3
  <2>3. CASE ~found
        BY <1>1, <2>1, <2>3
  <2> QED
        BY <2>2, <2>3
<1>10. /\ DOMAIN u = Fields
      /\ u.nodes_new = t.nodes_new /\ u.tt_new = t.tt_new /\ u.rollups = t.rollups
      /\ u.affected = t.affected
      BY <1>1 DEF Same, Fields
<1>11. u.pc = P
      BY <1>1 DEF P
<1>12. u.deletions \subseteq Spans
      BY <1>1, <1>2, <1>5 DEF TxOK
<1>13. TxOK(u, heads)
      BY <1>1, <1>2, <1>4, <1>7, <1>8, <1>9, <1>10, <1>11, <1>12, IdleFields DEF TxOK, Refreshing
<1> QED
      BY <1>1, <1>13, StepKeepsTypes DEF u, TypeInv

\* The runs of a trace that a transaction sees.
LEMMA RunsSeen ==
  ASSUME TypeInv, NEW w \in Workers, NEW trace
  PROVE  LET runs == InTrace(VisibleTo(w), trace)
         IN  /\ runs \in SUBSET Spans /\ runs \in SUBSET Nat /\ IsFiniteSet(runs)
             /\ \A s \in runs : /\ HeadsOf(w)[s] \in RunHead /\ TraceOf[s] = trace
                                /\ s \in DOMAIN tx[w].heads \/ heads[s] # None
<1> DEFINE runs == InTrace(VisibleTo(w), trace)
<1>1. runs \in SUBSET Spans /\ \A s \in runs : TraceOf[s] = trace /\ HeadsOf(w)[s] # None
      BY DEF InTrace, VisibleTo, Visible
<1> HIDE DEF runs
<1>2. runs \in SUBSET Nat /\ IsFiniteSet(runs)
      BY <1>1, SpansAssumption, FS_Subset
<1>3. ASSUME NEW s \in runs
      PROVE  HeadsOf(w)[s] \in RunHead /\ (s \in DOMAIN tx[w].heads \/ heads[s] # None)
  <2>1. s \in Spans /\ TxOK(tx[w], heads) /\ heads \in [Spans -> RunHead \cup {None}]
        BY <1>1 DEF TypeInv
  <2>2. /\ HeadsOf(w)[s] = IF s \in DOMAIN tx[w].heads THEN tx[w].heads[s] ELSE heads[s]
        /\ HeadsOf(w)[s] \in RunHead \cup {None}
        BY <2>1, HeadsSeen DEF HeadsOf
  <2> QED
        BY <1>1, <2>2
<1> QED
      BY <1>1, <1>2, <1>3 DEF runs

LEMMA TreeSelectTypes ==
  ASSUME TypeInv, NEW w \in Workers, TreeSelect(w)
  PROVE  TypeInv'
<1> DEFINE t == tx[w]
           u == tx'[w]
           runs == InTrace(VisibleTo(w), Trace(w))
           index == BuildTraceTreeIndex(HeadsOf(w), runs)
           row(n) == [id |-> t.id, trace |-> Trace(w), node |-> n]
<1>1. /\ StepOf(w) /\ writes' = writes /\ t.pc = "tree" /\ u.pc = "tree_delete"
      /\ u.rows = {row(n) : n \in index}
      /\ Same(t, u, {"pc", "rows"})
      BY TreeSelectStep, Zenon
<1>2. TxOK(t, heads)
      BY DEF TypeInv
<1>3. /\ runs \in SUBSET Spans /\ runs \in SUBSET Nat /\ IsFiniteSet(runs)
      /\ \A s \in runs : /\ HeadsOf(w)[s] \in RunHead /\ TraceOf[s] = Trace(w)
                         /\ s \in DOMAIN t.heads \/ heads[s] # None
      BY RunsSeen, Zenon
<1>4. \A n \in index : n.span \in runs /\ n.root \in runs
  <2>1. \A s \in runs : HeadsOf(w)[s].start \in Nat
        BY <1>3 DEF RunHead
  <2> HIDE DEF runs
  <2> QED
        BY <1>3, <2>1, TreeIndexType
<1> HIDE DEF index, runs
<1>5. ASSUME NEW m \in u.rows
      PROVE  NodeOK(m) /\ (m.node.span \in DOMAIN u.heads \/ heads[m.node.span] # None)
  <2>1. PICK n \in index : m = row(n)
        BY <1>1
  <2>2. m.trace = Trace(w) /\ m.node = n
        BY <2>1
  <2>3. n.span \in runs /\ n.root \in runs
        BY <1>4
  <2>4. u.heads = t.heads
        BY <1>1 DEF Same, Fields
  <2> QED
        BY <1>3, <2>2, <2>3, <2>4 DEF NodeOK
<1> HIDE DEF t, u, row
<1>6. /\ DOMAIN u = Fields /\ u.deletions = t.deletions
      /\ u.nodes_new = t.nodes_new /\ u.tt_new = t.tt_new /\ u.rollups = t.rollups
      /\ u.affected = t.affected /\ u.todo = t.todo /\ u.traces = t.traces /\ u.heads = t.heads
      BY <1>1 DEF Same, Fields
<1>7. TxOK(u, heads)
      BY <1>1, <1>2, <1>5, <1>6, IdleFields DEF TxOK, Refreshing
<1> QED
      BY <1>1, <1>7, StepKeepsTypes DEF u, TypeInv

LEMMA TreeDeleteTypes ==
  ASSUME TypeInv, NEW w \in Workers, TreeDelete(w)
  PROVE  TypeInv'
<1> DEFINE t == tx[w]
           u == tx'[w]
<1>1. /\ StepOf(w) /\ writes' = writes /\ t.pc = "tree_delete" /\ u.pc = "tree_lock"
      /\ Same(t, u, {"pc", "victims"})
      BY TreeDeleteStep, Zenon
<1>2. TxOK(t, heads)
      BY DEF TypeInv
<1> HIDE DEF t, u
<1>3. /\ DOMAIN u = Fields /\ u.deletions = t.deletions
      /\ u.nodes_new = t.nodes_new /\ u.tt_new = t.tt_new /\ u.rollups = t.rollups /\ u.rows = t.rows
      /\ u.affected = t.affected /\ u.todo = t.todo /\ u.traces = t.traces /\ u.heads = t.heads
      BY <1>1 DEF Same, Fields
<1>4. TxOK(u, heads)
      BY <1>1, <1>2, <1>3, IdleFields DEF TxOK, Refreshing
<1> QED
      BY <1>1, <1>4, StepKeepsTypes DEF u, TypeInv

LEMMA TreeLockTypes ==
  ASSUME TypeInv, NEW w \in Workers, TreeLock(w)
  PROVE  TypeInv'
<1> DEFINE t == tx[w]
           u == tx'[w]
<1>1. /\ StepOf(w) /\ writes' = writes /\ t.pc = "tree_lock" /\ u.pc = "tree_insert"
      /\ u.nodes_new = t.nodes_new \ t.victims
      /\ Same(t, u, {"pc", "victims", "nodes_gone", "nodes_new"})
      BY TreeLockStep, Zenon
<1>2. TxOK(t, heads)
      BY DEF TypeInv
<1> HIDE DEF t, u
<1>3. /\ DOMAIN u = Fields /\ u.deletions = t.deletions
      /\ u.tt_new = t.tt_new /\ u.rollups = t.rollups /\ u.rows = t.rows
      /\ u.affected = t.affected /\ u.todo = t.todo /\ u.traces = t.traces /\ u.heads = t.heads
      BY <1>1 DEF Same, Fields
<1>4. TxOK(u, heads)
      BY <1>1, <1>2, <1>3, IdleFields DEF TxOK, Refreshing
<1> QED
      BY <1>1, <1>4, StepKeepsTypes DEF u, TypeInv

LEMMA TreeInsertTypes ==
  ASSUME TypeInv, NEW w \in Workers, TreeInsert(w)
  PROVE  TypeInv'
<1> DEFINE t == tx[w]
           u == tx'[w]
<1>1. /\ StepOf(w) /\ writes' = writes /\ t.pc = "tree_insert" /\ u.pc = "tree_heads"
      /\ u.nodes_new = t.nodes_new \cup t.rows
      /\ Same(t, u, {"pc", "nodes_new"})
      BY TreeInsertStep, Zenon
<1>2. TxOK(t, heads)
      BY DEF TypeInv
<1> HIDE DEF t, u
<1>3. /\ DOMAIN u = Fields /\ u.deletions = t.deletions
      /\ u.tt_new = t.tt_new /\ u.rollups = t.rollups /\ u.rows = t.rows
      /\ u.affected = t.affected /\ u.todo = t.todo /\ u.traces = t.traces /\ u.heads = t.heads
      BY <1>1 DEF Same, Fields
<1>4. \A n \in u.nodes_new : NodeOK(n)
      BY <1>1, <1>2 DEF TxOK
<1>5. TxOK(u, heads)
      BY <1>1, <1>2, <1>3, <1>4, IdleFields DEF TxOK, Refreshing
<1> QED
      BY <1>1, <1>5, StepKeepsTypes DEF u, TypeInv

\* The heads that have the roots of the new tree.
LEMMA TreeHeadsIs ==
  ASSUME TypeInv, NEW w \in Workers, TreeHeads(w)
  PROVE  LET t == tx[w]
             mine == {n.node.span : n \in t.rows}
         IN  /\ StepOf(w) /\ writes' = writes /\ t.pc = "tree_heads"
             /\ mine \subseteq Spans
             /\ \A s \in mine : ~HeadIsLocked(w, s)
             /\ tx'[w].pc = "thread_delete" /\ tx'[w].rows = {}
             /\ DOMAIN tx'[w].heads = DOMAIN t.heads \cup mine
             /\ \A s \in DOMAIN t.heads \ mine : tx'[w].heads[s] = t.heads[s]
             /\ \A s \in mine : /\ tx'[w].heads[s] \in RunHead
                                /\ tx'[w].heads[s].marked = HeadsOf(w)[s].marked
                                /\ HeadsOf(w)[s] # None
                                /\ \E n \in t.rows : n.node.span = s /\ tx'[w].heads[s].root = n.node.root
             /\ Same(t, tx'[w], {"pc", "rows", "heads"})
<1> DEFINE t == tx[w]
           u == tx'[w]
           mine == {n.node.span : n \in t.rows}
           root(s) == (CHOOSE n \in t.rows : n.node.span = s).node.root
           H == [s \in DOMAIN t.heads \cup mine |->
                   IF s \in mine THEN [HeadsOf(w)[s] EXCEPT !.root = root(s)] ELSE t.heads[s]]
<1>1. /\ StepOf(w) /\ writes' = writes /\ t.pc = "tree_heads" /\ u.pc = "thread_delete"
      /\ \A s \in mine : ~HeadIsLocked(w, s)
      /\ u.rows = {} /\ u.heads = H
      /\ Same(t, u, {"pc", "rows", "heads"})
      BY TreeHeadsStep, Zenon
<1>2. TxOK(t, heads) /\ heads \in [Spans -> RunHead \cup {None}]
      BY DEF TypeInv
<1>3. \A n \in t.rows : NodeOK(n) /\ (n.node.span \in DOMAIN t.heads \/ heads[n.node.span] # None)
      BY <1>1, <1>2 DEF TxOK
<1>4. mine \subseteq Spans
      BY <1>3 DEF NodeOK
<1>5. ASSUME NEW s \in mine
      PROVE  /\ HeadsOf(w)[s] \in RunHead
             /\ \E n \in t.rows : n.node.span = s /\ root(s) = n.node.root
  <2>1. PICK n \in t.rows : n.node.span = s
        OBVIOUS
  <2>2. /\ HeadsOf(w)[s] = IF s \in DOMAIN t.heads THEN t.heads[s] ELSE heads[s]
        /\ HeadsOf(w)[s] \in RunHead \cup {None}
        BY <1>2, <1>4, HeadsSeen DEF HeadsOf
  <2>3. s \in DOMAIN t.heads => t.heads[s] \in RunHead
        BY <1>2 DEF TxOK
  <2>4. s \in DOMAIN t.heads \/ heads[s] # None
        BY <1>3, <2>1
  <2>5. HeadsOf(w)[s] \in RunHead
    <3> HIDE DEF t, mine
    <3> QED
          BY <2>2, <2>3, <2>4
  <2> DEFINE c == CHOOSE m \in t.rows : m.node.span = s
  <2>6. c \in t.rows /\ c.node.span = s
        BY <2>1
  <2> QED
        BY <2>5, <2>6
<1>6. \A n \in t.rows : n.node.root \in Spans
      BY <1>3 DEF NodeOK
<1>7. DOMAIN H = DOMAIN t.heads \cup mine /\ \A s \in DOMAIN t.heads \ mine : H[s] = t.heads[s]
      OBVIOUS
<1>8. \A s \in mine : H[s] = [HeadsOf(w)[s] EXCEPT !.root = root(s)]
      OBVIOUS
<1>9. ASSUME NEW s \in mine
      PROVE  /\ H[s] \in RunHead /\ H[s].marked = HeadsOf(w)[s].marked
             /\ HeadsOf(w)[s] # None
             /\ \E n \in t.rows : n.node.span = s /\ H[s].root = n.node.root
  <2> DEFINE h == HeadsOf(w)[s]
             x == root(s)
  <2>1. h \in RunHead /\ x \in Spans /\ \E n \in t.rows : n.node.span = s /\ x = n.node.root
        BY <1>5, <1>6
  <2>2. H[s] = [h EXCEPT !.root = x]
        BY <1>8
  <2> HIDE DEF H, h, x
  <2>3. [h EXCEPT !.root = x] \in RunHead /\ [h EXCEPT !.root = x].marked = h.marked
        /\ [h EXCEPT !.root = x].root = x
        BY <2>1 DEF RunHead
  <2> QED
        BY <2>1, <2>2, <2>3, NoneAssumption DEF h
<1> HIDE DEF H, root
<1> QED
      BY <1>1, <1>4, <1>7, <1>9

LEMMA TreeHeadsTypes ==
  ASSUME TypeInv, NEW w \in Workers, TreeHeads(w)
  PROVE  TypeInv'
<1> DEFINE t == tx[w]
           u == tx'[w]
           mine == {n.node.span : n \in t.rows}
<1>1. /\ StepOf(w) /\ writes' = writes /\ t.pc = "tree_heads" /\ u.pc = "thread_delete"
      /\ mine \subseteq Spans
      /\ DOMAIN u.heads = DOMAIN t.heads \cup mine
      /\ \A s \in DOMAIN t.heads \ mine : u.heads[s] = t.heads[s]
      /\ \A s \in mine : u.heads[s] \in RunHead
      /\ Same(t, u, {"pc", "rows", "heads"})
      BY TreeHeadsIs, Zenon
<1>2. TxOK(t, heads)
      BY DEF TypeInv
<1> HIDE DEF t, u, mine
<1>3. /\ DOMAIN u = Fields /\ u.deletions = t.deletions
      /\ u.nodes_new = t.nodes_new /\ u.tt_new = t.tt_new /\ u.rollups = t.rollups
      /\ u.affected = t.affected /\ u.todo = t.todo /\ u.traces = t.traces
      BY <1>1 DEF Same, Fields
<1>4. DOMAIN u.heads \subseteq Spans /\ \A s \in DOMAIN u.heads : u.heads[s] \in RunHead
      BY <1>1, <1>2 DEF TxOK
<1>5. TxOK(u, heads)
      BY <1>1, <1>2, <1>3, <1>4, IdleFields DEF TxOK, Refreshing
<1> QED
      BY <1>1, <1>5, StepKeepsTypes DEF u, TypeInv

\* A transaction sees rows of thread_traces of their kind.
LEMMA ThreadTracesSeen ==
  ASSUME TypeInv, NEW w \in Workers
  PROVE  \A r \in ThreadTracesOf(w) : ThreadTraceOK(r)
  BY DEF TypeInv, TxOK, ThreadTracesOf

\* What the steps for threads leave alone: everything but the rows of threads.
ThreadFields == {"pc", "victims", "rows", "affected", "tt_gone", "tt_new", "threads"}
ThreadPcs == {"thread_delete", "thread_lock", "thread_upsert", "summary"}

LEMMA ThreadStepTypes ==
  ASSUME TypeInv, NEW w \in Workers, StepOf(w), writes' = writes,
         tx[w].pc \in ThreadPcs, tx'[w].pc \in ThreadPcs, Same(tx[w], tx'[w], ThreadFields),
         \A r \in tx'[w].tt_new : ThreadTraceOK(r), tx'[w].affected \subseteq Threads,
         tx'[w].pc = "thread_upsert" => \A r \in tx'[w].rows : ThreadTraceOK(r)
  PROVE  TypeInv'
<1> DEFINE t == tx[w]
           u == tx'[w]
<1>1. TxOK(t, heads)
      BY DEF TypeInv
<1>2. /\ Same(t, u, ThreadFields) /\ t.pc \in ThreadPcs /\ u.pc \in ThreadPcs
      /\ \A r \in u.tt_new : ThreadTraceOK(r)
      /\ u.affected \subseteq Threads
      /\ u.pc = "thread_upsert" => \A r \in u.rows : ThreadTraceOK(r)
      OBVIOUS
<1> HIDE DEF t, u
<1>3. /\ DOMAIN u = Fields /\ u.deletions = t.deletions
      /\ u.nodes_new = t.nodes_new /\ u.rollups = t.rollups
      /\ u.todo = t.todo /\ u.traces = t.traces /\ u.heads = t.heads
      BY <1>2 DEF Same, Fields, ThreadFields
<1>4. TxOK(u, heads)
      BY <1>1, <1>2, <1>3, IdleFields DEF TxOK, Refreshing, ThreadPcs
<1> QED
      BY <1>4, StepKeepsTypes DEF u, TypeInv

\* Less changed than allowed.
LEMMA SameWiden ==
  ASSUME NEW t, NEW u, NEW A, NEW B, A \subseteq B, Same(t, u, A)
  PROVE  Same(t, u, B)
  BY DEF Same

LEMMA ThreadDeleteIs ==
  ASSUME TypeInv, NEW w \in Workers, ThreadDelete(w)
  PROVE  /\ StepOf(w) /\ writes' = writes /\ tx[w].pc \in ThreadPcs /\ tx'[w].pc \in ThreadPcs
         /\ Same(tx[w], tx'[w], ThreadFields)
         /\ TypeInv'
<1> DEFINE t == tx[w]
           u == tx'[w]
           old == {r \in ThreadTracesOf(w) : r.trace = Trace(w)}
<1>1. /\ StepOf(w) /\ writes' = writes /\ t.pc = "thread_delete" /\ u.pc = "thread_lock"
      /\ u.affected = {r.thread : r \in old}
      /\ Same(t, u, {"pc", "victims", "affected"})
      BY ThreadDeleteStep, Zenon
<1>2. u.affected \subseteq Threads
      BY <1>1, ThreadTracesSeen DEF ThreadTraceOK
<1>3. Same(t, u, ThreadFields)
  <2>1. {"pc", "victims", "affected"} \subseteq ThreadFields
        BY DEF ThreadFields
  <2> QED
        BY <1>1, <2>1, SameWiden
<1>4. \A r \in u.tt_new : ThreadTraceOK(r)
  <2>1. u.tt_new = t.tt_new
        BY <1>1 DEF Same, Fields
  <2> QED
        BY <2>1 DEF TypeInv, TxOK
<1>5. t.pc \in ThreadPcs /\ u.pc \in ThreadPcs /\ u.pc # "thread_upsert"
      BY <1>1 DEF ThreadPcs
<1> QED
      BY <1>1, <1>2, <1>3, <1>4, <1>5, ThreadStepTypes

\* The rows of a trace that a transaction computes.
LEMMA ThreadTraceRowsType ==
  ASSUME TypeInv, NEW w \in Workers, NEW trace \in Traces
  PROVE  \A r \in ThreadTraceRows(HeadsOf(w), InTrace(VisibleTo(w), trace), trace) : ThreadTraceOK(r)
<1> DEFINE runs == InTrace(VisibleTo(w), trace)
           hs == HeadsOf(w)
           K == {hs[s].thread : s \in runs} \ {None}
           row(h) == [thread |-> h, trace |-> trace,
                      start |-> Min({hs[s].start : s \in {q \in runs : hs[q].thread = h}}),
                      tokens |-> Cardinality({q \in runs : hs[q].thread = h})]
<1>1. ThreadTraceRows(hs, runs, trace) = {row(h) : h \in K}
      BY Zenon DEF ThreadTraceRows
<1>2. \A s \in runs : hs[s] \in RunHead
      BY RunsSeen, Zenon
<1> HIDE DEF runs, hs
<1>3. K \subseteq Threads
      BY <1>2 DEF RunHead
<1>4. \A h : row(h).thread = h /\ row(h).trace = trace
      OBVIOUS
<1> HIDE DEF K, row
<1>5. ASSUME NEW r \in ThreadTraceRows(hs, runs, trace) PROVE ThreadTraceOK(r)
  <2>1. PICK h \in K : r = row(h)
        BY <1>1
  <2> QED
        BY <1>3, <1>4, <2>1 DEF ThreadTraceOK
<1> QED
      BY <1>5 DEF hs, runs

LEMMA ThreadLockIs ==
  ASSUME TypeInv, NEW w \in Workers, ThreadLock(w)
  PROVE  /\ StepOf(w) /\ writes' = writes /\ tx[w].pc \in ThreadPcs /\ tx'[w].pc \in ThreadPcs
         /\ Same(tx[w], tx'[w], ThreadFields)
         /\ TypeInv'
<1> DEFINE t == tx[w]
           u == tx'[w]
           ids == {<<r.id, r.thread>> : r \in t.victims}
           old == {r \in ThreadTracesOf(w) : r.trace = Trace(w) /\ <<r.id, r.thread>> \in ids}
           rows == ThreadTraceRows(HeadsOf(w), InTrace(VisibleTo(w), Trace(w)), Trace(w))
<1>1. /\ StepOf(w) /\ writes' = writes /\ t.pc = "thread_lock" /\ u.pc = "thread_upsert"
      /\ u.rows = rows /\ u.affected = t.affected \cup {r.thread : r \in rows}
      /\ u.tt_new = t.tt_new \ old
      /\ Same(t, u, {"pc", "victims", "rows", "affected", "tt_gone", "tt_new"})
      BY ThreadLockStep, Zenon
<1>2. Trace(w) \in Traces
      BY <1>1, NextTrace DEF Refreshing
<1>3. \A r \in rows : ThreadTraceOK(r)
      BY <1>2, ThreadTraceRowsType
<1>4. Same(t, u, ThreadFields)
  <2>1. {"pc", "victims", "rows", "affected", "tt_gone", "tt_new"} \subseteq ThreadFields
        BY DEF ThreadFields
  <2> QED
        BY <1>1, <2>1, SameWiden
<1> HIDE DEF rows, old
<1>5. t.affected \subseteq Threads /\ \A r \in t.tt_new : ThreadTraceOK(r)
      BY DEF TypeInv, TxOK
<1>6. u.affected \subseteq Threads /\ \A r \in u.tt_new : ThreadTraceOK(r)
      BY <1>1, <1>3, <1>5 DEF ThreadTraceOK
<1>7. \A r \in u.rows : ThreadTraceOK(r)
      BY <1>1, <1>3
<1>8. t.pc \in ThreadPcs /\ u.pc \in ThreadPcs
      BY <1>1 DEF ThreadPcs
<1> QED
      BY <1>1, <1>4, <1>6, <1>7, <1>8, ThreadStepTypes

LEMMA ThreadUpsertIs ==
  ASSUME TypeInv, NEW w \in Workers, ThreadUpsert(w)
  PROVE  /\ StepOf(w) /\ writes' = writes /\ tx[w].pc \in ThreadPcs /\ tx'[w].pc \in ThreadPcs
         /\ Same(tx[w], tx'[w], ThreadFields)
         /\ TypeInv'
<1> DEFINE t == tx[w]
           u == tx'[w]
           h == Min({r.thread : r \in t.rows})
           row == CHOOSE r \in t.rows : r.thread = h
           same == {r \in ThreadTracesOf(w) : r.thread = h /\ r.trace = Trace(w)}
           id == IF same = {} THEN t.id ELSE (CHOOSE r \in same : TRUE).id
           q == [id |-> id, thread |-> h, trace |-> row.trace, start |-> row.start,
                 tokens |-> row.tokens]
<1>1. /\ StepOf(w) /\ writes' = writes /\ t.pc = "thread_upsert" /\ t.rows # {}
      /\ u.rows = t.rows \ {row}
      /\ u.tt_new = (t.tt_new \ same) \cup {q}
      /\ Same(t, u, {"rows", "threads", "tt_gone", "tt_new"})
      BY ThreadUpsertStep, Zenon
<1>2. t.affected \subseteq Threads /\ \A r \in t.tt_new : ThreadTraceOK(r)
      BY DEF TypeInv, TxOK
<1>3. \A r \in t.rows : ThreadTraceOK(r)
      BY <1>1 DEF TypeInv, TxOK
<1>4. row \in t.rows /\ row.thread = h
  <2> DEFINE S == {r.thread : r \in t.rows}
  <2>1. S \in SUBSET Nat /\ S # {}
        BY <1>1, <1>3, SpansAssumption DEF ThreadTraceOK
  <2> HIDE DEF S
  <2>2. Min(S) \in S
        BY <2>1, MinIsLeast
  <2>3. h = Min(S)
        BY DEF S
  <2> HIDE DEF h
  <2>4. \E r \in t.rows : r.thread = h
        BY <2>2, <2>3 DEF S
  <2> QED
        BY <2>4
<1>5. ThreadTraceOK(row)
      BY <1>3, <1>4
<1> HIDE DEF h, row, id
<1>6. ThreadTraceOK(q)
      BY <1>4, <1>5 DEF ThreadTraceOK
<1>7. u.pc = t.pc /\ u.affected = t.affected
      BY <1>1 DEF Same, Fields
<1>8. Same(t, u, ThreadFields)
  <2>1. {"rows", "threads", "tt_gone", "tt_new"} \subseteq ThreadFields
        BY DEF ThreadFields
  <2> QED
        BY <1>1, <2>1, SameWiden
<1> HIDE DEF q, same
<1>9. /\ \A r \in u.tt_new : ThreadTraceOK(r)
      /\ \A r \in u.rows : ThreadTraceOK(r)
      BY <1>1, <1>2, <1>3, <1>6
<1>10. t.pc \in ThreadPcs /\ u.pc \in ThreadPcs /\ u.affected \subseteq Threads
      BY <1>1, <1>2, <1>7 DEF ThreadPcs
<1> QED
      BY <1>1, <1>8, <1>9, <1>10, ThreadStepTypes

LEMMA SummaryReadIs ==
  ASSUME TypeInv, NEW w \in Workers, SummaryRead(w)
  PROVE  /\ StepOf(w) /\ writes' = writes /\ tx[w].pc \in ThreadPcs /\ tx'[w].pc \in ThreadPcs
         /\ Same(tx[w], tx'[w], ThreadFields)
         /\ TypeInv'
<1> DEFINE t == tx[w]
           u == tx'[w]
<1>1. /\ StepOf(w) /\ writes' = writes /\ t.pc = "thread_upsert" /\ u.pc = "summary"
      /\ Same(t, u, {"pc", "rows"})
      BY SummaryReadStep, Zenon
<1>2. t.affected \subseteq Threads /\ \A r \in t.tt_new : ThreadTraceOK(r)
      BY DEF TypeInv, TxOK
<1>3. u.tt_new = t.tt_new /\ u.affected = t.affected
      BY <1>1 DEF Same, Fields
<1>4. Same(t, u, ThreadFields)
  <2>1. {"pc", "rows"} \subseteq ThreadFields
        BY DEF ThreadFields
  <2> QED
        BY <1>1, <2>1, SameWiden
<1>5. t.pc \in ThreadPcs /\ u.pc \in ThreadPcs /\ u.pc # "thread_upsert"
      BY <1>1 DEF ThreadPcs
<1> QED
      BY <1>1, <1>2, <1>3, <1>4, <1>5, ThreadStepTypes

LEMMA SummaryWriteIs ==
  ASSUME TypeInv, NEW w \in Workers, SummaryWrite(w)
  PROVE  /\ StepOf(w) /\ writes' = writes /\ tx[w].pc \in ThreadPcs /\ tx'[w].pc \in ThreadPcs
         /\ Same(tx[w], tx'[w], ThreadFields)
         /\ TypeInv'
<1> DEFINE t == tx[w]
           u == tx'[w]
           h == Thread(w)
           cascade == {r \in ThreadTracesOf(w) : ThreadsOf(w)[h] # None /\ t.rows = {} /\ r.thread = h}
<1>1. /\ StepOf(w) /\ writes' = writes /\ t.pc = "summary" /\ u.pc = "thread_upsert"
      /\ u.rows = {} /\ u.affected = t.affected \ {h} /\ u.tt_new = t.tt_new \ cascade
      /\ Same(t, u, {"pc", "rows", "affected", "threads", "tt_gone", "tt_new"})
      BY SummaryWriteStep, Zenon
<1>2. t.affected \subseteq Threads /\ \A r \in t.tt_new : ThreadTraceOK(r)
      BY DEF TypeInv, TxOK
<1>3. Same(t, u, ThreadFields)
  <2>1. {"pc", "rows", "affected", "threads", "tt_gone", "tt_new"} \subseteq ThreadFields
        BY DEF ThreadFields
  <2> QED
        BY <1>1, <2>1, SameWiden
<1> HIDE DEF cascade, h
<1>4. /\ \A r \in u.tt_new : ThreadTraceOK(r)
      /\ u.affected \subseteq Threads
      /\ \A r \in u.rows : ThreadTraceOK(r)
      BY <1>1, <1>2
<1>5. t.pc \in ThreadPcs /\ u.pc \in ThreadPcs
      BY <1>1 DEF ThreadPcs
<1> QED
      BY <1>1, <1>3, <1>4, <1>5, ThreadStepTypes

LEMMA TraceDoneTypes ==
  ASSUME TypeInv, NEW w \in Workers, TraceDone(w)
  PROVE  TypeInv'
<1> DEFINE t == tx[w]
           u == tx'[w]
           left == t.traces \ {Trace(w)}
<1>1. /\ StepOf(w) /\ writes' = writes /\ t.pc = "thread_upsert" /\ u.traces = left
      /\ u.pc = IF left = {} THEN "stats" ELSE "tree"
      /\ Same(t, u, {"traces", "pc"})
      BY TraceDoneStep, Zenon
<1>2. TxOK(t, heads)
      BY DEF TypeInv
<1>3. left \subseteq Traces
      BY <1>2 DEF TxOK
<1> HIDE DEF t, u, left
<1>4. /\ DOMAIN u = Fields /\ u.deletions = t.deletions
      /\ u.nodes_new = t.nodes_new /\ u.tt_new = t.tt_new /\ u.rollups = t.rollups
      /\ u.affected = t.affected /\ u.todo = t.todo /\ u.heads = t.heads
      BY <1>1 DEF Same, Fields
<1>5. TxOK(u, heads)
      BY <1>1, <1>2, <1>3, <1>4, IdleFields DEF TxOK, Refreshing
<1> QED
      BY <1>1, <1>5, StepKeepsTypes DEF u, TypeInv

LEMMA StatsUpsertTypes ==
  ASSUME TypeInv, NEW w \in Workers, StatsUpsert(w)
  PROVE  TypeInv'
<1> DEFINE t == tx[w]
           u == tx'[w]
<1>1. /\ StepOf(w) /\ writes' = writes /\ t.pc = "stats" /\ u.pc = "rollups"
      /\ Same(t, u, {"pc", "stats"})
      BY StatsUpsertStep, Zenon
<1>2. TxOK(t, heads)
      BY DEF TypeInv
<1> HIDE DEF t, u
<1>3. /\ DOMAIN u = Fields /\ u.deletions = t.deletions
      /\ u.nodes_new = t.nodes_new /\ u.tt_new = t.tt_new /\ u.rollups = t.rollups
      /\ u.affected = t.affected /\ u.todo = t.todo /\ u.traces = t.traces /\ u.heads = t.heads
      BY <1>1 DEF Same, Fields
<1>4. TxOK(u, heads)
      BY <1>1, <1>2, <1>3, IdleFields DEF TxOK, Refreshing
<1> QED
      BY <1>1, <1>4, StepKeepsTypes DEF u, TypeInv

LEMMA RefreshRollupsTypes ==
  ASSUME TypeInv, NEW w \in Workers, RefreshRollups(w)
  PROVE  TypeInv'
<1> DEFINE t == tx[w]
           u == tx'[w]
           P == AfterHeads(t.todo, {})
           hs == HeadsOf(w)
           live == Visible(hs, DeletionsOf(w))
<1>1. /\ StepOf(w) /\ writes' = writes /\ u.rollups = RollupRows(hs, DeletionsOf(w))
      /\ u.pc = P /\ Same(t, u, {"rollups", "pc"})
      BY RefreshRollupsStep, Zenon
<1>2. TxOK(t, heads) /\ heads \in [Spans -> RunHead \cup {None}]
      BY DEF TypeInv
<1>3. P \in {"heads", "tree", "commit"} /\ (P = "heads" => t.todo # <<>>) /\ P # "tree"
      BY AfterHeadsIs, Zenon
<1>4. DOMAIN u.rollups \subseteq Groups
  <2>1. DOMAIN u.rollups = {hs[s].group : s \in live}
    <3> DEFINE n(g) == Cardinality({s \in live : hs[s].group = g})
    <3>1. u.rollups = [g \in {hs[s].group : s \in live} |-> n(g)]
          BY <1>1, Zenon DEF RollupRows
    <3> HIDE DEF n, hs, live
    <3> QED
          BY <3>1
  <2>2. ASSUME NEW s \in live PROVE hs[s].group \in Groups
    <3>1. s \in Spans /\ hs[s] # None
          BY DEF Visible
    <3>2. hs[s] \in RunHead \cup {None}
          BY <1>2, <3>1, HeadsSeen DEF HeadsOf
    <3> HIDE DEF hs
    <3> QED
          BY <3>1, <3>2 DEF RunHead
  <2> HIDE DEF hs, live
  <2> QED
        BY <2>1, <2>2
<1> HIDE DEF t, u, P
<1>5. /\ DOMAIN u = Fields /\ u.deletions = t.deletions
      /\ u.nodes_new = t.nodes_new /\ u.tt_new = t.tt_new
      /\ u.affected = t.affected /\ u.todo = t.todo /\ u.traces = t.traces /\ u.heads = t.heads
      BY <1>1 DEF Same, Fields
<1>6. TxOK(u, heads)
      BY <1>1, <1>2, <1>3, <1>4, <1>5, IdleFields DEF TxOK, Refreshing
<1> QED
      BY <1>1, <1>6, StepKeepsTypes DEF u, TypeInv

\* A commit, and what it leaves of run_heads.
LEMMA CommitStep ==
  ASSUME TypeInv, NEW w \in Workers, Commit(w)
  PROVE  /\ w \in conns /\ tx[w].pc = "commit"
         /\ heads' \in [Spans -> RunHead \cup {None}]
         /\ \A s \in Spans : heads'[s] = IF s \in DOMAIN tx[w].heads THEN tx[w].heads[s] ELSE heads[s]
         /\ heads' = HeadsOf(w)
         /\ deletions' = deletions \cup tx[w].deletions
         /\ nodes' = (nodes \ tx[w].nodes_gone) \cup tx[w].nodes_new
         /\ thread_traces' = ThreadTracesOf(w)
         /\ rollups' = IF tx[w].stats THEN tx[w].rollups ELSE rollups
         /\ DOMAIN tx' = Workers /\ tx'[w] = IdleTx
         /\ \A v \in Workers \ {w} : tx'[v] = tx[v]
         /\ conns' = conns /\ writes' = writes
<1>1. /\ w \in conns /\ tx[w].pc = "commit" /\ heads' = HeadsOf(w) /\ Become(w, IdleTx)
      /\ deletions' = deletions \cup tx[w].deletions
      /\ nodes' = (nodes \ tx[w].nodes_gone) \cup tx[w].nodes_new
      /\ thread_traces' = ThreadTracesOf(w)
      /\ rollups' = IF tx[w].stats THEN tx[w].rollups ELSE rollups
      /\ conns' = conns /\ writes' = writes
      BY Zenon DEF Commit, At, DeletionsOf, NodesOf
<1>2. TxOK(tx[w], heads) /\ heads \in [Spans -> RunHead \cup {None}]
      BY DEF TypeInv
<1>3. \A s \in Spans : /\ HeadsOf(w)[s] = IF s \in DOMAIN tx[w].heads THEN tx[w].heads[s] ELSE heads[s]
                       /\ HeadsOf(w)[s] \in RunHead \cup {None}
      BY <1>2, HeadsSeen DEF HeadsOf
<1>4. HeadsOf(w) \in [Spans -> RunHead \cup {None}]
  <2>1. HeadsOf(w) = [s \in Spans |-> HeadsOf(w)[s]]
        BY <1>2 DEF HeadsOf, Overlay
  <2> QED
        BY <1>3, <2>1
<1>5. DOMAIN tx' = Workers /\ tx'[w] = IdleTx /\ \A v \in Workers \ {w} : tx'[v] = tx[v]
      BY <1>1 DEF TypeInv, Become
<1> QED
      BY <1>1, <1>3, <1>4, <1>5

LEMMA CommitTypes ==
  ASSUME TypeInv, NEW w \in Workers, Commit(w)
  PROVE  TypeInv'
<1>1. /\ heads' \in [Spans -> RunHead \cup {None}]
      /\ \A s \in Spans : heads'[s] = IF s \in DOMAIN tx[w].heads THEN tx[w].heads[s] ELSE heads[s]
      /\ deletions' = deletions \cup tx[w].deletions
      /\ nodes' = (nodes \ tx[w].nodes_gone) \cup tx[w].nodes_new
      /\ thread_traces' = ThreadTracesOf(w)
      /\ rollups' = IF tx[w].stats THEN tx[w].rollups ELSE rollups
      /\ DOMAIN tx' = Workers /\ tx'[w] = IdleTx
      /\ \A v \in Workers \ {w} : tx'[v] = tx[v]
      /\ conns' = conns /\ writes' = writes
      BY CommitStep
<1>2. TxOK(tx[w], heads)
      BY DEF TypeInv
<1>3. deletions' \subseteq Spans /\ \A n \in nodes' : NodeOK(n)
      BY <1>1, <1>2 DEF TypeInv, TxOK
<1>4. \A r \in thread_traces' : ThreadTraceOK(r)
      BY <1>1, ThreadTracesSeen
<1>5. DOMAIN rollups' \subseteq Groups
      BY <1>1, <1>2 DEF TypeInv, TxOK
<1>6. \A s \in Spans : heads[s] # None => heads'[s] # None
  <2>1. \A s \in DOMAIN tx[w].heads : tx[w].heads[s] # None
        BY <1>2, NoneAssumption DEF TxOK
  <2> QED
        BY <1>1, <2>1
<1>7. ASSUME NEW v \in Workers PROVE TxOK(tx'[v], heads')
  <2>1. CASE v = w
        BY <1>1, <2>1, IdleTxOK
  <2>2. CASE v # w
    <3>1. tx'[v] = tx[v] /\ TxOK(tx[v], heads)
          BY <1>1, <2>2 DEF TypeInv
    <3> DEFINE t == tx[v]
    <3> HIDE DEF t
    <3>2. TxOK(t, heads) => TxOK(t, heads')
      <4> SUFFICES ASSUME TxOK(t, heads) PROVE TxOK(t, heads')
            OBVIOUS
      <4>1. ASSUME t.pc \in {"tree_delete", "tree_lock", "tree_insert", "tree_heads"}, NEW n \in t.rows
            PROVE  NodeOK(n) /\ (n.node.span \in DOMAIN t.heads \/ heads'[n.node.span] # None)
        <5>1. NodeOK(n) /\ (n.node.span \in DOMAIN t.heads \/ heads[n.node.span] # None)
              BY <4>1 DEF TxOK
        <5> QED
              BY <1>6, <5>1 DEF NodeOK
      <4> QED
            BY <4>1 DEF TxOK
    <3> QED
          BY <3>1, <3>2 DEF t
  <2> QED
        BY <2>1, <2>2
<1> QED
      BY <1>1, <1>3, <1>4, <1>5, <1>7 DEF TypeInv

LEMMA NextTypes ==
  ASSUME TypeInv, [Next]_vars
  PROVE  TypeInv'
<1>1. CASE Next
  <2>1. PICK w \in Workers :
          \/ Begin(w) \/ UpsertHead(w) \/ DeleteHead(w)
          \/ RefreshTraceTree(w) \/ RefreshTraceThreads(w)
          \/ StatsUpsert(w) \/ RefreshRollups(w)
          \/ Commit(w) \/ Fail(w)
        BY <1>1 DEF Next
  <2>2. CASE RefreshTraceTree(w)
        BY <2>2, TreeSelectTypes, TreeDeleteTypes, TreeLockTypes, TreeInsertTypes, FailTypes,
           TreeHeadsTypes DEF RefreshTraceTree
  <2>3. CASE RefreshTraceThreads(w)
        BY <2>3, ThreadDeleteIs, ThreadLockIs, ThreadUpsertIs, SummaryReadIs, SummaryWriteIs,
           TraceDoneTypes DEF RefreshTraceThreads
  <2> QED
        BY <2>1, <2>2, <2>3, BeginTypes, UpsertHeadTypes, DeleteHeadTypes, StatsUpsertTypes,
           RefreshRollupsTypes, CommitTypes, FailTypes
<1>2. CASE UNCHANGED vars
  <2>1. /\ conns' = conns /\ heads' = heads /\ deletions' = deletions /\ nodes' = nodes
        /\ thread_traces' = thread_traces /\ rollups' = rollups /\ tx' = tx /\ writes' = writes
        BY <1>2 DEF vars
  <2> QED
        BY <2>1 DEF TypeInv
<1> QED
      BY <1>1, <1>2

LEMMA TypeInvHolds ==
  Spec => []TypeInv
<1>1. TypeInv /\ [Next]_vars => TypeInv'
      BY NextTypes
<1> QED
      BY <1>1, InitTypes, PTL DEF Spec

\* Every table holds rows of its kind, whatever transactions overlap or fail: the
\* nodes that build_trace_tree_index numbers are of runs of their trace, the roots that
\* root_locator_for_record and the tree give a head are runs, and a transaction only
\* refreshes traces and threads there are.
THEOREM TypesHold ==
  Spec => []TypeOK
<1>1. TypeInv => TypeOK
  <2> SUFFICES ASSUME TypeInv PROVE TypeOK
        OBVIOUS
  <2>1. \A w \in Workers : tx[w].traces \subseteq Traces /\ tx[w].affected \subseteq Threads
        BY DEF TypeInv, TxOK
  <2>2. \A s \in Spans : heads[s] = None \/ heads[s] \in RunHead
        BY DEF TypeInv
  <2> QED
        BY <2>1, <2>2 DEF TypeInv, TypeOK, NodeOK, ThreadTraceOK
<1> QED
      BY <1>1, TypeInvHolds, PTL

----------------------------------------------------------------------------
(* The rollups count the visible runs. *)

LEMMA ConnsAreWorkers ==
  ASSUME TypeInv
  PROVE  conns \subseteq Workers
  BY JobsAssumption DEF TypeInv

\* A transaction of records is not one of deletions.
LEMMA WritesAreNoDeletes ==
  ASSUME NEW q \in Seq(WriteOp), q \in Seq(DeleteOp)
  PROVE  q = <<>>
<1> SUFFICES ASSUME q # <<>> PROVE FALSE
      OBVIOUS
<1>1. Head(q) \in WriteOp /\ Head(q) \in DeleteOp
      BY HeadTailProperties
<1> QED
      BY <1>1 DEF WriteOp, DeleteOp

LEMMA StepKeepsRollups ==
  ASSUME TypeInv, RollupsInv, NEW w \in Workers, StepOf(w), RollupsTx(tx'[w], heads, deletions),
         \A v \in Others(w) : /\ DOMAIN tx'[w].heads \cap DOMAIN tx[v].heads = {}
                              /\ ~(tx'[w].stats /\ tx[v].stats)
  PROVE  RollupsInv'
<1>1. conns' = conns /\ heads' = heads /\ deletions' = deletions /\ rollups' = rollups /\ w \in conns
      BY DEF StepOf, tables
<1>2. \A v \in conns \ {w} : tx'[v] = tx[v]
      BY ConnsAreWorkers DEF StepOf
<1>3. ASSUME NEW v \in conns PROVE RollupsTx(tx'[v], heads', deletions')
  <2>1. CASE v = w
        BY <1>1, <2>1
  <2>2. CASE v # w
        BY <1>1, <1>2, <2>2 DEF RollupsInv
  <2> QED
        BY <2>1, <2>2
<1>4. ASSUME NEW v \in conns, NEW x \in conns, v # x
      PROVE  DOMAIN tx'[v].heads \cap DOMAIN tx'[x].heads = {} /\ ~(tx'[v].stats /\ tx'[x].stats)
  <2>1. CASE v = w
    <3>1. x \in Others(w) /\ tx'[x] = tx[x]
          BY <1>2, <1>4, <2>1 DEF Others
    <3> QED
          BY <2>1, <3>1
  <2>2. CASE x = w
    <3>1. v \in Others(w) /\ tx'[v] = tx[v]
          BY <1>2, <1>4, <2>2 DEF Others
    <3> QED
          BY <2>2, <3>1
  <2>3. CASE v # w /\ x # w
    <3>1. tx'[v] = tx[v] /\ tx'[x] = tx[x]
          BY <1>2, <2>3
    <3> QED
          BY <1>4, <3>1, Zenon DEF RollupsInv
  <2> QED
        BY <2>1, <2>2, <2>3
<1>5. rollups' = RollupRows(heads', deletions')
      BY <1>1 DEF RollupsInv
<1> QED
      BY <1>1, <1>3, <1>4, <1>5, Zenon DEF RollupsInv

\* A transaction that keeps its rows and its place in the queue of the project.
LEMMA SameRowsApart ==
  ASSUME RollupsInv, NEW w \in conns, DOMAIN tx'[w].heads = DOMAIN tx[w].heads,
         tx'[w].stats = tx[w].stats
  PROVE  \A v \in Others(w) : /\ DOMAIN tx'[w].heads \cap DOMAIN tx[v].heads = {}
                              /\ ~(tx'[w].stats /\ tx[v].stats)
  BY Zenon DEF RollupsInv, Others

\* A transaction that has one more head, of a row nobody else has.
LEMMA OneHeadMoreApart ==
  ASSUME RollupsInv, NEW w \in conns, NEW k, ~HeadIsLocked(w, k),
         DOMAIN tx'[w].heads = DOMAIN tx[w].heads \cup {k}, tx'[w].stats = tx[w].stats
  PROVE  \A v \in Others(w) : /\ DOMAIN tx'[w].heads \cap DOMAIN tx[v].heads = {}
                              /\ ~(tx'[w].stats /\ tx[v].stats)
<1> SUFFICES ASSUME NEW v \in Others(w)
             PROVE  /\ DOMAIN tx'[w].heads \cap DOMAIN tx[v].heads = {}
                    /\ ~(tx'[w].stats /\ tx[v].stats)
      OBVIOUS
<1>1. v \in conns /\ v # w
      BY DEF Others
<1>2. DOMAIN tx[w].heads \cap DOMAIN tx[v].heads = {} /\ ~(tx[w].stats /\ tx[v].stats)
      BY <1>1, Zenon DEF RollupsInv
<1>3. k \notin DOMAIN tx[v].heads
      BY DEF HeadIsLocked
<1>4. DOMAIN tx'[w].heads \cap DOMAIN tx[v].heads = {}
      BY <1>2, <1>3
<1> QED
      BY <1>2, <1>4, Zenon

LEMMA IdleRollups ==
  ASSUME NEW hs, NEW ds
  PROVE  RollupsTx(IdleTx, hs, ds)
<1>1. IdleTx.pc = "idle"
      BY DEF IdleTx
<1> QED
      BY <1>1 DEF RollupsTx

LEMMA InitRollups ==
  Init => RollupsInv
<1> SUFFICES ASSUME Init PROVE RollupsInv
      OBVIOUS
<1>1. rollups = RollupRows(heads, deletions)
  <2> DEFINE live == Visible(heads, deletions)
             K == {heads[s].group : s \in live}
             n(g) == Cardinality({s \in live : heads[s].group = g})
  <2>1. live = {}
        BY DEF Init, Visible
  <2>2. K = {}
        BY <2>1
  <2>3. RollupRows(heads, deletions) = [g \in K |-> n(g)]
        BY Zenon DEF RollupRows
  <2> HIDE DEF K, n
  <2>4. [g \in K |-> n(g)] = <<>>
        BY <2>2
  <2> QED
        BY <2>3, <2>4 DEF Init
<1>2. conns \subseteq Workers
      BY JobsAssumption DEF Init
<1>3. \A w \in conns : tx[w] = IdleTx
      BY <1>2 DEF Init
<1>4. IdleTx.stats = FALSE /\ DOMAIN IdleTx.heads = {}
      BY DEF IdleTx
<1>5. \A v, w \in conns : v # w => /\ DOMAIN tx[v].heads \cap DOMAIN tx[w].heads = {}
                                  /\ ~(tx[v].stats /\ tx[w].stats)
      BY <1>3, <1>4
<1>6. \A w \in conns : RollupsTx(tx[w], heads, deletions)
      BY <1>3, IdleRollups
<1> QED
      BY <1>1, <1>5, <1>6, Zenon DEF RollupsInv

LEMMA FailRollups ==
  ASSUME TypeInv, RollupsInv, NEW w \in Workers, Fail(w) \/ TreeConflict(w)
  PROVE  RollupsInv'
<1>1. StepOf(w) /\ tx'[w] = IdleTx
      BY FailStep
<1>2. RollupsTx(tx'[w], heads, deletions)
      BY <1>1, IdleRollups
<1>3. IdleTx.stats = FALSE /\ DOMAIN IdleTx.heads = {}
      BY DEF IdleTx
<1>4. \A v \in Others(w) : DOMAIN tx'[w].heads \cap DOMAIN tx[v].heads = {} /\ ~(tx'[w].stats /\ tx[v].stats)
      BY <1>1, <1>3
<1> QED
      BY <1>1, <1>2, <1>4, StepKeepsRollups

LEMMA BeginRollups ==
  ASSUME TypeInv, RollupsInv, NEW w \in Workers, Begin(w)
  PROVE  RollupsInv'
<1> DEFINE u == tx'[w]
           i == IdleTx
<1>1. StepOf(w) /\ u.pc = "heads" /\ Same(i, u, {"pc", "id", "todo"})
      BY BeginStep
<1>2. i.traces = {} /\ DOMAIN i.heads = {} /\ i.deletions = {} /\ i.stats = FALSE
      BY DEF IdleTx
<1> HIDE DEF u, i
<1>3. u.traces = {} /\ DOMAIN u.heads = {} /\ u.deletions = {} /\ u.stats = FALSE
      BY <1>1, <1>2 DEF Same, Fields
<1>4. RollupsTx(u, heads, deletions)
      BY <1>1, <1>3 DEF RollupsTx
<1>5. \A v \in Others(w) : DOMAIN u.heads \cap DOMAIN tx[v].heads = {} /\ ~(u.stats /\ tx[v].stats)
      BY <1>3
<1> QED
      BY <1>1, <1>4, <1>5, StepKeepsRollups DEF u

LEMMA UpsertHeadRollups ==
  ASSUME TypeInv, RollupsInv, NEW w \in Workers, UpsertHead(w)
  PROVE  RollupsInv'
<1> DEFINE t == tx[w]
           u == tx'[w]
           r == Head(t.todo)
           k == r.span
           old == HeadsOf(w)[k]
           updated == old = None \/ old.at =< r.at
           new == [parent |-> r.parent, thread |-> r.thread, group |-> r.group,
                   start |-> r.start, at |-> r.at, root |-> RootLocator(w, r),
                   marked |-> FALSE]
           h == IF updated THEN new ELSE old
           traces == IF updated THEN t.traces \cup {TraceOf[r.span]} ELSE t.traces
           P == AfterHeads(Tail(t.todo), traces)
<1>1. /\ StepOf(w) /\ t.pc = "heads" /\ r.op = "write" /\ ~HeadIsLocked(w, k)
      /\ u.pc = P
      /\ u.todo = Tail(t.todo) /\ u.traces = traces
      /\ u.heads = With(t.heads, k, h)
      /\ Same(t, u, {"pc", "todo", "traces", "heads"})
      BY UpsertHeadStep, Zenon
<1>2. TxOK(t, heads) /\ w \in conns /\ heads \in [Spans -> RunHead \cup {None}]
      BY <1>1 DEF TypeInv, StepOf
<1>3. t.todo \in Seq(WriteOp) \cup Seq(DeleteOp) /\ t.todo # <<>>
      BY <1>1, <1>2 DEF TxOK
<1>4. t.todo \in Seq(WriteOp) /\ Tail(t.todo) \in Seq(WriteOp) /\ k \in Spans
      BY <1>1, <1>3, RecordsLeft
<1>5. t.todo \notin Seq(DeleteOp)
      BY <1>3, <1>4, WritesAreNoDeletes
<1>6. RollupsTx(t, heads, deletions)
      BY <1>2 DEF RollupsInv
<1>7. ~t.stats /\ t.deletions = {}
      BY <1>1, <1>5, <1>6 DEF RollupsTx
<1>8. /\ P \in {"heads", "tree", "commit"} /\ (P = "heads" => Tail(t.todo) # <<>>)
      /\ P = "commit" => traces = {}
      /\ P # "heads" => Tail(t.todo) = <<>> \/ Head(Tail(t.todo)).op # "write"
      BY AfterHeadsIs, Zenon
<1>9. P # "heads" => Tail(t.todo) = <<>>
  <2>1. Tail(t.todo) # <<>> => Head(Tail(t.todo)) \in WriteOp
        BY <1>4, HeadTailProperties
  <2> HIDE DEF P
  <2> QED
        BY <1>8, <2>1 DEF WriteOp
<1>10. P = "heads" => Tail(t.todo) \notin Seq(DeleteOp)
      BY <1>4, <1>8, WritesAreNoDeletes
<1>11. old = IF k \in DOMAIN t.heads THEN t.heads[k] ELSE heads[k]
      BY <1>2, <1>4, HeadsSeen DEF HeadsOf
<1>12. traces = {} => t.traces = {} /\ h = old
      OBVIOUS
<1>13. <<>> \in Seq(DeleteOp)
      OBVIOUS
<1>14. DOMAIN u.heads = DOMAIN t.heads \cup {k}
  <2> HIDE DEF h, k, t, u
  <2> QED
        BY <1>1 DEF With
<1> HIDE DEF t, u, h, traces, P, k, old, updated
<1>15. u.stats = t.stats /\ u.deletions = t.deletions
      BY <1>1 DEF Same, Fields
<1>16. ASSUME traces = {}, NEW s \in DOMAIN u.heads PROVE u.heads[s] = heads[s]
  <2>1. \A x \in DOMAIN t.heads : t.heads[x] = heads[x]
        BY <1>1, <1>6, <1>7, <1>12, <1>16 DEF RollupsTx
  <2>2. old = heads[k]
        BY <1>11, <2>1
  <2>3. s \in DOMAIN t.heads \cup {k} /\ u.heads[s] = IF s = k THEN h ELSE t.heads[s]
        BY <1>1, <1>14, <1>16 DEF With
  <2> QED
        BY <1>12, <1>16, <2>1, <2>2, <2>3
<1>17. RollupsTx(u, heads, deletions)
  <2>1. ~u.stats /\ u.deletions = {}
        BY <1>7, <1>15
  <2>2. u.pc \notin {"idle", "heads"} => u.todo \in Seq(DeleteOp)
        BY <1>1, <1>9, <1>13
  <2>3. u.pc = "heads" => u.todo \notin Seq(DeleteOp)
        BY <1>1, <1>10
  <2>4. u.pc \in {"stats", "rollups", "commit"} => u.traces = {}
        BY <1>1, <1>8
  <2>5. u.pc # "rollups"
        BY <1>1, <1>8
  <2>6. u.traces = {} => \A s \in DOMAIN u.heads : u.heads[s] = heads[s]
        BY <1>1, <1>16
  <2> QED
        BY <2>1, <2>2, <2>3, <2>4, <2>5, <2>6 DEF RollupsTx
<1> QED
      BY <1>1, <1>2, <1>14, <1>15, <1>17, StepKeepsRollups, OneHeadMoreApart DEF t, u

LEMMA DeleteHeadRollups ==
  ASSUME TypeInv, RollupsInv, NEW w \in Workers, DeleteHead(w)
  PROVE  RollupsInv'
<1> DEFINE t == tx[w]
           u == tx'[w]
           r == Head(t.todo)
           k == r.span
           old == HeadsOf(w)[k]
           found == old # None /\ ~old.marked
           h == [old EXCEPT !.marked = TRUE, !.at = r.at]
           traces == IF found THEN {TraceOf[k]} ELSE {}
           P == AfterHeads(Tail(t.todo), traces)
<1>1. /\ StepOf(w) /\ t.pc = "heads" /\ r.op = "delete"
      /\ found => ~HeadIsLocked(w, k)
      /\ u.pc = P
      /\ u.todo = Tail(t.todo) /\ u.traces = traces
      /\ u.heads = IF found THEN With(t.heads, k, h) ELSE t.heads
      /\ u.deletions = IF found THEN t.deletions \cup {k} ELSE t.deletions
      /\ Same(t, u, {"pc", "todo", "traces", "heads", "deletions"})
      BY DeleteHeadStep, Zenon
<1>2. TxOK(t, heads) /\ w \in conns
      BY <1>1 DEF TypeInv, StepOf
<1>3. t.todo \in Seq(WriteOp) \cup Seq(DeleteOp) /\ t.todo # <<>>
      BY <1>1, <1>2 DEF TxOK
<1>4. t.todo \in Seq(DeleteOp) /\ Tail(t.todo) \in Seq(DeleteOp)
      BY <1>1, <1>3, RecordsLeft
<1>5. RollupsTx(t, heads, deletions)
      BY <1>2 DEF RollupsInv
<1>6. t.traces = {}
      BY <1>1, <1>4, <1>5 DEF RollupsTx
<1>7. /\ P \in {"heads", "tree", "commit"} /\ (P = "heads" => Tail(t.todo) # <<>>)
      /\ P = "commit" => traces = {}
      /\ P = "heads" => Head(Tail(t.todo)).op = "write" \/ traces = {}
      BY AfterHeadsIs, Zenon
<1>8. Tail(t.todo) # <<>> => Head(Tail(t.todo)).op = "delete"
  <2>1. Tail(t.todo) # <<>> => Head(Tail(t.todo)) \in DeleteOp
        BY <1>4, HeadTailProperties
  <2> QED
        BY <2>1 DEF DeleteOp
<1>9. P \in {"heads", "commit"} => ~found
  <2>1. found => traces # {}
        OBVIOUS
  <2> HIDE DEF P, traces, found
  <2> QED
        BY <1>7, <1>8, <2>1
<1>10. ~found => traces = {}
      OBVIOUS
<1> HIDE DEF t, u, h, traces, P, k, old, found
<1>11. u.stats = t.stats /\ u.rollups = t.rollups
      BY <1>1 DEF Same, Fields
<1>12. RollupsTx(u, heads, deletions)
  <2>1. u.todo \in Seq(DeleteOp)
        BY <1>1, <1>4
  <2>2. u.pc \in {"heads", "tree", "commit"}
        BY <1>1, <1>7
  <2>3. u.pc \in {"heads", "commit"} => /\ u.traces = {} /\ u.heads = t.heads /\ u.deletions = t.deletions
        BY <1>1, <1>9, <1>10
  <2>4. CASE u.pc \in {"heads", "commit"}
    <3>1. u.traces = {} /\ u.heads = t.heads /\ u.deletions = t.deletions
          BY <2>3, <2>4
    <3>2. ~t.stats => t.deletions = {} /\ \A s \in DOMAIN t.heads : t.heads[s] = heads[s]
          BY <1>1, <1>5, <1>6 DEF RollupsTx
    <3>3. t.stats => t.rollups = RollupRows(Overlay(t.heads, heads), deletions \cup t.deletions)
          BY <1>1, <1>5 DEF RollupsTx
    <3> QED
          BY <1>11, <2>1, <2>4, <3>1, <3>2, <3>3 DEF RollupsTx
  <2>5. CASE u.pc = "tree"
        BY <2>1, <2>5 DEF RollupsTx
  <2> QED
        BY <2>2, <2>4, <2>5
<1>13. CASE found
  <2>1. DOMAIN u.heads = DOMAIN t.heads \cup {k} /\ ~HeadIsLocked(w, k)
        BY <1>1, <1>13 DEF With
  <2> QED
        BY <1>1, <1>2, <1>11, <1>12, <2>1, StepKeepsRollups, OneHeadMoreApart DEF t, u
<1>14. CASE ~found
  <2>1. DOMAIN u.heads = DOMAIN t.heads
        BY <1>1, <1>14
  <2> QED
        BY <1>1, <1>2, <1>11, <1>12, <2>1, StepKeepsRollups, SameRowsApart DEF t, u
<1> QED
      BY <1>13, <1>14

\* A step within the refresh of a trace.
LEMMA RefreshRollupsTx ==
  ASSUME TypeInv, RollupsInv, NEW w \in Workers, StepOf(w),
         tx[w].pc \in Refreshing, tx'[w].pc \in Refreshing,
         tx'[w].todo = tx[w].todo
  PROVE  RollupsTx(tx'[w], heads, deletions)
<1> DEFINE t == tx[w]
           u == tx'[w]
<1>1. RollupsTx(t, heads, deletions)
      BY DEF RollupsInv, StepOf
<1>2. t.todo \in Seq(DeleteOp)
      BY <1>1 DEF RollupsTx, Refreshing
<1>3. u.pc \in Refreshing /\ u.todo = t.todo
      OBVIOUS
<1> HIDE DEF t, u
<1>4. RollupsTx(u, heads, deletions)
      BY <1>2, <1>3 DEF RollupsTx, Refreshing
<1> QED
      BY <1>4 DEF u

\* One that writes no heads.
LEMMA RefreshStepRollups ==
  ASSUME TypeInv, RollupsInv, NEW w \in Workers, StepOf(w),
         tx[w].pc \in Refreshing, tx'[w].pc \in Refreshing, NEW changed, Same(tx[w], tx'[w], changed),
         changed \cap {"todo", "heads", "stats"} = {}
  PROVE  RollupsInv'
<1> DEFINE t == tx[w]
           u == tx'[w]
<1>1. Same(t, u, changed)
      OBVIOUS
<1> HIDE DEF t, u
<1>2. {"todo", "heads", "stats"} \subseteq Fields \ changed
      BY DEF Fields
<1>3. u.todo = t.todo /\ u.heads = t.heads /\ u.stats = t.stats
      BY <1>1, <1>2 DEF Same
<1>4. RollupsTx(tx'[w], heads, deletions)
      BY <1>3, RefreshRollupsTx DEF t, u
<1>5. w \in conns
      BY DEF StepOf
<1> QED
      BY <1>3, <1>4, <1>5, SameRowsApart, StepKeepsRollups DEF t, u

LEMMA TreeRollups ==
  ASSUME TypeInv, RollupsInv, NEW w \in Workers,
         TreeSelect(w) \/ TreeDelete(w) \/ TreeLock(w) \/ TreeInsert(w)
  PROVE  RollupsInv'
<1>1. CASE TreeSelect(w)
  <2>1. StepOf(w) /\ tx[w].pc = "tree" /\ tx'[w].pc = "tree_delete" /\ Same(tx[w], tx'[w], {"pc", "rows"})
        BY <1>1, TreeSelectStep, Zenon
  <2>2. tx[w].pc \in Refreshing /\ tx'[w].pc \in Refreshing /\ {"pc", "rows"} \cap {"todo", "heads", "stats"} = {}
        BY <2>1 DEF Refreshing
  <2> QED
        BY <2>1, <2>2, RefreshStepRollups
<1>2. CASE TreeDelete(w)
  <2> DEFINE F == {"pc", "victims"}
  <2>1. StepOf(w) /\ tx[w].pc = "tree_delete" /\ tx'[w].pc = "tree_lock" /\ Same(tx[w], tx'[w], F)
        BY <1>2, TreeDeleteStep, Zenon
  <2>2. tx[w].pc \in Refreshing /\ tx'[w].pc \in Refreshing /\ F \cap {"todo", "heads", "stats"} = {}
        BY <2>1 DEF Refreshing
  <2> QED
        BY <2>1, <2>2, RefreshStepRollups
<1>3. CASE TreeLock(w)
  <2> DEFINE F == {"pc", "victims", "nodes_gone", "nodes_new"}
  <2>1. StepOf(w) /\ tx[w].pc = "tree_lock" /\ tx'[w].pc = "tree_insert" /\ Same(tx[w], tx'[w], F)
        BY <1>3, TreeLockStep, Zenon
  <2>2. tx[w].pc \in Refreshing /\ tx'[w].pc \in Refreshing /\ F \cap {"todo", "heads", "stats"} = {}
        BY <2>1 DEF Refreshing
  <2> QED
        BY <2>1, <2>2, RefreshStepRollups
<1>4. CASE TreeInsert(w)
  <2> DEFINE F == {"pc", "nodes_new"}
  <2>1. StepOf(w) /\ tx[w].pc = "tree_insert" /\ tx'[w].pc = "tree_heads" /\ Same(tx[w], tx'[w], F)
        BY <1>4, TreeInsertStep, Zenon
  <2>2. tx[w].pc \in Refreshing /\ tx'[w].pc \in Refreshing /\ F \cap {"todo", "heads", "stats"} = {}
        BY <2>1 DEF Refreshing
  <2> QED
        BY <2>1, <2>2, RefreshStepRollups
<1> QED
      BY <1>1, <1>2, <1>3, <1>4

\* The heads of a tree are written once nobody else has one of them.
LEMMA TreeHeadsRollups ==
  ASSUME TypeInv, RollupsInv, NEW w \in Workers, TreeHeads(w)
  PROVE  RollupsInv'
<1> DEFINE t == tx[w]
           u == tx'[w]
           mine == {n.node.span : n \in t.rows}
<1>1. /\ StepOf(w) /\ t.pc = "tree_heads" /\ u.pc = "thread_delete"
      /\ \A s \in mine : ~HeadIsLocked(w, s)
      /\ DOMAIN u.heads = DOMAIN t.heads \cup mine
      /\ Same(t, u, {"pc", "rows", "heads"})
      BY TreeHeadsIs, Zenon
<1> HIDE DEF t, u, mine
<1>2. u.todo = t.todo /\ u.stats = t.stats
      BY <1>1 DEF Same, Fields
<1>3. RollupsTx(u, heads, deletions)
      BY <1>1, <1>2, RefreshRollupsTx DEF t, u, Refreshing
<1>4. ASSUME NEW v \in Others(w)
      PROVE  DOMAIN u.heads \cap DOMAIN tx[v].heads = {} /\ ~(u.stats /\ tx[v].stats)
  <2>1. v \in conns /\ v # w /\ w \in conns
        BY <1>1 DEF Others, StepOf
  <2>2. DOMAIN t.heads \cap DOMAIN tx[v].heads = {} /\ ~(t.stats /\ tx[v].stats)
        BY <2>1, Zenon DEF RollupsInv, t
  <2>3. \A s \in mine : s \notin DOMAIN tx[v].heads
        BY <1>1 DEF HeadIsLocked
  <2>4. DOMAIN u.heads \cap DOMAIN tx[v].heads = {}
        BY <1>1, <2>2, <2>3
  <2> QED
        BY <1>2, <2>2, <2>4, Zenon
<1> QED
      BY <1>1, <1>3, <1>4, StepKeepsRollups DEF u

LEMMA ThreadsRollups ==
  ASSUME TypeInv, RollupsInv, NEW w \in Workers,
         ThreadDelete(w) \/ ThreadLock(w) \/ ThreadUpsert(w) \/ SummaryRead(w) \/ SummaryWrite(w)
  PROVE  RollupsInv'
<1>1. /\ StepOf(w) /\ tx[w].pc \in ThreadPcs /\ tx'[w].pc \in ThreadPcs
      /\ Same(tx[w], tx'[w], ThreadFields)
      BY ThreadDeleteIs, ThreadLockIs, ThreadUpsertIs, SummaryReadIs, SummaryWriteIs
<1>2. tx[w].pc \in Refreshing /\ tx'[w].pc \in Refreshing
      BY <1>1 DEF ThreadPcs, Refreshing
<1>3. ThreadFields \cap {"todo", "heads", "stats"} = {}
      BY DEF ThreadFields
<1> QED
      BY <1>1, <1>2, <1>3, RefreshStepRollups

LEMMA TraceDoneRollups ==
  ASSUME TypeInv, RollupsInv, NEW w \in Workers, TraceDone(w)
  PROVE  RollupsInv'
<1> DEFINE t == tx[w]
           u == tx'[w]
           left == t.traces \ {Trace(w)}
<1>1. /\ StepOf(w) /\ t.pc = "thread_upsert" /\ u.traces = left
      /\ u.pc = IF left = {} THEN "stats" ELSE "tree"
      /\ Same(t, u, {"traces", "pc"})
      BY TraceDoneStep, Zenon
<1>2. RollupsTx(t, heads, deletions) /\ w \in conns
      BY <1>1 DEF RollupsInv, StepOf
<1> HIDE DEF t, u, left
<1>3. u.todo = t.todo /\ u.heads = t.heads /\ u.stats = t.stats
      BY <1>1 DEF Same, Fields
<1>4. t.todo \in Seq(DeleteOp)
      BY <1>1, <1>2 DEF RollupsTx
<1>5. RollupsTx(u, heads, deletions)
      BY <1>1, <1>3, <1>4 DEF RollupsTx
<1> QED
      BY <1>1, <1>2, <1>3, <1>5, SameRowsApart, StepKeepsRollups DEF t, u

LEMMA StatsUpsertRollups ==
  ASSUME TypeInv, RollupsInv, NEW w \in Workers, StatsUpsert(w)
  PROVE  RollupsInv'
<1> DEFINE t == tx[w]
           u == tx'[w]
<1>1. /\ StepOf(w) /\ t.pc = "stats" /\ u.pc = "rollups" /\ u.stats = TRUE
      /\ \A v \in Others(w) : ~tx[v].stats
      /\ Same(t, u, {"pc", "stats"})
      BY StatsUpsertStep, Zenon
<1>2. RollupsTx(t, heads, deletions) /\ w \in conns
      BY <1>1 DEF RollupsInv, StepOf
<1> HIDE DEF t, u
<1>3. u.todo = t.todo /\ u.heads = t.heads /\ u.traces = t.traces
      BY <1>1 DEF Same, Fields
<1>4. t.todo \in Seq(DeleteOp) /\ t.traces = {}
      BY <1>1, <1>2 DEF RollupsTx
<1>5. RollupsTx(u, heads, deletions)
      BY <1>1, <1>3, <1>4 DEF RollupsTx
<1>6. ASSUME NEW v \in Others(w)
      PROVE  DOMAIN u.heads \cap DOMAIN tx[v].heads = {} /\ ~(u.stats /\ tx[v].stats)
  <2>1. v \in conns /\ v # w
        BY DEF Others
  <2>2. DOMAIN t.heads \cap DOMAIN tx[v].heads = {}
        BY <1>2, <2>1, Zenon DEF RollupsInv, t
  <2> QED
        BY <1>1, <1>3, <2>2, Zenon
<1> QED
      BY <1>1, <1>5, <1>6, StepKeepsRollups DEF u

LEMMA RefreshRollupsRollups ==
  ASSUME TypeInv, RollupsInv, NEW w \in Workers, RefreshRollups(w)
  PROVE  RollupsInv'
<1> DEFINE t == tx[w]
           u == tx'[w]
           P == AfterHeads(t.todo, {})
<1>1. /\ StepOf(w) /\ t.pc = "rollups" /\ u.rollups = RollupRows(HeadsOf(w), DeletionsOf(w))
      /\ u.pc = P /\ Same(t, u, {"rollups", "pc"})
      BY RefreshRollupsStep, Zenon
<1>2. RollupsTx(t, heads, deletions) /\ w \in conns
      BY <1>1 DEF RollupsInv, StepOf
<1>3. P \in {"heads", "tree", "commit"} /\ P # "tree"
      BY AfterHeadsIs, Zenon
<1>4. HeadsOf(w) = Overlay(t.heads, heads) /\ DeletionsOf(w) = deletions \cup t.deletions
      BY DEF HeadsOf, DeletionsOf
<1> HIDE DEF t, u, P
<1>5. /\ u.todo = t.todo /\ u.heads = t.heads /\ u.stats = t.stats /\ u.traces = t.traces
      /\ u.deletions = t.deletions
      BY <1>1 DEF Same, Fields
<1>6. t.todo \in Seq(DeleteOp) /\ t.traces = {}
      BY <1>1, <1>2 DEF RollupsTx
<1>7. t.stats
      BY <1>1, <1>2 DEF RollupsTx
<1>8. u.rollups = RollupRows(Overlay(u.heads, heads), deletions \cup u.deletions)
      BY <1>1, <1>4, <1>5
<1>9. u.pc \in {"heads", "commit"} /\ u.stats /\ u.todo \in Seq(DeleteOp) /\ u.traces = {}
  <2>1. u.stats
        BY <1>5, <1>7, Zenon
  <2> QED
        BY <1>1, <1>3, <1>5, <1>6, <2>1
<1>10. RollupsTx(u, heads, deletions)
      BY <1>8, <1>9 DEF RollupsTx
<1> QED
      BY <1>1, <1>2, <1>5, <1>10, SameRowsApart, StepKeepsRollups DEF t, u

\* A commit without the project's rows changes no head; one with them commits the
\* rollups of what it commits.
LEMMA CommitRollups ==
  ASSUME TypeInv, RollupsInv, NEW w \in Workers, Commit(w)
  PROVE  RollupsInv'
<1> DEFINE t == tx[w]
<1>1. /\ w \in conns /\ t.pc = "commit" /\ heads' = HeadsOf(w)
      /\ heads' \in [Spans -> RunHead \cup {None}]
      /\ \A s \in Spans : heads'[s] = IF s \in DOMAIN t.heads THEN t.heads[s] ELSE heads[s]
      /\ deletions' = deletions \cup t.deletions
      /\ rollups' = IF t.stats THEN t.rollups ELSE rollups
      /\ tx'[w] = IdleTx
      /\ \A v \in Workers \ {w} : tx'[v] = tx[v]
      /\ conns' = conns
      BY CommitStep
<1>2. RollupsTx(t, heads, deletions) /\ TxOK(t, heads) /\ heads \in [Spans -> RunHead \cup {None}]
      BY <1>1 DEF RollupsInv, TypeInv
<1>3. \A v \in conns \ {w} : v \in Workers /\ tx'[v] = tx[v] /\ RollupsTx(tx[v], heads, deletions)
      BY <1>1, ConnsAreWorkers DEF RollupsInv
<1>4. \A v \in conns \ {w} : DOMAIN t.heads \cap DOMAIN tx[v].heads = {} /\ ~(t.stats /\ tx[v].stats)
      BY <1>1, Zenon DEF RollupsInv
<1>5. IdleTx.stats = FALSE /\ DOMAIN IdleTx.heads = {}
      BY DEF IdleTx
<1>6. ASSUME NEW v \in conns, NEW x \in conns, v # x
      PROVE  DOMAIN tx'[v].heads \cap DOMAIN tx'[x].heads = {} /\ ~(tx'[v].stats /\ tx'[x].stats)
  <2>1. CASE v = w \/ x = w
        BY <1>1, <1>5, <2>1
  <2>2. CASE v # w /\ x # w
    <3>1. tx'[v] = tx[v] /\ tx'[x] = tx[x]
          BY <1>3, <2>2
    <3> QED
          BY <1>6, <3>1, Zenon DEF RollupsInv
  <2> QED
        BY <2>1, <2>2
<1>7. /\ rollups' = RollupRows(heads', deletions')
      /\ \A v \in conns \ {w} : RollupsTx(tx[v], heads', deletions')
  <2>1. CASE t.stats
    <3>1. t.rollups = RollupRows(Overlay(t.heads, heads), deletions \cup t.deletions)
          BY <1>1, <1>2, <2>1 DEF RollupsTx
    <3>2. rollups' = RollupRows(heads', deletions')
          BY <1>1, <2>1, <3>1 DEF HeadsOf
    <3>3. ASSUME NEW v \in conns \ {w} PROVE RollupsTx(tx[v], heads', deletions')
      <4> DEFINE q == tx[v]
      <4>1. /\ RollupsTx(q, heads, deletions) /\ ~q.stats /\ DOMAIN q.heads \subseteq Spans
            /\ DOMAIN t.heads \cap DOMAIN q.heads = {}
        <5>1. ~q.stats
              BY <1>4, <2>1, Zenon
        <5>2. DOMAIN q.heads \subseteq Spans
              BY <1>3 DEF TypeInv, TxOK
        <5> QED
              BY <1>3, <1>4, <5>1, <5>2
      <4> HIDE DEF q, t
      <4>2. \A s \in DOMAIN q.heads : heads'[s] = heads[s]
            BY <1>1, <4>1
      <4>3. RollupsTx(q, heads', deletions')
            BY <4>1, <4>2 DEF RollupsTx
      <4> QED
            BY <4>3 DEF q
    <3> QED
          BY <3>2, <3>3
  <2>2. CASE ~t.stats
    <3>1. t.traces = {} /\ t.deletions = {} /\ \A s \in DOMAIN t.heads : t.heads[s] = heads[s]
          BY <1>1, <1>2, <2>2 DEF RollupsTx
    <3>2. \A s \in Spans : heads'[s] = heads[s]
          BY <1>1, <3>1
    <3>3. heads' = heads
          BY <1>1, <1>2, <3>2
    <3>4. deletions' = deletions /\ rollups' = rollups
          BY <1>1, <2>2, <3>1
    <3> QED
          BY <1>3, <3>3, <3>4 DEF RollupsInv
  <2> QED
        BY <2>1, <2>2
<1>8. \A v \in conns' : RollupsTx(tx'[v], heads', deletions')
      BY <1>1, <1>3, <1>7, IdleRollups
<1> QED
      BY <1>1, <1>6, <1>7, <1>8, Zenon DEF RollupsInv

LEMMA NextRollups ==
  ASSUME TypeInv, RollupsInv, [Next]_vars
  PROVE  RollupsInv'
<1>1. CASE Next
  <2>1. PICK w \in Workers :
          \/ Begin(w) \/ UpsertHead(w) \/ DeleteHead(w)
          \/ RefreshTraceTree(w) \/ RefreshTraceThreads(w)
          \/ StatsUpsert(w) \/ RefreshRollups(w)
          \/ Commit(w) \/ Fail(w)
        BY <1>1 DEF Next
  <2>2. CASE RefreshTraceTree(w)
        BY <2>2, TreeRollups, FailRollups, TreeHeadsRollups DEF RefreshTraceTree
  <2>3. CASE RefreshTraceThreads(w)
        BY <2>3, ThreadsRollups, TraceDoneRollups DEF RefreshTraceThreads
  <2> QED
        BY <2>1, <2>2, <2>3, BeginRollups, UpsertHeadRollups, DeleteHeadRollups,
           StatsUpsertRollups, RefreshRollupsRollups, CommitRollups, FailRollups
<1>2. CASE UNCHANGED vars
  <2>1. /\ conns' = conns /\ heads' = heads /\ deletions' = deletions /\ rollups' = rollups /\ tx' = tx
        BY <1>2 DEF vars
  <2> QED
        BY <2>1 DEF RollupsInv
<1> QED
      BY <1>1, <1>2

LEMMA RollupsInvHolds ==
  Spec => []RollupsInv
<1>1. TypeInv /\ RollupsInv /\ [Next]_vars => RollupsInv'
      BY NextRollups
<1> QED
      BY <1>1, InitRollups, TypeInvHolds, PTL DEF Spec

\* However transactions overlap, fail or delete several runs one after the other,
\* run_metric_rollups counts exactly the visible runs of each group: a transaction
\* that has changed a head passes the upsert of project_filter_stats, which only one
\* holds at a time, before it rebuilds the rollups.
THEOREM RollupsAreRight ==
  Spec => []RollupsMatchTheHeads
<1>1. RollupsInv => RollupsMatchTheHeads
  <2> SUFFICES ASSUME RollupsInv PROVE RollupsMatchTheHeads
        OBVIOUS
  <2> DEFINE live == Visible(heads, deletions)
             members(g) == {s \in live : heads[s].group = g}
             K == {heads[s].group : s \in live}
  <2>1. rollups = [g \in K |-> Cardinality(members(g))]
        BY Zenon DEF RollupsInv, RollupRows
  <2>2. \A g : g \in K <=> members(g) # {}
        OBVIOUS
  <2>3. RollupsMatchTheHeads <=>
          \A g \in Groups : IF g \in DOMAIN rollups
                            THEN rollups[g] = Cardinality(members(g)) /\ members(g) # {}
                            ELSE members(g) = {}
        BY Zenon DEF RollupsMatchTheHeads
  <2> HIDE DEF K, members, live
  <2> QED
        BY <2>1, <2>2, <2>3
<1> QED
      BY <1>1, RollupsInvHolds, PTL

----------------------------------------------------------------------------
(* The tree and the root columns of run_heads. *)

LEMMA StepKeepsTree ==
  ASSUME TypeInv, TreeInv, NEW w \in Workers, StepOf(w), TreeTx(tx'[w], deletions, nodes),
         \A v \in Others(w) : \A m \in tx'[w].nodes_new, n \in tx[v].nodes_new : ~SameNode(m, n)
  PROVE  TreeInv'
<1>1. conns' = conns /\ heads' = heads /\ deletions' = deletions /\ nodes' = nodes /\ w \in conns
      BY DEF StepOf, tables
<1>2. \A v \in conns \ {w} : tx'[v] = tx[v]
      BY ConnsAreWorkers DEF StepOf
<1>3. ASSUME NEW v \in conns PROVE TreeTx(tx'[v], deletions', nodes')
  <2>1. CASE v = w
        BY <1>1, <2>1
  <2>2. CASE v # w
        BY <1>1, <1>2, <2>2 DEF TreeInv
  <2> QED
        BY <2>1, <2>2
<1>4. ASSUME NEW v \in conns, NEW x \in conns, v # x,
             NEW m \in tx'[v].nodes_new, NEW n \in tx'[x].nodes_new
      PROVE  ~SameNode(m, n)
  <2>1. CASE v = w
    <3>1. x \in Others(w) /\ tx'[x] = tx[x]
          BY <1>2, <1>4, <2>1 DEF Others
    <3> QED
          BY <1>4, <2>1, <3>1
  <2>2. CASE x = w
    <3>1. v \in Others(w) /\ tx'[v] = tx[v]
          BY <1>2, <1>4, <2>2 DEF Others
    <3>2. ~SameNode(n, m)
          BY <1>4, <2>2, <3>1
    <3> QED
          BY <3>2 DEF SameNode
  <2>3. CASE v # w /\ x # w
    <3>1. tx'[v] = tx[v] /\ tx'[x] = tx[x]
          BY <1>2, <2>3
    <3> QED
          BY <1>4, <3>1, Zenon DEF TreeInv
  <2> QED
        BY <2>1, <2>2, <2>3
<1>5. HeadRootsAgreeWithTheTree'
      BY <1>1 DEF TreeInv, HeadRootsAgreeWithTheTree
<1> QED
      BY <1>1, <1>3, <1>4, <1>5, Zenon DEF TreeInv

\* A transaction without new nodes of other runs.
LEMMA NoNewNodesApart ==
  ASSUME TreeInv, NEW w \in conns, tx'[w].nodes_new \subseteq tx[w].nodes_new
  PROVE  \A v \in Others(w) : \A m \in tx'[w].nodes_new, n \in tx[v].nodes_new : ~SameNode(m, n)
  BY DEF TreeInv, Others

\* The nodes that a transaction sees are of runs.
LEMMA SeenNodes ==
  ASSUME TypeInv, NEW w \in Workers
  PROVE  /\ \A n \in Seen(tx[w], nodes) : NodeOK(n)
         /\ NodesOf(w) = Seen(tx[w], nodes)
  BY DEF TypeInv, TxOK, Seen, NodesOf

\* A transaction that keeps its nodes and settles what was settled.
LEMMA TreeTxKept ==
  ASSUME NEW t, NEW u, NEW ds, NEW ns, TreeTx(t, ds, ns),
         u.nodes_new = t.nodes_new, u.nodes_gone = t.nodes_gone,
         DOMAIN t.heads \subseteq DOMAIN u.heads, t.pc # "tree_heads", u.pc # "tree_heads",
         \A m \in Seen(t, ns) : m.node.span \in DOMAIN u.heads => Settled(u, ds, m)
  PROVE  TreeTx(u, ds, ns)
<1>1. Seen(u, ns) = Seen(t, ns)
      BY DEF Seen
<1> QED
      BY <1>1 DEF TreeTx

\* A transaction that keeps its heads, and moves on without leaving a node behind.
LEMMA TreeTxMoves ==
  ASSUME NEW t, NEW u, NEW ds, NEW ns, TreeTx(t, ds, ns), NEW changed, Same(t, u, changed),
         changed \cap {"nodes_new", "nodes_gone", "heads", "deletions", "traces"} = {},
         t.pc \notin {"tree_lock", "tree_heads"}, u.pc # "tree_heads",
         t.pc \in {"heads", "tree", "tree_delete"} => u.pc \in {"heads", "tree", "tree_delete"}
  PROVE  TreeTx(u, ds, ns)
<1>1. {"nodes_new", "nodes_gone", "heads", "deletions", "traces"} \subseteq Fields \ changed
      BY DEF Fields
<1>2. /\ u.nodes_new = t.nodes_new /\ u.nodes_gone = t.nodes_gone /\ u.heads = t.heads
      /\ u.deletions = t.deletions /\ u.traces = t.traces
      BY <1>1 DEF Same
<1>3. ASSUME NEW m \in Seen(t, ns), m.node.span \in DOMAIN u.heads PROVE Settled(u, ds, m)
  <2>1. Settled(t, ds, m)
        BY <1>2, <1>3 DEF TreeTx
  <2>2. Agrees(t, ds, m) => Agrees(u, ds, m)
        BY <1>2, Zenon DEF Agrees
  <2> QED
        BY <1>2, <2>1, <2>2 DEF Settled
<1> QED
      BY <1>2, <1>3, TreeTxKept

LEMMA IdleTree ==
  ASSUME NEW ds, NEW ns, NEW u, u.nodes_new = {}, DOMAIN u.heads = {}, u.pc # "tree_heads"
  PROVE  TreeTx(u, ds, ns)
  BY DEF TreeTx

LEMMA InitTree ==
  Init => TreeInv
<1> SUFFICES ASSUME Init PROVE TreeInv
      OBVIOUS
<1>1. conns \subseteq Workers
      BY JobsAssumption DEF Init
<1>2. \A w \in conns : tx[w] = IdleTx
      BY <1>1 DEF Init
<1>3. IdleTx.nodes_new = {} /\ DOMAIN IdleTx.heads = {} /\ IdleTx.pc # "tree_heads"
      BY DEF IdleTx
<1>4. \A w \in conns : TreeTx(tx[w], deletions, nodes)
      BY <1>2, <1>3, IdleTree
<1>5. HeadRootsAgreeWithTheTree
      BY DEF Init, HeadRootsAgreeWithTheTree
<1> QED
      BY <1>2, <1>3, <1>4, <1>5 DEF TreeInv

LEMMA FailTree ==
  ASSUME TypeInv, TreeInv, NEW w \in Workers, Fail(w) \/ TreeConflict(w)
  PROVE  TreeInv'
<1>1. StepOf(w) /\ tx'[w] = IdleTx
      BY FailStep
<1>2. IdleTx.nodes_new = {} /\ DOMAIN IdleTx.heads = {} /\ IdleTx.pc # "tree_heads"
      BY DEF IdleTx
<1>3. TreeTx(tx'[w], deletions, nodes)
      BY <1>1, <1>2, IdleTree
<1> QED
      BY <1>1, <1>2, <1>3, StepKeepsTree

LEMMA BeginTree ==
  ASSUME TypeInv, TreeInv, NEW w \in Workers, Begin(w)
  PROVE  TreeInv'
<1> DEFINE u == tx'[w]
           i == IdleTx
<1>1. StepOf(w) /\ u.pc = "heads" /\ Same(i, u, {"pc", "id", "todo"})
      BY BeginStep
<1>2. i.nodes_new = {} /\ DOMAIN i.heads = {}
      BY DEF IdleTx
<1> HIDE DEF u, i
<1>3. u.nodes_new = {} /\ DOMAIN u.heads = {}
      BY <1>1, <1>2 DEF Same, Fields
<1>4. TreeTx(u, deletions, nodes)
      BY <1>1, <1>3, IdleTree
<1> QED
      BY <1>1, <1>3, <1>4, StepKeepsTree DEF u

LEMMA UpsertHeadTree ==
  ASSUME TypeInv, TreeInv, NEW w \in Workers, UpsertHead(w)
  PROVE  TreeInv'
<1> DEFINE t == tx[w]
           u == tx'[w]
           r == Head(t.todo)
           k == r.span
           old == HeadsOf(w)[k]
           updated == old = None \/ old.at =< r.at
           new == [parent |-> r.parent, thread |-> r.thread, group |-> r.group,
                   start |-> r.start, at |-> r.at, root |-> RootLocator(w, r),
                   marked |-> FALSE]
           h == IF updated THEN new ELSE old
           traces == IF updated THEN t.traces \cup {TraceOf[r.span]} ELSE t.traces
           P == AfterHeads(Tail(t.todo), traces)
<1>1. /\ StepOf(w) /\ t.pc = "heads" /\ r.op = "write"
      /\ u.pc = P /\ u.traces = traces
      /\ u.heads = With(t.heads, k, h)
      /\ Same(t, u, {"pc", "todo", "traces", "heads"})
      BY UpsertHeadStep, Zenon
<1>2. TxOK(t, heads) /\ w \in conns /\ heads \in [Spans -> RunHead \cup {None}]
      BY <1>1 DEF TypeInv, StepOf
<1>3. t.todo \in Seq(WriteOp) \cup Seq(DeleteOp) /\ t.todo # <<>>
      BY <1>1, <1>2 DEF TxOK
<1>4. k \in Spans
      BY <1>1, <1>3, RecordsLeft
<1>5. TreeTx(t, deletions, nodes)
      BY <1>2 DEF TreeInv
<1>6. P \in {"heads", "tree", "commit"} /\ (P = "commit" => traces = {})
      BY AfterHeadsIs, Zenon
<1>7. old = IF k \in DOMAIN t.heads THEN t.heads[k] ELSE heads[k]
      BY <1>2, <1>4, HeadsSeen DEF HeadsOf
<1>8. t.traces \subseteq traces /\ (updated => TraceOf[k] \in traces) /\ (~updated => h = old /\ old # None)
      OBVIOUS
<1> HIDE DEF t, u, h, traces, P, k, old, updated
<1>9. /\ u.nodes_new = t.nodes_new /\ u.nodes_gone = t.nodes_gone /\ u.deletions = t.deletions
      BY <1>1 DEF Same, Fields
<1>10. DOMAIN u.heads = DOMAIN t.heads \cup {k} /\ \A s \in DOMAIN u.heads : u.heads[s] = IF s = k THEN h ELSE t.heads[s]
      BY <1>1 DEF With
<1>11. ASSUME NEW m \in Seen(t, nodes), m.node.span \in DOMAIN u.heads PROVE Settled(u, deletions, m)
  <2> DEFINE s == m.node.span
  <2>1. CASE TraceOf[s] \in traces
        BY <1>1, <1>6, <2>1 DEF Settled
  <2>2. CASE TraceOf[s] \notin traces /\ s \in DOMAIN t.heads
    <3>1. Agrees(t, deletions, m)
          BY <1>1, <1>5, <1>8, <2>2 DEF TreeTx, Settled
    <3>2. u.heads[s] = t.heads[s]
          BY <1>7, <1>8, <1>10, <2>2
    <3>3. Agrees(u, deletions, m)
          BY <1>9, <3>1, <3>2, Zenon DEF Agrees
    <3> QED
          BY <3>3 DEF Settled
  <2>3. CASE TraceOf[s] \notin traces /\ s \notin DOMAIN t.heads
    <3>1. s = k /\ ~updated
          BY <1>8, <1>10, <1>11, <2>3
    <3>2. u.heads[s] = heads[s] /\ heads[s] # None /\ s \in Spans
          BY <1>4, <1>7, <1>8, <1>10, <1>11, <2>3, <3>1
    <3>3. m \notin t.nodes_new
          BY <1>1, <1>5, <2>3 DEF TreeTx
    <3>4. m \in nodes
          BY <3>3 DEF Seen
    <3>5. s \in Visible(heads, deletions) => heads[s].root = m.node.root
          BY <3>4 DEF TreeInv, HeadRootsAgreeWithTheTree
    <3>6. s \in deletions \/ heads[s].marked \/ heads[s].root = m.node.root
          BY <3>2, <3>5, Zenon DEF Visible
    <3>7. Agrees(u, deletions, m)
          BY <3>2, <3>6, Zenon DEF Agrees
    <3> QED
          BY <3>7 DEF Settled
  <2> QED
        BY <2>1, <2>2, <2>3
<1>12. TreeTx(u, deletions, nodes)
  <2>1. u.pc # "tree_heads" /\ t.pc # "tree_heads"
        BY <1>1, <1>6
  <2> QED
        BY <1>5, <1>9, <1>10, <1>11, <2>1, TreeTxKept
<1> QED
      BY <1>1, <1>2, <1>9, <1>12, StepKeepsTree, NoNewNodesApart DEF t, u

LEMMA DeleteHeadTree ==
  ASSUME TypeInv, RollupsInv, TreeInv, NEW w \in Workers, DeleteHead(w)
  PROVE  TreeInv'
<1> DEFINE t == tx[w]
           u == tx'[w]
           r == Head(t.todo)
           k == r.span
           old == HeadsOf(w)[k]
           found == old # None /\ ~old.marked
           h == [old EXCEPT !.marked = TRUE, !.at = r.at]
           traces == IF found THEN {TraceOf[k]} ELSE {}
           P == AfterHeads(Tail(t.todo), traces)
<1>1. /\ StepOf(w) /\ t.pc = "heads" /\ r.op = "delete"
      /\ u.pc = P
      /\ u.heads = IF found THEN With(t.heads, k, h) ELSE t.heads
      /\ u.deletions = IF found THEN t.deletions \cup {k} ELSE t.deletions
      /\ Same(t, u, {"pc", "todo", "traces", "heads", "deletions"})
      BY DeleteHeadStep, Zenon
<1>2. TxOK(t, heads) /\ w \in conns
      BY <1>1 DEF TypeInv, StepOf
<1>3. t.todo \in Seq(WriteOp) \cup Seq(DeleteOp) /\ t.todo # <<>>
      BY <1>1, <1>2 DEF TxOK
<1>4. t.todo \in Seq(DeleteOp)
      BY <1>1, <1>3, RecordsLeft
<1>5. t.traces = {}
      BY <1>1, <1>2, <1>4 DEF RollupsInv, RollupsTx
<1>6. TreeTx(t, deletions, nodes)
      BY <1>2 DEF TreeInv
<1>7. P \in {"heads", "tree", "commit"}
      BY AfterHeadsIs, Zenon
<1> HIDE DEF t, u, h, traces, P, k, old, found
<1>8. u.nodes_new = t.nodes_new /\ u.nodes_gone = t.nodes_gone
      BY <1>1 DEF Same, Fields
<1>9. /\ DOMAIN t.heads \subseteq DOMAIN u.heads
      /\ \A s \in DOMAIN u.heads : (s \in DOMAIN t.heads /\ u.heads[s] = t.heads[s]) \/ s \in u.deletions
      /\ t.deletions \subseteq u.deletions
      BY <1>1 DEF With
<1>10. ASSUME NEW m \in Seen(t, nodes), m.node.span \in DOMAIN u.heads PROVE Settled(u, deletions, m)
  <2> DEFINE s == m.node.span
  <2>1. CASE s \in u.deletions
    <3>1. Agrees(u, deletions, m)
          BY <2>1, Zenon DEF Agrees
    <3> QED
          BY <3>1 DEF Settled
  <2>2. CASE s \in DOMAIN t.heads /\ u.heads[s] = t.heads[s]
    <3>1. Agrees(t, deletions, m)
          BY <1>1, <1>5, <1>6, <2>2 DEF TreeTx, Settled
    <3>2. s \in deletions \cup t.deletions => s \in deletions \cup u.deletions
          BY <1>9
    <3>3. Agrees(u, deletions, m)
          BY <2>2, <3>1, <3>2, Zenon DEF Agrees
    <3> QED
          BY <3>3 DEF Settled
  <2> QED
        BY <1>9, <1>10, <2>1, <2>2
<1>11. TreeTx(u, deletions, nodes)
  <2>1. u.pc # "tree_heads" /\ t.pc # "tree_heads"
        BY <1>1, <1>7
  <2> QED
        BY <1>6, <1>8, <1>9, <1>10, <2>1, TreeTxKept
<1> QED
      BY <1>1, <1>2, <1>8, <1>11, StepKeepsTree, NoNewNodesApart DEF t, u

\* A step that changes no nodes, heads or traces, and leaves no node behind.
LEMMA MoveTree ==
  ASSUME TypeInv, TreeInv, NEW w \in Workers, StepOf(w), NEW changed, Same(tx[w], tx'[w], changed),
         changed \cap {"nodes_new", "nodes_gone", "heads", "deletions", "traces"} = {},
         tx[w].pc \notin {"tree_lock", "tree_heads"}, tx'[w].pc # "tree_heads",
         tx[w].pc \in {"heads", "tree", "tree_delete"} => tx'[w].pc \in {"heads", "tree", "tree_delete"}
  PROVE  TreeInv'
<1>1. w \in conns
      BY DEF StepOf
<1>2. TreeTx(tx[w], deletions, nodes)
      BY <1>1 DEF TreeInv
<1>3. TreeTx(tx'[w], deletions, nodes)
      BY <1>2, TreeTxMoves
<1>4. tx'[w].nodes_new = tx[w].nodes_new
  <2>1. "nodes_new" \in Fields \ changed
        BY DEF Fields
  <2> QED
        BY <2>1 DEF Same
<1> QED
      BY <1>1, <1>3, <1>4, StepKeepsTree, NoNewNodesApart

LEMMA TreeSelectTree ==
  ASSUME TypeInv, TreeInv, NEW w \in Workers, TreeSelect(w)
  PROVE  TreeInv'
<1> DEFINE F == {"pc", "rows"}
<1>1. StepOf(w) /\ tx[w].pc = "tree" /\ tx'[w].pc = "tree_delete" /\ Same(tx[w], tx'[w], F)
      BY TreeSelectStep, Zenon
<1>2. F \cap {"nodes_new", "nodes_gone", "heads", "deletions", "traces"} = {}
      OBVIOUS
<1> HIDE DEF F
<1> QED
      BY <1>1, <1>2, MoveTree

LEMMA ThreadsTree ==
  ASSUME TypeInv, TreeInv, NEW w \in Workers,
         ThreadDelete(w) \/ ThreadLock(w) \/ ThreadUpsert(w) \/ SummaryRead(w) \/ SummaryWrite(w)
  PROVE  TreeInv'
<1>1. /\ StepOf(w) /\ tx[w].pc \in ThreadPcs /\ tx'[w].pc \in ThreadPcs
      /\ Same(tx[w], tx'[w], ThreadFields)
      BY ThreadDeleteIs, ThreadLockIs, ThreadUpsertIs, SummaryReadIs, SummaryWriteIs
<1>2. ThreadFields \cap {"nodes_new", "nodes_gone", "heads", "deletions", "traces"} = {}
      BY DEF ThreadFields
<1>3. /\ tx[w].pc \notin {"tree_lock", "tree_heads"} /\ tx'[w].pc # "tree_heads"
      /\ tx[w].pc \notin {"heads", "tree", "tree_delete"}
      BY <1>1 DEF ThreadPcs
<1> QED
      BY <1>1, <1>2, <1>3, MoveTree

LEMMA StatsTree ==
  ASSUME TypeInv, TreeInv, NEW w \in Workers, StatsUpsert(w) \/ RefreshRollups(w)
  PROVE  TreeInv'
<1>1. CASE StatsUpsert(w)
  <2> DEFINE F == {"pc", "stats"}
  <2>1. StepOf(w) /\ tx[w].pc = "stats" /\ tx'[w].pc = "rollups" /\ Same(tx[w], tx'[w], F)
        BY <1>1, StatsUpsertStep, Zenon
  <2>2. F \cap {"nodes_new", "nodes_gone", "heads", "deletions", "traces"} = {}
        OBVIOUS
  <2> HIDE DEF F
  <2> QED
        BY <2>1, <2>2, MoveTree
<1>2. CASE RefreshRollups(w)
  <2> DEFINE F == {"rollups", "pc"}
             P == AfterHeads(tx[w].todo, {})
  <2>1. StepOf(w) /\ tx[w].pc = "rollups" /\ tx'[w].pc = P /\ Same(tx[w], tx'[w], F)
        BY <1>2, RefreshRollupsStep, Zenon
  <2>2. P # "tree_heads"
        BY AfterHeadsIs, Zenon
  <2>3. F \cap {"nodes_new", "nodes_gone", "heads", "deletions", "traces"} = {}
        OBVIOUS
  <2> HIDE DEF F, P
  <2> QED
        BY <2>1, <2>2, <2>3, MoveTree
<1> QED
      BY <1>1, <1>2

\* The nodes to be deleted are all there are of the trace.
LEMMA TreeDeleteTree ==
  ASSUME TypeInv, TreeInv, NEW w \in Workers, TreeDelete(w)
  PROVE  TreeInv'
<1> DEFINE t == tx[w]
           u == tx'[w]
<1>1. /\ StepOf(w) /\ t.pc = "tree_delete" /\ u.pc = "tree_lock"
      /\ u.victims = {n \in NodesOf(w) : n.trace = Trace(w)}
      /\ Same(t, u, {"pc", "victims"})
      BY TreeDeleteStep, Zenon
<1>2. w \in conns
      BY <1>1 DEF StepOf
<1>3. TreeTx(t, deletions, nodes)
      BY <1>2 DEF TreeInv
<1>4. \A n \in Seen(t, nodes) : NodeOK(n) /\ n \in NodesOf(w)
      BY SeenNodes
<1>5. Trace(w) = Min(t.traces)
      BY DEF Trace
<1> HIDE DEF t, u
<1>6. /\ u.nodes_new = t.nodes_new /\ u.nodes_gone = t.nodes_gone /\ u.deletions = t.deletions
      /\ u.heads = t.heads /\ u.traces = t.traces
      BY <1>1 DEF Same, Fields
<1>7. ASSUME NEW m \in Seen(t, nodes), m.node.span \in DOMAIN u.heads PROVE Settled(u, deletions, m)
  <2>1. Settled(t, deletions, m)
        BY <1>3, <1>6, <1>7 DEF TreeTx
  <2>2. Agrees(t, deletions, m) => Agrees(u, deletions, m)
        BY <1>6, Zenon DEF Agrees
  <2>3. TraceOf[m.node.span] = Min(u.traces) => m \in u.victims
        BY <1>1, <1>4, <1>5, <1>6 DEF NodeOK
  <2> QED
        BY <1>1, <1>6, <2>1, <2>2, <2>3 DEF Settled
<1>8. TreeTx(u, deletions, nodes)
      BY <1>1, <1>3, <1>6, <1>7, TreeTxKept
<1> QED
      BY <1>1, <1>2, <1>6, <1>8, StepKeepsTree, NoNewNodesApart DEF t, u

LEMMA TreeLockTree ==
  ASSUME TypeInv, TreeInv, NEW w \in Workers, TreeLock(w)
  PROVE  TreeInv'
<1> DEFINE t == tx[w]
           u == tx'[w]
<1>1. /\ StepOf(w) /\ t.pc = "tree_lock" /\ u.pc = "tree_insert"
      /\ u.nodes_gone = t.nodes_gone \cup (t.victims \cap nodes)
      /\ u.nodes_new = t.nodes_new \ t.victims
      /\ Same(t, u, {"pc", "victims", "nodes_gone", "nodes_new"})
      BY TreeLockStep, Zenon
<1>2. w \in conns
      BY <1>1 DEF StepOf
<1>3. TreeTx(t, deletions, nodes)
      BY <1>2 DEF TreeInv
<1> HIDE DEF t, u
<1>4. u.deletions = t.deletions /\ u.heads = t.heads /\ u.traces = t.traces
      BY <1>1 DEF Same, Fields
<1>5. \A m \in Seen(u, nodes) : m \in Seen(t, nodes) /\ m \notin t.victims
      BY <1>1 DEF Seen
<1>6. ASSUME NEW m \in Seen(u, nodes), m.node.span \in DOMAIN u.heads PROVE Settled(u, deletions, m)
  <2>1. Settled(t, deletions, m) /\ m \notin t.victims
        BY <1>3, <1>4, <1>5, <1>6 DEF TreeTx
  <2>2. Agrees(t, deletions, m) => Agrees(u, deletions, m)
        BY <1>4, Zenon DEF Agrees
  <2> QED
        BY <1>1, <1>4, <2>1, <2>2 DEF Settled
<1>7. \A n \in u.nodes_new : n \in t.nodes_new /\ n.node.span \in DOMAIN u.heads
      BY <1>1, <1>3, <1>4 DEF TreeTx
<1>8. TreeTx(u, deletions, nodes)
  <2>1. \A m \in u.nodes_new, n \in Seen(u, nodes) : SameNode(m, n) => m = n
        BY <1>3, <1>5, <1>7 DEF TreeTx
  <2> QED
        BY <1>1, <1>6, <1>7, <2>1 DEF TreeTx
<1>9. tx'[w].nodes_new \subseteq tx[w].nodes_new
      BY <1>7 DEF t, u
<1> QED
      BY <1>1, <1>2, <1>8, <1>9, StepKeepsTree, NoNewNodesApart DEF u

LEMMA TreeInsertTree ==
  ASSUME TypeInv, TreeInv, NEW w \in Workers, TreeInsert(w)
  PROVE  TreeInv'
<1> DEFINE t == tx[w]
           u == tx'[w]
<1>1. /\ StepOf(w) /\ t.pc = "tree_insert" /\ u.pc = "tree_heads"
      /\ \A m, n \in t.rows : SameNode(m, n) => m = n
      /\ \A n \in t.rows : \A m \in NodesOf(w) : ~SameNode(m, n)
      /\ \A n \in t.rows : \A v \in Others(w) : \A m \in tx[v].nodes_new : ~SameNode(m, n)
      /\ u.nodes_new = t.nodes_new \cup t.rows
      /\ Same(t, u, {"pc", "nodes_new"})
      BY TreeInsertStep, Zenon
<1>2. w \in conns
      BY <1>1 DEF StepOf
<1>3. TreeTx(t, deletions, nodes)
      BY <1>2 DEF TreeInv
<1>4. NodesOf(w) = Seen(t, nodes)
      BY SeenNodes
<1>5. ASSUME NEW v \in Others(w), NEW m \in u.nodes_new, NEW n \in tx[v].nodes_new
      PROVE  ~SameNode(m, n)
  <2>1. CASE m \in t.nodes_new
        BY <1>2, <2>1, Zenon DEF TreeInv, Others
  <2>2. CASE m \in t.rows
    <3>1. ~SameNode(n, m)
          BY <1>1, <2>2
    <3> QED
          BY <3>1 DEF SameNode
  <2> QED
        BY <1>1, <2>1, <2>2
<1> HIDE DEF t, u
<1>6. /\ u.deletions = t.deletions /\ u.heads = t.heads /\ u.traces = t.traces /\ u.rows = t.rows
      /\ u.nodes_gone = t.nodes_gone
      BY <1>1 DEF Same, Fields
<1>7. \A m : m \in Seen(u, nodes) <=> m \in Seen(t, nodes) \/ m \in t.rows
      BY <1>1, <1>6 DEF Seen
<1>8. ASSUME NEW m \in Seen(u, nodes), m.node.span \in DOMAIN u.heads PROVE Settled(u, deletions, m)
  <2>1. CASE m \in t.rows
        BY <1>1, <1>6, <2>1 DEF Settled
  <2>2. CASE m \in Seen(t, nodes)
    <3>1. Settled(t, deletions, m)
          BY <1>3, <1>6, <1>8, <2>2 DEF TreeTx
    <3>2. Agrees(t, deletions, m) => Agrees(u, deletions, m)
          BY <1>6, Zenon DEF Agrees
    <3> QED
          BY <1>1, <1>6, <3>1, <3>2 DEF Settled
  <2> QED
        BY <1>7, <1>8, <2>1, <2>2
<1>9. ASSUME NEW m \in u.nodes_new, NEW n \in Seen(u, nodes), SameNode(m, n) PROVE m = n
  <2>1. t.nodes_new \subseteq Seen(t, nodes)
        BY DEF Seen
  <2>2. SameNode(n, m)
        BY <1>9 DEF SameNode
  <2>3. CASE m \in t.rows
        BY <1>1, <1>4, <1>7, <1>9, <2>2, <2>3
  <2>4. CASE m \in t.nodes_new
    <3>1. n \notin t.rows
          BY <1>1, <1>4, <1>9, <2>1, <2>4
    <3>2. n \in Seen(t, nodes)
          BY <1>7, <3>1
    <3> QED
          BY <1>3, <1>9, <2>4, <3>2 DEF TreeTx
  <2> QED
        BY <1>1, <2>3, <2>4
<1>10. \A n \in u.nodes_new : n.node.span \in DOMAIN u.heads \/ n \in u.rows
      BY <1>1, <1>3, <1>6 DEF TreeTx
<1>11. TreeTx(u, deletions, nodes)
      BY <1>1, <1>6, <1>8, <1>9, <1>10 DEF TreeTx
<1> QED
      BY <1>1, <1>5, <1>11, StepKeepsTree DEF u

LEMMA TreeHeadsTree ==
  ASSUME TypeInv, TreeInv, NEW w \in Workers, TreeHeads(w)
  PROVE  TreeInv'
<1> DEFINE t == tx[w]
           u == tx'[w]
           mine == {n.node.span : n \in t.rows}
<1>1. /\ StepOf(w) /\ t.pc = "tree_heads" /\ u.pc = "thread_delete"
      /\ DOMAIN u.heads = DOMAIN t.heads \cup mine
      /\ \A s \in DOMAIN t.heads \ mine : u.heads[s] = t.heads[s]
      /\ \A s \in mine : \E n \in t.rows : n.node.span = s /\ u.heads[s].root = n.node.root
      /\ Same(t, u, {"pc", "rows", "heads"})
      BY TreeHeadsIs, Zenon
<1>2. w \in conns
      BY <1>1 DEF StepOf
<1>3. TreeTx(t, deletions, nodes)
      BY <1>2 DEF TreeInv
<1>4. \A n \in t.rows : n.node.span \in mine
      OBVIOUS
<1> HIDE DEF t, u, mine
<1>5. /\ u.deletions = t.deletions /\ u.traces = t.traces
      /\ u.nodes_gone = t.nodes_gone /\ u.nodes_new = t.nodes_new
      BY <1>1 DEF Same, Fields
<1>6. Seen(u, nodes) = Seen(t, nodes) /\ t.rows \subseteq t.nodes_new
      BY <1>1, <1>3, <1>5 DEF Seen, TreeTx
<1>7. ASSUME NEW m \in Seen(t, nodes), m.node.span \in DOMAIN u.heads PROVE Settled(u, deletions, m)
  <2> DEFINE s == m.node.span
  <2>1. CASE s \in mine
    <3>1. PICK n \in t.rows : n.node.span = s /\ u.heads[s].root = n.node.root
          BY <1>1, <2>1
    <3>2. n = m
      <4>1. SameNode(n, m) /\ n \in t.nodes_new
            BY <1>6, <3>1 DEF SameNode
      <4> QED
            BY <1>3, <4>1 DEF TreeTx
    <3>3. Agrees(u, deletions, m)
          BY <3>1, <3>2, Zenon DEF Agrees
    <3> QED
          BY <3>3 DEF Settled
  <2>2. CASE s \notin mine
    <3>1. s \in DOMAIN t.heads /\ u.heads[s] = t.heads[s] /\ m \notin t.rows
          BY <1>1, <1>4, <1>7, <2>2
    <3>2. Settled(t, deletions, m)
          BY <1>3, <3>1 DEF TreeTx
    <3>3. Agrees(t, deletions, m) => Agrees(u, deletions, m)
          BY <1>5, <3>1, Zenon DEF Agrees
    <3> QED
          BY <1>1, <1>5, <3>1, <3>2, <3>3 DEF Settled
  <2> QED
        BY <2>1, <2>2
<1>8. TreeTx(u, deletions, nodes)
  <2>1. \A n \in u.nodes_new : n.node.span \in DOMAIN u.heads
        BY <1>1, <1>3, <1>4, <1>5 DEF TreeTx
  <2> QED
        BY <1>1, <1>3, <1>5, <1>6, <1>7, <2>1 DEF TreeTx
<1> QED
      BY <1>1, <1>2, <1>5, <1>8, StepKeepsTree, NoNewNodesApart DEF t, u

LEMMA TraceDoneTree ==
  ASSUME TypeInv, TreeInv, NEW w \in Workers, TraceDone(w)
  PROVE  TreeInv'
<1> DEFINE t == tx[w]
           u == tx'[w]
           left == t.traces \ {Trace(w)}
<1>1. /\ StepOf(w) /\ t.pc = "thread_upsert" /\ u.traces = left
      /\ u.pc = IF left = {} THEN "stats" ELSE "tree"
      /\ Same(t, u, {"traces", "pc"})
      BY TraceDoneStep, Zenon
<1>2. w \in conns
      BY <1>1 DEF StepOf
<1>3. TreeTx(t, deletions, nodes)
      BY <1>2 DEF TreeInv
<1>4. left = t.traces \ {Min(t.traces)}
      BY DEF Trace
<1> HIDE DEF t, u, left
<1>5. /\ u.deletions = t.deletions /\ u.heads = t.heads
      /\ u.nodes_gone = t.nodes_gone /\ u.nodes_new = t.nodes_new
      BY <1>1 DEF Same, Fields
<1>6. ASSUME NEW m \in Seen(t, nodes), m.node.span \in DOMAIN u.heads PROVE Settled(u, deletions, m)
  <2>1. Settled(t, deletions, m)
        BY <1>3, <1>5, <1>6 DEF TreeTx
  <2>2. CASE Agrees(t, deletions, m)
    <3>1. Agrees(u, deletions, m)
          BY <1>5, <2>2, Zenon DEF Agrees
    <3> QED
          BY <3>1 DEF Settled
  <2>3. CASE ~Agrees(t, deletions, m)
    <3>1. TraceOf[m.node.span] \in left
          BY <1>1, <1>4, <2>1, <2>3 DEF Settled
    <3> QED
          BY <1>1, <3>1 DEF Settled
  <2> QED
        BY <2>2, <2>3
<1>7. TreeTx(u, deletions, nodes)
  <2>1. t.pc # "tree_heads" /\ u.pc # "tree_heads"
        BY <1>1
  <2> QED
        BY <1>3, <1>5, <1>6, <2>1, TreeTxKept
<1> QED
      BY <1>1, <1>2, <1>5, <1>7, StepKeepsTree, NoNewNodesApart DEF t, u

LEMMA CommitTree ==
  ASSUME TypeInv, RollupsInv, TreeInv, NEW w \in Workers, Commit(w)
  PROVE  TreeInv'
<1> DEFINE t == tx[w]
<1>1. /\ w \in conns /\ t.pc = "commit"
      /\ \A s \in Spans : heads'[s] = IF s \in DOMAIN t.heads THEN t.heads[s] ELSE heads[s]
      /\ deletions' = deletions \cup t.deletions
      /\ nodes' = (nodes \ t.nodes_gone) \cup t.nodes_new
      /\ tx'[w] = IdleTx
      /\ \A v \in Workers \ {w} : tx'[v] = tx[v]
      /\ conns' = conns
      BY CommitStep
<1>2. TreeTx(t, deletions, nodes) /\ t.traces = {}
      BY <1>1 DEF TreeInv, RollupsInv, RollupsTx
<1>3. \A v \in conns \ {w} : /\ tx'[v] = tx[v] /\ TreeTx(tx[v], deletions, nodes)
                             /\ DOMAIN t.heads \cap DOMAIN tx[v].heads = {}
      BY <1>1, ConnsAreWorkers, Zenon DEF TreeInv, RollupsInv
<1>4. \A v \in conns \ {w} : \A m \in t.nodes_new, n \in tx[v].nodes_new : ~SameNode(m, n)
      BY <1>1, Zenon DEF TreeInv
<1>5. IdleTx.nodes_new = {} /\ DOMAIN IdleTx.heads = {} /\ IdleTx.pc # "tree_heads"
      BY DEF IdleTx
<1>6. ASSUME NEW v \in conns, NEW x \in conns, v # x,
             NEW m \in tx'[v].nodes_new, NEW n \in tx'[x].nodes_new
      PROVE  ~SameNode(m, n)
  <2>1. CASE v = w \/ x = w
        BY <1>1, <1>5, <1>6, <2>1
  <2>2. CASE v # w /\ x # w
    <3>1. tx'[v] = tx[v] /\ tx'[x] = tx[x]
          BY <1>3, <2>2
    <3> QED
          BY <1>6, <3>1, Zenon DEF TreeInv
  <2> QED
        BY <2>1, <2>2
<1>7. \A n \in t.nodes_new : n.node.span \in DOMAIN t.heads
      BY <1>1, <1>2 DEF TreeTx
<1>8. ASSUME NEW v \in conns PROVE TreeTx(tx'[v], deletions', nodes')
  <2>1. CASE v = w
        BY <1>1, <1>5, <2>1, IdleTree
  <2>2. CASE v # w
    <3> DEFINE q == tx[v]
    <3>1. /\ TreeTx(q, deletions, nodes) /\ DOMAIN t.heads \cap DOMAIN q.heads = {}
          /\ \A m \in t.nodes_new, n \in q.nodes_new : ~SameNode(m, n)
          BY <1>3, <1>4, <2>2
    <3> HIDE DEF q, t
    <3>2. \A m \in Seen(q, nodes') : m \in Seen(q, nodes) \/ m \in t.nodes_new
          BY <1>1 DEF Seen
    <3>3. ASSUME NEW m \in q.nodes_new, NEW n \in Seen(q, nodes'), SameNode(m, n) PROVE m = n
      <4>1. n \notin t.nodes_new
            BY <3>1, <3>3 DEF SameNode
      <4> QED
            BY <3>1, <3>2, <3>3, <4>1 DEF TreeTx
    <3>4. ASSUME NEW m \in Seen(q, nodes'), m.node.span \in DOMAIN q.heads PROVE Settled(q, deletions', m)
      <4>1. m \notin t.nodes_new
            BY <1>7, <3>1, <3>4
      <4>2. Settled(q, deletions, m)
            BY <3>1, <3>2, <3>4, <4>1 DEF TreeTx
      <4>3. Agrees(q, deletions, m) => Agrees(q, deletions', m)
        <5>1. deletions \cup q.deletions \subseteq deletions' \cup q.deletions
              BY <1>1
        <5> QED
              BY <5>1, Zenon DEF Agrees
      <4> QED
            BY <4>2, <4>3 DEF Settled
    <3>5. TreeTx(q, deletions', nodes')
          BY <3>1, <3>3, <3>4 DEF TreeTx
    <3> QED
          BY <1>3, <2>2, <3>5 DEF q
  <2> QED
        BY <2>1, <2>2
<1>9. ASSUME NEW n \in nodes', n.node.span \in Visible(heads', deletions')
      PROVE  heads'[n.node.span].root = n.node.root
  <2> DEFINE s == n.node.span
  <2>1. s \in Spans /\ heads'[s] # None /\ s \notin deletions' /\ ~heads'[s].marked
        BY <1>9 DEF Visible
  <2>2. CASE s \in DOMAIN t.heads
    <3>1. n \in Seen(t, nodes)
          BY <1>1 DEF Seen
    <3>2. Agrees(t, deletions, n)
          BY <1>1, <1>2, <2>2, <3>1 DEF TreeTx, Settled
    <3>3. heads'[s] = t.heads[s] /\ s \notin deletions \cup t.deletions
          BY <1>1, <2>1, <2>2
    <3> QED
          BY <2>1, <3>2, <3>3, Zenon DEF Agrees
  <2>3. CASE s \notin DOMAIN t.heads
    <3>1. n \in nodes
          BY <1>1, <1>7, <2>3
    <3>2. heads'[s] = heads[s] /\ s \notin deletions
          BY <1>1, <2>1, <2>3
    <3>3. s \in Visible(heads, deletions)
          BY <2>1, <3>2, Zenon DEF Visible
    <3> QED
          BY <3>1, <3>2, <3>3 DEF TreeInv, HeadRootsAgreeWithTheTree
  <2> QED
        BY <2>2, <2>3
<1>10. HeadRootsAgreeWithTheTree'
      BY <1>9 DEF HeadRootsAgreeWithTheTree
<1> QED
      BY <1>1, <1>6, <1>8, <1>10, Zenon DEF TreeInv

LEMMA NextTree ==
  ASSUME TypeInv, RollupsInv, TreeInv, [Next]_vars
  PROVE  TreeInv'
<1>1. CASE Next
  <2>1. PICK w \in Workers :
          \/ Begin(w) \/ UpsertHead(w) \/ DeleteHead(w)
          \/ RefreshTraceTree(w) \/ RefreshTraceThreads(w)
          \/ StatsUpsert(w) \/ RefreshRollups(w)
          \/ Commit(w) \/ Fail(w)
        BY <1>1 DEF Next
  <2>2. CASE RefreshTraceTree(w)
        BY <2>2, TreeSelectTree, TreeDeleteTree, TreeLockTree, TreeInsertTree, FailTree,
           TreeHeadsTree DEF RefreshTraceTree
  <2>3. CASE RefreshTraceThreads(w)
        BY <2>3, ThreadsTree, TraceDoneTree DEF RefreshTraceThreads
  <2> QED
        BY <2>1, <2>2, <2>3, BeginTree, UpsertHeadTree, DeleteHeadTree, StatsTree,
           CommitTree, FailTree
<1>2. CASE UNCHANGED vars
  <2>1. conns' = conns /\ heads' = heads /\ deletions' = deletions /\ nodes' = nodes /\ tx' = tx
        BY <1>2 DEF vars
  <2> QED
        BY <2>1 DEF TreeInv, HeadRootsAgreeWithTheTree
<1> QED
      BY <1>1, <1>2

\* However transactions overlap, the root that run_heads has of a visible run in the
\* tree is the root of its node: whoever inserts a node of a run writes the head of the
\* run before it commits, and whoever writes a head rebuilds the tree of its trace or
\* finds that nothing changed.
THEOREM HeadRootsAgree ==
  Spec => []HeadRootsAgreeWithTheTree
<1>1. TypeInv /\ RollupsInv /\ TreeInv /\ [Next]_vars => TreeInv'
      BY NextTree
<1>2. TreeInv => HeadRootsAgreeWithTheTree
      BY DEF TreeInv
<1> QED
      BY <1>1, <1>2, InitTree, TypeInvHolds, RollupsInvHolds, PTL DEF Spec

=============================================================================
