------------------------ MODULE RunAggregatesProofs ------------------------
(***************************************************************************)
(* Proofs about RunAggregates, for any projects, runs, stores, feedback,   *)
(* callers, queries and sizes of partitions: a scan that answers has read  *)
(* the rows of its plan and has counted each of them as often as it is in  *)
(* a group, rollups answer as a scan of the same moment would, and a call  *)
(* of insert_feedback that no other call overlaps leaves the feedback      *)
(* rollups of its projects right.                                          *)
(***************************************************************************)
EXTENDS RunAggregates, FiniteSetTheorems, FunctionTheorems, SequenceTheorems, WellFoundedInduction,
        TLAPS

(* Numbers. *)

\* Min is the least number of a set of natural numbers.
LEMMA MinIsLeast ==
  ASSUME NEW S \in SUBSET Nat, S # {}
  PROVE  Min(S) \in S /\ \A y \in S : Min(S) =< y
<1> DEFINE R == OpToRel(<, Nat)
<1>1. IsWellFoundedOn(R, Nat)
      BY NatLessThanWellFounded
<1> HIDE DEF R
<1>2. PICK x \in S : \A y \in S : ~(<<y, x>> \in R)
      BY <1>1, WFMin
<1>3. ASSUME NEW y \in S PROVE x =< y
  <2>1. x \in Nat /\ y \in Nat
        OBVIOUS
  <2>2. ~(y < x)
        BY <1>2, <2>1 DEF R, OpToRel
  <2> QED
        BY <2>1, <2>2
<1> QED
      BY <1>3 DEF Min

\* A set with 0 and the next number of each of its numbers has all numbers.
LEMMA NumbersByInduction ==
  ASSUME NEW A, 0 \in A, \A n \in Nat : n \in A => n + 1 \in A
  PROVE  \A n \in Nat : n \in A
<1> DEFINE R == OpToRel(<, Nat)
           B == Nat \ A
<1>1. IsWellFoundedOn(R, Nat)
      BY NatLessThanWellFounded
<1> HIDE DEF R
<1> SUFFICES ASSUME B # {} PROVE FALSE
      OBVIOUS
<1>2. PICK x \in B : \A y \in B : ~(<<y, x>> \in R)
      BY <1>1, WFMin
<1>3. x \in Nat /\ x # 0
      OBVIOUS
<1>4. x - 1 \in Nat /\ x - 1 < x /\ (x - 1) + 1 = x
      BY <1>3
<1>5. x - 1 \notin B
      BY <1>2, <1>3, <1>4 DEF R, OpToRel
<1> QED
      BY <1>3, <1>4, <1>5

\* Of heads in segments up to n there is one in the latest segment.
LEMMA LatestExists ==
  ASSUME NEW n \in Nat, NEW H, \A h \in H : h.seg \in 1..n, H # {}
  PROVE  \E h \in H : \A g \in H : g.seg =< h.seg
<1> DEFINE T == {n - h.seg : h \in H}
<1>1. T \in SUBSET Nat /\ T # {}
      OBVIOUS
<1> HIDE DEF T
<1>2. Min(T) \in T /\ \A y \in T : Min(T) =< y
      BY <1>1, MinIsLeast
<1>3. PICK h \in H : Min(T) = n - h.seg
      BY <1>2 DEF T
<1>4. ASSUME NEW g \in H PROVE g.seg =< h.seg
  <2>1. n - g.seg \in T
        BY DEF T
  <2> QED
        BY <2>1, <1>2, <1>3
<1> QED
      BY <1>4

----------------------------------------------------------------------------
(* Finite sets. *)

LEMMA OneLess ==
  ASSUME NEW S, IsFiniteSet(S), NEW x \in S, NEW n \in Nat, Cardinality(S) = n + 1
  PROVE  Cardinality(S \ {x}) = n
<1>1. Cardinality(S \ {x}) = Cardinality(S) - 1
      BY FS_RemoveElement
<1> QED
      BY <1>1

\* A collection with the empty set and, with each part of a finite set that it has,
\* that part and one more element, has the finite set.
LEMMA PartsByInduction ==
  ASSUME NEW S, IsFiniteSet(S), NEW A, {} \in A,
         \A T \in SUBSET S : \A x \in S \ T : T \in A => T \cup {x} \in A
  PROVE  S \in A
<1> DEFINE N == {n \in Nat : \A T \in SUBSET S : Cardinality(T) = n => T \in A}
<1>1. \A T \in SUBSET S : IsFiniteSet(T) /\ Cardinality(T) \in Nat
      BY FS_Subset, FS_CardinalityType
<1>2. 0 \in N
      BY <1>1, FS_EmptySet
<1>3. ASSUME NEW n \in Nat, n \in N PROVE n + 1 \in N
  <2> SUFFICES ASSUME NEW T \in SUBSET S, Cardinality(T) = n + 1 PROVE T \in A
        OBVIOUS
  <2>1. T # {}
    <3>1. Cardinality({}) = 0
          BY FS_EmptySet, Zenon
    <3>2. n + 1 # 0
          OBVIOUS
    <3> QED
          BY <3>1, <3>2
  <2>2. PICK x \in T : TRUE
        BY <2>1
  <2>3. Cardinality(T \ {x}) = n
        BY <1>1, OneLess
  <2>4. T \ {x} \in A /\ T \ {x} \in SUBSET S /\ x \in S \ (T \ {x})
        BY <1>3, <2>3
  <2>5. (T \ {x}) \cup {x} = T
        OBVIOUS
  <2> QED
        BY <2>4, <2>5
<1>4. Cardinality(S) \in N
      BY <1>1, <1>2, <1>3, NumbersByInduction
<1> QED
      BY <1>4

\* Sets in a one to one correspondence.
LEMMA SameSize ==
  ASSUME NEW S, IsFiniteSet(S), NEW T, NEW b \in Bijection(S, T)
  PROVE  IsFiniteSet(T) /\ Cardinality(T) = Cardinality(S)
BY FS_Bijection DEF ExistsBijection

----------------------------------------------------------------------------
(* Sums. *)

\* The sums of a function over the parts of its domain, taken in the order of CHOOSE.
First(s) == CHOOSE x \in s : TRUE
SumsOf(it, f) ==
  it = [s \in SUBSET DOMAIN f |-> IF s = {} THEN 0 ELSE f[First(s)] + it[s \ {First(s)}]]

LEMMA TotalIsASum ==
  ASSUME NEW f
  PROVE  Total(f) = (CHOOSE it : SumsOf(it, f))[DOMAIN f]
BY DEF Total, MapThenSumSet, MapThenFoldSet, SumsOf, First

LEMMA SumsExist ==
  ASSUME NEW S, IsFiniteSet(S), NEW f \in [S -> Int]
  PROVE  \E it \in [SUBSET S -> Int] : SumsOf(it, f)
<1> DEFINE Next1(g) == [s \in SUBSET S |-> IF s = {} THEN 0 ELSE f[First(s)] + g[s \ {First(s)}]]
           Upto(n, g) == /\ g \in [SUBSET S -> Int]
                         /\ \A s \in SUBSET S : Cardinality(s) =< n => g[s] = Next1(g)[s]
           N == {n \in Nat : \E g : Upto(n, g)}
<1>1. \A T \in SUBSET S : IsFiniteSet(T) /\ Cardinality(T) \in Nat
      BY FS_Subset, FS_CardinalityType
<1>2. \A s \in SUBSET S : s # {} => First(s) \in s
      BY DEF First
<1>3. \A g \in [SUBSET S -> Int] : Next1(g) \in [SUBSET S -> Int]
      BY <1>2
<1>4. 0 \in N
  <2>1. Upto(0, [s \in SUBSET S |-> 0])
    <3>1. \A s \in SUBSET S : Cardinality(s) =< 0 => s = {}
          BY <1>1, FS_EmptySet
    <3> QED
          BY <3>1
  <2> HIDE DEF Upto
  <2> QED
        BY <2>1
<1>5. ASSUME NEW n \in Nat, n \in N PROVE n + 1 \in N
  <2>1. PICK g : Upto(n, g)
        BY <1>5
  <2>2. g \in [SUBSET S -> Int] /\ \A s \in SUBSET S : Cardinality(s) =< n => g[s] = Next1(g)[s]
        BY <2>1
  <2> DEFINE h == Next1(g)
  <2>3. h \in [SUBSET S -> Int]
        BY <1>3, <2>2
  <2>4. ASSUME NEW s \in SUBSET S, Cardinality(s) =< n + 1 PROVE h[s] = Next1(h)[s]
    <3>1. CASE s = {}
          BY <3>1
    <3>2. CASE s # {}
      <4>1. First(s) \in s /\ s \ {First(s)} \in SUBSET S
            BY <1>2, <3>2
      <4>2. Cardinality(s \ {First(s)}) =< n
        <5>1. Cardinality(s \ {First(s)}) = Cardinality(s) - 1
              BY <1>1, <4>1, FS_RemoveElement
        <5> QED
              BY <1>1, <5>1, <2>4
      <4>3. g[s \ {First(s)}] = h[s \ {First(s)}]
            BY <2>2, <4>1, <4>2
      <4>4. h[s] = f[First(s)] + g[s \ {First(s)}]
            BY <3>2
      <4> HIDE DEF h
      <4> QED
            BY <3>2, <4>3, <4>4
    <3> QED
          BY <3>1, <3>2
  <2> HIDE DEF h, Next1
  <2>5. Upto(n + 1, h)
        BY <2>3, <2>4
  <2> HIDE DEF Upto
  <2> QED
        BY <2>5
<1>6. Cardinality(S) \in N
      BY <1>1, <1>4, <1>5, NumbersByInduction
<1>7. PICK g : Upto(Cardinality(S), g)
      BY <1>6
<1>8. \A s \in SUBSET S : g[s] = Next1(g)[s]
  <2>1. \A s \in SUBSET S : Cardinality(s) =< Cardinality(S)
        BY FS_Subset
  <2> HIDE DEF Next1
  <2> QED
        BY <1>7, <2>1
<1>9. g \in [SUBSET S -> Int] /\ Next1(g) \in [SUBSET S -> Int]
      BY <1>3, <1>7
<1>10. g = Next1(g)
  <2> HIDE DEF Next1
  <2> QED
        BY <1>8, <1>9
<1>11. DOMAIN f = S
       OBVIOUS
<1> QED
      BY <1>9, <1>10, <1>11 DEF SumsOf

LEMMA SumOfNothing ==
  ASSUME NEW f, NEW it, SumsOf(it, f)
  PROVE  it[{}] = 0
<1>1. {} \in SUBSET DOMAIN f
      OBVIOUS
<1> QED
      BY <1>1 DEF SumsOf

InAnyOrder(S, it, f) == \A s \in SUBSET S : \A x \in s : it[s] = f[x] + it[s \ {x}]

\* The sums over parts do not depend on the order.
LEMMA SumsInAnyOrder ==
  ASSUME NEW S, IsFiniteSet(S), NEW f \in [S -> Int], NEW it \in [SUBSET S -> Int], SumsOf(it, f)
  PROVE  InAnyOrder(S, it, f)
<1>1. \A T \in SUBSET S : IsFiniteSet(T) /\ Cardinality(T) \in Nat
      BY FS_Subset, FS_CardinalityType
<1>2. \A s \in SUBSET S : s # {} => First(s) \in s
      BY DEF First
<1>3. \A s \in SUBSET S : s # {} => it[s] = f[First(s)] + it[s \ {First(s)}]
      BY DEF SumsOf
<1> DEFINE N == {n \in Nat : \A s \in SUBSET S : Cardinality(s) = n =>
                               \A x \in s : it[s] = f[x] + it[s \ {x}]}
<1>4. 0 \in N
      BY <1>1, FS_EmptySet
<1>5. ASSUME NEW n \in Nat, n \in N PROVE n + 1 \in N
  <2> SUFFICES ASSUME NEW s \in SUBSET S, Cardinality(s) = n + 1, NEW x \in s
               PROVE  it[s] = f[x] + it[s \ {x}]
        OBVIOUS
  <2> DEFINE c == First(s)
  <2>1. c \in s /\ it[s] = f[c] + it[s \ {c}]
        BY <1>2, <1>3
  <2> HIDE DEF c
  <2>2. CASE x = c
        BY <2>1, <2>2
  <2>3. CASE x # c
    <3>1. Cardinality(s \ {c}) = n /\ Cardinality(s \ {x}) = n
          BY <1>1, <2>1, OneLess
    <3>2. s \ {c} \in SUBSET S /\ s \ {x} \in SUBSET S /\ x \in s \ {c} /\ c \in s \ {x}
          BY <2>1, <2>3
    <3>3. it[s \ {c}] = f[x] + it[(s \ {c}) \ {x}]
          BY <1>5, <3>1, <3>2
    <3>4. it[s \ {x}] = f[c] + it[(s \ {x}) \ {c}]
          BY <1>5, <3>1, <3>2
    <3> DEFINE r == (s \ {c}) \ {x}
    <3>5. (s \ {x}) \ {c} = r /\ r \in SUBSET S
          OBVIOUS
    <3>6. f[x] \in Int /\ f[c] \in Int /\ it[r] \in Int
          BY <2>1, <3>5
    <3>7. it[s] = f[c] + (f[x] + it[r]) /\ it[s \ {x}] = f[c] + it[r]
          BY <2>1, <3>3, <3>4, <3>5
    <3> HIDE DEF r
    <3> QED
          BY <3>6, <3>7
  <2> QED
        BY <2>2, <2>3
<1>6. \A n \in Nat : n \in N
      BY <1>4, <1>5, NumbersByInduction
<1> QED
      BY <1>1, <1>6 DEF InAnyOrder

AreSums(S, f, it) ==
  IsFiniteSet(S) /\ f \in [S -> Int] /\ it \in [SUBSET S -> Int] /\ SumsOf(it, f)
AgreeOn(T, g, f) == \A x \in T : g[x] = f[x]

\* The sums over the parts of a part are those of the function on the part.
LEMMA SumsOfAPart ==
  ASSUME NEW S, NEW f, NEW it, AreSums(S, f, it), NEW T, NEW g, NEW jt, AreSums(T, g, jt),
         T \in SUBSET S, AgreeOn(T, g, f)
  PROVE  jt[T] = it[T]
<1> USE DEF AreSums
<1> DEFINE A == {s \in SUBSET T : jt[s] = it[s]}
<1>1. IsFiniteSet(T)
      BY FS_Subset
<1>2. InAnyOrder(S, it, f)
      BY SumsInAnyOrder
<1>3. InAnyOrder(T, jt, g)
      BY <1>1, SumsInAnyOrder
<1>4. {} \in A
  <2>1. it[{}] = 0 /\ jt[{}] = 0
        BY SumOfNothing
  <2> QED
        BY <2>1
<1>5. ASSUME NEW s \in SUBSET T, NEW x \in T \ s, s \in A PROVE s \cup {x} \in A
  <2>1. s \cup {x} \in SUBSET S /\ s \cup {x} \in SUBSET T /\ (s \cup {x}) \ {x} = s
        OBVIOUS
  <2>2. it[s \cup {x}] = f[x] + it[(s \cup {x}) \ {x}]
        BY <1>2, <2>1 DEF InAnyOrder
  <2>3. jt[s \cup {x}] = g[x] + jt[(s \cup {x}) \ {x}]
        BY <1>3, <2>1 DEF InAnyOrder
  <2> QED
        BY <1>5, <2>1, <2>2, <2>3 DEF AgreeOn
<1>6. T \in A
      BY <1>1, <1>4, <1>5, PartsByInduction
<1> QED
      BY <1>6

LEMMA TotalIs ==
  ASSUME NEW S, IsFiniteSet(S), NEW f \in [S -> Int], NEW it \in [SUBSET S -> Int], SumsOf(it, f)
  PROVE  Total(f) = it[S]
<1> DEFINE jt == CHOOSE jt : SumsOf(jt, f)
<1>1. SumsOf(jt, f)
      OBVIOUS
<1>2. DOMAIN f = S /\ Total(f) = jt[S]
      BY TotalIsASum
<1> HIDE DEF jt
<1> DEFINE N == {n \in Nat : \A s \in SUBSET S : Cardinality(s) = n => jt[s] = it[s]}
<1>3. \A T \in SUBSET S : IsFiniteSet(T) /\ Cardinality(T) \in Nat
      BY FS_Subset, FS_CardinalityType
<1>4. jt[{}] = 0 /\ it[{}] = 0
      BY <1>1, SumOfNothing
<1>5. \A s \in SUBSET S : s # {} => /\ First(s) \in s
                                    /\ it[s] = f[First(s)] + it[s \ {First(s)}]
                                    /\ jt[s] = f[First(s)] + jt[s \ {First(s)}]
      BY <1>1, <1>2 DEF SumsOf, First
<1>6. 0 \in N
      BY <1>3, <1>4, FS_EmptySet
<1>7. ASSUME NEW n \in Nat, n \in N PROVE n + 1 \in N
  <2> SUFFICES ASSUME NEW s \in SUBSET S, Cardinality(s) = n + 1 PROVE jt[s] = it[s]
        OBVIOUS
  <2>1. CASE s = {}
        BY <2>1, <1>4
  <2>2. CASE s # {}
    <3>1. First(s) \in s
          BY <1>5, <2>2
    <3>2. Cardinality(s \ {First(s)}) = n
          BY <1>3, <3>1, OneLess
    <3>3. jt[s \ {First(s)}] = it[s \ {First(s)}]
          BY <1>7, <3>2
    <3> QED
          BY <1>5, <2>2, <3>3
  <2> QED
        BY <2>1, <2>2
<1>8. \A n \in Nat : n \in N
      BY <1>6, <1>7, NumbersByInduction
<1>9. S \in SUBSET S
      OBVIOUS
<1> QED
      BY <1>2, <1>3, <1>8, <1>9

Without(f, x) == [y \in DOMAIN f \ {x} |-> f[y]]

\* The sum of a function is a number; that of nothing is 0; any element may be taken out.
LEMMA SumProperties ==
  ASSUME NEW S, IsFiniteSet(S), NEW f \in [S -> Int]
  PROVE  /\ Total(f) \in Int
         /\ S = {} => Total(f) = 0
         /\ \A x \in S : Total(f) = f[x] + Total(Without(f, x))
<1>1. PICK it \in [SUBSET S -> Int] : SumsOf(it, f)
      BY SumsExist
<1>2. Total(f) = it[S]
      BY <1>1, TotalIs
<1>3. it[{}] = 0
      BY <1>1, SumOfNothing
<1>4. InAnyOrder(S, it, f)
      BY <1>1, SumsInAnyOrder
<1>5. ASSUME NEW x \in S PROVE Total(f) = f[x] + Total(Without(f, x))
  <2> DEFINE T == S \ {x}
             g == [y \in T |-> f[y]]
  <2>1. T \in SUBSET S /\ IsFiniteSet(T)
        BY FS_Subset
  <2>2. g \in [T -> Int]
        BY <2>1
  <2>3. PICK jt \in [SUBSET T -> Int] : SumsOf(jt, g)
        BY <2>1, <2>2, SumsExist
  <2>4. AgreeOn(T, g, f)
        BY DEF AgreeOn
  <2>5. jt[T] = it[T] /\ Total(g) = jt[T]
    <3> HIDE DEF g, T
    <3>1. AreSums(S, f, it) /\ AreSums(T, g, jt)
          BY <1>1, <2>1, <2>2, <2>3 DEF AreSums
    <3>2. jt[T] = it[T]
          BY <2>1, <2>4, <3>1, SumsOfAPart
    <3>3. Total(g) = jt[T]
          BY <2>1, <2>2, <2>3, TotalIs
    <3> QED
          BY <3>2, <3>3
  <2> QED
        BY <1>2, <1>4, <2>5 DEF InAnyOrder, Without
<1> QED
      BY <1>2, <1>3, <1>5

\* Finitely many finite sets that have nothing in common.
Apart(I, F) == /\ IsFiniteSet(I) /\ \A i \in I : IsFiniteSet(F[i])
               /\ \A i, j \in I : i # j => F[i] \cap F[j] = {}
AllOf(I, F) == UNION {F[i] : i \in I}

\* Their sizes add up.
LEMMA SizesAddUp ==
  ASSUME NEW I, NEW F, Apart(I, F)
  PROVE  /\ IsFiniteSet(AllOf(I, F))
         /\ Cardinality(AllOf(I, F)) = Total([i \in I |-> Cardinality(F[i])])
<1> USE DEF Apart
<1> DEFINE c(T) == [i \in T |-> Cardinality(F[i])]
           U(T) == UNION {F[i] : i \in T}
           A == {T \in SUBSET I : IsFiniteSet(U(T)) /\ Cardinality(U(T)) = Total(c(T))}
<1>1. \A i \in I : Cardinality(F[i]) \in Nat
      BY FS_CardinalityType
<1>2. ASSUME NEW T \in SUBSET I PROVE IsFiniteSet(T) /\ c(T) \in [T -> Int]
      BY <1>1, FS_Subset
<1>3. {} \in A
  <2>1. U({}) = {} /\ {} \in SUBSET I
        OBVIOUS
  <2>2. Total(c({})) = 0
        BY <1>2, <2>1, SumProperties
  <2> QED
        BY <2>1, <2>2, FS_EmptySet
<1>4. ASSUME NEW T \in SUBSET I, NEW x \in I \ T, T \in A PROVE T \cup {x} \in A
  <2> DEFINE W == T \cup {x}
  <2>1. W \in SUBSET I /\ x \in W /\ W \ {x} = T
        OBVIOUS
  <2>2. U(W) = U(T) \cup F[x] /\ U(T) \cap F[x] = {}
    <3>1. U(W) = U(T) \cup F[x]
          BY Zenon
    <3>2. \A i \in T : F[i] \cap F[x] = {}
          BY <2>1
    <3> QED
          BY <3>1, <3>2
  <2>3. Total(c(W)) = c(W)[x] + Total(Without(c(W), x))
    <3>1. IsFiniteSet(W) /\ c(W) \in [W -> Int]
          BY <1>2, <2>1
    <3> HIDE DEF c, W
    <3> QED
          BY <2>1, <3>1, SumProperties
  <2>4. Without(c(W), x) = c(T)
        BY <2>1 DEF Without
  <2>5. c(W)[x] = Cardinality(F[x])
        OBVIOUS
  <2>6. IsFiniteSet(U(W)) /\ Cardinality(U(W)) = Cardinality(U(T)) + Cardinality(F[x])
    <3>1. IsFiniteSet(U(T)) /\ IsFiniteSet(F[x])
          BY <1>4
    <3>2. Cardinality(U(T)) \in Nat /\ Cardinality(F[x]) \in Nat
          BY <3>1, FS_CardinalityType
    <3>3. Cardinality(U(T) \cap F[x]) = 0
          BY <2>2, FS_EmptySet
    <3> HIDE DEF U, W
    <3>4. /\ IsFiniteSet(U(T) \cup F[x])
          /\ Cardinality(U(T) \cup F[x]) = Cardinality(U(T)) + Cardinality(F[x]) - Cardinality(U(T) \cap F[x])
          BY <3>1, FS_Union
    <3> QED
          BY <2>2, <3>2, <3>3, <3>4
  <2>7. Cardinality(U(T)) = Total(c(T)) /\ Cardinality(U(T)) \in Nat /\ Cardinality(F[x]) \in Nat
        BY <1>4, FS_CardinalityType
  <2> HIDE DEF c, U, W
  <2>8. Cardinality(U(W)) = Total(c(W))
        BY <2>3, <2>4, <2>5, <2>6, <2>7
  <2> QED
        BY <2>1, <2>6, <2>8
<1> HIDE DEF c, U
<1>5. I \in A
      BY <1>3, <1>4, PartsByInduction
<1>6. IsFiniteSet(U(I)) /\ Cardinality(U(I)) = Total(c(I))
      BY <1>5
<1> QED
      BY <1>6 DEF c, U, AllOf

\* A sum is the same over a set in a one to one correspondence.
LEMMA SumsOfTheSame ==
  ASSUME NEW S, IsFiniteSet(S), NEW T, NEW b \in Bijection(S, T), NEW f \in [T -> Int]
  PROVE  Total([x \in S |-> f[b[x]]]) = Total(f)
<1> DEFINE im(P) == {b[x] : x \in P}
           g(P) == [x \in P |-> f[b[x]]]
           h(P) == [y \in im(P) |-> f[y]]
           A == {P \in SUBSET S : Total(g(P)) = Total(h(P))}
<1>1. /\ b \in [S -> T]
      /\ \A x, y \in S : b[x] = b[y] => x = y
      /\ \A y \in T : \E x \in S : b[x] = y
      BY DEF Bijection, Injection, Surjection, IsInjective
<1>2. ASSUME NEW P \in SUBSET S
      PROVE  /\ IsFiniteSet(P) /\ g(P) \in [P -> Int]
             /\ IsFiniteSet(im(P)) /\ h(P) \in [im(P) -> Int]
  <2>1. IsFiniteSet(P)
        BY FS_Subset
  <2>2. IsFiniteSet(T)
        BY SameSize
  <2>3. im(P) \in SUBSET T
        BY <1>1
  <2> QED
        BY <1>1, <2>1, <2>2, <2>3, FS_Subset
<1>3. {} \in A
  <2>1. im({}) = {} /\ {} \in SUBSET S
        OBVIOUS
  <2>2. Total(g({})) = 0
        BY <1>2, <2>1, SumProperties
  <2>3. Total(h({})) = 0
    <3>1. h({}) \in [{} -> Int]
          BY <2>1
    <3> HIDE DEF h
    <3> QED
          BY <3>1, FS_EmptySet, SumProperties
  <2> QED
        BY <2>1, <2>2, <2>3
<1>4. ASSUME NEW P \in SUBSET S, NEW x \in S \ P, P \in A PROVE P \cup {x} \in A
  <2> DEFINE W == P \cup {x}
  <2>1. W \in SUBSET S /\ x \in W /\ W \ {x} = P
        OBVIOUS
  <2>2. b[x] \in im(W) /\ im(W) \ {b[x]} = im(P)
        BY <1>1, <2>1
  <2>3. Total(g(W)) = g(W)[x] + Total(Without(g(W), x))
    <3>1. IsFiniteSet(W) /\ g(W) \in [W -> Int]
          BY <1>2, <2>1
    <3> HIDE DEF g, W
    <3> QED
          BY <2>1, <3>1, SumProperties
  <2>4. Total(h(W)) = h(W)[b[x]] + Total(Without(h(W), b[x]))
    <3>1. IsFiniteSet(im(W)) /\ h(W) \in [im(W) -> Int]
          BY <1>2, <2>1
    <3> HIDE DEF h, im, W
    <3> QED
          BY <2>2, <3>1, SumProperties
  <2>5. Without(g(W), x) = g(P)
        BY <2>1 DEF Without
  <2>6. Without(h(W), b[x]) = h(P)
        BY <2>2 DEF Without
  <2>7. g(W)[x] = f[b[x]] /\ h(W)[b[x]] = f[b[x]]
        BY <2>2
  <2> HIDE DEF g, h, im, W
  <2>8. Total(g(W)) = Total(h(W))
        BY <1>4, <2>3, <2>4, <2>5, <2>6, <2>7
  <2> QED
        BY <2>1, <2>8
<1>5. im(S) = T
      BY <1>1
<1>6. h(S) = f
      BY <1>5
<1> HIDE DEF g, h, im
<1>7. S \in A
      BY <1>3, <1>4, PartsByInduction
<1> QED
      BY <1>6, <1>7 DEF g

----------------------------------------------------------------------------
(* insert_feedback. *)

RollupsOf(p) == {row \in feedback_rollups : row.project = p}

\* Every call has the fields of a call, and has to do with projects that there are.
CallsOK ==
  /\ DOMAIN calls = Callers
  /\ feedback \subseteq FeedbackRecord
  /\ \A c \in Callers :
       /\ DOMAIN calls[c] = {"pc", "sent", "old", "todo", "rows"}
       /\ calls[c].pc # "idle" => calls[c].sent \in Feedback
       /\ calls[c].old \subseteq Range(Projects) \cup {None}
       /\ calls[c].todo \subseteq Range(Projects)
       /\ calls[c].pc \in {"select", "insert"} => calls[c].todo # {}

\* While a lone call runs no other does.
LoneIsAlone ==
  /\ lone \subseteq Callers
  /\ \A c \in lone, d \in Callers : d # c => ~Calling(d)

\* A lone call has the rollups right of the projects that it is done with; those of
\* the next project are gone when its feedback is read, and those that it has still
\* to insert are the ones that are missing.
LoneCallsProgress ==
  \A c \in lone :
    /\ calls[c].pc \in {"delete", "select", "insert", "ok"} =>
         \A p \in AffectedProjects(calls[c]) \ calls[c].todo : RollupsOf(p) = FeedbackRollupRows(p)
    /\ calls[c].pc = "select" => RollupsOf(NextProject(c)) = {}
    /\ calls[c].pc = "insert" =>
         /\ calls[c].rows \subseteq FeedbackRollupRows(NextProject(c))
         /\ RollupsOf(NextProject(c)) \cup calls[c].rows = FeedbackRollupRows(NextProject(c))
    /\ calls[c].pc = "ok" => calls[c].todo = {}

FeedbackInv == CallsOK /\ LoneIsAlone /\ LoneCallsProgress

\* The next project is one of those that are left.
LEMMA NextProjectIsLeft ==
  ASSUME CallsOK, NEW c \in Callers, calls[c].todo # {}
  PROVE  NextProject(c) \in calls[c].todo
<1> DEFINE S == {i \in DOMAIN Projects : Projects[i] \in calls[c].todo}
<1>1. calls[c].todo \subseteq Range(Projects) /\ Projects \in Seq(STRING)
      BY RunAggregatesAssumption DEF CallsOK
<1>2. S \in SUBSET Nat /\ S # {}
      BY <1>1 DEF Range
<1> HIDE DEF S
<1>3. Min(S) \in S
      BY <1>2, MinIsLeast
<1> QED
      BY <1>3 DEF S, NextProject

\* A row that is computed for a project names it.
LEMMA RowsNameTheirProject ==
  ASSUME NEW p, NEW row \in FeedbackRollupRows(p)
  PROVE  row.project = p
<1> DEFINE mine == {f \in feedback : f.project = p}
           key(f) == <<BucketOf(f.created, Bucket), f.key>>
           S(k) == {f \in mine : key(f) = k}
           Row(k) == [project |-> p, bucket |-> k[1], key |-> k[2], count |-> Cardinality(S(k)),
                      stats |-> FeedbackStats(S(k))]
           K == {key(f) : f \in mine}
<1>1. FeedbackRollupRows(p) = {Row(k) : k \in K}
      BY Zenon DEF FeedbackRollupRows
<1>2. \A k : Row(k).project = p
      OBVIOUS
<1> HIDE DEF Row, K
<1> QED
      BY <1>1, <1>2

LEMMA FeedbackInit == Init => FeedbackInv
<1> SUFFICES ASSUME Init PROVE FeedbackInv
      OBVIOUS
<1>1. calls = [c \in Callers |-> NoCall] /\ feedback = {} /\ lone = {}
      BY DEF Init
<1>2. CallsOK
      BY <1>1 DEF CallsOK, NoCall
<1> QED
      BY <1>1, <1>2 DEF FeedbackInv, LoneIsAlone, LoneCallsProgress

\* What the calls need stays when only queries and the store take a step.
LEMMA FeedbackKept ==
  ASSUME FeedbackInv, UNCHANGED scores
  PROVE  FeedbackInv'
<1>1. feedback' = feedback /\ feedback_rollups' = feedback_rollups /\ calls' = calls /\ lone' = lone
      BY DEF scores
<1>2. CallsOK' /\ LoneIsAlone'
      BY <1>1 DEF FeedbackInv, CallsOK, LoneIsAlone, Calling
<1>3. \A p : RollupsOf(p)' = RollupsOf(p) /\ FeedbackRollupRows(p)' = FeedbackRollupRows(p)
      BY <1>1 DEF RollupsOf, FeedbackRollupRows
<1>4. \A c : NextProject(c)' = NextProject(c)
      BY <1>1 DEF NextProject
<1>5. LoneCallsProgress'
      BY <1>1, <1>3, <1>4 DEF FeedbackInv, LoneCallsProgress
<1> QED
      BY <1>2, <1>5 DEF FeedbackInv

\* A step of a call changes that call and leaves lone alone.
CallStep(c, new) ==
  /\ calls' = [calls EXCEPT ![c] = new]
  /\ DOMAIN new = {"pc", "sent", "old", "todo", "rows"}
  /\ new.sent = calls[c].sent
  /\ lone' = lone

\* CallsOK and LoneIsAlone after such a step.
LEMMA CallStepKeeps ==
  ASSUME FeedbackInv, NEW c \in Callers, NEW new, CallStep(c, new), Calling(c),
         feedback' \subseteq FeedbackRecord,
         new.old \subseteq Range(Projects) \cup {None}, new.todo \subseteq Range(Projects),
         new.pc \in {"select", "insert"} => new.todo # {}
  PROVE  /\ CallsOK' /\ LoneIsAlone'
         /\ calls'[c] = new
         /\ c \in lone => lone = {c}
<1>1. /\ DOMAIN calls' = Callers
      /\ \A d \in Callers : calls'[d] = IF d = c THEN new ELSE calls[d]
      BY DEF CallStep, FeedbackInv, CallsOK
<1>2. calls[c].sent \in Feedback
      BY DEF FeedbackInv, CallsOK, Calling
<1>3. CallsOK'
      BY <1>1, <1>2 DEF CallStep, FeedbackInv, CallsOK
<1>4. LoneIsAlone'
      BY <1>1 DEF CallStep, FeedbackInv, LoneIsAlone, Calling
<1>5. c \in lone => lone = {c}
      BY DEF FeedbackInv, LoneIsAlone
<1> QED
      BY <1>1, <1>3, <1>4, <1>5

\* When the call that steps is not a lone one, there is no lone call that another
\* could disturb.
LEMMA OnlyLoneCallsMatter ==
  ASSUME FeedbackInv, NEW c \in Callers, Calling(c), c \notin lone, lone' = lone
  PROVE  LoneCallsProgress'
<1>1. lone = {}
      BY DEF FeedbackInv, LoneIsAlone
<1> QED
      BY <1>1 DEF LoneCallsProgress

LEMMA BeginFeedbackStep ==
  ASSUME FeedbackInv, NEW c \in Callers, BeginFeedback(c)
  PROVE  FeedbackInv'
<1>1. PICK sent \in Feedback : calls' = [calls EXCEPT ![c] = [NoCall EXCEPT !.pc = "old", !.sent = sent]]
      BY DEF BeginFeedback
<1> DEFINE new == [NoCall EXCEPT !.pc = "old", !.sent = sent]
<1>2. /\ DOMAIN new = {"pc", "sent", "old", "todo", "rows"} /\ new.pc = "old"
      /\ new.sent = sent /\ new.old = {} /\ new.todo = {}
      BY DEF NoCall
<1>3. calls' = [calls EXCEPT ![c] = new] /\ feedback' = feedback
      BY <1>1 DEF BeginFeedback
<1> HIDE DEF new
<1>4. /\ DOMAIN calls' = Callers
      /\ \A d \in Callers : calls'[d] = IF d = c THEN new ELSE calls[d]
      BY <1>3 DEF FeedbackInv, CallsOK
<1>5. CallsOK'
      BY <1>2, <1>3, <1>4 DEF FeedbackInv, CallsOK
<1>6. CASE \E d \in Callers : Calling(d)
  <2>1. lone' = {}
        BY <1>6 DEF BeginFeedback
  <2> QED
        BY <1>5, <2>1 DEF FeedbackInv, LoneIsAlone, LoneCallsProgress
<1>7. CASE ~\E d \in Callers : Calling(d)
  <2>1. lone' = {c}
        BY <1>7 DEF BeginFeedback
  <2>2. LoneIsAlone'
        BY <1>4, <1>7, <2>1 DEF LoneIsAlone, Calling
  <2>3. calls'[c].pc = "old"
        BY <1>2, <1>4
  <2>4. LoneCallsProgress'
        BY <2>1, <2>3 DEF LoneCallsProgress
  <2> QED
        BY <1>5, <2>2, <2>4 DEF FeedbackInv
<1> QED
      BY <1>6, <1>7

LEMMA LoadOldProjectStep ==
  ASSUME FeedbackInv, NEW c \in Callers, LoadOldProject(c)
  PROVE  FeedbackInv'
<1> DEFINE old == {f.project : f \in {x \in feedback : x.id = calls[c].sent.id}}
           new == [calls[c] EXCEPT !.pc = "upsert", !.old = old]
<1>1. /\ calls' = [calls EXCEPT ![c] = new] /\ lone' = lone
      /\ feedback' = feedback /\ calls[c].pc = "old" /\ Calling(c)
      BY DEF LoadOldProject, At, Calling
<1>2. old \subseteq Range(Projects) \cup {None}
      BY DEF FeedbackInv, CallsOK, FeedbackRecord
<1> HIDE DEF old
<1>3. /\ DOMAIN new = {"pc", "sent", "old", "todo", "rows"} /\ new.pc = "upsert"
      /\ new.sent = calls[c].sent /\ new.old = old /\ new.todo = calls[c].todo
      BY DEF FeedbackInv, CallsOK
<1> HIDE DEF new
<1>4. CallStep(c, new)
      BY <1>1, <1>3 DEF CallStep
<1>5. CallsOK' /\ LoneIsAlone' /\ calls'[c] = new /\ (c \in lone => lone = {c})
  <2>1. new.todo \subseteq Range(Projects) /\ feedback' \subseteq FeedbackRecord
        BY <1>1, <1>3 DEF FeedbackInv, CallsOK
  <2> QED
        BY <1>1, <1>2, <1>3, <1>4, <2>1, CallStepKeeps
<1>6. LoneCallsProgress'
  <2>1. CASE c \in lone
        BY <1>1, <1>3, <1>5, <2>1 DEF LoneCallsProgress
  <2>2. CASE c \notin lone
        BY <1>1, <2>2, OnlyLoneCallsMatter
  <2> QED
        BY <2>1, <2>2
<1> QED
      BY <1>5, <1>6 DEF FeedbackInv

LEMMA UpsertFeedbackStep ==
  ASSUME FeedbackInv, NEW c \in Callers, UpsertFeedback(c)
  PROVE  FeedbackInv'
<1> DEFINE sent == calls[c].sent
           was == {f \in feedback : f.id = sent.id}
           row == IF was = {} THEN sent ELSE [sent EXCEPT !.created = (CHOOSE f \in was : TRUE).created]
           new == [calls[c] EXCEPT !.pc = "delete", !.todo = AffectedProjects(calls[c])]
<1>1. /\ calls' = [calls EXCEPT ![c] = new] /\ lone' = lone
      /\ feedback' = (feedback \ was) \cup {row} /\ calls[c].pc = "upsert" /\ Calling(c)
      BY DEF UpsertFeedback, At, Calling
<1>2. sent \in FeedbackRecord
      BY <1>1, RunAggregatesAssumption DEF FeedbackInv, CallsOK
<1>3. row \in FeedbackRecord
  <2>1. CASE was = {}
        BY <1>2, <2>1
  <2>2. CASE was # {}
    <3> DEFINE f == CHOOSE x \in was : TRUE
    <3>1. f \in was
          BY <2>2
    <3> HIDE DEF f
    <3>2. f.created \in Int
          BY <3>1 DEF FeedbackInv, CallsOK, FeedbackRecord
    <3>3. row = [sent EXCEPT !.created = f.created]
          BY <2>2 DEF f
    <3> HIDE DEF row, sent
    <3> QED
          BY <1>2, <3>2, <3>3 DEF FeedbackRecord
  <2> QED
        BY <2>1, <2>2
<1> HIDE DEF was, row
<1>4. AffectedProjects(calls[c]) \subseteq Range(Projects)
      BY <1>2 DEF FeedbackInv, CallsOK, FeedbackRecord, AffectedProjects
<1>5. /\ DOMAIN new = {"pc", "sent", "old", "todo", "rows"} /\ new.pc = "delete"
      /\ new.sent = calls[c].sent /\ new.old = calls[c].old /\ new.todo = AffectedProjects(calls[c])
      BY DEF FeedbackInv, CallsOK
<1> HIDE DEF sent, new
<1>6. CallStep(c, new)
      BY <1>1, <1>5 DEF CallStep
<1>7. CallsOK' /\ LoneIsAlone' /\ calls'[c] = new /\ (c \in lone => lone = {c})
  <2>1. new.old \subseteq Range(Projects) \cup {None} /\ feedback' \subseteq FeedbackRecord
        BY <1>1, <1>3, <1>5 DEF FeedbackInv, CallsOK
  <2> QED
        BY <1>1, <1>4, <1>5, <1>6, <2>1, CallStepKeeps
<1>8. LoneCallsProgress'
  <2>1. CASE c \in lone
    <3>1. AffectedProjects(new) = AffectedProjects(calls[c])
          BY <1>5 DEF AffectedProjects
    <3>2. AffectedProjects(calls'[c]) \ calls'[c].todo = {}
          BY <1>5, <1>7, <3>1
    <3> QED
          BY <1>1, <1>5, <1>7, <2>1, <3>2 DEF LoneCallsProgress, AffectedProjects
  <2>2. CASE c \notin lone
        BY <1>1, <2>2, OnlyLoneCallsMatter
  <2> QED
        BY <2>1, <2>2
<1> QED
      BY <1>7, <1>8 DEF FeedbackInv

LEMMA DeleteFeedbackRollupsStep ==
  ASSUME FeedbackInv, NEW c \in Callers, DeleteFeedbackRollups(c)
  PROVE  FeedbackInv'
<1>1. calls[c].pc = "delete" /\ lone' = lone /\ feedback' = feedback /\ Calling(c)
      BY DEF DeleteFeedbackRollups, At, Calling
<1>2. \A p : FeedbackRollupRows(p)' = FeedbackRollupRows(p)
      BY <1>1 DEF FeedbackRollupRows
<1>3. ASSUME NEW pc, calls' = [calls EXCEPT ![c] = [calls[c] EXCEPT !.pc = pc]],
             pc \in {"select", "insert"} => calls[c].todo # {}
      PROVE  /\ CallsOK' /\ LoneIsAlone' /\ (c \in lone => lone = {c})
             /\ calls'[c].pc = pc /\ calls'[c].todo = calls[c].todo
             /\ AffectedProjects(calls'[c]) = AffectedProjects(calls[c])
             /\ NextProject(c)' = NextProject(c)
  <2> DEFINE new == [calls[c] EXCEPT !.pc = pc]
  <2>1. /\ DOMAIN new = {"pc", "sent", "old", "todo", "rows"} /\ new.pc = pc
        /\ new.sent = calls[c].sent /\ new.old = calls[c].old /\ new.todo = calls[c].todo
        BY DEF FeedbackInv, CallsOK
  <2>2. calls' = [calls EXCEPT ![c] = new]
        BY <1>3
  <2> HIDE DEF new
  <2>3. CallStep(c, new)
        BY <1>1, <2>1, <2>2 DEF CallStep
  <2>4. /\ new.old \subseteq Range(Projects) \cup {None} /\ new.todo \subseteq Range(Projects)
        /\ feedback' \subseteq FeedbackRecord
        BY <1>1, <2>1 DEF FeedbackInv, CallsOK
  <2>5. CallsOK' /\ LoneIsAlone' /\ calls'[c] = new /\ (c \in lone => lone = {c})
        BY <1>1, <1>3, <2>1, <2>3, <2>4, CallStepKeeps
  <2>6. calls'[c].todo = calls[c].todo
        BY <2>1, <2>5
  <2>7. NextProject(c)' = NextProject(c)
        BY <2>6 DEF NextProject
  <2> QED
        BY <2>1, <2>5, <2>7 DEF AffectedProjects
<1>4. CASE calls[c].todo = {}
  <2>1. calls' = [calls EXCEPT ![c] = [calls[c] EXCEPT !.pc = "ok"]] /\ feedback_rollups' = feedback_rollups
        BY <1>4 DEF DeleteFeedbackRollups
  <2>2. /\ CallsOK' /\ LoneIsAlone' /\ (c \in lone => lone = {c})
        /\ calls'[c].pc = "ok" /\ calls'[c].todo = calls[c].todo
        /\ AffectedProjects(calls'[c]) = AffectedProjects(calls[c])
        BY <1>3, <2>1
  <2>3. \A p : RollupsOf(p)' = RollupsOf(p)
        BY <2>1 DEF RollupsOf
  <2>4. CASE c \in lone
    <3>1. \A p \in AffectedProjects(calls[c]) : RollupsOf(p) = FeedbackRollupRows(p)
          BY <1>1, <1>4, <2>4 DEF FeedbackInv, LoneCallsProgress
    <3>2. \A p \in AffectedProjects(calls'[c]) : RollupsOf(p)' = FeedbackRollupRows(p)'
          BY <1>2, <2>2, <2>3, <3>1
    <3>3. LoneCallsProgress'
          BY <1>1, <1>4, <2>2, <2>4, <3>2 DEF LoneCallsProgress, AffectedProjects
    <3> QED
          BY <2>2, <3>3 DEF FeedbackInv
  <2>5. CASE c \notin lone
        BY <1>1, <2>2, <2>5, OnlyLoneCallsMatter DEF FeedbackInv
  <2> QED
        BY <2>4, <2>5
<1>5. CASE calls[c].todo # {}
  <2>1. /\ calls' = [calls EXCEPT ![c] = [calls[c] EXCEPT !.pc = "select"]]
        /\ feedback_rollups' = {row \in feedback_rollups : row.project # NextProject(c)}
        BY <1>5 DEF DeleteFeedbackRollups
  <2>2. /\ CallsOK' /\ LoneIsAlone' /\ (c \in lone => lone = {c})
        /\ calls'[c].pc = "select" /\ calls'[c].todo = calls[c].todo
        /\ AffectedProjects(calls'[c]) = AffectedProjects(calls[c])
        /\ NextProject(c)' = NextProject(c)
        BY <1>3, <1>5, <2>1
  <2>3. \A p : RollupsOf(p)' = IF p = NextProject(c) THEN {} ELSE RollupsOf(p)
        BY <2>1 DEF RollupsOf
  <2>4. NextProject(c) \in calls[c].todo
        BY <1>5, NextProjectIsLeft DEF FeedbackInv
  <2>5. CASE c \in lone
    <3>1. \A p \in AffectedProjects(calls[c]) \ calls[c].todo : RollupsOf(p) = FeedbackRollupRows(p)
          BY <1>1, <2>5 DEF FeedbackInv, LoneCallsProgress
    <3>2. \A p \in AffectedProjects(calls'[c]) \ calls'[c].todo : RollupsOf(p)' = FeedbackRollupRows(p)'
          BY <1>2, <2>2, <2>3, <2>4, <3>1
    <3>3. RollupsOf(NextProject(c))' = {}
      <4>1. RollupsOf(NextProject(c))' = {row \in feedback_rollups' : row.project = NextProject(c)'}
            BY DEF RollupsOf
      <4> QED
            BY <4>1, <2>1, <2>2
    <3>4. LoneCallsProgress'
          BY <1>1, <2>2, <2>5, <3>2, <3>3 DEF LoneCallsProgress, AffectedProjects
    <3> QED
          BY <2>2, <3>4 DEF FeedbackInv
  <2>6. CASE c \notin lone
        BY <1>1, <2>2, <2>6, OnlyLoneCallsMatter DEF FeedbackInv
  <2> QED
        BY <2>5, <2>6
<1> QED
      BY <1>4, <1>5

LEMMA SelectFeedbackStep ==
  ASSUME FeedbackInv, NEW c \in Callers, SelectFeedback(c)
  PROVE  FeedbackInv'
<1> DEFINE rows == FeedbackRollupRows(NextProject(c))
           new == [calls[c] EXCEPT !.pc = "insert", !.rows = rows]
<1>1. /\ calls' = [calls EXCEPT ![c] = new] /\ lone' = lone /\ calls[c].pc = "select" /\ Calling(c)
      /\ feedback' = feedback /\ feedback_rollups' = feedback_rollups
      BY DEF SelectFeedback, At, Calling
<1>2. \A p : RollupsOf(p)' = RollupsOf(p) /\ FeedbackRollupRows(p)' = FeedbackRollupRows(p)
      BY <1>1 DEF RollupsOf, FeedbackRollupRows
<1> HIDE DEF rows
<1>3. /\ DOMAIN new = {"pc", "sent", "old", "todo", "rows"} /\ new.pc = "insert" /\ new.rows = rows
      /\ new.sent = calls[c].sent /\ new.old = calls[c].old /\ new.todo = calls[c].todo
      BY DEF FeedbackInv, CallsOK
<1> HIDE DEF new
<1>4. CallStep(c, new)
      BY <1>1, <1>3 DEF CallStep
<1>5. /\ new.old \subseteq Range(Projects) \cup {None} /\ new.todo \subseteq Range(Projects)
      /\ new.todo # {} /\ feedback' \subseteq FeedbackRecord
      BY <1>1, <1>3 DEF FeedbackInv, CallsOK
<1>6. CallsOK' /\ LoneIsAlone' /\ calls'[c] = new /\ (c \in lone => lone = {c})
      BY <1>1, <1>4, <1>5, CallStepKeeps
<1>7. NextProject(c)' = NextProject(c)
      BY <1>3, <1>6 DEF NextProject
<1>8. LoneCallsProgress'
  <2>1. CASE c \in lone
    <3>1. /\ \A p \in AffectedProjects(calls[c]) \ calls[c].todo : RollupsOf(p) = FeedbackRollupRows(p)
          /\ RollupsOf(NextProject(c)) = {}
          BY <1>1, <2>1 DEF FeedbackInv, LoneCallsProgress
    <3>2. AffectedProjects(new) = AffectedProjects(calls[c])
          BY <1>3 DEF AffectedProjects
    <3>3. \A p \in AffectedProjects(calls'[c]) \ calls'[c].todo : RollupsOf(p)' = FeedbackRollupRows(p)'
          BY <1>2, <1>3, <1>6, <3>1, <3>2
    <3>4. FeedbackRollupRows(NextProject(c))' = rows
          BY <1>1, <1>7 DEF FeedbackRollupRows, rows
    <3>5. /\ calls'[c].rows \subseteq FeedbackRollupRows(NextProject(c))'
          /\ RollupsOf(NextProject(c))' \cup calls'[c].rows = FeedbackRollupRows(NextProject(c))'
      <4>1. RollupsOf(NextProject(c))' = {}
            BY <1>1, <1>7, <3>1 DEF RollupsOf
      <4> QED
            BY <1>3, <1>6, <3>4, <4>1
    <3> QED
          BY <1>1, <1>3, <1>6, <2>1, <3>3, <3>5 DEF LoneCallsProgress, AffectedProjects
  <2>2. CASE c \notin lone
        BY <1>1, <2>2, OnlyLoneCallsMatter
  <2> QED
        BY <2>1, <2>2
<1> QED
      BY <1>6, <1>8 DEF FeedbackInv

LEMMA InsertFeedbackRollupStep ==
  ASSUME FeedbackInv, NEW c \in Callers, InsertFeedbackRollup(c)
  PROVE  FeedbackInv'
<1>1. calls[c].pc = "insert" /\ lone' = lone /\ feedback' = feedback /\ Calling(c)
      BY DEF InsertFeedbackRollup, At, Calling
<1>2. \A p : FeedbackRollupRows(p)' = FeedbackRollupRows(p)
      BY <1>1 DEF FeedbackRollupRows
<1>3. NextProject(c) \in calls[c].todo
  <2>1. calls[c].todo # {} /\ CallsOK
        BY <1>1 DEF FeedbackInv, CallsOK
  <2> QED
        BY <2>1, NextProjectIsLeft
<1>4. ASSUME NEW new, calls' = [calls EXCEPT ![c] = new],
             DOMAIN new = {"pc", "sent", "old", "todo", "rows"}, new.sent = calls[c].sent,
             new.old = calls[c].old, new.todo \subseteq calls[c].todo,
             new.pc \in {"select", "insert"} => new.todo # {}
      PROVE  /\ CallsOK' /\ LoneIsAlone' /\ (c \in lone => lone = {c})
             /\ calls'[c] = new /\ AffectedProjects(calls'[c]) = AffectedProjects(calls[c])
  <2>1. CallStep(c, new)
        BY <1>1, <1>4 DEF CallStep
  <2>2. /\ new.old \subseteq Range(Projects) \cup {None} /\ new.todo \subseteq Range(Projects)
        /\ feedback' \subseteq FeedbackRecord
        BY <1>1, <1>4 DEF FeedbackInv, CallsOK
  <2>3. CallsOK' /\ LoneIsAlone' /\ calls'[c] = new /\ (c \in lone => lone = {c})
        BY <1>1, <1>4, <2>1, <2>2, CallStepKeeps
  <2> QED
        BY <1>4, <2>3 DEF AffectedProjects
<1>5. c \in lone =>
        /\ \A p \in AffectedProjects(calls[c]) \ calls[c].todo : RollupsOf(p) = FeedbackRollupRows(p)
        /\ calls[c].rows \subseteq FeedbackRollupRows(NextProject(c))
        /\ RollupsOf(NextProject(c)) \cup calls[c].rows = FeedbackRollupRows(NextProject(c))
      BY <1>1 DEF FeedbackInv, LoneCallsProgress
<1>6. CASE calls[c].rows = {}
  <2> DEFINE new == [calls[c] EXCEPT !.pc = "delete", !.todo = calls[c].todo \ {NextProject(c)}]
  <2>1. calls' = [calls EXCEPT ![c] = new] /\ feedback_rollups' = feedback_rollups
        BY <1>6 DEF InsertFeedbackRollup
  <2>2. /\ DOMAIN new = {"pc", "sent", "old", "todo", "rows"} /\ new.sent = calls[c].sent
        /\ new.old = calls[c].old /\ new.todo = calls[c].todo \ {NextProject(c)} /\ new.pc = "delete"
        BY DEF FeedbackInv, CallsOK
  <2> HIDE DEF new
  <2>3. /\ CallsOK' /\ LoneIsAlone' /\ (c \in lone => lone = {c})
        /\ calls'[c] = new /\ AffectedProjects(calls'[c]) = AffectedProjects(calls[c])
        BY <1>4, <2>1, <2>2
  <2>4. \A p : RollupsOf(p)' = RollupsOf(p)
        BY <2>1 DEF RollupsOf
  <2>5. LoneCallsProgress'
    <3>1. CASE c \in lone
      <4>1. \A p \in AffectedProjects(calls[c]) \ new.todo : RollupsOf(p) = FeedbackRollupRows(p)
            BY <1>5, <1>6, <2>2, <3>1
      <4>2. \A p \in AffectedProjects(calls'[c]) \ calls'[c].todo : RollupsOf(p)' = FeedbackRollupRows(p)'
            BY <1>2, <2>3, <2>4, <4>1
      <4> QED
            BY <1>1, <2>2, <2>3, <3>1, <4>2 DEF LoneCallsProgress, AffectedProjects
    <3>2. CASE c \notin lone
          BY <1>1, <3>2, OnlyLoneCallsMatter
    <3> QED
          BY <3>1, <3>2
  <2> QED
        BY <2>3, <2>5 DEF FeedbackInv
<1>7. ASSUME NEW row \in calls[c].rows, calls' = [calls EXCEPT ![c].pc = "error"]
      PROVE  FeedbackInv'
  <2> DEFINE new == [calls[c] EXCEPT !.pc = "error"]
  <2>1. calls' = [calls EXCEPT ![c] = new]
        BY <1>7
  <2>2. /\ DOMAIN new = {"pc", "sent", "old", "todo", "rows"} /\ new.sent = calls[c].sent
        /\ new.old = calls[c].old /\ new.todo = calls[c].todo /\ new.pc = "error"
        BY DEF FeedbackInv, CallsOK
  <2> HIDE DEF new
  <2>3. CallsOK' /\ LoneIsAlone' /\ (c \in lone => lone = {c}) /\ calls'[c] = new
        BY <1>4, <2>1, <2>2
  <2>4. LoneCallsProgress'
    <3>1. CASE c \in lone
          BY <1>1, <2>2, <2>3, <3>1 DEF LoneCallsProgress
    <3>2. CASE c \notin lone
          BY <1>1, <3>2, OnlyLoneCallsMatter
    <3> QED
          BY <3>1, <3>2
  <2> QED
        BY <2>3, <2>4 DEF FeedbackInv
<1>8. ASSUME NEW row \in calls[c].rows, calls' = [calls EXCEPT ![c].rows = @ \ {row}],
             feedback_rollups' = feedback_rollups \cup {row}
      PROVE  FeedbackInv'
  <2> DEFINE new == [calls[c] EXCEPT !.rows = calls[c].rows \ {row}]
  <2>1. calls' = [calls EXCEPT ![c] = new]
        BY <1>8
  <2>2. /\ DOMAIN new = {"pc", "sent", "old", "todo", "rows"} /\ new.sent = calls[c].sent
        /\ new.old = calls[c].old /\ new.todo = calls[c].todo /\ new.pc = "insert"
        /\ new.rows = calls[c].rows \ {row}
        BY <1>1 DEF FeedbackInv, CallsOK
  <2> HIDE DEF new
  <2>3. /\ CallsOK' /\ LoneIsAlone' /\ (c \in lone => lone = {c})
        /\ calls'[c] = new /\ AffectedProjects(calls'[c]) = AffectedProjects(calls[c])
        BY <1>3, <1>4, <2>1, <2>2
  <2>4. NextProject(c)' = NextProject(c)
        BY <2>2, <2>3 DEF NextProject
  <2>5. LoneCallsProgress'
    <3>1. CASE c \in lone
      <4>1. row.project = NextProject(c)
            BY <1>5, <1>8, <3>1, RowsNameTheirProject
      <4>2. \A p : RollupsOf(p)' = RollupsOf(p) \cup (IF p = NextProject(c) THEN {row} ELSE {})
            BY <1>8, <4>1 DEF RollupsOf
      <4>3. \A p \in AffectedProjects(calls'[c]) \ calls'[c].todo : RollupsOf(p)' = FeedbackRollupRows(p)'
            BY <1>2, <1>3, <1>5, <2>2, <2>3, <3>1, <4>2
      <4>4. FeedbackRollupRows(NextProject(c))' = FeedbackRollupRows(NextProject(c))
            BY <1>1, <2>4 DEF FeedbackRollupRows
      <4>5. RollupsOf(NextProject(c))' = RollupsOf(NextProject(c)) \cup {row}
            BY <1>8, <2>4, <4>1 DEF RollupsOf
      <4>6. /\ calls'[c].rows \subseteq FeedbackRollupRows(NextProject(c))'
            /\ RollupsOf(NextProject(c))' \cup calls'[c].rows = FeedbackRollupRows(NextProject(c))'
            BY <1>5, <1>8, <2>2, <2>3, <3>1, <4>4, <4>5
      <4> QED
            BY <1>1, <2>2, <2>3, <3>1, <4>3, <4>6 DEF LoneCallsProgress, AffectedProjects
    <3>2. CASE c \notin lone
          BY <1>1, <3>2, OnlyLoneCallsMatter
    <3> QED
          BY <3>1, <3>2
  <2> QED
        BY <2>3, <2>5 DEF FeedbackInv
<1> QED
      BY <1>6, <1>7, <1>8 DEF InsertFeedbackRollup

LEMMA FeedbackFailsStep ==
  ASSUME FeedbackInv, NEW c \in Callers, FeedbackFails(c)
  PROVE  FeedbackInv'
<1> DEFINE new == [calls[c] EXCEPT !.pc = "error"]
<1>1. /\ calls' = [calls EXCEPT ![c] = new] /\ lone' = lone /\ feedback' = feedback /\ Calling(c)
      BY DEF FeedbackFails
<1>2. /\ DOMAIN new = {"pc", "sent", "old", "todo", "rows"} /\ new.pc = "error"
      /\ new.sent = calls[c].sent /\ new.old = calls[c].old /\ new.todo = calls[c].todo
      BY DEF FeedbackInv, CallsOK
<1> HIDE DEF new
<1>3. CallStep(c, new)
      BY <1>1, <1>2 DEF CallStep
<1>4. /\ new.old \subseteq Range(Projects) \cup {None} /\ new.todo \subseteq Range(Projects)
      /\ feedback' \subseteq FeedbackRecord
      BY <1>1, <1>2 DEF FeedbackInv, CallsOK
<1>5. CallsOK' /\ LoneIsAlone' /\ calls'[c] = new /\ (c \in lone => lone = {c})
      BY <1>1, <1>2, <1>3, <1>4, CallStepKeeps
<1>6. LoneCallsProgress'
  <2>1. CASE c \in lone
        BY <1>1, <1>2, <1>5, <2>1 DEF LoneCallsProgress
  <2>2. CASE c \notin lone
        BY <1>1, <2>2, OnlyLoneCallsMatter
  <2> QED
        BY <2>1, <2>2
<1> QED
      BY <1>5, <1>6 DEF FeedbackInv

\* A query and a change of the store leave the calls and their tables alone.
LEMMA FeedbackStepKeeps ==
  FeedbackInv /\ [Next]_vars => FeedbackInv'
<1> SUFFICES ASSUME FeedbackInv, [Next]_vars PROVE FeedbackInv'
      OBVIOUS
<1>1. CASE QueryStep
  <2>1. UNCHANGED scores
        BY <1>1 DEF QueryStep, Ask, TryRollup, Plan, ReadPartition, LoadTags, LoadFeedbackAndGroup, QueryFails
  <2> QED
        BY <2>1, FeedbackKept
<1>2. CASE StoreStep
  <2>1. UNCHANGED scores
        BY <1>2 DEF StoreStep, WriteRun, DeleteRun, CleanUp, Changed
  <2> QED
        BY <2>1, FeedbackKept
<1>3. ASSUME NEW c \in Callers, FeedbackStep(c) PROVE FeedbackInv'
      BY <1>3, BeginFeedbackStep, LoadOldProjectStep, UpsertFeedbackStep, DeleteFeedbackRollupsStep,
         SelectFeedbackStep, InsertFeedbackRollupStep, FeedbackFailsStep DEF FeedbackStep
<1>4. CASE UNCHANGED vars
  <2>1. UNCHANGED scores
        BY <1>4 DEF vars
  <2> QED
        BY <2>1, FeedbackKept
<1> QED
      BY <1>1, <1>2, <1>3, <1>4 DEF Next

\* A call of insert_feedback that succeeds while no other is in progress leaves the
\* feedback rollups of every project it has touched as the feedback is.
THEOREM LoneCallsAreRight == Spec => []LoneCallsLeaveTheRollupsRight
<1>1. FeedbackInv => LoneCallsLeaveTheRollupsRight
  <2> SUFFICES ASSUME FeedbackInv, NEW c \in lone, calls[c].pc = "ok",
                      NEW p \in (calls[c].old \cup {calls[c].sent.project}) \ {None}
               PROVE  {row \in feedback_rollups : row.project = p} = FeedbackRollupRows(p)
        BY DEF LoneCallsLeaveTheRollupsRight
  <2>1. p \in AffectedProjects(calls[c]) /\ calls[c].todo = {}
        BY DEF FeedbackInv, LoneCallsProgress, AffectedProjects
  <2>2. RollupsOf(p) = FeedbackRollupRows(p)
        BY <2>1 DEF FeedbackInv, LoneCallsProgress
  <2> QED
        BY <2>2 DEF RollupsOf
<1> QED
      BY <1>1, FeedbackInit, FeedbackStepKeeps, PTL DEF Spec

----------------------------------------------------------------------------
(* Scans. *)

\* Whatever is written, deleted or cleaned up meanwhile, the rows that a scan groups
\* are those that matched when it was planned: the version that was current then, of
\* every such run and of no other, also when the run has moved to another segment or
\* has been deleted since, and in whatever order the partitions were read
\* (execute_aggregate_partition, aggregate_datafusion_sql).
ScansReadThePlan ==
  q.pc = "answered" /\ q.source = "vortex" => q.read = planned

Segment == [rows : Seq(Record), object : BOOLEAN]

\* Heads point into segments, which keep their rows.
StoreOK ==
  /\ segments \in Seq(Segment)
  /\ DOMAIN heads = Runs
  /\ \A r \in Runs : heads[r] # None => heads[r].seg \in DOMAIN segments

\* The rows of a plan are where they were; those in partitions that have been read
\* are among the rows read, and nothing else is, unless a partition has failed.
ScanProgress ==
  /\ DOMAIN q = {"pc", "query", "distributed", "rows", "todo", "read", "tags", "given", "failed",
                 "source", "answer"}
  /\ q.pc \in {"rollup", "plan"} => q.read = {}
  /\ q.pc = "read" =>
       /\ \A h \in q.rows : h.seg \in DOMAIN segments /\ FieldsMatch(q.query, RowOf(h))
       /\ planned = {RowOf(h) : h \in q.rows}
       /\ q.read \subseteq planned
       /\ q.failed \/ \A h \in q.rows : h.seg \in UNION q.todo \/ RowOf(h) \in q.read
  /\ q.pc = "feedback" => q.read = planned
  /\ q.pc = "answered" /\ q.source = "vortex" => q.read = planned

ScanInv == StoreOK /\ ScanProgress

LEMMA ScanInit == Init => ScanInv
<1> SUFFICES ASSUME Init PROVE ScanInv
      OBVIOUS
<1>1. ScanProgress
      BY DEF Init, Idle, ScanProgress
<1> DEFINE at(w, r) == {h \in [seg : DOMAIN w, row : 1..2] :
                          h.row \in DOMAIN w[h.seg] /\ w[h.seg][h.row].run = r}
           head(w, r) == CHOOSE h \in at(w, r) : \A g \in at(w, r) : g.seg =< h.seg
<1>2. PICK w \in Worlds :
        /\ segments = [s \in DOMAIN w |-> [rows |-> w[s], object |-> TRUE]]
        /\ heads = [r \in Runs |-> IF r \in {x \in Runs : at(w, x) # {}} THEN head(w, r) ELSE None]
      BY Zenon DEF Init
<1>3. w \in Seq(Seq(Record))
      BY RunAggregatesAssumption
<1>4. Len(w) \in Nat /\ DOMAIN w = 1..Len(w) /\ \A s \in DOMAIN w : w[s] \in Seq(Record)
      BY <1>3
<1>5. segments \in Seq(Segment) /\ DOMAIN segments = DOMAIN w
      BY <1>2, <1>4 DEF Segment
<1>6. ASSUME NEW r \in Runs, heads[r] # None PROVE heads[r].seg \in DOMAIN segments
  <2>1. at(w, r) # {} /\ heads[r] = head(w, r)
        BY <1>2, <1>6
  <2>2. \A h \in at(w, r) : h.seg \in 1..Len(w)
        BY <1>4
  <2> HIDE DEF at
  <2>3. \E h \in at(w, r) : \A g \in at(w, r) : g.seg =< h.seg
        BY <1>4, <2>1, <2>2, LatestExists
  <2>4. head(w, r) \in at(w, r)
        BY <2>3
  <2> HIDE DEF head
  <2> QED
        BY <1>4, <1>5, <2>1, <2>2, <2>4
<1>7. DOMAIN heads = Runs
      BY <1>2
<1> QED
      BY <1>1, <1>5, <1>6, <1>7 DEF ScanInv, StoreOK

\* A change of the store leaves the rows of the segments alone, and heads in place.
LEMMA RowsStay ==
  ASSUME StoreOK, StoreStep
  PROVE  /\ StoreOK'
         /\ \A h : h.seg \in DOMAIN segments => h.seg \in DOMAIN segments' /\ RowOf(h)' = RowOf(h)
<1>1. DOMAIN segments = 1..Len(segments) /\ Len(segments) \in Nat
      BY DEF StoreOK
<1>2. CASE WriteRun
  <2>1. PICK rec \in Records :
          /\ segments' = Append(segments, [rows |-> <<rec>>, object |-> TRUE])
          /\ heads' = [heads EXCEPT ![rec.run] = [seg |-> Len(segments) + 1, row |-> 1]]
        BY <1>2 DEF WriteRun
  <2> DEFINE new == [rows |-> <<rec>>, object |-> TRUE]
  <2>2. new \in Segment
        BY RunAggregatesAssumption DEF Segment
  <2> HIDE DEF new
  <2>3. segments' = Append(segments, new)
        BY <2>1 DEF new
  <2>4. /\ segments' \in Seq(Segment) /\ DOMAIN segments' = 1..(Len(segments) + 1)
        /\ \A s \in DOMAIN segments : segments'[s] = segments[s]
        BY <1>1, <2>2, <2>3 DEF StoreOK
  <2>5. /\ DOMAIN heads' = Runs
        /\ \A r \in Runs : heads'[r] = IF r = rec.run THEN [seg |-> Len(segments) + 1, row |-> 1] ELSE heads[r]
        BY <2>1 DEF StoreOK
  <2>6. \A r \in Runs : heads'[r] # None => heads'[r].seg \in DOMAIN segments'
        BY <1>1, <2>4, <2>5 DEF StoreOK
  <2> QED
        BY <1>1, <2>4, <2>5, <2>6 DEF StoreOK, RowOf
<1>3. CASE DeleteRun
      BY <1>3 DEF DeleteRun, StoreOK, RowOf
<1>4. CASE CleanUp
  <2>1. PICK s \in DOMAIN segments : segments' = [segments EXCEPT ![s].object = FALSE]
        BY <1>4 DEF CleanUp
  <2>2. heads' = heads
        BY <1>4 DEF CleanUp
  <2>3. \A x \in DOMAIN segments : segments[x] \in Segment
        BY DEF StoreOK
  <2> DEFINE new == [segments[s] EXCEPT !.object = FALSE]
  <2>4. new \in Segment /\ new.rows = segments[s].rows
        BY <2>3 DEF Segment
  <2>5. segments' = [segments EXCEPT ![s] = new]
        BY <2>1
  <2> HIDE DEF new
  <2>6. /\ segments' \in Seq(Segment) /\ DOMAIN segments' = DOMAIN segments
        /\ \A x \in DOMAIN segments : segments'[x].rows = segments[x].rows
    <3>1. /\ DOMAIN segments' = 1..Len(segments)
          /\ segments' = [x \in 1..Len(segments) |-> IF x = s THEN new ELSE segments[x]]
          BY <1>1, <2>5
    <3>2. \A x \in 1..Len(segments) : segments'[x] = IF x = s THEN new ELSE segments[x]
          BY <3>1
    <3>3. segments' \in [1..Len(segments) -> Segment]
          BY <1>1, <2>3, <2>4, <3>1
    <3>4. segments' \in Seq(Segment)
          BY <1>1, <3>3, SeqDef
    <3> QED
          BY <1>1, <2>4, <3>1, <3>2, <3>4
  <2> QED
        BY <2>2, <2>6 DEF StoreOK, RowOf
<1> QED
      BY <1>2, <1>3, <1>4 DEF StoreStep

\* So the progress of a scan is kept.
LEMMA StoreStepKeepsScans ==
  ASSUME ScanInv, StoreStep
  PROVE  ScanInv'
<1>1. q' = q /\ planned' = planned
      BY DEF StoreStep, WriteRun, DeleteRun, CleanUp, Changed
<1>2. /\ StoreOK'
      /\ \A h : h.seg \in DOMAIN segments => h.seg \in DOMAIN segments' /\ RowOf(h)' = RowOf(h)
      BY RowsStay DEF ScanInv
<1>3. CASE q.pc = "read"
  <2>1. /\ \A h \in q.rows : h.seg \in DOMAIN segments /\ FieldsMatch(q.query, RowOf(h))
        /\ planned = {RowOf(h) : h \in q.rows}
        /\ q.read \subseteq planned
        /\ q.failed \/ \A h \in q.rows : h.seg \in UNION q.todo \/ RowOf(h) \in q.read
        BY <1>3 DEF ScanInv, ScanProgress
  <2>2. \A h \in q.rows : h.seg \in DOMAIN segments' /\ RowOf(h)' = RowOf(h)
        BY <1>2, <2>1
  <2>3. {RowOf(h)' : h \in q.rows} = {RowOf(h) : h \in q.rows}
        BY <2>2
  <2>4. \A h \in q'.rows : h.seg \in DOMAIN segments' /\ FieldsMatch(q'.query, RowOf(h)')
        BY <1>1, <2>1, <2>2
  <2>5. planned' = {RowOf(h)' : h \in q'.rows} /\ q'.read \subseteq planned'
        BY <1>1, <2>1, <2>3
  <2>6. q'.failed \/ \A h \in q'.rows : h.seg \in UNION q'.todo \/ RowOf(h)' \in q'.read
        BY <1>1, <2>1, <2>2
  <2> QED
        BY <1>1, <1>2, <1>3, <2>4, <2>5, <2>6 DEF ScanInv, ScanProgress
<1>4. CASE q.pc # "read"
      BY <1>1, <1>2, <1>4 DEF ScanInv, ScanProgress
<1> QED
      BY <1>3, <1>4

\* The partitions hold all segments of the plan.
LEMMA PartitionsCover ==
  ASSUME NEW segs
  PROVE  segs \subseteq UNION Partitions(segs)
<1> SUFFICES ASSUME NEW s \in segs PROVE s \in UNION Partitions(segs)
      OBVIOUS
<1> DEFINE place(t) == Cardinality({x \in segs : x < t}) \div Chunk
           part(i) == {t \in segs : place(t) = i}
<1>1. Partitions(segs) = {part(i) : i \in {place(t) : t \in segs}}
      BY Zenon DEF Partitions
<1>2. s \in part(place(s))
      OBVIOUS
<1> HIDE DEF place, part
<1> QED
      BY <1>1, <1>2

\* Plan, when it does not stop at a limit.
LEMMA PlanStep ==
  ASSUME ScanInv, Plan
  PROVE  ScanInv'
<1> DEFINE rows == Candidates(q.query)
           segs == {h.seg : h \in rows}
           todo == Partitions(segs)
<1>1. /\ q.pc = "plan" /\ planned' = {RowOf(h) : h \in rows}
      /\ segments' = segments /\ heads' = heads
      /\ \/ q' = [q EXCEPT !.pc = "error"]
         \/ q' = [q EXCEPT !.pc = "read", !.rows = rows, !.todo = todo]
      BY DEF Plan, store
<1>2. \A h \in rows : h.seg \in DOMAIN segments /\ FieldsMatch(q.query, RowOf(h))
      BY DEF Candidates, ScanInv, StoreOK
<1> HIDE DEF rows
<1>3. \A h \in rows : h.seg \in UNION todo
      BY PartitionsCover
<1> HIDE DEF todo
<1>4. \A h : RowOf(h)' = RowOf(h)
      BY <1>1 DEF RowOf
<1>5. StoreOK'
      BY <1>1 DEF ScanInv, StoreOK
<1>6. q.read = {}
      BY <1>1 DEF ScanInv, ScanProgress
<1>7. CASE q' = [q EXCEPT !.pc = "error"]
      BY <1>5, <1>7 DEF ScanInv, ScanProgress
<1>8. CASE q' = [q EXCEPT !.pc = "read", !.rows = rows, !.todo = todo]
  <2>1. /\ DOMAIN q' = DOMAIN q /\ q'.pc = "read" /\ q'.rows = rows /\ q'.todo = todo
        /\ q'.read = {} /\ q'.query = q.query
        BY <1>6, <1>8 DEF ScanInv, ScanProgress
  <2>2. \A h \in q'.rows : h.seg \in DOMAIN segments' /\ FieldsMatch(q'.query, RowOf(h)')
        BY <1>1, <1>2, <1>4, <2>1
  <2>3. planned' = {RowOf(h)' : h \in q'.rows} /\ q'.read \subseteq planned'
        BY <1>1, <1>4, <2>1
  <2>4. \A h \in q'.rows : h.seg \in UNION q'.todo
        BY <1>3, <2>1
  <2> QED
        BY <1>5, <2>1, <2>2, <2>3, <2>4 DEF ScanInv, ScanProgress
<1> QED
      BY <1>1, <1>7, <1>8

\* A partition that is read brings the rows of the plan that lie in it.
LEMMA ReadPartitionStep ==
  ASSUME ScanInv, ReadPartition
  PROVE  ScanInv'
<1>1. /\ q.pc = "read" /\ planned' = planned /\ segments' = segments /\ heads' = heads
      BY DEF ReadPartition, store
<1>2. /\ \A h \in q.rows : h.seg \in DOMAIN segments /\ FieldsMatch(q.query, RowOf(h))
      /\ planned = {RowOf(h) : h \in q.rows}
      /\ q.read \subseteq planned
      /\ q.failed \/ \A h \in q.rows : h.seg \in UNION q.todo \/ RowOf(h) \in q.read
      BY <1>1 DEF ScanInv, ScanProgress
<1>3. PICK part \in q.todo :
        \/ q' = [q EXCEPT !.todo = q.todo \ {part}, !.read = q.read \cup AggregateRunRows(part)]
        \/ q' = [q EXCEPT !.todo = q.todo \ {part}, !.failed = TRUE]
        \/ q' = [q EXCEPT !.pc = "error"]
      BY DEF ReadPartition
<1>4. \A h : RowOf(h)' = RowOf(h)
      BY <1>1 DEF RowOf
<1>5. StoreOK'
      BY <1>1 DEF ScanInv, StoreOK
<1>6. AggregateRunRows(part) = {RowOf(h) : h \in {x \in q.rows : x.seg \in part}}
  <2> DEFINE mine == {RowOf(h) : h \in {x \in q.rows : x.seg \in part}}
  <2>1. AggregateRunRows(part) = {rec \in mine : FieldsMatch(q.query, rec)}
        BY DEF AggregateRunRows
  <2>2. \A rec \in mine : FieldsMatch(q.query, rec)
        BY <1>2
  <2> HIDE DEF mine
  <2>3. {rec \in mine : FieldsMatch(q.query, rec)} = mine
        BY <2>2
  <2> QED
        BY <2>1, <2>3 DEF mine
<1> DEFINE got == AggregateRunRows(part)
<1> HIDE DEF got
<1>7. CASE q' = [q EXCEPT !.todo = q.todo \ {part}, !.read = q.read \cup AggregateRunRows(part)]
  <2>1. q' = [q EXCEPT !.todo = q.todo \ {part}, !.read = q.read \cup got]
        BY <1>7 DEF got
  <2>2. /\ DOMAIN q' = DOMAIN q /\ q'.pc = "read" /\ q'.rows = q.rows /\ q'.todo = q.todo \ {part}
        /\ q'.read = q.read \cup got /\ q'.query = q.query /\ q'.failed = q.failed
        BY <1>1, <2>1 DEF ScanInv, ScanProgress
  <2>3. \A h \in q'.rows : h.seg \in DOMAIN segments' /\ FieldsMatch(q'.query, RowOf(h)')
        BY <1>1, <1>2, <1>4, <2>2
  <2>4. planned' = {RowOf(h)' : h \in q'.rows}
        BY <1>1, <1>2, <1>4, <2>2
  <2>5. got \subseteq planned
        BY <1>2, <1>6 DEF got
  <2>6. q'.read \subseteq planned'
        BY <1>1, <1>2, <2>2, <2>5
  <2>7. \A h \in q.rows : h.seg \in part => RowOf(h) \in got
        BY <1>6 DEF got
  <2>8. q'.failed \/ \A h \in q'.rows : h.seg \in UNION q'.todo \/ RowOf(h)' \in q'.read
    <3>1. CASE q.failed
          BY <2>2, <3>1
    <3>2. CASE ~q.failed
      <4> SUFFICES ASSUME NEW h \in q.rows PROVE h.seg \in UNION q'.todo \/ RowOf(h)' \in q'.read
            BY <2>2
      <4>1. h.seg \in UNION q.todo \/ RowOf(h) \in q.read
            BY <1>2, <3>2
      <4>2. CASE RowOf(h) \in q.read \/ h.seg \in part
            BY <1>4, <2>2, <2>7, <4>2
      <4>3. CASE h.seg \in UNION q.todo /\ h.seg \notin part
            BY <2>2, <4>3
      <4> QED
            BY <4>1, <4>2, <4>3
    <3> QED
          BY <3>1, <3>2
  <2> QED
        BY <1>5, <2>2, <2>3, <2>4, <2>6, <2>8 DEF ScanInv, ScanProgress
<1>8. CASE q' = [q EXCEPT !.todo = q.todo \ {part}, !.failed = TRUE]
  <2>1. /\ DOMAIN q' = DOMAIN q /\ q'.pc = "read" /\ q'.rows = q.rows
        /\ q'.read = q.read /\ q'.query = q.query
        BY <1>1, <1>8 DEF ScanInv, ScanProgress
  <2>2. q'.failed
    <3>1. q'.failed = TRUE
          BY <1>8, Zenon DEF ScanInv, ScanProgress
    <3> QED
          BY <3>1
  <2>3. \A h \in q'.rows : h.seg \in DOMAIN segments' /\ FieldsMatch(q'.query, RowOf(h)')
        BY <1>1, <1>2, <1>4, <2>1
  <2>4. planned' = {RowOf(h)' : h \in q'.rows} /\ q'.read \subseteq planned'
        BY <1>1, <1>2, <1>4, <2>1
  <2> QED
        BY <1>5, <2>1, <2>2, <2>3, <2>4 DEF ScanInv, ScanProgress
<1>9. CASE q' = [q EXCEPT !.pc = "error"]
      BY <1>5, <1>9 DEF ScanInv, ScanProgress
<1> QED
      BY <1>3, <1>7, <1>8, <1>9

LEMMA QueryStepKeepsScans ==
  ASSUME ScanInv, QueryStep
  PROVE  ScanInv'
<1>1. segments' = segments /\ heads' = heads
      BY DEF QueryStep, Ask, TryRollup, Plan, ReadPartition, LoadTags, LoadFeedbackAndGroup, QueryFails,
             store
<1>2. StoreOK'
      BY <1>1 DEF ScanInv, StoreOK
<1>3. DOMAIN q = {"pc", "query", "distributed", "rows", "todo", "read", "tags", "given", "failed",
                  "source", "answer"}
      BY DEF ScanInv, ScanProgress
<1>4. CASE Ask
  <2>1. PICK query \in Queries, distributed \in BOOLEAN :
          q' = [Idle EXCEPT !.query = query, !.distributed = distributed,
                            !.pc = IF Valid(query) THEN "rollup" ELSE "error"]
        BY <1>4 DEF Ask
  <2> DEFINE pc == IF Valid(query) THEN "rollup" ELSE "error"
  <2>2. pc \in {"rollup", "error"}
        OBVIOUS
  <2> HIDE DEF pc
  <2>3. q' = [Idle EXCEPT !.query = query, !.distributed = distributed, !.pc = pc]
        BY <2>1 DEF pc
  <2>4. DOMAIN q' = DOMAIN Idle /\ q'.pc = pc /\ q'.read = {}
        BY <2>3 DEF Idle
  <2>5. DOMAIN Idle = {"pc", "query", "distributed", "rows", "todo", "read", "tags", "given", "failed",
                       "source", "answer"}
        BY DEF Idle
  <2> QED
        BY <1>2, <2>2, <2>4, <2>5 DEF ScanInv, ScanProgress
<1>5. CASE TryRollup
  <2> DEFINE source == IF RollupKind(q.query) = "feedback_key" THEN "feedback_rollup" ELSE "rollup"
             answer == RollupAnswer(q.query)
  <2>1. \/ q' = [q EXCEPT !.pc = "answered", !.answer = answer, !.source = source]
        \/ q' = [q EXCEPT !.pc = "plan"]
        BY <1>5 DEF TryRollup
  <2>2. source # "vortex"
        OBVIOUS
  <2>3. q.read = {}
        BY <1>5 DEF TryRollup, ScanInv, ScanProgress
  <2> HIDE DEF source, answer
  <2>4. /\ DOMAIN q' = DOMAIN q /\ q'.read = {}
        /\ q'.pc = "plan" \/ (q'.pc = "answered" /\ q'.source # "vortex")
        BY <1>3, <2>1, <2>2, <2>3
  <2> QED
        BY <1>2, <1>3, <2>4 DEF ScanInv, ScanProgress
<1>6. CASE Plan
      BY <1>6, PlanStep
<1>7. CASE ReadPartition
      BY <1>7, ReadPartitionStep
<1>8. CASE LoadTags
  <2> DEFINE tags == IF "tag" \in Groups(q.query) THEN run_tags ELSE <<>>
  <2>1. /\ q.pc = "read" /\ q.todo = {} /\ planned' = planned
        /\ \/ q' = [q EXCEPT !.pc = "error"]
           \/ ~q.failed /\ q' = [q EXCEPT !.pc = "feedback", !.tags = tags]
        BY <1>8 DEF LoadTags
  <2> HIDE DEF tags
  <2>2. CASE q' = [q EXCEPT !.pc = "error"]
        BY <1>2, <2>2 DEF ScanInv, ScanProgress
  <2>3. CASE ~q.failed /\ q' = [q EXCEPT !.pc = "feedback", !.tags = tags]
    <3>1. DOMAIN q' = DOMAIN q /\ q'.pc = "feedback" /\ q'.read = q.read
          BY <1>3, <2>3
    <3>2. /\ planned = {RowOf(h) : h \in q.rows} /\ q.read \subseteq planned
          /\ q.failed \/ \A h \in q.rows : h.seg \in UNION q.todo \/ RowOf(h) \in q.read
          BY <2>1 DEF ScanInv, ScanProgress
    <3>3. \A h \in q.rows : RowOf(h) \in q.read
          BY <2>1, <2>3, <3>2
    <3>4. q.read = planned
          BY <3>2, <3>3
    <3> QED
          BY <1>2, <1>3, <2>1, <3>1, <3>4 DEF ScanInv, ScanProgress
  <2> QED
        BY <2>1, <2>2, <2>3
<1>9. CASE LoadFeedbackAndGroup
  <2>1. PICK given, answer :
          q' = [q EXCEPT !.pc = "answered", !.source = "vortex", !.given = given, !.answer = answer]
        BY <1>9 DEF LoadFeedbackAndGroup
  <2>2. q.pc = "feedback" /\ planned' = planned
        BY <1>9 DEF LoadFeedbackAndGroup
  <2>3. q.read = planned
        BY <2>2 DEF ScanInv, ScanProgress
  <2>4. DOMAIN q' = DOMAIN q /\ q'.pc = "answered" /\ q'.read = q.read
        BY <1>3, <2>1
  <2> QED
        BY <1>2, <1>3, <2>2, <2>3, <2>4 DEF ScanInv, ScanProgress
<1>10. CASE QueryFails
  <2>1. DOMAIN q' = DOMAIN q /\ q'.pc = "error"
        BY <1>3, <1>10 DEF QueryFails
  <2> QED
        BY <1>2, <1>3, <2>1 DEF ScanInv, ScanProgress
<1> QED
      BY <1>4, <1>5, <1>6, <1>7, <1>8, <1>9, <1>10 DEF QueryStep

\* What stands still for a scan.
LEMMA ScanKept ==
  ASSUME ScanInv, UNCHANGED <<store, q, planned>>
  PROVE  ScanInv'
<1>1. q' = q /\ planned' = planned /\ segments' = segments /\ heads' = heads
      BY DEF store
<1>2. \A h : RowOf(h)' = RowOf(h)
      BY <1>1 DEF RowOf
<1>3. StoreOK'
      BY <1>1 DEF ScanInv, StoreOK
<1>4. CASE q.pc = "read"
  <2>1. {RowOf(h)' : h \in q'.rows} = {RowOf(h) : h \in q.rows}
        BY <1>1, <1>2
  <2>2. planned' = {RowOf(h)' : h \in q'.rows}
        BY <1>1, <1>4, <2>1 DEF ScanInv, ScanProgress
  <2>3. /\ \A h \in q'.rows : h.seg \in DOMAIN segments' /\ FieldsMatch(q'.query, RowOf(h)')
        /\ q'.failed \/ \A h \in q'.rows : h.seg \in UNION q'.todo \/ RowOf(h)' \in q'.read
        BY <1>1, <1>2, <1>4 DEF ScanInv, ScanProgress
  <2> QED
        BY <1>1, <1>3, <1>4, <2>2, <2>3 DEF ScanInv, ScanProgress
<1>5. CASE q.pc # "read"
      BY <1>1, <1>3, <1>5 DEF ScanInv, ScanProgress
<1> QED
      BY <1>4, <1>5

LEMMA ScanStepKeeps ==
  ScanInv /\ [Next]_vars => ScanInv'
<1> SUFFICES ASSUME ScanInv, [Next]_vars PROVE ScanInv'
      OBVIOUS
<1>1. CASE QueryStep
      BY <1>1, QueryStepKeepsScans
<1>2. CASE StoreStep
      BY <1>2, StoreStepKeepsScans
<1>3. ASSUME NEW c \in Callers, FeedbackStep(c) PROVE ScanInv'
  <2>1. UNCHANGED <<store, q, planned>>
        BY <1>3 DEF FeedbackStep, BeginFeedback, LoadOldProject, UpsertFeedback, DeleteFeedbackRollups,
                    SelectFeedback, InsertFeedbackRollup, FeedbackFails, At
  <2> QED
        BY <2>1, ScanKept
<1>4. CASE UNCHANGED vars
      BY <1>4, ScanKept DEF vars
<1> QED
      BY <1>1, <1>2, <1>3, <1>4 DEF Next

\* A scan that answers has grouped the rows that matched when it was planned,
\* whatever was written, deleted or cleaned up meanwhile.
THEOREM ScansAreOfTheirPlan == Spec => []ScansReadThePlan
<1>1. ScanInv => ScansReadThePlan
      BY DEF ScanInv, ScanProgress, ScansReadThePlan
<1> QED
      BY <1>1, ScanInit, ScanStepKeeps, PTL DEF Spec

----------------------------------------------------------------------------
(* Counting. *)

GroupsOf(V) == {v.group : v \in V}
RowsByGroup(V, rows, b) == IsFiniteSet(V) /\ b \in Bijection(GroupsOf(V), rows)
Counts(f, W, V, rows, b) ==
  /\ f \in [rows -> Int]
  /\ \A g \in GroupsOf(V) : f[b[g]] = Cardinality({v \in W : v.group = g})

\* The members of W, counted in rows by their group.
LEMMA CountedInRows ==
  ASSUME NEW V, NEW rows, NEW b, RowsByGroup(V, rows, b), NEW W \in SUBSET V, NEW f, Counts(f, W, V, rows, b)
  PROVE  Total(f) = Cardinality(W)
<1> USE DEF RowsByGroup, Counts
<1> DEFINE G == GroupsOf(V)
           F == [g \in G |-> {v \in W : v.group = g}]
           k == [v \in V |-> v.group]
<1>1. IsFiniteSet(W)
      BY FS_Subset
<1>2. IsFiniteSet(G)
  <2>1. k \in Surjection(V, G)
        BY DEF Surjection, GroupsOf
  <2> HIDE DEF k
  <2> QED
        BY <2>1, FS_Surjection
<1>3. Apart(G, F)
  <2>1. \A g \in G : F[g] \in SUBSET W
        OBVIOUS
  <2>2. \A g \in G : IsFiniteSet(F[g])
        BY <1>1, <2>1, FS_Subset
  <2>3. \A g, h \in G : g # h => F[g] \cap F[h] = {}
        OBVIOUS
  <2> QED
        BY <1>2, <2>2, <2>3 DEF Apart
<1>4. AllOf(G, F) = W
  <2>1. ASSUME NEW v \in W PROVE v \in AllOf(G, F)
    <3>1. v.group \in G /\ v \in F[v.group]
          BY DEF GroupsOf
    <3> QED
          BY <3>1 DEF AllOf
  <2>2. ASSUME NEW v \in AllOf(G, F) PROVE v \in W
        BY <2>2 DEF AllOf
  <2> QED
        BY <2>1, <2>2
<1>5. \A g \in G : f[b[g]] = Cardinality(F[g])
      OBVIOUS
<1> HIDE DEF F
<1>6. Cardinality(W) = Total([g \in G |-> Cardinality(F[g])])
      BY <1>3, <1>4, SizesAddUp
<1>7. [g \in G |-> Cardinality(F[g])] = [g \in G |-> f[b[g]]]
      BY <1>5
<1>8. Total([g \in G |-> f[b[g]]]) = Total(f)
      BY <1>2, SumsOfTheSame
<1> QED
      BY <1>6, <1>7, <1>8

LEMMA LargerOfTwo ==
  ASSUME NEW n \in Nat
  PROVE  Max({1, n}) = IF n = 0 THEN 1 ELSE n
<1>1. CASE n \in {0, 1}
  <2>1. \A x \in {1, n} : (\A y \in {1, n} : x >= y) <=> x = 1
        BY <1>1
  <2> QED
        BY <1>1, <2>1 DEF Max
<1>2. CASE n > 1
  <2>1. \A x \in {1, n} : (\A y \in {1, n} : x >= y) <=> x = n
        BY <1>2
  <2> QED
        BY <1>2, <2>1 DEF Max
<1> QED
      BY <1>1, <1>2

\* What a query may be given: finite sets of tags, and finitely many scores, under the
\* keys that it asks for.
TagsOK(query, tags) == "tag" \in Groups(query) => \A r \in Runs : IsFiniteSet(tags[r])
GivenOK(query, given) ==
  IsFiniteSet(given) /\ \A f \in given : query.keys = {} \/ f.key \in query.keys

Times(query, rec, tags, given) ==
  (IF "tag" \in Groups(query) THEN Max({1, Cardinality(tags[rec.run])}) ELSE 1)
  * (IF "feedback_key" \in Groups(query) THEN Cardinality({f \in given : f.run = rec.run}) ELSE 1)

\* How many variants a run has.
LEMMA VariantsOfARun ==
  ASSUME NEW query, NEW rec, rec.run \in Runs, NEW tags, TagsOK(query, tags),
         NEW given, GivenOK(query, given)
  PROVE  /\ IsFiniteSet(GroupVariants(query, rec, tags, given))
         /\ Cardinality(GroupVariants(query, rec, tags, given)) = Times(query, rec, tags, given)
         /\ \A v \in GroupVariants(query, rec, tags, given) : v.rec = rec
<1> DEFINE mine == {f \in given : f.run = rec.run /\ (query.keys = {} \/ f.key \in query.keys)}
           tagged == IF "tag" \in Groups(query) /\ tags[rec.run] # {} THEN tags[rec.run]
                     ELSE {"untagged"}
           Group(t, key) == [g \in Groups(query) |-> CASE g = "tag" -> t [] g = "feedback_key" -> key
                                                        [] OTHER -> ValueOf(query, g, rec)]
           all == GroupVariants(query, rec, tags, given)
<1>1. mine = {f \in given : f.run = rec.run}
      BY DEF GivenOK
<1>2. IsFiniteSet(mine)
      BY FS_Subset DEF GivenOK
<1>3. /\ IsFiniteSet(tagged)
      /\ Cardinality(tagged) = IF "tag" \in Groups(query) THEN Max({1, Cardinality(tags[rec.run])}) ELSE 1
  <2>1. IsFiniteSet({"untagged"}) /\ Cardinality({"untagged"}) = 1
        BY FS_Singleton
  <2>2. CASE "tag" \in Groups(query)
    <3>1. IsFiniteSet(tags[rec.run])
          BY <2>2 DEF TagsOK
    <3>2. Cardinality(tags[rec.run]) \in Nat /\ (Cardinality(tags[rec.run]) = 0 <=> tags[rec.run] = {})
          BY <3>1, FS_CardinalityType, FS_EmptySet
    <3>3. Max({1, Cardinality(tags[rec.run])})
            = IF Cardinality(tags[rec.run]) = 0 THEN 1 ELSE Cardinality(tags[rec.run])
          BY <3>2, LargerOfTwo
    <3> QED
          BY <2>1, <2>2, <3>1, <3>2, <3>3
  <2>3. CASE "tag" \notin Groups(query)
        BY <2>1, <2>3
  <2> QED
        BY <2>2, <2>3
<1>4. \A t, u \in tagged : \A j, k : Group(t, j) = Group(u, k) => t = u
  <2>1. CASE "tag" \in Groups(query)
    <3>1. \A t, j : Group(t, j)["tag"] = t
          BY <2>1
    <3> HIDE DEF Group
    <3> QED
          BY <3>1
  <2>2. CASE "tag" \notin Groups(query)
        BY <2>2
  <2> QED
        BY <2>1, <2>2
<1>5. CASE "feedback_key" \in Groups(query)
  <2> DEFINE V(t, f) == [rec |-> rec, group |-> Group(t, f.key), feedback |-> {f}]
             b == [p \in tagged \X mine |-> V(p[1], p[2])]
  <2>1. all = {V(t, f) : t \in tagged, f \in mine}
        BY <1>5 DEF GroupVariants
  <2>2. \A t, f : /\ V(t, f).rec = rec /\ V(t, f).group = Group(t, f.key) /\ V(t, f).feedback = {f}
        OBVIOUS
  <2> HIDE DEF Group, all, tagged, mine, V
  <2>3. \A p, r \in tagged \X mine : b[p] = b[r] => p = r
    <3> SUFFICES ASSUME NEW t \in tagged, NEW u \in tagged, NEW f \in mine, NEW h \in mine, V(t, f) = V(u, h)
                 PROVE  t = u /\ f = h
          OBVIOUS
    <3>1. {f} = {h} /\ Group(t, f.key) = Group(u, h.key)
          BY <2>2
    <3> QED
          BY <1>4, <3>1
  <2>4. b \in Bijection(tagged \X mine, all)
    <3>1. b \in [tagged \X mine -> all]
          BY <2>1
    <3>2. \A v \in all : \E p \in tagged \X mine : b[p] = v
      <4> SUFFICES ASSUME NEW t \in tagged, NEW f \in mine PROVE \E p \in tagged \X mine : b[p] = V(t, f)
            BY <2>1
      <4>1. <<t, f>> \in tagged \X mine /\ b[<<t, f>>] = V(t, f)
            OBVIOUS
      <4> QED
            BY <4>1
    <3> HIDE DEF b
    <3> QED
          BY <2>3, <3>1, <3>2 DEF Bijection, Injection, Surjection, IsInjective
  <2>5. /\ IsFiniteSet(tagged \X mine)
        /\ Cardinality(tagged \X mine) = Cardinality(tagged) * Cardinality(mine)
        BY <1>2, <1>3, FS_Product
  <2>6. IsFiniteSet(all) /\ Cardinality(all) = Cardinality(tagged) * Cardinality(mine)
    <3> HIDE DEF b
    <3> QED
        BY <2>4, <2>5, SameSize
  <2>7. \A v \in all : v.rec = rec
        BY <2>1, <2>2
  <2> QED
        BY <1>1, <1>3, <1>5, <2>6, <2>7 DEF Times, all
<1>6. CASE "feedback_key" \notin Groups(query)
  <2> DEFINE fb == IF query.keys = {} THEN {} ELSE mine
             V(t) == [rec |-> rec, group |-> Group(t, None), feedback |-> fb]
             b == [t \in tagged |-> V(t)]
  <2>1. all = {V(t) : t \in tagged}
        BY <1>6 DEF GroupVariants
  <2>2. \A t : V(t).rec = rec /\ V(t).group = Group(t, None)
        OBVIOUS
  <2> HIDE DEF Group, all, tagged, mine, V
  <2>3. \A t, u \in tagged : V(t) = V(u) => t = u
        BY <1>4, <2>2
  <2>4. b \in Bijection(tagged, all)
        BY <2>1, <2>3 DEF Bijection, Injection, Surjection, IsInjective
  <2>5. IsFiniteSet(all) /\ Cardinality(all) = Cardinality(tagged)
    <3> HIDE DEF b
    <3> QED
        BY <1>3, <2>4, SameSize
  <2>6. \A v \in all : v.rec = rec
        BY <2>1, <2>2
  <2>7. Cardinality(tagged) \in Nat
        BY <1>3, FS_CardinalityType
  <2>8. Times(query, rec, tags, given) = Cardinality(tagged) * 1
        BY <1>3, <1>6 DEF Times
  <2> QED
        BY <2>5, <2>6, <2>7, <2>8 DEF all
<1> QED
      BY <1>5, <1>6

\* The variants of the rows with an error, or of all rows.
LEMMA VariantsOfRows ==
  ASSUME NEW query, NEW recs, IsFiniteSet(recs), \A rec \in recs : rec.run \in Runs,
         NEW tags, TagsOK(query, tags), NEW given, GivenOK(query, given)
  PROVE  LET all == UNION {GroupVariants(query, rec, tags, given) : rec \in recs}
         IN  /\ IsFiniteSet(all)
             /\ Cardinality(all) = Total([rec \in recs |-> Times(query, rec, tags, given)])
             /\ \A v \in all : v.rec \in recs
<1> DEFINE F == [rec \in recs |-> GroupVariants(query, rec, tags, given)]
           all == UNION {GroupVariants(query, rec, tags, given) : rec \in recs}
<1>1. \A rec \in recs : /\ IsFiniteSet(F[rec])
                        /\ Cardinality(F[rec]) = Times(query, rec, tags, given)
                        /\ \A v \in F[rec] : v.rec = rec
      BY VariantsOfARun
<1>2. AllOf(recs, F) = all
      BY DEF AllOf
<1> HIDE DEF F
<1>3. Apart(recs, F)
      BY <1>1 DEF Apart
<1>4. /\ IsFiniteSet(AllOf(recs, F))
      /\ Cardinality(AllOf(recs, F)) = Total([rec \in recs |-> Cardinality(F[rec])])
      BY <1>3, SizesAddUp
<1>5. [rec \in recs |-> Cardinality(F[rec])] = [rec \in recs |-> Times(query, rec, tags, given)]
      BY <1>1
<1>6. \A v \in AllOf(recs, F) : v.rec \in recs
      BY <1>1 DEF AllOf
<1> QED
      BY <1>2, <1>4, <1>5, <1>6

\* The counts of an answer.
LEMMA AnswersCount ==
  ASSUME NEW query, NEW recs, IsFiniteSet(recs), \A rec \in recs : rec.run \in Runs,
         NEW tags, TagsOK(query, tags), NEW given, GivenOK(query, given),
         NEW answer, answer = AggregateRows(query, recs, tags, given)
  PROVE  /\ Total([row \in answer |-> row.count])
              = Total([rec \in recs |-> Times(query, rec, tags, given)])
         /\ Total([row \in answer |-> row.error_count])
              = Total([rec \in {x \in recs : x.error} |-> Times(query, rec, tags, given)])
<1> DEFINE all == UNION {GroupVariants(query, rec, tags, given) : rec \in recs}
           bad == {x \in recs : x.error}
           allbad == UNION {GroupVariants(query, rec, tags, given) : rec \in bad}
           W == {v \in all : v.rec.error}
           G == {v.group : v \in all}
           b == [g \in G |-> Accumulated(g, {v \in all : v.group = g})]
           count == [row \in answer |-> row.count]
           errors == [row \in answer |-> row.error_count]
<1>1. /\ IsFiniteSet(all) /\ \A v \in all : v.rec \in recs
      /\ Cardinality(all) = Total([rec \in recs |-> Times(query, rec, tags, given)])
      BY VariantsOfRows
<1>2. Cardinality(W) = Total([rec \in bad |-> Times(query, rec, tags, given)])
  <2>1. IsFiniteSet(bad) /\ \A rec \in bad : rec.run \in Runs
        BY FS_Subset
  <2>2. Cardinality(allbad) = Total([rec \in bad |-> Times(query, rec, tags, given)])
    <3> HIDE DEF bad
    <3> QED
          BY <2>1, VariantsOfRows
  <2>3. W = allbad
    <3>1. \A rec \in recs : \A v \in GroupVariants(query, rec, tags, given) : v.rec = rec
          BY VariantsOfARun
    <3> QED
          BY <3>1
  <2> QED
        BY <2>2, <2>3
<1>3. answer = {b[g] : g \in G}
      BY DEF AggregateRows
<1> DEFINE S(g) == {v \in all : v.group = g}
           E(g) == {v \in W : v.group = g}
<1>4. \A g \in G : b[g].group = g /\ b[g].count = Cardinality(S(g)) /\ b[g].error_count = Cardinality(E(g))
  <2> SUFFICES ASSUME NEW g \in G
               PROVE  b[g].group = g /\ b[g].count = Cardinality(S(g)) /\ b[g].error_count = Cardinality(E(g))
        OBVIOUS
  <2>1. {v \in S(g) : v.rec.error} = E(g)
        OBVIOUS
  <2>2. b[g] = Accumulated(g, S(g))
        OBVIOUS
  <2> HIDE DEF S, E, b
  <2>3. /\ b[g].group = g /\ b[g].count = Cardinality(S(g))
        /\ b[g].error_count = Cardinality({v \in S(g) : v.rec.error})
        BY <2>2 DEF Accumulated
  <2> QED
        BY <2>1, <2>3
<1>5. \A g \in G : Cardinality(S(g)) \in Nat /\ Cardinality(E(g)) \in Nat
  <2>1. \A g \in G : S(g) \in SUBSET all /\ E(g) \in SUBSET all
        OBVIOUS
  <2> HIDE DEF S, E, all
  <2> QED
        BY <1>1, <2>1, FS_Subset, FS_CardinalityType
<1>6. W \in SUBSET all /\ all \in SUBSET all /\ G = GroupsOf(all)
      BY DEF GroupsOf
<1>7. b \in [G -> answer]
      BY <1>3
<1> HIDE DEF G, b
<1>8. b \in Bijection(G, answer)
  <2>1. \A x, y \in G : b[x] = b[y] => x = y
        BY <1>4
  <2>2. \A row \in answer : \E g \in G : b[g] = row
        BY <1>3
  <2> QED
        BY <1>7, <2>1, <2>2 DEF Bijection, Injection, Surjection, IsInjective
<1>9. count \in [answer -> Int] /\ errors \in [answer -> Int]
  <2> HIDE DEF S, E
  <2>1. \A g \in G : b[g].count \in Int /\ b[g].error_count \in Int
        BY <1>4, <1>5
  <2>2. \A row \in answer : row.count \in Int /\ row.error_count \in Int
        BY <1>3, <2>1
  <2> QED
        BY <2>2
<1>10. \A g \in G : count[b[g]] = Cardinality(S(g)) /\ errors[b[g]] = Cardinality(E(g))
  <2> HIDE DEF S, E
  <2> QED
        BY <1>4, <1>7
<1> HIDE DEF count, errors, all, W
<1>11. RowsByGroup(all, answer, b)
       BY <1>1, <1>6, <1>8 DEF RowsByGroup
<1>12. Counts(count, all, all, answer, b) /\ Counts(errors, W, all, answer, b)
       BY <1>6, <1>9, <1>10 DEF Counts
<1>13. Total(count) = Cardinality(all) /\ Total(errors) = Cardinality(W)
       BY <1>6, <1>11, <1>12, CountedInRows
<1> QED
      BY <1>1, <1>2, <1>13 DEF count, errors

----------------------------------------------------------------------------
(* The first store. *)

WorldAt(w, r) == {h \in [seg : DOMAIN w, row : 1..2] :
                    h.row \in DOMAIN w[h.seg] /\ w[h.seg][h.row].run = r}
WorldHead(w, r) == CHOOSE h \in WorldAt(w, r) : \A g \in WorldAt(w, r) : g.seg =< h.seg
WorldNow(w) == {w[WorldHead(w, r).seg][WorldHead(w, r).row] : r \in {x \in Runs : WorldAt(w, x) # {}}}
IsWorld(w) ==
  /\ segments = [s \in DOMAIN w |-> [rows |-> w[s], object |-> TRUE]]
  /\ heads = [r \in Runs |-> IF r \in {x \in Runs : WorldAt(w, x) # {}} THEN WorldHead(w, r) ELSE None]
  /\ run_tags = [r \in Runs |-> UNION {rec.tags : rec \in {x \in WorldNow(w) : x.run = r}}]
  /\ rollups = UNION {RollupRows(p, {rec \in WorldNow(w) : rec.project = p}) : p \in Range(Projects)}

\* The first store, its steps named.
LEMMA InitIsAWorld ==
  ASSUME Init
  PROVE  \E w \in Worlds : IsWorld(w)
BY Zenon DEF Init, IsWorld, WorldAt, WorldHead, WorldNow

\* The last row of a run in a world is a version of the run.
LEMMA WorldHeads ==
  ASSUME NEW w \in Worlds, NEW r \in Runs, WorldAt(w, r) # {}
  PROVE  /\ WorldHead(w, r) \in WorldAt(w, r) /\ WorldHead(w, r) # None
         /\ w[WorldHead(w, r).seg][WorldHead(w, r).row] \in Versions
         /\ w[WorldHead(w, r).seg][WorldHead(w, r).row].run = r
<1>1. w \in Seq(Seq(Record))
      BY RunAggregatesAssumption
<1>2. Len(w) \in Nat /\ DOMAIN w = 1..Len(w) /\ \A s \in DOMAIN w : w[s] \in Seq(Record)
      BY <1>1
<1>3. \A h \in WorldAt(w, r) : h.seg \in 1..Len(w)
      BY <1>2 DEF WorldAt
<1>4. \E h \in WorldAt(w, r) : \A g \in WorldAt(w, r) : g.seg =< h.seg
      BY <1>2, <1>3, LatestExists
<1>5. WorldHead(w, r) \in WorldAt(w, r)
      BY <1>4 DEF WorldHead
<1> DEFINE h == WorldHead(w, r)
<1> HIDE DEF h
<1>6. h \in [seg : DOMAIN w, row : 1..2] /\ h.row \in DOMAIN w[h.seg] /\ w[h.seg][h.row].run = r
      BY <1>5 DEF WorldAt, h
<1>7. h \in [seg : Nat, row : Nat]
      BY <1>2, <1>6
<1>8. w[h.seg][h.row] \in Versions
  <2>1. w[h.seg][h.row] \in Range(w[h.seg]) /\ h.seg \in DOMAIN w
        BY <1>6 DEF Range
  <2>2. w[h.seg][h.row] \in UNION {Range(w[s]) : s \in DOMAIN w}
        BY <2>1
  <2> QED
        BY <2>2 DEF Versions
<1>9. h # None
      BY <1>7, RunAggregatesAssumption
<1> QED
      BY <1>5, <1>6, <1>8, <1>9 DEF h

----------------------------------------------------------------------------
(* Counts of scans. *)

\* A head points at a version of its run.
VersionsInv ==
  \A r \in Runs : heads[r] # None =>
    heads[r].seg \in DOMAIN segments /\ RowOf(heads[r]) \in Versions /\ RowOf(heads[r]).run = r

Scanned == q.pc = "answered" /\ q.source = "vortex"

CountInv ==
  /\ DOMAIN run_tags = Runs /\ \A r \in Runs : IsFiniteSet(run_tags[r])
  /\ IsFiniteSet(feedback)
  /\ IsFiniteSet(planned) /\ planned \subseteq Versions
  /\ q.pc # "idle" => q.query \in Queries
  /\ q.pc = "feedback" \/ Scanned => TagsOK(q.query, q.tags)
  /\ Scanned => GivenOK(q.query, q.given) /\ q.answer = AggregateRows(q.query, q.read, q.tags, q.given)

LEMMA VersionsAreRecords ==
  \A rec \in Versions : rec \in Record
<1>1. \A w \in Worlds : w \in Seq(Seq(Record))
      BY RunAggregatesAssumption
<1>2. \A w \in Worlds : \A s \in DOMAIN w : w[s] \in Seq(Record)
      BY <1>1
<1>3. \A w \in Worlds : \A s \in DOMAIN w : Range(w[s]) \subseteq Record
      BY <1>2 DEF Range
<1> QED
      BY <1>3, RunAggregatesAssumption DEF Versions

LEMMA VersionsInit ==
  ASSUME Init
  PROVE  VersionsInv
<1>1. PICK w \in Worlds : IsWorld(w)
      BY InitIsAWorld
<1> SUFFICES ASSUME NEW r \in Runs, heads[r] # None
             PROVE  heads[r].seg \in DOMAIN segments /\ RowOf(heads[r]) \in Versions /\ RowOf(heads[r]).run = r
      BY DEF VersionsInv
<1> DEFINE h == WorldHead(w, r)
<1>2. WorldAt(w, r) # {} /\ heads[r] = h
      BY <1>1 DEF IsWorld
<1>3. h \in WorldAt(w, r) /\ w[h.seg][h.row] \in Versions /\ w[h.seg][h.row].run = r
      BY <1>2, WorldHeads
<1> HIDE DEF h
<1>4. h.seg \in DOMAIN w
      BY <1>3 DEF WorldAt
<1>5. DOMAIN segments = DOMAIN w /\ segments[h.seg].rows = w[h.seg]
      BY <1>1, <1>4 DEF IsWorld
<1> QED
      BY <1>2, <1>3, <1>4, <1>5 DEF RowOf

LEMMA VersionsKept ==
  ASSUME StoreOK, VersionsInv, StoreStep
  PROVE  VersionsInv'
<1>1. \A h : h.seg \in DOMAIN segments => /\ h.seg \in DOMAIN segments'
                                         /\ segments'[h.seg].rows[h.row] = segments[h.seg].rows[h.row]
      BY RowsStay DEF RowOf
<1> SUFFICES ASSUME NEW r \in Runs, heads'[r] # None
             PROVE  /\ heads'[r].seg \in DOMAIN segments'
                    /\ RowOf(heads[r])' \in Versions /\ RowOf(heads[r])'.run = r
      BY DEF VersionsInv
<1>2. CASE heads'[r] = heads[r]
  <2>1. /\ heads[r].seg \in DOMAIN segments /\ RowOf(heads[r]) \in Versions /\ RowOf(heads[r]).run = r
        BY <1>2 DEF VersionsInv
  <2>2. heads[r].seg \in DOMAIN segments' /\ RowOf(heads[r])' = RowOf(heads[r])
        BY <1>1, <1>2, <2>1 DEF RowOf
  <2> QED
        BY <1>2, <2>1, <2>2
<1>3. CASE heads'[r] # heads[r]
  <2>1. WriteRun
        BY <1>3 DEF StoreStep, DeleteRun, CleanUp
  <2>2. PICK rec \in Records :
          /\ segments' = Append(segments, [rows |-> <<rec>>, object |-> TRUE])
          /\ heads' = [heads EXCEPT ![rec.run] = [seg |-> Len(segments) + 1, row |-> 1]]
        BY <2>1 DEF WriteRun
  <2>3. segments \in Seq(Segment) /\ DOMAIN heads = Runs
        BY DEF StoreOK
  <2>4. r = rec.run /\ heads'[r] = [seg |-> Len(segments) + 1, row |-> 1]
        BY <1>3, <2>2, <2>3
  <2> DEFINE new == [rows |-> <<rec>>, object |-> TRUE]
  <2>5. new.rows = <<rec>>
        OBVIOUS
  <2>6. segments' = Append(segments, new)
        BY <2>2
  <2> HIDE DEF new
  <2>7. Len(segments) + 1 \in DOMAIN segments' /\ segments'[Len(segments) + 1] = new
        BY <2>3, <2>6
  <2>8. <<rec>>[1] = rec
        OBVIOUS
  <2>9. RowOf(heads[r])' = rec /\ heads'[r].seg \in DOMAIN segments'
        BY <2>4, <2>5, <2>7, <2>8 DEF RowOf
  <2> QED
        BY <2>4, <2>9 DEF Versions
<1> QED
      BY <1>2, <1>3

\* The values of a function on a finite set, and a finite union of finite sets.
LEMMA ImageIsFinite ==
  ASSUME NEW S, IsFiniteSet(S), NEW f
  PROVE  IsFiniteSet({f[x] : x \in S})
<1> DEFINE T == {f[x] : x \in S}
           g == [x \in S |-> f[x]]
<1>1. g \in Surjection(S, T)
      BY DEF Surjection
<1> HIDE DEF g, T
<1>2. IsFiniteSet(T)
      BY <1>1, FS_Surjection
<1> QED
      BY <1>2 DEF T

LEMMA UnionIsFinite ==
  ASSUME NEW S, IsFiniteSet(S), NEW f, \A x \in S : IsFiniteSet(f[x])
  PROVE  IsFiniteSet(UNION {f[x] : x \in S})
<1> DEFINE T == {f[x] : x \in S}
<1>1. IsFiniteSet(T) /\ \A t \in T : IsFiniteSet(t)
      BY ImageIsFinite
<1> HIDE DEF T
<1>2. IsFiniteSet(UNION T)
      BY <1>1, FS_UNION
<1> QED
      BY <1>2 DEF T

LEMMA GivenIsOK ==
  ASSUME IsFiniteSet(feedback), NEW query, NEW recs, IsFiniteSet(recs)
  PROVE  GivenOK(query, Given(query, recs))
<1> DEFINE scored(rec) == {f \in feedback : /\ f.run_id = RowOf(heads[rec.run]).run_id
                                            /\ f.score # None /\ f.project \in {None, rec.project}
                                            /\ query.keys = {} \/ f.key \in query.keys}
           g(rec) == [f \in scored(rec) |-> [run |-> rec.run, id |-> f.id, key |-> f.key, score |-> f.score]]
           im == [rec \in recs |-> {g(rec)[f] : f \in scored(rec)}]
           G == Given(query, recs)
<1>1. G = UNION {im[rec] : rec \in recs}
  <2>1. G = UNION {{[run |-> rec.run, id |-> f.id, key |-> f.key, score |-> f.score] : f \in scored(rec)}
                   : rec \in recs}
        BY Zenon DEF Given
  <2>2. \A rec \in recs : im[rec] = {[run |-> rec.run, id |-> f.id, key |-> f.key, score |-> f.score] : f \in scored(rec)}
        OBVIOUS
  <2> HIDE DEF scored, im
  <2> QED
        BY <2>1, <2>2
<1>2. \A rec \in recs : im[rec] = {g(rec)[f] : f \in scored(rec)}
      OBVIOUS
<1>3. \A rec \in recs : \A f \in scored(rec) : /\ query.keys = {} \/ f.key \in query.keys
                                               /\ g(rec)[f].key = f.key
      OBVIOUS
<1>4. \A rec \in recs : IsFiniteSet(scored(rec))
      BY FS_Subset
<1> HIDE DEF scored, g, im
<1>5. \A rec \in recs : IsFiniteSet(im[rec])
      BY <1>2, <1>4, ImageIsFinite
<1>6. IsFiniteSet(G)
      BY <1>1, <1>5, UnionIsFinite
<1>7. ASSUME NEW x \in G PROVE query.keys = {} \/ x.key \in query.keys
  <2>1. PICK rec \in recs : x \in im[rec]
        BY <1>1
  <2>2. PICK f \in scored(rec) : x = g(rec)[f]
        BY <1>2, <2>1
  <2> QED
        BY <1>3, <2>2
<1> QED
      BY <1>6, <1>7 DEF GivenOK

LEMMA CountInit ==
  ASSUME Init
  PROVE  CountInv
<1>1. PICK w \in Worlds : IsWorld(w)
      BY InitIsAWorld
<1> DEFINE there == {x \in Runs : WorldAt(w, x) # {}}
           row == [r \in there |-> w[WorldHead(w, r).seg][WorldHead(w, r).row]]
           now == WorldNow(w)
           tags == [rec \in now |-> rec.tags]
<1>2. IsFiniteSet(there)
      BY RunAggregatesAssumption, FS_Subset
<1>3. now = {row[r] : r \in there} /\ \A r \in there : row[r] \in Versions
      BY WorldHeads DEF WorldNow
<1> HIDE DEF row, there
<1>4. IsFiniteSet(now) /\ now \subseteq Versions
      BY <1>2, <1>3, ImageIsFinite
<1> HIDE DEF now
<1>5. ASSUME NEW r \in Runs PROVE IsFiniteSet(run_tags[r])
  <2> DEFINE S == {x \in now : x.run = r}
  <2>1. IsFiniteSet(S) /\ S \subseteq now
        BY <1>4, FS_Subset
  <2>2. run_tags[r] = UNION {tags[rec] : rec \in S}
        BY <1>1, <2>1 DEF IsWorld, now
  <2>3. \A rec \in S : IsFiniteSet(tags[rec])
        BY <1>4, <2>1, RunAggregatesAssumption
  <2> HIDE DEF S, tags
  <2> QED
        BY <2>1, <2>2, <2>3, UnionIsFinite
<1>6. DOMAIN run_tags = Runs
      BY <1>1 DEF IsWorld
<1>7. feedback = {} /\ planned = {} /\ q.pc = "idle"
      BY DEF Init, Idle
<1> QED
      BY <1>5, <1>6, <1>7, FS_EmptySet DEF CountInv, Scanned

\* What a step of the query does not touch.
LEMMA QueryStepLeaves ==
  ASSUME QueryStep
  PROVE  run_tags' = run_tags /\ feedback' = feedback /\ segments' = segments /\ heads' = heads
BY DEF QueryStep, Ask, TryRollup, Plan, ReadPartition, LoadTags, LoadFeedbackAndGroup, QueryFails, store,
       scores

LEMMA QueryStepCounts ==
  ASSUME ScanInv, VersionsInv, CountInv, QueryStep
  PROVE  CountInv'
<1>1. /\ DOMAIN run_tags' = Runs /\ \A r \in Runs : IsFiniteSet(run_tags'[r])
      /\ IsFiniteSet(feedback')
      BY QueryStepLeaves DEF CountInv
<1>2. DOMAIN q = {"pc", "query", "distributed", "rows", "todo", "read", "tags", "given", "failed",
                  "source", "answer"}
      BY DEF ScanInv, ScanProgress
<1>3. IsFiniteSet(planned) /\ planned \subseteq Versions /\ (q.pc # "idle" => q.query \in Queries)
      BY DEF CountInv
\* Steps that neither plan nor answer from segments.
<1>4. ASSUME planned' = planned, q'.query \in Queries, q'.pc # "feedback", ~Scanned' PROVE CountInv'
      BY <1>1, <1>3, <1>4 DEF CountInv
<1>5. CASE Ask
  <2>1. planned' = planned
        BY <1>5 DEF Ask
  <2>2. PICK query \in Queries, distributed \in BOOLEAN :
          q' = [Idle EXCEPT !.query = query, !.distributed = distributed,
                            !.pc = IF Valid(query) THEN "rollup" ELSE "error"]
        BY <1>5 DEF Ask
  <2> DEFINE pc == IF Valid(query) THEN "rollup" ELSE "error"
  <2>3. pc \in {"rollup", "error"}
        OBVIOUS
  <2> HIDE DEF pc
  <2>4. q' = [Idle EXCEPT !.query = query, !.distributed = distributed, !.pc = pc]
        BY <2>2 DEF pc
  <2>5. q'.pc = pc /\ q'.query = query
        BY <2>4 DEF Idle
  <2> QED
        BY <1>4, <2>1, <2>3, <2>5 DEF Scanned
<1>6. CASE TryRollup
  <2> DEFINE source == IF RollupKind(q.query) = "feedback_key" THEN "feedback_rollup" ELSE "rollup"
             answer == RollupAnswer(q.query)
  <2>1. /\ q.pc = "rollup" /\ planned' = planned
        /\ \/ q' = [q EXCEPT !.pc = "answered", !.answer = answer, !.source = source]
           \/ q' = [q EXCEPT !.pc = "plan"]
        BY <1>6 DEF TryRollup
  <2>2. source # "vortex"
        OBVIOUS
  <2> HIDE DEF source, answer
  <2>3. /\ q'.query = q.query
        /\ q'.pc = "plan" \/ (q'.pc = "answered" /\ q'.source # "vortex")
        BY <1>2, <2>1, <2>2
  <2> QED
        BY <1>3, <1>4, <2>1, <2>3 DEF Scanned
<1>7. CASE Plan
  <2> DEFINE rows == Candidates(q.query)
             todo == Partitions({h.seg : h \in rows})
             there == {x \in Runs : /\ heads[x] # None
                                    /\ q.query.include_deleted \/ Visible(x)
                                    /\ FieldsMatch(q.query, RowOf(heads[x]))}
             row == [r \in Runs |-> RowOf(heads[r])]
  <2>1. /\ q.pc = "plan" /\ planned' = {RowOf(h) : h \in rows}
        /\ \/ q' = [q EXCEPT !.pc = "error"]
           \/ q' = [q EXCEPT !.pc = "read", !.rows = rows, !.todo = todo]
        BY <1>7 DEF Plan
  <2>2. there \subseteq Runs /\ \A r \in there : heads[r] # None
        OBVIOUS
  <2>3. rows = {heads[r] : r \in there}
        BY DEF Candidates
  <2> HIDE DEF rows, todo, there
  <2>4. IsFiniteSet(there) /\ \A r \in there : r \in Runs /\ heads[r] # None
        BY <2>2, RunAggregatesAssumption, FS_Subset
  <2>5. planned' = {row[r] : r \in there} /\ \A r \in there : row[r] \in Versions
    <3>1. \A r \in there : row[r] = RowOf(heads[r])
          BY <2>4
    <3>2. \A r \in there : row[r] \in Versions
          BY <2>4, <3>1 DEF VersionsInv
    <3> HIDE DEF row
    <3>3. planned' = {RowOf(heads[r]) : r \in there}
      <4>1. {RowOf(h) : h \in rows} = {RowOf(heads[r]) : r \in there}
            BY <2>3
      <4> QED
            BY <2>1, <4>1
    <3>4. {RowOf(heads[r]) : r \in there} = {row[r] : r \in there}
          BY <3>1
    <3> QED
          BY <3>2, <3>3, <3>4
  <2> HIDE DEF row
  <2>6. IsFiniteSet(planned') /\ planned' \subseteq Versions
        BY <2>4, <2>5, ImageIsFinite
  <2>7. q'.query = q.query /\ q'.pc \in {"error", "read"}
        BY <1>2, <2>1
  <2> QED
        BY <1>1, <1>3, <2>1, <2>6, <2>7 DEF CountInv, Scanned
<1>8. CASE ReadPartition
  <2>1. /\ q.pc = "read" /\ planned' = planned
        BY <1>8 DEF ReadPartition
  <2>2. PICK part \in q.todo :
          \/ q' = [q EXCEPT !.todo = q.todo \ {part}, !.read = q.read \cup AggregateRunRows(part)]
          \/ q' = [q EXCEPT !.todo = q.todo \ {part}, !.failed = TRUE]
          \/ q' = [q EXCEPT !.pc = "error"]
        BY <1>8 DEF ReadPartition
  <2> DEFINE got == AggregateRunRows(part)
  <2> HIDE DEF got
  <2>3. q'.query = q.query /\ q'.pc \in {"read", "error"}
        BY <1>2, <2>1, <2>2 DEF got
  <2> QED
        BY <1>3, <1>4, <2>1, <2>3 DEF Scanned
<1>9. CASE LoadTags
  <2> DEFINE tags == IF "tag" \in Groups(q.query) THEN run_tags ELSE <<>>
  <2>1. /\ q.pc = "read" /\ planned' = planned
        /\ \/ q' = [q EXCEPT !.pc = "error"]
           \/ q' = [q EXCEPT !.pc = "feedback", !.tags = tags]
        BY <1>9 DEF LoadTags
  <2>2. TagsOK(q.query, tags)
        BY DEF TagsOK, CountInv
  <2> HIDE DEF tags
  <2>3. q'.query = q.query /\ (q'.pc = "error" \/ (q'.pc = "feedback" /\ q'.tags = tags))
        BY <1>2, <2>1
  <2> QED
        BY <1>1, <1>3, <2>1, <2>2, <2>3 DEF CountInv, Scanned
<1>10. CASE LoadFeedbackAndGroup
  <2> DEFINE given == FeedbackFor(q.query, q.read)
             answer == AggregateRows(q.query, q.read, q.tags, given)
  <2>1. /\ q.pc = "feedback" /\ planned' = planned
        /\ q' = [q EXCEPT !.pc = "answered", !.source = "vortex", !.given = given, !.answer = answer]
        BY <1>10 DEF LoadFeedbackAndGroup
  <2>2. TagsOK(q.query, q.tags)
        BY <2>1 DEF CountInv
  <2>3. q.read = planned
        BY <2>1 DEF ScanInv, ScanProgress
  <2>4. GivenOK(q.query, given)
    <3>1. IsFiniteSet(q.read) /\ IsFiniteSet(feedback)
          BY <1>3, <2>3 DEF CountInv
    <3>2. GivenOK(q.query, Given(q.query, q.read))
          BY <3>1, GivenIsOK
    <3>3. GivenOK(q.query, {})
          BY FS_EmptySet DEF GivenOK
    <3> QED
          BY <3>2, <3>3 DEF FeedbackFor
  <2> HIDE DEF given
  <2>5. answer = AggregateRows(q.query, q.read, q.tags, given)
        OBVIOUS
  <2> HIDE DEF answer
  <2>6. /\ q'.query = q.query /\ q'.read = q.read /\ q'.tags = q.tags /\ q'.given = given
        /\ q'.answer = answer /\ q'.pc = "answered"
        BY <1>2, <2>1
  <2> QED
        BY <1>1, <1>3, <2>1, <2>2, <2>4, <2>5, <2>6 DEF CountInv, Scanned
<1>11. CASE QueryFails
  <2>1. q'.query = q.query /\ q'.pc = "error" /\ planned' = planned /\ q.pc # "idle"
        BY <1>2, <1>11 DEF QueryFails, Running
  <2> QED
        BY <1>3, <1>4, <2>1 DEF Scanned
<1> QED
      BY <1>5, <1>6, <1>7, <1>8, <1>9, <1>10, <1>11 DEF QueryStep

LEMMA StoreStepCounts ==
  ASSUME CountInv, StoreStep
  PROVE  CountInv'
<1>1. q' = q /\ planned' = planned /\ feedback' = feedback
      BY DEF StoreStep, WriteRun, DeleteRun, CleanUp, Changed, scores
<1>2. DOMAIN run_tags' = Runs /\ \A r \in Runs : IsFiniteSet(run_tags'[r])
  <2>1. CASE run_tags' = run_tags
        BY <2>1 DEF CountInv
  <2>2. CASE WriteRun
    <3>1. PICK rec \in Records : run_tags' = [run_tags EXCEPT ![rec.run] = rec.tags]
          BY <2>2 DEF WriteRun
    <3>2. IsFiniteSet(rec.tags)
          BY RunAggregatesAssumption DEF Versions
    <3> QED
          BY <3>1, <3>2 DEF CountInv
  <2> QED
        BY <2>1, <2>2 DEF StoreStep, DeleteRun, CleanUp
<1> QED
      BY <1>1, <1>2 DEF CountInv, Scanned

LEMMA FeedbackStepCounts ==
  ASSUME CountInv, NEW c \in Callers, FeedbackStep(c)
  PROVE  CountInv'
<1>1. UNCHANGED <<store, q, planned>>
      BY DEF FeedbackStep, BeginFeedback, LoadOldProject, UpsertFeedback, DeleteFeedbackRollups,
             SelectFeedback, InsertFeedbackRollup, FeedbackFails, At
<1>2. q' = q /\ planned' = planned /\ run_tags' = run_tags
      BY <1>1 DEF store
<1>3. IsFiniteSet(feedback')
  <2>1. CASE feedback' = feedback
        BY <2>1 DEF CountInv
  <2>2. CASE UpsertFeedback(c)
    <3>1. PICK was, row : feedback' = (feedback \ was) \cup {row}
          BY <2>2 DEF UpsertFeedback
    <3>2. IsFiniteSet(feedback \ was)
          BY FS_Difference DEF CountInv
    <3> QED
          BY <3>1, <3>2, FS_AddElement
  <2> QED
        BY <2>1, <2>2 DEF FeedbackStep, BeginFeedback, LoadOldProject, DeleteFeedbackRollups,
             SelectFeedback, InsertFeedbackRollup, FeedbackFails, At
<1> QED
      BY <1>2, <1>3 DEF CountInv, Scanned

\* VersionsInv and what is counted, together.
LEMMA CountStepKeeps ==
  ScanInv /\ VersionsInv /\ CountInv /\ [Next]_vars => VersionsInv' /\ CountInv'
<1> SUFFICES ASSUME ScanInv, VersionsInv, CountInv, [Next]_vars PROVE VersionsInv' /\ CountInv'
      OBVIOUS
<1>1. CASE QueryStep
      BY <1>1, QueryStepCounts, QueryStepLeaves DEF VersionsInv, RowOf
<1>2. CASE StoreStep
      BY <1>2, StoreStepCounts, VersionsKept DEF ScanInv
<1>3. ASSUME NEW c \in Callers, FeedbackStep(c) PROVE VersionsInv' /\ CountInv'
  <2>1. UNCHANGED <<store, q, planned>>
        BY <1>3 DEF FeedbackStep, BeginFeedback, LoadOldProject, UpsertFeedback, DeleteFeedbackRollups,
                    SelectFeedback, InsertFeedbackRollup, FeedbackFails, At
  <2> QED
        BY <1>3, <2>1, FeedbackStepCounts DEF VersionsInv, RowOf, store
<1>4. CASE UNCHANGED vars
      BY <1>4 DEF VersionsInv, RowOf, CountInv, Scanned, vars, store, scores
<1> QED
      BY <1>1, <1>2, <1>3, <1>4 DEF Next

\* A scan that answers has counted every run of its plan once for each of its tags and
\* scores that it groups by, and those with errors as often, whatever was written,
\* deleted or cleaned up meanwhile and however the segments were cut.
THEOREM ScansCount == Spec => []ScansCountThePlan
<1>1. ScanInv /\ CountInv => ScansCountThePlan
  <2> SUFFICES ASSUME ScanInv, CountInv, Scanned
               PROVE  /\ Total([row \in q.answer |-> row.count])
                           = Total([rec \in planned |-> Times(q.query, rec, q.tags, q.given)])
                      /\ Total([row \in q.answer |-> row.error_count])
                           = Total([rec \in {x \in planned : x.error} |-> Times(q.query, rec, q.tags, q.given)])
        BY DEF ScansCountThePlan, Scanned, Times
  <2>1. q.read = planned
        BY DEF ScanInv, ScanProgress, Scanned
  <2>2. IsFiniteSet(planned) /\ \A rec \in planned : rec.run \in Runs
        BY VersionsAreRecords DEF CountInv, Record
  <2>3. /\ TagsOK(q.query, q.tags) /\ GivenOK(q.query, q.given)
        /\ q.answer = AggregateRows(q.query, planned, q.tags, q.given)
        BY <2>1 DEF CountInv
  <2> QED
        BY <2>2, <2>3, AnswersCount
<1>2. Init => ScanInv /\ VersionsInv /\ CountInv
      BY ScanInit, VersionsInit, CountInit
<1>3. ScanInv /\ VersionsInv /\ CountInv /\ [Next]_vars => (ScanInv /\ VersionsInv /\ CountInv)'
      BY ScanStepKeeps, CountStepKeeps
<1> QED
      BY <1>1, <1>2, <1>3, PTL DEF Spec

----------------------------------------------------------------------------
(* Measures of the same values. *)

\* What corresponds to a part of the one set is as large.
LEMMA PartsCorrespond ==
  ASSUME NEW S, IsFiniteSet(S), NEW T, NEW b \in Bijection(S, T), NEW P \in SUBSET T
  PROVE  Cardinality({x \in S : b[x] \in P}) = Cardinality(P)
<1> DEFINE R == {x \in S : b[x] \in P}
           c == [x \in R |-> b[x]]
<1>1. /\ b \in [S -> T]
      /\ \A x, y \in S : b[x] = b[y] => x = y
      /\ \A y \in T : \E x \in S : b[x] = y
      BY DEF Bijection, Injection, Surjection, IsInjective
<1>2. IsFiniteSet(R)
      BY FS_Subset
<1>3. c \in Bijection(R, P)
      BY <1>1 DEF Bijection, Injection, Surjection, IsInjective
<1> HIDE DEF R, c
<1>4. Cardinality(P) = Cardinality(R)
      BY <1>2, <1>3, SameSize
<1> QED
      BY <1>4 DEF R

\* g has the values of f, by a correspondence of what they are the values of.
SameValues(g, f, b) ==
  /\ IsFiniteSet(DOMAIN g) /\ b \in Bijection(DOMAIN g, DOMAIN f)
  /\ f \in [DOMAIN f -> Int] /\ g = [x \in DOMAIN g |-> f[b[x]]]

\* So the percentiles, ...
LEMMA SamePercentile ==
  ASSUME NEW f, NEW g, NEW b, SameValues(g, f, b), NEW p
  PROVE  /\ Range(g) = Range(f) /\ Cardinality(DOMAIN g) = Cardinality(DOMAIN f)
         /\ Percentile(g, p) = Percentile(f, p)
<1> USE DEF SameValues
<1>1. /\ b \in [DOMAIN g -> DOMAIN f]
      /\ \A y \in DOMAIN f : \E x \in DOMAIN g : b[x] = y
      BY DEF Bijection, Injection, Surjection
<1>2. Range(g) = Range(f)
      BY <1>1 DEF Range
<1>3. Cardinality(DOMAIN g) = Cardinality(DOMAIN f)
      BY SameSize
<1>4. ASSUME NEW v
      PROVE  /\ Cardinality({x \in DOMAIN g : g[x] < v}) = Cardinality({y \in DOMAIN f : f[y] < v})
             /\ Cardinality({x \in DOMAIN g : g[x] =< v}) = Cardinality({y \in DOMAIN f : f[y] =< v})
  <2> DEFINE P == {y \in DOMAIN f : f[y] < v}
             Q == {y \in DOMAIN f : f[y] =< v}
  <2>1. P \in SUBSET DOMAIN f /\ Q \in SUBSET DOMAIN f
        OBVIOUS
  <2>2. /\ {x \in DOMAIN g : g[x] < v} = {x \in DOMAIN g : b[x] \in P}
        /\ {x \in DOMAIN g : g[x] =< v} = {x \in DOMAIN g : b[x] \in Q}
        BY <1>1
  <2> HIDE DEF P, Q
  <2>3. /\ Cardinality({x \in DOMAIN g : b[x] \in P}) = Cardinality(P)
        /\ Cardinality({x \in DOMAIN g : b[x] \in Q}) = Cardinality(Q)
        BY <2>1, PartsCorrespond
  <2> QED
        BY <2>2, <2>3 DEF P, Q
<1>5. Percentile(g, p) = Percentile(f, p)
      BY <1>2, <1>3, <1>4 DEF Percentile
<1> QED
      BY <1>2, <1>3, <1>5

\* ... sums and averages are the same.
LEMMA SameTotal ==
  ASSUME NEW f, NEW g, NEW b, SameValues(g, f, b)
  PROVE  Total(g) = Total(f) /\ Average(g) = Average(f)
<1> USE DEF SameValues
<1>1. Total([x \in DOMAIN g |-> f[b[x]]]) = Total(f)
      BY SumsOfTheSame
<1>2. Cardinality(DOMAIN g) = Cardinality(DOMAIN f) /\ (DOMAIN g = {} <=> DOMAIN f = {})
  <2>1. Cardinality(DOMAIN g) = Cardinality(DOMAIN f)
        BY SameSize
  <2>2. DOMAIN g = {} <=> DOMAIN f = {}
        BY DEF Bijection, Surjection
  <2> QED
        BY <2>1, <2>2
<1> QED
      BY <1>1, <1>2 DEF Average

\* The same of values of which some may not be known.
SameValuesOrNone(g, f, b) ==
  /\ IsFiniteSet(DOMAIN g) /\ b \in Bijection(DOMAIN g, DOMAIN f)
  /\ f \in [DOMAIN f -> Int \cup {None}] /\ g = [x \in DOMAIN g |-> f[b[x]]]

\* What is known of them corresponds, ...
LEMMA SameKnown ==
  ASSUME NEW f, NEW g, NEW b, SameValuesOrNone(g, f, b)
  PROVE  /\ \E c : SameValues(Known(g), Known(f), c)
         /\ DOMAIN Known(g) = {} <=> DOMAIN Known(f) = {}
<1> USE DEF SameValuesOrNone
<1> DEFINE c == [x \in DOMAIN Known(g) |-> b[x]]
<1>1. /\ b \in [DOMAIN g -> DOMAIN f]
      /\ \A x, y \in DOMAIN g : b[x] = b[y] => x = y
      /\ \A y \in DOMAIN f : \E x \in DOMAIN g : b[x] = y
      BY DEF Bijection, Injection, Surjection, IsInjective
<1>2. /\ DOMAIN Known(g) = {x \in DOMAIN g : f[b[x]] # None}
      /\ DOMAIN Known(f) = {y \in DOMAIN f : f[y] # None}
      /\ \A x \in DOMAIN Known(g) : Known(g)[x] = f[b[x]]
      /\ \A y \in DOMAIN Known(f) : Known(f)[y] = f[y]
      /\ Known(g) = [x \in DOMAIN Known(g) |-> Known(g)[x]]
      /\ Known(f) = [x \in DOMAIN Known(f) |-> Known(f)[x]]
      BY DEF Known
<1> DEFINE kg == Known(g)
           kf == Known(f)
<1> HIDE DEF kg, kf
<1>3. c \in Bijection(DOMAIN kg, DOMAIN kf)
      BY <1>1, <1>2 DEF Bijection, Injection, Surjection, IsInjective, kg, kf
<1>4. IsFiniteSet(DOMAIN kg)
      BY <1>2, FS_Subset DEF kg
<1>5. kf \in [DOMAIN kf -> Int]
      BY <1>2 DEF kf
<1>6. kg = [x \in DOMAIN kg |-> kf[c[x]]]
  <2>1. \A x \in DOMAIN kg : c[x] \in DOMAIN kf /\ kg[x] = kf[c[x]]
        BY <1>1, <1>2 DEF kg, kf
  <2>2. kg = [x \in DOMAIN kg |-> kg[x]]
        BY <1>2 DEF kg
  <2> QED
        BY <2>1, <2>2
<1>7. SameValues(kg, kf, c)
      BY <1>3, <1>4, <1>5, <1>6 DEF SameValues
<1>8. DOMAIN kg = {} <=> DOMAIN kf = {}
      BY <1>3 DEF Bijection, Surjection
<1> QED
      BY <1>7, <1>8 DEF kg, kf

\* ... and so their statistics are the same.
LEMMA SameMeasures ==
  ASSUME NEW f, NEW g, NEW b, SameValuesOrNone(g, f, b), NEW percentiles
  PROVE  /\ NumericStats(g, percentiles) = NumericStats(f, percentiles)
         /\ Average(Known(g)) = Average(Known(f)) /\ Total(Known(g)) = Total(Known(f))
<1> DEFINE kg == Known(g)
           kf == Known(f)
<1>1. PICK c : SameValues(kg, kf, c)
      BY SameKnown
<1>2. DOMAIN kg = {} <=> DOMAIN kf = {}
      BY SameKnown
<1> HIDE DEF kg, kf
<1>3. /\ Range(kg) = Range(kf) /\ Cardinality(DOMAIN kg) = Cardinality(DOMAIN kf)
      /\ Percentile(kg, 50) = Percentile(kf, 50) /\ Percentile(kg, 95) = Percentile(kf, 95)
      /\ Percentile(kg, 99) = Percentile(kf, 99)
      BY <1>1, SamePercentile
<1>4. Total(kg) = Total(kf) /\ Average(kg) = Average(kf)
      BY <1>1, SameTotal
<1>5. NumericStats(g, percentiles) = NumericStats(f, percentiles)
      BY <1>2, <1>3, <1>4, Zenon DEF NumericStats, kg, kf
<1> QED
      BY <1>4, <1>5 DEF kg, kf

----------------------------------------------------------------------------
(* Queries that rollups answer. *)

RollupKinds == {"project", "run_type", "model", "error"}
RunEligible(query) ==
  query \in Queries /\ RollupEligible(query) /\ RollupKind(query) # "feedback_key"

\* They group by project, time and what the rollup is of, and nothing else.
LEMMA EligibleGroups ==
  ASSUME NEW query, RunEligible(query)
  PROVE  /\ RollupKind(query) \in RollupKinds
         /\ Groups(query) = {"project", "time_bucket"} \cup {RollupKind(query)}
<1> DEFINE rest == Groups(query) \ {"project", "time_bucket"}
           kinds == {"run_type", "model", "error", "feedback_key"}
           kind == RollupKind(query)
<1>1. kind # None /\ kind # "feedback_key"
      BY DEF RunEligible, RollupEligible
<1>2. {"project", "time_bucket"} \subseteq Groups(query)
      BY <1>1 DEF RollupKind
<1>3. CASE rest = {}
  <2>1. kind = "project"
        BY <1>2, <1>3 DEF RollupKind
  <2> QED
        BY <1>2, <1>3, <2>1 DEF RollupKinds
<1>4. CASE rest # {}
  <2>1. Cardinality(rest) = 1 /\ rest \subseteq kinds /\ kind = CHOOSE g \in rest : TRUE
        BY <1>1, <1>2, <1>4 DEF RollupKind
  <2>2. kind \in rest
        BY <1>4, <2>1
  <2> HIDE DEF kind, rest
  <2>3. IsFiniteSet(rest)
    <3>1. IsFiniteSet(kinds)
      <4>1. \A x : IsFiniteSet({x})
            BY FS_Singleton
      <4>2. \A x, y : IsFiniteSet({x} \cup {y})
            BY <4>1, FS_Union
      <4>3. IsFiniteSet(({"run_type"} \cup {"model"}) \cup ({"error"} \cup {"feedback_key"}))
            BY <4>2, FS_Union
      <4>4. kinds = ({"run_type"} \cup {"model"}) \cup ({"error"} \cup {"feedback_key"})
            OBVIOUS
      <4> QED
            BY <4>3, <4>4
    <3> QED
          BY <2>1, <3>1, FS_Subset
  <2>4. rest = {kind}
        BY <2>1, <2>2, <2>3, FS_Singleton
  <2> QED
        BY <1>1, <1>2, <2>1, <2>2, <2>4 DEF RollupKinds, rest, kind
<1> QED
      BY <1>3, <1>4

\* The group of a run in an answer, and the key of its rollup.
GroupWith(query, project, bucket, value) ==
  [g \in Groups(query) |->
     CASE g = "project" -> project [] g = "time_bucket" -> bucket [] OTHER -> value]
RollupKey(kind, rec) == <<rec.project, BucketOf(rec.start, Bucket), GroupValue(kind, rec)>>
GroupFor(query, rec) ==
  GroupWith(query, rec.project, BucketOf(rec.start, Bucket), GroupValue(RollupKind(query), rec))

\* Runs have one group when they have one key.
LEMMA GroupsAreKeys ==
  ASSUME NEW query, RunEligible(query), NEW a \in Record, NEW b \in Record
  PROVE  GroupFor(query, a) = GroupFor(query, b)
           <=> RollupKey(RollupKind(query), a) = RollupKey(RollupKind(query), b)
<1> DEFINE kind == RollupKind(query)
           ba == BucketOf(a.start, Bucket)
           bb == BucketOf(b.start, Bucket)
           va == GroupValue(kind, a)
           vb == GroupValue(kind, b)
<1>1. kind \in RollupKinds /\ Groups(query) = {"project", "time_bucket"} \cup {kind}
      BY EligibleGroups
<1>2. kind = "project" => va = a.project /\ vb = b.project
      BY DEF GroupValue
<1>3. kind # "project" => kind # "time_bucket"
      BY <1>1 DEF RollupKinds
<1> HIDE DEF kind, ba, bb, va, vb
<1>4. ASSUME GroupFor(query, a) = GroupFor(query, b)
      PROVE  a.project = b.project /\ ba = bb /\ va = vb
  <2> DEFINE ga == GroupFor(query, a)
             gb == GroupFor(query, b)
  <2>1. /\ ga["project"] = a.project /\ gb["project"] = b.project
        /\ ga["time_bucket"] = ba /\ gb["time_bucket"] = bb
        /\ kind # "project" => ga[kind] = va /\ gb[kind] = vb
        BY <1>1, <1>3 DEF GroupFor, GroupWith, ba, bb, va, vb, kind
  <2> HIDE DEF ga, gb
  <2>2. ga = gb
        BY <1>4 DEF ga, gb
  <2> QED
        BY <1>2, <2>1, <2>2
<1>5. ASSUME a.project = b.project, ba = bb, va = vb
      PROVE  GroupFor(query, a) = GroupFor(query, b)
      BY <1>5 DEF GroupFor, ba, bb, va, vb, kind
<1> QED
      BY <1>4, <1>5 DEF RollupKey, ba, bb, va, vb, kind

\* The scores that a run brings to its group, when the query asks for any.
ScoresOf(query, rec, given) ==
  IF query.keys = {} THEN {} ELSE {f \in given : f.run = rec.run /\ f.key \in query.keys}
Variant(query, rec, given) ==
  [rec |-> rec, group |-> GroupFor(query, rec), feedback |-> ScoresOf(query, rec, given)]

\* A run is counted once, in its group.
LEMMA EligibleVariants ==
  ASSUME NEW query, RunEligible(query), NEW rec \in Record, NEW tags, NEW given
  PROVE  GroupVariants(query, rec, tags, given) = {Variant(query, rec, given)}
<1> DEFINE kind == RollupKind(query)
           value == [g \in Groups(query) |-> ValueOf(query, g, rec)]
<1>1. kind \in RollupKinds /\ Groups(query) = {"project", "time_bucket"} \cup {kind}
      BY EligibleGroups
<1>2. "tag" \notin Groups(query) /\ "feedback_key" \notin Groups(query)
      BY <1>1 DEF RollupKinds
<1>3. query.size = Bucket
      BY DEF RunEligible, RollupEligible
<1>4. /\ ValueOf(query, "project", rec) = rec.project
      /\ ValueOf(query, "time_bucket", rec) = BucketOf(rec.start, Bucket)
      /\ kind # "project" => ValueOf(query, kind, rec) = GroupValue(kind, rec) /\ kind # "time_bucket"
      BY <1>1, <1>3 DEF ValueOf, GroupValue, RollupKinds
<1>5. value = GroupFor(query, rec)
      BY <1>1, <1>4 DEF GroupFor, GroupWith
<1>6. [g \in Groups(query) |-> CASE g = "tag" -> "untagged" [] g = "feedback_key" -> None
                                [] OTHER -> ValueOf(query, g, rec)] = value
      BY <1>2
<1> HIDE DEF value, kind
<1> DEFINE mine == {f \in given : f.run = rec.run /\ (query.keys = {} \/ f.key \in query.keys)}
<1>7. (IF query.keys = {} THEN {} ELSE mine) = ScoresOf(query, rec, given)
      BY DEF ScoresOf
<1>8. GroupVariants(query, rec, tags, given)
        = {[rec |-> rec, group |-> value, feedback |-> IF query.keys = {} THEN {} ELSE mine]}
      BY <1>2, <1>6 DEF GroupVariants
<1> QED
      BY <1>5, <1>7, <1>8 DEF Variant

\* Limits at the edges of buckets: a run is within when its bucket is.
LEMMA WholeBuckets ==
  ASSUME NEW t \in Int, NEW m \in Int
  PROVE  /\ BucketOf(t, Bucket) \in Int
         /\ m % Bucket = 0 => (BucketOf(t, Bucket) >= m <=> t >= m)
         /\ (m + 1) % Bucket = 0 => (BucketOf(t, Bucket) =< m <=> t =< m)
<1> DEFINE d == t \div Bucket
           r == t % Bucket
<1>1. Bucket \in Nat /\ Bucket > 0
      BY RunAggregatesAssumption
<1>2. d \in Int /\ r \in Int /\ 0 =< r /\ r < Bucket /\ t = d * Bucket + r
      BY <1>1
<1>3. BucketOf(t, Bucket) = d * Bucket
      BY DEF BucketOf
<1> HIDE DEF d, r
<1>4. ASSUME NEW n \in Int, n % Bucket = 0
      PROVE  (d * Bucket >= n <=> t >= n) /\ (d * Bucket < n <=> t < n)
  <2> DEFINE e == n \div Bucket
  <2>1. e \in Int /\ n = e * Bucket
        BY <1>1, <1>4
  <2> HIDE DEF e
  <2>2. CASE d >= e
    <3>1. (d - e) * Bucket >= 0
          BY <1>1, <1>2, <2>1, <2>2
    <3>2. d * Bucket - e * Bucket >= 0
          BY <1>1, <1>2, <2>1, <3>1
    <3> QED
          BY <1>1, <1>2, <2>1, <3>2
  <2>3. CASE d < e
    <3>1. (e - d - 1) * Bucket >= 0
          BY <1>1, <1>2, <2>1, <2>3
    <3>2. e * Bucket - d * Bucket - Bucket >= 0
          BY <1>1, <1>2, <2>1, <3>1
    <3> QED
          BY <1>1, <1>2, <2>1, <3>2
  <2> QED
        BY <1>2, <2>1, <2>2, <2>3
<1>5. d * Bucket \in Int
      BY <1>1, <1>2
<1>6. ASSUME (m + 1) % Bucket = 0 PROVE d * Bucket < m + 1 <=> t < m + 1
      BY <1>4, <1>6
<1> QED
      BY <1>3, <1>4, <1>5, <1>6

KeyMatches(query, k) ==
  /\ k[1] \in query.projects
  /\ query.min = None \/ k[2] >= query.min
  /\ query.max = None \/ k[2] =< query.max
  /\ query.type = None \/ k[3] = query.type
  /\ query.error = None \/ k[3] = Text(query.error)

\* Whether a run matches can be seen from the key of its rollup.
LEMMA MatchedByKey ==
  ASSUME NEW query, RunEligible(query), NEW rec \in Record
  PROVE  FieldsMatch(query, rec) <=> KeyMatches(query, RollupKey(RollupKind(query), rec))
<1> DEFINE kind == RollupKind(query)
           bucket == BucketOf(rec.start, Bucket)
           value == GroupValue(kind, rec)
<1>1. /\ query.min \in Int \cup {None} /\ query.max \in Int \cup {None}
      /\ query.error \in BOOLEAN \cup {None} /\ rec.start \in Int /\ rec.error \in BOOLEAN
      BY RunAggregatesAssumption DEF RunEligible, Query, Record
<1>2. /\ query.model = None
      /\ query.error # None => kind = "error"
      /\ query.type # None => kind = "run_type"
      /\ query.min = None \/ query.min % Bucket = 0
      /\ query.max = None \/ (query.max + 1) % Bucket = 0
      BY DEF RunEligible, RollupEligible, RollupFiltersAreExact, TimeFiltersCoverWholeRollupBuckets
<1>3. /\ kind = "error" => value = Text(rec.error)
      /\ kind = "run_type" => value = rec.type
      BY DEF GroupValue
<1> HIDE DEF kind, bucket, value
<1>4. /\ query.min = None \/ bucket >= query.min <=> query.min = None \/ rec.start >= query.min
      /\ query.max = None \/ bucket =< query.max <=> query.max = None \/ rec.start =< query.max
  <2>1. query.min # None => (bucket >= query.min <=> rec.start >= query.min)
        BY <1>1, <1>2, WholeBuckets DEF bucket
  <2>2. query.max # None => (bucket =< query.max <=> rec.start =< query.max)
        BY <1>1, <1>2, WholeBuckets DEF bucket
  <2> QED
        BY <2>1, <2>2
<1>5. query.type = None \/ value = query.type <=> query.type \in {None, rec.type}
      BY <1>2, <1>3
<1>6. query.error = None \/ value = Text(query.error) <=> query.error = None \/ query.error = rec.error
  <2>1. CASE query.error = None
        BY <2>1
  <2>2. CASE query.error # None
    <3>1. value = Text(rec.error) /\ query.error \in BOOLEAN
          BY <1>1, <1>2, <1>3, <2>2
    <3>2. Text(rec.error) = Text(query.error) <=> query.error = rec.error
          BY <1>1, <3>1 DEF Text
    <3> QED
          BY <2>2, <3>1, <3>2
  <2> QED
        BY <2>1, <2>2
<1>7. RollupKey(RollupKind(query), rec) = <<rec.project, bucket, value>>
      BY DEF RollupKey, bucket, value, kind
<1>8. KeyMatches(query, <<rec.project, bucket, value>>)
        <=> /\ rec.project \in query.projects
            /\ query.min = None \/ bucket >= query.min
            /\ query.max = None \/ bucket =< query.max
            /\ query.type = None \/ value = query.type
            /\ query.error = None \/ value = Text(query.error)
      BY DEF KeyMatches
<1> QED
      BY <1>2, <1>4, <1>5, <1>6, <1>7, <1>8, Zenon DEF FieldsMatch

----------------------------------------------------------------------------
(* Rows of rollups and of scans. *)

\* The runs with the rollup key of a, and their rollup.
Alike(kind, recs, a) == {rec \in recs : RollupKey(kind, rec) = RollupKey(kind, a)}
RollupOf(kind, recs, a) ==
  [project |-> a.project, kind |-> kind, bucket |-> BucketOf(a.start, Bucket),
   value |-> GroupValue(kind, a), stats |-> RollupStats(Alike(kind, recs, a))]
AllRollups(recs) ==
  UNION {RollupRows(p, {rec \in recs : rec.project = p}) : p \in Range(Projects)}

\* The rows of a project, by its runs.
LEMMA RollupsOfAProject ==
  ASSUME NEW recs, NEW p, NEW row
  PROVE  row \in RollupRows(p, {rec \in recs : rec.project = p})
           <=> \E kind \in RollupKinds : \E a \in recs : a.project = p /\ row = RollupOf(kind, recs, a)
<1> DEFINE mine == {rec \in recs : rec.project = p}
           key(kind, rec) == <<BucketOf(rec.start, Bucket), GroupValue(kind, rec)>>
           made(kind, k) == [project |-> p, kind |-> kind, bucket |-> k[1], value |-> k[2],
                             stats |-> RollupStats({rec \in mine : key(kind, rec) = k})]
<1>1. row \in RollupRows(p, mine)
        <=> \E kind \in RollupKinds : \E a \in mine : row = made(kind, key(kind, a))
  <2>1. RollupRows(p, mine)
          = UNION {{made(kind, k) : k \in {key(kind, rec) : rec \in mine}} : kind \in RollupKinds}
        BY DEF RollupRows, RollupKinds
  <2> HIDE DEF made, key, mine
  <2>2. row \in RollupRows(p, mine)
          <=> \E kind \in RollupKinds : row \in {made(kind, k) : k \in {key(kind, rec) : rec \in mine}}
        BY <2>1
  <2>3. \A kind : row \in {made(kind, k) : k \in {key(kind, rec) : rec \in mine}}
                   <=> \E a \in mine : row = made(kind, key(kind, a))
        OBVIOUS
  <2> QED
        BY <2>2, <2>3
<1>2. ASSUME NEW kind, NEW a \in mine
      PROVE  made(kind, key(kind, a)) = RollupOf(kind, recs, a)
  <2>1. {rec \in mine : key(kind, rec) = key(kind, a)} = Alike(kind, recs, a)
        BY DEF Alike, RollupKey
  <2> QED
        BY <2>1 DEF RollupOf
<1> HIDE DEF made, key
<1> QED
      BY <1>1, <1>2

\* The rollups of a kind, by the runs.
LEMMA RollupsByRun ==
  ASSUME NEW recs \in SUBSET Record, NEW kind \in RollupKinds
  PROVE  {row \in AllRollups(recs) : row.kind = kind} = {RollupOf(kind, recs, a) : a \in recs}
<1>1. \A a \in recs : a.project \in Range(Projects)
      BY DEF Record
<1>2. \A row : row \in AllRollups(recs)
                 <=> \E k \in RollupKinds : \E a \in recs : row = RollupOf(k, recs, a)
  <2>1. \A row : row \in AllRollups(recs)
                   <=> \E p \in Range(Projects) : row \in RollupRows(p, {rec \in recs : rec.project = p})
        BY Zenon DEF AllRollups
  <2>2. \A p, row : row \in RollupRows(p, {rec \in recs : rec.project = p})
          <=> \E k \in RollupKinds : \E a \in recs : a.project = p /\ row = RollupOf(k, recs, a)
        BY RollupsOfAProject
  <2>3. ASSUME NEW row, row \in AllRollups(recs)
        PROVE  \E k \in RollupKinds : \E a \in recs : row = RollupOf(k, recs, a)
    <3>1. PICK p \in Range(Projects) : row \in RollupRows(p, {rec \in recs : rec.project = p})
          BY <2>1, <2>3
    <3> QED
          BY <2>2, <3>1
  <2>4. ASSUME NEW k \in RollupKinds, NEW a \in recs
        PROVE  RollupOf(k, recs, a) \in AllRollups(recs)
    <3>1. RollupOf(k, recs, a) \in RollupRows(a.project, {rec \in recs : rec.project = a.project})
          BY <2>2
    <3> QED
          BY <1>1, <2>1, <3>1
  <2> QED
        BY <2>3, <2>4
<1>3. \A k, a : RollupOf(k, recs, a).kind = k
      BY DEF RollupOf
<1> QED
      BY <1>2, <1>3

\* What the rollups answer, and what a scan does, row by row.
LEMMA AnswersFromRollups ==
  ASSUME NEW query, RunEligible(query), NEW recs \in SUBSET Record, rollups = AllRollups(recs)
  PROVE  RollupAnswer(query) = {RunRollupRow(query, RollupOf(RollupKind(query), recs, a))
                                  : a \in {x \in recs : FieldsMatch(query, x)}}
<1> DEFINE kind == RollupKind(query)
           Row(a) == RollupOf(kind, recs, a)
           Fits(row) == /\ RollupInRange(query, row)
                        /\ query.type = None \/ row.value = query.type
                        /\ query.error = None \/ row.value = Text(query.error)
<1>1. kind \in RollupKinds /\ kind # "feedback_key"
      BY EligibleGroups DEF RunEligible
<1>2. {row \in rollups : row.kind = kind} = {Row(a) : a \in recs}
      BY <1>1, RollupsByRun
<1>3. ASSUME NEW a \in recs PROVE Fits(Row(a)) <=> FieldsMatch(query, a)
  <2>1. FieldsMatch(query, a) <=> KeyMatches(query, RollupKey(kind, a))
        BY MatchedByKey
  <2>2. /\ Row(a).project = a.project /\ Row(a).bucket = BucketOf(a.start, Bucket)
        /\ Row(a).value = GroupValue(kind, a)
        BY DEF RollupOf
  <2>3. /\ RollupKey(kind, a)[1] = a.project /\ RollupKey(kind, a)[2] = BucketOf(a.start, Bucket)
        /\ RollupKey(kind, a)[3] = GroupValue(kind, a)
        BY DEF RollupKey
  <2> HIDE DEF Row
  <2> QED
        BY <2>1, <2>2, <2>3, Zenon DEF KeyMatches, RollupInRange
<1>4. RollupAnswer(query) = {RunRollupRow(query, row) : row \in {x \in rollups : x.kind = kind /\ Fits(x)}}
  <2>1. {x \in rollups : x.kind = kind /\ Fits(x)}
          = {x \in rollups : /\ RollupInRange(query, x) /\ x.kind = kind
                             /\ query.type = None \/ x.value = query.type
                             /\ query.error = None \/ x.value = Text(query.error)}
        OBVIOUS
  <2> HIDE DEF Fits
  <2> QED
        BY <1>1, <2>1 DEF RollupAnswer
<1> HIDE DEF Row, Fits
<1>5. {x \in rollups : x.kind = kind /\ Fits(x)} = {Row(a) : a \in {x \in recs : FieldsMatch(query, x)}}
      BY <1>2, <1>3
<1> QED
      BY <1>4, <1>5 DEF Row

ScanRows(query, recs, given) ==
  {Accumulated(GroupFor(query, a), {Variant(query, x, given) : x \in Alike(RollupKind(query), recs, a)})
     : a \in recs}

LEMMA AnswersFromScans ==
  ASSUME NEW query, RunEligible(query), NEW recs \in SUBSET Record, NEW tags, NEW given
  PROVE  AggregateRows(query, recs, tags, given) = ScanRows(query, recs, given)
<1> DEFINE kind == RollupKind(query)
           variants == UNION {GroupVariants(query, rec, tags, given) : rec \in recs}
           of(g) == {v \in variants : v.group = g}
<1>1. variants = {Variant(query, rec, given) : rec \in recs}
      BY EligibleVariants
<1>2. \A rec : Variant(query, rec, given).group = GroupFor(query, rec)
      BY DEF Variant
<1>3. AggregateRows(query, recs, tags, given) = {Accumulated(g, of(g)) : g \in {v.group : v \in variants}}
      BY Zenon DEF AggregateRows
<1>4. ASSUME NEW a \in recs
      PROVE  of(GroupFor(query, a)) = {Variant(query, x, given) : x \in Alike(kind, recs, a)}
  <2>1. \A x \in recs : GroupFor(query, x) = GroupFor(query, a) <=> RollupKey(kind, x) = RollupKey(kind, a)
        BY GroupsAreKeys
  <2> QED
        BY <1>1, <1>2, <2>1 DEF Alike
<1> HIDE DEF variants, of
<1>5. {v.group : v \in variants} = {GroupFor(query, a) : a \in recs}
      BY <1>1, <1>2
<1> QED
      BY <1>3, <1>4, <1>5 DEF ScanRows

\* A finite set of numbers that is not empty has a largest and a smallest one.
LEMMA Extremes ==
  ASSUME NEW S \in SUBSET Int, IsFiniteSet(S), S # {}
  PROVE  Min(S) \in Int /\ Max(S) \in Int
<1> DEFINE A == {T \in SUBSET S : T = {} \/ /\ \E x \in T : \A y \in T : x >= y
                                            /\ \E x \in T : \A y \in T : x =< y}
<1>1. {} \in A
      OBVIOUS
<1>2. ASSUME NEW T \in SUBSET S, NEW z \in S \ T, T \in A
      PROVE  T \cup {z} \in A
  <2>1. CASE T = {}
        BY <2>1
  <2>2. CASE T # {}
    <3>1. PICK u \in T : \A y \in T : u >= y
          BY <1>2, <2>2
    <3>2. PICK l \in T : \A y \in T : l =< y
          BY <1>2, <2>2
    <3>3. \E x \in T \cup {z} : \A y \in T \cup {z} : x >= y
      <4>1. CASE u >= z
            BY <3>1, <4>1
      <4>2. CASE ~(u >= z)
            BY <3>1, <4>2
      <4> QED
            BY <4>1, <4>2
    <3>4. \E x \in T \cup {z} : \A y \in T \cup {z} : x =< y
      <4>1. CASE l =< z
            BY <3>2, <4>1
      <4>2. CASE ~(l =< z)
            BY <3>2, <4>2
      <4> QED
            BY <4>1, <4>2
    <3> QED
          BY <3>3, <3>4
  <2> QED
        BY <2>1, <2>2
<1> HIDE DEF A
<1>3. S \in A
      BY <1>1, <1>2, PartsByInduction
<1>4. /\ \E x \in S : \A y \in S : x >= y
      /\ \E x \in S : \A y \in S : x =< y
      BY <1>3 DEF A
<1>5. Max(S) \in S /\ Min(S) \in S
      BY <1>4 DEF Max, Min
<1> QED
      BY <1>5

\* The statistics of values of which some may not be known.
LEMMA StatsAreMeasures ==
  ASSUME NEW S, IsFiniteSet(S), NEW f \in [S -> Int \cup {None}]
  PROVE  /\ DOMAIN Known(f) = {} => NumericStats(f, FALSE) = None /\ Average(Known(f)) = None
         /\ DOMAIN Known(f) # {} =>
              /\ Total(Known(f)) \in Int /\ Average(Known(f)) \in Int \X Nat
              /\ NumericStats(f, FALSE) # None
              /\ NumericStats(f, FALSE).sum = Total(Known(f))
              /\ NumericStats(f, FALSE).avg = Average(Known(f))
<1> DEFINE k == Known(f)
           D == DOMAIN k
<1>1. D \in SUBSET S /\ k \in [D -> Int]
      BY DEF Known
<1>2. IsFiniteSet(D)
      BY <1>1, FS_Subset
<1> HIDE DEF k
<1>3. Total(k) \in Int /\ Cardinality(D) \in Nat
      BY <1>1, <1>2, SumProperties, FS_CardinalityType
<1>4. CASE D = {}
      BY <1>4 DEF NumericStats, Average, k
<1>5. CASE D # {}
  <2> DEFINE stats == [count |-> Cardinality(D), sum |-> Total(k), avg |-> Average(k),
                       min |-> Min(Range(k)), max |-> Max(Range(k)),
                       p50 |-> None, p95 |-> None, p99 |-> None]
  <2>1. Average(k) \in Int \X Nat
        BY <1>3, <1>5 DEF Average
  <2>2. Min(Range(k)) \in Int /\ Max(Range(k)) \in Int
    <3>1. Range(k) = {k[x] : x \in D}
          BY DEF Range
    <3>2. IsFiniteSet(Range(k)) /\ Range(k) \in SUBSET Int /\ Range(k) # {}
          BY <1>1, <1>2, <1>5, <3>1, ImageIsFinite
    <3> QED
          BY <3>2, Extremes
  <2>3. NumericStats(f, FALSE) = stats
        BY <1>5 DEF NumericStats, k
  <2>4. stats \in Measure
        BY <1>3, <2>1, <2>2 DEF Measure
  <2>5. stats.sum = Total(k) /\ stats.avg = Average(k)
        OBVIOUS
  <2> HIDE DEF stats
  <2>6. stats # None
        BY <2>4, RunAggregatesAssumption
  <2> QED
        BY <1>3, <1>5, <2>1, <2>3, <2>5, <2>6 DEF k
<1> QED
      BY <1>4, <1>5 DEF k

\* Runs and their variants correspond, and so do their values.
LEMMA RunsAndVariants ==
  ASSUME NEW query, NEW recs, IsFiniteSet(recs), NEW given
  PROVE  LET V == {Variant(query, x, given) : x \in recs}
         IN  IsFiniteSet(V) /\ [v \in V |-> v.rec] \in Bijection(V, recs)
<1> DEFINE V == {Variant(query, x, given) : x \in recs}
           var == [x \in recs |-> Variant(query, x, given)]
           b == [v \in V |-> v.rec]
<1>1. V = {var[x] : x \in recs}
      OBVIOUS
<1>2. IsFiniteSet(V)
  <2> HIDE DEF V, var
  <2> QED
        BY <1>1, ImageIsFinite
<1>3. \A x \in recs : Variant(query, x, given).rec = x /\ Variant(query, x, given) \in V
      BY DEF Variant
<1>4. \A v \in V : v.rec \in recs /\ v = Variant(query, v.rec, given)
      BY <1>3
<1> HIDE DEF V
<1>5. b \in [V -> recs] /\ (\A v, w \in V : b[v] = b[w] => v = w) /\ \A x \in recs : \E v \in V : b[v] = x
      BY <1>3, <1>4
<1> HIDE DEF b
<1>6. b \in Bijection(V, recs)
      BY <1>5 DEF Bijection, Injection, Surjection, IsInjective
<1> QED
      BY <1>2, <1>6 DEF b, V

\* What a rollup and a scan both tell of these runs is the same.
LEMMA SameRow ==
  ASSUME NEW query, NEW a, NEW recs \in SUBSET Record, IsFiniteSet(recs), NEW kind,
         kind = RollupKind(query), NEW given
  PROVE  Common(RunRollupRow(query, [project |-> a.project, kind |-> kind,
                                     bucket |-> BucketOf(a.start, Bucket), value |-> GroupValue(kind, a),
                                     stats |-> RollupStats(recs)]))
           = Common(Accumulated(GroupFor(query, a), {Variant(query, x, given) : x \in recs}))
<1> DEFINE V == {Variant(query, x, given) : x \in recs}
           b == [v \in V |-> v.rec]
           row == [project |-> a.project, kind |-> kind, bucket |-> BucketOf(a.start, Bucket),
                   value |-> GroupValue(kind, a), stats |-> RollupStats(recs)]
           lat == [rec \in recs |-> rec.latency]
           tok == [rec \in recs |-> rec.tokens]
           sco == [rec \in recs |-> rec.score]
           vlat == [v \in V |-> v.rec.latency]
           vtok == [v \in V |-> v.rec.tokens]
           vsco == [v \in V |-> v.rec.score]
           n == Cardinality(recs)
           x == RunRollupRow(query, row)
           y == Accumulated(GroupFor(query, a), V)
<1>1. IsFiniteSet(V) /\ b \in Bijection(V, recs) /\ b \in [V -> recs]
  <2>1. IsFiniteSet(V) /\ b \in Bijection(V, recs)
        BY RunsAndVariants
  <2> HIDE DEF b
  <2> QED
        BY <2>1 DEF Bijection, Injection
<1>2. /\ lat \in [recs -> Int \cup {None}] /\ tok \in [recs -> Int \cup {None}]
      /\ sco \in [recs -> Int \cup {None}]
      BY DEF Record
<1>3. /\ SameValuesOrNone(vlat, lat, b) /\ SameValuesOrNone(vtok, tok, b)
      /\ SameValuesOrNone(vsco, sco, b)
  <2>1. \A v \in V : b[v] = v.rec /\ b[v] \in recs
        BY <1>1
  <2> HIDE DEF V, b
  <2>2. /\ vlat = [v \in V |-> lat[b[v]]] /\ vtok = [v \in V |-> tok[b[v]]]
        /\ vsco = [v \in V |-> sco[b[v]]]
        BY <2>1
  <2>3. /\ DOMAIN vlat = V /\ DOMAIN vtok = V /\ DOMAIN vsco = V
        /\ DOMAIN lat = recs /\ DOMAIN tok = recs /\ DOMAIN sco = recs
        OBVIOUS
  <2> HIDE DEF vlat, vtok, vsco, lat, tok, sco
  <2> QED
        BY <1>1, <1>2, <2>2, <2>3 DEF SameValuesOrNone
<1>4. Cardinality(V) = n /\ Cardinality({v \in V : v.rec.error}) = Errors(recs)
  <2>1. {v \in V : v.rec.error} = {v \in V : b[v] \in {rec \in recs : rec.error}}
        BY <1>1
  <2> HIDE DEF V, b
  <2>2. Cardinality(V) = Cardinality(recs)
        BY <1>1, SameSize
  <2>3. Cardinality({v \in V : b[v] \in {rec \in recs : rec.error}}) = Cardinality({rec \in recs : rec.error})
        BY <1>1, PartsCorrespond
  <2> QED
        BY <2>1, <2>2, <2>3 DEF Errors
<1>5. /\ x.group = GroupFor(query, a) /\ x.count = n /\ x.error_count = Errors(recs)
      /\ x.latency = NumericStats(lat, TRUE)
      /\ x.tokens = RollupNumeric(IF DOMAIN Known(tok) = {} THEN None ELSE Total(Known(tok)),
                                  Average(Known(tok)), n)
      /\ x.score = LET avg == Average(Known(sco))
                   IN  IF avg = None THEN None
                       ELSE [count |-> n, avg |-> avg, sum |-> <<avg[1] * n, avg[2]>>]
  <2>1. /\ row.project = a.project /\ row.bucket = BucketOf(a.start, Bucket)
        /\ row.value = GroupValue(kind, a) /\ row.stats = RollupStats(recs)
        OBVIOUS
  <2>2. GroupOf(query, row, row.value) = GroupFor(query, a)
        BY <2>1 DEF GroupOf, GroupFor, GroupWith
  <2>3. LET s == RollupStats(recs)
        IN  /\ s.run_count = n /\ s.error_count = Errors(recs) /\ s.latency = NumericStats(lat, TRUE)
            /\ s.tokens_sum = (IF DOMAIN Known(tok) = {} THEN None ELSE Total(Known(tok)))
            /\ s.tokens_avg = Average(Known(tok)) /\ s.score_avg = Average(Known(sco))
        BY DEF RollupStats
  <2> DEFINE s == RollupStats(recs)
  <2> HIDE DEF row, s, lat, tok, sco, n
  <2>4. /\ x.group = GroupOf(query, row, row.value) /\ x.count = s.run_count
        /\ x.error_count = s.error_count /\ x.latency = s.latency
        /\ x.tokens = RollupNumeric(s.tokens_sum, s.tokens_avg, s.run_count)
        /\ x.score = IF s.score_avg = None THEN None
                     ELSE [count |-> s.run_count, avg |-> s.score_avg,
                           sum |-> <<s.score_avg[1] * s.run_count, s.score_avg[2]>>]
        BY <2>1 DEF RunRollupRow, s
  <2> HIDE DEF x
  <2> QED
        BY <2>2, <2>3, <2>4 DEF s
<1>6. /\ y.group = GroupFor(query, a) /\ y.count = Cardinality(V)
      /\ y.error_count = Cardinality({v \in V : v.rec.error})
      /\ y.latency = NumericStats(vlat, TRUE) /\ y.tokens = NumericStats(vtok, FALSE)
      /\ y.score = NumericStats(vsco, FALSE)
      BY DEF Accumulated
<1>7. n \in Nat
      BY FS_CardinalityType
<1> HIDE DEF V, b, row, lat, tok, sco, vlat, vtok, vsco, n, x, y
<1>8. /\ NumericStats(vlat, TRUE) = NumericStats(lat, TRUE)
      /\ NumericStats(vtok, FALSE) = NumericStats(tok, FALSE)
      /\ NumericStats(vsco, FALSE) = NumericStats(sco, FALSE)
      BY <1>3, SameMeasures
<1>9. (IF x.tokens = None THEN None ELSE <<x.tokens.sum, x.tokens.avg>>)
        = (IF y.tokens = None THEN None ELSE <<y.tokens.sum, y.tokens.avg>>)
  <2> DEFINE known == Known(tok)
             avg == Average(known)
             sum == Total(known)
             stats == NumericStats(tok, FALSE)
  <2>1. /\ DOMAIN known = {} => stats = None /\ avg = None
        /\ DOMAIN known # {} => /\ sum \in Int /\ avg \in Int \X Nat /\ stats # None
                                /\ stats.sum = sum /\ stats.avg = avg
        BY <1>2, StatsAreMeasures
  <2> HIDE DEF avg, sum, stats, known
  <2>2. x.tokens = RollupNumeric(IF DOMAIN known = {} THEN None ELSE sum, avg, n) /\ y.tokens = stats
        BY <1>5, <1>6, <1>8 DEF known, avg, sum, stats
  <2>3. CASE DOMAIN known = {}
        BY <2>1, <2>2, <2>3 DEF RollupNumeric
  <2>4. CASE DOMAIN known # {}
    <3> DEFINE t == [count |-> n, sum |-> sum, avg |-> avg]
    <3>1. sum # None
          BY <2>1, <2>4, RunAggregatesAssumption
    <3>2. x.tokens = t
          BY <2>2, <2>4, <3>1 DEF RollupNumeric
    <3>3. t \in Measure /\ t.sum = sum /\ t.avg = avg
          BY <1>7, <2>1, <2>4 DEF Measure
    <3> HIDE DEF t
    <3>4. t # None
          BY <3>3, RunAggregatesAssumption
    <3> QED
          BY <2>1, <2>2, <2>4, <3>2, <3>3, <3>4
  <2> QED
        BY <2>3, <2>4
<1>10. (IF x.score = None THEN None ELSE x.score.avg) = (IF y.score = None THEN None ELSE y.score.avg)
  <2> DEFINE known == Known(sco)
             avg == Average(known)
             stats == NumericStats(sco, FALSE)
  <2>1. /\ DOMAIN known = {} => stats = None /\ avg = None
        /\ DOMAIN known # {} => avg \in Int \X Nat /\ stats # None /\ stats.avg = avg
        BY <1>2, StatsAreMeasures
  <2> HIDE DEF avg, stats, known
  <2>2. /\ x.score = (IF avg = None THEN None ELSE [count |-> n, avg |-> avg, sum |-> <<avg[1] * n, avg[2]>>])
        /\ y.score = stats
        BY <1>5, <1>6, <1>8 DEF known, avg, stats
  <2>3. CASE DOMAIN known = {}
        BY <2>1, <2>2, <2>3
  <2>4. CASE DOMAIN known # {}
    <3> DEFINE t == [count |-> n, avg |-> avg, sum |-> <<avg[1] * n, avg[2]>>]
    <3>1. avg # None
          BY <2>1, <2>4, RunAggregatesAssumption DEF Measure
    <3>2. avg[1] * n \in Int /\ avg[2] \in Nat
          BY <1>7, <2>1, <2>4
    <3>3. t \in Measure /\ t.avg = avg
          BY <1>7, <2>1, <2>4, <3>2 DEF Measure
    <3>4. x.score = t
          BY <2>2, <3>1
    <3> HIDE DEF t
    <3>5. t # None
          BY <3>3, RunAggregatesAssumption
    <3> QED
          BY <2>1, <2>2, <2>4, <3>3, <3>4, <3>5
  <2> QED
        BY <2>3, <2>4
<1>11. x.group = y.group /\ x.count = y.count /\ x.error_count = y.error_count /\ x.latency = y.latency
      BY <1>4, <1>5, <1>6, <1>8
<1>12. Common(x) = Common(y)
      BY <1>9, <1>10, <1>11, Zenon DEF Common
<1> QED
      BY <1>12 DEF x, y, row, V

\* Rollups of the live runs answer like a scan of them.
LEMMA RollupsAnswer ==
  ASSUME NEW query, RunEligible(query), VersionsInv, rollups = AllRollups(LiveRecords),
         NEW tags, NEW given
  PROVE  {Common(row) : row \in RollupAnswer(query)}
           = {Common(row) : row \in AggregateRows(query, {RowOf(h) : h \in Candidates(query)}, tags, given)}
<1> DEFINE kind == RollupKind(query)
           live == LiveRecords
           match == {x \in live : FieldsMatch(query, x)}
           there == {x \in Runs : Visible(x)}
           row == [r \in Runs |-> RowOf(heads[r])]
           rolled(a) == RunRollupRow(query, RollupOf(kind, live, a))
           scanned(a) == Accumulated(GroupFor(query, a), {Variant(query, x, given) : x \in Alike(kind, match, a)})
<1>1. live \in SUBSET Record /\ IsFiniteSet(live)
  <2>1. there \in SUBSET Runs /\ live = {row[r] : r \in there} /\ \A r \in there : heads[r] # None
        BY DEF LiveRecords, Visible
  <2>2. \A r \in there : row[r] \in Record
        BY <2>1, VersionsAreRecords DEF VersionsInv
  <2> HIDE DEF there, row, live
  <2>3. IsFiniteSet(there)
        BY <2>1, RunAggregatesAssumption, FS_Subset
  <2> QED
        BY <2>1, <2>2, <2>3, ImageIsFinite
<1>2. {RowOf(h) : h \in Candidates(query)} = match
  <2>1. ~query.include_deleted
        BY DEF RunEligible, RollupEligible
  <2> QED
        BY <2>1 DEF Candidates, LiveRecords, Visible
<1> HIDE DEF live
<1>3. match \in SUBSET Record /\ match \in SUBSET live
      BY <1>1
<1>4. ASSUME NEW a \in match PROVE Common(rolled(a)) = Common(scanned(a))
  <2> DEFINE alike == Alike(kind, match, a)
  <2>1. Alike(kind, live, a) = alike
    <3>1. \A x \in live : FieldsMatch(query, x) <=> KeyMatches(query, RollupKey(kind, x))
          BY <1>1, MatchedByKey
    <3> QED
          BY <3>1 DEF Alike
  <2>2. alike \in SUBSET Record /\ IsFiniteSet(alike)
    <3>1. alike \in SUBSET live
          BY <1>3 DEF Alike
    <3> HIDE DEF alike
    <3> QED
          BY <1>1, <3>1, FS_Subset
  <2> HIDE DEF alike
  <2>3. Common(RunRollupRow(query, [project |-> a.project, kind |-> kind,
                                     bucket |-> BucketOf(a.start, Bucket), value |-> GroupValue(kind, a),
                                     stats |-> RollupStats(alike)]))
           = Common(Accumulated(GroupFor(query, a), {Variant(query, x, given) : x \in alike}))
        BY <2>2, SameRow
  <2>4. RollupOf(kind, live, a)
          = [project |-> a.project, kind |-> kind, bucket |-> BucketOf(a.start, Bucket),
             value |-> GroupValue(kind, a), stats |-> RollupStats(alike)]
        BY <2>1 DEF RollupOf
  <2> QED
        BY <2>3, <2>4 DEF alike
<1>5. RollupAnswer(query) = {rolled(a) : a \in match}
  <2>1. rollups = AllRollups(live)
        BY DEF live
  <2> QED
        BY <1>1, <2>1, AnswersFromRollups
<1>6. AggregateRows(query, match, tags, given) = {scanned(a) : a \in match}
  <2> HIDE DEF match
  <2>1. AggregateRows(query, match, tags, given) = ScanRows(query, match, given)
        BY <1>3, AnswersFromScans
  <2> QED
        BY <2>1 DEF ScanRows
<1> HIDE DEF rolled, scanned, match
<1>7. {Common(rolled(a)) : a \in match} = {Common(scanned(a)) : a \in match}
      BY <1>4
<1>8. /\ {Common(x) : x \in {rolled(a) : a \in match}} = {Common(rolled(a)) : a \in match}
      /\ {Common(x) : x \in {scanned(a) : a \in match}} = {Common(scanned(a)) : a \in match}
      OBVIOUS
<1> QED
      BY <1>2, <1>5, <1>6, <1>7, <1>8, Zenon

----------------------------------------------------------------------------
(* The rollups are those of the live runs. *)

RollupsInv == rollups = AllRollups(LiveRecords)

\* At first they are.
LEMMA RollupsInit ==
  ASSUME Init
  PROVE  RollupsInv
<1>1. PICK w \in Worlds : IsWorld(w)
      BY InitIsAWorld
<1>2. deletions = {}
      BY DEF Init
<1> DEFINE there == {x \in Runs : WorldAt(w, x) # {}}
           row(r) == w[WorldHead(w, r).seg][WorldHead(w, r).row]
<1>3. {x \in Runs : Visible(x)} = there
      BY <1>1, <1>2, WorldHeads DEF IsWorld, Visible
<1>4. \A r \in there : RowOf(heads[r]) = row(r)
  <2> SUFFICES ASSUME NEW r \in there PROVE RowOf(heads[r]) = row(r)
        OBVIOUS
  <2> DEFINE h == WorldHead(w, r)
  <2>1. heads[r] = h
        BY <1>1 DEF IsWorld
  <2>2. h \in WorldAt(w, r)
        BY WorldHeads
  <2> HIDE DEF h
  <2>3. h.seg \in DOMAIN w
        BY <2>2 DEF WorldAt
  <2>4. segments[h.seg].rows = w[h.seg]
        BY <1>1, <2>3 DEF IsWorld
  <2> QED
        BY <2>1, <2>4 DEF RowOf, h
<1>5. LiveRecords = WorldNow(w)
  <2>1. LiveRecords = {RowOf(heads[r]) : r \in there}
        BY <1>3 DEF LiveRecords
  <2> HIDE DEF there, row
  <2>2. LiveRecords = {row(r) : r \in there}
        BY <1>4, <2>1
  <2> QED
        BY <2>2 DEF WorldNow, there, row
<1> QED
      BY <1>1, <1>5, Zenon DEF IsWorld, RollupsInv, AllRollups

\* A refresh of a project makes the rollups those of the live runs again, if the live
\* runs of other projects are as before.
LEMMA RefreshIsEnough ==
  ASSUME NEW old, NEW new, NEW project \in Range(Projects),
         \A rec : rec.project # project => (rec \in old <=> rec \in new)
  PROVE  {row \in AllRollups(old) : row.project # project}
           \cup RollupRows(project, {rec \in new : rec.project = project}) = AllRollups(new)
<1> DEFINE mine(recs, p) == {rec \in recs : rec.project = p}
<1>1. \A p : p # project => mine(old, p) = mine(new, p)
      OBVIOUS
<1>2. ASSUME NEW recs, NEW p, NEW row \in RollupRows(p, mine(recs, p)) PROVE row.project = p
  <2>1. PICK kind \in RollupKinds, a \in recs : a.project = p /\ row = RollupOf(kind, recs, a)
        BY RollupsOfAProject
  <2> QED
        BY <2>1 DEF RollupOf
<1>3. \A recs, row : row \in AllRollups(recs)
                       <=> \E p \in Range(Projects) : row \in RollupRows(p, mine(recs, p))
      BY Zenon DEF AllRollups
<1> HIDE DEF mine
<1>4. ASSUME NEW row
      PROVE  row \in AllRollups(old) /\ row.project # project
               <=> \E p \in Range(Projects) : p # project /\ row \in RollupRows(p, mine(old, p))
      BY <1>2, <1>3
<1>5. ASSUME NEW row, NEW p, p # project
      PROVE  row \in RollupRows(p, mine(old, p)) <=> row \in RollupRows(p, mine(new, p))
      BY <1>1, <1>5
<1>6. ASSUME NEW row
      PROVE  row \in AllRollups(new)
               <=> \/ row \in AllRollups(old) /\ row.project # project
                   \/ row \in RollupRows(project, mine(new, project))
      BY <1>3, <1>4, <1>5
<1> QED
      BY <1>6 DEF mine

\* So a refresh keeps the rollups right.
LEMMA RefreshKeeps ==
  ASSUME RollupsInv, NEW p \in Range(Projects), rollups' = Refreshed(p),
         \A rec : rec.project # p => (rec \in LiveRecords <=> rec \in LiveRecords')
  PROVE  RollupsInv'
<1> DEFINE new == LiveRecords'
<1>1. rollups = AllRollups(LiveRecords)
      BY DEF RollupsInv
<1>2. rollups' = {row \in AllRollups(LiveRecords) : row.project # p}
                   \cup RollupRows(p, {rec \in new : rec.project = p})
      BY <1>1 DEF Refreshed
<1>3. {row \in AllRollups(LiveRecords) : row.project # p}
        \cup RollupRows(p, {rec \in new : rec.project = p}) = AllRollups(new)
      BY RefreshIsEnough
<1> QED
      BY <1>2, <1>3 DEF RollupsInv

\* A write or delete changes what is live in the project that it refreshes only.
LEMMA RollupsKept ==
  ASSUME StoreOK, VersionsInv, RollupsInv, StoreStep
  PROVE  RollupsInv'
<1>1. \A h : h.seg \in DOMAIN segments => RowOf(h)' = RowOf(h)
      BY RowsStay
<1>2. \A r \in Runs : heads[r] # None => /\ RowOf(heads[r]) \in Versions /\ RowOf(heads[r]).run = r
                                         /\ heads[r].seg \in DOMAIN segments
      BY DEF VersionsInv
<1>3. VersionsInv'
      BY VersionsKept
<1>4. \A a, b \in Versions : a.run = b.run => a.project = b.project
      BY RunAggregatesAssumption
<1>5. ASSUME NEW r \in Runs, \A s \in Runs : s # r => heads'[s] = heads[s],
             deletions' = deletions \/ deletions' = deletions \cup {r},
             NEW p, Visible(r) => RowOf(heads[r]).project = p,
             Visible(r)' => RowOf(heads[r])'.project = p
      PROVE  \A rec : rec.project # p => (rec \in LiveRecords <=> rec \in LiveRecords')
  <2>1. \A s \in Runs : s # r => heads'[s] = heads[s] /\ (s \in deletions' <=> s \in deletions)
        BY <1>5
  <2>2. \A s \in Runs : s # r => /\ Visible(s)' <=> Visible(s)
                                 /\ Visible(s) => RowOf(heads[s])' = RowOf(heads[s])
        BY <1>1, <1>2, <2>1 DEF Visible, RowOf
  <2>3. \A rec : rec \in LiveRecords <=> \E s \in Runs : Visible(s) /\ rec = RowOf(heads[s])
        BY DEF LiveRecords
  <2>4. \A rec : rec \in LiveRecords' <=> \E s \in Runs : Visible(s)' /\ rec = RowOf(heads[s])'
        BY DEF LiveRecords
  <2> QED
        BY <1>5, <2>2, <2>3, <2>4
<1>6. CASE WriteRun
  <2>1. PICK version \in Records :
          /\ heads' = [heads EXCEPT ![version.run] = [seg |-> Len(segments) + 1, row |-> 1]]
          /\ deletions' = deletions
          /\ rollups' = Refreshed(version.project)
        BY <1>6 DEF WriteRun
  <2>2. version \in Record /\ version \in Versions /\ version.run \in Runs /\ version.project \in Range(Projects)
        BY RunAggregatesAssumption DEF Record, Versions
  <2>3. \A s \in Runs : s # version.run => heads'[s] = heads[s]
        BY <2>1, <2>2 DEF StoreOK
  <2>4. Visible(version.run) => RowOf(heads[version.run]).project = version.project
        BY <1>2, <1>4, <2>2 DEF Visible
  <2>5. Visible(version.run)' => RowOf(heads[version.run])'.project = version.project
        BY <1>3, <1>4, <2>2 DEF Visible, VersionsInv
  <2>6. \A x : x.project # version.project => (x \in LiveRecords <=> x \in LiveRecords')
    <3>1. deletions' = deletions
          BY <2>1
    <3> QED
          BY <1>5, <2>2, <2>3, <2>4, <2>5, <3>1
  <2>7. rollups' = Refreshed(version.project)
        BY <2>1
  <2> QED
        BY <2>2, <2>6, <2>7, RefreshKeeps
<1>7. CASE DeleteRun
  <2>1. PICK r \in Runs : /\ Visible(r) /\ deletions' = deletions \cup {r} /\ heads' = heads
                          /\ rollups' = Refreshed(RowOf(heads[r]).project)
        BY <1>7 DEF DeleteRun
  <2> DEFINE p == RowOf(heads[r]).project
  <2>2. heads[r] # None /\ ~Visible(r)'
        BY <2>1 DEF Visible
  <2>3. p \in Range(Projects)
        BY <1>2, <2>2, VersionsAreRecords DEF Record
  <2>4. \A s \in Runs : s # r => heads'[s] = heads[s]
        BY <2>1
  <2>5. \A x : x.project # p => (x \in LiveRecords <=> x \in LiveRecords')
        BY <1>5, <2>1, <2>2, <2>4
  <2> HIDE DEF p
  <2>6. rollups' = Refreshed(p)
        BY <2>1 DEF p
  <2> QED
        BY <2>3, <2>5, <2>6, RefreshKeeps
<1>8. CASE CleanUp
  <2>1. heads' = heads /\ deletions' = deletions /\ rollups' = rollups
        BY <1>8 DEF CleanUp
  <2>2. \A r \in Runs : /\ Visible(r)' <=> Visible(r)
                        /\ Visible(r) => RowOf(heads[r])' = RowOf(heads[r])
        BY <1>1, <1>2, <2>1 DEF Visible, RowOf
  <2>3. LiveRecords' = LiveRecords
        BY <2>2 DEF LiveRecords
  <2> QED
        BY <2>1, <2>3 DEF RollupsInv
<1> QED
      BY <1>6, <1>7, <1>8 DEF StoreStep

\* Nothing else changes runs or rollups.
LEMMA RollupsStepKeeps ==
  ScanInv /\ VersionsInv /\ RollupsInv /\ [Next]_vars => RollupsInv'
<1> SUFFICES ASSUME ScanInv, VersionsInv, RollupsInv, [Next]_vars PROVE RollupsInv'
      OBVIOUS
<1>1. CASE StoreStep
      BY <1>1, RollupsKept DEF ScanInv
<1>2. CASE UNCHANGED store
  <2>1. rollups' = rollups /\ LiveRecords' = LiveRecords
        BY <1>2 DEF store, LiveRecords, Visible, RowOf
  <2> QED
        BY <2>1 DEF RollupsInv
<1>3. CASE QueryStep
      BY <1>2, <1>3 DEF QueryStep, Ask, TryRollup, Plan, ReadPartition, LoadTags, LoadFeedbackAndGroup,
                        QueryFails
<1>4. ASSUME NEW c \in Callers, FeedbackStep(c) PROVE RollupsInv'
      BY <1>2, <1>4 DEF FeedbackStep, BeginFeedback, LoadOldProject, UpsertFeedback,
                        DeleteFeedbackRollups, SelectFeedback, InsertFeedbackRollup, FeedbackFails, At
<1>5. CASE UNCHANGED vars
      BY <1>2, <1>5 DEF vars
<1> QED
      BY <1>1, <1>3, <1>4, <1>5 DEF Next

\* A query that rollup_eligible takes to the rollups is answered as a scan of the runs
\* of that moment would answer it: the same groups, counts, errors, latencies,
\* percentiles, sums and averages, after any writes, deletes and cleanups and with any
\* feedback.  What only the scan tells, the feedback scores that feedback_keys ask for
\* and the latency of the first token, is not compared: the rollups have neither.
THEOREM RollupsAreScans == Spec => []RollupsAnswerLikeTheScan
<1> DEFINE Inv == ScanInv /\ VersionsInv /\ CountInv /\ RollupsInv
<1>1. Inv => RollupsAnswerLikeTheScan
  <2> SUFFICES ASSUME Inv, q.pc = "rollup", RollupEligible(q.query),
                      RollupKind(q.query) # "feedback_key"
               PROVE  LET matching == {RowOf(h) : h \in Candidates(q.query)}
                      IN  {Common(row) : row \in RollupAnswer(q.query)}
                            = {Common(row) : row \in
                                 AggregateRows(q.query, matching, run_tags, FeedbackFor(q.query, matching))}
        BY DEF RollupsAnswerLikeTheScan
  <2>1. RunEligible(q.query)
        BY DEF RunEligible, CountInv
  <2> QED
        BY <2>1, RollupsAnswer DEF RollupsInv
<1>2. Init => Inv
      BY ScanInit, VersionsInit, CountInit, RollupsInit
<1>3. Inv /\ [Next]_vars => Inv'
      BY ScanStepKeeps, CountStepKeeps, RollupsStepKeeps
<1> QED
      BY <1>1, <1>2, <1>3, PTL DEF Spec

=============================================================================
