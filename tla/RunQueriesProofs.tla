-------------------------- MODULE RunQueriesProofs --------------------------
(***************************************************************************)
(* Proofs about RunQueries, for any runs, stores, queries, limits and      *)
(* partitions: an answer holds rows of its plan, in order and once each;   *)
(* in a quiet store it is the page that the query describes, however the   *)
(* segments are cut, and the pages of a walk make up the whole; without    *)
(* limit it misses no run that was there all the time; and an early        *)
(* cancel() leaves no answer.                                              *)
(***************************************************************************)
EXTENDS RunQueries, SequenceTheorems, FiniteSetTheorems, TLAPS

(* The order of rows. *)

\* Distinct numbers below the size of a set are all taken.
LEMMA NumbersAreTaken ==
  ASSUME NEW S, IsFiniteSet(S), NEW f \in [S -> 0..(Cardinality(S) - 1)],
         \A x, y \in S : f[x] = f[y] => x = y
  PROVE  \A n \in 0..(Cardinality(S) - 1) : \E x \in S : f[x] = n
<1> DEFINE T == 0..(Cardinality(S) - 1)
<1>1. Cardinality(S) \in Nat
      BY FS_CardinalityType
<1>2. IsFiniteSet(T) /\ Cardinality(T) = Cardinality(S)
      BY <1>1, FS_Interval
<1>3. f \in Injection(S, T)
      BY DEF Injection, IsInjective
<1>4. f \in Surjection(S, T)
      BY <1>2, <1>3, FS_Injection
<1> QED
      BY <1>4 DEF Surjection

\* Rows of different runs are ordered.
LEMMA BeforeIsAnOrder ==
  ASSUME NEW query, NEW a \in Records, NEW b \in Records
  PROVE  /\ ~Before(query, a, a)
         /\ ~(Before(query, a, b) /\ Before(query, b, a))
         /\ a.run # b.run => Before(query, a, b) \/ Before(query, b, a)
         /\ \A c \in Records : Before(query, a, b) /\ Before(query, b, c) => Before(query, a, c)
<1>1. \A x \in Records : x.run \in Nat /\ x.start \in Nat
      BY RunQueriesAssumption DEF Record
<1> QED
      BY <1>1 DEF Before

\* A row's rank tells its place among rows of different runs.
LEMMA RankProperties ==
  ASSUME NEW query, NEW S \in SUBSET Records, IsFiniteSet(S), OneRowEach(S)
  PROVE  /\ \A x \in S : Rank(query, x, S) \in 0..(Cardinality(S) - 1)
         /\ \A x, y \in S : Before(query, x, y) <=> Rank(query, x, S) < Rank(query, y, S)
         /\ \A x, y \in S : Rank(query, x, S) = Rank(query, y, S) => x = y
         /\ \A n \in 0..(Cardinality(S) - 1) : \E x \in S : Rank(query, x, S) = n
<1> DEFINE Less(x) == {r \in S : Before(query, r, x)}
           f == [x \in S |-> Rank(query, x, S)]
<1>1. \A x \in S : /\ Rank(query, x, S) = Cardinality(Less(x))
                   /\ Less(x) \in SUBSET S /\ x \notin Less(x)
      BY BeforeIsAnOrder DEF Rank
<1>2. \A x \in S : IsFiniteSet(Less(x)) /\ Cardinality(Less(x)) \in Nat
      BY <1>1, FS_Subset, FS_CardinalityType
<1>3. Cardinality(S) \in Nat
      BY FS_CardinalityType
<1>4. ASSUME NEW x \in S PROVE Rank(query, x, S) \in 0..(Cardinality(S) - 1)
  <2>1. Cardinality(Less(x)) =< Cardinality(S) /\ Cardinality(Less(x)) # Cardinality(S)
        BY <1>1, FS_Subset
  <2> HIDE DEF Less
  <2> QED
        BY <1>1, <1>2, <1>3, <2>1
<1>5. ASSUME NEW x \in S, NEW y \in S, Before(query, x, y)
      PROVE  Rank(query, x, S) < Rank(query, y, S)
  <2>1. Less(x) \in SUBSET Less(y) /\ x \in Less(y)
        BY <1>5, BeforeIsAnOrder
  <2>2. x \notin Less(x) /\ IsFiniteSet(Less(y))
        BY <1>1, <1>2
  <2> HIDE DEF Less
  <2>3. Cardinality(Less(x)) =< Cardinality(Less(y)) /\ Cardinality(Less(x)) # Cardinality(Less(y))
        BY <2>1, <2>2, FS_Subset
  <2> QED
        BY <1>1, <1>2, <2>3
<1>6. \A x \in S : Rank(query, x, S) \in Nat
      BY <1>3, <1>4
<1>7. ASSUME NEW x \in S, NEW y \in S
      PROVE  x = y \/ Before(query, x, y) \/ Before(query, y, x)
      BY BeforeIsAnOrder DEF OneRowEach
<1>8. \A x, y \in S : Rank(query, x, S) = Rank(query, y, S) => x = y
      BY <1>5, <1>6, <1>7
<1>9. ASSUME NEW x \in S, NEW y \in S, Rank(query, x, S) < Rank(query, y, S)
      PROVE  Before(query, x, y)
      BY <1>5, <1>6, <1>7, <1>9
<1>10. f \in [S -> 0..(Cardinality(S) - 1)]
      BY <1>4
<1>11. \A n \in 0..(Cardinality(S) - 1) : \E x \in S : f[x] = n
  <2>1. \A x, y \in S : f[x] = f[y] => x = y
        BY <1>8
  <2> HIDE DEF f
  <2> QED
        BY <1>10, <2>1, NumbersAreTaken
<1>12. \A n \in 0..(Cardinality(S) - 1) : \E x \in S : Rank(query, x, S) = n
      BY <1>11
<1> QED
      BY <1>4, <1>5, <1>8, <1>9, <1>12

\* Sorted rows: all of them, once each, in their order.
LEMMA InOrderProperties ==
  ASSUME NEW query, NEW S \in SUBSET Records, IsFiniteSet(S), OneRowEach(S)
  PROVE  /\ InOrder(query, S) \in Seq(S)
         /\ Cardinality(S) \in Nat
         /\ Len(InOrder(query, S)) = Cardinality(S)
         /\ \A i \in 1..Cardinality(S) : /\ InOrder(query, S)[i] \in S
                                         /\ Rank(query, InOrder(query, S)[i], S) = i - 1
         /\ \A x \in S : /\ Rank(query, x, S) + 1 \in 1..Cardinality(S)
                         /\ InOrder(query, S)[Rank(query, x, S) + 1] = x
         /\ Range(InOrder(query, S)) = S
         /\ \A i, j \in 1..Cardinality(S) :
              i < j => Before(query, InOrder(query, S)[i], InOrder(query, S)[j])
<1> DEFINE s == InOrder(query, S)
           n == Cardinality(S)
<1>1. n \in Nat
      BY FS_CardinalityType
<1>2. DOMAIN s = 1..n /\ s = [i \in 1..n |-> s[i]]
      BY DEF InOrder
<1>3. \A i \in 1..n : s[i] \in S /\ Rank(query, s[i], S) = i - 1
  <2> SUFFICES ASSUME NEW i \in 1..n
               PROVE  s[i] \in S /\ Rank(query, s[i], S) = i - 1
      OBVIOUS
  <2>1. i - 1 \in 0..(n - 1)
        BY <1>1
  <2>2. \E x \in S : Rank(query, x, S) = i - 1
        BY <2>1, RankProperties
  <2>3. s[i] = CHOOSE x \in S : Rank(query, x, S) = i - 1
        BY DEF InOrder
  <2> QED
        BY <2>2, <2>3
<1> HIDE DEF s
<1>4. \A x, y \in S : Rank(query, x, S) = Rank(query, y, S) => x = y
      BY RankProperties
<1>5. \A x, y \in S : Rank(query, x, S) < Rank(query, y, S) => Before(query, x, y)
      BY RankProperties
<1>6. s \in Seq(S) /\ Len(s) = n
  <2>1. s \in [1..n -> S]
        BY <1>2, <1>3
  <2> QED
        BY <1>1, <2>1, SeqDef
<1>7. ASSUME NEW x \in S
      PROVE  Rank(query, x, S) + 1 \in 1..n /\ s[Rank(query, x, S) + 1] = x
  <2> DEFINE k == Rank(query, x, S) + 1
  <2>1. Rank(query, x, S) \in 0..(n - 1)
        BY RankProperties
  <2>2. k \in 1..n /\ k - 1 = Rank(query, x, S)
        BY <1>1, <2>1
  <2> HIDE DEF k
  <2>3. s[k] \in S /\ Rank(query, s[k], S) = Rank(query, x, S)
        BY <1>3, <2>2
  <2>4. s[k] = x
        BY <1>4, <2>3
  <2> QED
        BY <2>2, <2>4 DEF k
<1>8. Range(s) = S
      BY <1>2, <1>3, <1>7 DEF Range
<1>9. ASSUME NEW i \in 1..n, NEW j \in 1..n, i < j
      PROVE  Before(query, s[i], s[j])
  <2>1. i - 1 < j - 1
        BY <1>1, <1>9
  <2> QED
        BY <1>3, <1>5, <2>1
<1> QED
      BY <1>1, <1>3, <1>6, <1>7, <1>8, <1>9 DEF s

LEMMA TakeProperties ==
  ASSUME NEW S, NEW s \in Seq(S), NEW limit \in Number
  PROVE  /\ Take(s, limit) \in Seq(S)
         /\ Len(Take(s, limit)) = IF limit = None \/ limit >= Len(s) THEN Len(s) ELSE limit
         /\ \A i \in 1..Len(Take(s, limit)) : Take(s, limit)[i] = s[i]
<1>1. CASE limit = None \/ limit >= Len(s)
      BY <1>1 DEF Take
<1>2. CASE ~(limit = None \/ limit >= Len(s))
  <2>1. limit \in Nat /\ Len(s) \in Nat /\ limit < Len(s)
        BY <1>2, LenProperties DEF Number
  <2>2. \A i \in 1..limit : s[i] \in S
        BY <2>1, ElementOfSeq
  <2>3. Take(s, limit) = SubSeq(s, 1, limit)
        BY <1>2 DEF Take
  <2> QED
        BY <1>2, <2>1, <2>2, <2>3, SubSeqProperties
<1> QED
      BY <1>1, <1>2

PageLength(query, n) ==
  IF query.offset >= n THEN 0
  ELSE IF query.limit = None \/ query.limit >= n - query.offset THEN n - query.offset
  ELSE query.limit

\* A page: the sorted rows after the offset, up to the limit.
LEMMA PageProperties ==
  ASSUME NEW query \in Query, NEW S \in SUBSET Records, IsFiniteSet(S), OneRowEach(S)
  PROVE  /\ PageDatafusionRuns(query, S) \in Seq(S)
         /\ Len(PageDatafusionRuns(query, S)) = PageLength(query, Cardinality(S))
         /\ \A i \in 1..PageLength(query, Cardinality(S)) :
              /\ query.offset + i \in 1..Cardinality(S)
              /\ PageDatafusionRuns(query, S)[i] = InOrder(query, S)[query.offset + i]
<1> DEFINE s == InOrder(query, S)
           n == Cardinality(S)
           o == query.offset
           t == SubSeq(s, o + 1, n)
<1>1. s \in Seq(S) /\ n \in Nat /\ Len(s) = n
      BY InOrderProperties
<1>2. o \in Nat /\ query.limit \in Number
      BY DEF Query
<1>3. PageDatafusionRuns(query, S) = Take(t, query.limit)
      BY <1>1 DEF PageDatafusionRuns
<1> HIDE DEF s, n, o
<1>4. \A i \in o + 1..n : s[i] \in S
      BY <1>1, <1>2, ElementOfSeq
<1>5. /\ t \in Seq(S)
      /\ Len(t) = IF o + 1 =< n THEN n - o ELSE 0
      /\ \A i \in 1..(n - o) : t[i] = s[o + i]
  <2>1. o + 1 \in Int /\ n \in Int /\ n - (o + 1) + 1 = n - o
        BY <1>1, <1>2
  <2>2. /\ SubSeq(s, o + 1, n) \in Seq(S)
        /\ Len(SubSeq(s, o + 1, n)) = IF o + 1 =< n THEN n - (o + 1) + 1 ELSE 0
        /\ \A i \in 1..(n - (o + 1) + 1) : SubSeq(s, o + 1, n)[i] = s[o + 1 + i - 1]
        BY <1>4, <2>1, SubSeqProperties
  <2>3. \A i \in 1..(n - o) : o + 1 + i - 1 = o + i
        BY <1>1, <1>2
  <2> QED
        BY <2>1, <2>2, <2>3
<1> HIDE DEF t
<1>6. /\ Take(t, query.limit) \in Seq(S)
      /\ Len(Take(t, query.limit)) =
           IF query.limit = None \/ query.limit >= Len(t) THEN Len(t) ELSE query.limit
      /\ \A i \in 1..Len(Take(t, query.limit)) : Take(t, query.limit)[i] = t[i]
      BY <1>2, <1>5, TakeProperties
<1>7. Len(Take(t, query.limit)) = PageLength(query, n)
      BY <1>1, <1>2, <1>5, <1>6 DEF PageLength, o, Number
<1>8. \A i \in 1..PageLength(query, n) : i \in 1..(n - o) /\ o + i \in 1..n
      BY <1>1, <1>2 DEF PageLength, o, Number
<1> QED
      BY <1>3, <1>5, <1>6, <1>7, <1>8 DEF s, n, o

\* Fewer rows, smaller ranks.
LEMMA RankInSubset ==
  ASSUME NEW query, NEW S \in SUBSET Records, IsFiniteSet(S), NEW T \in SUBSET S, NEW x \in T
  PROVE  /\ Rank(query, x, T) \in Nat /\ Rank(query, x, S) \in Nat
         /\ Rank(query, x, T) =< Rank(query, x, S)
<1> DEFINE A == {r \in S : Before(query, r, x)}
           B == {r \in T : Before(query, r, x)}
<1>1. B \in SUBSET A /\ A \in SUBSET S
      OBVIOUS
<1>2. Rank(query, x, S) = Cardinality(A) /\ Rank(query, x, T) = Cardinality(B)
      BY DEF Rank
<1> HIDE DEF A, B
<1>3. IsFiniteSet(A) /\ IsFiniteSet(B) /\ Cardinality(B) =< Cardinality(A)
      BY <1>1, FS_Subset
<1> QED
      BY <1>2, <1>3, FS_CardinalityType

\* A subset that keeps the rows up to some rank keeps them at their ranks.
LEMMA SameRank ==
  ASSUME NEW query, NEW S \in SUBSET Records, IsFiniteSet(S), OneRowEach(S),
         NEW T \in SUBSET S, NEW N \in Nat, \A x \in S : Rank(query, x, S) < N => x \in T,
         NEW x \in S, Rank(query, x, S) < N
  PROVE  x \in T /\ Rank(query, x, T) = Rank(query, x, S)
<1>1. x \in T
      OBVIOUS
<1>2. ASSUME NEW r \in S, Before(query, r, x) PROVE r \in T
  <2>1. Rank(query, r, S) < Rank(query, x, S)
        BY <1>2, RankProperties
  <2>2. Rank(query, r, S) \in Nat /\ Rank(query, x, S) \in Nat
    <3>1. \A y \in S : Rank(query, y, S) \in 0..(Cardinality(S) - 1)
          BY RankProperties
    <3> QED
          BY <3>1, FS_CardinalityType
  <2>3. Rank(query, r, S) < N
        BY <2>1, <2>2
  <2> QED
        BY <2>3
<1>3. {r \in T : Before(query, r, x)} = {r \in S : Before(query, r, x)}
      BY <1>2
<1> QED
      BY <1>1, <1>3 DEF Rank

\* The first rows of a subset hold the rows of the set up to that rank.
LEMMA TopIsTaken ==
  ASSUME NEW query, NEW S \in SUBSET Records, IsFiniteSet(S), OneRowEach(S),
         NEW T \in SUBSET S, NEW N \in Nat, NEW x \in T, Rank(query, x, S) < N
  PROVE  x \in Range(Take(InOrder(query, T), N))
<1> DEFINE s == InOrder(query, T)
           t == Take(s, N)
           k == Rank(query, x, T)
<1>1. IsFiniteSet(T) /\ OneRowEach(T) /\ T \in SUBSET Records
      BY FS_Subset DEF OneRowEach
<1>2. s \in Seq(T) /\ Len(s) = Cardinality(T) /\ Cardinality(T) \in Nat
      BY <1>1, InOrderProperties
<1>3. k + 1 \in 1..Cardinality(T) /\ s[k + 1] = x
      BY <1>1, InOrderProperties
<1>4. k \in Nat /\ k < N
      BY RankInSubset
<1> HIDE DEF s, k
<1>5. t \in Seq(T) /\ Len(t) = (IF N = None \/ N >= Len(s) THEN Len(s) ELSE N)
      /\ \A i \in 1..Len(t) : t[i] = s[i]
      BY <1>2, TakeProperties DEF Number
<1> HIDE DEF t
<1>6. k + 1 \in 1..Len(t)
      BY <1>2, <1>3, <1>4, <1>5
<1>7. t[k + 1] = x
      BY <1>3, <1>5, <1>6
<1>8. DOMAIN t = 1..Len(t)
      BY <1>5, LenProperties
<1>9. x \in Range(t)
      BY <1>6, <1>7, <1>8 DEF Range
<1> QED
      BY <1>9 DEF t, s

\* LIMIT and OFFSET may be pushed down: the page of some of the rows is the page of
\* all, when those up to the end of the page are among them.
LEMMA PagesAgree ==
  ASSUME NEW query \in Query, NEW S \in SUBSET Records, IsFiniteSet(S), OneRowEach(S),
         NEW T \in SUBSET S,
         \A x \in S : query.limit = None \/ Rank(query, x, S) < query.limit + query.offset => x \in T
  PROVE  PageDatafusionRuns(query, T) = PageDatafusionRuns(query, S)
<1> DEFINE n == Cardinality(S)
           m == Cardinality(T)
           N == query.limit + query.offset
           o == query.offset
           a == InOrder(query, S)
           b == InOrder(query, T)
           pS == PageDatafusionRuns(query, S)
           pT == PageDatafusionRuns(query, T)
<1>1. IsFiniteSet(T) /\ OneRowEach(T) /\ T \in SUBSET Records
      BY FS_Subset DEF OneRowEach
<1>2. n \in Nat /\ m \in Nat
      BY <1>1, FS_CardinalityType
<1>3. CASE query.limit = None
  <2>1. T = S
        BY <1>3
  <2> QED
        BY <2>1
<1>4. CASE query.limit # None
  <2>1. query.limit \in Nat /\ o \in Nat /\ N \in Nat
        BY <1>4 DEF Query, Number
  <2>2. \A x \in S : Rank(query, x, S) \in 0..(n - 1)
        BY RankProperties
  <2>3. CASE n =< N
    <3>1. \A x \in S : Rank(query, x, S) < N
          BY <1>2, <2>1, <2>2, <2>3
    <3>2. T = S
          BY <3>1
    <3> QED
          BY <3>2
  <2>4. CASE n > N
    <3> HIDE DEF n, m, N, o, a, b, pS, pT
    <3>1. ASSUME NEW i \in 1..N PROVE i \in 1..m /\ b[i] = a[i]
      <4>1. i \in 1..n
            BY <1>2, <2>1, <2>4
      <4>2. a[i] \in S /\ Rank(query, a[i], S) = i - 1
            BY <4>1, InOrderProperties DEF a, n
      <4>3. Rank(query, a[i], S) < N
            BY <2>1, <4>2
      <4>4. a[i] \in T /\ Rank(query, a[i], T) = Rank(query, a[i], S)
        <5>1. \A x \in S : Rank(query, x, S) < N => x \in T
              BY DEF N
        <5> QED
              BY <2>1, <4>2, <4>3, <5>1, SameRank
      <4>5. Rank(query, a[i], T) + 1 \in 1..m /\ b[Rank(query, a[i], T) + 1] = a[i]
            BY <1>1, <4>4, InOrderProperties DEF b, m
      <4>6. Rank(query, a[i], T) + 1 = i
            BY <4>2, <4>4
      <4> QED
            BY <4>5, <4>6
    <3>2. m >= N
      <4>1. CASE N = 0
            BY <1>2, <4>1
      <4>2. CASE N # 0
        <5>1. N \in 1..N
              BY <2>1, <4>2
        <5>2. N \in 1..m
              BY <3>1, <5>1
        <5> QED
              BY <1>2, <5>2
      <4> QED
            BY <4>1, <4>2
    <3>3. PageLength(query, n) = query.limit /\ PageLength(query, m) = query.limit
          BY <1>2, <1>4, <2>1, <2>4, <3>2 DEF PageLength, N, o
    <3>4. /\ pS \in Seq(S) /\ Len(pS) = query.limit
          /\ \A i \in 1..query.limit : pS[i] = a[o + i]
          BY <3>3, PageProperties DEF pS, a, n, o
    <3>5. /\ pT \in Seq(T) /\ Len(pT) = query.limit
          /\ \A i \in 1..query.limit : pT[i] = b[o + i]
          BY <1>1, <3>3, PageProperties DEF pT, b, m, o
    <3>6. \A i \in 1..query.limit : o + i \in 1..N
          BY <2>1 DEF N, o
    <3>7. \A i \in 1..query.limit : pT[i] = pS[i]
          BY <3>1, <3>4, <3>5, <3>6
    <3>8. pT \in Seq(S)
          BY <3>5, SeqMonotonic
    <3>9. pT = pS
          BY <3>4, <3>5, <3>7, <3>8, SeqEqual
    <3> QED
          BY <3>9 DEF pS, pT
  <2> QED
        BY <1>2, <2>1, <2>3, <2>4
<1> QED
      BY <1>3, <1>4

\* Rows that are in order already stay in order.
LEMMA SortedAgain ==
  ASSUME NEW query, NEW S \in SUBSET Records, OneRowEach(S), NEW s \in Seq(S),
         \A i, j \in 1..Len(s) : i < j => Before(query, s[i], s[j])
  PROVE  IsFiniteSet(Range(s)) /\ Cardinality(Range(s)) =< Len(s) /\ InOrder(query, Range(s)) = s
<1> DEFINE n == Len(s)
           R == Range(s)
           t == InOrder(query, R)
<1>1. n \in Nat /\ DOMAIN s = 1..n /\ s \in [1..n -> S]
      BY LenProperties
<1>2. R \in SUBSET S /\ R \in SUBSET Records
      BY <1>1 DEF Range
<1>3. \A x \in R : \E i \in 1..n : x = s[i]
      BY <1>1 DEF Range
<1>4. \A i \in 1..n : s[i] \in R
      BY <1>1 DEF Range
<1> HIDE DEF R
<1>5. \A i, j \in 1..n : s[i] = s[j] => i = j
  <2> SUFFICES ASSUME NEW i \in 1..n, NEW j \in 1..n, i # j PROVE s[i] # s[j]
      OBVIOUS
  <2>1. i < j \/ j < i
        BY <1>1
  <2>2. s[i] \in Records /\ s[j] \in Records
        BY <1>2, <1>4
  <2> QED
        BY <2>1, <2>2, BeforeIsAnOrder
<1>6. s \in Bijection(1..n, R)
  <2>1. s \in [1..n -> R]
        BY <1>1, <1>4
  <2> QED
        BY <1>3, <1>5, <2>1 DEF Bijection, Injection, Surjection, IsInjective
<1>7. IsFiniteSet(R) /\ Cardinality(R) = n
  <2>1. ExistsBijection(1..n, R)
        BY <1>6 DEF ExistsBijection
  <2>2. IsFiniteSet(1..n) /\ Cardinality(1..n) = n
        BY <1>1, FS_Interval
  <2> QED
        BY <2>1, <2>2, FS_Bijection
<1>8. OneRowEach(R)
      BY <1>2 DEF OneRowEach
<1>9. ASSUME NEW i \in 1..n PROVE Rank(query, s[i], R) = i - 1
  <2> DEFINE f == [j \in 1..(i - 1) |-> s[j]]
             L == {r \in R : Before(query, r, s[i])}
  <2>1. \A j \in 1..n : Before(query, s[j], s[i]) <=> j < i
    <3> SUFFICES ASSUME NEW j \in 1..n PROVE Before(query, s[j], s[i]) <=> j < i
        OBVIOUS
    <3>1. s[i] \in Records /\ s[j] \in Records
          BY <1>2, <1>4
    <3>2. j < i \/ i < j \/ i = j
          BY <1>1
    <3> QED
          BY <1>1, <3>1, <3>2, BeforeIsAnOrder
  <2>2. 1..(i - 1) \subseteq 1..n /\ \A j \in 1..(i - 1) : j < i
        BY <1>1
  <2>3. \A j \in 1..n : j < i => j \in 1..(i - 1)
        BY <1>1
  <2>4. \A j \in 1..(i - 1) : s[j] \in L
        BY <1>4, <2>1, <2>2
  <2>5. \A x \in L : \E j \in 1..(i - 1) : x = s[j]
        BY <1>3, <2>1, <2>3
  <2> HIDE DEF L
  <2>6. f \in Bijection(1..(i - 1), L)
    <3>1. f \in [1..(i - 1) -> L] /\ \A j \in 1..(i - 1) : f[j] = s[j]
          BY <2>4
    <3> HIDE DEF f
    <3>2. \A j, k \in 1..(i - 1) : f[j] = f[k] => j = k
          BY <1>5, <2>2, <3>1
    <3>3. \A x \in L : \E j \in 1..(i - 1) : f[j] = x
          BY <2>5, <3>1
    <3> QED
          BY <3>1, <3>2, <3>3 DEF Bijection, Injection, Surjection, IsInjective
  <2>7. IsFiniteSet(1..(i - 1)) /\ Cardinality(1..(i - 1)) = i - 1
    <3> DEFINE k == i - 1
    <3>1. k \in Nat
          BY <1>1
    <3> HIDE DEF k
    <3>2. IsFiniteSet(1..k) /\ Cardinality(1..k) = k
          BY <3>1, FS_Interval
    <3> QED
          BY <3>2 DEF k
  <2>8. Cardinality(L) = i - 1
    <3>1. ExistsBijection(1..(i - 1), L)
          BY <2>6 DEF ExistsBijection
    <3> QED
          BY <2>7, <3>1, FS_Bijection
  <2> QED
        BY <2>8 DEF Rank, L
<1>10. t \in Seq(R) /\ Len(t) = n
      BY <1>2, <1>7, <1>8, InOrderProperties
<1>11. ASSUME NEW i \in 1..n PROVE t[i] = s[i]
  <2>1. t[Rank(query, s[i], R) + 1] = s[i]
        BY <1>2, <1>4, <1>7, <1>8, InOrderProperties
  <2>2. Rank(query, s[i], R) + 1 = i
        BY <1>1, <1>9
  <2> QED
        BY <2>1, <2>2
<1> HIDE DEF t
<1>12. t = s
  <2>1. t \in Seq(S)
        BY <1>2, <1>10, SeqMonotonic
  <2> QED
        BY <1>10, <1>11, <2>1, SeqEqual
<1> QED
      BY <1>1, <1>7, <1>12 DEF t, R

(* Chunks of segments, and the rows of a compacted segment. *)

LEMMA CeilDivision ==
  ASSUME NEW b \in Nat, NEW n \in Nat, NEW size \in Nat \ {0}, b < n
  PROVE  b \div size \in Nat /\ b \div size + 1 \in 1..((n + size - 1) \div size)
<1> DEFINE d == b \div size
           e == (n + size - 1) \div size
<1>1. d \in Nat /\ size * d =< b
      OBVIOUS
<1>2. e \in Int /\ n + size - 1 < size * e + size
      OBVIOUS
<1> HIDE DEF d, e
<1>3. ASSUME e =< d PROVE FALSE
  <2>1. size * e =< size * d
        BY <1>1, <1>2, <1>3
  <2>2. size * e \in Int /\ size * d \in Int
        BY <1>1, <1>2
  <2> QED
        BY <1>1, <1>2, <2>1, <2>2
<1>4. d + 1 =< e
      BY <1>1, <1>2, <1>3
<1>5. d \in Nat /\ d + 1 \in 1..e
      BY <1>1, <1>2, <1>4
<1> QED
      BY <1>5 DEF d, e

\* Every candidate segment is in some chunk.
LEMMA ChunksCover ==
  ASSUME NEW segs \in SUBSET Nat, IsFiniteSet(segs), NEW size \in Nat \ {0}
  PROVE  /\ Chunks(segs, size) \in Seq(SUBSET segs)
         /\ \A s \in segs : \E i \in DOMAIN Chunks(segs, size) : s \in Chunks(segs, size)[i]
<1> DEFINE Less(s) == {t \in segs : t < s}
           n == Cardinality(segs)
           count == (n + size - 1) \div size
           c == Chunks(segs, size)
<1>1. n \in Nat
      BY FS_CardinalityType
<1>2. count \in Nat
      BY <1>1
<1>3. /\ DOMAIN c = 1..count /\ c = [i \in 1..count |-> c[i]]
      /\ \A i \in 1..count : c[i] = {s \in segs : Cardinality(Less(s)) \div size = i - 1}
      BY DEF Chunks
<1> HIDE DEF c, count
<1>4. c \in Seq(SUBSET segs)
  <2>1. c \in [1..count -> SUBSET segs]
        BY <1>3
  <2> QED
        BY <1>2, <2>1, SeqDef
<1>5. ASSUME NEW s \in segs PROVE \E i \in DOMAIN c : s \in c[i]
  <2> DEFINE b == Cardinality(Less(s))
  <2>1. Less(s) \in SUBSET segs /\ s \notin Less(s)
        OBVIOUS
  <2> HIDE DEF Less
  <2>2. b \in Nat /\ b =< n /\ b # n
        BY <2>1, FS_Subset, FS_CardinalityType
  <2> DEFINE i == b \div size + 1
  <2>3. b \div size \in Nat /\ i \in 1..count
        BY <1>1, <2>2, CeilDivision DEF count
  <2>4. b \div size = i - 1
        BY <2>3
  <2> HIDE DEF i, b
  <2>5. s \in c[i]
        BY <1>3, <2>3, <2>4 DEF b
  <2> QED
        BY <1>3, <2>3, <2>5
<1> QED
      BY <1>4, <1>5 DEF c

Place(moved, r) == Cardinality({x \in moved : x =< r})

\* The runs of a compaction are numbered one by one.
LEMMA PlacesAreTaken ==
  ASSUME NEW moved \in SUBSET Nat, IsFiniteSet(moved)
  PROVE  /\ Cardinality(moved) \in Nat
         /\ \A r \in moved : Place(moved, r) \in 1..Cardinality(moved)
         /\ \A r, t \in moved : Place(moved, r) = Place(moved, t) => r = t
         /\ \A n \in 1..Cardinality(moved) : \E r \in moved : Place(moved, r) = n
<1> DEFINE U(r) == {x \in moved : x =< r}
           n == Cardinality(moved)
           f == [r \in moved |-> Place(moved, r) - 1]
<1>1. n \in Nat
      BY FS_CardinalityType
<1>2. \A r \in moved : /\ IsFiniteSet(U(r)) /\ Cardinality(U(r)) \in Nat
                       /\ Cardinality(U(r)) =< n
      BY FS_Subset, FS_CardinalityType
<1>3. ASSUME NEW r \in moved PROVE Place(moved, r) \in 1..n
  <2>1. r \in U(r) /\ Place(moved, r) = Cardinality(U(r))
        BY DEF Place
  <2> HIDE DEF U
  <2>2. Cardinality(U(r)) # 0
        BY <1>2, <2>1, FS_EmptySet
  <2> QED
        BY <1>1, <1>2, <2>1, <2>2
<1>4. ASSUME NEW r \in moved, NEW t \in moved, r < t
      PROVE  Place(moved, r) # Place(moved, t)
  <2>1. U(r) \in SUBSET U(t) /\ t \in U(t) /\ t \notin U(r)
    <3>1. t =< t /\ ~(t =< r) /\ \A x \in moved : x =< r => x =< t
          BY <1>4
    <3> QED
          BY <3>1
  <2>2. Place(moved, r) = Cardinality(U(r)) /\ Place(moved, t) = Cardinality(U(t))
        BY DEF Place
  <2> HIDE DEF U
  <2>3. Cardinality(U(r)) # Cardinality(U(t))
        BY <1>2, <2>1, FS_Subset
  <2> QED
        BY <2>2, <2>3
<1>5. \A r, t \in moved : Place(moved, r) = Place(moved, t) => r = t
  <2> SUFFICES ASSUME NEW r \in moved, NEW t \in moved, r # t
               PROVE  Place(moved, r) # Place(moved, t)
      OBVIOUS
  <2>1. r < t \/ t < r
        OBVIOUS
  <2> QED
        BY <1>4, <2>1
<1>6. f \in [moved -> 0..(n - 1)] /\ \A r \in moved : Place(moved, r) = f[r] + 1
      BY <1>1, <1>3
<1>7. \A r, t \in moved : f[r] = f[t] => r = t
      BY <1>5, <1>6
<1> HIDE DEF f
<1>8. \A k \in 0..(n - 1) : \E r \in moved : f[r] = k
      BY <1>6, <1>7, NumbersAreTaken
<1>9. ASSUME NEW k \in 1..n PROVE \E r \in moved : Place(moved, r) = k
  <2>1. k - 1 \in 0..(n - 1) /\ k - 1 + 1 = k
        BY <1>1
  <2>2. PICK r \in moved : f[r] = k - 1
        BY <1>8, <2>1
  <2> QED
        BY <1>6, <2>1, <2>2
<1> QED
      BY <1>1, <1>3, <1>5, <1>9

(* Types. *)

LEMMA PlacesInDef ==
  ASSUME NEW segs \in Seq(Segment)
  PROVE  /\ \A s \in 1..Len(segs) : /\ segs[s] \in Segment
                                    /\ segs[s].rows \in Seq(Records) /\ segs[s].rows # <<>>
         /\ DOMAIN segs = 1..Len(segs) /\ Len(segs) \in Nat
         /\ \A h : h \in PlacesIn(segs) <=> /\ h \in [seg : 1..Len(segs), row : Nat]
                                            /\ h.row \in 1..Len(segs[h.seg].rows)
         /\ \A h \in PlacesIn(segs) : /\ segs[h.seg].rows[h.row] \in Records
                                      /\ h \in [seg : Nat, row : Nat] /\ h.seg \in 1..Len(segs)
<1>1. DOMAIN segs = 1..Len(segs) /\ Len(segs) \in Nat
      BY LenProperties
<1>2. \A s \in 1..Len(segs) : /\ segs[s] \in Segment
                              /\ segs[s].rows \in Seq(Records) /\ segs[s].rows # <<>>
  <2>1. \A s \in 1..Len(segs) : segs[s] \in Segment
        BY <1>1, ElementOfSeq
  <2> QED
        BY <2>1 DEF Segment
<1>3. \A s \in 1..Len(segs) : /\ DOMAIN segs[s].rows = 1..Len(segs[s].rows)
                              /\ Len(segs[s].rows) \in Nat
      BY <1>2, LenProperties
<1>4. ASSUME NEW h
      PROVE  h \in PlacesIn(segs) <=> /\ h \in [seg : 1..Len(segs), row : Nat]
                                      /\ h.row \in 1..Len(segs[h.seg].rows)
  <2>1. ASSUME h \in PlacesIn(segs)
        PROVE  h \in [seg : 1..Len(segs), row : Nat] /\ h.row \in 1..Len(segs[h.seg].rows)
    <3>1. PICK s \in DOMAIN segs : h \in [seg : {s}, row : DOMAIN segs[s].rows]
          BY <2>1 DEF PlacesIn
    <3>2. h.seg = s /\ h.row \in 1..Len(segs[s].rows) /\ h = [seg |-> h.seg, row |-> h.row]
          BY <1>1, <1>3, <3>1
    <3> QED
          BY <1>1, <1>3, <3>1, <3>2
  <2>2. ASSUME h \in [seg : 1..Len(segs), row : Nat], h.row \in 1..Len(segs[h.seg].rows)
        PROVE  h \in PlacesIn(segs)
    <3>1. h \in [seg : {h.seg}, row : DOMAIN segs[h.seg].rows]
          BY <1>3, <2>2
    <3> QED
          BY <1>1, <2>2, <3>1 DEF PlacesIn
  <2> QED
        BY <2>1, <2>2
<1>5. ASSUME NEW h \in PlacesIn(segs)
      PROVE  /\ segs[h.seg].rows[h.row] \in Records
             /\ h \in [seg : Nat, row : Nat] /\ h.seg \in 1..Len(segs)
  <2>1. h \in [seg : 1..Len(segs), row : Nat] /\ h.row \in 1..Len(segs[h.seg].rows)
        BY <1>4
  <2>2. h.seg \in 1..Len(segs)
        BY <2>1
  <2> QED
        BY <1>1, <1>2, <2>1, <2>2, ElementOfSeq
<1> QED
      BY <1>1, <1>2, <1>4, <1>5

\* The rows of segments never change: their places stay.
LEMMA PlacesStay ==
  ASSUME NEW old \in Seq(Segment), NEW new \in Seq(Segment), Len(old) =< Len(new),
         \A s \in 1..Len(old) : new[s].rows = old[s].rows, NEW h \in PlacesIn(old)
  PROVE  h \in PlacesIn(new) /\ new[h.seg].rows[h.row] = old[h.seg].rows[h.row]
<1>1. h \in [seg : 1..Len(old), row : Nat] /\ h.row \in 1..Len(old[h.seg].rows)
      BY PlacesInDef
<1>2. Len(old) \in Nat /\ Len(new) \in Nat
      BY PlacesInDef
<1>3. new[h.seg].rows = old[h.seg].rows
      BY <1>1
<1>4. h \in [seg : 1..Len(new), row : Nat] /\ h.row \in 1..Len(new[h.seg].rows)
      BY <1>1, <1>2, <1>3
<1>5. h \in PlacesIn(new)
      BY <1>4, PlacesInDef
<1> QED
      BY <1>3, <1>5

\* What a change of the store leaves.
StoreTyped ==
  /\ segments \in Seq(Segment)
  /\ heads \in [Runs -> PlacesIn(segments) \cup {None}]
  /\ \A r \in Runs : heads[r] # None => RowOf(heads[r]).run = r
  /\ deletions \subseteq Runs

RowsKept ==
  /\ Len(segments) =< Len(segments')
  /\ \A s \in 1..Len(segments) : segments'[s].rows = segments[s].rows

LEMMA SegmentAdded ==
  ASSUME StoreTyped, NEW segs \in Seq(Segment), Len(segs) = Len(segments),
         \A s \in 1..Len(segs) : segs[s].rows = segments[s].rows,
         NEW rows \in Seq(Records), rows # <<>>,
         segments' = Append(segs, [rows |-> rows, compacted |-> FALSE, object |-> TRUE,
                                   indexed |-> TRUE])
  PROVE  /\ segments' \in Seq(Segment) /\ RowsKept
         /\ Len(segments') = Len(segments) + 1
         /\ segments'[Len(segments) + 1].rows = rows
         /\ \A i \in 1..Len(rows) : [seg |-> Len(segments) + 1, row |-> i] \in PlacesIn(segments')
<1> DEFINE new == [rows |-> rows, compacted |-> FALSE, object |-> TRUE, indexed |-> TRUE]
<1>1. new \in Segment /\ new.rows = rows
      BY DEF Segment
<1>2. Len(segs) \in Nat
      BY LenProperties
<1> HIDE DEF new
<1>3. segments' = Append(segs, new)
      BY DEF new
<1>4. /\ segments' \in Seq(Segment)
      /\ Len(segments') = Len(segs) + 1
      /\ \A i \in 1..Len(segs) : segments'[i] = segs[i]
      /\ segments'[Len(segs) + 1] = new
  <2>1. /\ Append(segs, new) \in Seq(Segment)
        /\ Len(Append(segs, new)) = Len(segs) + 1
        /\ \A i \in 1..Len(segs) : Append(segs, new)[i] = segs[i]
        /\ Append(segs, new)[Len(segs) + 1] = new
        BY <1>1, AppendProperties
  <2> QED
        BY <1>3, <2>1
<1>5. RowsKept
      BY <1>2, <1>4 DEF RowsKept
<1>6. ASSUME NEW i \in 1..Len(rows)
      PROVE  [seg |-> Len(segments) + 1, row |-> i] \in PlacesIn(segments')
  <2>1. i \in Nat
        BY LenProperties
  <2>2. Len(segments) + 1 \in 1..Len(segments')
        BY <1>2, <1>4
  <2>3. [seg |-> Len(segments) + 1, row |-> i] \in [seg : 1..Len(segments'), row : Nat]
        BY <2>1, <2>2
  <2>4. segments'[Len(segments) + 1].rows = rows
        BY <1>1, <1>4
  <2> QED
        BY <1>4, <2>3, <2>4, PlacesInDef
<1> QED
      BY <1>1, <1>4, <1>5, <1>6

LEMMA StoreSteps ==
  ASSUME StoreTyped, WriteRun \/ DeleteRun \/ Compact \/ CleanUp
  PROVE  StoreTyped' /\ RowsKept
<1> USE DEF StoreTyped
<1>1. /\ \A s \in 1..Len(segments) : /\ segments[s] \in Segment
                                     /\ segments[s].rows \in Seq(Records) /\ segments[s].rows # <<>>
      /\ DOMAIN segments = 1..Len(segments) /\ Len(segments) \in Nat
      /\ \A h \in PlacesIn(segments) : RowOf(h) \in Records
      BY PlacesInDef DEF RowOf
<1>2. ASSUME segments' \in Seq(Segment), RowsKept, NEW h \in PlacesIn(segments)
       PROVE  h \in PlacesIn(segments') /\ segments'[h.seg].rows[h.row] = RowOf(h)
      BY <1>2, PlacesStay DEF RowsKept, RowOf
<1>3. CASE WriteRun
  <2>1. PICK rec \in Records :
          /\ segments' = Append(segments, [rows |-> <<rec>>, compacted |-> FALSE, object |-> TRUE,
                                           indexed |-> TRUE])
          /\ heads' = [heads EXCEPT ![rec.run] = [seg |-> Len(segments) + 1, row |-> 1]]
        BY <1>3 DEF WriteRun
  <2>2. deletions' = deletions
        BY <1>3 DEF WriteRun
  <2> DEFINE h0 == [seg |-> Len(segments) + 1, row |-> 1]
  <2>3. <<rec>> \in Seq(Records) /\ <<rec>> # <<>> /\ Len(<<rec>>) = 1 /\ <<rec>>[1] = rec
        OBVIOUS
  <2>4. /\ segments' \in Seq(Segment) /\ RowsKept
        /\ segments'[Len(segments) + 1].rows = <<rec>>
        /\ \A i \in 1..1 : [seg |-> Len(segments) + 1, row |-> i] \in PlacesIn(segments')
        BY <2>1, <2>3, SegmentAdded
  <2>5. h0 \in PlacesIn(segments') /\ segments'[h0.seg].rows[h0.row] = rec
        BY <2>3, <2>4
  <2>6. rec.run \in Runs
        BY RunQueriesAssumption DEF Record
  <2> HIDE DEF h0
  <2>7. heads' = [heads EXCEPT ![rec.run] = h0]
        BY <2>1 DEF h0
  <2>8. heads' \in [Runs -> PlacesIn(segments') \cup {None}]
        BY <1>2, <2>4, <2>5, <2>6, <2>7
  <2>9. ASSUME NEW r \in Runs, heads'[r] # None
        PROVE  segments'[heads'[r].seg].rows[heads'[r].row].run = r
    <3>1. CASE r = rec.run
          BY <2>5, <2>6, <2>7, <3>1
    <3>2. CASE r # rec.run
      <4>1. heads'[r] = heads[r] /\ heads[r] \in PlacesIn(segments)
            BY <2>7, <2>9, <3>2
      <4> QED
            BY <1>2, <2>4, <2>9, <4>1
    <3> QED
          BY <3>1, <3>2
  <2> QED
        BY <2>2, <2>4, <2>8, <2>9 DEF RowOf
<1>4. CASE DeleteRun
  <2>1. segments' = segments /\ heads' = heads /\ deletions' \subseteq Runs
        BY <1>4 DEF DeleteRun
  <2> QED
        BY <1>1, <2>1 DEF RowsKept, RowOf
<1>5. CASE Compact
  <2> DEFINE old == {s \in DOMAIN segments : ~segments[s].compacted}
             moved == {r \in Runs : Visible(r)}
             rows == [i \in 1..Cardinality(moved) |->
                        RowOf(heads[CHOOSE r \in moved : Place(moved, r) = i])]
             segs == [s \in DOMAIN segments |-> [segments[s] EXCEPT !.compacted = @ \/ s \in old]]
             new == Len(segments) + 1
  <2>1. /\ moved # {} /\ deletions' = deletions
        /\ segments' = Append(segs, [rows |-> rows, compacted |-> FALSE, object |-> TRUE,
                                     indexed |-> TRUE])
        /\ heads' = [r \in Runs |-> IF r \in moved THEN [seg |-> new, row |-> Place(moved, r)]
                                    ELSE heads[r]]
        BY <1>5 DEF Compact, Place
  <2>2. moved \in SUBSET Nat /\ IsFiniteSet(moved)
        BY RunQueriesAssumption, FS_Subset
  <2>3. /\ Cardinality(moved) \in Nat
        /\ \A r \in moved : Place(moved, r) \in 1..Cardinality(moved)
        /\ \A r, t \in moved : Place(moved, r) = Place(moved, t) => r = t
        /\ \A n \in 1..Cardinality(moved) : \E r \in moved : Place(moved, r) = n
        BY <2>2, PlacesAreTaken
  <2>4. \A r \in moved : heads[r] # None /\ heads[r] \in PlacesIn(segments) /\ r \in Runs
        BY DEF Visible
  <2> HIDE DEF moved
  <2>5. ASSUME NEW r \in moved PROVE rows[Place(moved, r)] = RowOf(heads[r])
    <3>1. (CHOOSE t \in moved : Place(moved, t) = Place(moved, r)) = r
          BY <2>3
    <3> QED
          BY <2>3, <3>1
  <2>6. rows \in Seq(Records) /\ Len(rows) = Cardinality(moved) /\ rows # <<>>
    <3>1. ASSUME NEW i \in 1..Cardinality(moved) PROVE rows[i] \in Records
      <4>1. PICK r \in moved : Place(moved, r) = i
            BY <2>3
      <4> QED
            BY <1>1, <2>4, <2>5, <4>1
    <3>2. rows \in [1..Cardinality(moved) -> Records]
          BY <3>1
    <3> HIDE DEF rows
    <3>3. rows \in Seq(Records) /\ Len(rows) = Cardinality(moved)
          BY <2>3, <3>2, SeqDef
    <3>4. Cardinality(moved) # 0
          BY <2>1, <2>2, FS_EmptySet
    <3> QED
          BY <3>3, <3>4, EmptySeq
  <2>7. segs \in Seq(Segment) /\ Len(segs) = Len(segments)
        /\ \A s \in 1..Len(segs) : segs[s].rows = segments[s].rows
    <3>1. ASSUME NEW s \in 1..Len(segments)
          PROVE  segs[s] \in Segment /\ segs[s].rows = segments[s].rows
          BY <1>1 DEF Segment
    <3>2. segs \in [1..Len(segments) -> Segment]
          BY <1>1, <3>1
    <3> HIDE DEF segs
    <3>3. segs \in Seq(Segment) /\ Len(segs) = Len(segments)
          BY <1>1, <3>2, SeqDef
    <3> QED
          BY <3>1, <3>3
  <2> HIDE DEF segs, rows
  <2>8. /\ segments' \in Seq(Segment) /\ RowsKept
        /\ segments'[new].rows = rows
        /\ \A i \in 1..Cardinality(moved) : [seg |-> new, row |-> i] \in PlacesIn(segments')
        BY <2>1, <2>6, <2>7, SegmentAdded
  <2>9. ASSUME NEW r \in Runs
        PROVE  /\ heads'[r] \in PlacesIn(segments') \cup {None}
               /\ heads'[r] # None => segments'[heads'[r].seg].rows[heads'[r].row].run = r
    <3>1. CASE r \in moved
      <4>1. heads'[r] = [seg |-> new, row |-> Place(moved, r)]
            BY <2>1, <3>1
      <4>2. segments'[heads'[r].seg].rows[heads'[r].row] = RowOf(heads[r])
            BY <2>5, <2>8, <3>1, <4>1
      <4> QED
            BY <2>3, <2>4, <2>8, <3>1, <4>1, <4>2
    <3>2. CASE r \notin moved
      <4>1. heads'[r] = heads[r]
            BY <2>1, <3>2
      <4>2. CASE heads[r] = None
            BY <4>1, <4>2
      <4>3. CASE heads[r] # None
        <5>1. heads[r] \in PlacesIn(segments) /\ RowOf(heads[r]).run = r
              BY <4>3
        <5> QED
              BY <1>2, <2>8, <4>1, <5>1
      <4> QED
            BY <4>2, <4>3
    <3> QED
          BY <3>1, <3>2
  <2>10. heads' \in [Runs -> PlacesIn(segments') \cup {None}]
        BY <2>1, <2>9
  <2> QED
        BY <2>1, <2>8, <2>9, <2>10 DEF RowOf
<1>6. CASE CleanUp
  <2>1. PICK s \in 1..Len(segments) : segments' = [segments EXCEPT ![s].object = FALSE]
        BY <1>1, <1>6 DEF CleanUp
  <2>2. heads' = heads /\ deletions' = deletions
        BY <1>6 DEF CleanUp
  <2> DEFINE e == [segments[s] EXCEPT !.object = FALSE]
  <2>3. e \in Segment /\ e.rows = segments[s].rows
        BY <1>1 DEF Segment
  <2>4. segments' = [segments EXCEPT ![s] = e]
        BY <2>1
  <2> HIDE DEF e
  <2>5. /\ segments' \in Seq(Segment) /\ Len(segments') = Len(segments)
        /\ \A j \in 1..Len(segments) : segments'[j] = IF j = s THEN e ELSE segments[j]
    <3>1. /\ [segments EXCEPT ![s] = e] \in Seq(Segment)
          /\ Len([segments EXCEPT ![s] = e]) = Len(segments)
          /\ \A j \in 1..Len(segments) :
               [segments EXCEPT ![s] = e][j] = IF j = s THEN e ELSE segments[j]
          BY <2>3, ExceptSeq
    <3> QED
          BY <2>4, <3>1
  <2>6. RowsKept
        BY <1>1, <2>3, <2>5 DEF RowsKept
  <2>7. heads' \in [Runs -> PlacesIn(segments') \cup {None}]
        BY <1>2, <2>2, <2>5, <2>6
  <2>8. ASSUME NEW r \in Runs, heads'[r] # None
        PROVE  segments'[heads'[r].seg].rows[heads'[r].row].run = r
        BY <1>2, <2>2, <2>5, <2>6, <2>8
  <2> QED
        BY <2>2, <2>5, <2>6, <2>7, <2>8 DEF RowOf
<1> QED
      BY <1>3, <1>4, <1>5, <1>6

(* What a plan, a read and an answer hold. *)

\* The rows that match a query, before its search.
Matching(query) == {RowOf(heads[r]) : r \in {x \in Runs : Wanted(query, x)}}

LEMMA HeadRows ==
  ASSUME TypeOK, NEW query
  PROVE  /\ Matching(query) \in SUBSET Records /\ IsFiniteSet(Matching(query))
         /\ OneRowEach(Matching(query))
         /\ Current(query) = {rec \in Matching(query) : HasWord(query, rec)}
         /\ IsFiniteSet(Current(query)) /\ OneRowEach(Current(query))
         /\ \A rec \in Matching(query) :
              /\ rec.run \in Runs /\ Wanted(query, rec.run) /\ RowOf(heads[rec.run]) = rec
              /\ heads[rec.run] \in PlacesIn(segments)
              /\ FieldsMatch(query, rec) /\ Retained(query, rec)
<1> DEFINE W == {r \in Runs : Wanted(query, r)}
           f == [r \in W |-> RowOf(heads[r])]
           M == Matching(query)
<1>1. \A r \in W : /\ heads[r] # None /\ heads[r] \in PlacesIn(segments)
                   /\ RowOf(heads[r]).run = r
      BY DEF TypeOK, Wanted
<1>2. \A h \in PlacesIn(segments) : RowOf(h) \in Records
      BY PlacesInDef DEF TypeOK, RowOf
<1>3. M \in SUBSET Records
      BY <1>1, <1>2 DEF Matching
<1>4. IsFiniteSet(W)
      BY RunQueriesAssumption, FS_Subset
<1>5. f \in Surjection(W, M)
      BY DEF Matching, Surjection
<1>6. IsFiniteSet(M)
      BY <1>4, <1>5, FS_Surjection
<1>7. \A rec \in M : \E r \in W : rec = RowOf(heads[r])
      BY DEF Matching
<1>8. ASSUME NEW rec \in M
      PROVE  /\ rec.run \in Runs /\ Wanted(query, rec.run) /\ RowOf(heads[rec.run]) = rec
             /\ heads[rec.run] \in PlacesIn(segments)
             /\ FieldsMatch(query, rec) /\ Retained(query, rec)
  <2>1. PICK r \in W : rec = RowOf(heads[r])
        BY <1>7
  <2>2. rec.run = r
        BY <1>1, <2>1
  <2>3. FieldsMatch(query, RowOf(heads[r])) /\ Retained(query, RowOf(heads[r]))
        BY DEF Wanted
  <2> QED
        BY <1>1, <2>1, <2>2, <2>3
<1>9. OneRowEach(M)
      BY <1>8 DEF OneRowEach
<1>10. Current(query) = {rec \in M : HasWord(query, rec)}
      BY DEF Current, WantedBy, Matching
<1>11. IsFiniteSet(Current(query)) /\ OneRowEach(Current(query))
      BY <1>6, <1>9, <1>10, FS_Subset DEF OneRowEach
<1> QED
      BY <1>3, <1>6, <1>8, <1>9, <1>10, <1>11

\* The candidates are heads that match, and those of the rows up to the end of the page.
LEMMA PlanResult ==
  ASSUME TypeOK, NEW query \in Query
  PROVE  /\ Candidates(query) \subseteq PlacesIn(segments)
         /\ \A h \in Candidates(query) : RowOf(h) \in Matching(query)
         /\ \A rec \in Current(query) :
              query.limit = None \/ Rank(query, rec, Current(query)) < query.limit + query.offset
              => \E h \in Candidates(query) : RowOf(h) = rec
<1> DEFINE M == Matching(query)
           P == Current(query)
           s == InOrder(query, M)
           upto == IF query.limit = None THEN None ELSE query.limit + query.offset
           kept == IF query.word # None \/ upto \in {None, 0} THEN s ELSE Take(s, upto)
<1>1. /\ M \in SUBSET Records /\ IsFiniteSet(M) /\ OneRowEach(M)
      /\ P = {rec \in M : HasWord(query, rec)}
      /\ \A rec \in M : RowOf(heads[rec.run]) = rec /\ heads[rec.run] \in PlacesIn(segments)
      BY HeadRows
<1>2. Candidates(query) = {heads[rec.run] : rec \in Range(kept)}
      BY DEF Candidates, Matching
<1>3. s \in Seq(M) /\ Range(s) = M
      BY <1>1, InOrderProperties
<1>4. query.limit \in Number /\ query.offset \in Nat
      BY DEF Query
<1>5. upto \in Number
      BY <1>4 DEF Number
<1> HIDE DEF M, P, s, upto
<1>6. Range(kept) \subseteq M
  <2>1. Take(s, upto) \in Seq(M)
        BY <1>3, <1>5, TakeProperties
  <2>2. Range(Take(s, upto)) \subseteq M
        BY <2>1, RangeOfSeq
  <2> QED
        BY <1>3, <2>2
<1>7. ASSUME NEW rec \in P,
             query.limit = None \/ Rank(query, rec, P) < query.limit + query.offset
      PROVE  rec \in Range(kept)
  <2>1. CASE query.word # None \/ upto \in {None, 0}
        BY <1>1, <1>3, <2>1
  <2>2. CASE ~(query.word # None \/ upto \in {None, 0})
    <3>1. P = M
          BY <1>1, <2>2 DEF HasWord
    <3>2. upto \in Nat /\ upto = query.limit + query.offset /\ query.limit # None
          BY <1>5, <2>2 DEF upto, Number
    <3>3. Rank(query, rec, M) < upto
          BY <1>7, <3>1, <3>2
    <3>4. rec \in Range(Take(InOrder(query, M), upto))
          BY <1>1, <3>1, <3>2, <3>3, TopIsTaken
    <3> QED
          BY <2>2, <3>4 DEF s
  <2> QED
        BY <2>1, <2>2
<1> HIDE DEF kept
<1>8. \A h \in Candidates(query) : h \in PlacesIn(segments) /\ RowOf(h) \in M
      BY <1>1, <1>2, <1>6
<1>9. \A rec \in Range(kept) : heads[rec.run] \in Candidates(query) /\ RowOf(heads[rec.run]) = rec
      BY <1>1, <1>2, <1>6
<1> QED
      BY <1>7, <1>8, <1>9 DEF M, P

\* A read gives rows of its candidates, and all that the page may need.
LEMMA ReadResult ==
  ASSUME NEW S \in SUBSET Records, IsFiniteSet(S), OneRowEach(S), q.query \in Query,
         \A h \in q.rows : RowOf(h) \in S, NEW segs
  PROVE  /\ ReadSegments(segs) \subseteq S
         /\ q.query.root = None => \A h \in q.rows :
              /\ h.seg \in segs /\ FieldsMatch(q.query, RowOf(h))
              /\ \/ q.query.limit = None
                 \/ Rank(q.query, RowOf(h), S) < q.query.limit + q.query.offset
              => RowOf(h) \in ReadSegments(segs)
<1> DEFINE query == q.query
           match == {rec \in SegmentRows(segs) : /\ FieldsMatch(query, rec)
                                                 /\ query.root \in {None, rec.parent = None}}
           upto == IF query.limit = None THEN None ELSE query.limit + query.offset
           s == InOrder(query, match)
<1>1. match \in SUBSET S
      BY DEF SegmentRows
<1>2. IsFiniteSet(match) /\ OneRowEach(match) /\ match \in SUBSET Records
      BY <1>1, FS_Subset DEF OneRowEach
<1>3. query.limit \in Number /\ query.offset \in Nat /\ upto \in Number
      BY DEF Query, Number
<1>4. ReadSegments(segs) = Range(Take(s, upto))
      BY DEF ReadSegments
<1>5. \A h \in q.rows : query.root = None /\ h.seg \in segs /\ FieldsMatch(query, RowOf(h))
                        => RowOf(h) \in match
      BY DEF SegmentRows
<1> HIDE DEF match, upto
<1>6. s \in Seq(match) /\ Range(s) = match
      BY <1>2, InOrderProperties
<1>7. Take(s, upto) \in Seq(match)
      BY <1>3, <1>6, TakeProperties
<1>8. ReadSegments(segs) \subseteq S
      BY <1>1, <1>4, <1>7, RangeOfSeq
<1>9. ASSUME NEW h \in q.rows, query.root = None, h.seg \in segs, FieldsMatch(query, RowOf(h)),
             query.limit = None \/ Rank(query, RowOf(h), S) < query.limit + query.offset
      PROVE  RowOf(h) \in ReadSegments(segs)
  <2>1. RowOf(h) \in match
        BY <1>5, <1>9
  <2>2. CASE query.limit = None
    <3>1. Take(s, upto) = s
          BY <2>2 DEF Take, upto
    <3> QED
          BY <1>4, <1>6, <2>1, <3>1
  <2>3. CASE query.limit # None
    <3>1. upto \in Nat /\ Rank(query, RowOf(h), S) < upto
          BY <1>3, <1>9, <2>3 DEF upto, Number
    <3> QED
          BY <1>1, <1>4, <2>1, <3>1, TopIsTaken
  <2> QED
        BY <2>2, <2>3
<1> QED
      BY <1>8, <1>9

LEMMA PageIsOrdered ==
  ASSUME NEW query \in Query, NEW S \in SUBSET Records, IsFiniteSet(S), OneRowEach(S)
  PROVE  /\ \A i, j \in 1..Len(PageDatafusionRuns(query, S)) :
              i < j => Before(query, PageDatafusionRuns(query, S)[i], PageDatafusionRuns(query, S)[j])
         /\ query.limit # None => Len(PageDatafusionRuns(query, S)) =< query.limit
         /\ query.limit = None /\ query.offset = 0 => PageDatafusionRuns(query, S) = InOrder(query, S)
<1> DEFINE p == PageDatafusionRuns(query, S)
           s == InOrder(query, S)
           n == Cardinality(S)
           o == query.offset
<1>1. /\ p \in Seq(S) /\ Len(p) = PageLength(query, n)
      /\ \A i \in 1..Len(p) : o + i \in 1..n /\ p[i] = s[o + i]
      BY PageProperties
<1>2. /\ s \in Seq(S) /\ n \in Nat /\ Len(s) = n
      /\ \A i, j \in 1..n : i < j => Before(query, s[i], s[j])
      BY InOrderProperties
<1>3. o \in Nat /\ query.limit \in Number
      BY DEF Query
<1> HIDE DEF p, s, n, o
<1>4. ASSUME NEW i \in 1..Len(p), NEW j \in 1..Len(p), i < j PROVE Before(query, p[i], p[j])
  <2>1. Len(p) \in Nat
        BY <1>1, LenProperties
  <2>2. o + i < o + j
        BY <1>3, <1>4, <2>1
  <2> QED
        BY <1>1, <1>2, <2>2
<1>5. query.limit # None => Len(p) =< query.limit
      BY <1>1, <1>2, <1>3 DEF PageLength, Number, o
<1>6. ASSUME query.limit = None, o = 0 PROVE p = s
  <2>1. Len(p) = n
        BY <1>1, <1>2, <1>6 DEF PageLength, o
  <2>2. \A i \in 1..Len(p) : p[i] = s[i]
        BY <1>1, <1>2, <1>6, <2>1
  <2> QED
        BY <1>1, <1>2, <2>1, <2>2, SeqEqual
<1> QED
      BY <1>4, <1>5, <1>6 DEF p, s, o

AnswerRows ==
  IF q.mode = "distributed" THEN PageDatafusionRuns(q.query, KeepListed(q.result))
  ELSE InOrder(q.query, KeepListed(Range(PageDatafusionRuns(q.query, q.result))))

\* An answer: rows of the plan in order, no more than the limit; without one, all
\* that were read and are not deleted; and the page, when the reads have it.
LEMMA AnswerResult ==
  ASSUME NEW S \in SUBSET Records, IsFiniteSet(S), OneRowEach(S), q.query \in Query,
         q.result \subseteq S
  PROVE  /\ AnswerRows \in Seq(S)
         /\ \A i, j \in 1..Len(AnswerRows) :
              i < j => Before(q.query, AnswerRows[i], AnswerRows[j])
         /\ q.query.limit # None => Len(AnswerRows) =< q.query.limit
         /\ q.query.limit = None /\ q.query.offset = 0 =>
              Range(AnswerRows) = KeepListed(q.result)
         /\ /\ q.deleted = {} /\ \A rec \in S : Retained(q.query, rec)
            /\ \A rec \in S : \/ q.query.limit = None
                              \/ Rank(q.query, rec, S) < q.query.limit + q.query.offset
                              => rec \in q.result
            => AnswerRows = PageDatafusionRuns(q.query, S)
<1> DEFINE query == q.query
           R == q.result
           a == AnswerRows
<1>1. IsFiniteSet(R) /\ OneRowEach(R) /\ R \in SUBSET Records
      BY FS_Subset DEF OneRowEach
<1>2. \A X : KeepListed(X) \in SUBSET X
      BY DEF KeepListed
<1>3. CASE q.mode = "distributed"
  <2> DEFINE K == KeepListed(R)
  <2>1. K \in SUBSET R
        BY <1>2
  <2>2. IsFiniteSet(K) /\ OneRowEach(K) /\ K \in SUBSET Records
        BY <1>1, <2>1, FS_Subset DEF OneRowEach
  <2>3. a = PageDatafusionRuns(query, K)
        BY <1>3 DEF AnswerRows
  <2> HIDE DEF K
  <2>4. a \in Seq(S)
    <3>1. a \in Seq(K)
          BY <2>2, <2>3, PageProperties
    <3> QED
          BY <2>1, <3>1, SeqMonotonic
  <2>5. /\ \A i, j \in 1..Len(a) : i < j => Before(query, a[i], a[j])
        /\ query.limit # None => Len(a) =< query.limit
        BY <2>2, <2>3, PageIsOrdered
  <2>6. ASSUME query.limit = None, query.offset = 0 PROVE Range(a) = K
    <3>1. a = InOrder(query, K)
          BY <2>2, <2>3, <2>6, PageIsOrdered
    <3> QED
          BY <2>2, <3>1, InOrderProperties
  <2>7. ASSUME q.deleted = {}, \A rec \in S : Retained(query, rec),
               \A rec \in S : query.limit = None \/ Rank(query, rec, S) < query.limit + query.offset
                              => rec \in R
        PROVE  a = PageDatafusionRuns(query, S)
    <3>1. K = R
          BY <2>7 DEF K, KeepListed
    <3> QED
          BY <2>3, <2>7, <3>1, PagesAgree
  <2> QED
        BY <2>4, <2>5, <2>6, <2>7 DEF K
<1>4. CASE q.mode # "distributed"
  <2> DEFINE p == PageDatafusionRuns(query, R)
             P == Range(p)
             K == KeepListed(P)
  <2>1. p \in Seq(R) /\ \A i, j \in 1..Len(p) : i < j => Before(query, p[i], p[j])
        BY <1>1, PageProperties, PageIsOrdered
  <2>2. IsFiniteSet(P) /\ Cardinality(P) =< Len(p) /\ InOrder(query, P) = p
        BY <1>1, <2>1, SortedAgain
  <2>3. P \in SUBSET R
        BY <2>1, RangeOfSeq
  <2>4. Len(p) \in Nat
        BY <2>1, LenProperties
  <2>5. K \in SUBSET P
        BY <1>2
  <2>6. a = InOrder(query, K)
        BY <1>4 DEF AnswerRows
  <2> HIDE DEF P, K
  <2>7. IsFiniteSet(K) /\ OneRowEach(K) /\ K \in SUBSET Records /\ K \in SUBSET S
        /\ Cardinality(K) =< Cardinality(P)
        BY <1>1, <2>2, <2>3, <2>5, FS_Subset DEF OneRowEach
  <2>8. /\ a \in Seq(K) /\ Len(a) = Cardinality(K) /\ Cardinality(K) \in Nat /\ Range(a) = K
        /\ \A i, j \in 1..Len(a) : i < j => Before(query, a[i], a[j])
        BY <2>6, <2>7, InOrderProperties
  <2>9. a \in Seq(S)
        BY <2>7, <2>8, SeqMonotonic
  <2>10. ASSUME query.limit # None PROVE Len(a) =< query.limit
    <3>1. Len(p) =< query.limit
          BY <1>1, <2>10, PageIsOrdered
    <3>2. query.limit \in Nat /\ Cardinality(P) \in Nat
          BY <2>2, <2>10, FS_CardinalityType DEF Query, Number
    <3> HIDE DEF p, a
    <3> QED
          BY <2>2, <2>4, <2>7, <2>8, <3>1, <3>2
  <2>11. ASSUME query.limit = None, query.offset = 0 PROVE Range(a) = KeepListed(R)
    <3>1. p = InOrder(query, R)
          BY <1>1, <2>11, PageIsOrdered
    <3>2. P = R
          BY <1>1, <3>1, InOrderProperties DEF P
    <3> QED
          BY <2>8, <3>2 DEF K
  <2>12. ASSUME q.deleted = {}, \A rec \in S : Retained(query, rec),
                \A rec \in S : query.limit = None \/ Rank(query, rec, S) < query.limit + query.offset
                               => rec \in R
         PROVE  a = PageDatafusionRuns(query, S)
    <3>1. K = P
          BY <2>3, <2>12 DEF K, KeepListed
    <3>2. p = PageDatafusionRuns(query, S)
          BY <2>12, PagesAgree
    <3> QED
          BY <2>2, <2>6, <3>1, <3>2
  <2> QED
        BY <2>8, <2>9, <2>10, <2>11, <2>12
<1> QED
      BY <1>3, <1>4

(* Type correctness, with what a query has planned. *)

LEMMA IdleType == Idle \in QueryState /\ Idle.pc = "idle" /\ Idle.rows = {}
<1>1. <<>> \in Seq(SUBSET Nat) /\ <<>> \in Seq(Records)
      BY EmptySeq
<1> QED
      BY <1>1 DEF Idle, QueryState, Pcs

LEMMA PageQueryType ==
  ASSUME NEW query \in Query, NEW offset \in Nat
  PROVE  /\ PageQuery(query, offset) \in Query
         /\ PageQuery(query, offset).offset = offset
         /\ PageQuery(query, offset).newest_first = TRUE
         /\ PageQuery(query, offset).limit = (IF query.limit = None THEN None ELSE query.limit + 1)
         /\ PageQuery(query, offset).root = query.root /\ PageQuery(query, offset).word = query.word
         /\ PageQuery(query, offset).kind = query.kind /\ PageQuery(query, offset).since = query.since
         /\ PageQuery(query, offset).cutoff = query.cutoff
         /\ PageQuery(query, offset).include_deleted = query.include_deleted
<1> DEFINE l == IF query.limit = None THEN None ELSE query.limit + 1
           m == (IF query.limit = None THEN DefaultLimit ELSE query.limit) + offset + 1
<1>1. l \in Number /\ m \in Number
      BY RunQueriesAssumption DEF Query, Number
<1>2. PageQuery(query, offset) =
        [query EXCEPT !.offset = offset, !.newest_first = TRUE, !.limit = l, !.max_runs = m]
      BY DEF PageQuery
<1> HIDE DEF l, m
<1>3. [query EXCEPT !.offset = offset, !.newest_first = TRUE, !.limit = l, !.max_runs = m] \in Query
      BY <1>1 DEF Query
<1>4. PageQuery(query, offset).limit = l
      BY <1>2 DEF Query
<1> QED
      BY <1>2, <1>3, <1>4 DEF Query, l

\* A step of the query's control leaves the rest of it.
LEMMA PcSet ==
  ASSUME q \in QueryState, NEW v \in Pcs
  PROVE  /\ [q EXCEPT !.pc = v] \in QueryState
         /\ [q EXCEPT !.pc = v].pc = v
         /\ [q EXCEPT !.pc = v].mode = q.mode /\ [q EXCEPT !.pc = v].query = q.query
         /\ [q EXCEPT !.pc = v].config = q.config
         /\ [q EXCEPT !.pc = v].registered = q.registered
         /\ [q EXCEPT !.pc = v].woken = q.woken /\ [q EXCEPT !.pc = v].polling = q.polling
         /\ [q EXCEPT !.pc = v].notified = q.notified
         /\ [q EXCEPT !.pc = v].rows = q.rows /\ [q EXCEPT !.pc = v].deleted = q.deleted
         /\ [q EXCEPT !.pc = v].todo = q.todo /\ [q EXCEPT !.pc = v].running = q.running
         /\ [q EXCEPT !.pc = v].result = q.result /\ [q EXCEPT !.pc = v].failed = q.failed
         /\ [q EXCEPT !.pc = v].answer = q.answer
<1>1. [q EXCEPT !.pc = v] \in QueryState
      BY DEF QueryState
<1> QED
      BY <1>1 DEF QueryState

\* A poll finds the task woken.
WakesUp == Poll /\ q.woken

\* When the task is polled, and whether it was woken, change.
Schedules == Notify \/ Suspend \/ (Poll /\ ~q.woken)

\* Steps of the query alone.
QueryMoves ==
  Ask \/ TestFlag \/ Register \/ RejectIfCancelled \/ LoadDeleted \/ ApplySearchIndexes \/ Split
  \/ ReadBatch \/ StartPartition \/ FinishPartition \/ Answer \/ Fail \/ WakesUp

LEMMA ReadIsPlanned ==
  ASSUME TypeOK, PlanInv, q.pc = "read", NEW segs
  PROVE  ReadSegments(segs) \subseteq planned /\ ReadSegments(segs) \subseteq Records
<1>1. \A h \in q.rows : RowOf(h) \in planned
      BY DEF PlanInv, HasPlan, Searched
<1>2. planned \in SUBSET Records /\ IsFiniteSet(planned) /\ OneRowEach(planned) /\ q.query \in Query
      BY DEF TypeOK, QueryTypeOK, PlanInv
<1> QED
      BY <1>1, <1>2, ReadResult

LEMMA AnswerType ==
  ASSUME TypeOK, PlanInv, q.pc = "read"
  PROVE  AnswerRows \in Seq(planned) /\ AnswerRows \in Seq(Records)
<1>1. q.result \subseteq planned
      BY DEF PlanInv, HasPlan
<1>2. planned \in SUBSET Records /\ IsFiniteSet(planned) /\ OneRowEach(planned) /\ q.query \in Query
      BY DEF TypeOK, QueryTypeOK, PlanInv
<1>3. AnswerRows \in Seq(planned)
      BY <1>1, <1>2, AnswerResult
<1> QED
      BY <1>2, <1>3, SeqMonotonic

LEMMA SplitType ==
  ASSUME TypeOK, NEW size \in Nat \ {0}
  PROVE  /\ Chunks({h.seg : h \in q.rows}, size) \in Seq(SUBSET Nat)
         /\ \A h \in q.rows : \E i \in DOMAIN Chunks({g.seg : g \in q.rows}, size) :
              h.seg \in Chunks({g.seg : g \in q.rows}, size)[i]
<1> DEFINE segs == {h.seg : h \in q.rows}
<1>1. \A h \in q.rows : h.seg \in 1..Len(segments)
      BY PlacesInDef DEF TypeOK, QueryTypeOK
<1>2. Len(segments) \in Nat
      BY LenProperties DEF TypeOK
<1>3. segs \in SUBSET (1..Len(segments)) /\ segs \in SUBSET Nat
      BY <1>1, <1>2
<1>4. IsFiniteSet(segs)
  <2>1. IsFiniteSet(1..Len(segments))
        BY <1>2, FS_Interval
  <2> QED
        BY <1>3, <2>1, FS_Subset
<1>5. \A h \in q.rows : h.seg \in segs
      OBVIOUS
<1> HIDE DEF segs
<1>6. /\ Chunks(segs, size) \in Seq(SUBSET segs)
      /\ \A s \in segs : \E i \in DOMAIN Chunks(segs, size) : s \in Chunks(segs, size)[i]
      BY <1>3, <1>4, ChunksCover
<1>7. SUBSET segs \subseteq SUBSET Nat
      BY <1>3
<1>8. Chunks(segs, size) \in Seq(SUBSET Nat)
      BY <1>6, <1>7, SeqMonotonic
<1> QED
      BY <1>5, <1>6, <1>8 DEF segs

LEMMA QueryMovesType ==
  ASSUME TypeOK, WalkInv, PlanInv, QueryMoves
  PROVE  q' \in QueryState /\ (q'.pc # "idle" => q'.query \in Query
                                 /\ (q'.mode = "distributed" => q'.config \in Config))
         /\ q'.rows \subseteq PlacesIn(segments)
<1>1. /\ q \in QueryState /\ q.rows \subseteq PlacesIn(segments)
      /\ q.pc # "idle" => q.query \in Query /\ (q.mode = "distributed" => q.config \in Config)
      BY DEF TypeOK, QueryTypeOK
<1>2. CASE Ask
  <2>1. walk.query \in Query /\ walk.offset \in Nat
        BY <1>2, RunQueriesAssumption DEF Ask, TypeOK
  <2>2. PageQuery(walk.query, walk.offset) \in Query
        BY <2>1, PageQueryType
  <2>3. CASE q' = [Idle EXCEPT !.pc = "plan", !.query = PageQuery(walk.query, walk.offset)]
        BY <2>2, <2>3, IdleType DEF Idle, QueryState, Pcs
  <2>4. CASE q' = [Idle EXCEPT !.pc = "plan", !.mode = "list", !.query = walk.query]
        BY <2>1, <2>4, IdleType DEF Idle, QueryState, Pcs
  <2>5. CASE \E c \in Configs : q' = [Idle EXCEPT !.pc = "check", !.mode = "distributed",
                                                  !.query = walk.query, !.config = c]
    <3>1. PICK c \in Configs : q' = [Idle EXCEPT !.pc = "check", !.mode = "distributed",
                                                 !.query = walk.query, !.config = c]
          BY <2>5
    <3>2. c \in Config
          BY RunQueriesAssumption
    <3> QED
          BY <2>1, <3>1, <3>2, IdleType DEF Idle, QueryState, Pcs
  <2> QED
        BY <1>2, <2>3, <2>4, <2>5 DEF Ask
<1>3. CASE TestFlag \/ Register \/ RejectIfCancelled \/ Fail \/ WakesUp
  <2>1. q.pc # "idle"
        BY <1>3 DEF TestFlag, Register, RejectIfCancelled, Fail, WakesUp, Poll, At, Running
  <2>2. \/ \E v \in {"error", "register", "plan"} : q' = [q EXCEPT !.pc = v]
        \/ q' = [q EXCEPT !.pc = "reject", !.registered = TRUE]
        BY <1>3 DEF TestFlag, Register, RejectIfCancelled, Fail, WakesUp, Poll
  <2>3. CASE \E v \in {"error", "register", "plan"} : q' = [q EXCEPT !.pc = v]
    <3>1. PICK v \in {"error", "register", "plan"} : q' = [q EXCEPT !.pc = v]
          BY <2>3
    <3> QED
          BY <1>1, <2>1, <3>1, PcSet DEF Pcs
  <2>4. CASE q' = [q EXCEPT !.pc = "reject", !.registered = TRUE]
        BY <1>1, <2>1, <2>4 DEF QueryState, Pcs
  <2> QED
        BY <2>2, <2>3, <2>4
<1>4. CASE LoadDeleted
  <2>1. deletions \subseteq Runs
        BY DEF TypeOK
  <2>2. q.pc # "idle"
        BY <1>4 DEF LoadDeleted, At
  <2>3. \/ q' = [q EXCEPT !.pc = "error"]
        \/ \E v \in {"split", "search"}, d \in SUBSET Runs : q' = [q EXCEPT !.deleted = d, !.pc = v]
    <3> DEFINE d == IF q.query.include_deleted THEN {} ELSE deletions
               v == IF q.mode = "list" THEN "split" ELSE "search"
    <3>1. q' = [q EXCEPT !.pc = "error"] \/ q' = [q EXCEPT !.deleted = d, !.pc = v]
          BY <1>4 DEF LoadDeleted
    <3>2. d \in SUBSET Runs /\ v \in {"split", "search"}
          BY <2>1
    <3> HIDE DEF d, v
    <3> QED
          BY <3>1, <3>2
  <2>4. CASE q' = [q EXCEPT !.pc = "error"]
        BY <1>1, <2>2, <2>4, PcSet DEF Pcs
  <2>5. CASE \E v \in {"split", "search"}, d \in SUBSET Runs : q' = [q EXCEPT !.deleted = d, !.pc = v]
    <3>1. PICK v \in {"split", "search"}, d \in SUBSET Runs : q' = [q EXCEPT !.deleted = d, !.pc = v]
          BY <2>5
    <3>2. v \in Pcs
          BY DEF Pcs
    <3> QED
          BY <1>1, <2>2, <3>1, <3>2 DEF QueryState
  <2> QED
        BY <2>3, <2>4, <2>5
<1>5. CASE ApplySearchIndexes
  <2> DEFINE hits == {h \in q.rows : HasWord(q.query, RowOf(h))}
             v == IF q.mode = "list" THEN "deleted" ELSE "split"
  <2>1. q.pc # "idle"
        BY <1>5 DEF ApplySearchIndexes, At
  <2>2. \/ q' = [q EXCEPT !.pc = "error"] \/ q' = [q EXCEPT !.pc = v]
        \/ q' = [[q EXCEPT !.pc = v] EXCEPT !.rows = hits]
        BY <1>5 DEF ApplySearchIndexes
  <2>3. v \in Pcs /\ "error" \in Pcs /\ hits \subseteq q.rows
        BY DEF Pcs
  <2> HIDE DEF hits, v
  <2>4. CASE q' = [q EXCEPT !.pc = "error"]
        BY <1>1, <2>1, <2>3, <2>4, PcSet
  <2>5. CASE q' = [q EXCEPT !.pc = v]
        BY <1>1, <2>1, <2>3, <2>5, PcSet
  <2>6. CASE q' = [[q EXCEPT !.pc = v] EXCEPT !.rows = hits]
        BY <1>1, <2>1, <2>3, <2>6 DEF QueryState
  <2> QED
        BY <2>2, <2>4, <2>6, <2>5
<1>6. CASE Split
  <2>1. q.pc = "split" /\ q.query \in Query
        BY <1>1, <1>6 DEF Split, At
  <2>2. Chunks({h.seg : h \in q.rows}, BatchSize) \in Seq(SUBSET Nat)
        BY SplitType, RunQueriesAssumption
  <2>3. q.mode = "distributed" =>
          Chunks({h.seg : h \in q.rows}, q.config.per_partition) \in Seq(SUBSET Nat)
        BY <1>1, <2>1, SplitType DEF Config
  <2>4. \/ q' = [q EXCEPT !.pc = "error"]
        \/ \E todo \in Seq(SUBSET Nat) : q' = [q EXCEPT !.pc = "read", !.todo = todo]
        BY <1>6, <2>2, <2>3 DEF Split
  <2>5. CASE q' = [q EXCEPT !.pc = "error"]
        BY <1>1, <2>1, <2>5, PcSet DEF Pcs
  <2>6. CASE \E todo \in Seq(SUBSET Nat) : q' = [q EXCEPT !.pc = "read", !.todo = todo]
    <3>1. PICK todo \in Seq(SUBSET Nat) : q' = [q EXCEPT !.pc = "read", !.todo = todo]
          BY <2>6
    <3> QED
          BY <1>1, <2>1, <3>1 DEF QueryState, Pcs
  <2> QED
        BY <2>4, <2>5, <2>6
<1>7. CASE ReadBatch
  <2>1. q.pc = "read" /\ q.todo # <<>> /\ q.query \in Query
        BY <1>1, <1>7 DEF ReadBatch, At
  <2>2. Tail(q.todo) \in Seq(SUBSET Nat)
        BY <1>1, <2>1, HeadTailProperties DEF QueryState
  <2>3. ReadSegments(Head(q.todo)) \subseteq Records
        BY <2>1, ReadIsPlanned
  <2>4. \/ q' = [q EXCEPT !.pc = "error"]
        \/ q' = [q EXCEPT !.todo = Tail(@), !.result = @ \cup ReadSegments(Head(q.todo))]
        BY <1>7 DEF ReadBatch
  <2>5. CASE q' = [q EXCEPT !.pc = "error"]
        BY <1>1, <2>1, <2>5, PcSet DEF Pcs
  <2>6. CASE q' = [q EXCEPT !.todo = Tail(@), !.result = @ \cup ReadSegments(Head(q.todo))]
        BY <1>1, <2>1, <2>2, <2>3, <2>6 DEF QueryState
  <2> QED
        BY <2>4, <2>5, <2>6
<1>8. CASE StartPartition
  <2>1. q.pc = "read" /\ q.todo # <<>> /\ q.query \in Query
        BY <1>1, <1>8 DEF StartPartition, At
  <2>2. Tail(q.todo) \in Seq(SUBSET Nat) /\ Head(q.todo) \in SUBSET Nat
        BY <1>1, <2>1, HeadTailProperties DEF QueryState
  <2>3. q' = [q EXCEPT !.todo = Tail(@),
                       !.running = IF cancelled THEN @ ELSE @ \cup {Head(q.todo)},
                       !.failed = @ \/ cancelled]
        BY <1>8 DEF StartPartition
  <2>4. cancelled \in BOOLEAN
        BY DEF TypeOK
  <2> QED
        BY <1>1, <2>1, <2>2, <2>3, <2>4 DEF QueryState
<1>9. CASE FinishPartition
  <2>1. q.pc = "read" /\ q.query \in Query
        BY <1>1, <1>9 DEF FinishPartition, At
  <2>2. PICK p \in q.running :
          q' = [q EXCEPT !.running = @ \ {p},
                         !.result = IF Readable(p) THEN @ \cup ReadSegments(p) ELSE @,
                         !.failed = @ \/ ~Readable(p)]
        BY <1>9 DEF FinishPartition
  <2>3. ReadSegments(p) \subseteq Records
        BY <2>1, ReadIsPlanned
  <2> QED
        BY <1>1, <2>1, <2>2, <2>3 DEF QueryState
<1>10. CASE Answer
  <2>1. q.pc = "read" /\ q.query \in Query
        BY <1>1, <1>10 DEF Answer, At
  <2>2. AnswerRows \in Seq(Records)
        BY <2>1, AnswerType
  <2>3. q' = [q EXCEPT !.pc = "error"] \/ q' = [q EXCEPT !.pc = "answered", !.answer = AnswerRows]
        BY <1>10 DEF Answer, AnswerRows
  <2>4. CASE q' = [q EXCEPT !.pc = "error"]
        BY <1>1, <2>1, <2>4, PcSet DEF Pcs
  <2>5. CASE q' = [q EXCEPT !.pc = "answered", !.answer = AnswerRows]
        BY <1>1, <2>1, <2>2, <2>5 DEF QueryState, Pcs
  <2> QED
        BY <2>3, <2>4, <2>5
<1> QED
      BY <1>2, <1>3, <1>4, <1>5, <1>6, <1>7, <1>8, <1>9, <1>10 DEF QueryMoves

(* What the steps of a query change. *)

Sets(pc, registered, deleted, rows, todo, running, result, failed, answer) ==
  /\ q'.pc = pc /\ q'.registered = registered /\ q'.deleted = deleted /\ q'.rows = rows
  /\ q'.todo = todo /\ q'.running = running /\ q'.result = result /\ q'.failed = failed
  /\ q'.answer = answer
  /\ q'.mode = q.mode /\ q'.query = q.query /\ q'.woken = q.woken /\ q'.polling = q.polling
  /\ q'.notified = q.notified

Moves(pc) == Sets(pc, q.registered, q.deleted, q.rows, q.todo, q.running, q.result, q.failed, q.answer)

Errs == Running /\ Moves("error")
Checks == q.pc = "check" /\ ~cancelled /\ Moves("register")
Registers ==
  /\ q.pc = "register"
  /\ Sets("reject", TRUE, q.deleted, q.rows, q.todo, q.running, q.result, q.failed, q.answer)
Goes == q.pc = "reject" /\ ~cancelled /\ Moves("plan")
Loads ==
  /\ q.pc = "deleted" /\ ~(q.mode = "distributed" /\ cancelled)
  /\ Sets(IF q.mode = "list" THEN "split" ELSE "search", q.registered,
          IF q.query.include_deleted THEN {} ELSE deletions,
          q.rows, q.todo, q.running, q.result, q.failed, q.answer)
Searches ==
  /\ q.pc = "search"
  /\ Sets(IF q.mode = "list" THEN "deleted" ELSE "split", q.registered, q.deleted,
          {h \in q.rows : HasWord(q.query, RowOf(h))},
          q.todo, q.running, q.result, q.failed, q.answer)
Splits ==
  /\ q.pc = "split" /\ ~(q.mode = "distributed" /\ cancelled)
  /\ \E size \in Nat \ {0} :
       Sets("read", q.registered, q.deleted, q.rows, Chunks({h.seg : h \in q.rows}, size),
            q.running, q.result, q.failed, q.answer)
Reads ==
  /\ q.pc = "read" /\ q.mode # "distributed" /\ q.todo # <<>>
  /\ Sets("read", q.registered, q.deleted, q.rows, Tail(q.todo), q.running,
          q.result \cup ReadSegments(Head(q.todo)), q.failed, q.answer)
Starts ==
  /\ q.pc = "read" /\ q.mode = "distributed" /\ q.todo # <<>>
  /\ Sets("read", q.registered, q.deleted, q.rows, Tail(q.todo),
          IF cancelled THEN q.running ELSE q.running \cup {Head(q.todo)},
          q.result, q.failed \/ cancelled, q.answer)
Ends ==
  /\ q.pc = "read" /\ q.mode = "distributed"
  /\ \E p \in q.running :
       Sets("read", q.registered, q.deleted, q.rows, q.todo, q.running \ {p},
            IF Readable(p) THEN q.result \cup ReadSegments(p) ELSE q.result,
            q.failed \/ ~Readable(p), q.answer)
Answers ==
  /\ q.pc = "read" /\ (q.mode = "distributed" => q.polling) /\ Finished /\ ~q.failed
  /\ Sets("answered", q.registered, q.deleted, q.rows, q.todo, q.running, q.result, q.failed,
          AnswerRows)

LEMMA PcMoves ==
  ASSUME TypeOK, NEW v \in Pcs, q' = [q EXCEPT !.pc = v]
  PROVE  Moves(v)
<1>1. q \in QueryState
      BY DEF TypeOK, QueryTypeOK
<1> QED
      BY <1>1, PcSet DEF Moves, Sets

LEMMA QueryEffects ==
  ASSUME TypeOK, QueryMoves, ~Ask
  PROVE  Errs \/ Checks \/ Registers \/ Goes \/ Loads \/ Searches \/ Splits \/ Reads \/ Starts
         \/ Ends \/ Answers
<1>1. q \in QueryState /\ (q.pc # "idle" => q.query \in Query)
      /\ (q.pc # "idle" /\ q.mode = "distributed" => q.config \in Config)
      BY DEF TypeOK, QueryTypeOK
<1>2. ASSUME Running, q' = [q EXCEPT !.pc = "error"] PROVE Errs
      BY <1>2, PcMoves DEF Errs, Pcs
<1>3. CASE TestFlag
  <2>1. q.pc = "check" /\ q' = [q EXCEPT !.pc = IF cancelled THEN "error" ELSE "register"]
        BY <1>3 DEF TestFlag, At
  <2>2. CASE cancelled
        BY <1>2, <2>1, <2>2 DEF Running
  <2>3. CASE ~cancelled
        BY <2>1, <2>3, PcMoves DEF Checks, Pcs
  <2> QED
        BY <2>2, <2>3
<1>4. CASE Register
  <2>1. q.pc = "register" /\ q' = [q EXCEPT !.pc = "reject", !.registered = TRUE]
        BY <1>4 DEF Register, At
  <2>2. Registers
        BY <1>1, <2>1 DEF Registers, Sets, QueryState
  <2> QED
        BY <2>2
<1>5. CASE RejectIfCancelled
  <2>1. q.pc = "reject" /\ q' = [q EXCEPT !.pc = IF cancelled THEN "error" ELSE "plan"]
        BY <1>5 DEF RejectIfCancelled, At
  <2>2. CASE cancelled
        BY <1>2, <2>1, <2>2 DEF Running
  <2>3. CASE ~cancelled
        BY <2>1, <2>3, PcMoves DEF Goes, Pcs
  <2> QED
        BY <2>2, <2>3
<1>6. CASE Fail \/ WakesUp
      BY <1>2, <1>6 DEF Fail, WakesUp, Poll
<1>7. CASE LoadDeleted
  <2> DEFINE d == IF q.query.include_deleted THEN {} ELSE deletions
             v == IF q.mode = "list" THEN "split" ELSE "search"
  <2>1. q.pc = "deleted"
        BY <1>7 DEF LoadDeleted, At
  <2>2. CASE q.mode = "distributed" /\ cancelled
    <3>1. q' = [q EXCEPT !.pc = "error"]
          BY <1>7, <2>2 DEF LoadDeleted
    <3> QED
          BY <1>2, <2>1, <3>1 DEF Running
  <2>3. CASE ~(q.mode = "distributed" /\ cancelled)
    <3>1. q' = [q EXCEPT !.deleted = d, !.pc = v]
          BY <1>7, <2>3 DEF LoadDeleted
    <3> HIDE DEF d, v
    <3>2. Sets(v, q.registered, d, q.rows, q.todo, q.running, q.result, q.failed, q.answer)
          BY <1>1, <3>1 DEF Sets, QueryState
    <3> QED
          BY <2>1, <2>3, <3>2 DEF Loads, d, v
  <2> QED
        BY <2>2, <2>3
<1>8. CASE ApplySearchIndexes
  <2> DEFINE hits == {h \in q.rows : HasWord(q.query, RowOf(h))}
             v == IF q.mode = "list" THEN "deleted" ELSE "split"
  <2>1. q.pc = "search"
        BY <1>8 DEF ApplySearchIndexes, At
  <2>2. \/ q' = [q EXCEPT !.pc = "error"]
        \/ q.query.word = None /\ q' = [q EXCEPT !.pc = v]
        \/ q' = [[q EXCEPT !.pc = v] EXCEPT !.rows = hits]
        BY <1>8 DEF ApplySearchIndexes
  <2>3. v \in Pcs /\ (q.query.word = None => hits = q.rows)
        BY DEF Pcs, HasWord
  <2> HIDE DEF hits, v
  <2>4. CASE q' = [q EXCEPT !.pc = "error"]
        BY <1>2, <2>1, <2>4 DEF Running
  <2>5. CASE q.query.word = None /\ q' = [q EXCEPT !.pc = v]
    <3>1. Sets(v, q.registered, q.deleted, hits, q.todo, q.running, q.result, q.failed, q.answer)
          BY <2>3, <2>5, PcMoves DEF Moves
    <3> QED
          BY <2>1, <3>1 DEF Searches, hits, v
  <2>6. CASE q' = [[q EXCEPT !.pc = v] EXCEPT !.rows = hits]
    <3>1. Sets(v, q.registered, q.deleted, hits, q.todo, q.running, q.result, q.failed, q.answer)
          BY <1>1, <2>6 DEF Sets, QueryState
    <3> QED
          BY <2>1, <3>1 DEF Searches, hits, v
  <2> QED
        BY <2>2, <2>4, <2>5, <2>6
<1>9. CASE Split
  <2> DEFINE segs == {h.seg : h \in q.rows}
  <2>1. q.pc = "split"
        BY <1>9 DEF Split, At
  <2>2. \/ q' = [q EXCEPT !.pc = "error"]
        \/ /\ q.mode # "distributed"
           /\ q' = [q EXCEPT !.pc = "read", !.todo = Chunks(segs, BatchSize)]
        \/ /\ q.mode = "distributed" /\ ~cancelled
           /\ q' = [q EXCEPT !.pc = "read", !.todo = Chunks(segs, q.config.per_partition)]
        BY <1>9 DEF Split
  <2>3. BatchSize \in Nat \ {0} /\ (q.mode = "distributed" => q.config.per_partition \in Nat \ {0})
        BY <1>1, <2>1, RunQueriesAssumption DEF Config
  <2>4. CASE q' = [q EXCEPT !.pc = "error"]
        BY <1>2, <2>1, <2>4 DEF Running
  <2>5. ASSUME NEW size \in Nat \ {0}, ~(q.mode = "distributed" /\ cancelled),
               q' = [q EXCEPT !.pc = "read", !.todo = Chunks(segs, size)]
        PROVE  Splits
    <3> DEFINE todo == Chunks(segs, size)
    <3>1. q' = [q EXCEPT !.pc = "read", !.todo = todo]
          BY <2>5
    <3> HIDE DEF todo
    <3>2. Sets("read", q.registered, q.deleted, q.rows, todo, q.running, q.result, q.failed, q.answer)
          BY <1>1, <3>1 DEF Sets, QueryState
    <3> QED
          BY <2>1, <2>5, <3>2 DEF Splits, todo
  <2> QED
        BY <2>2, <2>3, <2>4, <2>5
<1>10. CASE ReadBatch
  <2>1. q.pc = "read" /\ q.mode # "distributed" /\ q.todo # <<>>
        BY <1>10 DEF ReadBatch, At
  <2> DEFINE new == q.result \cup ReadSegments(Head(q.todo))
  <2>2. \/ q' = [q EXCEPT !.pc = "error"]
        \/ q' = [q EXCEPT !.todo = Tail(q.todo), !.result = new]
        BY <1>1, <1>10 DEF ReadBatch, QueryState
  <2> HIDE DEF new
  <2>3. CASE q' = [q EXCEPT !.pc = "error"]
        BY <1>2, <2>1, <2>3 DEF Running
  <2>4. CASE q' = [q EXCEPT !.todo = Tail(q.todo), !.result = new]
    <3>1. Sets("read", q.registered, q.deleted, q.rows, Tail(q.todo), q.running, new, q.failed, q.answer)
          BY <1>1, <2>1, <2>4 DEF Sets, QueryState
    <3> QED
          BY <2>1, <3>1 DEF Reads, new
  <2> QED
        BY <2>2, <2>3, <2>4
<1>11. CASE StartPartition
  <2>1. q.pc = "read" /\ q.mode = "distributed" /\ q.todo # <<>>
        BY <1>11 DEF StartPartition, At
  <2> DEFINE running == IF cancelled THEN q.running ELSE q.running \cup {Head(q.todo)}
             failed == q.failed \/ cancelled
  <2>2. q' = [q EXCEPT !.todo = Tail(q.todo), !.running = running, !.failed = failed]
        BY <1>1, <1>11 DEF StartPartition, QueryState
  <2> HIDE DEF running, failed
  <2>3. Sets("read", q.registered, q.deleted, q.rows, Tail(q.todo), running, q.result, failed, q.answer)
        BY <1>1, <2>1, <2>2 DEF Sets, QueryState
  <2> QED
        BY <2>1, <2>3 DEF Starts, running, failed
<1>12. CASE FinishPartition
  <2>1. q.pc = "read" /\ q.mode = "distributed"
        BY <1>12 DEF FinishPartition, At
  <2>2. PICK p \in q.running :
          q' = [q EXCEPT !.running = @ \ {p},
                         !.result = IF Readable(p) THEN @ \cup ReadSegments(p) ELSE @,
                         !.failed = @ \/ ~Readable(p)]
        BY <1>12 DEF FinishPartition
  <2> DEFINE running == q.running \ {p}
             result == IF Readable(p) THEN q.result \cup ReadSegments(p) ELSE q.result
             failed == q.failed \/ ~Readable(p)
  <2>3. q' = [q EXCEPT !.running = running, !.result = result, !.failed = failed]
        BY <1>1, <2>2 DEF QueryState
  <2> HIDE DEF running, result, failed
  <2>4. Sets("read", q.registered, q.deleted, q.rows, q.todo, running, result, failed, q.answer)
        BY <1>1, <2>1, <2>3 DEF Sets, QueryState
  <2> QED
        BY <2>1, <2>4 DEF Ends, running, result, failed
<1>13. CASE Answer
  <2>1. q.pc = "read" /\ (q.mode = "distributed" => q.polling) /\ Finished
        BY <1>13 DEF Answer, At
  <2>2. CASE q.failed
    <3>1. q' = [q EXCEPT !.pc = "error"]
          BY <1>13, <2>2 DEF Answer
    <3> QED
          BY <1>2, <2>1, <3>1 DEF Running
  <2>3. CASE ~q.failed
    <3>1. q' = [q EXCEPT !.pc = "answered", !.answer = AnswerRows]
          BY <1>13, <2>3 DEF Answer, AnswerRows
    <3>2. Sets("answered", q.registered, q.deleted, q.rows, q.todo, q.running, q.result, q.failed,
               AnswerRows)
          BY <1>1, <3>1 DEF Sets, QueryState
    <3> QED
          BY <2>1, <2>3, <3>2 DEF Answers
  <2> QED
        BY <2>2, <2>3
<1> QED
      BY <1>3, <1>4, <1>5, <1>6, <1>7, <1>8, <1>9, <1>10, <1>11, <1>12, <1>13 DEF QueryMoves

LEMMA NextCases ==
  ASSUME [Next]_vars
  PROVE  \/ QueryMoves \/ BeginWalk \/ Plan \/ TakePage \/ TakeAnswer \/ TakeError
         \/ (WriteRun \/ DeleteRun \/ Compact \/ CleanUp) \/ Cancel \/ Schedules \/ UNCHANGED vars
  BY DEF Next, QueryStep, StoreStep, Rest, QueryMoves, Schedules, WakesUp

LEMMA QueryMovesOnly ==
  ASSUME QueryMoves
  PROVE  /\ segments' = segments /\ heads' = heads /\ deletions' = deletions /\ changes' = changes
         /\ walk' = walk /\ cancelled' = cancelled /\ steady' = steady /\ planned' = planned
         /\ early' = early
  BY DEF QueryMoves, Ask, TestFlag, Register, RejectIfCancelled, LoadDeleted, ApplySearchIndexes,
         Split, ReadBatch, StartPartition, FinishPartition, Answer, Fail, WakesUp, Poll, store, history

LEMMA ChangesOnly ==
  ASSUME WriteRun \/ DeleteRun \/ Compact \/ CleanUp
  PROVE  /\ q' = q /\ walk' = walk /\ cancelled' = cancelled /\ planned' = planned /\ early' = early
         /\ changes < MaxChanges /\ changes' = changes + 1 /\ walk.state = "walking"
         /\ steady' = steady \cap WantedBy(walk.query)'
  BY DEF WriteRun, DeleteRun, Compact, CleanUp, Changed

LEMMA TypeStep ==
  ASSUME TypeOK, WalkInv, PlanInv, [Next]_vars
  PROVE  TypeOK'
<1> DEFINE Walk == [state : {"new", "walking", "done", "answered", "failed"},
                    query : Queries \cup {None}, offset : Nat, seen : Seq(Records)]
<1>1. /\ StoreTyped /\ changes \in 0..MaxChanges /\ QueryTypeOK
      /\ walk \in Walk /\ (walk.state # "new" => walk.query \in Queries)
      /\ cancelled \in BOOLEAN /\ early \in BOOLEAN /\ steady \subseteq Runs /\ planned \subseteq Records
      BY DEF TypeOK, StoreTyped
<1>2. ASSUME StoreTyped', changes' \in 0..MaxChanges, QueryTypeOK', walk' \in Walk,
             walk'.state # "new" => walk'.query \in Queries,
             cancelled' \in BOOLEAN, early' \in BOOLEAN, steady' \subseteq Runs, planned' \subseteq Records
      PROVE  TypeOK'
      BY <1>2 DEF TypeOK, StoreTyped
<1>3. ASSUME UNCHANGED store PROVE StoreTyped' /\ changes' \in 0..MaxChanges
      BY <1>1, <1>3 DEF StoreTyped, store, RowOf
<1>4. ASSUME segments' = segments, q' \in QueryState, q'.rows \subseteq PlacesIn(segments),
             q'.pc # "idle" => q'.query \in Query /\ (q'.mode = "distributed" => q'.config \in Config)
      PROVE  QueryTypeOK'
      BY <1>4 DEF QueryTypeOK
<1>5. q' = Idle /\ segments' = segments => QueryTypeOK'
      BY IdleType DEF QueryTypeOK
<1>6. q' = q /\ segments' = segments => QueryTypeOK'
      BY <1>1 DEF QueryTypeOK
<1> HIDE DEF Walk
<1>7. CASE QueryMoves
  <2>1. UNCHANGED <<store, walk, cancelled, history>>
        BY <1>7, QueryMovesOnly DEF store, history
  <2>2. QueryTypeOK'
        BY <1>4, <1>7, <2>1, QueryMovesType DEF store
  <2> QED
        BY <1>1, <1>2, <1>3, <2>1, <2>2 DEF history
<1>8. CASE BeginWalk
  <2>1. PICK query \in Queries :
          walk' = [walk EXCEPT !.state = "walking", !.query = query, !.offset = query.offset]
        BY <1>8 DEF BeginWalk
  <2>2. UNCHANGED <<store, q, cancelled, planned, early>> /\ steady' \subseteq Runs
        BY <1>8 DEF BeginWalk, WantedBy
  <2>3. query.offset \in Nat
        BY RunQueriesAssumption DEF Query
  <2>4. walk' \in Walk /\ walk'.query = query
        BY <1>1, <2>1, <2>3 DEF Walk
  <2> QED
        BY <1>1, <1>2, <1>3, <1>6, <2>2, <2>4 DEF store
<1>9. CASE Plan
  <2>1. UNCHANGED <<store, walk, cancelled, steady, early>> /\ planned' = Current(q.query)
        BY <1>9 DEF Plan, Current
  <2>2. q.pc = "plan" /\ q.query \in Query /\ q \in QueryState
        BY <1>1, <1>9 DEF Plan, At, QueryTypeOK
  <2>3. planned' \subseteq Records
        BY <2>1, HeadRows
  <2> DEFINE rows == Candidates(q.query)
             v == IF q.mode = "list" THEN "search" ELSE "deleted"
  <2>4. rows \subseteq PlacesIn(segments)
        BY <2>2, PlanResult
  <2>5. rows \in SUBSET [seg : Nat, row : Nat]
        BY <1>1, <2>4, PlacesInDef DEF StoreTyped
  <2>6. q' = [q EXCEPT !.pc = "error"] \/ q' = [q EXCEPT !.rows = rows, !.pc = v]
        BY <1>9 DEF Plan
  <2>7. v \in Pcs /\ "error" \in Pcs
        BY DEF Pcs
  <2> HIDE DEF rows, v
  <2>8. QueryTypeOK'
    <3>1. CASE q' = [q EXCEPT !.pc = "error"]
      <4>1. q' \in QueryState /\ q'.rows = q.rows /\ q'.query = q.query /\ q'.mode = q.mode
            /\ q'.config = q.config
            BY <2>2, <2>7, <3>1, PcSet
      <4> QED
            BY <1>1, <1>4, <2>1, <2>2, <4>1 DEF QueryTypeOK, store
    <3>2. CASE q' = [q EXCEPT !.rows = rows, !.pc = v]
      <4>1. q' \in QueryState
            BY <2>2, <2>5, <2>7, <3>2 DEF QueryState
      <4>2. q'.rows = rows /\ q'.query = q.query /\ q'.mode = q.mode /\ q'.config = q.config
            BY <2>2, <3>2 DEF QueryState
      <4> QED
            BY <1>1, <1>4, <2>1, <2>2, <2>4, <4>1, <4>2 DEF QueryTypeOK, store
    <3> QED
          BY <2>6, <3>1, <3>2
  <2> QED
        BY <1>1, <1>2, <1>3, <2>1, <2>3, <2>8
<1>10. CASE TakePage
  <2>1. q.pc = "answered" /\ q' = Idle /\ UNCHANGED <<store, cancelled, history>>
        BY <1>10 DEF TakePage
  <2>2. walk.query \in Query /\ walk.query \in Queries
        BY <1>1, <2>1, RunQueriesAssumption DEF WalkInv
  <2> DEFINE limit == walk.query.limit
             more == limit # None /\ Len(q.answer) > limit
             seen == walk.seen \o Take(q.answer, limit)
             offset == IF more THEN walk.offset + limit ELSE walk.offset
             state == IF more THEN walk.state ELSE "done"
  <2>3. walk' = [walk EXCEPT !.seen = seen, !.offset = offset, !.state = state]
        BY <1>1, <1>10 DEF TakePage, Walk
  <2>4. limit \in Number /\ q.answer \in Seq(Records) /\ walk.seen \in Seq(Records) /\ walk.offset \in Nat
        BY <1>1, <2>2 DEF Query, QueryTypeOK, QueryState, Walk
  <2>5. seen \in Seq(Records)
    <3>1. Take(q.answer, limit) \in Seq(Records)
          BY <2>4, TakeProperties
    <3> QED
          BY <2>4, <3>1, ConcatProperties
  <2>6. offset \in Nat
        BY <2>4 DEF Number
  <2>7. state \in {"new", "walking", "done", "answered", "failed"}
        BY <1>1 DEF Walk
  <2> HIDE DEF seen, offset, state
  <2>8. walk' \in Walk /\ walk'.query = walk.query
        BY <1>1, <2>3, <2>5, <2>6, <2>7 DEF Walk
  <2> QED
        BY <1>1, <1>2, <1>3, <1>5, <2>1, <2>2, <2>8 DEF store, history
<1>11. CASE TakeAnswer
  <2>1. /\ q.pc = "answered" /\ UNCHANGED <<store, q, cancelled, history>>
        /\ walk' = [walk EXCEPT !.seen = q.answer, !.state = "answered"]
        BY <1>11 DEF TakeAnswer
  <2>2. walk.query \in Queries
        BY <1>1, <2>1 DEF WalkInv
  <2>3. q.answer \in Seq(Records)
        BY <1>1 DEF QueryTypeOK, QueryState
  <2>4. walk' \in Walk /\ walk'.query = walk.query
        BY <1>1, <2>1, <2>3 DEF Walk
  <2> QED
        BY <1>1, <1>2, <1>3, <1>6, <2>1, <2>2, <2>4 DEF store, history
<1>12. CASE TakeError
  <2>1. /\ q.pc = "error" /\ q' = Idle /\ UNCHANGED <<store, cancelled, history>>
        /\ walk' = [walk EXCEPT !.state = "failed"]
        BY <1>12 DEF TakeError
  <2>2. walk.query \in Queries
        BY <1>1, <2>1 DEF WalkInv
  <2>3. walk' \in Walk /\ walk'.query = walk.query
        BY <1>1, <2>1 DEF Walk
  <2> QED
        BY <1>1, <1>2, <1>3, <1>5, <2>1, <2>2, <2>3 DEF store, history
<1>13. CASE WriteRun \/ DeleteRun \/ Compact \/ CleanUp
  <2>1. StoreTyped' /\ RowsKept
        BY <1>1, <1>13, StoreSteps
  <2>2. /\ q' = q /\ walk' = walk /\ cancelled' = cancelled /\ planned' = planned /\ early' = early
        /\ changes < MaxChanges /\ changes' = changes + 1 /\ steady' \subseteq steady
        BY <1>13, ChangesOnly
  <2>3. changes' \in 0..MaxChanges
        BY <1>1, <2>2, RunQueriesAssumption
  <2>4. QueryTypeOK'
    <3>1. \A h \in q.rows : h \in PlacesIn(segments')
          BY <1>1, <2>1, PlacesStay DEF StoreTyped, RowsKept, QueryTypeOK
    <3> QED
          BY <1>1, <2>2, <3>1 DEF QueryTypeOK
  <2> QED
        BY <1>1, <1>2, <2>1, <2>2, <2>3, <2>4
<1>14. CASE Cancel
  <2>1. UNCHANGED <<store, q, walk, steady, planned>> /\ cancelled' \in BOOLEAN /\ early' \in BOOLEAN
        BY <1>14 DEF Cancel
  <2> QED
        BY <1>1, <1>2, <1>3, <1>6, <2>1 DEF store
<1>15. CASE Schedules
  <2>1. /\ UNCHANGED <<store, walk, cancelled, steady, planned>> /\ early' \in BOOLEAN
        /\ \/ q' = [q EXCEPT !.notified = TRUE, !.woken = q.registered]
           \/ q' = [q EXCEPT !.polling = FALSE]
           \/ q' = [q EXCEPT !.polling = TRUE]
        BY <1>1, <1>15 DEF Schedules, Notify, Suspend, Poll, history
  <2>2. q \in QueryState
        BY <1>1 DEF QueryTypeOK
  <2>3. q' \in QueryState
    <3>1. CASE q' = [q EXCEPT !.notified = TRUE, !.woken = q.registered]
          BY <2>2, <3>1 DEF QueryState
    <3>2. CASE q' = [q EXCEPT !.polling = FALSE]
          BY <2>2, <3>2 DEF QueryState
    <3>3. CASE q' = [q EXCEPT !.polling = TRUE]
          BY <2>2, <3>3 DEF QueryState
    <3> QED
          BY <2>1, <3>1, <3>2, <3>3
  <2>4. q'.pc = q.pc /\ q'.rows = q.rows /\ q'.query = q.query /\ q'.mode = q.mode /\ q'.config = q.config
        BY <2>1, <2>2 DEF QueryState
  <2>5. QueryTypeOK'
        BY <1>1, <1>4, <2>1, <2>3, <2>4 DEF QueryTypeOK, store
  <2> QED
        BY <1>1, <1>2, <1>3, <2>1, <2>5
<1>16. CASE UNCHANGED vars
  <2>1. UNCHANGED <<store, q, walk, cancelled, history>>
        BY <1>16 DEF vars, store, history
  <2> QED
        BY <1>1, <1>2, <1>3, <1>6, <2>1 DEF store, history
<1> QED
      BY <1>7, <1>8, <1>9, <1>10, <1>11, <1>12, <1>13, <1>14, <1>15, <1>16, NextCases

LEMMA LatestExists ==
  ASSUME NEW n \in Nat, NEW H, \A h \in H : h.seg \in 1..n, H # {}
  PROVE  \E h \in H : \A g \in H : g.seg =< h.seg
<1> DEFINE T == {n - h.seg : h \in H}
           R == OpToRel(<, Nat)
<1>1. T \subseteq Nat /\ T # {}
      OBVIOUS
<1>2. IsWellFoundedOn(R, Nat)
      BY NatLessThanWellFounded
<1> HIDE DEF R
<1>3. PICK x \in T : \A y \in T : ~(<<y, x>> \in R)
      BY <1>1, <1>2, WFMin
<1>4. PICK h \in H : x = n - h.seg
      OBVIOUS
<1>5. ASSUME NEW g \in H PROVE g.seg =< h.seg
  <2>1. n - g.seg \in T /\ n - g.seg \in Nat /\ x \in Nat
        BY <1>1
  <2>2. ~(n - g.seg < x)
        BY <1>3, <2>1 DEF R, OpToRel
  <2> QED
        BY <1>4, <2>1, <2>2
<1> QED
      BY <1>5

LEMMA TypeInit == Init => TypeOK
<1> SUFFICES ASSUME Init PROVE TypeOK
    OBVIOUS
<1>1. PICK w \in Worlds, unindexed \in SUBSET {1} :
        segments = [s \in DOMAIN w |-> [rows |-> w[s], compacted |-> FALSE, object |-> TRUE,
                                        indexed |-> s \notin unindexed]]
      BY DEF Init
<1>2. w \in Seq(Seq(Records) \ {<<>>})
      BY RunQueriesAssumption
<1>3. DOMAIN w = 1..Len(w) /\ Len(w) \in Nat /\ \A s \in 1..Len(w) : w[s] \in Seq(Records) \ {<<>>}
      BY <1>2, LenProperties, ElementOfSeq
<1>4. segments \in Seq(Segment)
  <2>1. \A s \in 1..Len(w) : segments[s] \in Segment
        BY <1>1, <1>3 DEF Segment
  <2>2. segments \in [1..Len(w) -> Segment]
        BY <1>1, <1>3, <2>1
  <2> QED
        BY <1>3, <2>2, SeqDef
<1>5. /\ \A h \in PlacesIn(segments) : h.seg \in 1..Len(segments)
      /\ Len(segments) \in Nat
      BY <1>4, PlacesInDef
<1>6. ASSUME NEW r \in Runs
      PROVE  heads[r] = None \/ (heads[r] \in PlacesIn(segments) /\ RowOf(heads[r]).run = r)
  <2> DEFINE mine == {h \in PlacesIn(segments) : RowOf(h).run = r}
  <2>1. heads[r] = IF mine = {} THEN None ELSE CHOOSE h \in mine : \A g \in mine : g.seg =< h.seg
        BY DEF Init
  <2>2. ASSUME mine # {} PROVE heads[r] \in mine
    <3>1. \A h \in mine : h.seg \in 1..Len(segments)
          BY <1>5
    <3>2. heads[r] = CHOOSE h \in mine : \A g \in mine : g.seg =< h.seg
          BY <2>1, <2>2
    <3> HIDE DEF mine
    <3>3. \E h \in mine : \A g \in mine : g.seg =< h.seg
          BY <1>5, <2>2, <3>1, LatestExists
    <3> QED
          BY <3>2, <3>3
  <2>3. CASE mine = {}
        BY <2>1, <2>3
  <2>4. CASE mine # {}
        BY <2>2, <2>4
  <2> QED
        BY <2>3, <2>4
<1>7. heads \in [Runs -> PlacesIn(segments) \cup {None}]
  <2>1. heads = [r \in Runs |-> heads[r]]
        BY DEF Init
  <2> QED
        BY <1>6, <2>1
<1>8. QueryTypeOK
  <2>1. q = Idle
        BY DEF Init
  <2> QED
        BY <2>1, IdleType DEF QueryTypeOK
<1>9. <<>> \in Seq(Records)
      BY EmptySeq
<1>10. /\ deletions = {} /\ changes = 0 /\ cancelled = FALSE /\ steady = {} /\ planned = {}
       /\ early = FALSE /\ walk = [state |-> "new", query |-> None, offset |-> 0, seen |-> <<>>]
      BY DEF Init
<1>11. /\ walk \in [state : {"new", "walking", "done", "answered", "failed"},
                     query : Queries \cup {None}, offset : Nat, seen : Seq(Records)]
       /\ walk.state = "new"
      BY <1>9, <1>10
<1>12. \A r \in Runs : heads[r] # None => RowOf(heads[r]).run = r
      BY <1>6
<1>13. /\ deletions \subseteq Runs /\ changes \in 0..MaxChanges
       /\ cancelled \in BOOLEAN /\ early \in BOOLEAN
       /\ steady \subseteq Runs /\ planned \subseteq Records
  <2>1. changes \in 0..MaxChanges
        BY <1>10, RunQueriesAssumption
  <2> QED
        BY <1>10, <2>1
<1> QED
      BY <1>4, <1>7, <1>8, <1>11, <1>12, <1>13 DEF TypeOK

(* The client and its query. *)

LEMMA IdleFields ==
  /\ Idle.pc = "idle" /\ Idle.mode = "server" /\ Idle.rows = {} /\ Idle.deleted = {}
  /\ Idle.result = {} /\ Idle.running = {} /\ Idle.failed = FALSE /\ Idle.registered = FALSE
  /\ Idle.woken = FALSE /\ Idle.notified = FALSE /\ Idle.todo = <<>> /\ Idle.answer = <<>>
  BY DEF Idle

\* A query begins with nothing.
Asked(pc, mode, query) ==
  /\ q'.pc = pc /\ q'.mode = mode /\ q'.query = query
  /\ q'.rows = {} /\ q'.deleted = {} /\ q'.result = {} /\ q'.running = {} /\ q'.failed = FALSE
  /\ q'.registered = FALSE /\ q'.woken = FALSE /\ q'.notified = FALSE /\ q'.todo = <<>> /\ q'.answer = <<>>

LEMMA AskEffect ==
  ASSUME Ask
  PROVE  /\ walk.state = "walking" /\ q.pc = "idle"
         /\ \/ Asked("plan", "server", PageQuery(walk.query, walk.offset))
            \/ Asked("plan", "list", walk.query)
            \/ Asked("check", "distributed", walk.query)
<1>1. walk.state = "walking" /\ q.pc = "idle"
      BY DEF Ask
<1>2. CASE q' = [Idle EXCEPT !.pc = "plan", !.query = PageQuery(walk.query, walk.offset)]
  <2> DEFINE page == PageQuery(walk.query, walk.offset)
  <2>1. q' = [Idle EXCEPT !.pc = "plan", !.query = page]
        BY <1>2
  <2> HIDE DEF page
  <2>2. Asked("plan", "server", page)
        BY <2>1 DEF Asked, Idle
  <2> QED
        BY <1>1, <2>2 DEF page
<1>3. CASE q' = [Idle EXCEPT !.pc = "plan", !.mode = "list", !.query = walk.query]
      BY <1>1, <1>3 DEF Asked, Idle
<1>4. CASE \E c \in Configs : q' = [Idle EXCEPT !.pc = "check", !.mode = "distributed",
                                                !.query = walk.query, !.config = c]
      BY <1>1, <1>4 DEF Asked, Idle
<1> QED
      BY <1>2, <1>3, <1>4 DEF Ask

\* A plan, or the error of a query over its limits.
Plans ==
  /\ q.pc = "plan"
  /\ Sets(IF q.mode = "list" THEN "search" ELSE "deleted", q.registered, q.deleted,
          Candidates(q.query), q.todo, q.running, q.result, q.failed, q.answer)

LEMMA PlanEffect ==
  ASSUME TypeOK, Plan
  PROVE  /\ q.pc = "plan" /\ planned' = Current(q.query)
         /\ UNCHANGED <<store, walk, cancelled, steady, early>>
         /\ Errs \/ Plans
<1>1. /\ q.pc = "plan" /\ planned' = Current(q.query)
      /\ UNCHANGED <<store, walk, cancelled, steady, early>>
      BY DEF Plan, At, Current
<1>2. q \in QueryState
      BY DEF TypeOK, QueryTypeOK
<1> DEFINE rows == Candidates(q.query)
           v == IF q.mode = "list" THEN "search" ELSE "deleted"
<1>3. q' = [q EXCEPT !.pc = "error"] \/ q' = [q EXCEPT !.rows = rows, !.pc = v]
      BY DEF Plan
<1> HIDE DEF rows, v
<1>4. CASE q' = [q EXCEPT !.pc = "error"]
  <2>1. Errs
        BY <1>1, <1>4, PcMoves DEF Errs, Running, Pcs
  <2> QED
        BY <1>1, <2>1
<1>5. CASE q' = [q EXCEPT !.rows = rows, !.pc = v]
  <2>1. Sets(v, q.registered, q.deleted, rows, q.todo, q.running, q.result, q.failed, q.answer)
        BY <1>2, <1>5 DEF Sets, QueryState
  <2>2. Plans
        BY <1>1, <2>1 DEF Plans, rows, v
  <2> QED
        BY <1>1, <2>2
<1> QED
      BY <1>3, <1>4, <1>5

\* What the client does with the end of a query.
LEMMA TakeEffect ==
  ASSUME TypeOK, TakePage \/ TakeAnswer \/ TakeError
  PROVE  /\ UNCHANGED <<store, cancelled, history>> /\ walk'.query = walk.query
         /\ \/ /\ q.pc = "answered" /\ q.mode = "server" /\ q' = Idle
               /\ walk'.state \in {walk.state, "done"}
            \/ /\ q.pc = "answered" /\ q.mode # "server" /\ q' = q
               /\ walk'.state = "answered" /\ walk'.seen = q.answer /\ walk'.offset = walk.offset
            \/ q.pc = "error" /\ q' = Idle /\ walk'.state = "failed" /\ walk'.offset = walk.offset
<1>1. walk \in [state : {"new", "walking", "done", "answered", "failed"},
                query : Queries \cup {None}, offset : Nat, seen : Seq(Records)]
      BY DEF TypeOK
<1>2. CASE TakePage
  <2> DEFINE limit == walk.query.limit
             more == limit # None /\ Len(q.answer) > limit
             seen == walk.seen \o Take(q.answer, limit)
             offset == IF more THEN walk.offset + limit ELSE walk.offset
             state == IF more THEN walk.state ELSE "done"
  <2>1. walk' = [walk EXCEPT !.seen = seen, !.offset = offset, !.state = state]
        BY <1>1, <1>2 DEF TakePage
  <2>2. state \in {walk.state, "done"}
        OBVIOUS
  <2> HIDE DEF seen, offset, state
  <2>3. walk'.state = state /\ walk'.query = walk.query
        BY <1>1, <2>1
  <2> QED
        BY <1>2, <2>2, <2>3 DEF TakePage
<1>3. CASE TakeAnswer
      BY <1>1, <1>3 DEF TakeAnswer
<1>4. CASE TakeError
      BY <1>1, <1>4 DEF TakeError
<1> QED
      BY <1>2, <1>3, <1>4

\* When a task is polled and woken is nothing else of its query.
LEMMA ScheduleEffect ==
  ASSUME TypeOK, Schedules
  PROVE  /\ Running /\ UNCHANGED <<store, walk, cancelled, steady, planned>>
         /\ q'.pc = q.pc /\ q'.registered = q.registered /\ q'.deleted = q.deleted
         /\ q'.rows = q.rows /\ q'.todo = q.todo /\ q'.running = q.running
         /\ q'.result = q.result /\ q'.failed = q.failed /\ q'.answer = q.answer
         /\ q'.mode = q.mode /\ q'.query = q.query
         /\ \/ /\ cancelled /\ q'.notified = TRUE /\ q'.woken = q.registered /\ q'.polling = q.polling
               /\ early' = (early \/ ~q.polling)
            \/ /\ q.mode = "distributed" /\ q'.notified = q.notified /\ q'.woken = q.woken
               /\ \/ q'.polling = FALSE /\ early' = (early \/ q.notified)
                     /\ q.pc \in {"plan", "deleted", "search", "read"}
                  \/ ~q.woken /\ ~q.polling /\ q'.polling = TRUE /\ early' = early
<1>1. q \in QueryState
      BY DEF TypeOK, QueryTypeOK
<1>2. Running /\ UNCHANGED <<store, walk, cancelled, steady, planned>>
      BY DEF Schedules, Notify, Suspend, Awaits, Poll, Running, history
<1>3. CASE Notify
  <2>1. /\ q' = [q EXCEPT !.notified = TRUE, !.woken = q.registered]
        /\ cancelled /\ early' = (early \/ ~q.polling)
        BY <1>3 DEF Notify
  <2> QED
        BY <1>1, <1>2, <2>1 DEF QueryState
<1>4. CASE Suspend
  <2>1. /\ q' = [q EXCEPT !.polling = FALSE] /\ q.mode = "distributed"
        /\ early' = (early \/ q.notified) /\ q.pc \in {"plan", "deleted", "search", "read"}
        BY <1>4 DEF Suspend, Awaits
  <2> QED
        BY <1>1, <1>2, <2>1 DEF QueryState
<1>5. CASE Poll /\ ~q.woken
  <2>1. /\ q' = [q EXCEPT !.polling = TRUE] /\ q.mode = "distributed" /\ ~q.woken /\ ~q.polling
        /\ early' = early
        BY <1>5 DEF Poll, history
  <2> QED
        BY <1>1, <1>2, <2>1 DEF QueryState
<1> QED
      BY <1>3, <1>4, <1>5 DEF Schedules

\* The client and its query keep step.
LEMMA WalkStep ==
  ASSUME TypeOK, WalkInv, [Next]_vars
  PROVE  WalkInv'
<1>1. CASE QueryMoves
  <2>1. walk' = walk
        BY <1>1, QueryMovesOnly
  <2>2. CASE Ask
    <3>1. walk.state = "walking"
          BY <2>2, AskEffect
    <3>2. CASE Asked("plan", "server", PageQuery(walk.query, walk.offset))
          BY <2>1, <3>1, <3>2 DEF WalkInv, Asked
    <3>3. CASE Asked("plan", "list", walk.query)
          BY <2>1, <3>1, <3>3 DEF WalkInv, Asked
    <3>4. CASE Asked("check", "distributed", walk.query)
          BY <2>1, <3>1, <3>4 DEF WalkInv, Asked
    <3> QED
          BY <2>2, <3>2, <3>3, <3>4, AskEffect
  <2>3. CASE ~Ask
    <3> USE <2>1 DEF WalkInv, Moves, Sets
    <3>1. CASE Errs
          BY <3>1 DEF Errs, Running
    <3>2. CASE Checks
          BY <3>2 DEF Checks
    <3>3. CASE Registers
          BY <3>3 DEF Registers
    <3>4. CASE Goes
          BY <3>4 DEF Goes
    <3>5. CASE Loads
          BY <3>5 DEF Loads
    <3>6. CASE Searches
          BY <3>6 DEF Searches
    <3>7. CASE Splits
          BY <3>7 DEF Splits
    <3>8. CASE Reads
          BY <3>8 DEF Reads
    <3>9. CASE Starts
          BY <3>9 DEF Starts
    <3>10. CASE Ends
          BY <3>10 DEF Ends
    <3>11. CASE Answers
          BY <3>11 DEF Answers
    <3> QED
          BY <1>1, <2>3, <3>1, <3>2, <3>3, <3>4, <3>5, <3>6, <3>7, <3>8, <3>9, <3>10, <3>11,
             QueryEffects
  <2> QED
        BY <2>2, <2>3
<1>2. CASE BeginWalk
  <2>1. q' = q /\ walk.state = "new" /\ q.pc = "idle" /\ walk'.state = "walking"
        BY <1>2 DEF BeginWalk, WalkInv, TypeOK
  <2> QED
        BY <2>1 DEF WalkInv
<1>3. CASE Plan
  <2>1. walk' = walk /\ q.pc = "plan"
        BY <1>3, PlanEffect
  <2>2. CASE Errs
        BY <2>1, <2>2 DEF Errs, Running, WalkInv, Moves, Sets
  <2>3. CASE Plans
        BY <2>1, <2>3 DEF Plans, WalkInv, Sets
  <2> QED
        BY <1>3, <2>2, <2>3, PlanEffect
<1>4. CASE TakePage \/ TakeAnswer \/ TakeError
      BY <1>4, TakeEffect, IdleFields DEF WalkInv
<1>5. CASE WriteRun \/ DeleteRun \/ Compact \/ CleanUp
      BY <1>5, ChangesOnly DEF WalkInv
<1>6. CASE Cancel
      BY <1>6 DEF Cancel, WalkInv
<1>7. CASE Schedules
  <2>1. /\ walk' = walk /\ q'.pc = q.pc /\ q'.mode = q.mode /\ q'.query = q.query
        /\ q'.answer = q.answer /\ q'.deleted = q.deleted /\ q'.result = q.result
        /\ q'.running = q.running /\ q'.failed = q.failed
        BY <1>7, ScheduleEffect
  <2> QED
        BY <2>1 DEF WalkInv
<1>8. CASE UNCHANGED vars
      BY <1>8 DEF vars, WalkInv
<1> QED
      BY <1>1, <1>2, <1>3, <1>4, <1>5, <1>6, <1>7, <1>8, NextCases

\* An early cancellation leaves no answer.
LEMMA CancelStep ==
  ASSUME TypeOK, WalkInv, CancelInv, [Next]_vars
  PROVE  CancelInv'
<1>1. /\ early \in BOOLEAN /\ cancelled \in BOOLEAN /\ q.woken \in BOOLEAN /\ q.failed \in BOOLEAN
      /\ q.registered \in BOOLEAN /\ q.polling \in BOOLEAN /\ q.notified \in BOOLEAN
      BY DEF TypeOK, QueryTypeOK, QueryState
<1>2. CASE QueryMoves
  <2>1. walk' = walk /\ cancelled' = cancelled /\ early' = early
        BY <1>2, QueryMovesOnly
  <2>2. CASE Ask
    <3>1. walk.state = "walking" /\ q.pc = "idle"
          BY <2>2, AskEffect
    <3>2. ~cancelled /\ ~early
          BY <3>1 DEF CancelInv, WalkInv
    <3>3. (q'.mode = "distributed" => q'.pc = "check") /\ q'.notified = FALSE
          BY <2>2, AskEffect DEF Asked
    <3> QED
          BY <2>1, <3>2, <3>3 DEF CancelInv
  <2>3. CASE ~Ask
    <3>1. cancelled /\ q.pc # "idle" => q.mode = "distributed"
          BY DEF CancelInv, WalkInv
    <3> USE <1>1, <2>1, <3>1 DEF CancelInv, Moves, Sets
    <3>2. CASE Errs
          BY <3>2 DEF Errs
    <3>3. CASE Checks
          BY <3>3 DEF Checks
    <3>4. CASE Registers
          BY <3>4 DEF Registers
    <3>5. CASE Goes
          BY <3>5 DEF Goes
    <3>6. CASE Loads
          BY <3>6 DEF Loads
    <3>7. CASE Searches
          BY <3>7 DEF Searches
    <3>8. CASE Splits
          BY <3>8 DEF Splits
    <3>9. CASE Reads
          BY <3>9 DEF Reads
    <3>10. CASE Starts
          BY <3>10 DEF Starts
    <3>11. CASE Ends
          BY <3>11 DEF Ends
    <3>12. CASE Answers
          BY <3>12 DEF Answers, Finished
    <3> QED
          BY <1>2, <2>3, <3>2, <3>3, <3>4, <3>5, <3>6, <3>7, <3>8, <3>9, <3>10, <3>11, <3>12,
             QueryEffects
  <2> QED
        BY <2>2, <2>3
<1>3. CASE BeginWalk
  <2>1. q' = q /\ walk.state = "new" /\ q.pc = "idle" /\ cancelled' = cancelled /\ early' = early
        BY <1>3 DEF BeginWalk, WalkInv
  <2> QED
        BY <2>1 DEF WalkInv, CancelInv
<1>4. CASE Plan
  <2>1. walk' = walk /\ q.pc = "plan" /\ cancelled' = cancelled /\ early' = early
        BY <1>4, PlanEffect
  <2>2. CASE Errs
        BY <2>1, <2>2 DEF Errs, CancelInv, Moves, Sets
  <2>3. CASE Plans
        BY <2>1, <2>3 DEF Plans, CancelInv, Sets
  <2> QED
        BY <1>4, <2>2, <2>3, PlanEffect
<1>5. CASE TakePage \/ TakeAnswer \/ TakeError
  <2>1. cancelled' = cancelled /\ early' = early
        BY <1>5, TakeEffect DEF history
  <2> QED
        BY <1>5, <2>1, TakeEffect, IdleFields DEF WalkInv, CancelInv
<1>6. CASE WriteRun \/ DeleteRun \/ Compact \/ CleanUp
      BY <1>6, ChangesOnly DEF CancelInv
<1>7. CASE Cancel
      BY <1>7 DEF Cancel, CancelInv, Running
<1>8. CASE Schedules
  <2>1. /\ walk' = walk /\ q'.pc = q.pc /\ q'.mode = q.mode /\ q'.registered = q.registered
        /\ q'.todo = q.todo /\ q'.failed = q.failed /\ Running /\ cancelled' = cancelled
        BY <1>8, ScheduleEffect
  <2>2. cancelled => q.mode = "distributed"
        BY <2>1 DEF CancelInv, WalkInv, Running
  <2>3. cancelled /\ q.pc \in {"plan", "deleted", "search", "split", "read"} => q.registered
        BY <2>2 DEF CancelInv
  <2>4. CASE /\ cancelled /\ q'.notified = TRUE /\ q'.woken = q.registered /\ q'.polling = q.polling
             /\ early' = (early \/ ~q.polling)
        BY <1>1, <2>1, <2>2, <2>3, <2>4 DEF CancelInv, Running
  <2>5. CASE /\ q'.notified = q.notified /\ q'.woken = q.woken /\ q'.polling = FALSE
             /\ early' = (early \/ q.notified) /\ q.pc \in {"plan", "deleted", "search", "read"}
        BY <1>1, <2>1, <2>2, <2>3, <2>5 DEF CancelInv
  <2>6. CASE /\ q'.notified = q.notified /\ q'.woken = q.woken /\ ~q.woken /\ early' = early
        BY <1>1, <2>1, <2>2, <2>6 DEF CancelInv
  <2> QED
        BY <1>8, <2>4, <2>5, <2>6, ScheduleEffect
<1>9. CASE UNCHANGED vars
      BY <1>9 DEF vars, CancelInv
<1> QED
      BY <1>2, <1>3, <1>4, <1>5, <1>6, <1>7, <1>8, <1>9, NextCases

\* Rows stay where they are.
LEMMA RowsStay ==
  ASSUME TypeOK, [Next]_vars
  PROVE  \A h \in PlacesIn(segments) : RowOf(h)' = RowOf(h)
<1>1. CASE WriteRun \/ DeleteRun \/ Compact \/ CleanUp
  <2>1. StoreTyped' /\ RowsKept /\ StoreTyped
        BY <1>1, StoreSteps DEF StoreTyped, TypeOK
  <2> QED
        BY <2>1, PlacesStay DEF StoreTyped, RowsKept, RowOf
<1>2. CASE ~(WriteRun \/ DeleteRun \/ Compact \/ CleanUp)
  <2>1. CASE QueryMoves
        BY <2>1, QueryMovesOnly DEF RowOf
  <2>2. CASE BeginWalk \/ Plan \/ TakePage \/ TakeAnswer \/ TakeError
        BY <2>2 DEF BeginWalk, Plan, TakePage, TakeAnswer, TakeError, store, RowOf
  <2>3. CASE Cancel \/ Schedules \/ UNCHANGED vars
        BY <2>3 DEF Cancel, Schedules, Notify, Suspend, Poll, vars, store, RowOf
  <2> QED
        BY <1>2, <2>1, <2>2, <2>3, NextCases
<1> QED
      BY <1>1, <1>2

\* What a query reads and answers comes from its plan.
LEMMA PlanStep ==
  ASSUME TypeOK, WalkInv, PlanInv, [Next]_vars
  PROVE  PlanInv'
<1>1. /\ q \in QueryState /\ q.rows \subseteq PlacesIn(segments)
      /\ q.pc # "idle" => q.query \in Query
      /\ planned \in SUBSET Records
      BY DEF TypeOK, QueryTypeOK
<1>2. \A h \in q.rows : RowOf(h)' = RowOf(h)
      BY <1>1, RowsStay
<1>3. CASE QueryMoves
  <2>1. planned' = planned
        BY <1>3, QueryMovesOnly
  <2>2. CASE Ask
    <3>1. q'.pc \in {"plan", "check"}
          BY <2>2, AskEffect DEF Asked
    <3> QED
          BY <2>1, <3>1 DEF PlanInv, HasPlan, AnswersComeFromThePlan, OneRowEach
  <2>3. CASE ~Ask
    <3> USE DEF Moves, Sets
    <3>1. ASSUME q'.pc \in {"error", "register", "reject", "plan"} PROVE PlanInv'
          BY <2>1, <3>1 DEF PlanInv, HasPlan, AnswersComeFromThePlan, OneRowEach
    <3>2. CASE Errs \/ Checks \/ Registers \/ Goes
          BY <3>1, <3>2 DEF Errs, Checks, Registers, Goes
    <3>3. CASE Loads
          BY <1>2, <2>1, <3>3
          DEF Loads, PlanInv, HasPlan, Searched, HasWord, AnswersComeFromThePlan, OneRowEach
    <3>4. CASE Searches
      <4>1. q'.rows \subseteq q.rows /\ \A h \in q'.rows : HasWord(q.query, RowOf(h))
            BY <3>4 DEF Searches
      <4>2. \A h \in q'.rows : RowOf(h)' \in planned
            BY <1>2, <3>4, <4>1 DEF Searches, PlanInv, HasPlan
      <4> QED
            BY <2>1, <3>4, <4>2 DEF Searches, PlanInv, HasPlan, AnswersComeFromThePlan, OneRowEach
    <3>5. CASE Splits
      <4>1. \A h \in q'.rows : RowOf(h)' \in planned
            BY <1>2, <3>5 DEF Splits, PlanInv, HasPlan, Searched
      <4> QED
            BY <2>1, <3>5, <4>1 DEF Splits, PlanInv, HasPlan, AnswersComeFromThePlan, OneRowEach
    <3>6. CASE Reads \/ Starts \/ Ends
      <4>1. q.pc = "read" /\ q'.pc = "read" /\ q'.rows = q.rows
            BY <3>6 DEF Reads, Starts, Ends
      <4>2. q.result \subseteq planned
            BY <4>1 DEF PlanInv, HasPlan
      <4>3. q'.result \subseteq planned
        <5>1. \A segs : ReadSegments(segs) \subseteq planned
              BY <4>1, ReadIsPlanned
        <5> QED
              BY <3>6, <4>2, <5>1 DEF Reads, Starts, Ends
      <4>4. \A h \in q'.rows : RowOf(h)' \in planned
            BY <1>2, <4>1 DEF PlanInv, HasPlan, Searched
      <4> QED
            BY <2>1, <4>1, <4>3, <4>4 DEF PlanInv, HasPlan, AnswersComeFromThePlan, OneRowEach
    <3>7. CASE Answers
      <4>1. q.pc = "read" /\ q'.pc = "answered" /\ q'.answer = AnswerRows /\ q'.query = q.query
            BY <3>7 DEF Answers
      <4>2. q.result \subseteq planned /\ IsFiniteSet(planned) /\ OneRowEach(planned)
            BY <4>1 DEF PlanInv, HasPlan
      <4>3. /\ AnswerRows \in Seq(planned)
            /\ \A i, j \in 1..Len(AnswerRows) :
                 i < j => Before(q.query, AnswerRows[i], AnswerRows[j])
            /\ q.query.limit # None => Len(AnswerRows) =< q.query.limit
            BY <1>1, <4>1, <4>2, AnswerResult
      <4>4. DOMAIN AnswerRows = 1..Len(AnswerRows) /\ Range(AnswerRows) \subseteq planned
        <5>1. DOMAIN AnswerRows = 1..Len(AnswerRows)
              /\ \A i \in 1..Len(AnswerRows) : AnswerRows[i] \in planned
              BY <4>3, LenProperties, ElementOfSeq
        <5> QED
              BY <5>1 DEF Range
      <4>5. AnswersComeFromThePlan'
            BY <2>1, <4>1, <4>3, <4>4 DEF AnswersComeFromThePlan, Before
      <4> QED
            BY <2>1, <4>1, <4>2, <4>5 DEF PlanInv, HasPlan, OneRowEach
    <3> QED
          BY <1>3, <2>3, <3>2, <3>3, <3>4, <3>5, <3>6, <3>7, QueryEffects
  <2> QED
        BY <2>2, <2>3
<1>4. CASE Plan
  <2>1. q.pc = "plan" /\ planned' = Current(q.query) /\ (Errs \/ Plans)
        BY <1>4, PlanEffect
  <2>2. IsFiniteSet(planned') /\ OneRowEach(planned)'
    <3>1. IsFiniteSet(Current(q.query)) /\ OneRowEach(Current(q.query))
          BY HeadRows
    <3> QED
          BY <2>1, <3>1 DEF OneRowEach
  <2>3. CASE Errs
        BY <2>2, <2>3 DEF Errs, Moves, Sets, PlanInv, HasPlan, AnswersComeFromThePlan
  <2>4. CASE Plans
    <3>1. /\ q'.rows = Candidates(q.query) /\ q'.query = q.query /\ q'.mode = q.mode
          /\ q'.pc = (IF q.mode = "list" THEN "search" ELSE "deleted") /\ q'.result = {}
          BY <2>1, <2>4 DEF Plans, Sets, WalkInv
    <3>2. ASSUME NEW h \in q'.rows PROVE HasWord(q.query, RowOf(h))' => RowOf(h)' \in planned'
      <4>1. h \in PlacesIn(segments) /\ RowOf(h) \in Matching(q.query)
            BY <1>1, <2>1, <3>1, PlanResult
      <4>2. RowOf(h)' = RowOf(h)
            BY <4>1, RowsStay
      <4>3. HasWord(q.query, RowOf(h))' <=> HasWord(q.query, RowOf(h))
            BY <3>1, <4>2 DEF HasWord
      <4> QED
            BY <2>1, <4>1, <4>2, <4>3, HeadRows
    <3>3. ~Searched' /\ q'.pc # "answered"
          BY <3>1 DEF Searched
    <3> QED
          BY <2>2, <3>1, <3>2, <3>3 DEF PlanInv, AnswersComeFromThePlan
  <2> QED
        BY <2>1, <2>3, <2>4
<1>5. ASSUME planned' = planned, q'.pc = q.pc, q'.query = q.query, q'.rows = q.rows,
             q'.result = q.result, q'.answer = q.answer, q'.mode = q.mode
      PROVE  PlanInv'
      BY <1>5, <1>2
      DEF PlanInv, HasPlan, Searched, HasWord, AnswersComeFromThePlan, OneRowEach, Before
<1>6. CASE TakePage \/ TakeAnswer \/ TakeError
  <2>1. planned' = planned /\ (q' = q \/ q' = Idle)
        BY <1>6, TakeEffect DEF history
  <2>2. CASE q' = Idle
        BY <2>1, <2>2, IdleFields DEF PlanInv, HasPlan, AnswersComeFromThePlan, OneRowEach
  <2> QED
        BY <1>5, <2>1, <2>2
<1>7. CASE WriteRun \/ DeleteRun \/ Compact \/ CleanUp
      BY <1>5, <1>7, ChangesOnly
<1>8. CASE Schedules
      BY <1>5, <1>8, ScheduleEffect
<1>9. CASE BeginWalk \/ Cancel \/ UNCHANGED vars
      BY <1>5, <1>9 DEF BeginWalk, Cancel, vars
<1> QED
      BY <1>3, <1>4, <1>6, <1>7, <1>8, <1>9, NextCases

\* What waits is in the first part, or still waits without it.
LEMMA FirstOrLater ==
  ASSUME NEW S, NEW s \in Seq(S), s # <<>>, NEW x, NEW i \in DOMAIN s, x \in s[i]
  PROVE  x \in Head(s) \/ \E j \in DOMAIN Tail(s) : x \in Tail(s)[j]
<1>1. /\ DOMAIN s = 1..Len(s) /\ Len(s) \in Nat /\ Len(s) # 0
      BY LenProperties, EmptySeq
<1>2. /\ Tail(s) \in Seq(S) /\ Len(Tail(s)) = Len(s) - 1
      /\ \A k \in 1..Len(Tail(s)) : Tail(s)[k] = s[k + 1]
      BY HeadTailProperties
<1>3. DOMAIN Tail(s) = 1..Len(Tail(s))
      BY <1>2, LenProperties
<1>4. CASE i = 1
  <2>1. Head(s) = s[1]
        BY <1>1
  <2> QED
        BY <1>4, <2>1
<1>5. CASE i # 1
  <2>1. i - 1 \in 1..Len(Tail(s))
        BY <1>1, <1>2, <1>5
  <2>2. Tail(s)[i - 1] = s[i]
        BY <1>1, <1>2, <2>1
  <2> QED
        BY <1>3, <2>1, <2>2
<1> QED
      BY <1>4, <1>5

\* A row that the page needs is read, or its candidate waits, or the query fails.
LEMMA LimitKept ==
  ASSUME TypeOK, LimitInv, [Next]_vars, HasPlan, planned' = planned, q'.query = q.query,
         \A rec \in planned : q.failed \/ rec \in q.result => q'.failed \/ rec \in q'.result,
         \A h \in q.rows :
           /\ q.query.root = None /\ RowOf(h) \in planned
           /\ FieldsMatch(q.query, RowOf(h)) /\ HasWord(q.query, RowOf(h))
           /\ UpToPage(q.query, RowOf(h)) /\ (q.pc = "read" => Waiting(h.seg))
           => \/ q'.failed \/ RowOf(h) \in q'.result
              \/ h \in q'.rows /\ (q'.pc = "read" => Waiting(h.seg)')
  PROVE  LimitInv'
<1>1. q.rows \subseteq PlacesIn(segments)
      BY DEF TypeOK, QueryTypeOK
<1>2. \A h \in q.rows : RowOf(h)' = RowOf(h)
      BY <1>1, RowsStay
<1> SUFFICES ASSUME HasPlan', q.query.root = None, NEW rec \in planned,
                    FieldsMatch(q.query, rec), Retained(q.query, rec), HasWord(q.query, rec),
                    UpToPage(q.query, rec)
             PROVE  \/ q'.failed \/ rec \in q'.result
                    \/ \E h \in q'.rows : RowOf(h)' = rec /\ (q'.pc = "read" => Waiting(h.seg)')
      BY DEF LimitInv, FieldsMatch, Retained, HasWord, UpToPage, Rank, Before
<1>3. \/ q.failed \/ rec \in q.result
      \/ \E h \in q.rows : RowOf(h) = rec /\ (q.pc = "read" => Waiting(h.seg))
      BY DEF LimitInv
<1> QED
      BY <1>2, <1>3

LEMMA LimitStep ==
  ASSUME TypeOK, WalkInv, PlanInv, LimitInv, [Next]_vars
  PROVE  LimitInv'
<1>1. /\ q \in QueryState /\ q.rows \subseteq PlacesIn(segments)
      /\ q.pc # "idle" => q.query \in Query
      /\ planned \in SUBSET Records
      BY DEF TypeOK, QueryTypeOK
<1>2. ASSUME q'.pc \notin {"deleted", "search", "split", "read"} PROVE LimitInv'
      BY <1>2 DEF LimitInv, HasPlan
<1>3. CASE QueryMoves
  <2>1. planned' = planned
        BY <1>3, QueryMovesOnly
  <2>2. CASE Ask
    <3>1. q'.pc \in {"plan", "check"}
          BY <2>2, AskEffect DEF Asked
    <3> QED
          BY <1>2, <3>1
  <2>3. CASE ~Ask
    <3> USE DEF Moves, Sets
    <3>1. CASE Errs \/ Checks \/ Registers \/ Goes \/ Answers
          BY <1>2, <3>1 DEF Errs, Checks, Registers, Goes, Answers
    <3>2. CASE Loads
      <4>1. /\ HasPlan /\ q'.query = q.query /\ q'.failed = q.failed /\ q'.result = q.result
            /\ q'.rows = q.rows /\ q'.pc # "read"
            BY <3>2 DEF Loads, HasPlan
      <4> QED
            BY <2>1, <4>1, LimitKept
    <3>3. CASE Searches
      <4>1. /\ HasPlan /\ q'.query = q.query /\ q'.failed = q.failed /\ q'.result = q.result
            /\ q'.rows = {h \in q.rows : HasWord(q.query, RowOf(h))} /\ q'.pc # "read"
            BY <3>3 DEF Searches, HasPlan
      <4>2. \A h \in q.rows : HasWord(q.query, RowOf(h)) => h \in q'.rows
            BY <4>1
      <4> QED
            BY <2>1, <4>1, <4>2, LimitKept
    <3>4. CASE Splits
      <4>1. /\ HasPlan /\ q'.query = q.query /\ q'.failed = q.failed /\ q'.result = q.result
            /\ q'.rows = q.rows
            BY <3>4 DEF Splits, HasPlan
      <4>2. PICK size \in Nat \ {0} : q'.todo = Chunks({h.seg : h \in q.rows}, size)
            BY <3>4 DEF Splits
      <4>3. \A h \in q.rows : Waiting(h.seg)'
            BY <4>2, SplitType DEF Waiting
      <4> QED
            BY <2>1, <4>1, <4>3, LimitKept
    <3>5. CASE Reads \/ Starts \/ Ends
      <4>1. /\ HasPlan /\ q.pc = "read" /\ q'.query = q.query /\ q'.rows = q.rows
            /\ q.result \subseteq q'.result /\ (q.failed => q'.failed)
        <5>1. CASE Reads
              BY <5>1 DEF Reads, HasPlan
        <5>2. CASE Starts
              BY <5>2 DEF Starts, HasPlan
        <5>3. CASE Ends
              BY <5>3 DEF Ends, HasPlan
        <5> QED
              BY <3>5, <5>1, <5>2, <5>3
      <4>2. IsFiniteSet(planned) /\ OneRowEach(planned) /\ \A h \in q.rows : RowOf(h) \in planned
            BY <4>1 DEF PlanInv, HasPlan, Searched
      <4>3. ASSUME NEW h \in q.rows, q.query.root = None, FieldsMatch(q.query, RowOf(h)),
                   UpToPage(q.query, RowOf(h)), NEW segs, h.seg \in segs
            PROVE  RowOf(h) \in ReadSegments(segs)
            BY <1>1, <4>1, <4>2, <4>3, ReadResult DEF UpToPage
      <4>4. q.todo \in Seq(SUBSET Nat)
            BY <1>1 DEF QueryState
      <4>5. ASSUME NEW h \in q.rows, q.query.root = None, FieldsMatch(q.query, RowOf(h)),
                   UpToPage(q.query, RowOf(h)), Waiting(h.seg)
            PROVE  q'.failed \/ RowOf(h) \in q'.result \/ Waiting(h.seg)'
        <5>1. CASE Reads
          <6>1. /\ q.todo # <<>> /\ q'.todo = Tail(q.todo) /\ q'.running = q.running
                /\ q'.result = q.result \cup ReadSegments(Head(q.todo))
                BY <5>1 DEF Reads
          <6>2. CASE \E p \in q.running : h.seg \in p
                BY <6>1, <6>2 DEF Waiting
          <6>3. CASE \E i \in DOMAIN q.todo : h.seg \in q.todo[i]
            <7>1. h.seg \in Head(q.todo) \/ \E j \in DOMAIN Tail(q.todo) : h.seg \in Tail(q.todo)[j]
                  BY <4>4, <6>1, <6>3, FirstOrLater
            <7>2. CASE h.seg \in Head(q.todo)
                  BY <4>3, <4>5, <6>1, <7>2
            <7> QED
                  BY <6>1, <7>1, <7>2 DEF Waiting
          <6> QED
                BY <4>5, <6>2, <6>3 DEF Waiting
        <5>2. CASE Starts
          <6>1. /\ q.todo # <<>> /\ q'.todo = Tail(q.todo)
                /\ cancelled => q'.failed
                /\ ~cancelled => q'.running = q.running \cup {Head(q.todo)}
                /\ q.running \subseteq q'.running
                BY <5>2 DEF Starts
          <6>2. CASE \E p \in q.running : h.seg \in p
                BY <6>1, <6>2 DEF Waiting
          <6>3. CASE \E i \in DOMAIN q.todo : h.seg \in q.todo[i]
            <7>1. h.seg \in Head(q.todo) \/ \E j \in DOMAIN Tail(q.todo) : h.seg \in Tail(q.todo)[j]
                  BY <4>4, <6>1, <6>3, FirstOrLater
            <7> QED
                  BY <6>1, <7>1 DEF Waiting
          <6> QED
                BY <4>5, <6>2, <6>3 DEF Waiting
        <5>3. CASE Ends
          <6>1. PICK p \in q.running : /\ q'.todo = q.todo /\ q'.running = q.running \ {p}
                                       /\ Readable(p) => q'.result = q.result \cup ReadSegments(p)
                                       /\ ~Readable(p) => q'.failed
                BY <5>3 DEF Ends
          <6>2. CASE h.seg \in p
                BY <4>3, <4>5, <6>1, <6>2
          <6>3. CASE h.seg \notin p
                BY <4>5, <6>1, <6>3 DEF Waiting
          <6> QED
                BY <6>2, <6>3
        <5> QED
              BY <3>5, <5>1, <5>2, <5>3
      <4> QED
            BY <2>1, <4>1, <4>5, LimitKept
    <3> QED
          BY <1>3, <2>3, <3>1, <3>2, <3>3, <3>4, <3>5, QueryEffects
  <2> QED
        BY <2>2, <2>3
<1>4. CASE Plan
  <2>1. q.pc = "plan" /\ planned' = Current(q.query) /\ (Errs \/ Plans)
        BY <1>4, PlanEffect
  <2>2. CASE Errs
        BY <1>2, <2>2 DEF Errs, Moves, Sets
  <2>3. CASE Plans
    <3>1. q'.rows = Candidates(q.query) /\ q'.query = q.query /\ q'.pc # "read"
          BY <2>3 DEF Plans, Sets
    <3>2. ASSUME NEW rec \in planned', UpToPage(q.query, rec)'
          PROVE  \E h \in q'.rows : RowOf(h)' = rec
      <4>1. q.query.limit = None
            \/ Rank(q.query, rec, Current(q.query)) < q.query.limit + q.query.offset
            BY <2>1, <3>1, <3>2 DEF UpToPage, Rank, Before
      <4>2. PICK h \in Candidates(q.query) : RowOf(h) = rec /\ h \in PlacesIn(segments)
            BY <1>1, <2>1, <4>1, PlanResult
      <4> QED
            BY <3>1, <4>2, RowsStay
    <3>3. ASSUME NEW rec \in planned', UpToPage(q.query, rec)'
          PROVE  \E h \in q'.rows : RowOf(h)' = rec /\ (q'.pc = "read" => Waiting(h.seg)')
          BY <3>1, <3>2, <3>3
    <3>4. ASSUME NEW rec \in planned'
          PROVE  (FieldsMatch(q.query, rec) /\ Retained(q.query, rec) /\ HasWord(q.query, rec))'
      <4>1. FieldsMatch(q.query, rec) /\ Retained(q.query, rec) /\ HasWord(q.query, rec)
            BY <2>1, HeadRows
      <4> QED
            BY <3>1, <4>1 DEF FieldsMatch, Retained, HasWord
    <3> QED
          BY <3>3, <3>4 DEF LimitInv
  <2> QED
        BY <2>1, <2>2, <2>3
<1>5. ASSUME planned' = planned, q'.pc = q.pc, q'.query = q.query, q'.rows = q.rows,
             q'.result = q.result, q'.failed = q.failed, q'.todo = q.todo, q'.running = q.running
      PROVE  LimitInv'
  <2>1. CASE HasPlan
        BY <1>5, <2>1, LimitKept DEF Waiting
  <2>2. CASE ~HasPlan
        BY <1>5, <1>2, <2>2 DEF HasPlan
  <2> QED
        BY <2>1, <2>2
<1>6. CASE TakePage \/ TakeAnswer \/ TakeError
  <2>1. planned' = planned /\ (q' = q \/ q' = Idle)
        BY <1>6, TakeEffect DEF history
  <2>2. CASE q' = Idle
        BY <1>2, <2>2, IdleFields
  <2> QED
        BY <1>5, <2>1, <2>2
<1>7. CASE WriteRun \/ DeleteRun \/ Compact \/ CleanUp
      BY <1>5, <1>7, ChangesOnly
<1>8. CASE Schedules
      BY <1>5, <1>8, ScheduleEffect
<1>9. CASE BeginWalk \/ Cancel \/ UNCHANGED vars
      BY <1>5, <1>9 DEF BeginWalk, Cancel, vars
<1> QED
      BY <1>3, <1>4, <1>6, <1>7, <1>8, <1>9, NextCases

\* What a query wants does not depend on its page or its order.
SameWants(a, b) ==
  /\ a.kind = b.kind /\ a.since = b.since /\ a.root = b.root /\ a.word = b.word
  /\ a.cutoff = b.cutoff /\ a.include_deleted = b.include_deleted

LEMMA WantsAgree ==
  ASSUME NEW a, NEW b, SameWants(a, b)
  PROVE  WantedBy(a) = WantedBy(b) /\ Current(a) = Current(b)
<1>1. WantedBy(a) = WantedBy(b)
      BY DEF SameWants, WantedBy, Wanted, FieldsMatch, Retained, HasWord
<1> QED
      BY <1>1 DEF Current

\* Nor does it change with anything but the store.
LEMMA WantsStay ==
  ASSUME segments' = segments, heads' = heads, deletions' = deletions
  PROVE  /\ WantedBy(walk.query)' = WantedBy(walk'.query)
         /\ Current(walk.query)' = Current(walk'.query)
         /\ Current(q.query)' = Current(q'.query)
  BY DEF WantedBy, Wanted, Visible, FieldsMatch, Retained, RootColumn, RowOf, HasWord, Current

LEMMA PageQueryWants ==
  ASSUME NEW query \in Query, NEW offset \in Nat
  PROVE  SameWants(PageQuery(query, offset), query)
  BY PageQueryType DEF SameWants

LEMMA PageQueryLimit ==
  ASSUME NEW query \in Query, NEW offset \in Nat
  PROVE  PageQuery(query, offset).limit = (IF query.limit = None THEN None ELSE query.limit + 1)
  BY PageQueryType

\* A query asks what its walk wants.
LEMMA AsksItsWalk ==
  ASSUME TypeOK, WalkInv, q.pc # "idle"
  PROVE  /\ walk.query \in Query /\ walk.offset \in Nat
         /\ q.query \in Query /\ SameWants(q.query, walk.query)
         /\ q.query.limit = None <=> walk.query.limit = None
         /\ q.mode = "server" => /\ q.query.offset = walk.offset /\ q.query.newest_first = TRUE
                                 /\ q.query = PageQuery(walk.query, walk.offset)
                                 /\ walk.query.limit # None => q.query.limit = walk.query.limit + 1
         /\ q.mode # "server" => q.query = walk.query
<1>1. walk.state # "new"
      BY DEF WalkInv
<1>2. walk.query \in Query /\ walk.offset \in Nat
      BY <1>1, RunQueriesAssumption DEF TypeOK
<1>3. CASE q.mode = "server"
  <2>1. q.query = PageQuery(walk.query, walk.offset)
        BY <1>3 DEF WalkInv
  <2>2. walk.query.limit # None => walk.query.limit + 1 \in Nat /\ walk.query.limit + 1 # None
        BY <1>2, RunQueriesAssumption DEF Query, Number
  <2>3. q.query.newest_first = TRUE
        BY <1>2, <2>1, PageQueryType, Zenon
  <2>4. q.query \in Query /\ q.query.offset = walk.offset
        BY <1>2, <2>1, PageQueryType, Zenon
  <2>5. q.query.limit = (IF walk.query.limit = None THEN None ELSE walk.query.limit + 1)
        BY <1>2, <2>1, PageQueryLimit
  <2>6. SameWants(q.query, walk.query)
        BY <1>2, <2>1, PageQueryWants
  <2>7. q.query.limit = None <=> walk.query.limit = None
        BY <2>2, <2>5
  <2>8. walk.query.limit # None => q.query.limit = walk.query.limit + 1
        BY <2>5
  <2> QED
        BY <1>2, <1>3, <2>1, <2>3, <2>4, <2>6, <2>7, <2>8, Zenon
<1>4. CASE q.mode # "server"
  <2>1. q.query = walk.query
        BY <1>4 DEF WalkInv
  <2> QED
        BY <1>2, <1>4, <2>1 DEF SameWants
<1> QED
      BY <1>3, <1>4

\* What runs, and rows, there are to see.
LEMMA RunsToSee ==
  ASSUME TypeOK, NEW query
  PROVE  {rec.run : rec \in Current(query)} = WantedBy(query)
<1>1. \A r \in WantedBy(query) : RowOf(heads[r]).run = r
      BY DEF TypeOK, WantedBy, Wanted
<1> QED
      BY <1>1 DEF Current

\* A finished query has read what its page needs.
LEMMA ReadIsComplete ==
  ASSUME LimitInv, q.pc = "read", Finished, q.failed = FALSE, q.query.root = None,
         NEW rec \in planned, UpToPage(q.query, rec)
  PROVE  rec \in q.result
<1>1. DOMAIN q.todo = {} /\ q.running = {}
      BY DEF Finished
<1>2. \A h : ~Waiting(h.seg)
      BY <1>1 DEF Waiting
<1> QED
      BY <1>2 DEF LimitInv, HasPlan

LEMMA RangeOfConcat ==
  ASSUME NEW S, NEW s \in Seq(S), NEW t \in Seq(S)
  PROVE  Range(t) \subseteq Range(s \o t)
<1>1. /\ s \o t \in Seq(S) /\ Len(s \o t) = Len(s) + Len(t)
      /\ \A i \in 1..Len(s) + Len(t) : (s \o t)[i] = IF i =< Len(s) THEN s[i] ELSE t[i - Len(s)]
      BY ConcatProperties
<1>2. /\ DOMAIN t = 1..Len(t) /\ DOMAIN (s \o t) = 1..Len(s) + Len(t)
      /\ Len(s) \in Nat /\ Len(t) \in Nat
      BY <1>1, LenProperties
<1>3. ASSUME NEW i \in 1..Len(t)
      PROVE  Len(s) + i \in 1..Len(s) + Len(t) /\ (s \o t)[Len(s) + i] = t[i]
      BY <1>1, <1>2
<1> QED
      BY <1>2, <1>3 DEF Range

\* A page is added to what the walk has seen.
LEMMA PageEffect ==
  ASSUME TypeOK, TakePage
  PROVE  /\ q.pc = "answered" /\ q.mode = "server" /\ q' = Idle
         /\ walk'.query = walk.query /\ walk'.seen = walk.seen \o Take(q.answer, walk.query.limit)
         /\ \/ /\ walk.query.limit # None /\ Len(q.answer) > walk.query.limit
               /\ walk'.state = walk.state /\ walk'.offset = walk.offset + walk.query.limit
            \/ /\ ~(walk.query.limit # None /\ Len(q.answer) > walk.query.limit)
               /\ walk'.state = "done" /\ walk'.offset = walk.offset
         /\ UNCHANGED <<store, cancelled, history>>
<1>1. walk \in [state : {"new", "walking", "done", "answered", "failed"},
                query : Queries \cup {None}, offset : Nat, seen : Seq(Records)]
      BY DEF TypeOK
<1> DEFINE limit == walk.query.limit
           more == limit # None /\ Len(q.answer) > limit
           seen == walk.seen \o Take(q.answer, limit)
           offset == IF more THEN walk.offset + limit ELSE walk.offset
           state == IF more THEN walk.state ELSE "done"
<1>2. walk' = [walk EXCEPT !.seen = seen, !.offset = offset, !.state = state]
      BY <1>1 DEF TakePage
<1>3. q.pc = "answered" /\ q.mode = "server" /\ q' = Idle /\ UNCHANGED <<store, cancelled, history>>
      BY DEF TakePage
<1> HIDE DEF seen, offset, state
<1>4. /\ walk'.seen = seen /\ walk'.offset = offset /\ walk'.state = state
      /\ walk'.query = walk.query
      BY <1>1, <1>2
<1>5. CASE more
      BY <1>3, <1>4, <1>5 DEF seen, offset, state
<1>6. CASE ~more
      BY <1>3, <1>4, <1>6 DEF seen, offset, state
<1> QED
      BY <1>5, <1>6

LEMMA SteadyKept ==
  ASSUME SteadyInv, segments' = segments, heads' = heads, deletions' = deletions, walk' = walk,
         steady' = steady, q'.query = q.query \/ ~HasPlan',
         HasPlan' => HasPlan /\ planned' = planned /\ steady \cap q'.deleted \subseteq q.deleted,
         q'.pc = "answered" => q.pc = "answered" /\ q'.answer = q.answer
  PROVE  SteadyInv'
<1>1. WantedBy(walk.query)' = WantedBy(walk.query)
      BY WantsStay
<1>2. (walk.state = "walking" /\ HasPlan /\ q.query.limit = None =>
         steady \subseteq {rec.run : rec \in planned} /\ steady \cap q.deleted = {})'
      BY DEF SteadyInv
<1>3. (walk.state = "walking" /\ Unlimited => walk.offset = 0)' /\ UnlimitedAnswersMissNothing'
      BY DEF SteadyInv, Unlimited, UnlimitedAnswersMissNothing
<1>4. (walk.state = "walking" /\ Unlimited /\ q.pc = "answered" =>
         steady \subseteq {rec.run : rec \in Range(q.answer)})'
      BY DEF SteadyInv, Unlimited
<1> QED
      BY <1>1, <1>2, <1>3, <1>4 DEF SteadyInv

\* Runs that match all the time are planned and answered.
LEMMA SteadyStep ==
  ASSUME TypeOK, WalkInv, PlanInv, LimitInv, SteadyInv, [Next]_vars
  PROVE  SteadyInv'
<1>1. /\ q \in QueryState /\ q.rows \subseteq PlacesIn(segments)
      /\ planned \in SUBSET Records
      BY DEF TypeOK, QueryTypeOK
<1>2. q.pc \notin {"idle", "answered"} => walk.state = "walking"
      BY DEF TypeOK, WalkInv
<1>3. CASE QueryMoves
  <2>1. /\ segments' = segments /\ heads' = heads /\ deletions' = deletions /\ walk' = walk
        /\ steady' = steady /\ planned' = planned
        BY <1>3, QueryMovesOnly
  <2>2. CASE Ask
    <3>1. q'.pc \in {"plan", "check"}
          BY <2>2, AskEffect DEF Asked
    <3> QED
          BY <2>1, <3>1, SteadyKept DEF HasPlan
  <2>3. CASE ~Ask
    <3> USE DEF Moves, Sets
    <3>1. CASE Errs \/ Checks \/ Registers \/ Goes
      <4>1. q'.pc \in {"error", "register", "reject", "plan"}
            BY <3>1 DEF Errs, Checks, Registers, Goes
      <4> QED
            BY <2>1, <4>1, SteadyKept DEF HasPlan
    <3>2. CASE Searches \/ Splits \/ Reads \/ Starts \/ Ends
      <4>1. HasPlan /\ q'.query = q.query /\ q'.deleted = q.deleted /\ q'.pc # "answered"
            BY <3>2 DEF Searches, Splits, Reads, Starts, Ends, HasPlan
      <4> QED
            BY <2>1, <4>1, SteadyKept
    <3>3. CASE Loads
      <4>1. /\ HasPlan /\ q'.query = q.query /\ q'.pc # "answered" /\ q.pc # "idle"
            /\ q'.deleted = (IF q.query.include_deleted THEN {} ELSE deletions)
            /\ walk.state = "walking"
            BY <1>2, <3>3 DEF Loads, HasPlan
      <4>2. q.query.include_deleted = walk.query.include_deleted
            BY <4>1, AsksItsWalk DEF SameWants
      <4>3. steady \cap q'.deleted = {}
            BY <4>1, <4>2 DEF SteadyInv, WantedBy, Wanted, Visible
      <4> QED
            BY <2>1, <4>1, <4>3, SteadyKept
    <3>4. CASE Answers
      <4>1. /\ q.pc = "read" /\ q'.pc = "answered" /\ q'.answer = AnswerRows
            /\ Finished /\ q.failed = FALSE
            BY <1>1, <3>4 DEF Answers, QueryState
      <4>2. /\ walk.state = "walking" /\ HasPlan /\ q.result \subseteq planned
            /\ IsFiniteSet(planned) /\ OneRowEach(planned)
            BY <1>2, <4>1 DEF PlanInv, HasPlan
      <4>3. ASSUME Unlimited
            PROVE  steady \subseteq {rec.run : rec \in Range(AnswerRows)}
        <5>1. q.query \in Query /\ q.query.limit = None /\ q.query.root = None /\ q.query.offset = 0
          <6>1. walk.offset = 0 /\ walk.query.offset = 0 /\ walk.query.root = None
                /\ walk.query.limit = None
                BY <4>2, <4>3 DEF SteadyInv, Unlimited
          <6>2. /\ q.query \in Query /\ SameWants(q.query, walk.query) /\ q.query.limit = None
                /\ q.mode = "server" => q.query.offset = walk.offset
                /\ q.mode # "server" => q.query = walk.query
                BY <4>1, <6>1, AsksItsWalk
          <6> QED
                BY <6>1, <6>2 DEF SameWants
        <5>2. Range(AnswerRows) = KeepListed(q.result)
              BY <1>1, <4>2, <5>1, AnswerResult
        <5>3. \A rec \in planned : rec \in q.result
              BY <4>1, <5>1, ReadIsComplete DEF UpToPage
        <5>4. \A rec \in planned : Retained(q.query, rec)
              BY <4>2, <5>1 DEF LimitInv
        <5>5. steady \subseteq {rec.run : rec \in planned} /\ steady \cap q.deleted = {}
              BY <4>2, <5>1 DEF SteadyInv
        <5> QED
              BY <5>2, <5>3, <5>4, <5>5 DEF KeepListed
      <4>4. (walk.state = "walking" /\ Unlimited /\ q.pc = "answered" =>
               steady \subseteq {rec.run : rec \in Range(q.answer)})'
            BY <2>1, <4>1, <4>3 DEF Unlimited
      <4>5. WantedBy(walk.query)' = WantedBy(walk.query)
            BY <2>1, WantsStay
      <4>6. (walk.state = "walking" /\ Unlimited => walk.offset = 0)'
            BY <2>1 DEF SteadyInv, Unlimited
      <4>7. UnlimitedAnswersMissNothing'
            BY <2>1, <4>2 DEF UnlimitedAnswersMissNothing
      <4>8. ~HasPlan'
            BY <4>1 DEF HasPlan
      <4> QED
            BY <2>1, <4>4, <4>5, <4>6, <4>7, <4>8 DEF SteadyInv
    <3> QED
          BY <1>3, <2>3, <3>1, <3>2, <3>3, <3>4, QueryEffects
  <2> QED
        BY <2>2, <2>3
<1>4. CASE Plan
  <2>1. /\ q.pc = "plan" /\ planned' = Current(q.query) /\ (Errs \/ Plans)
        /\ segments' = segments /\ heads' = heads /\ deletions' = deletions /\ walk' = walk
        /\ steady' = steady
        BY <1>4, PlanEffect DEF store
  <2>2. q.pc # "idle" /\ walk.state = "walking"
        BY <1>2, <2>1
  <2>3. steady \subseteq {rec.run : rec \in planned'}
    <3>1. WantedBy(q.query) = WantedBy(walk.query)
          BY <2>2, AsksItsWalk, WantsAgree
    <3>2. {rec.run : rec \in planned'} = WantedBy(q.query)
          BY <2>1, RunsToSee
    <3> QED
          BY <2>2, <3>1, <3>2 DEF SteadyInv
  <2>4. HasPlan' => q'.deleted = {}
        BY <2>1 DEF Errs, Plans, Moves, Sets, HasPlan, WalkInv
  <2>5. q'.pc # "answered"
        BY <2>1 DEF Errs, Plans, Moves, Sets
  <2>6. WantedBy(walk.query)' = WantedBy(walk.query)
        BY <2>1, WantsStay
  <2>7. (walk.state = "walking" /\ HasPlan /\ q.query.limit = None =>
           steady \subseteq {rec.run : rec \in planned} /\ steady \cap q.deleted = {})'
        BY <2>1, <2>3, <2>4
  <2>8. (walk.state = "walking" /\ Unlimited => walk.offset = 0)'
        BY <2>1 DEF SteadyInv, Unlimited
  <2>9. UnlimitedAnswersMissNothing'
        BY <2>1, <2>2 DEF UnlimitedAnswersMissNothing
  <2> QED
        BY <2>1, <2>5, <2>6, <2>7, <2>8, <2>9 DEF SteadyInv
<1>5. CASE TakePage
  <2>1. /\ q.pc = "answered" /\ q.mode = "server" /\ q' = Idle /\ walk'.query = walk.query
        /\ walk'.seen = walk.seen \o Take(q.answer, walk.query.limit)
        /\ walk.query.limit = None => walk'.state = "done"
        /\ walk'.state = "done" \/ walk'.state = walk.state
        /\ segments' = segments /\ heads' = heads /\ deletions' = deletions /\ steady' = steady
        BY <1>5, PageEffect DEF store, history
  <2>2. walk.state = "walking"
        BY <2>1 DEF WalkInv, TypeOK
  <2>3. WantedBy(walk.query)' = WantedBy(walk.query)
        BY <2>1, WantsStay
  <2>4. ~HasPlan' /\ q'.pc # "answered"
        BY <2>1, IdleFields DEF HasPlan
  <2>5. ASSUME Unlimited PROVE steady \subseteq {rec.run : rec \in Range(walk'.seen)}
    <3>1. walk'.seen = walk.seen \o q.answer
          BY <2>1, <2>5 DEF Unlimited, Take
    <3>2. walk.seen \in Seq(Records) /\ q.answer \in Seq(Records)
          BY <1>1 DEF TypeOK, QueryState
    <3>3. Range(q.answer) \subseteq Range(walk'.seen)
          BY <3>1, <3>2, RangeOfConcat
    <3>4. steady \subseteq {rec.run : rec \in Range(q.answer)}
          BY <2>1, <2>2, <2>5 DEF SteadyInv
    <3> QED
          BY <3>3, <3>4
  <2>6. UnlimitedAnswersMissNothing'
        BY <2>1, <2>5 DEF UnlimitedAnswersMissNothing, Unlimited
  <2>7. (walk.state = "walking" /\ Unlimited => walk.offset = 0)'
        BY <2>1 DEF Unlimited
  <2> QED
        BY <2>1, <2>2, <2>3, <2>4, <2>6, <2>7 DEF SteadyInv
<1>6. CASE TakeAnswer \/ TakeError
  <2>1. /\ walk'.query = walk.query
        /\ \/ q.pc = "answered" /\ q' = q /\ walk'.state = "answered" /\ walk'.seen = q.answer
           \/ q' = Idle /\ walk'.state = "failed"
        /\ steady' = steady
    <3>1. CASE TakeAnswer
          BY <3>1, TakeEffect DEF TakeAnswer, history
    <3>2. CASE TakeError
          BY <3>2, TakeEffect DEF TakeError, history
    <3> QED
          BY <1>6, <3>1, <3>2
  <2>2. UnlimitedAnswersMissNothing'
    <3>1. CASE walk'.state = "failed"
          BY <3>1 DEF UnlimitedAnswersMissNothing
    <3>2. CASE q.pc = "answered" /\ walk'.state = "answered" /\ walk'.seen = q.answer
      <4>1. walk.state = "walking" \/ (walk.state = "answered" /\ walk.seen = q.answer)
            BY <3>2 DEF TypeOK, WalkInv
      <4>2. Unlimited => steady \subseteq {rec.run : rec \in Range(q.answer)}
            BY <3>2, <4>1 DEF SteadyInv, Unlimited, UnlimitedAnswersMissNothing
      <4> QED
            BY <2>1, <3>2, <4>2 DEF UnlimitedAnswersMissNothing, Unlimited
    <3> QED
          BY <2>1, <3>1, <3>2
  <2>3. walk'.state # "walking"
        BY <2>1
  <2> QED
        BY <2>2, <2>3 DEF SteadyInv
<1>7. CASE WriteRun \/ DeleteRun \/ Compact \/ CleanUp
  <2>1. /\ q' = q /\ walk' = walk /\ planned' = planned /\ walk.state = "walking"
        /\ steady' = steady \cap WantedBy(walk.query)'
        BY <1>7, ChangesOnly
  <2>2. steady' \subseteq steady /\ steady' \subseteq WantedBy(walk.query)'
        BY <2>1
  <2>3. (walk.state = "walking" /\ HasPlan /\ q.query.limit = None =>
           steady \subseteq {rec.run : rec \in planned} /\ steady \cap q.deleted = {})'
        BY <2>1, <2>2 DEF SteadyInv, HasPlan
  <2>4. (walk.state = "walking" /\ Unlimited => walk.offset = 0)'
        BY <2>1 DEF SteadyInv, Unlimited
  <2>5. (walk.state = "walking" /\ Unlimited /\ q.pc = "answered" =>
           steady \subseteq {rec.run : rec \in Range(q.answer)})'
        BY <2>1, <2>2 DEF SteadyInv, Unlimited
  <2>6. UnlimitedAnswersMissNothing'
        BY <2>1 DEF UnlimitedAnswersMissNothing
  <2> QED
        BY <2>2, <2>3, <2>4, <2>5, <2>6 DEF SteadyInv
<1>8. CASE Schedules
  <2>1. /\ segments' = segments /\ heads' = heads /\ deletions' = deletions /\ walk' = walk
        /\ steady' = steady /\ planned' = planned /\ q'.query = q.query
        /\ q'.deleted = q.deleted /\ q'.pc = q.pc /\ q'.answer = q.answer
        BY <1>8, ScheduleEffect DEF store
  <2> QED
        BY <2>1, SteadyKept DEF HasPlan
<1>9. CASE Cancel \/ UNCHANGED vars
  <2>1. /\ segments' = segments /\ heads' = heads /\ deletions' = deletions /\ walk' = walk
        /\ steady' = steady /\ planned' = planned /\ q' = q
        BY <1>9 DEF Cancel, vars, store
  <2> QED
        BY <2>1, SteadyKept DEF HasPlan
<1>10. CASE BeginWalk
  <2>1. PICK query \in Queries :
          /\ walk' = [walk EXCEPT !.state = "walking", !.query = query, !.offset = query.offset]
          /\ steady' = WantedBy(query)
        BY <1>10 DEF BeginWalk
  <2>2. /\ walk.state = "new" /\ q' = q /\ segments' = segments /\ heads' = heads
        /\ deletions' = deletions
        BY <1>10 DEF BeginWalk, store
  <2>3. walk'.state = "walking" /\ walk'.query = query /\ walk'.offset = query.offset
        BY <2>1 DEF TypeOK
  <2>4. WantedBy(walk.query)' = WantedBy(query)
        BY <2>2, <2>3, WantsStay
  <2>5. ~HasPlan' /\ q'.pc # "answered"
        BY <2>2 DEF WalkInv, HasPlan
  <2>6. (walk.state = "walking" /\ Unlimited => walk.offset = 0)'
        BY <2>3 DEF Unlimited
  <2>7. UnlimitedAnswersMissNothing'
        BY <2>3 DEF UnlimitedAnswersMissNothing
  <2> QED
        BY <2>1, <2>3, <2>4, <2>5, <2>6, <2>7 DEF SteadyInv
<1> QED
      BY <1>3, <1>4, <1>5, <1>6, <1>7, <1>8, <1>9, <1>10, NextCases

(* Quiet stores. *)

LEMMA SameOrder ==
  ASSUME NEW a, NEW b, a.newest_first = b.newest_first, NEW S
  PROVE  InOrder(a, S) = InOrder(b, S)
<1>1. \A x, y : Before(a, x, y) = Before(b, x, y)
      BY DEF Before
<1>2. \A x : Rank(a, x, S) = Rank(b, x, S)
      BY <1>1 DEF Rank
<1> QED
      BY <1>2 DEF InOrder

\* The next page continues what was seen.
LEMMA PageContinues ==
  ASSUME NEW S, NEW all \in Seq(S), NEW off \in 0..Len(all), NEW page \in Seq(S),
         off + Len(page) =< Len(all), \A i \in 1..Len(page) : page[i] = all[off + i]
  PROVE  SubSeq(all, 1, off) \o page = SubSeq(all, 1, off + Len(page))
<1>1. Len(all) \in Nat /\ Len(page) \in Nat
      BY LenProperties
<1> DEFINE seen == SubSeq(all, 1, off)
           more == SubSeq(all, 1, off + Len(page))
<1>2. /\ seen \in Seq(S) /\ Len(seen) = off
      /\ \A i \in 1..off : seen[i] = all[i]
      BY <1>1, SubSeqProperties
<1>3. /\ more \in Seq(S) /\ Len(more) = off + Len(page)
      /\ \A i \in 1..off + Len(page) : more[i] = all[i]
      BY <1>1, SubSeqProperties
<1> HIDE DEF seen, more
<1> DEFINE both == seen \o page
<1>4. /\ both \in Seq(S) /\ Len(both) = off + Len(page)
      /\ \A i \in 1..off + Len(page) : both[i] = IF i =< off THEN seen[i] ELSE page[i - off]
      BY <1>2, ConcatProperties
<1> HIDE DEF both
<1>5. ASSUME NEW i \in 1..off + Len(page) PROVE both[i] = more[i]
  <2>1. i \in Nat /\ off \in Nat
        BY <1>1
  <2>2. CASE i =< off
    <3>1. both[i] = seen[i]
          BY <1>4, <2>2
    <3>2. seen[i] = all[i]
          BY <1>2, <2>1, <2>2
    <3> QED
          BY <1>3, <3>1, <3>2
  <2>3. CASE i > off
    <3>1. i - off \in 1..Len(page) /\ off + (i - off) = i
          BY <1>1, <2>3
    <3>2. page[i - off] = all[i]
          BY <3>1
    <3> QED
          BY <1>1, <1>3, <1>4, <2>3, <3>2
  <2> QED
        BY <2>1, <2>2, <2>3
<1>6. both = more
      BY <1>1, <1>3, <1>4, <1>5, SeqEqual
<1> QED
      BY <1>6 DEF seen, more, both

\* All that a walk may see, newest first, and how much of it the walk has seen.
AllOf(query) == InOrder(PageQuery(query, 0), Current(query))

PagesInv ==
  walk.state # "new" /\ walk.query.root = None /\ walk.query.offset = 0 =>
    /\ walk.state = "walking" => /\ walk.offset =< Len(AllOf(walk.query))
                                 /\ walk.seen = SubSeq(AllOf(walk.query), 1, walk.offset)
    /\ walk.state = "done" => walk.seen = AllOf(walk.query)

QuietPlan ==
  /\ HasPlan \/ q.pc = "answered" => q.deleted = {} /\ planned = Current(q.query)
  /\ q.pc = "answered" /\ q.query.root = None => q.answer = PageDatafusionRuns(q.query, planned)

QuietWalk == walk.state # "new" => steady = WantedBy(walk.query)

LEMMA QuietParts ==
  QuietInv <=> (changes = 0 => deletions = {} /\ QuietPlan /\ QuietWalk /\ PagesInv)
  BY DEF QuietInv, QuietPlan, QuietWalk, PagesInv, AllOf

LEMMA AllStay ==
  ASSUME segments' = segments, heads' = heads, deletions' = deletions
  PROVE  AllOf(walk.query)' = AllOf(walk'.query)
<1>1. Current(walk.query)' = Current(walk'.query)
      BY WantsStay
<1>2. AllOf(walk.query)' = InOrder(PageQuery(walk'.query, 0), Current(walk.query)')
      BY DEF AllOf, InOrder, Rank, Before, PageQuery
<1> QED
      BY <1>1, <1>2 DEF AllOf

LEMMA PageStays == PageDatafusionRuns(q.query, planned)' = PageDatafusionRuns(q'.query, planned')
  BY DEF PageDatafusionRuns, InOrder, Rank, Before, Take

\* A page of a quiet store extends what the walk has seen, up to its end.
LEMMA PagesStep ==
  ASSUME TypeOK, WalkInv, changes = 0, QuietInv, TakePage
  PROVE  PagesInv'
<1>1. /\ q.pc = "answered" /\ q.mode = "server" /\ q' = Idle
      /\ walk'.query = walk.query /\ walk'.seen = walk.seen \o Take(q.answer, walk.query.limit)
      /\ \/ /\ walk.query.limit # None /\ Len(q.answer) > walk.query.limit
            /\ walk'.state = walk.state /\ walk'.offset = walk.offset + walk.query.limit
         \/ /\ ~(walk.query.limit # None /\ Len(q.answer) > walk.query.limit)
            /\ walk'.state = "done" /\ walk'.offset = walk.offset
      /\ segments' = segments /\ heads' = heads /\ deletions' = deletions
      BY PageEffect DEF store
<1>2. walk.state = "walking"
      BY <1>1 DEF WalkInv, TypeOK
<1> SUFFICES ASSUME walk.query.root = None, walk.query.offset = 0
             PROVE  /\ walk'.state = "walking" =>
                         /\ walk'.offset =< Len(AllOf(walk.query))
                         /\ walk'.seen = SubSeq(AllOf(walk.query), 1, walk'.offset)
                    /\ walk'.state = "done" => walk'.seen = AllOf(walk.query)
  <2>1. AllOf(walk.query)' = AllOf(walk.query)
        BY <1>1, AllStay
  <2> QED
        BY <1>1, <2>1 DEF PagesInv
<1> DEFINE C == Current(walk.query)
           all == AllOf(walk.query)
           n == Cardinality(C)
           off == walk.offset
           limit == walk.query.limit
           page == q.answer
<1>3. /\ walk.query \in Query /\ off \in Nat /\ q.query \in Query
      /\ SameWants(q.query, walk.query)
      /\ q.query.offset = off /\ q.query.newest_first = TRUE
      /\ limit = None => q.query.limit = None
      /\ limit # None => q.query.limit = limit + 1 /\ q.query.limit # None
      BY <1>1, AsksItsWalk
<1>4. limit = None \/ limit \in Nat
      BY <1>3 DEF Query, Number
<1>5. /\ q.answer = PageDatafusionRuns(q.query, planned) /\ planned = Current(q.query)
      /\ off =< Len(all) /\ walk.seen = SubSeq(all, 1, off)
  <2>1. QuietPlan /\ PagesInv
        BY QuietParts
  <2>2. q.query.root = None
        BY <1>3 DEF SameWants
  <2> QED
        BY <1>1, <1>2, <2>1, <2>2 DEF QuietPlan, PagesInv
<1>6. Current(q.query) = C
      BY <1>3, WantsAgree
<1>7. C \in SUBSET Records /\ IsFiniteSet(C) /\ OneRowEach(C)
      BY HeadRows
<1>8. all = InOrder(q.query, C)
  <2>1. 0 \in Nat
        OBVIOUS
  <2>2. PageQuery(walk.query, 0).newest_first = TRUE
        BY <1>3, <2>1, PageQueryType, Zenon
  <2>3. PageQuery(walk.query, 0).newest_first = q.query.newest_first
        BY <1>3, <2>2, Zenon
  <2> QED
        BY <2>3, SameOrder DEF AllOf
<1>9. all \in Seq(C) /\ n \in Nat /\ Len(all) = n
      BY <1>7, <1>8, InOrderProperties
<1>10. /\ page \in Seq(C) /\ Len(page) = PageLength(q.query, n)
       /\ \A i \in 1..PageLength(q.query, n) : page[i] = all[off + i]
      BY <1>3, <1>5, <1>6, <1>7, <1>8, PageProperties
<1> HIDE DEF C, all, n, off, limit, page
<1>11. /\ Len(page) \in Nat /\ off + Len(page) =< n
       /\ limit = None => off + Len(page) = n
       /\ limit # None /\ Len(page) =< limit => off + Len(page) = n
  <2>1. off \in Nat /\ n \in Nat /\ off =< n
        BY <1>3, <1>5, <1>9
  <2>2. CASE limit = None
    <3>1. q.query.limit = None
          BY <1>3, <2>2
    <3> QED
          BY <1>3, <1>10, <2>1, <2>2, <3>1 DEF PageLength
  <2>3. CASE limit # None
    <3>1. limit \in Nat /\ q.query.limit = limit + 1 /\ q.query.limit # None
          BY <1>3, <1>4, <2>3
    <3> QED
          BY <1>3, <1>10, <2>1, <2>3, <3>1 DEF PageLength
  <2> QED
        BY <2>2, <2>3
<1>12. off \in 0..Len(all) /\ Len(all) = n
      BY <1>3, <1>5, <1>9
<1>13. \A i \in 1..Len(page) : page[i] = all[off + i]
      BY <1>10
<1>14. CASE limit # None /\ Len(page) > limit
  <2>1. limit \in Nat /\ limit \in Number
        BY <1>4, <1>14 DEF Number
  <2> DEFINE part == Take(page, limit)
  <2>2. part \in Seq(C) /\ Len(part) = limit /\ \A i \in 1..Len(part) : part[i] = page[i]
        BY <1>10, <1>11, <1>14, <2>1, TakeProperties
  <2>3. /\ off + Len(part) =< Len(all)
        /\ \A i \in 1..Len(part) : part[i] = all[off + i]
        BY <1>11, <1>12, <1>13, <1>14, <2>1, <2>2
  <2> HIDE DEF part
  <2>4. SubSeq(all, 1, off) \o part = SubSeq(all, 1, off + Len(part))
        BY <1>9, <1>12, <2>2, <2>3, PageContinues
  <2>5. /\ walk'.state = "walking" /\ walk'.offset = off + limit
        /\ walk'.seen = SubSeq(all, 1, off) \o part
        BY <1>1, <1>2, <1>5, <1>14 DEF limit, page, part, off
  <2> QED
        BY <2>2, <2>3, <2>4, <2>5 DEF all
<1>15. CASE ~(limit # None /\ Len(page) > limit)
  <2>1. Take(page, limit) = page
        BY <1>4, <1>11, <1>15 DEF Take
  <2>2. off + Len(page) = n
        BY <1>4, <1>11, <1>15
  <2>3. SubSeq(all, 1, off) \o page = SubSeq(all, 1, n)
    <3>1. off + Len(page) =< Len(all)
          BY <1>11, <1>12
    <3>2. SubSeq(all, 1, off) \o page = SubSeq(all, 1, off + Len(page))
          BY <1>9, <1>10, <1>12, <1>13, <3>1, PageContinues
    <3> QED
          BY <2>2, <3>2
  <2>4. SubSeq(all, 1, n) = all
        BY <1>9, SubSeqFull
  <2>5. walk'.state = "done" /\ walk'.seen = SubSeq(all, 1, off) \o Take(page, limit)
        BY <1>1, <1>5, <1>15 DEF limit, page
  <2> QED
        BY <2>1, <2>3, <2>4, <2>5 DEF all
<1> QED
      BY <1>14, <1>15

\* Without a change of the store or of the walk, what was seen is as it was.
LEMMA QuietKept ==
  ASSUME QuietInv, changes = 0, segments' = segments, heads' = heads, deletions' = deletions,
         walk' = walk, steady' = steady, QuietPlan'
  PROVE  QuietInv'
<1>1. deletions = {} /\ QuietWalk /\ PagesInv
      BY QuietParts
<1>2. WantedBy(walk.query)' = WantedBy(walk.query) /\ AllOf(walk.query)' = AllOf(walk.query)
      BY WantsStay, AllStay
<1>3. deletions' = {} /\ QuietWalk' /\ PagesInv'
      BY <1>1, <1>2 DEF QuietWalk, PagesInv
<1>4. QuietInv' <=> (changes = 0 => deletions = {} /\ QuietPlan /\ QuietWalk /\ PagesInv)'
      BY DEF QuietInv, QuietPlan, QuietWalk, PagesInv, AllOf
<1> QED
      BY <1>3, <1>4

LEMMA QuietStep ==
  ASSUME TypeOK, WalkInv, PlanInv, LimitInv, QuietInv, [Next]_vars
  PROVE  QuietInv'
<1>1. /\ q \in QueryState /\ planned \in SUBSET Records
      /\ q.pc # "idle" => q.query \in Query
      BY DEF TypeOK, QueryTypeOK
<1>2. ASSUME changes' # 0 PROVE QuietInv'
      BY <1>2 DEF QuietInv
<1>3. CASE WriteRun \/ DeleteRun \/ Compact \/ CleanUp
  <2>1. changes' # 0
        BY <1>3, ChangesOnly DEF TypeOK
  <2> QED
        BY <1>2, <2>1
<1>4. ASSUME QuietPlan, planned' = planned, segments' = segments, heads' = heads,
             deletions' = deletions, q'.query = q.query, q'.deleted = q.deleted,
             HasPlan' => HasPlan, q'.pc = "answered" => q.pc = "answered" /\ q'.answer = q.answer
      PROVE  QuietPlan'
  <2>1. Current(q.query)' = Current(q.query)
        BY <1>4, WantsStay
  <2>2. PageDatafusionRuns(q.query, planned)' = PageDatafusionRuns(q.query, planned)
        BY <1>4, PageStays
  <2> QED
        BY <1>4, <2>1, <2>2 DEF QuietPlan
<1>5. ASSUME q'.pc \notin {"deleted", "search", "split", "read", "answered"}
      PROVE  QuietPlan'
      BY <1>5 DEF QuietPlan, HasPlan
<1>6. CASE QueryMoves /\ changes = 0
  <2>1. /\ segments' = segments /\ heads' = heads /\ deletions' = deletions /\ walk' = walk
        /\ steady' = steady /\ planned' = planned
        BY <1>6, QueryMovesOnly
  <2>2. QuietPlan /\ deletions = {}
        BY <1>6, QuietParts
  <2>3. QuietPlan'
    <3>1. CASE Ask
      <4>1. q'.pc \in {"plan", "check"}
            BY <3>1, AskEffect DEF Asked
      <4> QED
            BY <1>5, <4>1
    <3>2. CASE ~Ask
      <4> USE DEF Moves, Sets
      <4>1. CASE Errs \/ Checks \/ Registers \/ Goes
            BY <1>5, <4>1 DEF Errs, Checks, Registers, Goes
      <4>2. CASE Searches \/ Splits \/ Reads \/ Starts \/ Ends
        <5>1. HasPlan /\ q'.query = q.query /\ q'.deleted = q.deleted /\ q'.pc # "answered"
              BY <4>2 DEF Searches, Splits, Reads, Starts, Ends, HasPlan
        <5> QED
              BY <1>4, <2>1, <2>2, <5>1
      <4>3. CASE Loads
        <5>1. HasPlan /\ q'.query = q.query /\ q'.deleted = {} /\ q'.pc # "answered"
              BY <2>2, <4>3 DEF Loads, HasPlan
        <5>2. q.deleted = {}
              BY <2>2, <5>1 DEF QuietPlan
        <5> QED
              BY <1>4, <2>1, <2>2, <5>1, <5>2
      <4>4. CASE Answers
        <5>1. /\ q.pc = "read" /\ q'.pc = "answered" /\ q'.answer = AnswerRows
              /\ q'.query = q.query /\ q'.deleted = q.deleted /\ Finished /\ q.failed = FALSE
              BY <1>1, <4>4 DEF Answers, QueryState
        <5>2. q.deleted = {} /\ planned = Current(q.query)
              BY <2>2, <5>1 DEF QuietPlan, HasPlan
        <5>3. Current(q.query)' = Current(q.query)
              BY <2>1, <5>1, WantsStay
        <5>4. ASSUME q.query.root = None
              PROVE  AnswerRows = PageDatafusionRuns(q.query, planned)
          <6>1. q.result \subseteq planned /\ IsFiniteSet(planned) /\ OneRowEach(planned)
                BY <5>1 DEF PlanInv, HasPlan
          <6>2. \A rec \in planned : Retained(q.query, rec)
                BY <5>1, <5>4 DEF LimitInv, HasPlan
          <6>3. \A rec \in planned : UpToPage(q.query, rec) => rec \in q.result
                BY <5>1, <5>4, ReadIsComplete
          <6> QED
                BY <1>1, <5>1, <5>2, <6>1, <6>2, <6>3, AnswerResult DEF UpToPage
        <5>5. PageDatafusionRuns(q.query, planned)' = PageDatafusionRuns(q.query, planned)
              BY <2>1, <5>1, PageStays
        <5> QED
              BY <2>1, <5>1, <5>2, <5>3, <5>4, <5>5 DEF QuietPlan
      <4> QED
            BY <1>6, <3>2, <4>1, <4>2, <4>3, <4>4, QueryEffects
    <3> QED
          BY <3>1, <3>2
  <2> QED
        BY <1>6, <2>1, <2>3, QuietKept
<1>7. CASE Plan /\ changes = 0
  <2>1. /\ q.pc = "plan" /\ planned' = Current(q.query) /\ (Errs \/ Plans)
        /\ segments' = segments /\ heads' = heads /\ deletions' = deletions /\ walk' = walk
        /\ steady' = steady
        BY <1>7, PlanEffect DEF store
  <2>2. CASE Errs
    <3>1. QuietPlan'
          BY <1>5, <2>2 DEF Errs, Moves, Sets
    <3> QED
          BY <1>7, <2>1, <3>1, QuietKept
  <2>3. CASE Plans
    <3>1. q'.query = q.query /\ q'.deleted = {} /\ q'.pc # "answered"
          BY <2>1, <2>3 DEF Plans, Sets, WalkInv
    <3>2. Current(q.query)' = Current(q.query)
          BY <2>1, <3>1, WantsStay
    <3>3. QuietPlan'
          BY <2>1, <3>1, <3>2 DEF QuietPlan
    <3> QED
          BY <1>7, <2>1, <3>3, QuietKept
  <2> QED
        BY <2>1, <2>2, <2>3
<1>8. QuietInv' <=> (changes = 0 => deletions = {} /\ QuietPlan /\ QuietWalk /\ PagesInv)'
      BY DEF QuietInv, QuietPlan, QuietWalk, PagesInv, AllOf
<1>9. CASE TakePage /\ changes = 0
  <2>1. /\ q' = Idle /\ walk'.query = walk.query /\ steady' = steady
        /\ q.pc = "answered"
        /\ segments' = segments /\ heads' = heads /\ deletions' = deletions
        BY <1>9, PageEffect DEF store, history
  <2>2. PagesInv'
        BY <1>9, PagesStep
  <2>3. QuietPlan'
        BY <1>5, <2>1, IdleFields
  <2>4. QuietWalk'
    <3>1. WantedBy(walk.query)' = WantedBy(walk.query)
          BY <2>1, WantsStay
    <3>2. QuietWalk /\ walk.state # "new"
          BY <1>9, <2>1, QuietParts DEF WalkInv
    <3> QED
          BY <2>1, <3>1, <3>2 DEF QuietWalk
  <2>5. deletions' = {}
        BY <1>9, <2>1, QuietParts
  <2> QED
        BY <1>8, <2>2, <2>3, <2>4, <2>5
<1>10. CASE (TakeAnswer \/ TakeError) /\ changes = 0
  <2>1. /\ walk'.query = walk.query /\ walk'.state \in {"answered", "failed"}
        /\ (q.pc = "answered" \/ q.pc = "error") /\ (q' = q \/ q' = Idle)
        /\ steady' = steady /\ planned' = planned
        /\ segments' = segments /\ heads' = heads /\ deletions' = deletions
    <3>1. CASE TakeAnswer
          BY <3>1, TakeEffect DEF TakeAnswer, history, store
    <3>2. CASE TakeError
          BY <3>2, TakeEffect DEF TakeError, history, store
    <3> QED
          BY <1>10, <3>1, <3>2
  <2>2. deletions = {} /\ QuietPlan /\ QuietWalk
        BY <1>10, QuietParts
  <2>3. QuietPlan'
    <3>1. CASE q' = q
          BY <1>4, <2>1, <2>2, <3>1 DEF HasPlan
    <3>2. CASE q' = Idle
          BY <1>5, <3>2, IdleFields
    <3> QED
          BY <2>1, <3>1, <3>2
  <2>4. QuietWalk'
    <3>1. WantedBy(walk.query)' = WantedBy(walk.query)
          BY <2>1, WantsStay
    <3>2. walk.state # "new"
          BY <2>1 DEF WalkInv
    <3> QED
          BY <2>1, <2>2, <3>1, <3>2 DEF QuietWalk
  <2>5. PagesInv'
        BY <2>1 DEF PagesInv
  <2> QED
        BY <1>8, <2>1, <2>2, <2>3, <2>4, <2>5
<1>11. CASE BeginWalk /\ changes = 0
  <2>1. PICK query \in Queries :
          /\ walk' = [walk EXCEPT !.state = "walking", !.query = query, !.offset = query.offset]
          /\ steady' = WantedBy(query)
        BY <1>11 DEF BeginWalk
  <2>2. /\ walk.state = "new" /\ q' = q /\ segments' = segments /\ heads' = heads
        /\ deletions' = deletions /\ q.pc = "idle" /\ walk.seen = <<>>
        BY <1>11 DEF BeginWalk, store, WalkInv
  <2>3. /\ walk'.state = "walking" /\ walk'.query = query /\ walk'.offset = query.offset
        /\ walk'.seen = <<>>
        BY <2>1, <2>2 DEF TypeOK
  <2>4. WantedBy(walk.query)' = WantedBy(query) /\ AllOf(walk.query)' = AllOf(query)
        BY <2>2, <2>3, WantsStay, AllStay
  <2>5. QuietPlan'
        BY <1>5, <2>2
  <2>6. QuietWalk'
        BY <2>1, <2>4 DEF QuietWalk
  <2>7. PagesInv'
    <3>1. AllOf(query) \in Seq(Current(query))
      <4>1. Current(query) \in SUBSET Records /\ IsFiniteSet(Current(query))
            /\ OneRowEach(Current(query))
            BY HeadRows
      <4> QED
            BY <4>1, InOrderProperties DEF AllOf
    <3>2. Len(AllOf(query)) \in Nat /\ SubSeq(AllOf(query), 1, 0) = <<>>
      <4>1. Len(AllOf(query)) \in Nat
            BY <3>1, LenProperties
      <4>2. SubSeq(AllOf(query), 1, 0) = <<>>
            BY SubSeqEmpty
      <4> QED
            BY <4>1, <4>2
    <3> QED
          BY <2>3, <2>4, <3>2 DEF PagesInv
  <2>8. deletions' = {}
        BY <1>11, <2>2, QuietParts
  <2> QED
        BY <1>8, <2>5, <2>6, <2>7, <2>8
<1>12. CASE Schedules /\ changes = 0
  <2>1. /\ segments' = segments /\ heads' = heads /\ deletions' = deletions /\ walk' = walk
        /\ steady' = steady /\ planned' = planned /\ q'.query = q.query
        /\ q'.deleted = q.deleted /\ q'.pc = q.pc /\ q'.answer = q.answer
        BY <1>12, ScheduleEffect DEF store
  <2>2. QuietPlan
        BY <1>12, QuietParts
  <2>3. QuietPlan'
        BY <1>4, <2>1, <2>2 DEF HasPlan
  <2> QED
        BY <1>12, <2>1, <2>3, QuietKept
<1>13. CASE (Cancel \/ UNCHANGED vars) /\ changes = 0
  <2>1. /\ segments' = segments /\ heads' = heads /\ deletions' = deletions /\ walk' = walk
        /\ steady' = steady /\ planned' = planned /\ q' = q
        BY <1>13 DEF Cancel, vars, store
  <2>2. QuietPlan
        BY <1>13, QuietParts
  <2>3. QuietPlan'
        BY <1>4, <2>1, <2>2 DEF HasPlan
  <2> QED
        BY <1>13, <2>1, <2>3, QuietKept
<1>14. CASE ~(WriteRun \/ DeleteRun \/ Compact \/ CleanUp) /\ changes # 0
  <2>1. changes' = changes
    <3>1. CASE QueryMoves
          BY <3>1, QueryMovesOnly
    <3>2. CASE BeginWalk \/ Plan \/ TakePage \/ TakeAnswer \/ TakeError
          BY <3>2 DEF BeginWalk, Plan, TakePage, TakeAnswer, TakeError, store
    <3>3. CASE Cancel \/ Schedules \/ UNCHANGED vars
          BY <3>3 DEF Cancel, Schedules, Notify, Suspend, Poll, vars, store
    <3> QED
          BY <1>14, <3>1, <3>2, <3>3, NextCases
  <2> QED
        BY <1>14, <1>2, <2>1
<1> QED
      BY <1>6, <1>7, <1>9, <1>10, <1>11, <1>12, <1>13, <1>14, <1>3, NextCases

(* Results. *)

QueriesInv == TypeOK /\ WalkInv /\ CancelInv /\ PlanInv /\ LimitInv /\ SteadyInv /\ QuietInv

LEMMA QueriesInit == Init => QueriesInv
<1> SUFFICES ASSUME Init PROVE QueriesInv
    OBVIOUS
<1>1. /\ q = Idle /\ walk = [state |-> "new", query |-> None, offset |-> 0, seen |-> <<>>]
      /\ cancelled = FALSE /\ early = FALSE /\ planned = {} /\ deletions = {}
      BY DEF Init
<1>2. /\ q.pc = "idle" /\ q.mode = "server" /\ q.result = {} /\ q.running = {} /\ q.failed = FALSE
      /\ q.notified = FALSE /\ walk.state = "new" /\ walk.seen = <<>>
      BY <1>1, IdleFields
<1>3. WalkInv
      BY <1>2 DEF WalkInv
<1>4. CancelInv
      BY <1>1, <1>2 DEF CancelInv
<1>5. PlanInv
      BY <1>1, <1>2, FS_EmptySet DEF PlanInv, OneRowEach, HasPlan, AnswersComeFromThePlan
<1>6. LimitInv /\ SteadyInv
      BY <1>2 DEF LimitInv, SteadyInv, HasPlan, UnlimitedAnswersMissNothing
<1>7. QuietInv
      BY <1>1, <1>2 DEF QuietInv, HasPlan
<1> QED
      BY <1>3, <1>4, <1>5, <1>6, <1>7, TypeInit DEF QueriesInv

LEMMA QueriesStep == QueriesInv /\ [Next]_vars => QueriesInv'
  BY TypeStep, WalkStep, CancelStep, PlanStep, LimitStep, SteadyStep, QuietStep DEF QueriesInv

LEMMA QueriesAlways == Spec => []QueriesInv
  BY QueriesInit, QueriesStep, PTL DEF Spec

\* Type correctness: a head names a row of its run, and a candidate a row that is
\* there, through writes, deletes, compactions and cleanups (run_heads, load_run_query_plan).
THEOREM TypeSafety == Spec => []TypeOK
<1>1. QueriesInv => TypeOK
      BY DEF QueriesInv
<1> QED
      BY <1>1, QueriesAlways, PTL

\* A query that was cancelled before its last partition or its last poll began gives no
\* answer, however the flag, its test, the registration, the wake-up and the polls
\* interleave with the partitions (list_runs_distributed_with_cancellation).
THEOREM CancelSafety == Spec => []CancelledQueriesGiveNoAnswer
<1>1. QueriesInv => CancelledQueriesGiveNoAnswer
      BY DEF QueriesInv, CancelInv, WalkInv, CancelledQueriesGiveNoAnswer
<1> QED
      BY <1>1, QueriesAlways, PTL

\* Whatever happens to the store between the steps of a query, its answer holds
\* rows that matched when it was planned, in order, once each, up to the limit.
THEOREM PlanSafety == Spec => []AnswersComeFromThePlan
<1>1. QueriesInv => AnswersComeFromThePlan
      BY DEF QueriesInv, PlanInv
<1> QED
      BY <1>1, QueriesAlways, PTL

\* An answer without limit has every run that matched from the beginning of the
\* walk to its end, through rewrites, compactions and cleanups.
THEOREM NothingIsMissed == Spec => []UnlimitedAnswersMissNothing
<1>1. QueriesInv => UnlimitedAnswersMissNothing
      BY DEF QueriesInv, SteadyInv
<1> QED
      BY <1>1, QueriesAlways, PTL

\* In a quiet store the answer is the page of all that matches, however the LIMIT
\* is pushed down and the segments are cut into batches or partitions.
THEOREM PageSafety == Spec => []AnswersAreThePage
<1>1. ASSUME QueriesInv, walk.state = "answered", changes = 0, walk.query.root = None
      PROVE  walk.seen = PageDatafusionRuns(walk.query, Current(walk.query))
  <2>1. q.pc = "answered" /\ walk.seen = q.answer /\ q.query = walk.query
        BY <1>1 DEF QueriesInv, WalkInv
  <2>2. QuietPlan
        BY <1>1, QuietParts DEF QueriesInv
  <2> QED
        BY <1>1, <2>1, <2>2 DEF QuietPlan
<1>2. QueriesInv => AnswersAreThePage
      BY <1>1 DEF AnswersAreThePage, Current
<1> QED
      BY <1>2, QueriesAlways, PTL

\* As many rows as runs.
LEMMA RowsAndRuns ==
  ASSUME TypeOK, NEW query
  PROVE  Cardinality(Current(query)) = Cardinality(WantedBy(query))
<1> DEFINE W == WantedBy(query)
           C == Current(query)
           f == [r \in W |-> RowOf(heads[r])]
<1>1. IsFiniteSet(W)
      BY RunQueriesAssumption, FS_Subset DEF WantedBy
<1>2. \A r \in W : RowOf(heads[r]).run = r /\ RowOf(heads[r]) \in C
      BY DEF TypeOK, WantedBy, Wanted, Current
<1>3. \A rec \in C : \E r \in W : f[r] = rec
      BY DEF Current
<1>4. f \in [W -> C] /\ \A r, t \in W : f[r] = f[t] => r = t
      BY <1>2
<1> HIDE DEF W, C, f
<1>5. f \in Bijection(W, C)
      BY <1>3, <1>4 DEF Bijection, Injection, Surjection, IsInjective
<1> QED
      BY <1>1, <1>5, FS_Bijection DEF ExistsBijection, W, C

\* A client that follows the cursors of a quiet store to the end has seen each run
\* once (query_runs of the LangSmith API).
THEOREM WalkSafety == Spec => []WalksAreComplete
<1>1. ASSUME QueriesInv, walk.state = "done", changes = 0, walk.query.root = None,
             walk.query.offset = 0
      PROVE  /\ {rec.run : rec \in Range(walk.seen)} = steady
             /\ Len(walk.seen) = Cardinality(steady)
  <2>1. TypeOK /\ walk.seen = AllOf(walk.query) /\ steady = WantedBy(walk.query)
        BY <1>1, QuietParts DEF QueriesInv, PagesInv, QuietWalk
  <2>2. /\ Current(walk.query) \in SUBSET Records /\ IsFiniteSet(Current(walk.query))
        /\ OneRowEach(Current(walk.query))
        BY <2>1, HeadRows
  <2>3. /\ Range(walk.seen) = Current(walk.query)
        /\ Len(walk.seen) = Cardinality(Current(walk.query))
        BY <2>1, <2>2, InOrderProperties DEF AllOf
  <2> QED
        BY <2>1, <2>3, RunsToSee, RowsAndRuns
<1>2. QueriesInv => WalksAreComplete
      BY <1>1 DEF WalksAreComplete
<1> QED
      BY <1>2, QueriesAlways, PTL
=============================================================================
