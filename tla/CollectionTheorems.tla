------------------------- MODULE CollectionTheorems -------------------------
(***************************************************************************)
(* Facts about finite collections that several proofs need: the least and  *)
(* the greatest element of a set of numbers, sums over finite sets, parts  *)
(* of sequences, and folds over sequences.                                 *)
(***************************************************************************)
EXTENDS Integers, Sequences, FiniteSets, FiniteSetTheorems, SequenceTheorems, WellFoundedInduction, TLAPS

-----------------------------------------------------------------------------
(* Numbers *)

\* A set of natural numbers that is not empty has a least element.
LEMMA LeastNatural ==
  ASSUME NEW T, T \subseteq Nat, T # {}
  PROVE  \E n \in T : \A k \in T : n <= k
<1>1. PICK n \in T : \A k \in T : ~(<<k, n>> \in OpToRel(<, Nat))
  BY WFMin, NatLessThanWellFounded
<1>2. ASSUME NEW k \in T PROVE n <= k
  <2>1. n \in Nat /\ k \in Nat
    OBVIOUS
  <2>2. ~(k < n)
    BY <1>1, <2>1 DEF OpToRel
  <2> QED BY <2>1, <2>2
<1> QED BY <1>2

\* A set of natural numbers that has a bound and is not empty has a greatest
\* element, which is the one that Max chooses.
LEMMA GreatestNatural ==
  ASSUME NEW bound \in Nat, NEW S, S \subseteq 0..bound, S # {}
  PROVE  /\ (CHOOSE x \in S : \A y \in S : x >= y) \in S
         /\ \A y \in S : (CHOOSE x \in S : \A z \in S : x >= z) >= y
<1> DEFINE T == {n \in Nat : \A x \in S : x <= n}
<1>1. bound \in T
  OBVIOUS
<1>2. PICK n \in T : \A k \in T : n <= k
  <2>1. T \subseteq Nat /\ T # {}
    BY <1>1
  <2> HIDE DEF T
  <2> QED BY <2>1, LeastNatural
<1>3. n \in S
  <2>1. SUFFICES ASSUME n \notin S PROVE FALSE
    OBVIOUS
  <2>2. \A x \in S : x < n /\ x \in Nat
    BY <2>1
  <2>3. n > 0 /\ n \in Nat
    <3>1. PICK x \in S : TRUE
      OBVIOUS
    <3>2. n \in Nat
      OBVIOUS
    <3> QED BY <2>2, <3>1, <3>2
  <2>4. n - 1 \in T
    BY <2>2, <2>3
  <2> QED BY <1>2, <2>3, <2>4
<1>4. \A y \in S : n >= y
  OBVIOUS
<1> DEFINE greatest == CHOOSE x \in S : \A y \in S : x >= y
<1>5. greatest \in S /\ \A y \in S : greatest >= y
  BY <1>3, <1>4
<1> QED BY <1>5

\* Induction up to a bound, over the set of the numbers that something holds of.
LEMMA BoundedInduction ==
  ASSUME NEW n \in Nat, NEW T, 0 \in T, \A k \in 0..(n - 1) : k \in T => k + 1 \in T
  PROVE  \A k \in 0..n : k \in T
<1> DEFINE U == {k \in 0..n : k \notin T}
<1> SUFFICES ASSUME U # {} PROVE FALSE
  OBVIOUS
<1>1. U \subseteq Nat
  OBVIOUS
<1>2. PICK k \in U : \A j \in U : k <= j
  BY <1>1, LeastNatural
<1>3. k \in 0..n /\ k \notin T /\ k # 0
  BY <1>2
<1>4. k - 1 \in 0..(n - 1) /\ k - 1 \in 0..n /\ (k - 1) + 1 = k
  BY <1>3
<1>5. k - 1 \in T
  <2>1. CASE k - 1 \in U
    <3>1. k <= k - 1
      BY <1>2, <2>1
    <3> QED BY <1>3, <3>1
  <2>2. CASE k - 1 \notin U
    BY <1>4, <2>2
  <2> QED BY <2>1, <2>2
<1> QED BY <1>3, <1>4, <1>5

-----------------------------------------------------------------------------
(* Sums over finite sets *)

\* g sums the values of f over each subset of S, whichever element is taken
\* out first.
IsSum(g, f, S) ==
  /\ g \in [SUBSET S -> Nat] /\ g[{}] = 0
  /\ \A s \in SUBSET S : \A x \in s : g[s] = f[x] + g[s \ {x}]

LEMMA EmptySum ==
  ASSUME NEW f PROVE \E g : IsSum(g, f, {})
<1> DEFINE g == [s \in SUBSET {} |-> 0]
<1>1. IsSum(g, f, {})
  BY DEF IsSum
<1> QED BY <1>1

\* A sum can be extended by one element.
LEMMA LargerSum ==
  ASSUME NEW S, NEW f, NEW y, y \notin S, f[y] \in Nat, \A x \in S : f[x] \in Nat, NEW g, IsSum(g, f, S)
  PROVE  \E h : IsSum(h, f, S \cup {y})
<1> DEFINE h == [s \in SUBSET (S \cup {y}) |-> IF y \in s THEN f[y] + g[s \ {y}] ELSE g[s]]
<1>0. g \in [SUBSET S -> Nat] /\ g[{}] = 0 /\ \A s \in SUBSET S : \A x \in s : g[s] = f[x] + g[s \ {x}]
  BY DEF IsSum
<1>1. \A s \in SUBSET (S \cup {y}) : (s \ {y} \in SUBSET S) /\ (y \notin s => s \in SUBSET S)
  OBVIOUS
<1>2. h \in [SUBSET (S \cup {y}) -> Nat]
  BY <1>0, <1>1
<1>3. h[{}] = 0
  BY <1>0
<1>4. ASSUME NEW s \in SUBSET (S \cup {y}), NEW x \in s
      PROVE  h[s] = f[x] + h[s \ {x}]
  <2>0. s \ {x} \in SUBSET (S \cup {y})
    OBVIOUS
  <2>1. CASE x = y
    <3>1. h[s] = f[y] + g[s \ {y}]
      BY <2>1
    <3>2. h[s \ {x}] = g[s \ {y}]
      BY <2>0, <2>1
    <3> QED BY <2>1, <3>1, <3>2
  <2>2. CASE x # y /\ y \in s
    <3>1. h[s] = f[y] + g[s \ {y}]
      BY <2>2
    <3>2. h[s \ {x}] = f[y] + g[(s \ {x}) \ {y}]
      BY <2>0, <2>2
    <3>3. (s \ {x}) \ {y} = (s \ {y}) \ {x} /\ s \ {y} \in SUBSET S /\ x \in s \ {y}
      BY <2>2
    <3>4. g[s \ {y}] = f[x] + g[(s \ {y}) \ {x}]
      BY <1>0, <3>3
    <3>5. f[x] \in Nat /\ g[(s \ {y}) \ {x}] \in Nat
      BY <1>0, <2>2, <3>3
    <3> DEFINE a == h[s]  b == h[s \ {x}]  c == g[s \ {y}]  d == g[(s \ {y}) \ {x}]
    <3>6. a = f[y] + c /\ b = f[y] + d /\ c = f[x] + d
      BY <3>1, <3>2, <3>3, <3>4
    <3>7. f[x] \in Nat /\ f[y] \in Nat /\ d \in Nat
      BY <3>5
    <3> HIDE DEF a, b, c, d, h
    <3>8. a = f[x] + b
      BY <3>6, <3>7
    <3> QED BY <3>8 DEF a, b
  <2>3. CASE y \notin s
    <3>1. s \in SUBSET S /\ h[s] = g[s] /\ h[s \ {x}] = g[s \ {x}]
      BY <2>0, <2>3
    <3> QED BY <1>0, <3>1
  <2> QED BY <2>1, <2>2, <2>3
<1>5. IsSum(h, f, S \cup {y})
  BY <1>2, <1>3, <1>4 DEF IsSum
<1> QED BY <1>5

\* Every function on a finite set has its sums.
LEMMA SumsExist ==
  ASSUME NEW S, IsFiniteSet(S), NEW f, \A x \in S : f[x] \in Nat
  PROVE  \E g : IsSum(g, f, S)
<1> DEFINE T == {n \in Nat : \E s \in SUBSET S : Cardinality(s) = n /\ ~\E g : IsSum(g, f, s)}
<1>1. SUFFICES T = {}
  <2>1. Cardinality(S) \in Nat
    BY FS_CardinalityType
  <2> QED BY <1>1, <2>1
<1>2. SUFFICES ASSUME T # {} PROVE FALSE
  OBVIOUS
<1>3. PICK n \in T : \A k \in T : n <= k
  BY <1>2, LeastNatural
<1>4. PICK s \in SUBSET S : Cardinality(s) = n /\ ~\E g : IsSum(g, f, s)
  BY <1>3
<1>5. IsFiniteSet(s)
  BY FS_Subset
<1>6. s # {}
  BY <1>4, EmptySum
<1>7. PICK y \in s : TRUE
  BY <1>6
<1>8. IsFiniteSet(s \ {y}) /\ Cardinality(s \ {y}) = n - 1
  BY <1>4, <1>5, <1>7, FS_RemoveElement
<1>9. Cardinality(s \ {y}) \in Nat
  BY <1>8, FS_CardinalityType
<1>10. Cardinality(s \ {y}) \notin T
  BY <1>3, <1>8, <1>9
<1>11. PICK g : IsSum(g, f, s \ {y})
  BY <1>9, <1>10
<1>12. \E h : IsSum(h, f, (s \ {y}) \cup {y})
  BY <1>11, LargerSum
<1>13. (s \ {y}) \cup {y} = s
  BY <1>7
<1> QED BY <1>4, <1>12, <1>13

\* What a fold over sets is defined by: an element is chosen and taken out.
Folds(h, f, S) ==
  h = [s \in SUBSET S |-> IF s = {} THEN 0
                          ELSE f[CHOOSE x \in s : TRUE] + h[s \ {CHOOSE x \in s : TRUE}]]

LEMMA SumFolds ==
  ASSUME NEW S, NEW f, NEW g, IsSum(g, f, S) PROVE Folds(g, f, S)
<1>0. g \in [SUBSET S -> Nat] /\ g[{}] = 0 /\ \A s \in SUBSET S : \A x \in s : g[s] = f[x] + g[s \ {x}]
  BY DEF IsSum
<1>1. ASSUME NEW s \in SUBSET S, s # {}
      PROVE  g[s] = f[CHOOSE x \in s : TRUE] + g[s \ {CHOOSE x \in s : TRUE}]
  <2>1. (CHOOSE x \in s : TRUE) \in s
    BY <1>1
  <2> QED BY <1>0, <2>1
<1> DEFINE G == [s \in SUBSET S |-> IF s = {} THEN 0
                          ELSE f[CHOOSE x \in s : TRUE] + g[s \ {CHOOSE x \in s : TRUE}]]
<1>2. \A s \in SUBSET S : g[s] = G[s]
  BY <1>0, <1>1
<1>3. g = G
  BY <1>0, <1>2
<1> QED BY <1>3 DEF Folds

\* The fold is the sum.
LEMMA FoldIsSum ==
  ASSUME NEW S, IsFiniteSet(S), NEW f, NEW g, IsSum(g, f, S), NEW h, Folds(h, f, S)
  PROVE  h[S] = g[S]
<1>0. Folds(g, f, S)
  BY SumFolds
<1> DEFINE T == {n \in Nat : \E s \in SUBSET S : Cardinality(s) = n /\ h[s] # g[s]}
<1>1. SUFFICES T = {}
  <2>1. Cardinality(S) \in Nat
    BY FS_CardinalityType
  <2> QED BY <1>1, <2>1
<1>2. SUFFICES ASSUME T # {} PROVE FALSE
  OBVIOUS
<1>3. PICK n \in T : \A k \in T : n <= k
  BY <1>2, LeastNatural
<1>4. PICK s \in SUBSET S : Cardinality(s) = n /\ h[s] # g[s]
  BY <1>3
<1>5. IsFiniteSet(s)
  BY FS_Subset
<1>6. s # {}
  <2>1. h[{}] = 0 /\ g[{}] = 0
    BY <1>0 DEF Folds
  <2> QED BY <1>4, <2>1
<1> DEFINE y == CHOOSE x \in s : TRUE
<1>7. y \in s
  BY <1>6
<1>8. h[s] = f[y] + h[s \ {y}] /\ g[s] = f[y] + g[s \ {y}]
  BY <1>0, <1>6 DEF Folds
<1> HIDE DEF y
<1>9. IsFiniteSet(s \ {y}) /\ Cardinality(s \ {y}) = n - 1
  BY <1>4, <1>5, <1>7, FS_RemoveElement
<1>10. Cardinality(s \ {y}) \in Nat
  BY <1>9, FS_CardinalityType
<1>11. Cardinality(s \ {y}) \notin T
  <2>1. n \in Nat
    BY <1>3
  <2> DEFINE c == Cardinality(s \ {y})
  <2>2. c = n - 1
    BY <1>9
  <2>3. c \in T => n <= c
    BY <1>3
  <2> HIDE DEF c, T
  <2>4. c \notin T
    BY <2>1, <2>2, <2>3
  <2> QED BY <2>4 DEF c
<1>12. h[s \ {y}] = g[s \ {y}]
  BY <1>10, <1>11
<1> QED BY <1>4, <1>8, <1>12

\* The sum of f over S, as the folds of the community modules compute it.
Total(f, S) == (CHOOSE h : Folds(h, f, S))[S]

\* It is the sum over each subset of the set it is taken of.
LEMMA TotalIsSum ==
  ASSUME NEW S, IsFiniteSet(S), NEW f, NEW g, IsSum(g, f, S), NEW s \in SUBSET S
  PROVE  Total(f, s) = g[s]
<1>0. g \in [SUBSET S -> Nat] /\ g[{}] = 0 /\ \A z \in SUBSET S : \A x \in z : g[z] = f[x] + g[z \ {x}]
  BY DEF IsSum
<1> DEFINE part == [z \in SUBSET s |-> g[z]]
<1>1. IsSum(part, f, s)
  <2>1. part \in [SUBSET s -> Nat] /\ part[{}] = 0
    BY <1>0
  <2>2. ASSUME NEW z \in SUBSET s, NEW x \in z PROVE part[z] = f[x] + part[z \ {x}]
    <3>1. z \in SUBSET S /\ z \ {x} \in SUBSET s
      OBVIOUS
    <3> QED BY <1>0, <3>1
  <2> HIDE DEF part
  <2> QED BY <2>1, <2>2 DEF IsSum
<1>2. part[s] = g[s]
  OBVIOUS
<1> HIDE DEF part
<1>3. Folds(part, f, s)
  BY <1>1, SumFolds
<1>4. Folds((CHOOSE h : Folds(h, f, s)), f, s)
  BY <1>3
<1>5. IsFiniteSet(s)
  BY FS_Subset
<1>6. (CHOOSE h : Folds(h, f, s))[s] = part[s]
  BY <1>1, <1>4, <1>5, FoldIsSum
<1> QED BY <1>2, <1>6 DEF Total

\* A fold that takes the values of f, however it writes them, is the total.
LEMMA FoldIsTotal ==
  ASSUME NEW S, IsFiniteSet(S), NEW f, \A x \in S : f[x] \in Nat, NEW h, Folds(h, f, S)
  PROVE  h[S] = Total(f, S)
<1>1. PICK g : IsSum(g, f, S)
  BY SumsExist
<1>2. h[S] = g[S]
  BY <1>1, FoldIsSum
<1>3. Total(f, S) = g[S]
  BY <1>1, TotalIsSum
<1> QED BY <1>2, <1>3

\* A sum is the sum over a part of the set plus the sum over the rest.
LEMMA SumSplits ==
  ASSUME NEW S, IsFiniteSet(S), NEW f, NEW g, IsSum(g, f, S), \A x \in S : f[x] \in Nat, NEW s \in SUBSET S
  PROVE  g[S] = g[s] + g[S \ s]
<1>0. g \in [SUBSET S -> Nat] /\ g[{}] = 0 /\ \A z \in SUBSET S : \A x \in z : g[z] = f[x] + g[z \ {x}]
  BY DEF IsSum
<1> DEFINE Bad(z) == z \in SUBSET S /\ g[S] # g[z] + g[S \ z]
           T == {n \in Nat : \E z \in SUBSET S : Cardinality(z) = n /\ Bad(z)}
<1>1. SUFFICES T = {}
  <2>1. IsFiniteSet(s)
    BY FS_Subset
  <2>2. Cardinality(s) \in Nat
    BY <2>1, FS_CardinalityType
  <2> QED BY <1>1, <2>2
<1>2. SUFFICES ASSUME T # {} PROVE FALSE
  OBVIOUS
<1>3. PICK n \in T : \A k \in T : n <= k
  BY <1>2, LeastNatural
<1>4. PICK z \in SUBSET S : Cardinality(z) = n /\ Bad(z)
  BY <1>3
<1>5. IsFiniteSet(z)
  BY FS_Subset
<1>6. z # {}
  <2>1. g[S] \in Nat /\ S \ {} = S
    BY <1>0
  <2>2. g[S] = g[{}] + g[S \ {}]
    BY <1>0, <2>1
  <2> QED BY <1>4, <2>2
<1>7. PICK y \in z : TRUE
  BY <1>6
<1>8. IsFiniteSet(z \ {y}) /\ Cardinality(z \ {y}) = n - 1
  BY <1>4, <1>5, <1>7, FS_RemoveElement
<1>9. Cardinality(z \ {y}) \in Nat
  BY <1>8, FS_CardinalityType
<1>10. Cardinality(z \ {y}) \notin T
  <2>1. n \in Nat
    BY <1>3
  <2> DEFINE c == Cardinality(z \ {y})
  <2>2. c = n - 1 /\ (c \in T => n <= c)
    BY <1>3, <1>8
  <2> HIDE DEF c, T
  <2>3. c \notin T
    BY <2>1, <2>2
  <2> QED BY <2>3 DEF c
<1>11. g[S] = g[z \ {y}] + g[S \ (z \ {y})]
  BY <1>9, <1>10
<1>12. g[z] = f[y] + g[z \ {y}]
  BY <1>0, <1>7
<1>13. g[S \ (z \ {y})] = f[y] + g[S \ z]
  <2> DEFINE rest == S \ (z \ {y})
  <2>1. rest \in SUBSET S /\ y \in rest /\ rest \ {y} = S \ z
    BY <1>7
  <2> HIDE DEF rest
  <2>2. g[rest] = f[y] + g[rest \ {y}]
    BY <1>0, <2>1
  <2>3. g[rest] = f[y] + g[S \ z]
    BY <2>1, <2>2
  <2> QED BY <2>3 DEF rest
<1>14. f[y] \in Nat /\ g[z \ {y}] \in Nat /\ g[S \ z] \in Nat
  BY <1>0, <1>7
<1>15. g[S] = g[z] + g[S \ z]
  BY <1>11, <1>12, <1>13, <1>14
<1> QED BY <1>4, <1>15

\* The same of totals, which are natural numbers.
LEMMA TotalSplits ==
  ASSUME NEW S, IsFiniteSet(S), NEW f, \A x \in S : f[x] \in Nat, NEW s \in SUBSET S
  PROVE  /\ Total(f, S) \in Nat /\ Total(f, s) \in Nat /\ Total(f, S \ s) \in Nat
         /\ Total(f, S) = Total(f, s) + Total(f, S \ s)
<1>1. PICK g : IsSum(g, f, S)
  BY SumsExist
<1>2. g \in [SUBSET S -> Nat]
  BY <1>1 DEF IsSum
<1>3. S \in SUBSET S /\ S \ s \in SUBSET S
  OBVIOUS
<1>4. Total(f, S) = g[S] /\ Total(f, s) = g[s] /\ Total(f, S \ s) = g[S \ s]
  BY <1>1, <1>3, TotalIsSum
<1>5. g[S] = g[s] + g[S \ s]
  <2>1. IsFiniteSet(S) /\ IsSum(g, f, S) /\ s \in SUBSET S
    BY <1>1
  <2>2. \A x \in S : f[x] \in Nat
    OBVIOUS
  <2>3. \A r \in SUBSET S : g[S] = g[r] + g[S \ r]
    BY <2>1, <2>2, SumSplits
  <2> QED BY <2>1, <2>3
<1> QED BY <1>2, <1>3, <1>4, <1>5

\* Nothing sums up to nothing.
LEMMA EmptyTotal ==
  ASSUME NEW f PROVE Total(f, {}) = 0
<1>1. PICK g : IsSum(g, f, {})
  BY EmptySum
<1>2. IsFiniteSet({})
  BY FS_EmptySet
<1>3. Total(f, {}) = g[{}]
  BY <1>1, <1>2, TotalIsSum
<1> QED BY <1>1, <1>3 DEF IsSum

\* A total depends on the values in its set only.
LEMMA TotalsAgree ==
  ASSUME NEW S, IsFiniteSet(S), NEW f, \A x \in S : f[x] \in Nat, NEW e, \A x \in S : e[x] = f[x]
  PROVE  Total(e, S) = Total(f, S)
<1>1. PICK g : IsSum(g, f, S)
  BY SumsExist
<1>2. IsSum(g, e, S)
  BY <1>1 DEF IsSum
<1>3. S \in SUBSET S
  OBVIOUS
<1> QED BY <1>1, <1>2, <1>3, TotalIsSum

-----------------------------------------------------------------------------
(* Parts of sequences *)

\* The first elements of a sequence.
LEMMA FirstElements ==
  ASSUME NEW S, NEW a \in Seq(S), NEW n \in 0..Len(a)
  PROVE  /\ SubSeq(a, 1, n) \in Seq(S) /\ Len(SubSeq(a, 1, n)) = n
         /\ \A i \in 1..n : SubSeq(a, 1, n)[i] = a[i]
<1>1. n \in Int /\ \A i \in 1..n : a[i] \in S
  BY LenProperties
<1>2. /\ SubSeq(a, 1, n) \in Seq(S)
      /\ Len(SubSeq(a, 1, n)) = IF 1 <= n THEN n - 1 + 1 ELSE 0
      /\ \A i \in 1..(n - 1 + 1) : SubSeq(a, 1, n)[i] = a[1 + i - 1]
  BY <1>1, SubSeqProperties
<1>3. n - 1 + 1 = n /\ (IF 1 <= n THEN n - 1 + 1 ELSE 0) = n /\ \A i \in 1..n : 1 + i - 1 = i
  BY <1>1, LenProperties
<1> QED BY <1>2, <1>3

\* Those of two sequences are the same.
LEMMA SameStart ==
  ASSUME NEW S, NEW a \in Seq(S), NEW b \in Seq(S), NEW n \in Nat, n <= Len(a), n <= Len(b),
         \A i \in 1..n : a[i] = b[i]
  PROVE  SubSeq(a, 1, n) = SubSeq(b, 1, n)
<1>1. n \in 0..Len(a) /\ n \in 0..Len(b)
  BY LenProperties
<1>2. PICK x : x = SubSeq(a, 1, n)
  OBVIOUS
<1>3. PICK y : y = SubSeq(b, 1, n)
  OBVIOUS
<1>5. x \in Seq(S) /\ Len(x) = n /\ \A i \in 1..n : x[i] = a[i]
  BY <1>1, <1>2, FirstElements
<1>6. y \in Seq(S) /\ Len(y) = n /\ \A i \in 1..n : y[i] = b[i]
  BY <1>1, <1>3, FirstElements
<1>4. x = y
  BY <1>5, <1>6, SeqEqual
<1> QED BY <1>2, <1>3, <1>4

LEMMA WholeSequence ==
  ASSUME NEW S, NEW a \in Seq(S)
  PROVE  SubSeq(a, 1, Len(a)) = a
<1>1. Len(a) \in 0..Len(a)
  BY LenProperties
<1>2. PICK x : x = SubSeq(a, 1, Len(a))
  OBVIOUS
<1>3. x \in Seq(S) /\ Len(x) = Len(a) /\ \A i \in 1..Len(a) : x[i] = a[i]
  BY <1>1, <1>2, FirstElements
<1> QED BY <1>2, <1>3, SeqEqual

\* The elements of two sequences that are joined.
LEMMA JoinFacts ==
  ASSUME NEW S, NEW s \in Seq(S), NEW t \in Seq(S)
  PROVE  /\ s \o t \in Seq(S) /\ Len(s \o t) = Len(s) + Len(t)
         /\ \A i \in 1..(Len(s) + Len(t)) : (s \o t)[i] = IF i <= Len(s) THEN s[i] ELSE t[i - Len(s)]
BY ConcatProperties

-----------------------------------------------------------------------------
(* Folds over sequences, element by element *)

Greatest(S) == CHOOSE x \in S : \A y \in S : x >= y

\* The greatest element of a set of indices.
LEMMA GreatestIndex ==
  ASSUME NEW n \in Nat, NEW d \in SUBSET (1..n), d # {}
  PROVE  Greatest(d) \in d /\ \A i \in d : i <= Greatest(d)
<1> DEFINE T == {n - i : i \in d}
<1>1. T \subseteq Nat /\ T # {}
  <2>1. \A i \in d : i \in 1..n
    OBVIOUS
  <2>2. \A i \in 1..n : n - i \in Nat
    OBVIOUS
  <2> QED BY <2>1, <2>2
<1>2. PICK k \in T : \A j \in T : k <= j
  BY <1>1, LeastNatural
<1>3. PICK x \in d : k = n - x
  BY <1>2
<1>4. \A y \in d : x >= y
  <2>1. ASSUME NEW y \in d PROVE x >= y
    <3>1. n - y \in T
      OBVIOUS
    <3>2. k <= n - y
      BY <1>2, <3>1
    <3>3. x \in 1..n /\ y \in 1..n
      OBVIOUS
    <3> HIDE DEF T
    <3> QED BY <1>3, <3>2, <3>3
  <2> QED BY <2>1
<1>5. \E z \in d : \A y \in d : z >= y
  BY <1>4
<1>6. Greatest(d) \in d /\ \A y \in d : Greatest(d) >= y
  BY <1>5 DEF Greatest
<1>7. ASSUME NEW i \in d PROVE i <= Greatest(d)
  <2> DEFINE m == Greatest(d)
  <2>1. i \in 1..n /\ m \in d /\ m >= i
    BY <1>6
  <2>2. m \in 1..n
    BY <2>1
  <2> HIDE DEF m
  <2>3. i <= m
    BY <2>1, <2>2
  <2> QED BY <2>3 DEF m
<1> QED BY <1>6, <1>7

\* The first indices of a sequence.
LEMMA FirstIndices ==
  ASSUME NEW n \in Nat, NEW k \in 0..(n - 1)
  PROVE  /\ 1..(k + 1) \in SUBSET (1..n) /\ 1..(k + 1) # {}
         /\ Greatest(1..(k + 1)) = k + 1 /\ (1..(k + 1)) \ {k + 1} = 1..k
<1>1. 1..(k + 1) \in SUBSET (1..n) /\ k + 1 \in 1..(k + 1) /\ (1..(k + 1)) \ {k + 1} = 1..k
  OBVIOUS
<1>2. Greatest(1..(k + 1)) \in 1..(k + 1) /\ k + 1 <= Greatest(1..(k + 1))
  BY <1>1, GreatestIndex
<1>3. Greatest(1..(k + 1)) = k + 1
  BY <1>2
<1> QED BY <1>1, <1>3

\* g folds the elements of s with op, from the first to the last.
FoldsTo(g, n, s, op, b, B) ==
  /\ g \in [SUBSET (1..n) -> B] /\ g[{}] = b
  /\ \A d \in SUBSET (1..n) : d # {} => g[d] = op[<<g[d \ {Greatest(d)}], s[Greatest(d)]>>]

\* The same for the sets of at most k indices.
FoldsUpTo(g, k, n, s, op, b, B) ==
  /\ g \in [SUBSET (1..n) -> B] /\ g[{}] = b
  /\ \A d \in SUBSET (1..n) : d # {} /\ Cardinality(d) <= k => g[d] = op[<<g[d \ {Greatest(d)}], s[Greatest(d)]>>]

LEMMA OneMoreIndex ==
  ASSUME NEW n \in Nat, NEW M, NEW s \in [1..n -> M], NEW B, NEW b \in B, NEW op \in [B \X M -> B],
         NEW k \in Nat, NEW g, FoldsUpTo(g, k, n, s, op, b, B)
  PROVE  \E h : FoldsUpTo(h, k + 1, n, s, op, b, B)
<1> DEFINE h == [d \in SUBSET (1..n) |-> IF d = {} THEN b ELSE op[<<g[d \ {Greatest(d)}], s[Greatest(d)]>>]]
<1>0. /\ g \in [SUBSET (1..n) -> B] /\ g[{}] = b
      /\ \A d \in SUBSET (1..n) : d # {} /\ Cardinality(d) <= k => g[d] = op[<<g[d \ {Greatest(d)}], s[Greatest(d)]>>]
  BY DEF FoldsUpTo
<1>1. ASSUME NEW d \in SUBSET (1..n), d # {}
      PROVE  /\ Greatest(d) \in d /\ Greatest(d) \in 1..n /\ d \ {Greatest(d)} \in SUBSET (1..n)
             /\ op[<<g[d \ {Greatest(d)}], s[Greatest(d)]>>] \in B
  <2>1. Greatest(d) \in d /\ Greatest(d) \in 1..n /\ d \ {Greatest(d)} \in SUBSET (1..n)
    BY <1>1, GreatestIndex
  <2>2. g[d \ {Greatest(d)}] \in B /\ s[Greatest(d)] \in M
    BY <1>0, <2>1
  <2> QED BY <2>1, <2>2
<1>2. h \in [SUBSET (1..n) -> B] /\ h[{}] = b
  BY <1>1
<1>3. ASSUME NEW d \in SUBSET (1..n), d # {}, Cardinality(d) <= k + 1
      PROVE  h[d] = op[<<h[d \ {Greatest(d)}], s[Greatest(d)]>>]
  <2> DEFINE e == d \ {Greatest(d)}
  <2>1. h[d] = op[<<g[e], s[Greatest(d)]>>]
    BY <1>3
  <2>2. e \in SUBSET (1..n) /\ Greatest(d) \in d
    BY <1>1, <1>3
  <2>3. Cardinality(e) <= k
    <3>1. IsFiniteSet(1..n)
      BY FS_Interval
    <3>2. IsFiniteSet(d)
      BY <3>1, FS_Subset
    <3>3. Cardinality(e) = Cardinality(d) - 1 /\ Cardinality(d) \in Nat
      BY <2>2, <3>2, FS_RemoveElement, FS_CardinalityType
    <3> HIDE DEF e
    <3> QED BY <1>3, <3>3
  <2>4. h[e] = g[e]
    <3>1. CASE e = {}
      BY <1>0, <1>2, <3>1
    <3>2. CASE e # {}
      <4>1. h[e] = op[<<g[e \ {Greatest(e)}], s[Greatest(e)]>>]
        BY <2>2, <3>2
      <4>2. g[e] = op[<<g[e \ {Greatest(e)}], s[Greatest(e)]>>]
        BY <1>0, <2>2, <2>3, <3>2
      <4> QED BY <4>1, <4>2
    <3> QED BY <3>1, <3>2
  <2> QED BY <2>1, <2>4
<1>4. FoldsUpTo(h, k + 1, n, s, op, b, B)
  BY <1>2, <1>3 DEF FoldsUpTo
<1> QED BY <1>4

\* Every typed operation has its fold.
LEMMA FoldExists ==
  ASSUME NEW n \in Nat, NEW M, NEW s \in [1..n -> M], NEW B, NEW b \in B, NEW op \in [B \X M -> B]
  PROVE  \E g : FoldsTo(g, n, s, op, b, B)
<1> DEFINE T == {k \in Nat : \E g : FoldsUpTo(g, k, n, s, op, b, B)}
<1>0. \A d \in SUBSET (1..n) : IsFiniteSet(d) /\ Cardinality(d) \in Nat /\ Cardinality(d) <= n
                               /\ (d # {} => Cardinality(d) # 0)
  <2>1. IsFiniteSet(1..n) /\ Cardinality(1..n) = n
    <3>1. IsFiniteSet(1..n) /\ Cardinality(1..n) = IF 1 > n THEN 0 ELSE n - 1 + 1
      BY FS_Interval
    <3> QED BY <3>1
  <2>2. ASSUME NEW d \in SUBSET (1..n)
        PROVE  IsFiniteSet(d) /\ Cardinality(d) \in Nat /\ Cardinality(d) <= n /\ (d # {} => Cardinality(d) # 0)
    <3>1. IsFiniteSet(d) /\ Cardinality(d) <= Cardinality(1..n)
      BY <2>1, FS_Subset
    <3>2. Cardinality(d) \in Nat /\ (Cardinality(d) = 0 <=> d = {})
      BY <3>1, FS_CardinalityType, FS_EmptySet
    <3> QED BY <2>1, <3>1, <3>2
  <2> QED BY <2>2
<1>1. 0 \in T
  <2> DEFINE g == [d \in SUBSET (1..n) |-> b]
  <2>1. FoldsUpTo(g, 0, n, s, op, b, B)
    <3>1. \A d \in SUBSET (1..n) : d # {} => ~(Cardinality(d) <= 0)
      BY <1>0
    <3> QED BY <3>1 DEF FoldsUpTo
  <2> QED BY <2>1
<1>2. \A k \in 0..(n - 1) : k \in T => k + 1 \in T
  <2>1. ASSUME NEW k \in 0..(n - 1), k \in T PROVE k + 1 \in T
    <3>1. k \in Nat /\ k + 1 \in Nat
      OBVIOUS
    <3>2. PICK g : FoldsUpTo(g, k, n, s, op, b, B)
      BY <2>1
    <3>3. \E h : FoldsUpTo(h, k + 1, n, s, op, b, B)
      BY <3>1, <3>2, OneMoreIndex
    <3> QED BY <3>1, <3>3
  <2> QED BY <2>1
<1> HIDE DEF T
<1>3. n \in T
  <2>1. \A k \in 0..n : k \in T
    BY <1>1, <1>2, BoundedInduction
  <2>2. n \in 0..n
    OBVIOUS
  <2> QED BY <2>1, <2>2
<1>4. PICK g : FoldsUpTo(g, n, n, s, op, b, B)
  BY <1>3 DEF T
<1>5. FoldsTo(g, n, s, op, b, B)
  BY <1>0, <1>4 DEF FoldsTo, FoldsUpTo
<1> QED BY <1>5
=============================================================================
