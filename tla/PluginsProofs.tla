----------------------------- MODULE PluginsProofs -----------------------------
(***************************************************************************)
(* Proofs about MCPlugins, whose components move side by side: the groups  *)
(* and the verdicts of the TypeScript checker, for any mutants, any project*)
(* and any graph of imports (the groups are made by folds over sequences;  *)
(* CollectionTheorems says what a fold is); the runs of the command runner,*)
(* for any mutants; those of the karma runner, for any number of runs and  *)
(* of browsers that are lost; and the verdicts of the plugins, for any     *)
(* tests and any mutants in them.                                          *)
(***************************************************************************)
EXTENDS MCPlugins, CollectionTheorems, TLAPS

-----------------------------------------------------------------------------
(* The two folds of the checker *)

\* Taking mutants out of a sequence, one element at a time.
TakesOut(h, n, s, X) ==
  /\ h[0] = << >> /\ h[n] = Without(s, X)
  /\ \A k \in 0..(n - 1) : h[k + 1] = IF s[k + 1] \in X THEN h[k] ELSE Append(h[k], s[k + 1])

LEMMA WithoutSteps ==
  ASSUME NEW n \in Nat, NEW M, NEW s \in [1..n -> M], NEW X
  PROVE  \E h : TakesOut(h, n, s, X)
<1> DEFINE op == [p \in Seq(M) \X M |-> IF p[2] \in X THEN p[1] ELSE Append(p[1], p[2])]
           F(i, t) == IF t = {} THEN << >> ELSE IF s[Greatest(t)] \in X THEN i[t \ {Greatest(t)}] ELSE Append(i[t \ {Greatest(t)}], s[Greatest(t)])
           iter == CHOOSE i : i = [t \in SUBSET (1..n) |-> F(i, t)]
           h == [k \in 0..n |-> iter[1..k]]
<1>1. DOMAIN s = 1..n
  OBVIOUS
<1>2. Without(s, X) = iter[1..n]
  BY <1>1 DEF Without, FoldLeft, MapThenFoldSet, Max, Greatest
<1>3. \E i : i = [t \in SUBSET (1..n) |-> F(i, t)]
  <2>1. \A p \in Seq(M) \X M : (IF p[2] \in X THEN p[1] ELSE Append(p[1], p[2])) \in Seq(M)
    <3>1. ASSUME NEW p \in Seq(M) \X M PROVE Append(p[1], p[2]) \in Seq(M) /\ p[1] \in Seq(M)
      <4>1. p[1] \in Seq(M) /\ p[2] \in M
        OBVIOUS
      <4> QED BY <4>1
    <3> QED BY <3>1
  <2>2. op \in [Seq(M) \X M -> Seq(M)] /\ << >> \in Seq(M)
    BY <2>1
  <2> HIDE DEF op
  <2>3. PICK g : FoldsTo(g, n, s, op, << >>, Seq(M))
    BY <2>2, FoldExists
  <2>4. g \in [SUBSET (1..n) -> Seq(M)] /\ g[{}] = << >>
    BY <2>3 DEF FoldsTo
  <2>5. ASSUME NEW t \in SUBSET (1..n), t # {} PROVE g[t] = F(g, t)
    <3>1. g[t] = op[<<g[t \ {Greatest(t)}], s[Greatest(t)]>>]
      BY <2>3, <2>5 DEF FoldsTo
    <3>2. Greatest(t) \in 1..n /\ t \ {Greatest(t)} \in SUBSET (1..n)
      BY <2>5, GreatestIndex
    <3>3. g[t \ {Greatest(t)}] \in Seq(M) /\ s[Greatest(t)] \in M
      BY <2>4, <3>2
    <3>4. \A a \in Seq(M), b \in M : op[<<a, b>>] = IF b \in X THEN a ELSE Append(a, b)
      BY DEF op
    <3> QED BY <2>5, <3>1, <3>3, <3>4
  <2>6. \A t \in SUBSET (1..n) : g[t] = F(g, t)
    BY <2>4, <2>5
  <2>7. g = [t \in SUBSET (1..n) |-> F(g, t)]
    BY <2>4, <2>6
  <2> QED BY <2>7
<1>4. iter = [t \in SUBSET (1..n) |-> F(iter, t)]
  BY <1>3
<1> HIDE DEF iter
<1>5. h[0] = << >> /\ h[n] = Without(s, X)
  <2>1. 1..0 = {} /\ 1..0 \in SUBSET (1..n) /\ 0 \in 0..n /\ n \in 0..n
    OBVIOUS
  <2>2. iter[1..0] = << >>
    BY <1>4, <2>1
  <2> QED BY <1>2, <2>1, <2>2
<1>6. ASSUME NEW k \in 0..(n - 1)
      PROVE  h[k + 1] = IF s[k + 1] \in X THEN h[k] ELSE Append(h[k], s[k + 1])
  <2>1. 1..(k + 1) \in SUBSET (1..n) /\ 1..(k + 1) # {} /\ Greatest(1..(k + 1)) = k + 1 /\ (1..(k + 1)) \ {k + 1} = 1..k
    BY FirstIndices
  <2>2. iter[1..(k + 1)] = IF s[k + 1] \in X THEN iter[1..k] ELSE Append(iter[1..k], s[k + 1])
    <3>1. iter[1..(k + 1)] = F(iter, 1..(k + 1))
      BY <1>4, <2>1
    <3> QED BY <2>1, <3>1
  <2>3. k \in 0..n /\ k + 1 \in 0..n
    OBVIOUS
  <2> QED BY <2>2, <2>3
<1> HIDE DEF h
<1>7. TakesOut(h, n, s, X)
  BY <1>5, <1>6 DEF TakesOut
<1> QED BY <1>7

\* A sequence that is longer by one.
LEMMA AppendFacts ==
  ASSUME NEW M, NEW q \in Seq(M), NEW x \in M
  PROVE  /\ Append(q, x) \in Seq(M) /\ Len(Append(q, x)) = Len(q) + 1 /\ Append(q, x) # << >>
         /\ \A i \in 1..Len(q) : Append(q, x)[i] = q[i]
         /\ Append(q, x)[Len(q) + 1] = x
         /\ Range(Append(q, x)) = Range(q) \cup {x}
<1>1. /\ Append(q, x) \in Seq(M) /\ Len(Append(q, x)) = Len(q) + 1 /\ Append(q, x) # << >>
      /\ \A i \in 1..Len(q) : Append(q, x)[i] = q[i]
      /\ Append(q, x)[Len(q) + 1] = x
      /\ Len(q) \in Nat /\ DOMAIN q = 1..Len(q) /\ DOMAIN Append(q, x) = 1..(Len(q) + 1)
  OBVIOUS
<1> DEFINE a == Append(q, x)
<1> HIDE DEF a
<1>2. Range(a) = Range(q) \cup {x}
  <2>1. \A y \in Range(a) : y \in Range(q) \cup {x}
    <3>1. ASSUME NEW i \in DOMAIN a PROVE a[i] \in Range(q) \cup {x}
      <4>1. i \in 1..Len(q) \/ i = Len(q) + 1
        BY <1>1 DEF a
      <4> QED BY <1>1, <4>1 DEF a, Range
    <3> QED BY <3>1 DEF Range
  <2>2. \A y \in Range(q) : y \in Range(a)
    <3>1. ASSUME NEW i \in DOMAIN q PROVE q[i] \in Range(a)
      <4>1. i \in DOMAIN a /\ a[i] = q[i]
        BY <1>1 DEF a
      <4> QED BY <4>1 DEF Range
    <3> QED BY <3>1 DEF Range
  <2>3. x \in Range(a)
    <3>1. Len(q) + 1 \in DOMAIN a /\ a[Len(q) + 1] = x
      BY <1>1 DEF a
    <3> QED BY <3>1 DEF Range
  <2> QED BY <2>1, <2>2, <2>3
<1> QED BY <1>1, <1>2 DEF a

\* No two elements of a sequence are the same.
AllDiffer(q) == \A a, b \in 1..Len(q) : a # b => q[a] # q[b]

\* What is left is what was there and is not taken out.
LEMMA WithoutFacts ==
  ASSUME NEW M, NEW s \in Seq(M), NEW X
  PROVE  /\ Without(s, X) \in Seq(M)
         /\ Range(Without(s, X)) = Range(s) \ X
         /\ AllDiffer(s) => AllDiffer(Without(s, X))
<1> DEFINE n == Len(s)
<1>1. n \in Nat /\ s \in [1..n -> M] /\ DOMAIN s = 1..n
  OBVIOUS
<1> HIDE DEF n
<1>0. PICK h : TakesOut(h, n, s, X)
  BY <1>1, WithoutSteps
<1>2. /\ h[0] = << >> /\ h[n] = Without(s, X)
      /\ \A k \in 0..(n - 1) : h[k + 1] = IF s[k + 1] \in X THEN h[k] ELSE Append(h[k], s[k + 1])
  BY <1>0 DEF TakesOut
<1> DEFINE Good(k) == /\ h[k] \in Seq(M) /\ Range(h[k]) = {s[i] : i \in 1..k} \ X
                      /\ AllDiffer(s) => AllDiffer(h[k])
           T == {k \in 0..n : Good(k)}
<1>3. 0 \in T
  <2>1. 0 \in 0..n /\ 1..0 = {}
    BY <1>1
  <2>2. << >> \in Seq(M) /\ Range(<< >>) = {} /\ AllDiffer(<< >>)
    BY DEF Range, AllDiffer
  <2> QED BY <1>2, <2>1, <2>2
<1>4. ASSUME NEW k \in 0..(n - 1), k \in T PROVE k + 1 \in T
  <2>1. k + 1 \in 0..n /\ k + 1 \in 1..n /\ 1..(k + 1) = (1..k) \cup {k + 1}
    BY <1>1
  <2>2. s[k + 1] \in M
    BY <1>1, <2>1
  <2>3. {s[i] : i \in 1..(k + 1)} = {s[i] : i \in 1..k} \cup {s[k + 1]}
    BY <2>1
  <2>4. Good(k)
    BY <1>4
  <2>5. CASE s[k + 1] \in X
    <3>1. h[k + 1] = h[k]
      BY <1>2, <2>5
    <3> QED BY <2>1, <2>3, <2>4, <2>5, <3>1
  <2>6. CASE s[k + 1] \notin X
    <3>1. h[k + 1] = Append(h[k], s[k + 1])
      BY <1>2, <2>6
    <3>2. h[k + 1] \in Seq(M) /\ Range(h[k + 1]) = Range(h[k]) \cup {s[k + 1]}
      BY <2>2, <2>4, <3>1, AppendFacts
    <3>3. Range(h[k + 1]) = {s[i] : i \in 1..(k + 1)} \ X
      BY <2>3, <2>4, <2>6, <3>2
    <3>4. ASSUME AllDiffer(s) PROVE AllDiffer(h[k + 1])
      <4> DEFINE q == h[k]
                 l == Len(q)
      <4>1. /\ q \in Seq(M) /\ AllDiffer(q) /\ Range(q) = {s[i] : i \in 1..k} \ X /\ l \in Nat
        BY <2>4, <3>4
      <4>2. Len(h[k + 1]) = l + 1 /\ h[k + 1][l + 1] = s[k + 1] /\ \A i \in 1..l : h[k + 1][i] = q[i]
        BY <2>2, <3>1, <4>1, AppendFacts
      <4>3. \A i \in 1..l : q[i] # s[k + 1]
        <5>1. ASSUME NEW i \in 1..l, q[i] = s[k + 1] PROVE FALSE
          <6>1. q[i] \in Range(q)
            BY <4>1 DEF Range
          <6>2. PICK j \in 1..k : s[j] = s[k + 1]
            BY <4>1, <5>1, <6>1
          <6>3. j \in 1..n /\ j # k + 1
            BY <1>1, <2>1
          <6> QED BY <2>1, <3>4, <6>2, <6>3 DEF AllDiffer, n
        <5> QED BY <5>1
      <4>4. \A i \in 1..(l + 1) : i \in 1..l \/ i = l + 1
        BY <4>1
      <4> HIDE DEF q, l
      <4>5. ASSUME NEW a \in 1..(l + 1), NEW b \in 1..(l + 1), a # b PROVE h[k + 1][a] # h[k + 1][b]
        <5>1. CASE a \in 1..l /\ b \in 1..l
          BY <4>1, <4>2, <4>5, <5>1 DEF AllDiffer, l
        <5>2. CASE a \in 1..l /\ b = l + 1
          BY <4>2, <4>3, <5>2
        <5>3. CASE b \in 1..l /\ a = l + 1
          BY <4>2, <4>3, <5>3
        <5> QED BY <4>4, <4>5, <5>1, <5>2, <5>3
      <4> QED BY <4>2, <4>5 DEF AllDiffer
    <3> QED BY <2>1, <3>2, <3>3, <3>4
  <2> QED BY <2>5, <2>6
<1>5. n \in T
  <2> HIDE DEF T
  <2>1. \A k \in 0..n : k \in T
    BY <1>1, <1>3, <1>4, BoundedInduction
  <2>2. n \in 0..n
    BY <1>1
  <2> QED BY <2>1, <2>2
<1>6. {s[i] : i \in 1..n} = Range(s)
  BY <1>1 DEF Range
<1> QED BY <1>2, <1>5, <1>6

\* Neither file depends on the other one, and they are not the same.
Independent(m, g) == Home(m) \notin Parents(Home(g)) /\ Home(g) \notin Parents(Home(m))

FitsIn(m, group) == \A g \in Range(group) : Independent(m, g)

\* Putting mutants in a group, one at a time.
PutsIn(h, n, s) ==
  /\ h[0] = << >> /\ h[n] = NextGroup(s)
  /\ \A k \in 0..(n - 1) : h[k + 1] = IF FitsIn(s[k + 1], h[k]) THEN Append(h[k], s[k + 1]) ELSE h[k]

LEMMA NextGroupSteps ==
  ASSUME NEW n \in Nat, NEW M, NEW s \in [1..n -> M]
  PROVE  \E h : PutsIn(h, n, s)
<1> DEFINE op == [p \in Seq(M) \X M |-> IF FitsIn(p[2], p[1]) THEN Append(p[1], p[2]) ELSE p[1]]
           F(i, t) == IF t = {} THEN << >> ELSE IF FitsIn(s[Greatest(t)], i[t \ {Greatest(t)}]) THEN Append(i[t \ {Greatest(t)}], s[Greatest(t)]) ELSE i[t \ {Greatest(t)}]
           iter == CHOOSE i : i = [t \in SUBSET (1..n) |-> F(i, t)]
           h == [k \in 0..n |-> iter[1..k]]
<1>1. DOMAIN s = 1..n
  OBVIOUS
<1>2. NextGroup(s) = iter[1..n]
  BY <1>1 DEF NextGroup, FoldLeft, MapThenFoldSet, FitsIn, Independent, Max, Greatest
<1> HIDE DEF FitsIn
<1>3. \E i : i = [t \in SUBSET (1..n) |-> F(i, t)]
  <2>1. \A p \in Seq(M) \X M : (IF FitsIn(p[2], p[1]) THEN Append(p[1], p[2]) ELSE p[1]) \in Seq(M)
    <3>1. ASSUME NEW p \in Seq(M) \X M PROVE Append(p[1], p[2]) \in Seq(M) /\ p[1] \in Seq(M)
      <4>1. p[1] \in Seq(M) /\ p[2] \in M
        OBVIOUS
      <4> QED BY <4>1
    <3> QED BY <3>1
  <2>2. op \in [Seq(M) \X M -> Seq(M)] /\ << >> \in Seq(M)
    BY <2>1
  <2> HIDE DEF op
  <2>3. PICK g : FoldsTo(g, n, s, op, << >>, Seq(M))
    BY <2>2, FoldExists
  <2>4. g \in [SUBSET (1..n) -> Seq(M)] /\ g[{}] = << >>
    BY <2>3 DEF FoldsTo
  <2>5. ASSUME NEW t \in SUBSET (1..n), t # {} PROVE g[t] = F(g, t)
    <3>1. g[t] = op[<<g[t \ {Greatest(t)}], s[Greatest(t)]>>]
      BY <2>3, <2>5 DEF FoldsTo
    <3>2. Greatest(t) \in 1..n /\ t \ {Greatest(t)} \in SUBSET (1..n)
      BY <2>5, GreatestIndex
    <3>3. g[t \ {Greatest(t)}] \in Seq(M) /\ s[Greatest(t)] \in M
      BY <2>4, <3>2
    <3>4. \A a \in Seq(M), b \in M : op[<<a, b>>] = IF FitsIn(b, a) THEN Append(a, b) ELSE a
      BY DEF op
    <3> QED BY <2>5, <3>1, <3>3, <3>4
  <2>6. \A t \in SUBSET (1..n) : g[t] = F(g, t)
    BY <2>4, <2>5
  <2>7. g = [t \in SUBSET (1..n) |-> F(g, t)]
    BY <2>4, <2>6
  <2> QED BY <2>7
<1>4. iter = [t \in SUBSET (1..n) |-> F(iter, t)]
  BY <1>3
<1> HIDE DEF iter
<1>5. h[0] = << >> /\ h[n] = NextGroup(s)
  <2>1. 1..0 = {} /\ 1..0 \in SUBSET (1..n) /\ 0 \in 0..n /\ n \in 0..n
    OBVIOUS
  <2>2. iter[1..0] = << >>
    BY <1>4, <2>1
  <2> QED BY <1>2, <2>1, <2>2
<1>6. ASSUME NEW k \in 0..(n - 1)
      PROVE  h[k + 1] = IF FitsIn(s[k + 1], h[k]) THEN Append(h[k], s[k + 1]) ELSE h[k]
  <2>1. 1..(k + 1) \in SUBSET (1..n) /\ 1..(k + 1) # {} /\ Greatest(1..(k + 1)) = k + 1 /\ (1..(k + 1)) \ {k + 1} = 1..k
    BY FirstIndices
  <2>2. iter[1..(k + 1)] = IF FitsIn(s[k + 1], iter[1..k]) THEN Append(iter[1..k], s[k + 1]) ELSE iter[1..k]
    <3>1. iter[1..(k + 1)] = F(iter, 1..(k + 1))
      BY <1>4, <2>1
    <3> QED BY <2>1, <3>1
  <2>3. k \in 0..n /\ k + 1 \in 0..n
    OBVIOUS
  <2> QED BY <2>2, <2>3
<1> HIDE DEF h
<1>7. PutsIn(h, n, s)
  BY <1>5, <1>6 DEF PutsIn
<1> QED BY <1>7

\* A file depends on itself, in the words of the code.
LEMMA ParentsSelf ==
  ASSUME NEW f
  PROVE  f \in Parents(f)
BY DEF Parents

\* Any two of a sequence of mutants are independent, so they are in different files.
AllIndependent(q) == \A a, b \in 1..Len(q) : a # b => Independent(q[a], q[b])

\* What fits in a group keeps it independent.
LEMMA OneMoreFits ==
  ASSUME NEW M, NEW q \in Seq(M), NEW x \in M, AllIndependent(q), FitsIn(x, q)
  PROVE  AllIndependent(Append(q, x))
<1> DEFINE r == Append(q, x)
           l == Len(q)
<1>1. r \in Seq(M) /\ Len(r) = l + 1 /\ r[l + 1] = x /\ \A i \in 1..l : r[i] = q[i]
  BY AppendFacts
<1>2. l \in Nat /\ DOMAIN q = 1..l
  OBVIOUS
<1>3. \A i \in 1..l : Independent(x, q[i]) /\ Independent(q[i], x)
  <2>1. ASSUME NEW i \in 1..l PROVE Independent(x, q[i])
    <3>1. q[i] \in Range(q)
      BY <1>2 DEF Range
    <3> QED BY <3>1 DEF FitsIn
  <2> QED BY <2>1 DEF Independent
<1>4. \A i \in 1..(l + 1) : i \in 1..l \/ i = l + 1
  BY <1>2
<1>5. \A a, b \in 1..l : a # b => Independent(q[a], q[b])
  BY DEF AllIndependent
<1> HIDE DEF r, l
<1>6. ASSUME NEW a \in 1..(l + 1), NEW b \in 1..(l + 1), a # b PROVE Independent(r[a], r[b])
  <2>1. CASE a \in 1..l /\ b \in 1..l
    BY <1>1, <1>5, <1>6, <2>1
  <2>2. CASE a \in 1..l /\ b = l + 1
    BY <1>1, <1>3, <2>2
  <2>3. CASE b \in 1..l /\ a = l + 1
    BY <1>1, <1>3, <2>3
  <2> QED BY <1>4, <1>6, <2>1, <2>2, <2>3
<1>7. AllIndependent(r)
  BY <1>1, <1>6 DEF AllIndependent
<1> QED BY <1>7 DEF r

\* A group takes some of the mutants, and any two of them are independent.
LEMMA NextGroupFacts ==
  ASSUME NEW M, NEW s \in Seq(M), s # << >>
  PROVE  /\ NextGroup(s) \in Seq(M) /\ NextGroup(s) # << >>
         /\ Range(NextGroup(s)) \subseteq Range(s)
         /\ AllIndependent(NextGroup(s))
<1> DEFINE n == Len(s)
<1>1. n \in Nat /\ s \in [1..n -> M] /\ DOMAIN s = 1..n /\ n # 0
  OBVIOUS
<1> HIDE DEF n
<1>0. PICK h : PutsIn(h, n, s)
  BY <1>1, NextGroupSteps
<1>2. /\ h[0] = << >> /\ h[n] = NextGroup(s)
      /\ \A k \in 0..(n - 1) : h[k + 1] = IF FitsIn(s[k + 1], h[k]) THEN Append(h[k], s[k + 1]) ELSE h[k]
  BY <1>0 DEF PutsIn
<1> DEFINE Good(k) == /\ h[k] \in Seq(M) /\ Range(h[k]) \subseteq Range(s) /\ AllIndependent(h[k])
                      /\ k # 0 => h[k] # << >>
           T == {k \in 0..n : Good(k)}
<1>3. 0 \in T
  <2>1. 0 \in 0..n
    BY <1>1
  <2>2. << >> \in Seq(M) /\ Range(<< >>) = {} /\ AllIndependent(<< >>)
    BY DEF Range, AllIndependent
  <2> QED BY <1>2, <2>1, <2>2
<1>4. ASSUME NEW k \in 0..(n - 1), k \in T PROVE k + 1 \in T
  <2>1. k + 1 \in 0..n /\ k + 1 \in 1..n /\ k + 1 # 0
    BY <1>1
  <2>2. s[k + 1] \in M /\ s[k + 1] \in Range(s)
    BY <1>1, <2>1 DEF Range
  <2>3. Good(k)
    BY <1>4
  <2>4. CASE FitsIn(s[k + 1], h[k])
    <3>1. h[k + 1] = Append(h[k], s[k + 1])
      BY <1>2, <2>4
    <3>2. h[k + 1] \in Seq(M) /\ Range(h[k + 1]) = Range(h[k]) \cup {s[k + 1]} /\ h[k + 1] # << >>
      BY <2>2, <2>3, <3>1, AppendFacts
    <3>3. AllIndependent(h[k + 1])
      BY <2>2, <2>3, <2>4, <3>1, OneMoreFits
    <3> QED BY <2>1, <2>2, <2>3, <3>2, <3>3
  <2>5. CASE ~FitsIn(s[k + 1], h[k])
    <3>1. h[k + 1] = h[k]
      BY <1>2, <2>5
    <3>2. k # 0
      <4>1. FitsIn(s[k + 1], << >>)
        BY DEF FitsIn, Range
      <4> QED BY <1>2, <2>5, <4>1
    <3> QED BY <2>1, <2>3, <3>1, <3>2
  <2> QED BY <2>4, <2>5
<1>5. n \in T
  <2> HIDE DEF T
  <2>1. \A k \in 0..n : k \in T
    BY <1>1, <1>3, <1>4, BoundedInduction
  <2>2. n \in 0..n
    BY <1>1
  <2> QED BY <2>1, <2>2
<1> QED BY <1>1, <1>2, <1>5

-----------------------------------------------------------------------------
(* The invariant *)

TypesOK ==
  /\ project.home \in [MutantSet -> TsFiles \cup {OtherFile}]
  /\ project.errors \in [MutantSet -> SUBSET (TsFiles \cup {OtherFile})]
  /\ project.fast \in BOOLEAN
  /\ tsStage \in {"init", "group", "check", "done", "rejected"}
  /\ ungrouped \in Seq(MutantSet) /\ groups \in Seq(Seq(MutantSet)) /\ alone \in Seq(MutantSet)
  /\ compiled \in [TsFiles -> MutantSet \cup {"original"}]
  /\ verdicts \in [MutantSet -> {"none", "Passed", "CompileError"}]

\* A mutant outside the project is not compiled.
OutsidersCompile == \A m \in MutantSet : ~InProject(m) => project.errors[m] = {}

InGroups(m) == \E i \in 1..Len(groups) : m \in Range(groups[i])

\* A mutant that is still to be compiled is not a compile error yet, and the
\* compiler has not just seen it.
Open(m) == verdicts[m] # "CompileError" /\ \A f \in TsFiles : compiled[f] # m

WaitingAreOpen ==
  /\ \A m \in Range(ungrouped) : Open(m)
  /\ \A i \in 1..Len(groups) : \A m \in Range(groups[i]) : Open(m)
  /\ \A m \in Range(alone) : Open(m)

\* A mutant waits in one place.
PlacesAreDisjoint ==
  /\ \A i, j \in 1..Len(groups) : i # j => Range(groups[i]) \cap Range(groups[j]) = {}
  /\ \A i \in 1..Len(groups) : Range(groups[i]) \cap Range(ungrouped) = {}
  /\ \A i \in 1..Len(groups) : Range(groups[i]) \cap Range(alone) = {}
  /\ AllDiffer(alone)

\* What group() makes.
GroupIsSound(g) ==
  /\ g # << >>
  /\ ~project.fast => Len(g) = 1
  /\ \/ Len(g) = 1
     \/ \A m \in Range(g) : ~InProject(m)
     \/ AllIndependent(g) /\ \A m \in Range(g) : InProject(m)

GroupsAreSound == \A i \in 1..Len(groups) : GroupIsSound(groups[i])

StagesAreRight ==
  /\ tsStage = "init" => /\ groups = << >> /\ ungrouped = << >> /\ compiled = Original
                         /\ verdicts = [m \in MutantSet |-> "none"]
  /\ tsStage = "group" => ungrouped # << >>
  /\ tsStage \in {"init", "group"} => alone = << >>
  /\ tsStage \in {"check", "done"} => ungrouped = << >>
  /\ tsStage = "done" => groups = << >> /\ alone = << >>

\* Errors only show in files that depend on the mutated one.
Local == \A m \in MutantSet : InProject(m) => project.errors[m] \subseteq Parents(Home(m))

Judged(m) == (verdicts[m] = "CompileError") = (project.errors[m] # {})

\* Who does not wait has been judged.
OthersAreJudged ==
  (~project.fast \/ Local) /\ tsStage \in {"group", "check", "done"} =>
    \A m \in MutantSet : m \in Range(ungrouped) \/ InGroups(m) \/ m \in Range(alone) \/ Judged(m)

CheckInv ==
  /\ TypesOK /\ OutsidersCompile /\ WaitingAreOpen /\ PlacesAreDisjoint
  /\ GroupsAreSound /\ StagesAreRight /\ OthersAreJudged

\* As long as the project stays, so does what follows from it.
LEMMA SameProject ==
  ASSUME project' = project
  PROVE  /\ \A m : Home(m)' = Home(m)
         /\ \A f : Parents(f)' = Parents(f)
<1>1. \A m : Home(m)' = Home(m)
  BY DEF Home
<1>2. ASSUME NEW f PROVE Parents(f)' = Parents(f)
  BY DEF Parents
<1> QED BY <1>1, <1>2

LEMMA SameGroups ==
  ASSUME project' = project
  PROVE  /\ Local' <=> Local
         /\ \A m : InProject(m)' <=> InProject(m)
         /\ \A q : AllIndependent(q)' <=> AllIndependent(q)
         /\ \A q : GroupIsSound(q)' <=> GroupIsSound(q)
<1>1. \A m : InProject(m)' <=> InProject(m)
  BY DEF InProject, Home
<1>2. \A q : AllIndependent(q)' <=> AllIndependent(q)
  BY SameProject DEF AllIndependent, Independent
<1>3. Local' <=> Local
  BY <1>1, SameProject DEF Local
<1>4. \A q : GroupIsSound(q)' <=> GroupIsSound(q)
  BY <1>1, <1>2 DEF GroupIsSound
<1> QED BY <1>1, <1>2, <1>3, <1>4

LEMMA InitCheck ==
  ASSUME InputIsSound, TsInit
  PROVE  CheckInv
<1>1. /\ project = [imports |-> {}, home |-> [m \in MutantSet |-> OtherFile],
                    errors |-> [m \in MutantSet |-> {}], fast |-> FALSE]
      /\ tsStage = "init" /\ ungrouped = << >> /\ groups = << >> /\ alone = << >>
      /\ compiled = [f \in TsFiles |-> "original"]
      /\ verdicts = [m \in MutantSet |-> "none"]
  BY DEF TsInit, Original
<1>2. TypesOK /\ OutsidersCompile
  BY <1>1 DEF TypesOK, OutsidersCompile
<1>3. Range(<< >>) = {} /\ Len(<< >>) = 0
  BY DEF Range
<1>4. WaitingAreOpen /\ PlacesAreDisjoint /\ GroupsAreSound
  BY <1>1, <1>3 DEF WaitingAreOpen, PlacesAreDisjoint, GroupsAreSound, AllDiffer
<1>5. StagesAreRight /\ OthersAreJudged
  BY <1>1 DEF StagesAreRight, OthersAreJudged, Original
<1> QED BY <1>2, <1>4, <1>5 DEF CheckInv

LEMMA InitCompilerStep ==
  ASSUME InputIsSound, CheckInv, InitCompiler
  PROVE  CheckInv'
<1>1. /\ tsStage = "init" /\ tsStage' \in {"group", "rejected"}
      /\ project'.home \in [MutantSet -> TsFiles \cup {OtherFile}]
      /\ project'.errors \in [MutantSet -> {{}} \cup {{f} : f \in TsFiles \cup {OtherFile}}]
      /\ project'.fast \in BOOLEAN
      /\ \A m \in MutantSet : project'.home[m] = OtherFile => project'.errors[m] = {}
      /\ ungrouped' = TsMutants /\ groups' = groups /\ alone' = alone /\ compiled' = compiled /\ verdicts' = verdicts
  BY DEF InitCompiler, Order
<1>2. /\ groups = << >> /\ alone = << >> /\ compiled = [f \in TsFiles |-> "original"]
      /\ verdicts = [m \in MutantSet |-> "none"]
  BY <1>1 DEF CheckInv, StagesAreRight, Original
<1>3. /\ TsMutants \in Seq(MutantSet) /\ TsMutants # << >> /\ "original" \notin MutantSet
      /\ MutantSet = Range(TsMutants)
  BY DEF InputIsSound, MutantSet
<1>4. TypesOK'
  <2>1. project'.errors \in [MutantSet -> SUBSET (TsFiles \cup {OtherFile})]
    BY <1>1
  <2> QED BY <1>1, <1>2, <1>3, <2>1 DEF TypesOK, CheckInv
<1>5. OutsidersCompile'
  BY <1>1 DEF OutsidersCompile, InProject, Home
<1>6. Range(<< >>) = {} /\ Len(<< >>) = 0
  BY DEF Range
<1>7. WaitingAreOpen' /\ PlacesAreDisjoint' /\ GroupsAreSound'
  BY <1>1, <1>2, <1>3, <1>6 DEF WaitingAreOpen, Open, PlacesAreDisjoint, GroupsAreSound, AllDiffer
<1>8. StagesAreRight' /\ OthersAreJudged'
  BY <1>1, <1>2, <1>3 DEF StagesAreRight, OthersAreJudged
<1> QED BY <1>4, <1>5, <1>7, <1>8 DEF CheckInv

\* What group() takes next: some of the mutants that are left, and they are
\* checked one by one, or are outside of the project, or are independent.
Others == Without(ungrouped, {m \in MutantSet : InProject(m)})

Taken ==
  CASE ~project.fast -> <<Head(ungrouped)>>
    [] project.fast /\ Others # << >> -> Others
    [] OTHER -> NextGroup(ungrouped)

LEMMA TakenIsSound ==
  ASSUME TypesOK, ungrouped # << >>
  PROVE  Taken \in Seq(MutantSet) /\ Range(Taken) \subseteq Range(ungrouped) /\ GroupIsSound(Taken)
<1>1. ungrouped \in Seq(MutantSet) /\ project.fast \in BOOLEAN
  BY DEF TypesOK
<1>2. /\ Others \in Seq(MutantSet)
      /\ Range(Others) = Range(ungrouped) \ {m \in MutantSet : InProject(m)}
  BY <1>1, WithoutFacts DEF Others
<1>3. Range(ungrouped) \subseteq MutantSet
  <2>1. \A i \in DOMAIN ungrouped : ungrouped[i] \in MutantSet
    BY <1>1
  <2> QED BY <2>1 DEF Range
<1>4. CASE ~project.fast
  <2> DEFINE x == Head(ungrouped)
  <2>1. x \in MutantSet /\ x \in Range(ungrouped)
    <3>1. 1 \in DOMAIN ungrouped /\ x = ungrouped[1]
      BY <1>1
    <3> QED BY <1>3, <3>1 DEF Range
  <2>2. Taken = <<x>>
    BY <1>4 DEF Taken
  <2> HIDE DEF x
  <2>3. <<x>> \in Seq(MutantSet) /\ Len(<<x>>) = 1 /\ <<x>> # << >> /\ Range(<<x>>) = {x}
    BY <2>1 DEF Range
  <2> QED BY <2>1, <2>2, <2>3 DEF GroupIsSound
<1>5. CASE project.fast /\ Others # << >>
  <2>1. Taken = Others
    BY <1>5 DEF Taken
  <2>2. \A m \in Range(Others) : ~InProject(m)
    BY <1>2, <1>3
  <2> QED BY <1>2, <1>5, <2>1, <2>2 DEF GroupIsSound
<1>6. CASE project.fast /\ Others = << >>
  <2>1. Taken = NextGroup(ungrouped)
    BY <1>6 DEF Taken
  <2>2. Range(<< >>) = {}
    BY DEF Range
  <2>3. \A m \in Range(ungrouped) : InProject(m)
    BY <1>2, <1>6, <2>2
  <2>4. /\ NextGroup(ungrouped) \in Seq(MutantSet) /\ NextGroup(ungrouped) # << >>
        /\ Range(NextGroup(ungrouped)) \subseteq Range(ungrouped) /\ AllIndependent(NextGroup(ungrouped))
    BY <1>1, NextGroupFacts
  <2> QED BY <1>6, <2>1, <2>3, <2>4 DEF GroupIsSound
<1> QED BY <1>1, <1>4, <1>5, <1>6

LEMMA GroupStep ==
  ASSUME CheckInv, Group
  PROVE  CheckInv'
<1> DEFINE n == Len(groups)
<1>1. /\ tsStage = "group" /\ tsStage' = IF ungrouped' = << >> THEN "check" ELSE "group"
      /\ groups' = Append(groups, Taken) /\ ungrouped' = Without(ungrouped, Range(Taken))
      /\ project' = project /\ alone' = alone /\ compiled' = compiled /\ verdicts' = verdicts
  BY DEF Group, Taken, Others
<1>2. /\ TypesOK /\ OutsidersCompile /\ WaitingAreOpen /\ PlacesAreDisjoint
      /\ GroupsAreSound /\ StagesAreRight /\ OthersAreJudged
  BY DEF CheckInv
<1>3. /\ ungrouped # << >> /\ alone = << >> /\ ungrouped \in Seq(MutantSet)
      /\ groups \in Seq(Seq(MutantSet)) /\ n \in Nat
  BY <1>1, <1>2 DEF StagesAreRight, TypesOK
<1>4. Taken \in Seq(MutantSet) /\ Range(Taken) \subseteq Range(ungrouped) /\ GroupIsSound(Taken)
  BY <1>2, <1>3, TakenIsSound
<1>5. /\ groups' \in Seq(Seq(MutantSet)) /\ Len(groups') = n + 1 /\ groups'[n + 1] = Taken
      /\ \A i \in 1..n : groups'[i] = groups[i]
  BY <1>1, <1>3, <1>4, AppendFacts
<1>6. /\ ungrouped' \in Seq(MutantSet) /\ Range(ungrouped') = Range(ungrouped) \ Range(Taken)
  BY <1>1, <1>3, WithoutFacts
<1>7. \A i \in 1..(n + 1) : i \in 1..n \/ i = n + 1
  BY <1>3
<1>8. n + 1 \in 1..(n + 1) /\ \A i \in 1..n : i \in 1..(n + 1)
  BY <1>3
<1> HIDE DEF n
<1>9. TypesOK'
  BY <1>1, <1>2, <1>5, <1>6 DEF TypesOK
<1>10. OutsidersCompile'
  BY <1>1, <1>2 DEF OutsidersCompile, InProject, Home
<1>11. WaitingAreOpen'
  <2>1. \A m : Open(m)' <=> Open(m)
    BY <1>1 DEF Open
  <2>2. /\ \A m \in Range(ungrouped) : Open(m)
        /\ \A i \in 1..n : \A m \in Range(groups[i]) : Open(m)
        /\ \A m \in Range(alone) : Open(m)
    BY <1>2 DEF WaitingAreOpen, n
  <2>3. \A i \in 1..(n + 1) : \A m \in Range(groups'[i]) : Open(m)
    BY <1>4, <1>5, <1>7, <2>2
  <2>4. \A m \in Range(ungrouped') : Open(m)
    BY <1>6, <2>2
  <2> QED BY <1>1, <1>5, <2>1, <2>2, <2>3, <2>4 DEF WaitingAreOpen
<1>12. PlacesAreDisjoint'
  <2>1. /\ \A i, j \in 1..n : i # j => Range(groups[i]) \cap Range(groups[j]) = {}
        /\ \A i \in 1..n : Range(groups[i]) \cap Range(ungrouped) = {}
    BY <1>2 DEF PlacesAreDisjoint, n
  <2>2. ASSUME NEW i \in 1..(n + 1), NEW j \in 1..(n + 1), i # j
        PROVE  Range(groups'[i]) \cap Range(groups'[j]) = {}
    <3>1. CASE i \in 1..n /\ j \in 1..n
      BY <1>5, <2>1, <2>2, <3>1
    <3>2. CASE i \in 1..n /\ j = n + 1
      BY <1>4, <1>5, <2>1, <3>2
    <3>3. CASE j \in 1..n /\ i = n + 1
      BY <1>4, <1>5, <2>1, <3>3
    <3> QED BY <1>7, <2>2, <3>1, <3>2, <3>3
  <2>3. ASSUME NEW i \in 1..(n + 1) PROVE Range(groups'[i]) \cap Range(ungrouped') = {}
    BY <1>5, <1>6, <1>7, <2>1
  <2>4. Range(alone') = {} /\ AllDiffer(alone)'
    BY <1>1, <1>3 DEF Range, AllDiffer
  <2> QED BY <1>5, <2>2, <2>3, <2>4 DEF PlacesAreDisjoint
<1>13. GroupsAreSound'
  <2>1. \A i \in 1..n : GroupIsSound(groups[i])
    BY <1>2 DEF GroupsAreSound, n
  <2>2. \A i \in 1..(n + 1) : GroupIsSound(groups'[i])
    BY <1>4, <1>5, <1>7, <2>1
  <2>3. \A q : GroupIsSound(q)' <=> GroupIsSound(q)
    BY <1>1, SameGroups
  <2> QED BY <1>5, <2>2, <2>3 DEF GroupsAreSound
<1>14. StagesAreRight'
  BY <1>1, <1>3 DEF StagesAreRight
<1>15. OthersAreJudged'
  <2> SUFFICES ASSUME (~project'.fast \/ Local'), NEW m \in MutantSet
               PROVE  (m \in Range(ungrouped') \/ InGroups(m)') \/ Judged(m)'
    BY DEF OthersAreJudged
  <2>1. ~project.fast \/ Local
    BY <1>1, SameGroups
  <2>2. m \in Range(ungrouped) \/ InGroups(m) \/ m \in Range(alone) \/ Judged(m)
    BY <1>1, <1>2, <2>1 DEF OthersAreJudged
  <2>3. m \notin Range(alone)
    BY <1>3 DEF Range
  <2>4. ASSUME m \in Range(ungrouped), m \notin Range(ungrouped') PROVE InGroups(m)'
    BY <1>5, <1>6, <1>8, <2>4 DEF InGroups
  <2>5. ASSUME InGroups(m) PROVE InGroups(m)'
    <3>1. PICK i \in 1..n : m \in Range(groups[i])
      BY <2>5 DEF InGroups, n
    <3> QED BY <1>5, <1>8, <3>1 DEF InGroups
  <2>6. ASSUME Judged(m) PROVE Judged(m)'
    BY <1>1, <2>6 DEF Judged
  <2> QED BY <2>2, <2>3, <2>4, <2>5, <2>6
<1> QED BY <1>9, <1>10, <1>11, <1>12, <1>13, <1>14, <1>15 DEF CheckInv

LEMMA AllCheckedStep ==
  ASSUME CheckInv, AllChecked
  PROVE  CheckInv'
<1>1. /\ tsStage = "check" /\ groups = << >> /\ alone = << >> /\ tsStage' = "done"
      /\ project' = project /\ ungrouped' = ungrouped /\ groups' = groups /\ alone' = alone
      /\ compiled' = compiled /\ verdicts' = verdicts
  BY DEF AllChecked
<1>2. TypesOK' /\ OutsidersCompile' /\ PlacesAreDisjoint'
  BY <1>1 DEF CheckInv, TypesOK, OutsidersCompile, InProject, Home, PlacesAreDisjoint, AllDiffer
<1>3. WaitingAreOpen'
  BY <1>1 DEF CheckInv, WaitingAreOpen, Open
<1>4. GroupsAreSound'
  BY <1>1, SameGroups DEF CheckInv, GroupsAreSound
<1>5. StagesAreRight'
  BY <1>1 DEF CheckInv, StagesAreRight
<1>6. OthersAreJudged'
  BY <1>1, SameGroups DEF CheckInv, OthersAreJudged, InGroups, Judged
<1> QED BY <1>2, <1>3, <1>4, <1>5, <1>6 DEF CheckInv

LEMMA StutterCheck ==
  ASSUME CheckInv, UNCHANGED tsVars
  PROVE  CheckInv'
<1>1. /\ tsStage' = tsStage
      /\ project' = project /\ ungrouped' = ungrouped /\ groups' = groups /\ alone' = alone
      /\ compiled' = compiled /\ verdicts' = verdicts
  BY DEF tsVars
<1>2. TypesOK' /\ OutsidersCompile' /\ PlacesAreDisjoint'
  BY <1>1 DEF CheckInv, TypesOK, OutsidersCompile, InProject, Home, PlacesAreDisjoint, AllDiffer
<1>3. WaitingAreOpen'
  BY <1>1 DEF CheckInv, WaitingAreOpen, Open
<1>4. GroupsAreSound'
  BY <1>1, SameGroups DEF CheckInv, GroupsAreSound
<1>5. StagesAreRight'
  BY <1>1 DEF CheckInv, StagesAreRight
<1>6. OthersAreJudged'
  BY <1>1, SameGroups DEF CheckInv, OthersAreJudged, InGroups, Judged
<1> QED BY <1>2, <1>3, <1>4, <1>5, <1>6 DEF CheckInv

-----------------------------------------------------------------------------
(* What the compiler reports *)

OwnHomes(ms) == \A m, k \in ms : m # k => Home(m) # Home(k)

\* Each mutant of a group is put in its file.
LEMMA WithMutantsFacts ==
  ASSUME TypesOK, "original" \notin MutantSet, NEW ms \in SUBSET MutantSet, OwnHomes(ms)
  PROVE  /\ WithMutants(ms) \in [TsFiles -> ms \cup {"original"}]
         /\ \A m \in ms : InProject(m) => WithMutants(ms)[Home(m)] = m
         /\ \A f \in TsFiles : WithMutants(ms)[f] # "original" => Home(WithMutants(ms)[f]) = f
<1> DEFINE after == WithMutants(ms)
<1>1. ASSUME NEW f \in TsFiles
      PROVE  /\ (\E m \in ms : Home(m) = f) => after[f] \in ms /\ Home(after[f]) = f
             /\ (~\E m \in ms : Home(m) = f) => after[f] = "original"
  <2>1. after[f] = IF \E m \in ms : Home(m) = f THEN CHOOSE m \in ms : Home(m) = f ELSE "original"
    BY DEF WithMutants
  <2> QED BY <2>1
<1>2. after \in [TsFiles -> ms \cup {"original"}]
  <2>1. after = [f \in TsFiles |-> after[f]]
    BY DEF WithMutants
  <2>2. \A f \in TsFiles : after[f] \in ms \cup {"original"}
    BY <1>1
  <2> HIDE DEF after
  <2> QED BY <2>1, <2>2
<1>3. ASSUME NEW m \in ms, InProject(m) PROVE after[Home(m)] = m
  <2>1. after[Home(m)] \in ms /\ Home(after[Home(m)]) = Home(m)
    BY <1>1, <1>3 DEF InProject
  <2> QED BY <2>1 DEF OwnHomes
<1>4. \A f \in TsFiles : after[f] # "original" => Home(after[f]) = f
  BY <1>1
<1> QED BY <1>2, <1>3, <1>4

\* The compiler reports all errors of the mutants it has not just seen.
LEMMA AllIsReported ==
  ASSUME TypesOK, OutsidersCompile, "original" \notin MutantSet, NEW ms \in SUBSET MutantSet, OwnHomes(ms),
         \A m \in ms : Open(m)
  PROVE  Report(compiled, WithMutants(ms)) = UNION {project.errors[m] : m \in ms}
<1> DEFINE after == WithMutants(ms)
           seen == {g \in TsFiles : after[g] \notin {"original", compiled[g]}}
<1>1. /\ after \in [TsFiles -> ms \cup {"original"}]
      /\ \A m \in ms : InProject(m) => after[Home(m)] = m
      /\ \A f \in TsFiles : after[f] # "original" => Home(after[f]) = f
  BY WithMutantsFacts
<1>2. Report(compiled, after) = UNION {project.errors[after[f]] : f \in seen}
  BY DEF Report
<1> HIDE DEF after
<1>3. ASSUME NEW e \in UNION {project.errors[after[f]] : f \in seen} PROVE e \in UNION {project.errors[m] : m \in ms}
  <2>1. PICK f \in seen : e \in project.errors[after[f]]
    BY <1>3
  <2>2. after[f] \in ms
    BY <1>1, <2>1
  <2> QED BY <2>1, <2>2
<1>4. ASSUME NEW e \in UNION {project.errors[m] : m \in ms} PROVE e \in UNION {project.errors[after[f]] : f \in seen}
  <2>1. PICK m \in ms : e \in project.errors[m]
    BY <1>4
  <2>2. InProject(m)
    BY <2>1 DEF OutsidersCompile
  <2>3. Home(m) \in TsFiles /\ after[Home(m)] = m
    BY <1>1, <2>2 DEF InProject
  <2>4. m # "original" /\ compiled[Home(m)] # m
    BY <2>3 DEF Open
  <2>5. Home(m) \in seen
    BY <2>3, <2>4
  <2> QED BY <2>1, <2>3, <2>5
<1> HIDE DEF seen
<1>5. UNION {project.errors[after[f]] : f \in seen} = UNION {project.errors[m] : m \in ms}
  BY <1>3, <1>4
<1> QED BY <1>2, <1>5 DEF after

\* A mutant by itself.
LEMMA OneIsReported ==
  ASSUME TypesOK, OutsidersCompile, "original" \notin MutantSet, NEW m \in MutantSet, Open(m)
  PROVE  /\ WithMutants({m}) \in [TsFiles -> {m, "original"}]
         /\ Report(compiled, WithMutants({m})) = project.errors[m]
<1>1. OwnHomes({m})
  BY DEF OwnHomes
<1>2. {m} \in SUBSET MutantSet /\ {m} \cup {"original"} = {m, "original"}
  OBVIOUS
<1>3. WithMutants({m}) \in [TsFiles -> {m} \cup {"original"}]
  BY <1>1, <1>2, WithMutantsFacts
<1>4. Report(compiled, WithMutants({m})) = UNION {project.errors[k] : k \in {m}}
  BY <1>1, <1>2, AllIsReported
<1>5. UNION {project.errors[k] : k \in {m}} = project.errors[m]
  OBVIOUS
<1> QED BY <1>2, <1>3, <1>4, <1>5

-----------------------------------------------------------------------------
(* The steps that check *)

\* The first element of a sequence and the rest.
LEMMA HeadAndTail ==
  ASSUME NEW M, NEW q \in Seq(M), q # << >>
  PROVE  /\ Head(q) \in M /\ Head(q) = q[1] /\ 1 \in 1..Len(q)
         /\ Tail(q) \in Seq(M) /\ Len(q) \in Nat /\ Len(Tail(q)) = Len(q) - 1
         /\ \A i \in 1..Len(Tail(q)) : i + 1 \in 1..Len(q) /\ Tail(q)[i] = q[i + 1] /\ i + 1 # 1
         /\ \A i \in 1..Len(q) : i = 1 \/ (i - 1 \in 1..Len(Tail(q)) /\ Tail(q)[i - 1] = q[i])
         /\ Range(q) \subseteq M /\ Range(q) = {Head(q)} \cup Range(Tail(q))
<1>1. /\ Head(q) \in M /\ Head(q) = q[1] /\ 1 \in 1..Len(q)
      /\ Tail(q) \in Seq(M) /\ Len(q) \in Nat /\ Len(Tail(q)) = Len(q) - 1 /\ Len(q) # 0
      /\ DOMAIN q = 1..Len(q) /\ DOMAIN Tail(q) = 1..(Len(q) - 1)
      /\ \A i \in 1..(Len(q) - 1) : Tail(q)[i] = q[i + 1]
  OBVIOUS
<1> DEFINE n == Len(q)
           t == Tail(q)
<1>2. \A i \in 1..(n - 1) : i + 1 \in 1..n /\ i + 1 # 1
  BY <1>1
<1>3. \A i \in 1..n : i = 1 \/ (i - 1 \in 1..(n - 1) /\ (i - 1) + 1 = i)
  BY <1>1
<1> HIDE DEF n, t
<1>4. \A i \in 1..n : i = 1 \/ (i - 1 \in 1..(n - 1) /\ t[i - 1] = q[i])
  BY <1>1, <1>3 DEF n, t
<1>5. Range(q) \subseteq M
  <2>1. \A i \in DOMAIN q : q[i] \in M
    OBVIOUS
  <2> QED BY <2>1 DEF Range
<1>6. Range(q) = {Head(q)} \cup Range(t)
  <2>1. ASSUME NEW i \in 1..n PROVE q[i] \in {Head(q)} \cup Range(t)
    BY <1>1, <1>4, <2>1 DEF Range, n, t
  <2>2. ASSUME NEW i \in 1..(n - 1) PROVE t[i] \in Range(q)
    BY <1>1, <1>2, <2>2 DEF Range, n, t
  <2>3. Range(q) = {q[i] : i \in 1..n} /\ Range(t) = {t[i] : i \in 1..(n - 1)}
    BY <1>1 DEF Range, n, t
  <2>4. q[1] \in Range(q)
    BY <1>1 DEF Range
  <2> QED BY <1>1, <2>1, <2>2, <2>3, <2>4
<1> QED BY <1>1, <1>2, <1>4, <1>5, <1>6 DEF n, t

\* Nothing changes for the mutants outside of ms.
TouchesOnly(ms) ==
  \A m \in MutantSet \ ms : verdicts'[m] = verdicts[m] /\ \A f \in TsFiles : compiled[f] # m => compiled'[f] # m

LEMMA OthersStayOpen ==
  ASSUME NEW ms, TouchesOnly(ms), NEW m \in MutantSet \ ms
  PROVE  /\ Open(m) => Open(m)'
         /\ project' = project => (Judged(m) => Judged(m)')
BY DEF TouchesOnly, Open, Judged

\* What check() has to do with a group, for the rest to follow.
GroupIsChecked(group) ==
  LET ms == Range(group)
  IN  /\ TouchesOnly(ms)
      /\ compiled' \in [TsFiles -> MutantSet \cup {"original"}]
      /\ verdicts' \in [MutantSet -> {"none", "Passed", "CompileError"}]
      /\ alone' \in Seq(MutantSet) /\ AllDiffer(alone') /\ Range(alone') \subseteq ms
      /\ \A m \in Range(alone') : Open(m)'
      /\ tsStage' = "rejected" \/ tsStage' = "check"
      /\ tsStage' = "check" /\ (~project.fast \/ Local) => \A m \in ms : m \in Range(alone') \/ Judged(m)'

LEMMA GroupLeaves ==
  ASSUME CheckInv, tsStage = "check", alone = << >>, groups # << >>, groups' = Tail(groups),
         project' = project, ungrouped' = ungrouped, GroupIsChecked(Head(groups))
  PROVE  CheckInv'
<1> DEFINE n == Len(groups)
           ms == Range(Head(groups))
<1>1. /\ TypesOK /\ OutsidersCompile /\ WaitingAreOpen /\ PlacesAreDisjoint
      /\ GroupsAreSound /\ StagesAreRight /\ OthersAreJudged
  BY DEF CheckInv
<1>2. /\ TouchesOnly(ms)
      /\ compiled' \in [TsFiles -> MutantSet \cup {"original"}]
      /\ verdicts' \in [MutantSet -> {"none", "Passed", "CompileError"}]
      /\ alone' \in Seq(MutantSet) /\ AllDiffer(alone') /\ Range(alone') \subseteq ms
      /\ \A m \in Range(alone') : Open(m)'
      /\ tsStage' = "rejected" \/ tsStage' = "check"
      /\ tsStage' = "check" /\ (~project.fast \/ Local) => \A m \in ms : m \in Range(alone') \/ Judged(m)'
  BY DEF GroupIsChecked
<1>3. groups \in Seq(Seq(MutantSet)) /\ ungrouped = << >>
  BY <1>1 DEF TypesOK, StagesAreRight
<1>4. /\ Head(groups) = groups[1] /\ 1 \in 1..n /\ n \in Nat
      /\ groups' \in Seq(Seq(MutantSet)) /\ Len(groups') = n - 1
      /\ \A i \in 1..(n - 1) : i + 1 \in 1..n /\ groups'[i] = groups[i + 1] /\ i + 1 # 1
      /\ \A i \in 1..n : i = 1 \/ (i - 1 \in 1..(n - 1) /\ groups'[i - 1] = groups[i])
  BY <1>3, HeadAndTail
<1>5. \A i \in 1..n : Range(groups[i]) \subseteq MutantSet
  <2>1. ASSUME NEW i \in 1..n PROVE Range(groups[i]) \subseteq MutantSet
    <3>1. groups[i] \in Seq(MutantSet)
      BY <1>3
    <3>2. \A j \in DOMAIN groups[i] : groups[i][j] \in MutantSet
      BY <3>1
    <3> QED BY <3>2 DEF Range
  <2> QED BY <2>1
<1> HIDE DEF n
<1>6. /\ \A i, j \in 1..n : i # j => Range(groups[i]) \cap Range(groups[j]) = {}
      /\ \A i \in 1..n : Range(groups[i]) \cap Range(alone) = {}
  BY <1>1 DEF PlacesAreDisjoint, n
<1>7. \A i \in 1..(n - 1) : Range(groups'[i]) \cap ms = {} /\ Range(groups'[i]) \subseteq MutantSet
  BY <1>4, <1>5, <1>6
<1>8. Range(ungrouped) = {} /\ Range(alone) = {}
  BY <1>3 DEF Range
<1> HIDE DEF ms
<1>9. TypesOK'
  BY <1>1, <1>2, <1>4 DEF TypesOK
<1>10. OutsidersCompile'
  BY <1>1 DEF OutsidersCompile, InProject, Home
<1>11. WaitingAreOpen'
  <2>1. ASSUME NEW i \in 1..(n - 1), NEW m \in Range(groups'[i]) PROVE Open(m)'
    <3>1. Open(m)
      BY <1>1, <1>4 DEF WaitingAreOpen, n
    <3>2. m \in MutantSet \ ms
      BY <1>7
    <3> QED BY <1>2, <3>1, <3>2, OthersStayOpen
  <2> QED BY <1>2, <1>4, <1>8, <2>1 DEF WaitingAreOpen
<1>12. PlacesAreDisjoint'
  <2>1. ASSUME NEW i \in 1..(n - 1), NEW j \in 1..(n - 1), i # j PROVE Range(groups'[i]) \cap Range(groups'[j]) = {}
    <3>1. i + 1 \in 1..n /\ j + 1 \in 1..n /\ i + 1 # j + 1
      BY <1>4, <2>1
    <3> QED BY <1>4, <1>6, <3>1
  <2>2. \A i \in 1..(n - 1) : Range(groups'[i]) \cap Range(alone') = {}
    BY <1>2, <1>7
  <2>3. AllDiffer(alone)'
    BY <1>2 DEF AllDiffer
  <2> QED BY <1>4, <1>8, <2>1, <2>2, <2>3 DEF PlacesAreDisjoint
<1>13. GroupsAreSound'
  <2>1. \A i \in 1..n : GroupIsSound(groups[i])
    BY <1>1 DEF GroupsAreSound, n
  <2>2. \A i \in 1..(n - 1) : GroupIsSound(groups'[i])
    BY <1>4, <2>1
  <2>3. \A q : GroupIsSound(q)' <=> GroupIsSound(q)
    BY SameGroups
  <2> QED BY <1>4, <2>2, <2>3 DEF GroupsAreSound
<1>14. StagesAreRight'
  BY <1>2, <1>3 DEF StagesAreRight
<1>15. OthersAreJudged'
  <2> SUFFICES ASSUME (~project'.fast \/ Local'), tsStage' = "check", NEW m \in MutantSet
               PROVE  (InGroups(m)' \/ m \in Range(alone')) \/ Judged(m)'
    BY <1>2 DEF OthersAreJudged
  <2>1. ~project.fast \/ Local
    BY SameGroups
  <2>2. CASE m \in ms
    BY <1>2, <2>1, <2>2
  <2>3. CASE m \notin ms
    <3>1. m \in Range(ungrouped) \/ InGroups(m) \/ m \in Range(alone) \/ Judged(m)
      BY <1>1, <2>1 DEF OthersAreJudged
    <3>2. ASSUME InGroups(m) PROVE InGroups(m)'
      <4>1. PICK i \in 1..n : m \in Range(groups[i])
        BY <3>2 DEF InGroups, n
      <4>2. i # 1
        BY <1>4, <2>3, <4>1 DEF ms
      <4>3. i - 1 \in 1..(n - 1) /\ groups'[i - 1] = groups[i]
        BY <1>4, <4>2
      <4> QED BY <1>4, <4>1, <4>3 DEF InGroups
    <3>3. ASSUME Judged(m) PROVE Judged(m)'
      BY <1>2, <2>3, <3>3, OthersStayOpen
    <3> QED BY <1>8, <3>1, <3>2, <3>3
  <2> QED BY <2>2, <2>3
<1> QED BY <1>9, <1>10, <1>11, <1>12, <1>13, <1>14, <1>15 DEF CheckInv

\* The group that is checked.
LEMMA FirstGroup ==
  ASSUME CheckInv, groups # << >>, NEW group, group = Head(groups)
  PROVE  /\ group \in Seq(MutantSet) /\ Range(group) \subseteq MutantSet /\ GroupIsSound(group)
         /\ Head(group) \in Range(group) /\ (Len(group) = 1 => Range(group) = {Head(group)})
         /\ \A m \in Range(group) : Open(m)
<1>1. groups \in Seq(Seq(MutantSet))
  BY DEF CheckInv, TypesOK
<1>2. group \in Seq(MutantSet) /\ group = groups[1] /\ 1 \in 1..Len(groups)
  BY <1>1, HeadAndTail
<1>3. GroupIsSound(group) /\ \A m \in Range(group) : Open(m)
  BY <1>2 DEF CheckInv, GroupsAreSound, WaitingAreOpen
<1>4. group # << >>
  BY <1>3 DEF GroupIsSound
<1>5. /\ Range(group) \subseteq MutantSet /\ Range(group) = {Head(group)} \cup Range(Tail(group))
      /\ Len(Tail(group)) = Len(group) - 1 /\ Tail(group) \in Seq(MutantSet)
  BY <1>2, <1>4, HeadAndTail
<1>6. ASSUME Len(group) = 1 PROVE Range(group) = {Head(group)}
  <2> DEFINE t == Tail(group)
  <2>0. t \in Seq(MutantSet) /\ Len(t) = 0
    BY <1>5, <1>6
  <2> HIDE DEF t
  <2>1. t = << >>
    BY <2>0
  <2>2. Range(<< >>) = {}
    BY DEF Range
  <2> QED BY <1>5, <2>1, <2>2 DEF t
<1> QED BY <1>2, <1>3, <1>5, <1>6

\* The files of a group that is not in the project are not compiled.
LEMMA OutsidersAreChecked ==
  ASSUME CheckInv, tsStage = "check", alone = << >>, groups # << >>, project' = project,
         NEW group, group = Head(groups), ~InProject(Head(group)), Verdict(Range(group), "Passed"),
         tsStage' = tsStage, alone' = alone, compiled' = compiled
  PROVE  GroupIsChecked(group)
<1> DEFINE ms == Range(group)
<1>1. /\ ms \subseteq MutantSet /\ GroupIsSound(group) /\ Head(group) \in ms
      /\ (Len(group) = 1 => ms = {Head(group)}) /\ \A m \in ms : Open(m)
  BY FirstGroup
<1>2. TypesOK /\ OutsidersCompile
  BY DEF CheckInv
<1> HIDE DEF ms
<1>3. verdicts' = [m \in MutantSet |-> IF m \in ms /\ verdicts[m] # "CompileError" THEN "Passed" ELSE verdicts[m]]
  BY DEF Verdict, ms
<1>4. verdicts' \in [MutantSet -> {"none", "Passed", "CompileError"}] /\ compiled' \in [TsFiles -> MutantSet \cup {"original"}]
  BY <1>2, <1>3 DEF TypesOK
<1>5. TouchesOnly(ms)
  BY <1>3 DEF TouchesOnly
<1>6. \A m \in ms : ~InProject(m)
  BY <1>1 DEF GroupIsSound, ms
<1>7. ASSUME NEW m \in ms PROVE Judged(m)'
  <2>1. m \in MutantSet /\ verdicts[m] # "CompileError" /\ project.errors[m] = {}
    BY <1>1, <1>2, <1>6 DEF Open, OutsidersCompile
  <2>2. verdicts'[m] = "Passed"
    BY <1>3, <2>1
  <2> QED BY <2>1, <2>2 DEF Judged
<1>8. alone' \in Seq(MutantSet) /\ AllDiffer(alone') /\ Range(alone') = {}
  BY DEF AllDiffer, Range
<1> QED BY <1>4, <1>5, <1>7, <1>8 DEF GroupIsChecked, ms

\* A mutant by itself is blamed for what the compiler reports.
LEMMA OneIsChecked ==
  ASSUME TypesOK, OutsidersCompile, "original" \notin MutantSet, NEW m \in MutantSet, Open(m), project' = project,
         compiled' = WithMutants({m}),
         Verdict({m}, IF Report(compiled, WithMutants({m})) = {} THEN "Passed" ELSE "CompileError")
  PROVE  /\ TouchesOnly({m}) /\ Judged(m)'
         /\ compiled' \in [TsFiles -> MutantSet \cup {"original"}]
         /\ verdicts' \in [MutantSet -> {"none", "Passed", "CompileError"}]
<1> DEFINE status == IF project.errors[m] = {} THEN "Passed" ELSE "CompileError"
<1>1. compiled' \in [TsFiles -> {m, "original"}] /\ Report(compiled, WithMutants({m})) = project.errors[m]
  BY OneIsReported
<1>2. verdicts' = [k \in MutantSet |-> IF k \in {m} /\ verdicts[k] # "CompileError" THEN status ELSE verdicts[k]]
  BY <1>1 DEF Verdict
<1>3. status \in {"Passed", "CompileError"}
  OBVIOUS
<1>4. verdicts' \in [MutantSet -> {"none", "Passed", "CompileError"}]
  <2> HIDE DEF status
  <2> QED BY <1>2, <1>3 DEF TypesOK
<1>5. compiled' \in [TsFiles -> MutantSet \cup {"original"}]
  BY <1>1
<1>6. TouchesOnly({m})
  <2>1. ASSUME NEW k \in MutantSet \ {m}
        PROVE  verdicts'[k] = verdicts[k] /\ \A f \in TsFiles : compiled[f] # k => compiled'[f] # k
    BY <1>1, <1>2
  <2> QED BY <2>1 DEF TouchesOnly
<1>7. Judged(m)'
  <2>1. verdicts[m] # "CompileError"
    BY DEF Open
  <2>2. verdicts'[m] = status
    BY <1>2, <2>1
  <2> QED BY <2>2 DEF Judged
<1> QED BY <1>4, <1>5, <1>6, <1>7

LEMMA SingleGroupIsChecked ==
  ASSUME CheckInv, tsStage = "check", alone = << >>, groups # << >>, project' = project, "original" \notin MutantSet,
         NEW group, group = Head(groups), Len(group) = 1, compiled' = WithMutants(Range(group)),
         Verdict(Range(group), IF Report(compiled, WithMutants(Range(group))) = {} THEN "Passed" ELSE "CompileError"),
         tsStage' = tsStage, alone' = alone
  PROVE  GroupIsChecked(group)
<1>1. /\ Range(group) \subseteq MutantSet /\ Range(group) = {Head(group)} /\ \A m \in Range(group) : Open(m)
  BY FirstGroup
<1>2. PICK m \in MutantSet : Range(group) = {m} /\ Open(m)
  BY <1>1
<1>3. TypesOK /\ OutsidersCompile
  BY DEF CheckInv
<1>4. /\ TouchesOnly({m}) /\ Judged(m)'
      /\ compiled' \in [TsFiles -> MutantSet \cup {"original"}]
      /\ verdicts' \in [MutantSet -> {"none", "Passed", "CompileError"}]
  BY <1>2, <1>3, OneIsChecked
<1>5. alone' \in Seq(MutantSet) /\ AllDiffer(alone') /\ Range(alone') = {}
  BY DEF AllDiffer, Range
<1> QED BY <1>2, <1>4, <1>5 DEF GroupIsChecked

LEMMA CheckAloneStep ==
  ASSUME CheckInv, CheckAlone, "original" \notin MutantSet
  PROVE  CheckInv'
<1>0. PICK m : m = Head(alone)
  OBVIOUS
<1>1. /\ tsStage = "check" /\ alone # << >> /\ alone' = Tail(alone) /\ compiled' = WithMutants({m})
      /\ Verdict({m}, IF Report(compiled, WithMutants({m})) = {} THEN "Passed" ELSE "CompileError")
      /\ project' = project /\ tsStage' = tsStage /\ ungrouped' = ungrouped /\ groups' = groups
  BY <1>0 DEF CheckAlone
<1>2. /\ TypesOK /\ OutsidersCompile /\ WaitingAreOpen /\ PlacesAreDisjoint
      /\ GroupsAreSound /\ StagesAreRight /\ OthersAreJudged
  BY DEF CheckInv
<1>3. alone \in Seq(MutantSet) /\ ungrouped = << >>
  BY <1>1, <1>2 DEF TypesOK, StagesAreRight
<1>4. /\ m \in MutantSet /\ m = alone[1] /\ 1 \in 1..Len(alone) /\ alone' \in Seq(MutantSet)
      /\ Len(alone) \in Nat /\ Len(alone') = Len(alone) - 1
      /\ \A i \in 1..Len(alone') : i + 1 \in 1..Len(alone) /\ alone'[i] = alone[i + 1] /\ i + 1 # 1
      /\ Range(alone) = {m} \cup Range(alone')
  BY <1>0, <1>1, <1>3, HeadAndTail
<1>5. Range(alone) \subseteq MutantSet /\ \A k \in Range(alone) : Open(k)
  <2>1. Range(alone) \subseteq MutantSet
    BY <1>1, <1>3, HeadAndTail
  <2> QED BY <1>2, <2>1 DEF WaitingAreOpen
<1>6. /\ TouchesOnly({m}) /\ Judged(m)'
      /\ compiled' \in [TsFiles -> MutantSet \cup {"original"}]
      /\ verdicts' \in [MutantSet -> {"none", "Passed", "CompileError"}]
  <2>1. Open(m)
    BY <1>4, <1>5
  <2> QED BY <1>1, <1>2, <1>4, <2>1, OneIsChecked
<1>7. m \notin Range(alone') /\ AllDiffer(alone')
  <2>1. \A a, b \in 1..Len(alone) : a # b => alone[a] # alone[b]
    BY <1>2 DEF PlacesAreDisjoint, AllDiffer
  <2>2. \A i \in 1..Len(alone') : alone'[i] # m
    BY <1>4, <2>1
  <2>3. DOMAIN alone' = 1..Len(alone')
    BY <1>4
  <2>4. ASSUME NEW a \in 1..Len(alone'), NEW b \in 1..Len(alone'), a # b PROVE alone'[a] # alone'[b]
    <3>1. a + 1 \in 1..Len(alone) /\ b + 1 \in 1..Len(alone) /\ a + 1 # b + 1
      BY <1>4, <2>4
    <3> QED BY <1>4, <2>1, <3>1
  <2> QED BY <2>2, <2>3, <2>4 DEF Range, AllDiffer
<1>8. \A i \in 1..Len(groups) : m \notin Range(groups[i]) /\ Range(groups[i]) \subseteq MutantSet
  <2>1. ASSUME NEW i \in 1..Len(groups) PROVE m \notin Range(groups[i]) /\ Range(groups[i]) \subseteq MutantSet
    <3>1. groups[i] \in Seq(MutantSet)
      BY <1>2 DEF TypesOK
    <3>2. \A j \in DOMAIN groups[i] : groups[i][j] \in MutantSet
      BY <3>1
    <3>3. Range(groups[i]) \cap Range(alone) = {}
      BY <1>2 DEF PlacesAreDisjoint
    <3>4. Range(groups[i]) \subseteq MutantSet
      BY <3>2 DEF Range
    <3> QED BY <1>4, <3>3, <3>4
  <2> QED BY <2>1
<1>9. TypesOK'
  BY <1>1, <1>2, <1>4, <1>6 DEF TypesOK
<1>10. OutsidersCompile'
  BY <1>1, <1>2 DEF OutsidersCompile, InProject, Home
<1>11. WaitingAreOpen'
  <2>1. ASSUME NEW i \in 1..Len(groups), NEW k \in Range(groups[i]) PROVE Open(k)'
    <3>1. Open(k) /\ k \in MutantSet \ {m}
      BY <1>2, <1>8 DEF WaitingAreOpen
    <3> QED BY <1>6, <3>1, OthersStayOpen
  <2>2. ASSUME NEW k \in Range(alone') PROVE Open(k)'
    <3>1. Open(k) /\ k \in MutantSet \ {m}
      BY <1>4, <1>5, <1>7
    <3> QED BY <1>6, <3>1, OthersStayOpen
  <2>3. Range(ungrouped') = {}
    BY <1>1, <1>3 DEF Range
  <2> QED BY <1>1, <2>1, <2>2, <2>3 DEF WaitingAreOpen
<1>12. PlacesAreDisjoint'
  <2>1. AllDiffer(alone)'
    BY <1>7 DEF AllDiffer
  <2>2. \A i \in 1..Len(groups) : Range(groups[i]) \cap Range(alone') = {}
    BY <1>2, <1>4 DEF PlacesAreDisjoint
  <2> QED BY <1>1, <1>2, <2>1, <2>2 DEF PlacesAreDisjoint
<1>13. GroupsAreSound'
  BY <1>1, <1>2, SameGroups DEF GroupsAreSound
<1>14. StagesAreRight'
  BY <1>1, <1>2 DEF StagesAreRight
<1>15. OthersAreJudged'
  <2> SUFFICES ASSUME (~project'.fast \/ Local'), NEW k \in MutantSet
               PROVE  (InGroups(k)' \/ k \in Range(alone')) \/ Judged(k)'
    BY DEF OthersAreJudged
  <2>1. ~project.fast \/ Local
    BY <1>1, SameGroups
  <2>2. CASE k = m
    BY <1>6, <2>2
  <2>3. CASE k # m
    <3>1. k \in Range(ungrouped) \/ InGroups(k) \/ k \in Range(alone) \/ Judged(k)
      BY <1>1, <1>2, <2>1 DEF OthersAreJudged
    <3>2. Range(ungrouped) = {}
      BY <1>3 DEF Range
    <3>3. InGroups(k) => InGroups(k)'
      BY <1>1 DEF InGroups
    <3>4. Judged(k) => Judged(k)'
      BY <1>1, <1>6, <2>3, OthersStayOpen
    <3> QED BY <1>4, <2>3, <3>1, <3>2, <3>3, <3>4
  <2> QED BY <2>2, <2>3
<1> QED BY <1>9, <1>10, <1>11, <1>12, <1>13, <1>14, <1>15 DEF CheckInv

\* Who may have caused an error of the group, and who must have.
Suspects(ms, errors) ==
  UNION {IF RelatedTo(e, ms) = {} THEN ms ELSE IF Cardinality(RelatedTo(e, ms)) = 1 THEN {} ELSE RelatedTo(e, ms) : e \in errors}

Guilty(ms, errors) ==
  UNION {RelatedTo(e, ms) : e \in {d \in errors : Cardinality(RelatedTo(d, ms)) = 1}}

\* Only the mutants of the group are blamed.
LEMMA BlameIsWithin ==
  ASSUME NEW ms, NEW errors
  PROVE  Suspects(ms, errors) \subseteq ms /\ Guilty(ms, errors) \subseteq ms
<1> DEFINE Some(e) == IF RelatedTo(e, ms) = {} THEN ms ELSE IF Cardinality(RelatedTo(e, ms)) = 1 THEN {} ELSE RelatedTo(e, ms)
<1>1. \A e : RelatedTo(e, ms) \subseteq ms
  BY DEF RelatedTo
<1>2. \A e : Some(e) \subseteq ms
  BY <1>1
<1>3. Suspects(ms, errors) = UNION {Some(e) : e \in errors}
  BY DEF Suspects
<1> HIDE DEF Some
<1>4. Suspects(ms, errors) \subseteq ms
  BY <1>2, <1>3
<1>5. Guilty(ms, errors) \subseteq ms
  BY <1>1 DEF Guilty
<1> QED BY <1>4, <1>5

\* Whoever causes an error that only shows in files that depend on its own is
\* guilty or suspect, and the guilty cause one.
LEMMA BlameIsRight ==
  ASSUME TypesOK, OutsidersCompile, Local, NEW ms \in SUBSET MutantSet, NEW errors, IsFiniteSet(ms),
         errors = UNION {project.errors[m] : m \in ms}
  PROVE  /\ \A m \in ms : project.errors[m] # {} => m \in Suspects(ms, errors) \cup Guilty(ms, errors)
         /\ \A m \in Guilty(ms, errors) : m \in ms /\ project.errors[m] # {}
<1>1. ASSUME NEW m \in ms, NEW e \in project.errors[m] PROVE m \in RelatedTo(e, ms) /\ e \in errors
  <2>1. InProject(m)
    BY DEF OutsidersCompile
  <2>2. e \in Parents(Home(m))
    BY <2>1 DEF Local
  <2> QED BY <2>1, <2>2 DEF RelatedTo
<1>2. ASSUME NEW m \in ms, project.errors[m] # {} PROVE m \in Suspects(ms, errors) \cup Guilty(ms, errors)
  <2>1. PICK e \in project.errors[m] : TRUE
    BY <1>2
  <2>2. m \in RelatedTo(e, ms) /\ e \in errors
    BY <1>1, <2>1
  <2> QED BY <2>2 DEF Suspects, Guilty
<1>3. ASSUME NEW m \in Guilty(ms, errors) PROVE m \in ms /\ project.errors[m] # {}
  <2>1. PICK e \in errors : Cardinality(RelatedTo(e, ms)) = 1 /\ m \in RelatedTo(e, ms)
    BY <1>3 DEF Guilty
  <2>2. PICK k \in ms : e \in project.errors[k]
    BY <2>1
  <2>3. k \in RelatedTo(e, ms)
    BY <1>1, <2>2
  <2>4. RelatedTo(e, ms) \subseteq ms
    BY DEF RelatedTo
  <2>5. IsFiniteSet(RelatedTo(e, ms))
    BY <2>4, FS_Subset
  <2>6. PICK x : RelatedTo(e, ms) = {x}
    BY <2>1, <2>5, FS_Singleton
  <2>7. m = k
    BY <2>1, <2>3, <2>6
  <2> QED BY <2>2, <2>7
<1> QED BY <1>2, <1>3

\* The set of the elements of a sequence is finite.
LEMMA FiniteRange ==
  ASSUME NEW M, NEW q \in Seq(M)
  PROVE  IsFiniteSet(Range(q))
<1>1. DOMAIN q = 1..Len(q) /\ Len(q) \in Nat
  OBVIOUS
<1>2. IsFiniteSet(1..Len(q))
  BY <1>1, FS_Interval
<1>3. IsFiniteSet({q[i] : i \in 1..Len(q)})
  <2> DEFINE f == [i \in 1..Len(q) |-> q[i]]
             S == {q[i] : i \in 1..Len(q)}
  <2>1. f \in Surjection(1..Len(q), S)
    BY DEF Surjection
  <2> QED BY <1>2, <2>1, FS_Surjection
<1> QED BY <1>1, <1>3 DEF Range

\* The mutants of a group that has more of them, except those that are tried alone.
LEMMA GroupOfManyIsChecked ==
  ASSUME CheckInv, tsStage = "check", alone = << >>, groups # << >>, project' = project, "original" \notin MutantSet,
         NEW group, group = Head(groups), InProject(Head(group)), Len(group) # 1,
         NEW errors, errors = Report(compiled, WithMutants(Range(group))),
         compiled' = IF Suspects(Range(group), errors) = {} THEN WithMutants(Range(group)) ELSE Original,
         alone' = Without(group, (Range(group) \ Suspects(Range(group), errors)) \cup Guilty(Range(group), errors)),
         verdicts' = [m \in MutantSet |-> verdicts'[m]],
         \A m \in MutantSet : verdicts'[m] = IF m \in Guilty(Range(group), errors) THEN "CompileError"
                                              ELSE IF m \in Range(group) THEN "Passed" ELSE verdicts[m],
         tsStage' = tsStage
  PROVE  GroupIsChecked(group)
<1>0. PICK ms : ms = Range(group)
  OBVIOUS
<1> DEFINE suspects == Suspects(ms, errors)
           guilty == Guilty(ms, errors)
<1>1. /\ group \in Seq(MutantSet) /\ ms \in SUBSET MutantSet /\ GroupIsSound(group) /\ Head(group) \in ms
      /\ \A m \in ms : Open(m)
  BY <1>0, FirstGroup
<1>2. TypesOK /\ OutsidersCompile
  BY DEF CheckInv
<1>3. /\ project.fast /\ AllIndependent(group) /\ \A m \in ms : InProject(m)
  BY <1>0, <1>1, <1>2 DEF GroupIsSound, TypesOK
<1>4. AllDiffer(group) /\ OwnHomes(ms)
  <2>1. \A m : ~Independent(m, m)
    BY ParentsSelf DEF Independent
  <2>2. AllDiffer(group)
    BY <1>3, <2>1 DEF AllDiffer, AllIndependent
  <2>3. ASSUME NEW m \in ms, NEW k \in ms, m # k PROVE Home(m) # Home(k)
    <3>0. DOMAIN group = 1..Len(group)
      BY <1>1
    <3>1. PICK a \in 1..Len(group) : m = group[a]
      BY <1>0, <3>0 DEF Range
    <3>2. PICK b \in 1..Len(group) : k = group[b]
      BY <1>0, <3>0 DEF Range
    <3>3. Independent(m, k)
      BY <1>3, <2>3, <3>1, <3>2 DEF AllIndependent
    <3> QED BY <3>3, ParentsSelf DEF Independent
  <2> QED BY <2>2, <2>3 DEF OwnHomes
<1>5. errors = UNION {project.errors[m] : m \in ms}
  BY <1>0, <1>1, <1>2, <1>4, AllIsReported
<1>6. WithMutants(ms) \in [TsFiles -> ms \cup {"original"}]
  BY <1>1, <1>2, <1>4, WithMutantsFacts
<1>7. suspects \subseteq ms /\ guilty \subseteq ms
  BY BlameIsWithin
<1> HIDE DEF suspects, guilty
<1>8. /\ compiled' = IF suspects = {} THEN WithMutants(ms) ELSE Original
      /\ alone' = Without(group, (ms \ suspects) \cup guilty)
      /\ \A m \in MutantSet : verdicts'[m] = IF m \in guilty THEN "CompileError" ELSE IF m \in ms THEN "Passed" ELSE verdicts[m]
  BY <1>0 DEF suspects, guilty
<1>9. compiled' \in [TsFiles -> ms \cup {"original"}]
  BY <1>6, <1>8 DEF Original
<1>10. /\ \A m \in guilty : verdicts'[m] = "CompileError"
       /\ \A m \in ms \ guilty : verdicts'[m] = "Passed"
       /\ \A m \in MutantSet \ ms : verdicts'[m] = verdicts[m]
  BY <1>1, <1>7, <1>8
<1>11. verdicts' \in [MutantSet -> {"none", "Passed", "CompileError"}]
  <2>1. \A m \in MutantSet : verdicts'[m] \in {"none", "Passed", "CompileError"}
    BY <1>2, <1>10 DEF TypesOK
  <2> QED BY <2>1
<1>12. TouchesOnly(ms)
  <2>1. ASSUME NEW m \in MutantSet \ ms, NEW f \in TsFiles PROVE compiled'[f] # m
    BY <1>9, <2>1
  <2> QED BY <1>10, <2>1 DEF TouchesOnly
<1>13. /\ alone' \in Seq(MutantSet) /\ AllDiffer(alone')
       /\ Range(alone') = ms \ ((ms \ suspects) \cup guilty)
  BY <1>0, <1>1, <1>4, <1>8, WithoutFacts
<1>14. Range(alone') = suspects \ guilty
  BY <1>7, <1>13
<1>15. ASSUME NEW m \in Range(alone') PROVE Open(m)'
  <2>1. m \in suspects /\ m \in ms \ guilty
    BY <1>7, <1>14
  <2>2. compiled' = Original
    BY <1>8, <2>1
  <2>3. \A f \in TsFiles : compiled'[f] # m
    BY <1>1, <2>1, <2>2 DEF Original
  <2> QED BY <1>10, <2>1, <2>3 DEF Open
<1>16. ASSUME Local, NEW m \in ms, m \notin Range(alone') PROVE Judged(m)'
  <2>1. IsFiniteSet(ms)
    BY <1>0, <1>1, FiniteRange
  <2>2. /\ project.errors[m] # {} => m \in suspects \cup guilty
        /\ m \in guilty => project.errors[m] # {}
    BY <1>1, <1>2, <1>5, <1>16, <2>1, BlameIsRight DEF suspects, guilty
  <2>3. m \in guilty <=> project.errors[m] # {}
    BY <1>14, <1>16, <2>2
  <2>4. verdicts'[m] = "CompileError" <=> m \in guilty
    BY <1>10, <1>16
  <2> QED BY <2>3, <2>4 DEF Judged
<1>17. compiled' \in [TsFiles -> MutantSet \cup {"original"}]
  BY <1>1, <1>9
<1> QED BY <1>0, <1>3, <1>7, <1>11, <1>12, <1>13, <1>14, <1>15, <1>16, <1>17 DEF GroupIsChecked

\* check() in the words of these lemmas.
LEMMA CheckCases ==
  ASSUME Check, NEW group, group = Head(groups), NEW errors, errors = Report(compiled, WithMutants(Range(group)))
  PROVE  /\ ~InProject(Head(group)) =>
              Verdict(Range(group), "Passed") /\ tsStage' = tsStage /\ alone' = alone /\ compiled' = compiled
         /\ InProject(Head(group)) /\ Len(group) = 1 =>
              /\ compiled' = WithMutants(Range(group)) /\ tsStage' = tsStage /\ alone' = alone
              /\ Verdict(Range(group), IF errors = {} THEN "Passed" ELSE "CompileError")
         /\ InProject(Head(group)) /\ Len(group) > 1 /\ OtherFile \in errors =>
              tsStage' = "rejected" /\ alone' = alone /\ compiled' = compiled /\ verdicts' = verdicts
         /\ InProject(Head(group)) /\ Len(group) # 1 /\ ~(Len(group) > 1 /\ OtherFile \in errors) =>
              /\ compiled' = IF Suspects(Range(group), errors) = {} THEN WithMutants(Range(group)) ELSE Original
              /\ alone' = Without(group, (Range(group) \ Suspects(Range(group), errors)) \cup Guilty(Range(group), errors))
              /\ verdicts' = [m \in MutantSet |-> verdicts'[m]]
              /\ \A m \in MutantSet : verdicts'[m] = IF m \in Guilty(Range(group), errors) THEN "CompileError"
                                                      ELSE IF m \in Range(group) THEN "Passed" ELSE verdicts[m]
              /\ tsStage' = tsStage
<1> DEFINE G == Head(groups)
           ms == Range(G)
           E == Report(compiled, WithMutants(ms))
           suspects == Suspects(ms, E)
           guilty == Guilty(ms, E)
<1>1. (CASE ~InProject(Head(G)) ->
              Verdict(ms, "Passed") /\ UNCHANGED <<tsStage, alone, content, compiled>>
         [] InProject(Head(G)) /\ Len(G) = 1 ->
              /\ content' = WithMutants(ms) /\ compiled' = WithMutants(ms)
              /\ Verdict(ms, IF E = {} THEN "Passed" ELSE "CompileError")
              /\ UNCHANGED <<tsStage, alone>>
         [] InProject(Head(G)) /\ Len(G) > 1 /\ OtherFile \in E ->
              tsStage' = "rejected" /\ UNCHANGED <<alone, content, compiled, verdicts>>
         [] OTHER ->
              /\ content' = IF suspects = {} THEN WithMutants(ms) ELSE Original
              /\ compiled' = content'
              /\ alone' = Without(G, (ms \ suspects) \cup guilty)
              /\ verdicts' = [m \in MutantSet |-> CASE m \in guilty -> "CompileError"
                                                    [] m \in ms \ guilty -> "Passed"
                                                    [] OTHER -> verdicts[m]]
              /\ UNCHANGED tsStage)
  BY DEF Check, Suspects, Guilty
<1> HIDE DEF suspects, guilty
<1>3. errors = E /\ Range(group) = ms /\ group = G
  OBVIOUS
<1>4. Suspects(Range(group), errors) = suspects /\ Guilty(Range(group), errors) = guilty
  BY <1>3 DEF suspects, guilty
<1> HIDE DEF ms, E, G
<1>6. ~InProject(Head(G)) => Verdict(ms, "Passed") /\ tsStage' = tsStage /\ alone' = alone /\ compiled' = compiled
  BY <1>1
<1>7. InProject(Head(G)) /\ Len(G) = 1 =>
        /\ compiled' = WithMutants(ms) /\ tsStage' = tsStage /\ alone' = alone
        /\ Verdict(ms, IF E = {} THEN "Passed" ELSE "CompileError")
  BY <1>1
<1>8. InProject(Head(G)) /\ Len(G) > 1 /\ OtherFile \in E =>
        tsStage' = "rejected" /\ alone' = alone /\ compiled' = compiled /\ verdicts' = verdicts
  BY <1>1
<1>9. InProject(Head(G)) /\ Len(G) # 1 /\ ~(Len(G) > 1 /\ OtherFile \in E) =>
        /\ compiled' = IF suspects = {} THEN WithMutants(ms) ELSE Original
        /\ alone' = Without(G, (ms \ suspects) \cup guilty)
        /\ verdicts' = [m \in MutantSet |-> CASE m \in guilty -> "CompileError"
                                              [] m \in ms \ guilty -> "Passed"
                                              [] OTHER -> verdicts[m]]
        /\ tsStage' = tsStage
  BY <1>1
<1>10. InProject(Head(G)) /\ Len(G) # 1 /\ ~(Len(G) > 1 /\ OtherFile \in E) =>
        /\ verdicts' = [m \in MutantSet |-> verdicts'[m]]
        /\ \A m \in MutantSet : verdicts'[m] = IF m \in guilty THEN "CompileError" ELSE IF m \in ms THEN "Passed" ELSE verdicts[m]
  BY <1>9
<1> QED BY <1>3, <1>4, <1>6, <1>7, <1>8, <1>9, <1>10

LEMMA CheckStep ==
  ASSUME CheckInv, Check, "original" \notin MutantSet
  PROVE  CheckInv'
<1>0. PICK group : group = Head(groups)
  OBVIOUS
<1>5. PICK errors : errors = Report(compiled, WithMutants(Range(group)))
  OBVIOUS
<1>1. /\ tsStage = "check" /\ alone = << >> /\ groups # << >> /\ groups' = Tail(groups)
      /\ project' = project /\ ungrouped' = ungrouped
  BY DEF Check
<1>2. CASE ~InProject(Head(group))
  <2>1. Verdict(Range(group), "Passed") /\ tsStage' = tsStage /\ alone' = alone /\ compiled' = compiled
    BY <1>0, <1>5, <1>2, CheckCases
  <2>2. GroupIsChecked(group)
    BY <1>0, <1>1, <1>2, <2>1, OutsidersAreChecked
  <2> QED BY <1>0, <1>1, <2>2, GroupLeaves
<1>3. CASE InProject(Head(group)) /\ Len(group) = 1
  <2>1. /\ compiled' = WithMutants(Range(group)) /\ tsStage' = tsStage /\ alone' = alone
        /\ Verdict(Range(group), IF Report(compiled, WithMutants(Range(group))) = {} THEN "Passed" ELSE "CompileError")
    BY <1>0, <1>5, <1>3, CheckCases
  <2>2. GroupIsChecked(group)
    BY <1>0, <1>1, <1>3, <2>1, SingleGroupIsChecked
  <2> QED BY <1>0, <1>1, <2>2, GroupLeaves
<1>4. CASE InProject(Head(group)) /\ Len(group) # 1
  <2>1. Len(group) > 1
    <3>1. group \in Seq(MutantSet) /\ group # << >>
      BY <1>0, <1>1, FirstGroup DEF GroupIsSound
    <3>2. Len(group) \in Nat /\ Len(group) # 0
      BY <3>1
    <3>3. \A l \in Nat : l # 0 /\ l # 1 => l > 1
      OBVIOUS
    <3> QED BY <1>4, <3>2, <3>3
  <2>2. CASE OtherFile \in errors
    <3>1. /\ tsStage' = "rejected" /\ alone' = alone /\ compiled' = compiled /\ verdicts' = verdicts
      BY <1>0, <1>5, <1>4, <2>1, <2>2, CheckCases
    <3>2. TypesOK
      BY DEF CheckInv
    <3>3. GroupIsChecked(group)
      <4>1. Range(alone') = {} /\ AllDiffer(alone')
        BY <1>1, <3>1 DEF Range, AllDiffer
      <4> QED BY <1>1, <3>1, <3>2, <4>1 DEF GroupIsChecked, TouchesOnly, TypesOK
    <3> QED BY <1>0, <1>1, <3>3, GroupLeaves
  <2>3. CASE OtherFile \notin errors
    <3>1. /\ compiled' = IF Suspects(Range(group), errors) = {} THEN WithMutants(Range(group)) ELSE Original
          /\ alone' = Without(group, (Range(group) \ Suspects(Range(group), errors)) \cup Guilty(Range(group), errors))
          /\ verdicts' = [m \in MutantSet |-> verdicts'[m]]
          /\ \A m \in MutantSet : verdicts'[m] = IF m \in Guilty(Range(group), errors) THEN "CompileError"
                                                  ELSE IF m \in Range(group) THEN "Passed" ELSE verdicts[m]
          /\ tsStage' = tsStage
      BY <1>0, <1>5, <1>4, <2>1, <2>3, CheckCases
    <3>2. GroupIsChecked(group)
      BY <1>0, <1>5, <1>1, <1>4, <3>1, GroupOfManyIsChecked
    <3> QED BY <1>0, <1>1, <3>2, GroupLeaves
  <2> QED BY <2>2, <2>3
<1> QED BY <1>2, <1>3, <1>4

-----------------------------------------------------------------------------
(* The theorem *)

THEOREM CheckerInvariant ==
  ASSUME InputIsSound
  PROVE  TsSpec => []CheckInv
<1>0. "original" \notin MutantSet
  BY DEF InputIsSound, MutantSet
<1>1. TsInit => CheckInv
  BY InitCheck
<1>2. CheckInv /\ [TsNext]_tsVars => CheckInv'
  BY <1>0, InitCompilerStep, GroupStep, CheckStep, CheckAloneStep, AllCheckedStep, StutterCheck DEF TsNext
<1> QED BY <1>1, <1>2, PTL DEF TsSpec

\* The verdicts of the invariant, once everything is checked.
LEMMA CheckedVerdicts ==
  ASSUME CheckInv
  PROVE  VerdictsAreRight
<1> SUFFICES ASSUME tsStage = "done", ~project.fast \/ Local, NEW m \in MutantSet PROVE Judged(m)
  BY DEF VerdictsAreRight, Local, Judged
<1>1. StagesAreRight /\ OthersAreJudged
  BY DEF CheckInv
<1>2. ungrouped = << >> /\ groups = << >> /\ alone = << >>
  BY <1>1 DEF StagesAreRight
<1>3. Range(<< >>) = {} /\ Len(<< >>) = 0
  BY DEF Range
<1>4. m \notin Range(ungrouped) /\ ~InGroups(m) /\ m \notin Range(alone)
  BY <1>2, <1>3 DEF InGroups
<1> QED BY <1>1, <1>4 DEF OthersAreJudged

LEMMA CheckedGroups ==
  ASSUME CheckInv
  PROVE  GroupsAreIndependent
<1>1. PlacesAreDisjoint /\ GroupsAreSound /\ TypesOK
  BY DEF CheckInv
<1> SUFFICES ASSUME NEW i \in 1..Len(groups), NEW j \in 1..Len(groups), NEW m \in Range(groups[i]), NEW n \in Range(groups[j])
             PROVE  /\ m = n => i = j
                    /\ i = j /\ m # n /\ InProject(m) /\ InProject(n) => Home(m) \notin Parents(Home(n))
  BY DEF GroupsAreIndependent
<1>2. m = n => i = j
  BY <1>1 DEF PlacesAreDisjoint
<1>3. ASSUME i = j, m # n, InProject(m), InProject(n) PROVE Home(m) \notin Parents(Home(n))
  <2>1. GroupIsSound(groups[i]) /\ groups[i] \in Seq(MutantSet)
    BY <1>1 DEF GroupsAreSound, TypesOK
  <2>2. PICK a \in 1..Len(groups[i]) : m = groups[i][a]
    BY <2>1 DEF Range
  <2>3. PICK b \in 1..Len(groups[i]) : n = groups[i][b]
    BY <1>3, <2>1 DEF Range
  <2>4. a # b
    BY <1>3, <2>2, <2>3
  <2>5. Len(groups[i]) # 1
    <3>1. ASSUME Len(groups[i]) = 1 PROVE a = 1 /\ b = 1
      BY <3>1
    <3> QED BY <2>4, <3>1
  <2>6. AllIndependent(groups[i])
    BY <1>3, <2>1, <2>5 DEF GroupIsSound
  <2>7. Independent(m, n)
    BY <2>2, <2>3, <2>4, <2>6 DEF AllIndependent
  <2> QED BY <2>7 DEF Independent
<1> QED BY <1>2, <1>3

\* A mutant is a compile error exactly if it does not compile by itself, and
\* the groups that are compiled together are independent (TypescriptChecker.check
\* and group): for any number of mutants, files and imports.
THEOREM CheckerTypesAreChecked ==
  ASSUME InputIsSound
  PROVE  TsSpec => []TypesAreChecked
<1>1. CheckInv => TypesAreChecked
  BY CheckedVerdicts, CheckedGroups DEF TypesAreChecked
<1>2. TsSpec => []CheckInv
  BY CheckerInvariant
<1> QED BY <1>1, <1>2, PTL

-----------------------------------------------------------------------------
(* CommandTestRunner *)

Process == [mutant : Runs, alive : BOOLEAN, code : {0, 1}, stuck : BOOLEAN]

Reasons == {"timeout", "retry", "killAgain", "error", "dispose"}

\* What a run of the command runner leaves in the fields of both decorators.
CommandTypes ==
  /\ job \in Runs \cup {"none"}
  /\ procs \in Seq(Process)
  /\ verdict \in [Runs -> {"none", "survived", "killed", "error", "timeout", "rejected"}]
  /\ shut \in BOOLEAN
  /\ kill \in [of : Nat, by : Reasons \cup {"none"}]

\* The handler is that of the last process, and of the run that is awaited.
HandlerInv == handler # 0 => handler = Len(procs) /\ job # "none"

\* Who is being killed, and what follows for the run.
KillInv ==
  /\ kill = Command!NoKill \/ (kill.of \in 1..Len(procs) /\ kill.by \in Reasons)
  /\ kill.by \in {"timeout", "retry", "killAgain"} => kill.of = Len(procs) /\ job # "none" /\ handler = 0
  /\ kill.by = "error" => kill.of = Len(procs) /\ handler = Len(procs) /\ ~procs[kill.of].alive
  /\ kill.by = "dispose" => shut /\ job = "none"
  /\ kill.by \in {"retry", "killAgain"} => procs[kill.of].stuck

\* The run that is awaited has no verdict; its process is the last one.
JobInv ==
  job # "none" =>
    /\ Len(procs) # 0 /\ procs[Len(procs)].mutant = job /\ verdict[job] = "none"
    /\ handler # 0 \/ kill.by \in {"timeout", "retry", "killAgain"}

\* Nothing is alive that nobody can reach.
AliveInv == \A p \in 1..Len(procs) : procs[p].alive => p = handler \/ p = kill.of \/ procs[p].stuck

CommandInv == CommandTypes /\ HandlerInv /\ KillInv /\ JobInv /\ AliveInv /\ Command!OwnVerdict

\* The verdict of one mutant.
Owns(m) ==
  verdict[m] \in {"survived", "killed"} =>
    \E p \in 1..Len(procs) :
      /\ procs[p].mutant = m /\ ~procs[p].alive
      /\ verdict[m] = "survived" <=> procs[p].code = 0
      /\ \A q \in p+1..Len(procs) : procs[q].mutant # m

\* Processes stay what they are: nothing is forgotten, what has ended has ended.
ProcessesStay ==
  /\ Len(procs') \in Nat /\ Len(procs) <= Len(procs')
  /\ \A p \in 1..Len(procs) : /\ procs'[p].mutant = procs[p].mutant
                              /\ ~procs[p].alive => ~procs'[p].alive /\ procs'[p].code = procs[p].code

\* A verdict stays right as long as no other process is started for its mutant.
LEMMA VerdictStays ==
  ASSUME CommandTypes, NEW m \in Runs, Owns(m), ProcessesStay, verdict'[m] = verdict[m],
         verdict[m] \notin {"survived", "killed"} \/ \A q \in (Len(procs) + 1)..Len(procs') : procs'[q].mutant # m
  PROVE  Owns(m)'
<1>1. CASE verdict[m] \notin {"survived", "killed"}
  BY <1>1 DEF Owns
<1>2. CASE verdict[m] \in {"survived", "killed"} /\ \A q \in (Len(procs) + 1)..Len(procs') : procs'[q].mutant # m
  <2>1. PICK p \in 1..Len(procs) :
          /\ procs[p].mutant = m /\ ~procs[p].alive
          /\ verdict[m] = "survived" <=> procs[p].code = 0
          /\ \A q \in p+1..Len(procs) : procs[q].mutant # m
    BY <1>2 DEF Owns
  <2>2. Len(procs) \in Nat /\ Len(procs') \in Nat /\ Len(procs) <= Len(procs')
    BY DEF CommandTypes, ProcessesStay
  <2>3. p \in 1..Len(procs') /\ procs'[p].mutant = m /\ ~procs'[p].alive /\ procs'[p].code = procs[p].code
    BY <2>1, <2>2 DEF ProcessesStay
  <2>4. ASSUME NEW q \in p+1..Len(procs') PROVE procs'[q].mutant # m
    <3>1. CASE q \in p+1..Len(procs)
      <4>1. q \in 1..Len(procs)
        BY <2>2, <3>1
      <4> QED BY <2>1, <3>1, <4>1 DEF ProcessesStay
    <3>2. CASE q \in (Len(procs) + 1)..Len(procs')
      BY <1>2, <3>2
    <3>3. q \in p+1..Len(procs) \/ q \in (Len(procs) + 1)..Len(procs')
      BY <2>2
    <3> QED BY <3>1, <3>2, <3>3
  <2> QED BY <2>1, <2>3, <2>4 DEF Owns
<1> QED BY <1>1, <1>2

LEMMA OwnVerdictIsAll == Command!OwnVerdict <=> \A m \in Runs : Owns(m)
BY DEF Command!OwnVerdict, Owns

\* One more process.
LEMMA ProcessIsAdded ==
  ASSUME CommandTypes, NEW m \in Runs, NEW started \in BOOLEAN,
         procs' = Append(procs, [mutant |-> m, alive |-> started, code |-> 0, stuck |-> FALSE])
  PROVE  /\ procs' \in Seq(Process) /\ Len(procs) \in Nat /\ Len(procs') = Len(procs) + 1 /\ ProcessesStay
         /\ \A p \in 1..Len(procs) : procs'[p] = procs[p]
         /\ \A p \in 1..Len(procs') : p \in 1..Len(procs) \/ p = Len(procs')
         /\ procs'[Len(procs')].mutant = m /\ procs'[Len(procs')].alive = started
<1> DEFINE new == [mutant |-> m, alive |-> started, code |-> 0, stuck |-> FALSE]
           n == Len(procs)
<1>1. new \in Process /\ new.mutant = m /\ new.alive = started
  BY DEF Process
<1>2. procs \in Seq(Process) /\ procs' = Append(procs, new)
  BY DEF CommandTypes
<1> HIDE DEF new
<1>3. /\ procs' \in Seq(Process) /\ n \in Nat /\ Len(procs') = n + 1
      /\ \A p \in 1..n : procs'[p] = procs[p]
      /\ procs'[n + 1] = new
  BY <1>1, <1>2
<1> HIDE DEF n
<1>4. \A p \in 1..Len(procs') : p \in 1..n \/ p = Len(procs')
  BY <1>3
<1>5. ProcessesStay
  <2>1. Len(procs') \in Nat /\ n <= Len(procs')
    BY <1>3
  <2> QED BY <1>3, <2>1 DEF ProcessesStay, n
<1> QED BY <1>1, <1>3, <1>4, <1>5 DEF n

\* A process ends, is killed, or cannot be.
LEMMA ProcessIsChanged ==
  ASSUME CommandTypes, NEW i \in 1..Len(procs), NEW new \in Process, procs' = [procs EXCEPT ![i] = new],
         new.mutant = procs[i].mutant, procs[i].alive \/ new.code = procs[i].code, procs[i].alive \/ ~new.alive
  PROVE  /\ procs' \in Seq(Process) /\ Len(procs) \in Nat /\ Len(procs') = Len(procs) /\ ProcessesStay
         /\ \A p \in 1..Len(procs) : p # i => procs'[p] = procs[p]
         /\ procs'[i] = new
<1>1. procs \in Seq(Process) /\ Len(procs) \in Nat
  BY DEF CommandTypes
<1>2. procs' \in Seq(Process) /\ Len(procs') = Len(procs)
  BY <1>1
<1>3. \A p \in 1..Len(procs) : procs'[p] = IF p = i THEN new ELSE procs[p]
  BY <1>1
<1>4. ProcessesStay
  BY <1>1, <1>2, <1>3 DEF ProcessesStay
<1> QED BY <1>1, <1>2, <1>3, <1>4

\* Nothing new with the processes.
LEMMA ProcessesUnchanged ==
  ASSUME CommandTypes, procs' = procs
  PROVE  ProcessesStay
BY DEF CommandTypes, ProcessesStay

\* Init and the steps of the command runner.
LEMMA InitCommand ==
  ASSUME Command!Init
  PROVE  CommandInv
<1>1. /\ job = "none" /\ procs = << >> /\ handler = 0 /\ kill.of = 0 /\ kill.by = "none" /\ kill = Command!NoKill
      /\ verdict = [m \in Runs |-> "none"] /\ shut = FALSE
  BY DEF Command!Init, Command!NoKill
<1>2. CommandTypes
  <2>1. << >> \in Seq(Process)
    OBVIOUS
  <2>2. verdict \in [Runs -> {"none", "survived", "killed", "error", "timeout", "rejected"}]
    BY <1>1
  <2>3. kill \in [of : Nat, by : Reasons \cup {"none"}]
    BY DEF Command!Init, Command!NoKill
  <2> QED BY <1>1, <2>1, <2>2, <2>3 DEF CommandTypes
<1>3. Len(procs) = 0
  BY <1>1
<1>4. HandlerInv /\ JobInv /\ AliveInv
  BY <1>1, <1>3 DEF HandlerInv, JobInv, AliveInv
<1>5. KillInv
  BY <1>1 DEF KillInv
<1>6. Command!OwnVerdict
  BY <1>1 DEF Command!OwnVerdict
<1> QED BY <1>2, <1>4, <1>5, <1>6 DEF CommandInv

\* A verdict is given to the run that is awaited, or to none.
LEMMA OnlyTheJob ==
  ASSUME CommandInv, "none" \notin Runs, NEW j \in Runs \cup {"none"}, j = job, ProcessesStay, Len(procs') = Len(procs),
         NEW answer,
         \/ verdict' = verdict
         \/ /\ j \in Runs /\ verdict' = [verdict EXCEPT ![j] = answer]
            /\ answer \in {"survived", "killed"} => Owns(j)'
  PROVE  Command!OwnVerdict'
<1>1. CommandTypes /\ Command!OwnVerdict /\ Len(procs) \in Nat
  BY DEF CommandInv, CommandTypes
<1>2. \A q \in (Len(procs) + 1)..Len(procs') : FALSE
  BY <1>1
<1>3. ASSUME NEW m \in Runs PROVE Owns(m)'
  <2>1. Owns(m)
    BY <1>1, OwnVerdictIsAll
  <2>2. CASE verdict'[m] = verdict[m]
    BY <1>1, <1>2, <2>1, <2>2, VerdictStays
  <2>3. CASE verdict'[m] # verdict[m]
    <3>1. m = j /\ verdict'[m] = answer /\ (answer \in {"survived", "killed"} => Owns(j)')
      BY <1>1, <2>3 DEF CommandTypes
    <3> QED BY <3>1 DEF Owns
  <2> QED BY <2>2, <2>3
<1> QED BY <1>3, OwnVerdictIsAll DEF Command!OwnVerdict, Owns

\* The run that is awaited gets its answer.
LEMMA RunIsAnswered ==
  ASSUME CommandInv, "none" \notin Runs, NEW j \in Runs, j = job,
         NEW answer \in {"survived", "killed", "error", "timeout", "rejected"},
         verdict' = [verdict EXCEPT ![j] = answer], job' = "none", handler' = 0, shut' \in BOOLEAN,
         procs' \in Seq(Process), Len(procs') = Len(procs), ProcessesStay,
         answer \in {"survived", "killed"} => Owns(j)',
         \/ kill' = Command!NoKill
         \/ kill' = [of |-> Len(procs), by |-> "dispose"] /\ Len(procs) \in 1..Len(procs) /\ shut',
         \A p \in 1..Len(procs') : procs'[p].alive => p = kill'.of \/ procs'[p].stuck
  PROVE  CommandInv'
<1>1. CommandTypes
  BY DEF CommandInv
<1>2. CommandTypes'
  <2>1. verdict' \in [Runs -> {"none", "survived", "killed", "error", "timeout", "rejected"}]
    BY <1>1 DEF CommandTypes
  <2>2. Len(procs) \in Nat
    BY <1>1 DEF CommandTypes
  <2>3. kill' \in [of : Nat, by : Reasons \cup {"none"}]
    BY <2>2 DEF Command!NoKill, Reasons
  <2> QED BY <2>1, <2>3 DEF CommandTypes
<1>3. HandlerInv' /\ JobInv' /\ AliveInv'
  BY DEF HandlerInv, JobInv, AliveInv
<1>4. KillInv'
  <2>1. CASE kill' = Command!NoKill
    <3>1. kill'.by = "none"
      BY <2>1 DEF Command!NoKill
    <3> QED BY <2>1, <3>1 DEF KillInv, Command!NoKill
  <2>2. CASE kill' = [of |-> Len(procs), by |-> "dispose"] /\ Len(procs) \in 1..Len(procs) /\ shut'
    <3>1. kill'.of = Len(procs) /\ kill'.by = "dispose"
      BY <2>2
    <3> QED BY <2>2, <3>1 DEF KillInv, Reasons
  <2> QED BY <2>1, <2>2
<1>5. Command!OwnVerdict'
  BY OnlyTheJob
<1> QED BY <1>2, <1>3, <1>4, <1>5 DEF CommandInv

\* A process is started, while what is still alive cannot be killed.
LEMMA ExecStep ==
  ASSUME CommandInv, "none" \notin Runs, NEW m \in Runs, Command!Exec(m), job' = m,
         verdict' = verdict, shut' = shut, verdict[m] = "none",
         \A p \in 1..Len(procs) : procs[p].alive => procs[p].stuck
  PROVE  CommandInv'
<1>1. PICK started \in BOOLEAN :
        /\ procs' = Append(procs, [mutant |-> m, alive |-> started, code |-> 0, stuck |-> FALSE])
        /\ handler' = Len(procs')
        /\ kill' = IF started THEN Command!NoKill ELSE [of |-> Len(procs'), by |-> "error"]
  BY DEF Command!Exec
<1>2. CommandTypes /\ Command!OwnVerdict
  BY DEF CommandInv
<1>3. /\ procs' \in Seq(Process) /\ Len(procs) \in Nat /\ Len(procs') = Len(procs) + 1 /\ ProcessesStay
      /\ \A p \in 1..Len(procs) : procs'[p] = procs[p]
      /\ \A p \in 1..Len(procs') : p \in 1..Len(procs) \/ p = Len(procs')
      /\ procs'[Len(procs')].mutant = m /\ procs'[Len(procs')].alive = started
  BY <1>1, <1>2, ProcessIsAdded
<1>4. Len(procs') \in Nat /\ Len(procs') \in 1..Len(procs') /\ Len(procs') # 0
  BY <1>3
<1>5. CommandTypes' /\ HandlerInv'
  <2>1. kill' \in [of : Nat, by : Reasons \cup {"none"}]
    BY <1>1, <1>4 DEF Command!NoKill, Reasons
  <2> QED BY <1>1, <1>2, <1>3, <2>1 DEF CommandTypes, HandlerInv
<1>6. JobInv'
  BY <1>1, <1>3, <1>4 DEF JobInv
<1>7. KillInv'
  <2>1. CASE started
    <3>1. kill' = Command!NoKill /\ kill'.by = "none"
      BY <1>1, <2>1 DEF Command!NoKill
    <3> QED BY <3>1 DEF KillInv, Command!NoKill
  <2>2. CASE ~started
    <3>1. kill'.of = Len(procs') /\ kill'.by = "error"
      BY <1>1, <2>2
    <3> QED BY <1>1, <1>3, <1>4, <2>2, <3>1 DEF KillInv, Reasons
  <2> QED BY <2>1, <2>2
<1>8. AliveInv'
  <2>1. ASSUME NEW p \in 1..Len(procs'), procs'[p].alive PROVE p = handler' \/ procs'[p].stuck
    BY <1>1, <1>3, <2>1
  <2> QED BY <2>1 DEF AliveInv
<1>9. Command!OwnVerdict'
  <2>1. ASSUME NEW k \in Runs PROVE Owns(k)'
    <3>1. \A q \in (Len(procs) + 1)..Len(procs') : procs'[q].mutant = m
      BY <1>3
    <3>2. Owns(k) /\ (k = m => verdict[k] = "none")
      BY <1>2, OwnVerdictIsAll
    <3> QED BY <1>2, <1>3, <3>1, <3>2, VerdictStays
  <2> QED BY <2>1, OwnVerdictIsAll DEF Command!OwnVerdict, Owns
<1> QED BY <1>5, <1>6, <1>7, <1>8, <1>9 DEF CommandInv

LEMMA StartRunStep ==
  ASSUME CommandInv, "none" \notin Runs, NEW m \in Runs, Command!StartRun(m)
  PROVE  CommandInv'
<1>1. /\ job = "none" /\ ~shut /\ verdict[m] = "none" /\ job' = m /\ verdict' = verdict /\ shut' = shut /\ Command!Exec(m)
  BY DEF Command!StartRun
<1>2. HandlerInv /\ KillInv /\ AliveInv /\ CommandTypes
  BY DEF CommandInv
<1>3. handler = 0
  BY <1>1, <1>2 DEF HandlerInv
<1>4. kill = Command!NoKill
  <2>1. CASE kill.of \in 1..Len(procs) /\ kill.by \in Reasons
    <3>1. kill.by # "error"
      <4>1. Len(procs) \in Nat
        BY <1>2 DEF CommandTypes
      <4>2. kill.of # 0
        BY <2>1, <4>1
      <4> QED BY <1>2, <1>3, <4>2 DEF KillInv
    <3> QED BY <1>1, <1>2, <2>1, <3>1 DEF KillInv, Reasons
  <2> QED BY <1>2, <2>1 DEF KillInv
<1>5. ASSUME NEW p \in 1..Len(procs), procs[p].alive PROVE procs[p].stuck
  <2>1. kill.of = 0 /\ p # 0
    BY <1>2, <1>4 DEF Command!NoKill, CommandTypes
  <2> QED BY <1>2, <1>3, <1>5, <2>1 DEF AliveInv
<1> QED BY <1>1, <1>5, ExecStep

\* A process ends.
LEMMA AliveIsSet ==
  ASSUME NEW r \in Process, NEW e \in BOOLEAN
  PROVE  [r EXCEPT !.alive = e] = [mutant |-> r.mutant, alive |-> e, code |-> r.code, stuck |-> r.stuck]
BY DEF Process

LEMMA CodeIsSet ==
  ASSUME NEW r \in Process, NEW e \in {0, 1}
  PROVE  [r EXCEPT !.code = e] = [mutant |-> r.mutant, alive |-> r.alive, code |-> e, stuck |-> r.stuck]
BY DEF Process

LEMMA BothAreSet ==
  ASSUME NEW r \in Process, NEW e \in BOOLEAN, NEW exit \in {0, 1}, NEW s, s = [r EXCEPT !.alive = e]
  PROVE  [s EXCEPT !.code = exit] = [mutant |-> r.mutant, alive |-> e, code |-> exit, stuck |-> r.stuck]
<1>1. s = [mutant |-> r.mutant, alive |-> e, code |-> r.code, stuck |-> r.stuck]
  BY AliveIsSet
<1>2. s \in Process /\ s.mutant = r.mutant /\ s.alive = e /\ s.stuck = r.stuck
  BY <1>1 DEF Process
<1> QED BY <1>2, CodeIsSet

Ended(p, n, exit) == [p EXCEPT ![n].alive = FALSE, ![n].code = exit]

LEMMA ProcessEnds ==
  ASSUME NEW p \in Seq(Process), NEW n \in 1..Len(p), NEW exit \in {0, 1}
  PROVE  \E new \in Process :
           /\ Ended(p, n, exit) = [p EXCEPT ![n] = new] /\ new.mutant = p[n].mutant /\ ~new.alive
           /\ new.code = exit /\ new.stuck = p[n].stuck
<1>0. PICK r \in Process : r = p[n]
  OBVIOUS
<1>1. PICK s : s = [r EXCEPT !.alive = FALSE]
  OBVIOUS
<1>2. PICK t : t = [s EXCEPT !.code = exit]
  OBVIOUS
<1>3. t = [mutant |-> p[n].mutant, alive |-> FALSE, code |-> exit, stuck |-> p[n].stuck]
  <2>1. t = [mutant |-> r.mutant, alive |-> FALSE, code |-> exit, stuck |-> r.stuck]
    BY <1>1, <1>2, BothAreSet
  <2> QED BY <1>0, <2>1
<1>4. PICK q : q = [p EXCEPT ![n] = s]
  OBVIOUS
<1>5. [p EXCEPT ![n].alive = FALSE] = q
  BY <1>0, <1>1, <1>4
<1>6. q[n] = s /\ [q EXCEPT ![n] = t] = [p EXCEPT ![n] = t]
  <2>1. p \in [1..Len(p) -> Process]
    OBVIOUS
  <2>2. n \in DOMAIN p /\ q = [i \in DOMAIN p |-> IF i = n THEN s ELSE p[i]]
    BY <1>4, <2>1
  <2>3. q[n] = s /\ DOMAIN q = DOMAIN p
    BY <2>2
  <2>4. [q EXCEPT ![n] = t] = [i \in DOMAIN p |-> IF i = n THEN t ELSE p[i]]
    BY <2>2
  <2>5. [p EXCEPT ![n] = t] = [i \in DOMAIN p |-> IF i = n THEN t ELSE p[i]]
    BY <2>1
  <2> QED BY <2>3, <2>4, <2>5
<1>7. [q EXCEPT ![n].code = exit] = [q EXCEPT ![n] = t]
  BY <1>2, <1>6
<1>8. Ended(p, n, exit) = [p EXCEPT ![n] = t]
  BY <1>5, <1>6, <1>7 DEF Ended
<1>9. t \in Process /\ t.mutant = p[n].mutant /\ ~t.alive /\ t.code = exit /\ t.stuck = p[n].stuck
  BY <1>0, <1>3 DEF Process
<1> QED BY <1>8, <1>9

\* The last process, and nobody being killed, while a run is open that has a handler.
LEMMA OpenRun ==
  ASSUME CommandInv, "none" \notin Runs, handler # 0
  PROVE  /\ handler = Len(procs) /\ job \in Runs /\ Len(procs) \in Nat /\ Len(procs) \in 1..Len(procs)
         /\ procs[Len(procs)] \in Process /\ procs[Len(procs)].mutant = job /\ verdict[job] = "none"
         /\ kill = Command!NoKill \/ (kill.by = "error" /\ kill.of = Len(procs))
<1>1. CommandTypes /\ HandlerInv /\ KillInv /\ JobInv
  BY DEF CommandInv
<1>2. /\ handler = Len(procs) /\ job \in Runs /\ Len(procs) \in Nat /\ Len(procs) # 0
      /\ procs[Len(procs)].mutant = job /\ verdict[job] = "none"
  BY <1>1 DEF CommandTypes, HandlerInv, JobInv
<1>3. Len(procs) \in 1..Len(procs)
  BY <1>2
<1>4. procs[Len(procs)] \in Process
  BY <1>1, <1>3 DEF CommandTypes
<1>5. kill = Command!NoKill \/ (kill.by = "error" /\ kill.of = Len(procs))
  BY <1>1, <1>2 DEF KillInv, Reasons
<1> QED BY <1>2, <1>3, <1>4, <1>5

\* The exit event answers the run, if its handler is still there.
LEMMA ProcessExitsStep ==
  ASSUME CommandInv, "none" \notin Runs, NEW exit \in {0, 1}, Command!ProcessExits(exit)
  PROVE  CommandInv'
<1> DEFINE n == Len(procs)
<1>1. CommandTypes /\ HandlerInv /\ KillInv /\ JobInv /\ AliveInv /\ procs \in Seq(Process) /\ n \in Nat
  BY DEF CommandInv, CommandTypes
<1>2. n \in 1..n /\ procs[n].alive /\ kill' = kill /\ shut' = shut /\ procs[n] \in Process
  <2>1. n > 0 /\ procs[n].alive /\ kill' = kill /\ shut' = shut
    BY DEF Command!ProcessExits, Command!Current
  <2>2. n \in 1..n
    BY <1>1, <2>1
  <2> QED BY <1>1, <2>1, <2>2
<1>3. PICK new \in Process :
        /\ procs' = [procs EXCEPT ![n] = new] /\ new.mutant = procs[n].mutant /\ ~new.alive
        /\ new.code = exit /\ new.stuck = procs[n].stuck
  <2>1. procs' = [procs EXCEPT ![n].alive = FALSE, ![n].code = exit]
    BY DEF Command!ProcessExits, Command!Current
  <2>2. procs' = Ended(procs, n, exit)
    BY <2>1 DEF Ended
  <2> QED BY <1>1, <1>2, <2>2, ProcessEnds
<1>4. /\ procs' \in Seq(Process) /\ Len(procs') = n /\ ProcessesStay
      /\ \A p \in 1..n : p # n => procs'[p] = procs[p]
      /\ procs'[n] = new
  BY <1>1, <1>2, <1>3, ProcessIsChanged
<1> HIDE DEF n
<1>5. \A p \in 1..n : /\ procs'[p].alive => procs[p].alive /\ p # n
                      /\ procs'[p].stuck = procs[p].stuck
  BY <1>3, <1>4
<1>6. CASE job # "none" /\ handler = n
  <2>1. handler # 0
    BY <1>1, <1>2, <1>6
  <2>2. /\ job \in Runs /\ procs[n].mutant = job
        /\ kill = Command!NoKill \/ (kill.by = "error" /\ kill.of = n)
    BY <2>1, OpenRun DEF n
  <2>3. kill = Command!NoKill
    BY <1>1, <1>2, <2>2 DEF KillInv
  <2>4. PICK j \in Runs : j = job
    BY <2>2
  <2> DEFINE answer == IF exit = 0 THEN "survived" ELSE "killed"
  <2>5. verdict' = [verdict EXCEPT ![j] = answer] /\ job' = "none" /\ handler' = 0
    BY <1>6, <2>4 DEF Command!ProcessExits, Command!Answer, Command!Current, n
  <2>6. Owns(j)'
    <3>1. verdict'[j] = answer
      BY <1>1, <2>5 DEF CommandTypes
    <3>2. procs'[n].mutant = j /\ ~procs'[n].alive /\ procs'[n].code = exit
      BY <1>3, <1>4, <2>2, <2>4
    <3>3. \A q \in (n + 1)..n : FALSE
      BY <1>1
    <3> QED BY <1>2, <1>4, <3>1, <3>2, <3>3 DEF Owns
  <2>7. \A p \in 1..Len(procs') : procs'[p].alive => procs'[p].stuck
    <3>1. kill.of = 0 /\ \A p \in 1..n : p # 0
      BY <1>1, <2>3 DEF Command!NoKill
    <3> QED BY <1>1, <1>4, <1>5, <1>6, <3>1 DEF AliveInv, n
  <2>8. answer \in {"survived", "killed", "error", "timeout", "rejected"} /\ shut' \in BOOLEAN /\ kill' = Command!NoKill
    BY <1>1, <1>2, <2>3 DEF CommandTypes
  <2> HIDE DEF answer
  <2>9. Len(procs') = Len(procs)
    BY <1>4 DEF n
  <2> QED BY <1>4, <2>4, <2>5, <2>6, <2>7, <2>8, <2>9, RunIsAnswered
<1>7. CASE ~(job # "none" /\ handler = n)
  <2>1. job' = job /\ verdict' = verdict /\ handler' = handler
    BY <1>7 DEF Command!ProcessExits, Command!Current, n
  <2>2. CommandTypes' /\ HandlerInv'
    BY <1>1, <1>2, <1>4, <2>1 DEF CommandTypes, HandlerInv, n
  <2>3. JobInv'
    BY <1>1, <1>2, <1>3, <1>4, <2>1 DEF JobInv, n
  <2>4. kill.by # "error"
    BY <1>1, <1>2, <1>7 DEF KillInv, HandlerInv, n
  <2>5. KillInv'
    BY <1>1, <1>2, <1>4, <1>5, <2>1, <2>4 DEF KillInv, n
  <2>6. AliveInv'
    BY <1>1, <1>2, <1>4, <1>5, <2>1 DEF AliveInv, n
  <2>7. Command!OwnVerdict'
    <3>1. PICK j \in Runs \cup {"none"} : j = job
      BY <1>1 DEF CommandTypes
    <3>2. Len(procs') = Len(procs)
      BY <1>4 DEF n
    <3> QED BY <1>4, <2>1, <3>1, <3>2, OnlyTheJob
  <2> QED BY <2>2, <2>3, <2>5, <2>6, <2>7 DEF CommandInv
<1> QED BY <1>6, <1>7

\* The timeout, and the disposal, take the handler away and go for its process.
LEMMA TimerFiresStep ==
  ASSUME CommandInv, "none" \notin Runs, Command!TimerFires
  PROVE  CommandInv'
<1>1. /\ job # "none" /\ handler = Len(procs) /\ kill'.of = handler /\ kill'.by = "timeout" /\ handler' = 0
      /\ kill' = [of |-> handler, by |-> "timeout"]
      /\ job' = job /\ procs' = procs /\ verdict' = verdict /\ shut' = shut
  BY DEF Command!TimerFires, Command!Current
<1>2. CommandTypes /\ JobInv /\ AliveInv /\ Len(procs) \in Nat
  BY DEF CommandInv, CommandTypes
<1>3. handler # 0
  BY <1>1, <1>2 DEF JobInv
<1>4. Len(procs) \in 1..Len(procs) /\ (kill = Command!NoKill \/ kill.of = Len(procs))
  BY <1>3, OpenRun
<1>5. CommandTypes' /\ HandlerInv' /\ JobInv'
  <2>1. kill' \in [of : Nat, by : Reasons \cup {"none"}]
    BY <1>1, <1>2 DEF Reasons
  <2> QED BY <1>1, <1>2, <2>1 DEF CommandTypes, HandlerInv, JobInv
<1>6. KillInv'
  BY <1>1, <1>4 DEF KillInv, Reasons
<1>7. AliveInv'
  <2>1. kill.of = 0 \/ kill.of = Len(procs)
    BY <1>4 DEF Command!NoKill
  <2>2. \A p \in 1..Len(procs) : p # 0
    BY <1>2
  <2> QED BY <1>1, <1>2, <2>1, <2>2 DEF AliveInv
<1>8. Command!OwnVerdict'
  <2>1. PICK j \in Runs \cup {"none"} : j = job
    BY <1>2 DEF CommandTypes
  <2>2. ProcessesStay /\ Len(procs') = Len(procs)
    BY <1>1, <1>2, ProcessesUnchanged
  <2> QED BY <1>1, <2>1, <2>2, OnlyTheJob
<1> QED BY <1>5, <1>6, <1>7, <1>8 DEF CommandInv

LEMMA DisposeRunnerStep ==
  ASSUME CommandInv, "none" \notin Runs, Command!DisposeRunner
  PROVE  CommandInv'
<1>1. CommandTypes /\ HandlerInv /\ KillInv /\ JobInv /\ AliveInv /\ Len(procs) \in Nat
  BY DEF CommandInv, CommandTypes
<1>2. shut' = TRUE /\ procs' = procs /\ ~shut
  BY DEF Command!DisposeRunner
<1>3. ProcessesStay /\ Len(procs') = Len(procs) /\ procs' \in Seq(Process)
  BY <1>1, <1>2, ProcessesUnchanged DEF CommandTypes
<1>4. CASE handler # 0
  <2>1. /\ handler = Len(procs) /\ job \in Runs /\ Len(procs) \in 1..Len(procs)
        /\ kill = Command!NoKill \/ (kill.by = "error" /\ kill.of = Len(procs))
    BY <1>4, OpenRun
  <2>2. PICK j \in Runs : j = job
    BY <2>1
  <2>3. /\ kill' = [of |-> handler, by |-> "dispose"] /\ kill'.of = handler /\ handler' = 0 /\ job' = "none"
        /\ verdict' = [verdict EXCEPT ![j] = "timeout"]
    BY <1>4, <2>2 DEF Command!DisposeRunner, Command!Answer
  <2>4. \A p \in 1..Len(procs') : procs'[p].alive => p = kill'.of \/ procs'[p].stuck
    <3>1. kill.of = 0 \/ kill.of = Len(procs)
      BY <2>1 DEF Command!NoKill
    <3>2. \A p \in 1..Len(procs) : p # 0
      BY <1>1
    <3> QED BY <1>1, <1>2, <2>1, <2>3, <3>1, <3>2 DEF AliveInv
  <2> QED BY <1>2, <1>3, <2>1, <2>2, <2>3, <2>4, RunIsAnswered
<1>5. CASE handler = 0
  <2>1. UNCHANGED <<kill, handler, job, verdict>>
    BY <1>5 DEF Command!DisposeRunner
  <2>2. CommandTypes' /\ HandlerInv' /\ JobInv' /\ AliveInv' /\ KillInv'
    BY <1>1, <1>2, <2>1 DEF CommandTypes, HandlerInv, JobInv, AliveInv, KillInv
  <2>3. Command!OwnVerdict'
    <3>1. PICK j \in Runs \cup {"none"} : j = job
      BY <1>1 DEF CommandTypes
    <3> QED BY <1>3, <2>1, <3>1, OnlyTheJob
  <2> QED BY <2>2, <2>3 DEF CommandInv
<1> QED BY <1>4, <1>5

\* The process that is being killed.
LEMMA KilledProcess ==
  ASSUME CommandInv, "none" \notin Runs, kill.by \in Reasons
  PROVE  /\ kill.of \in 1..Len(procs) /\ procs[kill.of] \in Process /\ Len(procs) \in Nat
         /\ kill.by # "dispose" => job \in Runs /\ kill.of = Len(procs)
         /\ kill.by = "dispose" => job = "none"
         /\ handler # 0 => kill.of = handler /\ kill.by = "error"
<1>1. CommandTypes /\ HandlerInv /\ KillInv /\ JobInv /\ Len(procs) \in Nat
  BY DEF CommandInv, CommandTypes
<1>2. kill.of \in 1..Len(procs)
  <2>1. kill # Command!NoKill
    BY DEF Command!NoKill, Reasons
  <2> QED BY <1>1, <2>1 DEF KillInv
<1>3. procs[kill.of] \in Process
  BY <1>1, <1>2 DEF CommandTypes
<1>4. kill.by = "error" => job \in Runs /\ kill.of = Len(procs) /\ kill.of = handler
  <2>1. kill.of # 0
    BY <1>1, <1>2
  <2> QED BY <1>1, <2>1 DEF KillInv, HandlerInv, CommandTypes
<1>5. kill.by \in {"timeout", "retry", "killAgain"} => job \in Runs /\ kill.of = Len(procs) /\ handler = 0
  BY <1>1 DEF KillInv, CommandTypes
<1>6. kill.by = "dispose" => job = "none" /\ handler = 0
  BY <1>1 DEF KillInv, HandlerInv
<1> QED BY <1>1, <1>2, <1>3, <1>4, <1>5, <1>6 DEF Reasons

\* kill() is done: nothing else was alive that could be killed.
LEMMA KilledStep ==
  ASSUME CommandInv, "none" \notin Runs, Command!Killed
  PROVE  CommandInv'
<1>1. CommandTypes /\ HandlerInv /\ KillInv /\ JobInv /\ AliveInv /\ procs \in Seq(Process) /\ Len(procs) \in Nat
  BY DEF CommandInv, CommandTypes
<1>2. /\ kill.by \in {"error", "timeout", "dispose"} /\ shut' = shut
      /\ procs' = [procs EXCEPT ![kill.of].alive = FALSE] /\ kill' = Command!NoKill
  BY DEF Command!Killed
<1>3. PICK i \in 1..Len(procs) :
        /\ i = kill.of /\ procs[i] \in Process
        /\ kill.by # "dispose" => job \in Runs
        /\ kill.by = "dispose" => job = "none"
        /\ handler # 0 => i = handler
  BY <1>2, KilledProcess DEF Reasons
<1>4. PICK new \in Process :
        /\ procs' = [procs EXCEPT ![i] = new] /\ new.mutant = procs[i].mutant /\ ~new.alive
        /\ new.code = procs[i].code /\ new.stuck = procs[i].stuck
  <2>1. PICK r \in Process : r = procs[i]
    BY <1>3
  <2>2. PICK new : new = [r EXCEPT !.alive = FALSE]
    OBVIOUS
  <2>3. new = [mutant |-> r.mutant, alive |-> FALSE, code |-> r.code, stuck |-> r.stuck]
    BY <2>2, AliveIsSet
  <2>4. new \in Process /\ new.mutant = r.mutant /\ ~new.alive /\ new.code = r.code /\ new.stuck = r.stuck
    BY <2>3 DEF Process
  <2>5. procs' = [procs EXCEPT ![i] = new]
    BY <1>2, <1>3, <2>1, <2>2
  <2> QED BY <2>1, <2>4, <2>5
<1>5. /\ procs' \in Seq(Process) /\ Len(procs') = Len(procs) /\ ProcessesStay
      /\ \A p \in 1..Len(procs) : p # i => procs'[p] = procs[p]
      /\ procs'[i] = new
  BY <1>1, <1>3, <1>4, ProcessIsChanged
<1>6. \A p \in 1..Len(procs') : procs'[p].alive => procs'[p].stuck
  <2>1. ASSUME NEW p \in 1..Len(procs), procs'[p].alive PROVE procs'[p].stuck
    <3>1. p # i /\ procs'[p] = procs[p] /\ p # 0
      BY <1>1, <1>4, <1>5, <2>1
    <3>2. p # handler /\ p # kill.of
      BY <1>3, <3>1
    <3> QED BY <1>1, <2>1, <3>1, <3>2 DEF AliveInv
  <2> QED BY <1>5, <2>1
<1>7. CASE kill.by = "dispose"
  <2>1. UNCHANGED <<job, verdict, handler>> /\ job = "none"
    BY <1>3, <1>7 DEF Command!Killed
  <2>2. CommandTypes' /\ HandlerInv' /\ JobInv' /\ AliveInv'
    <3>1. kill' \in [of : Nat, by : Reasons \cup {"none"}]
      BY <1>2 DEF Command!NoKill
    <3> QED BY <1>1, <1>2, <1>5, <1>6, <2>1, <3>1 DEF CommandTypes, HandlerInv, JobInv, AliveInv
  <2>3. KillInv'
    BY <1>2 DEF KillInv, Command!NoKill
  <2>4. Command!OwnVerdict'
    <3>1. PICK j \in Runs \cup {"none"} : j = job
      BY <2>1
    <3> QED BY <1>5, <2>1, <3>1, OnlyTheJob
  <2> QED BY <2>2, <2>3, <2>4 DEF CommandInv
<1>8. CASE kill.by # "dispose"
  <2>1. PICK j \in Runs : j = job
    BY <1>3, <1>8
  <2>2. PICK answer \in {"error", "timeout"} : answer = kill.by
    BY <1>2, <1>8
  <2>3. verdict' = [verdict EXCEPT ![j] = answer] /\ job' = "none" /\ handler' = 0
    BY <1>8, <2>1, <2>2 DEF Command!Killed, Command!Answer
  <2>4. shut' \in BOOLEAN
    BY <1>1, <1>2 DEF CommandTypes
  <2> QED BY <1>2, <1>5, <1>6, <2>1, <2>2, <2>3, <2>4, RunIsAnswered
<1> QED BY <1>7, <1>8

LEMMA StuckIsSet ==
  ASSUME NEW r \in Process, NEW e \in BOOLEAN
  PROVE  [r EXCEPT !.stuck = e] = [mutant |-> r.mutant, alive |-> r.alive, code |-> r.code, stuck |-> e]
BY DEF Process

\* kill() rejects: the process stays, and no longer counts.
LEMMA KillFailsStep ==
  ASSUME CommandInv, "none" \notin Runs, Command!KillFails
  PROVE  CommandInv'
<1>1. CommandTypes /\ HandlerInv /\ KillInv /\ JobInv /\ AliveInv /\ procs \in Seq(Process) /\ Len(procs) \in Nat
  BY DEF CommandInv, CommandTypes
<1>2. /\ kill.by \in {"error", "timeout", "dispose"} /\ shut' = shut /\ job' = job /\ verdict' = verdict
      /\ procs' = [procs EXCEPT ![kill.of].stuck = TRUE]
      /\ handler' = IF kill.by = "error" THEN 0 ELSE handler
  BY DEF Command!KillFails
<1>3. PICK i \in 1..Len(procs) :
        /\ i = kill.of /\ procs[i] \in Process
        /\ kill.by # "dispose" => job \in Runs /\ i = Len(procs)
        /\ kill.by = "dispose" => job = "none"
        /\ handler # 0 => i = handler /\ kill.by = "error"
  BY <1>2, KilledProcess DEF Reasons
<1>4. PICK new \in Process :
        /\ procs' = [procs EXCEPT ![i] = new] /\ new.mutant = procs[i].mutant /\ new.alive = procs[i].alive
        /\ new.code = procs[i].code /\ new.stuck
  <2>1. PICK r \in Process : r = procs[i]
    BY <1>3
  <2>2. PICK new : new = [r EXCEPT !.stuck = TRUE]
    OBVIOUS
  <2>3. new = [mutant |-> r.mutant, alive |-> r.alive, code |-> r.code, stuck |-> TRUE]
    BY <2>2, StuckIsSet
  <2>4. new \in Process /\ new.mutant = r.mutant /\ new.alive = r.alive /\ new.code = r.code /\ new.stuck
    BY <2>3 DEF Process
  <2>5. procs' = [procs EXCEPT ![i] = new]
    BY <1>2, <1>3, <2>1, <2>2
  <2> QED BY <2>1, <2>4, <2>5
<1>5. /\ procs' \in Seq(Process) /\ Len(procs') = Len(procs) /\ ProcessesStay
      /\ \A p \in 1..Len(procs) : p # i => procs'[p] = procs[p]
      /\ procs'[i] = new
  BY <1>1, <1>3, <1>4, ProcessIsChanged
<1>6. handler' = 0
  BY <1>2, <1>3
<1>7. \/ kill.by = "dispose" /\ kill' = Command!NoKill
      \/ kill.by = "timeout" /\ kill'.of = i /\ kill'.by = "retry"
      \/ kill.by = "error" /\ kill'.of = i /\ kill'.by = "killAgain"
  <2>1. kill = [of |-> kill.of, by |-> kill.by]
    BY <1>1 DEF CommandTypes
  <2> QED BY <1>2, <1>3, <2>1 DEF Command!KillFails
<1>8. CommandTypes' /\ HandlerInv'
  <2>1. kill' \in [of : Nat, by : Reasons \cup {"none"}]
    <3>1. kill = [of |-> kill.of, by |-> kill.by] /\ kill.of \in Nat
      BY <1>1 DEF CommandTypes
    <3> QED BY <1>2, <3>1 DEF Command!KillFails, Command!NoKill, Reasons
  <2> QED BY <1>1, <1>2, <1>5, <1>6, <2>1 DEF CommandTypes, HandlerInv
<1>9. JobInv'
  BY <1>1, <1>2, <1>3, <1>4, <1>5, <1>7 DEF JobInv
<1>10. KillInv'
  BY <1>1, <1>2, <1>3, <1>4, <1>5, <1>6, <1>7 DEF KillInv, Command!NoKill, Reasons
<1>11. AliveInv'
  <2>1. ASSUME NEW p \in 1..Len(procs), procs'[p].alive PROVE procs'[p].stuck
    <3>1. CASE p = i
      BY <1>4, <1>5, <3>1
    <3>2. CASE p # i
      <4>1. procs'[p] = procs[p] /\ p # 0 /\ p # kill.of /\ p # handler
        BY <1>1, <1>3, <1>5, <3>2
      <4> QED BY <1>1, <2>1, <4>1 DEF AliveInv
    <3> QED BY <3>1, <3>2
  <2> QED BY <1>5, <2>1 DEF AliveInv
<1>12. Command!OwnVerdict'
  <2>1. PICK j \in Runs \cup {"none"} : j = job
    BY <1>1 DEF CommandTypes
  <2> QED BY <1>2, <1>5, <2>1, OnlyTheJob
<1> QED BY <1>8, <1>9, <1>10, <1>11, <1>12 DEF CommandInv

\* A process that could not be killed: the run goes on without it.
LEMMA RetriesStep ==
  ASSUME CommandInv, "none" \notin Runs, Command!Retries \/ Command!RetryRejects
  PROVE  CommandInv'
<1>1. CommandTypes /\ KillInv /\ JobInv /\ AliveInv /\ procs \in Seq(Process) /\ Len(procs) \in Nat
  BY DEF CommandInv, CommandTypes
<1>2. kill.by \in {"retry", "killAgain"} /\ shut' = shut
  BY DEF Command!Retries, Command!RetryRejects
<1>3. PICK j \in Runs : j = job
  BY <1>2, KilledProcess DEF Reasons
<1>4. \A p \in 1..Len(procs) : procs[p].alive => procs[p].stuck
  <2>1. procs[kill.of].stuck /\ handler = 0
    BY <1>1, <1>2 DEF KillInv
  <2>2. \A p \in 1..Len(procs) : p # 0
    BY <1>1
  <2> QED BY <1>1, <2>1, <2>2 DEF AliveInv
<1>5. CASE Command!Retries /\ attempts > 1
  <2>1. Command!Exec(j) /\ verdict' = verdict /\ job' = j
    BY <1>3, <1>5 DEF Command!Retries, Command!Retry
  <2>2. verdict[j] = "none"
    BY <1>1, <1>3 DEF JobInv
  <2> QED BY <1>2, <1>4, <2>1, <2>2, ExecStep
<1>6. CASE Command!RetryRejects \/ ~(attempts > 1)
  <2>1. PICK answer \in {"error", "rejected"} :
          /\ verdict' = [verdict EXCEPT ![j] = answer] /\ job' = "none" /\ handler' = 0
          /\ procs' = procs /\ kill' = Command!NoKill
    BY <1>3, <1>6 DEF Command!Retries, Command!Retry, Command!RetryRejects, Command!Answer
  <2>2. ProcessesStay /\ Len(procs') = Len(procs) /\ procs' \in Seq(Process) /\ shut' \in BOOLEAN
    BY <1>1, <1>2, <2>1, ProcessesUnchanged DEF CommandTypes
  <2>3. \A p \in 1..Len(procs') : procs'[p].alive => procs'[p].stuck
    BY <1>4, <2>1
  <2> QED BY <1>3, <2>1, <2>2, <2>3, RunIsAnswered
<1> QED BY <1>5, <1>6

LEMMA CommandSteps ==
  ASSUME CommandInv, "none" \notin Runs, [Command!Next]_Command!commandVars
  PROVE  CommandInv'
<1>1. CASE \E m \in Runs : Command!StartRun(m)
  BY <1>1, StartRunStep
<1>2. CASE \E exit \in {0, 1} : Command!ProcessExits(exit)
  BY <1>2, ProcessExitsStep
<1>3. CASE Command!TimerFires
  BY <1>3, TimerFiresStep
<1>4. CASE Command!DisposeRunner
  BY <1>4, DisposeRunnerStep
<1>5. CASE Command!Killed
  BY <1>5, KilledStep
<1>6. CASE Command!KillFails
  BY <1>6, KillFailsStep
<1>7. CASE Command!Retries \/ Command!RetryRejects
  BY <1>7, RetriesStep
<1>8. CASE UNCHANGED Command!commandVars
  BY <1>8 DEF Command!commandVars, CommandInv, CommandTypes, HandlerInv, KillInv, JobInv, AliveInv, Command!OwnVerdict
<1> QED BY <1>1, <1>2, <1>3, <1>4, <1>5, <1>6, <1>7, <1>8 DEF Command!Next

\* What the invariant is for.
LEMMA CommandIsRight == CommandInv => Command!OwnVerdict /\ Command!TimeoutReachesTheProcess
<1> SUFFICES ASSUME CommandInv PROVE Command!OwnVerdict /\ Command!TimeoutReachesTheProcess
  OBVIOUS
<1>1. HandlerInv /\ KillInv /\ JobInv /\ AliveInv
  BY DEF CommandInv
<1>2. job # "none" => \/ handler = Command!Current /\ procs[Command!Current].mutant = job
                      \/ kill.of = Command!Current /\ kill.by \in {"timeout", "retry", "killAgain"}
  BY <1>1 DEF HandlerInv, KillInv, JobInv, Command!Current
<1> QED BY <1>1, <1>2 DEF Command!TimeoutReachesTheProcess, HandlerInv, AliveInv, Command!Current, CommandInv

-----------------------------------------------------------------------------
(* KarmaRunner *)

\* The types of what karma and its reporter keep.
Coverages == {"perTest", "all", Karma!Nothing}

Hooks == [coverage : Coverages, active : Nat, limited : BOOLEAN, filtered : BOOLEAN]

Reporters ==
  [initTask : BOOLEAN, runTask : Nat, tests : SUBSET Nat, coverage : Coverages,
   hitCount : {"over", "below", Karma!Nothing},
   hitLimit : BOOLEAN, result : {"fine", "error", "disconnected", Karma!Nothing}, restarting : BOOLEAN]

Answers == [status : {"unanswered", "throws", "complete", "error", "timeout"}, tests : SUBSET Nat, coverage : Coverages]

\* What can have happened in a run.
Fates == {"unknown", "throws", "passes", "error", "over", "disconnect"}

KarmaTypes ==
  /\ reporter \in Reporters
  /\ answers \in Seq(Answers)
  /\ fates \in Seq(Fates)
  /\ Len(fates) = Len(answers)
  /\ browser \in {"none", "idle", "executing", "lost", "restarting", "gone"}

\* The hooks are those of the last run.
HooksFit(h) == h \in Hooks /\ h.limited = reporter.hitLimit /\ h.active \in {0, Len(answers)}

\* There is a run that is not answered, which is the last, or there is none.
TaskInv ==
  /\ reporter.runTask \in {0, Len(answers)}
  /\ \A k \in 1..Len(answers) : answers[k] = Karma!Unanswered <=> k = reporter.runTask

\* What the reporter and the browser know of that run.
PhaseInv ==
  /\ reporter.runTask = 0 => ~scheduled /\ browser \in {"none", "idle", "gone"}
  /\ browser = "none" => browsersReady # "resolved" /\ init # "ready" /\ reporter.runTask = 0
  /\ scheduled => browser \in {"idle", "gone"} /\ HooksFit(hooks)
  /\ browser = "idle" /\ reporter.runTask # 0 => scheduled
  /\ browser = "executing" => /\ page \in [hooks : Hooks, run : Nat] /\ page.run = Len(answers) /\ HooksFit(page.hooks)
                              /\ ~reporter.restarting /\ reporter.tests = {}
  /\ browser \in {"lost", "restarting"} => reporter.restarting /\ fates[Len(answers)] = "disconnect"
  /\ browser = "restarting" => reporter.result = "disconnected"

KarmaRunInv == KarmaTypes /\ TaskInv /\ PhaseInv /\ Karma!AnswersAreRight /\ ~stray

\* ... as long as no browser is lost between two runs.
KarmaInv == idleLoss \/ KarmaRunInv

Results == {"fine", "error", "disconnected", Karma!Nothing}

HitCounts == {"over", "below", Karma!Nothing}

\* What two records of the reporter have in common when only the result, or
\* the task, is set.
LEMMA ResultIsSet ==
  ASSUME NEW r \in Reporters, NEW x \in Results, NEW s, s = [r EXCEPT !.result = x]
  PROVE  /\ s \in Reporters /\ s.runTask = r.runTask /\ s.tests = r.tests /\ s.hitCount = r.hitCount
         /\ s.hitLimit = r.hitLimit /\ s.restarting = r.restarting /\ s.coverage = r.coverage /\ s.result = x
BY DEF Reporters, Results

LEMMA TaskIsCleared ==
  ASSUME NEW r \in Reporters
  PROVE  /\ [r EXCEPT !.runTask = 0] \in Reporters /\ [r EXCEPT !.runTask = 0].runTask = 0
         /\ [r EXCEPT !.initTask = FALSE, !.runTask = 0] \in Reporters
         /\ [r EXCEPT !.initTask = FALSE, !.runTask = 0].runTask = 0
BY DEF Reporters

LEMMA InitTaskIsSet ==
  ASSUME NEW r \in Reporters, NEW a \in BOOLEAN, NEW s, s = [r EXCEPT !.initTask = a]
  PROVE  /\ s \in Reporters /\ s.runTask = r.runTask /\ s.tests = r.tests /\ s.hitLimit = r.hitLimit
         /\ s.restarting = r.restarting /\ s.result = r.result
BY DEF Reporters

LEMMA TestsAreSet ==
  ASSUME NEW r \in Reporters, NEW t \in SUBSET Nat, NEW s, s = [r EXCEPT !.tests = t]
  PROVE  /\ s \in Reporters /\ s.runTask = r.runTask /\ s.tests = t /\ s.hitLimit = r.hitLimit
         /\ s.restarting = r.restarting /\ s.result = r.result
BY DEF Reporters

\* onRunStart, onBrowserError of a browser that is lost, and onBrowserComplete.
LEMMA RunStarts ==
  ASSUME NEW r \in Reporters
  PROVE  /\ Karma!OnRunStart(r) \in Reporters /\ Karma!OnRunStart(r).runTask = r.runTask
         /\ Karma!OnRunStart(r).hitLimit = r.hitLimit
         /\ ~Karma!OnRunStart(r).restarting /\ Karma!OnRunStart(r).tests = {}
BY DEF Karma!OnRunStart, Reporters, Coverages

LEMMA BrowserDisconnects ==
  ASSUME NEW r \in Reporters
  PROVE  /\ Karma!Disconnected(r) \in Reporters /\ Karma!Disconnected(r).runTask = r.runTask
         /\ Karma!Disconnected(r).hitLimit = r.hitLimit /\ Karma!Disconnected(r).restarting
BY DEF Karma!Disconnected, Reporters

LEMMA BrowserCompletes ==
  ASSUME NEW r \in Reporters, page.hooks \in Hooks, NEW fate
  PROVE  /\ Karma!OnBrowserComplete(r, fate) \in Reporters /\ Karma!OnBrowserComplete(r, fate).runTask = r.runTask
         /\ Karma!OnBrowserComplete(r, fate).tests = r.tests /\ Karma!OnBrowserComplete(r, fate).hitLimit = r.hitLimit
         /\ Karma!OnBrowserComplete(r, fate).restarting = r.restarting
         /\ Karma!OnBrowserComplete(r, fate).hitCount = "over" <=> page.hooks.limited /\ fate = "over"
<1>1. page.hooks.coverage \in Coverages
  BY DEF Hooks
<1>2. PICK c \in Coverages, h \in HitCounts :
        /\ c = page.hooks.coverage
        /\ h = (IF ~page.hooks.limited THEN Karma!Nothing ELSE IF fate = "over" THEN "over" ELSE "below")
        /\ h = "over" <=> page.hooks.limited /\ fate = "over"
  BY <1>1 DEF HitCounts, Karma!Nothing
<1>3. Karma!OnBrowserComplete(r, fate) = [r EXCEPT !.coverage = c, !.hitCount = h]
  BY <1>2 DEF Karma!OnBrowserComplete
<1> QED BY <1>2, <1>3 DEF Reporters, HitCounts

\* collectRunResult
LEMMA ResultIsCollected ==
  ASSUME NEW r \in Reporters
  PROVE  /\ Karma!CollectRunResult(r) \in Answers /\ Karma!CollectRunResult(r) # Karma!Unanswered
         /\ Karma!CollectRunResult(r).tests = r.tests
         /\ Karma!CollectRunResult(r).status = (IF r.hitLimit /\ r.hitCount = "over" THEN "timeout"
                                          ELSE IF r.result = "disconnected" THEN "timeout"
                                          ELSE IF r.result = "error" THEN "error" ELSE "complete")
<1>1. r.tests \in SUBSET Nat /\ r.coverage \in Coverages
  BY DEF Reporters
<1> QED BY <1>1 DEF Karma!CollectRunResult, Answers, Karma!Unanswered

\* A task that is open is that of the last run.
LEMMA OpenTask ==
  ASSUME KarmaRunInv, reporter.runTask # 0
  PROVE  /\ Len(answers) \in Nat /\ Len(answers) # 0 /\ Len(answers) \in 1..Len(answers)
         /\ reporter.runTask = Len(answers) /\ answers[Len(answers)] = Karma!Unanswered
<1>1. Len(answers) \in Nat /\ reporter.runTask = Len(answers)
  BY DEF KarmaRunInv, KarmaTypes, TaskInv
<1>2. Len(answers) \in 1..Len(answers)
  BY <1>1
<1> QED BY <1>1, <1>2 DEF KarmaRunInv, TaskInv

\* What happened in the last run is written down; what the reporter knows
\* of it, with n runs asked for, says the same.
Fated(fate) ==
  /\ fates' \in Seq(Fates) /\ Len(fates') = Len(answers) /\ fates'[Len(answers)] = fate
  /\ \A k \in 1..Len(answers) : k # Len(answers) => fates'[k] = fates[k]

Deserves(r, fate, n) ==
  LET passed == r.hitLimit /\ r.hitCount = "over"
  IN  /\ fate = "passes" => ~passed /\ r.result \notin {"disconnected", "error"} /\ r.tests = {n}
      /\ fate = "error" => ~passed /\ r.result = "error"
      /\ fate \in {"over", "disconnect"} => passed \/ r.result = "disconnected"

\* The run is over: its task resolves, and the next one can be asked for.
LEMMA RunIsOver ==
  ASSUME KarmaRunInv, reporter.runTask # 0, NEW r \in Reporters, r.runTask = reporter.runTask, Karma!Answered(r),
         reporter' \in Reporters, reporter'.runTask = 0, browser' = "idle", scheduled' = FALSE, stray' = FALSE,
         NEW fate \in {"passes", "error", "over", "disconnect"},
         Fated(fate), Deserves(r, fate, Len(answers))
  PROVE  KarmaRunInv'
<1> DEFINE n == Len(answers)
           result == Karma!CollectRunResult(r)
<1>1. n \in Nat /\ n # 0 /\ n \in 1..n /\ reporter.runTask = n
  BY OpenTask
<1>2. /\ answers \in Seq(Answers) /\ Len(fates) = n /\ Karma!AnswersAreRight /\ TaskInv
      /\ fates \in Seq(Fates)
  BY DEF KarmaRunInv, KarmaTypes
<1>3. answers' = [answers EXCEPT ![n] = result]
  BY <1>1 DEF Karma!Answered
<1>4. /\ result \in Answers /\ result # Karma!Unanswered /\ result.tests = r.tests
      /\ result.status = (IF r.hitLimit /\ r.hitCount = "over" THEN "timeout"
                          ELSE IF r.result = "disconnected" THEN "timeout"
                          ELSE IF r.result = "error" THEN "error" ELSE "complete")
  BY ResultIsCollected
<1>5. /\ fate = "passes" => result.status = "complete" /\ result.tests = {n}
      /\ fate = "error" => result.status = "error"
      /\ fate \in {"over", "disconnect"} => result.status = "timeout"
  BY <1>4 DEF Deserves
<1> HIDE DEF result, n
<1>6. /\ answers' \in Seq(Answers) /\ Len(answers') = n
      /\ \A k \in 1..n : answers'[k] = IF k = n THEN result ELSE answers[k]
  BY <1>1, <1>2, <1>3, <1>4 DEF n
<1>7. fates' \in Seq(Fates) /\ Len(fates') = n /\ \A k \in 1..n : fates'[k] = IF k = n THEN fate ELSE fates[k]
  BY DEF n, Fated
<1>8. KarmaTypes'
  BY <1>6, <1>7 DEF KarmaTypes
<1>9. TaskInv'
  <2>1. ASSUME NEW k \in 1..n PROVE answers'[k] # Karma!Unanswered
    <3>1. k # n => answers[k] # Karma!Unanswered
      BY <1>1, <1>2 DEF TaskInv, n
    <3> QED BY <1>4, <1>6, <3>1
  <2>2. \A k \in 1..n : k # 0
    BY <1>1
  <2> QED BY <1>6, <2>1, <2>2 DEF TaskInv
<1>10. PhaseInv'
  BY DEF PhaseInv
<1>11. Karma!AnswersAreRight'
  <2>1. DOMAIN answers' = 1..n /\ DOMAIN answers = 1..n
    BY <1>2, <1>6 DEF n
  <2>2. ASSUME NEW k \in 1..n PROVE Karma!AnswerIsRight(k)'
    <3>1. CASE k = n
      BY <1>5, <1>6, <1>7, <3>1 DEF Karma!AnswerIsRight
    <3>2. CASE k # n
      <4>1. answers'[k] = answers[k] /\ fates'[k] = fates[k] /\ Karma!AnswerIsRight(k)
        BY <1>2, <1>6, <1>7, <2>1, <3>2 DEF Karma!AnswersAreRight
      <4> QED BY <4>1 DEF Karma!AnswerIsRight
    <3> QED BY <3>1, <3>2
  <2> QED BY <2>1, <2>2 DEF Karma!AnswersAreRight
<1> QED BY <1>8, <1>9, <1>10, <1>11 DEF KarmaRunInv

\* What happens between Stryker and karma before the first run, and at the end.
LEMMA ServerSteps ==
  ASSUME KarmaRunInv, UNCHANGED <<hooks, scheduled, page, fates, answers, stray>>,
         reporter' = reporter \/ \E a \in BOOLEAN : reporter' = [reporter EXCEPT !.initTask = a],
         browser' \in {browser, "gone"},
         browser = "none" /\ browser' # "gone" => browsersReady' # "resolved" /\ init' # "ready"
  PROVE  KarmaRunInv'
<1>1. KarmaTypes /\ TaskInv /\ PhaseInv /\ Karma!AnswersAreRight /\ ~stray
  BY DEF KarmaRunInv
<1>2. /\ reporter' \in Reporters /\ reporter'.runTask = reporter.runTask /\ reporter'.tests = reporter.tests
      /\ reporter'.hitLimit = reporter.hitLimit /\ reporter'.restarting = reporter.restarting
      /\ reporter'.result = reporter.result
  BY <1>1, InitTaskIsSet DEF KarmaTypes
<1>3. KarmaTypes' /\ TaskInv' /\ Karma!AnswersAreRight'
  BY <1>1, <1>2 DEF KarmaTypes, TaskInv, Karma!AnswersAreRight, Karma!AnswerIsRight
<1>4. PhaseInv'
  <2>1. \A h : HooksFit(h) => HooksFit(h)'
    BY <1>2 DEF HooksFit
  <2> QED BY <1>1, <1>2, <2>1 DEF PhaseInv
<1> QED BY <1>1, <1>3, <1>4 DEF KarmaRunInv

\* The first browser is there, and no run waits for it.
LEMMA CaptureStep ==
  ASSUME KarmaRunInv, Karma!Capture
  PROVE  KarmaRunInv'
<1>1. KarmaTypes /\ TaskInv /\ PhaseInv /\ Karma!AnswersAreRight /\ ~stray
  BY DEF KarmaRunInv
<1>2. /\ browser = "none" /\ browser' = "idle" /\ reporter' = [reporter EXCEPT !.initTask = FALSE, !.runTask = 0]
      /\ UNCHANGED <<hooks, scheduled, page, fates, stray>> /\ Karma!Answered(reporter)
  BY DEF Karma!Capture, Karma!OnBrowsersReady
<1>3. reporter.runTask = 0 /\ ~scheduled
  BY <1>1, <1>2 DEF PhaseInv
<1>4. answers' = answers /\ reporter' \in Reporters /\ reporter'.runTask = 0
  BY <1>1, <1>2, <1>3, TaskIsCleared DEF Karma!Answered, KarmaTypes
<1>5. KarmaTypes' /\ TaskInv' /\ Karma!AnswersAreRight'
  BY <1>1, <1>2, <1>3, <1>4 DEF KarmaTypes, TaskInv, Karma!AnswersAreRight, Karma!AnswerIsRight
<1>6. PhaseInv'
  BY <1>2, <1>3, <1>4 DEF PhaseInv
<1> QED BY <1>1, <1>2, <1>5, <1>6 DEF KarmaRunInv

\* run, and what both kinds of run make of it.
LEMMA AskedStep ==
  ASSUME KarmaRunInv, Karma!Free, NEW h \in Hooks, NEW limited \in BOOLEAN, h.limited = limited,
         h.active \in {0, Len(answers) + 1},
         Karma!Asked(h, limited), UNCHANGED <<init, browsersReady, browser, stray>>
  PROVE  KarmaRunInv'
<1> DEFINE n == Len(answers)
<1>1. KarmaTypes /\ TaskInv /\ PhaseInv /\ Karma!AnswersAreRight /\ ~stray
  BY DEF KarmaRunInv
<1>2. /\ n \in Nat /\ answers \in Seq(Answers) /\ fates \in Seq(Fates) /\ Len(fates) = n /\ reporter \in Reporters
      /\ DOMAIN answers = 1..n
  BY <1>1 DEF KarmaTypes
<1>3. \A k \in 1..n : answers[k] # Karma!Unanswered
  BY <1>2 DEF Karma!Free
<1>4. reporter.runTask = 0 /\ ~scheduled /\ browser \in {"idle", "gone"}
  <2>1. reporter.runTask = 0
    <3>1. n # 0 => n \in 1..n
      BY <1>2
    <3> QED BY <1>1, <1>3, <3>1 DEF TaskInv
  <2> QED BY <1>1, <2>1 DEF PhaseInv, Karma!Free
<1>5. /\ hooks' = h /\ scheduled' = TRUE
      /\ reporter' = [reporter EXCEPT !.runTask = n + 1, !.hitLimit = limited,
                                      !.hitCount = IF h.active # 0 THEN Karma!Nothing ELSE @]
      /\ answers' = Append(answers, Karma!Unanswered) /\ fates' = Append(fates, "unknown")
  BY DEF Karma!Asked
<1> HIDE DEF n
<1>6. reporter' \in Reporters /\ reporter'.runTask = n + 1 /\ reporter'.hitLimit = limited
  <2>1. PICK c \in HitCounts : c = IF h.active # 0 THEN Karma!Nothing ELSE reporter.hitCount
    BY <1>2 DEF Reporters, HitCounts
  <2>2. reporter' = [reporter EXCEPT !.runTask = n + 1, !.hitLimit = limited, !.hitCount = c]
    BY <1>2, <1>5, <2>1 DEF Reporters
  <2>3. n + 1 \in Nat
    BY <1>2
  <2> QED BY <1>2, <2>2, <2>3 DEF Reporters, HitCounts
<1>7. /\ answers' \in Seq(Answers) /\ Len(answers') = n + 1 /\ answers'[n + 1] = Karma!Unanswered
      /\ \A k \in 1..n : answers'[k] = answers[k]
  <2>1. Karma!Unanswered \in Answers
    BY DEF Karma!Unanswered, Answers, Coverages
  <2> QED BY <1>2, <1>5, <2>1 DEF n
<1>8. /\ fates' \in Seq(Fates) /\ Len(fates') = n + 1 /\ \A k \in 1..n : fates'[k] = fates[k]
  <2>1. "unknown" \in Fates
    BY DEF Fates
  <2> QED BY <1>2, <1>5, <2>1
<1>9. \A k \in 1..(n + 1) : k \in 1..n \/ k = n + 1
  BY <1>2
<1>10. KarmaTypes'
  BY <1>1, <1>6, <1>7, <1>8 DEF KarmaTypes
<1>11. TaskInv'
  <2>1. \A k \in 1..n : k # n + 1
    BY <1>2
  <2> QED BY <1>3, <1>6, <1>7, <1>9, <2>1 DEF TaskInv
<1>12. PhaseInv'
  <2>1. HooksFit(hooks)'
    BY <1>5, <1>6, <1>7 DEF HooksFit, n
  <2>2. n + 1 # 0
    BY <1>2
  <2> QED BY <1>4, <1>5, <1>6, <2>1, <2>2 DEF PhaseInv
<1>13. Karma!AnswersAreRight'
  <2>1. DOMAIN answers' = 1..(n + 1)
    BY <1>7
  <2>2. ASSUME NEW k \in 1..(n + 1) PROVE Karma!AnswerIsRight(k)'
    <3>1. CASE k = n + 1
      BY <1>7, <3>1 DEF Karma!AnswerIsRight
    <3>2. CASE k \in 1..n
      <4>1. answers'[k] = answers[k] /\ fates'[k] = fates[k] /\ Karma!AnswerIsRight(k)
        BY <1>1, <1>2, <1>7, <1>8, <3>2 DEF Karma!AnswersAreRight, n
      <4> QED BY <4>1 DEF Karma!AnswerIsRight
    <3> QED BY <1>9, <3>1, <3>2
  <2> QED BY <2>1, <2>2 DEF Karma!AnswersAreRight
<1> QED BY <1>1, <1>10, <1>11, <1>12, <1>13 DEF KarmaRunInv

\* dryRun without a framework that is supported.
LEMMA ThrowsStep ==
  ASSUME KarmaRunInv, Karma!Free, answers = << >>,
         UNCHANGED <<init, browsersReady, reporter, hooks, scheduled, browser, page, stray>>,
         answers' = <<[status |-> "throws", tests |-> {}, coverage |-> Karma!Nothing]>>, fates' = <<"throws">>
  PROVE  KarmaRunInv'
<1>1. KarmaTypes /\ TaskInv /\ PhaseInv /\ ~stray
  BY DEF KarmaRunInv
<1>2. PICK a : a = [status |-> "throws", tests |-> {}, coverage |-> Karma!Nothing]
  OBVIOUS
<1>3. a \in Answers /\ a # Karma!Unanswered /\ a.status = "throws" /\ "throws" \in Fates
  BY <1>2 DEF Answers, Karma!Unanswered, Coverages, Fates
<1>4. /\ answers' \in Seq(Answers) /\ Len(answers') = 1 /\ answers'[1] = a
      /\ fates' \in Seq(Fates) /\ Len(fates') = 1 /\ fates'[1] = "throws"
  BY <1>2, <1>3
<1>5. \A k \in 1..1 : k = 1 /\ k # 0
  OBVIOUS
<1>6. reporter.runTask = 0 /\ ~scheduled /\ browser # "none"
  BY <1>1 DEF TaskInv, PhaseInv, Karma!Free
<1>7. KarmaTypes' /\ TaskInv'
  BY <1>1, <1>3, <1>4, <1>5, <1>6 DEF KarmaTypes, TaskInv
<1>8. PhaseInv'
  BY <1>1, <1>6 DEF PhaseInv
<1>9. Karma!AnswersAreRight'
  <2>1. DOMAIN answers' = 1..1
    BY <1>4
  <2> QED BY <1>3, <1>4, <1>5, <2>1 DEF Karma!AnswersAreRight, Karma!AnswerIsRight
<1> QED BY <1>1, <1>7, <1>8, <1>9 DEF KarmaRunInv

\* The page loads the hooks of the run that was asked for.
LEMMA ExecuteStep ==
  ASSUME KarmaRunInv, Karma!Execute
  PROVE  KarmaRunInv'
<1>1. KarmaTypes /\ TaskInv /\ PhaseInv /\ Karma!AnswersAreRight /\ ~stray
  BY DEF KarmaRunInv
<1>2. /\ scheduled /\ scheduled' = FALSE /\ browser' = "executing" /\ page' = [hooks |-> hooks, run |-> Len(answers)]
      /\ reporter' = Karma!OnRunStart(reporter) /\ UNCHANGED <<hooks, fates, answers, stray>>
  BY DEF Karma!Execute
<1>3. reporter.runTask # 0 /\ HooksFit(hooks) /\ reporter.runTask = Len(answers) /\ Len(answers) \in Nat
  BY <1>1, <1>2 DEF PhaseInv, TaskInv, KarmaTypes
<1>4. /\ reporter' \in Reporters /\ reporter'.runTask = reporter.runTask /\ reporter'.hitLimit = reporter.hitLimit
      /\ ~reporter'.restarting /\ reporter'.tests = {}
  BY <1>1, <1>2, RunStarts DEF KarmaTypes
<1>5. KarmaTypes' /\ TaskInv' /\ Karma!AnswersAreRight'
  BY <1>1, <1>2, <1>4 DEF KarmaTypes, TaskInv, Karma!AnswersAreRight, Karma!AnswerIsRight
<1>6. PhaseInv'
  <2>1. page'.hooks = hooks /\ page'.run = Len(answers) /\ page' \in [hooks : Hooks, run : Nat]
    BY <1>2, <1>3 DEF HooksFit
  <2>2. HooksFit(page.hooks)'
    BY <1>2, <1>3, <1>4, <2>1 DEF HooksFit
  <2> QED BY <1>2, <1>3, <1>4, <2>1, <2>2 DEF PhaseInv
<1> QED BY <1>1, <1>2, <1>5, <1>6 DEF KarmaRunInv

\* One element of a sequence is replaced.
LEMMA SequenceIsChanged ==
  ASSUME NEW S, NEW s \in Seq(S), NEW i \in 1..Len(s), NEW x \in S
  PROVE  /\ [s EXCEPT ![i] = x] \in Seq(S) /\ Len([s EXCEPT ![i] = x]) = Len(s) /\ [s EXCEPT ![i] = x][i] = x
         /\ \A k \in 1..Len(s) : k # i => [s EXCEPT ![i] = x][k] = s[k]
OBVIOUS

\* The fate of the last run becomes known.
LEMMA FateIsKnown ==
  ASSUME KarmaRunInv, reporter.runTask # 0, NEW fate \in Fates, fates' = [fates EXCEPT ![Len(answers)] = fate]
  PROVE  Fated(fate)
<1>1. fates \in Seq(Fates) /\ Len(fates) = Len(answers) /\ Len(answers) \in 1..Len(answers)
  BY OpenTask DEF KarmaRunInv, KarmaTypes
<1> QED BY <1>1, SequenceIsChanged DEF Fated

\* The run completes: the task resolves with the fate that the run had.
LEMMA CompleteStep ==
  ASSUME KarmaRunInv, Karma!Complete
  PROVE  KarmaRunInv'
<1> DEFINE n == Len(answers)
<1>1. KarmaTypes /\ TaskInv /\ PhaseInv /\ browser = "executing" /\ browser' = "idle" /\ scheduled' = scheduled
  BY DEF KarmaRunInv, Karma!Complete
<1>2. /\ reporter.runTask # 0 /\ ~scheduled /\ page \in [hooks : Hooks, run : Nat] /\ page.run = n
      /\ page.hooks.limited = reporter.hitLimit /\ page.hooks \in Hooks
      /\ ~reporter.restarting /\ reporter.tests = {}
  BY <1>1 DEF PhaseInv, HooksFit
<1>3. n \in Nat /\ reporter.runTask = n
  BY <1>2, OpenTask
<1>4. PICK fate :
        /\ fate \in {"passes", "error"} \cup (IF page.hooks.limited THEN {"over"} ELSE {})
        /\ fates' = [fates EXCEPT ![page.run] = fate]
        /\ Karma!OnRunComplete(Karma!OnBrowserComplete([reporter EXCEPT !.tests = @ \cup {page.run}], fate),
                         IF fate = "error" THEN "error" ELSE "fine")
  BY DEF Karma!Complete
<1>5. PICK tested : tested = [reporter EXCEPT !.tests = @ \cup {page.run}]
  OBVIOUS
<1>6. /\ tested \in Reporters /\ tested.runTask = n /\ tested.tests = {n} /\ tested.hitLimit = reporter.hitLimit
      /\ ~tested.restarting
  <2>1. tested = [reporter EXCEPT !.tests = {n}]
    BY <1>1, <1>2, <1>5 DEF KarmaTypes, Reporters
  <2>2. {n} \in SUBSET Nat
    BY <1>3
  <2>3. reporter \in Reporters
    BY <1>1 DEF KarmaTypes
  <2>4. PICK t \in SUBSET Nat : t = {n}
    BY <2>2
  <2>5. tested = [reporter EXCEPT !.tests = t]
    BY <2>1, <2>4
  <2>6. /\ tested \in Reporters /\ tested.runTask = reporter.runTask /\ tested.tests = t
        /\ tested.hitLimit = reporter.hitLimit /\ tested.restarting = reporter.restarting
    BY <2>3, <2>5, TestsAreSet
  <2> QED BY <1>2, <1>3, <2>4, <2>6
<1>7. PICK completed : completed = Karma!OnBrowserComplete(tested, fate)
  OBVIOUS
<1>8. /\ completed \in Reporters /\ completed.runTask = n /\ completed.tests = {n}
      /\ completed.hitLimit = page.hooks.limited
      /\ ~completed.restarting /\ (completed.hitCount = "over" <=> page.hooks.limited /\ fate = "over")
  BY <1>2, <1>6, <1>7, BrowserCompletes
<1>9. PICK result \in {"error", "fine"} : result = IF fate = "error" THEN "error" ELSE "fine"
  OBVIOUS
<1>10. PICK r : r = [completed EXCEPT !.result = result]
  OBVIOUS
<1>11. /\ r \in Reporters /\ r.runTask = n /\ r.tests = {n} /\ r.hitLimit = page.hooks.limited /\ r.result = result
       /\ r.hitCount = "over" <=> page.hooks.limited /\ fate = "over"
  BY <1>8, <1>10, ResultIsSet DEF Results
<1>12. /\ Karma!Answered(r) /\ reporter' = [r EXCEPT !.runTask = 0] /\ stray' = (stray \/ completed.runTask = 0)
  BY <1>4, <1>5, <1>7, <1>8, <1>9, <1>10 DEF Karma!OnRunComplete
<1>13. reporter' \in Reporters /\ reporter'.runTask = 0
  BY <1>11, <1>12, TaskIsCleared
<1>14. stray' = FALSE /\ scheduled' = FALSE
  <2>1. ~stray /\ completed.runTask # 0
    BY <1>2, <1>3, <1>8 DEF KarmaRunInv
  <2>2. scheduled' = FALSE
    BY <1>1, <1>2
  <2> QED BY <1>12, <2>1, <2>2
<1>15. /\ fate \in Fates /\ fate \in {"passes", "error", "over", "disconnect"}
       /\ fate = "over" => page.hooks.limited
  BY <1>4 DEF Fates
<1>16. Fated(fate)
  <2>1. fates' = [fates EXCEPT ![page.run] = fate]
    BY <1>4, Zenon
  <2>2. fates' = [fates EXCEPT ![n] = fate]
    BY <1>2, <2>1
  <2> QED BY <1>2, <1>15, <2>2, FateIsKnown
<1>17. Deserves(r, fate, n)
  <2>1. fate # "disconnect"
    BY <1>4
  <2> QED BY <1>9, <1>11, <1>15, <2>1 DEF Deserves
<1>18. r.runTask = reporter.runTask
  BY <1>3, <1>11
<1> QED BY <1>1, <1>2, <1>11, <1>12, <1>13, <1>14, <1>15, <1>16, <1>17, <1>18, RunIsOver

\* The browser is lost while it executes the run: the run completes without
\* it, and is answered when a browser is back.
LEMMA DisconnectStep ==
  ASSUME KarmaRunInv, Karma!Disconnect
  PROVE  KarmaRunInv'
<1> DEFINE n == Len(answers)
<1>1. KarmaTypes /\ TaskInv /\ PhaseInv /\ Karma!AnswersAreRight /\ ~stray /\ browser = "executing" /\ browser' = "lost"
      /\ UNCHANGED <<hooks, scheduled, page, answers, stray>>
  BY DEF KarmaRunInv, Karma!Disconnect
<1>2. reporter.runTask # 0 /\ ~scheduled /\ page.run = n
  BY <1>1 DEF PhaseInv
<1>3. n \in Nat /\ n \in 1..n /\ answers[n] = Karma!Unanswered /\ DOMAIN answers = 1..n
  BY <1>1, <1>2, OpenTask DEF KarmaTypes
<1>4. Fated("disconnect")
  <2>1. fates' = [fates EXCEPT ![n] = "disconnect"] /\ "disconnect" \in Fates
    BY <1>2 DEF Karma!Disconnect, Fates
  <2> QED BY <1>2, <2>1, FateIsKnown
<1>4a. /\ fates' \in Seq(Fates) /\ Len(fates') = n /\ fates'[n] = "disconnect"
      /\ \A k \in 1..n : k # n => fates'[k] = fates[k]
  BY <1>4 DEF Fated
<1>5. reporter' \in Reporters /\ reporter'.runTask = reporter.runTask /\ reporter'.restarting
  <2>1. PICK done \in {{}, {page.run}} : reporter' = Karma!Disconnected([reporter EXCEPT !.tests = done])
    BY DEF Karma!Disconnect
  <2>2. done \in SUBSET Nat
    BY <1>2, <1>3
  <2>3. PICK r : r = [reporter EXCEPT !.tests = done]
    OBVIOUS
  <2>4. r \in Reporters /\ r.runTask = reporter.runTask
    <3>1. PICK t \in SUBSET Nat : t = done
      BY <2>2
    <3>2. r = [reporter EXCEPT !.tests = t] /\ reporter \in Reporters
      BY <1>1, <2>3, <3>1 DEF KarmaTypes
    <3> QED BY <3>2, TestsAreSet
  <2> QED BY <2>1, <2>3, <2>4, BrowserDisconnects
<1>6. KarmaTypes' /\ TaskInv' /\ PhaseInv'
  BY <1>1, <1>2, <1>4a, <1>5 DEF KarmaTypes, TaskInv, PhaseInv
<1>7. Karma!AnswersAreRight'
  <2>1. ASSUME NEW k \in 1..n PROVE Karma!AnswerIsRight(k)'
    <3>1. CASE k = n
      BY <1>1, <1>3, <3>1 DEF Karma!AnswerIsRight
    <3>2. CASE k # n
      BY <1>1, <1>3, <1>4a, <3>2 DEF Karma!AnswersAreRight, Karma!AnswerIsRight
    <3> QED BY <3>1, <3>2
  <2> QED BY <1>1, <1>3, <2>1 DEF Karma!AnswersAreRight
<1> QED BY <1>1, <1>6, <1>7 DEF KarmaRunInv

LEMMA CompleteWithoutBrowserStep ==
  ASSUME KarmaRunInv, Karma!CompleteWithoutBrowser
  PROVE  KarmaRunInv'
<1>1. /\ KarmaTypes /\ TaskInv /\ PhaseInv /\ Karma!AnswersAreRight /\ ~stray
      /\ browser = "lost" /\ browser' = "restarting"
      /\ UNCHANGED <<hooks, scheduled, page, fates>> /\ Karma!OnRunComplete(reporter, "disconnected")
  BY DEF KarmaRunInv, Karma!CompleteWithoutBrowser
<1>2. reporter.runTask # 0 /\ ~scheduled /\ reporter.restarting /\ fates[Len(answers)] = "disconnect"
  BY <1>1 DEF PhaseInv
<1>3. reporter' = [reporter EXCEPT !.result = "disconnected"] /\ answers' = answers /\ stray' = stray
  BY <1>1, <1>2 DEF Karma!OnRunComplete
<1>4. /\ reporter' \in Reporters /\ reporter'.runTask = reporter.runTask /\ reporter'.restarting
      /\ reporter'.result = "disconnected"
  <2>1. "disconnected" \in Results /\ reporter \in Reporters
    BY <1>1 DEF Results, KarmaTypes
  <2> QED BY <1>2, <1>3, <2>1, ResultIsSet
<1>5. KarmaTypes' /\ TaskInv' /\ Karma!AnswersAreRight'
  BY <1>1, <1>3, <1>4 DEF KarmaTypes, TaskInv, Karma!AnswersAreRight, Karma!AnswerIsRight
<1>6. PhaseInv'
  BY <1>1, <1>2, <1>3, <1>4 DEF PhaseInv
<1> QED BY <1>1, <1>3, <1>5, <1>6 DEF KarmaRunInv

LEMMA RecaptureStep ==
  ASSUME KarmaRunInv, Karma!Recapture
  PROVE  KarmaRunInv'
<1>1. /\ KarmaTypes /\ TaskInv /\ PhaseInv /\ ~stray /\ browser = "restarting" /\ browser' = "idle"
      /\ UNCHANGED <<hooks, scheduled, page, fates, stray>>
      /\ Karma!Answered(reporter) /\ reporter' = [reporter EXCEPT !.initTask = FALSE, !.runTask = 0]
  BY DEF KarmaRunInv, Karma!Recapture, Karma!OnBrowsersReady
<1>2. reporter.runTask # 0 /\ ~scheduled /\ reporter.result = "disconnected" /\ fates[Len(answers)] = "disconnect"
  BY <1>1 DEF PhaseInv
<1>3. reporter \in Reporters /\ reporter' \in Reporters /\ reporter'.runTask = 0
  BY <1>1, TaskIsCleared DEF KarmaTypes
<1>4. scheduled' = FALSE /\ stray' = FALSE
  <2>1. stray' = FALSE
    BY <1>1
  <2> QED BY <1>1, <1>2, <2>1
<1>5. Fated("disconnect")
  BY <1>1, <1>2 DEF KarmaTypes, Fated
<1>5a. Deserves(reporter, "disconnect", Len(answers))
  BY <1>2 DEF Deserves
<1>6. PICK fate \in {"passes", "error", "over", "disconnect"} : fate = "disconnect"
  OBVIOUS
<1> QED BY <1>1, <1>2, <1>3, <1>4, <1>5, <1>5a, <1>6, RunIsOver

\* Init and the steps of the karma runner.
LEMMA InitKarma ==
  ASSUME Karma!Init
  PROVE  KarmaRunInv
<1>1. /\ reporter = Karma!FreshReporter /\ scheduled = FALSE /\ browser = "none"
      /\ init = "new" /\ browsersReady = "pending"
      /\ fates = << >> /\ answers = << >> /\ stray = FALSE
  BY DEF Karma!Init
<1>2. Karma!FreshReporter \in Reporters /\ Karma!FreshReporter.runTask = 0
  BY DEF Karma!FreshReporter, Reporters, Coverages
<1>3. << >> \in Seq(Answers) /\ << >> \in Seq(Fates) /\ Len(<< >>) = 0 /\ DOMAIN answers = {}
  BY <1>1
<1>4. KarmaTypes /\ TaskInv
  BY <1>1, <1>2, <1>3 DEF KarmaTypes, TaskInv
<1>5. PhaseInv
  BY <1>1, <1>2 DEF PhaseInv
<1>6. Karma!AnswersAreRight
  BY <1>3 DEF Karma!AnswersAreRight
<1> QED BY <1>1, <1>4, <1>5, <1>6 DEF KarmaRunInv

LEMMA KarmaSteps ==
  ASSUME KarmaInv, [Karma!Next]_(Karma!vars)
  PROVE  KarmaInv'
<1>1. CASE idleLoss
  <2>1. idleLoss'
    BY <1>1 DEF Karma!Next, Karma!vars, Karma!StartInit, Karma!CreateServer, Karma!Started, Karma!Capture,
       Karma!BrowserFails, Karma!Exit, Karma!EndInit, Karma!DryRun, Karma!MutantRun,
         Karma!Execute, Karma!Complete, Karma!Disconnect, Karma!CompleteWithoutBrowser, Karma!DisconnectIdle,
            Karma!Recapture, Karma!Dispose, Karma!EndDispose
  <2> QED BY <2>1 DEF KarmaInv
<1>2. CASE KarmaRunInv
  <2>1. PhaseInv
    BY <1>2 DEF KarmaRunInv
  <2>2. CASE \/ Karma!StartInit \/ Karma!CreateServer \/ Karma!Started \/ Karma!BrowserFails
             \/ Karma!Dispose \/ Karma!EndDispose \/ UNCHANGED Karma!vars
    <3>1. UNCHANGED <<hooks, scheduled, page, fates, answers, stray, browser>>
      BY <2>2 DEF Karma!StartInit, Karma!CreateServer, Karma!Started, Karma!BrowserFails, Karma!Dispose,
         Karma!EndDispose, Karma!vars
    <3>2. reporter' = reporter \/ \E a \in BOOLEAN : reporter' = [reporter EXCEPT !.initTask = a]
      BY <2>2 DEF Karma!StartInit, Karma!CreateServer, Karma!Started, Karma!BrowserFails, Karma!Dispose,
         Karma!EndDispose, Karma!vars
    <3>3. browser = "none" => browsersReady' # "resolved" /\ init' # "ready"
      BY <2>1, <2>2 DEF PhaseInv, Karma!StartInit, Karma!CreateServer, Karma!Started, Karma!BrowserFails,
         Karma!Dispose, Karma!EndDispose, Karma!vars
    <3> QED BY <1>2, <3>1, <3>2, <3>3, ServerSteps DEF KarmaInv
  <2>3. CASE Karma!Exit \/ Karma!EndInit
    <3>1. UNCHANGED <<hooks, scheduled, page, fates, answers, stray, reporter>> /\ browser' \in {browser, "gone"}
      BY <2>3 DEF Karma!Exit, Karma!EndInit
    <3>2. browser = "none" /\ browser' # "gone" => browsersReady' # "resolved" /\ init' # "ready"
      BY <2>1, <2>3 DEF PhaseInv, Karma!Exit, Karma!EndInit
    <3> QED BY <1>2, <3>1, <3>2, ServerSteps DEF KarmaInv
  <2>4. CASE Karma!DryRun
    <3>1. Karma!Free /\ answers = << >> /\ UNCHANGED <<init, browsersReady, browser, page, stray>>
      BY <2>4 DEF Karma!DryRun
    <3>2. PICK analysis \in {"perTest", "all", "off"} :
            IF analysis = "perTest" /\ Karma!TestFramework = Karma!Nothing
            THEN /\ answers' = <<[status |-> "throws", tests |-> {}, coverage |-> Karma!Nothing]>>
                 /\ fates' = <<"throws">> /\ UNCHANGED <<hooks, scheduled, reporter>>
            ELSE Karma!Asked(Karma!CoverageHooks(analysis), FALSE)
      BY <2>4 DEF Karma!DryRun
    <3>3. CASE analysis = "perTest" /\ Karma!TestFramework = Karma!Nothing
      BY <1>2, <3>1, <3>2, <3>3, ThrowsStep DEF KarmaInv
    <3>4. CASE ~(analysis = "perTest" /\ Karma!TestFramework = Karma!Nothing)
      <4>1. PICK h \in Hooks : h = Karma!CoverageHooks(analysis) /\ h.limited = FALSE /\ h.active = 0
        <5>1. PICK c \in Coverages : c = IF analysis = "off" THEN Karma!Nothing ELSE analysis
          BY DEF Coverages
        <5>2. Karma!CoverageHooks(analysis) = [coverage |-> c, active |-> 0, limited |-> FALSE, filtered |-> FALSE]
          BY <5>1 DEF Karma!CoverageHooks
        <5>3. Karma!CoverageHooks(analysis) \in Hooks
          BY <5>2 DEF Hooks
        <5> QED BY <5>2, <5>3
      <4> QED BY <1>2, <3>1, <3>2, <3>4, <4>1, AskedStep DEF KarmaInv
    <3> QED BY <3>3, <3>4
  <2>5. CASE Karma!MutantRun
    <3>1. Karma!Free /\ UNCHANGED <<init, browsersReady, browser, stray>>
      BY <2>5 DEF Karma!MutantRun
    <3>2. PICK limited \in BOOLEAN, filtered \in BOOLEAN :
            Karma!Asked(Karma!MutantHooks(Len(answers) + 1, limited, filtered), limited)
      BY <2>5 DEF Karma!MutantRun
    <3>3. PICK next \in Nat : next = Len(answers) + 1
      BY <1>2 DEF KarmaRunInv, KarmaTypes
    <3>4. PICK h : h = Karma!MutantHooks(next, limited, filtered)
      OBVIOUS
    <3>5. h \in Hooks /\ h.limited = limited /\ h.active = next
      <4>1. PICK f \in BOOLEAN : f = (filtered /\ Karma!TestFramework # Karma!Nothing)
        OBVIOUS
      <4>2. PICK off \in Hooks : off = Karma!CoverageHooks("off")
        BY DEF Karma!CoverageHooks, Hooks, Coverages
      <4>3. h = [off EXCEPT !.active = next, !.limited = limited, !.filtered = f]
        BY <3>4, <4>1, <4>2 DEF Karma!MutantHooks
      <4> QED BY <4>2, <4>3 DEF Hooks
    <3> QED BY <1>2, <3>1, <3>2, <3>3, <3>4, <3>5, AskedStep DEF KarmaInv
  <2>6. CASE Karma!DisconnectIdle
    BY <2>6 DEF Karma!DisconnectIdle, KarmaInv
  <2>7. CASE \/ Karma!Capture \/ Karma!Execute \/ Karma!Complete \/ Karma!Disconnect
             \/ Karma!CompleteWithoutBrowser \/ Karma!Recapture
    BY <1>2, <2>7, CaptureStep, ExecuteStep, CompleteStep, DisconnectStep, CompleteWithoutBrowserStep, RecaptureStep
       DEF KarmaInv
  <2> QED BY <2>2, <2>3, <2>4, <2>5, <2>6, <2>7 DEF Karma!Next
<1> QED BY <1>1, <1>2 DEF KarmaInv

\* What the invariant is for.
LEMMA KarmaIsRight == KarmaInv => Karma!RightUntilIdleLoss /\ Karma!PageIsOfTheRun
<1> SUFFICES ASSUME KarmaInv PROVE Karma!RightUntilIdleLoss /\ Karma!PageIsOfTheRun
  OBVIOUS
<1>1. CASE idleLoss
  BY <1>1 DEF Karma!RightUntilIdleLoss, Karma!PageIsOfTheRun
<1>2. CASE KarmaRunInv
  <2>1. Karma!AnswersAreRight /\ ~stray /\ PhaseInv /\ TaskInv
    BY <1>2 DEF KarmaRunInv
  <2> QED BY <2>1 DEF Karma!RightUntilIdleLoss, Karma!PageIsOfTheRun, PhaseInv, TaskInv, HooksFit
<1> QED BY <1>1, <1>2 DEF KarmaInv

-----------------------------------------------------------------------------
(* Verdicts: sequences of sequences *)

\* What FlattenSeq computes, index by index.
Joins(f, k, e) == \A i \in 1..k : f[i] = IF i = 1 THEN e[i] ELSE f[i - 1] \o e[i]

LEMMA JoinExists ==
  ASSUME NEW n \in Nat, NEW e
  PROVE  \A k \in 0..n : \E f : f = [i \in 1..k |-> IF i = 1 THEN e[i] ELSE f[i - 1] \o e[i]]
<1> DEFINE IsJoin(f, k) == f = [i \in 1..k |-> IF i = 1 THEN e[i] ELSE f[i - 1] \o e[i]]
           T == {k \in 0..n : \E f : IsJoin(f, k)}
<1>1. 0 \in T
  <2>1. IsJoin([i \in 1..0 |-> e[i]], 0)
    <3>1. 1..0 = {}
      OBVIOUS
    <3> QED BY <3>1
  <2>2. 0 \in 0..n
    OBVIOUS
  <2> HIDE DEF IsJoin
  <2> QED BY <2>1, <2>2
<1>2. \A k \in 0..(n - 1) : k \in T => k + 1 \in T
  <2> SUFFICES ASSUME NEW k \in 0..(n - 1), k \in T PROVE k + 1 \in T
    OBVIOUS
  <2>1. PICK f : IsJoin(f, k)
    OBVIOUS
  <2> DEFINE g == [i \in 1..(k + 1) |-> IF i = 1 THEN e[i] ELSE f[i - 1] \o e[i]]
  <2>2. \A i \in 1..k : g[i] = f[i]
    <3>1. \A i \in 1..k : f[i] = IF i = 1 THEN e[i] ELSE f[i - 1] \o e[i]
      BY <2>1
    <3>2. 1..k \subseteq 1..(k + 1)
      OBVIOUS
    <3> QED BY <3>1, <3>2
  <2>3. \A i \in 1..(k + 1) : i # 1 => i - 1 \in 1..k
    OBVIOUS
  <2>4. \A i \in 1..(k + 1) : i # 1 => g[i - 1] = f[i - 1]
    BY <2>2, <2>3
  <2>5. IsJoin(g, k + 1)
    BY <2>4
  <2>6. k + 1 \in 0..n
    OBVIOUS
  <2> HIDE DEF g, IsJoin
  <2> QED BY <2>5, <2>6
<1> HIDE DEF T
<1>3. \A k \in 0..n : k \in T
  BY <1>1, <1>2, BoundedInduction
<1> QED BY <1>3 DEF T

LEMMA FlattenJoins ==
  ASSUME NEW n \in Nat, n # 0, NEW S, NEW e \in [1..n -> Seq(S)]
  PROVE  \E f : Joins(f, n, e) /\ Plugin!FlattenSeq(e) = f[n]
<1> DEFINE f == CHOOSE f : f = [i \in 1..n |-> IF i = 1 THEN e[i] ELSE f[i - 1] \o e[i]]
<1>1. Len(e) = n
  OBVIOUS
<1>2. Plugin!FlattenSeq(e) = f[n]
  BY <1>1 DEF Plugin!FlattenSeq
<1>3. \E g : g = [i \in 1..n |-> IF i = 1 THEN e[i] ELSE g[i - 1] \o e[i]]
  <2>1. n \in 0..n
    OBVIOUS
  <2> QED BY <2>1, JoinExists
<1>4. f = [i \in 1..n |-> IF i = 1 THEN e[i] ELSE f[i - 1] \o e[i]]
  BY <1>3
<1> HIDE DEF f
<1>5. Joins(f, n, e)
  BY <1>4 DEF Joins
<1> QED BY <1>2, <1>5

\* The elements of two sequences, one after the other.
LEMMA ConcatFacts ==
  ASSUME NEW S, NEW q \in Seq(S), NEW r \in Seq(S)
  PROVE  /\ q \o r \in Seq(S) /\ Len(q \o r) = Len(q) + Len(r)
         /\ DOMAIN (q \o r) = 1..(Len(q) + Len(r)) /\ DOMAIN q = 1..Len(q) /\ DOMAIN r = 1..Len(r)
         /\ Len(q) \in Nat /\ Len(r) \in Nat
         /\ \A i \in 1..Len(q) : (q \o r)[i] = q[i]
         /\ \A i \in 1..Len(r) : (q \o r)[Len(q) + i] = r[i]
         /\ \A i \in 1..(Len(q) + Len(r)) : i \notin 1..Len(q) => i - Len(q) \in 1..Len(r) /\ (q \o r)[i] = r[i - Len(q)]
OBVIOUS

LEMMA ConcatRange ==
  ASSUME NEW S, NEW q \in Seq(S), NEW r \in Seq(S)
  PROVE  Range(q \o r) = Range(q) \cup Range(r)
<1> DEFINE c == q \o r
<1>1. /\ DOMAIN c = 1..(Len(q) + Len(r)) /\ DOMAIN q = 1..Len(q) /\ DOMAIN r = 1..Len(r)
      /\ Len(q) \in Nat /\ Len(r) \in Nat
      /\ \A i \in 1..Len(q) : c[i] = q[i]
      /\ \A i \in 1..Len(r) : c[Len(q) + i] = r[i]
      /\ \A i \in 1..(Len(q) + Len(r)) : i \notin 1..Len(q) => i - Len(q) \in 1..Len(r) /\ c[i] = r[i - Len(q)]
  BY ConcatFacts
<1> HIDE DEF c
<1>2. \A i \in DOMAIN c : c[i] \in Range(q) \cup Range(r)
  <2> SUFFICES ASSUME NEW i \in DOMAIN c PROVE c[i] \in Range(q) \cup Range(r)
    OBVIOUS
  <2>1. CASE i \in 1..Len(q)
    BY <1>1, <2>1 DEF Range
  <2>2. CASE i \notin 1..Len(q)
    BY <1>1, <2>2 DEF Range
  <2> QED BY <2>1, <2>2
<1>3. \A i \in DOMAIN q : i \in DOMAIN c /\ c[i] = q[i]
  BY <1>1
<1>4. \A i \in DOMAIN r : Len(q) + i \in DOMAIN c /\ c[Len(q) + i] = r[i]
  BY <1>1
<1>5. Range(q) \subseteq Range(c)
  BY <1>3 DEF Range
<1>6. Range(r) \subseteq Range(c)
  BY <1>4 DEF Range
<1>7. Range(c) \subseteq Range(q) \cup Range(r)
  BY <1>2 DEF Range
<1> QED BY <1>5, <1>6, <1>7 DEF c
-----------------------------------------------------------------------------
(* Verdicts: the inductive invariant *)

\* The places of the tests, where the active mutant acts, and the words of
\* the model.
PlacesOfTests == {"load", "setup", "body"} \X Range(Tests)

Acting == {p \in PlacesOfTests : Plugin!Acts(p)}

Outcomes == {"none", "Killed", "Survived", "Timeout", "NoCoverage", "Ignored"}

Suites == {"mocha", "jasmine", "karma", "cucumber"}

Reloading == Plugin!Plugin("none").reloads

Mutated == Plugin!Mutated

\* Sequences of places, as rigid values: the bodies come after what is
\* loaded and set up for them; all loads come first; a test fails because
\* it is broken already or is going to be; the mutant is going to be hit.
Followed(q, tests) ==
  \A i \in DOMAIN q : q[i][2] \in tests => \E j \in DOMAIN q : i <= j /\ q[j] = <<"body", q[i][2]>>

LoadsFirst(q) == \A i, j \in DOMAIN q : i <= j /\ q[j][1] = "load" => q[i][1] = "load"

NoLoads(q) == \A i \in DOMAIN q : q[i][1] # "load"

Dooms(q, acting, damaged) ==
  \/ \E i \in DOMAIN q : q[i][1] = "body" /\ q[i][2] \in damaged
  \/ \E i, j \in DOMAIN q : i <= j /\ q[i] \in acting /\ q[j] = <<"body", q[i][2]>>

Strikes(q, acting) == \E i \in DOMAIN q : q[i] \in acting

\* What covers a place counts for its test, or as static.
Expected(p) ==
  IF world.plugin = "tap" \/ (p[1] = "body" /\ Plugin!Tracking.starts) THEN p[2] ELSE "static"

\* The types, before and after the plugin is configured.
Worlds == [of : {"world"}, plugin : Plugins, analysis : {"perTest", "all", "off"}, ignoreStatic : BOOLEAN, mutants : Shapes]

DryRuns == [of : {"dryRun"}, filter : {{}}, activation : {"runtime"}, limited : {FALSE}, bail : {FALSE}]

MutantRuns ==
  [of : Mutated, filter : SUBSET Range(Tests), activation : {"static", "runtime"}, limited : BOOLEAN, bail : BOOLEAN]

ValueTypes ==
  /\ todo \in Seq(PlacesOfTests) /\ loaded \in BOOLEAN /\ staticRun \in BOOLEAN
  /\ broken \in [load : SUBSET Range(Tests), now : SUBSET Range(Tests)] /\ ns.over \in BOOLEAN

NothingYet ==
  /\ todo = << >> /\ ns = Plugin!NoNamespace /\ ~loaded /\ grep = {} /\ broken = Plugin!NotBroken
  /\ failed = {} /\ coverage = {} /\ ~staticRun

WorldTypes ==
  /\ world \in Worlds /\ (world.ignoreStatic => world.analysis = "perTest")
  /\ outcome \in [Mutated -> Outcomes]
  /\ run \in {Plugin!None, Plugin!Idle} \cup DryRuns \cup MutantRuns

\* What is left in a process from the runs before.
ProcessInv ==
  /\ ~loaded => grep = {} /\ broken.load = {} /\ ~staticRun
  /\ broken.load # {} => staticRun \/ Reloading \/ Plugin!MayPoison

\* What the dry run has covered, or is still going to cover.
CoverageInv ==
  run # Plugin!None /\ Plugin!Reported =>
    /\ \A m \in Mutated : \A p \in Plugin!Places(m) :
         ~Plugin!Misattributed(m) \/ Expected(p) # "static" =>
           \/ <<m, Expected(p)>> \in coverage
           \/ run.of = "dryRun" /\ p \in Range(todo)
    /\ \A m \in Mutated : \A x : <<m, x>> \in coverage => Plugin!Places(m) # {}

\* The dry run: nothing is broken, and files are loaded before there is a
\* current test that they could be attributed to.
DryRunInv ==
  run.of = "dryRun" =>
    /\ broken = Plugin!NotBroken /\ failed = {} /\ ~ns.over
    /\ ns.currentTestId # "none" =>
         /\ Plugin!Tracking.starts /\ ~Plugin!Tracking.forgets
         /\ world.plugin \in Suites => NoLoads(todo)
    /\ world.plugin \in Suites => LoadsFirst(todo)

\* The run of a mutant: why it is there, that what is broken or hit is so
\* because of the mutant, and that the mutant is or will be noticed.
Justified(m) ==
  \/ /\ run.activation = "static"
     /\ ~Plugin!Reported \/ (Plugin!HasStatic(m) /\ ~world.ignoreStatic)
  \/ /\ run.activation = "runtime" /\ Plugin!Reported
     /\ run.filter = Plugin!CoveredBy(m) /\ Plugin!CoveredBy(m) # {}
     /\ world.ignoreStatic \/ ~Plugin!HasStatic(m)

Damaged == broken.load \cup broken.now

Blamed(m) ==
  /\ ~Plugin!MayPoison /\ (Damaged # {} \/ failed # {}) =>
       Plugin!Kind(m) # "harmless" /\ Plugin!Places(m) # {} /\ (Plugin!Kind(m) = "runaway" => ns.over)
  /\ ns.over => Plugin!Kind(m) = "runaway" /\ Plugin!Places(m) # {}

Noticed(m) ==
  ~world.ignoreStatic /\ ~Plugin!Misattributed(m) /\ Plugin!Places(m) # {} =>
    /\ Plugin!Kind(m) = "lethal" => failed # {} \/ Dooms(todo, Acting, Damaged)
    /\ Plugin!Kind(m) = "runaway" => ns.over \/ Strikes(todo, Acting)

RunInv ==
  \A m \in Mutated : run.of = m =>
    /\ loaded /\ staticRun = (run.activation = "static")
    /\ Justified(m) /\ Blamed(m) /\ Noticed(m)

\* A verdict that is right, as EveryVerdictIsDeserved and NoFalseKills say.
Right(m, verd) ==
  /\ verd # "none" /\ ~world.ignoreStatic /\ ~Plugin!Misattributed(m) => verd \in Plugin!Deserved(m)
  /\ verd \in {"Killed", "Timeout"} /\ ~Plugin!MayPoison => Plugin!Kind(m) # "harmless"
  /\ verd = "Ignored" => world.ignoreStatic /\ \A t \in Range(Tests) : <<"body", t>> \notin Plugin!Places(m)

RightVerdicts == {mv \in Mutated \X Outcomes : Right(mv[1], mv[2])}

Unconfigured == world = Plugin!None /\ run = Plugin!None /\ outcome = << >> /\ NothingYet

Configured ==
  /\ WorldTypes /\ (run = Plugin!None => NothingYet)
  /\ ProcessInv /\ CoverageInv /\ DryRunInv /\ RunInv
  /\ \A m \in Mutated : <<m, outcome[m]>> \in RightVerdicts

VerdictsInv == ValueTypes /\ (Unconfigured \/ Configured)

-----------------------------------------------------------------------------
(* Verdicts: the places of a run *)

LEMMA FollowedConcat ==
  ASSUME NEW tests, NEW q \in Seq(PlacesOfTests), NEW r \in Seq(PlacesOfTests), Followed(r, tests),
         \A i \in DOMAIN q : q[i][2] \in tests =>
           \/ \E j \in DOMAIN q : i <= j /\ q[j] = <<"body", q[i][2]>>
           \/ <<"body", q[i][2]>> \in Range(r)
  PROVE  Followed(q \o r, tests)
<1> DEFINE c == q \o r
<1>1. /\ DOMAIN c = 1..(Len(q) + Len(r)) /\ DOMAIN q = 1..Len(q) /\ DOMAIN r = 1..Len(r)
      /\ Len(q) \in Nat /\ Len(r) \in Nat
      /\ \A i \in 1..Len(q) : c[i] = q[i]
      /\ \A i \in 1..Len(r) : c[Len(q) + i] = r[i]
      /\ \A i \in 1..(Len(q) + Len(r)) : i \notin 1..Len(q) => i - Len(q) \in 1..Len(r) /\ c[i] = r[i - Len(q)]
  BY ConcatFacts
<1> HIDE DEF c
<1>2. ASSUME NEW i \in DOMAIN c, c[i][2] \in tests
      PROVE  \E j \in DOMAIN c : i <= j /\ c[j] = <<"body", c[i][2]>>
  <2>1. CASE i \in 1..Len(q)
    <3>1. c[i] = q[i] /\ i \in DOMAIN q
      BY <1>1, <2>1
    <3>2. CASE \E j \in DOMAIN q : i <= j /\ q[j] = <<"body", q[i][2]>>
      <4>1. PICK j \in DOMAIN q : i <= j /\ q[j] = <<"body", q[i][2]>>
        BY <3>2
      <4>2. j \in DOMAIN c /\ c[j] = q[j]
        BY <1>1, <4>1
      <4> QED BY <3>1, <4>1, <4>2
    <3>3. CASE <<"body", q[i][2]>> \in Range(r)
      <4>1. PICK j \in DOMAIN r : r[j] = <<"body", q[i][2]>>
        BY <3>3 DEF Range
      <4>2. Len(q) + j \in DOMAIN c /\ c[Len(q) + j] = r[j] /\ i <= Len(q) + j
        BY <1>1, <2>1, <4>1
      <4> QED BY <3>1, <4>1, <4>2
    <3> QED BY <1>2, <3>1, <3>2, <3>3
  <2>2. CASE i \notin 1..Len(q)
    <3> DEFINE k == i - Len(q)
    <3>1. k \in DOMAIN r /\ c[i] = r[k] /\ i = Len(q) + k
      BY <1>1, <2>2
    <3> HIDE DEF k
    <3>2. PICK j \in DOMAIN r : k <= j /\ r[j] = <<"body", r[k][2]>>
      BY <1>2, <3>1 DEF Followed
    <3>3. Len(q) + j \in DOMAIN c /\ c[Len(q) + j] = r[j] /\ i <= Len(q) + j
      BY <1>1, <3>1, <3>2
    <3> QED BY <3>1, <3>2, <3>3
  <2> QED BY <2>1, <2>2
<1> QED BY <1>2 DEF Followed, c

LEMMA FlattenFacts ==
  ASSUME NEW n \in Nat, NEW e \in [1..n -> Seq(PlacesOfTests)], NEW tests,
         \A i \in 1..n : Followed(e[i], tests)
  PROVE  /\ Plugin!FlattenSeq(e) \in Seq(PlacesOfTests)
         /\ Range(Plugin!FlattenSeq(e)) = UNION {Range(e[i]) : i \in 1..n}
         /\ Followed(Plugin!FlattenSeq(e), tests)
<1>1. CASE n = 0
  <2>1. 1..n = {} /\ Len(e) = 0 /\ e = << >>
    BY <1>1
  <2>2. Plugin!FlattenSeq(e) = << >>
    BY <2>1 DEF Plugin!FlattenSeq
  <2>3. << >> \in Seq(PlacesOfTests) /\ DOMAIN << >> = {}
    OBVIOUS
  <2> QED BY <2>1, <2>2, <2>3 DEF Range, Followed
<1>2. CASE n # 0
  <2>1. PICK f : Joins(f, n, e) /\ Plugin!FlattenSeq(e) = f[n]
    BY <1>2, FlattenJoins
  <2> DEFINE Good(k) == /\ f[k] \in Seq(PlacesOfTests)
                        /\ \A x : x \in Range(f[k]) <=> \E i \in 1..k : x \in Range(e[i])
                        /\ Followed(f[k], tests)
             T == {k \in 0..n : k = 0 \/ Good(k)}
  <2>2. 0 \in T
    OBVIOUS
  <2>3. \A k \in 0..(n - 1) : k \in T => k + 1 \in T
    <3> SUFFICES ASSUME NEW k \in 0..(n - 1), k \in T PROVE k + 1 \in T
      OBVIOUS
    <3>1. k + 1 \in 1..n /\ k + 1 \in 0..n /\ e[k + 1] \in Seq(PlacesOfTests) /\ Followed(e[k + 1], tests)
      OBVIOUS
    <3>2. CASE k = 0
      <4>1. f[1] = e[1] /\ k + 1 = 1 /\ 1..1 = {1}
        BY <2>1, <3>1, <3>2 DEF Joins
      <4>3. Good(k + 1)
        BY <3>1, <4>1
      <4> QED BY <3>1, <4>3
    <3>3. CASE k # 0
      <4>1. Good(k)
        BY <3>3
      <4>2. k + 1 # 1 /\ (k + 1) - 1 = k
        BY <3>3
      <4>3. f[k + 1] = f[k] \o e[k + 1]
        BY <2>1, <3>1, <4>2 DEF Joins
      <4>4. f[k + 1] \in Seq(PlacesOfTests)
        BY <3>1, <4>1, <4>3
      <4>5. Range(f[k + 1]) = Range(f[k]) \cup Range(e[k + 1])
        BY <3>1, <4>1, <4>3, ConcatRange
      <4>6. 1..(k + 1) = (1..k) \cup {k + 1}
        OBVIOUS
      <4>8. \A x : x \in Range(f[k + 1]) <=> \E i \in 1..(k + 1) : x \in Range(e[i])
        BY <4>1, <4>5, <4>6
      <4>9. Followed(f[k + 1], tests)
        <5>1. f[k] \in Seq(PlacesOfTests) /\ Followed(f[k], tests)
          BY <4>1
        <5>2. \A i \in DOMAIN f[k] : f[k][i][2] \in tests =>
                \E j \in DOMAIN f[k] : i <= j /\ f[k][j] = <<"body", f[k][i][2]>>
          BY <5>1 DEF Followed
        <5>3. PICK q \in Seq(PlacesOfTests) : q = f[k]
          BY <5>1
        <5>4. PICK r \in Seq(PlacesOfTests) : r = e[k + 1]
          BY <3>1
        <5>5. Followed(r, tests)
          BY <3>1, <5>4
        <5>6. \A i \in DOMAIN q : q[i][2] \in tests =>
                \/ \E j \in DOMAIN q : i <= j /\ q[j] = <<"body", q[i][2]>>
                \/ <<"body", q[i][2]>> \in Range(r)
          BY <5>2, <5>3
        <5>7. Followed(q \o r, tests)
          BY <5>5, <5>6, FollowedConcat
        <5> QED BY <4>3, <5>3, <5>4, <5>7
      <4> QED BY <3>1, <4>4, <4>8, <4>9
    <3> QED BY <3>2, <3>3
  <2> HIDE DEF T
  <2>4. n \in T
    <3>1. n \in 0..n
      OBVIOUS
    <3> QED BY <2>2, <2>3, <3>1, BoundedInduction
  <2>5. Good(n)
    BY <1>2, <2>4 DEF T
  <2>6. Range(f[n]) = UNION {Range(e[i]) : i \in 1..n}
    BY <2>5
  <2> QED BY <2>1, <2>5, <2>6
<1> QED BY <1>1, <1>2

\* The tests are those of the sequence.
LEMMA TestsAreListed ==
  /\ Plugin!TestSet = Range(Tests) /\ Len(Tests) \in Nat /\ DOMAIN Tests = 1..Len(Tests)
  /\ \A i \in 1..Len(Tests) : Tests[i] \in Range(Tests)
  /\ \A t \in Range(Tests) : \E i \in 1..Len(Tests) : Tests[i] = t
<1>1. Tests \in Seq(Range(Tests))
  BY PluginsAssumption
<1>2. Len(Tests) \in Nat /\ DOMAIN Tests = 1..Len(Tests)
  BY <1>1
<1>3. Plugin!TestSet = Range(Tests)
  BY DEF Plugin!TestSet, Plugin!Range, Range
<1> QED BY <1>2, <1>3 DEF Range

\* What the places of a test are in the order in which they are executed,
\* with and without its file.
LEMMA RunTestFacts ==
  ASSUME NEW filter, NEW t \in Range(Tests)
  PROVE  /\ Plugin!RunTest(t, filter) \in Seq(PlacesOfTests)
         /\ Range(Plugin!RunTest(t, filter)) = IF t \in filter THEN {<<"setup", t>>, <<"body", t>>} ELSE {}
         /\ Followed(Plugin!RunTest(t, filter), filter)
<1>1. CASE t \in filter
  <2> DEFINE q == <<<<"setup", t>>, <<"body", t>>>>
  <2>1. Plugin!RunTest(t, filter) = q
    BY <1>1 DEF Plugin!RunTest, Plugin!Setup, Plugin!Body
  <2>2. q \in Seq(PlacesOfTests) /\ DOMAIN q = {1, 2} /\ q[1] = <<"setup", t>> /\ q[2] = <<"body", t>>
    BY DEF PlacesOfTests
  <2> HIDE DEF q
  <2>3. Range(q) = {<<"setup", t>>, <<"body", t>>}
    BY <2>2 DEF Range
  <2>4. Followed(q, filter)
    <3>1. \A i \in {1, 2} : i <= 2 /\ q[i][2] = t
      BY <2>2
    <3> QED BY <2>2, <3>1 DEF Followed
  <2> QED BY <1>1, <2>1, <2>2, <2>3, <2>4
<1>2. CASE t \notin filter
  <2>1. Plugin!RunTest(t, filter) = << >>
    BY <1>2 DEF Plugin!RunTest
  <2>2. << >> \in Seq(PlacesOfTests) /\ DOMAIN << >> = {}
    OBVIOUS
  <2> QED BY <1>2, <2>1, <2>2 DEF Range, Followed
<1> QED BY <1>1, <1>2

LEMMA LoadFacts ==
  ASSUME NEW t \in Range(Tests)
  PROVE  /\ <<Plugin!Load(t)>> \in Seq(PlacesOfTests) /\ Range(<<Plugin!Load(t)>>) = {<<"load", t>>}
         /\ Followed(<<Plugin!Load(t)>>, {})
<1> DEFINE q == <<Plugin!Load(t)>>
<1>1. q \in Seq(PlacesOfTests) /\ DOMAIN q = {1} /\ q[1] = <<"load", t>>
  BY DEF Plugin!Load, PlacesOfTests
<1> HIDE DEF q
<1>2. Range(q) = {<<"load", t>>} /\ Followed(q, {})
  BY <1>1 DEF Range, Followed
<1> QED BY <1>1, <1>2 DEF q

LEMMA LoadAndRunFacts ==
  ASSUME NEW filter, NEW t \in Range(Tests)
  PROVE  /\ <<Plugin!Load(t)>> \o Plugin!RunTest(t, filter) \in Seq(PlacesOfTests)
         /\ Range(<<Plugin!Load(t)>> \o Plugin!RunTest(t, filter)) =
              {<<"load", t>>} \cup IF t \in filter THEN {<<"setup", t>>, <<"body", t>>} ELSE {}
         /\ Followed(<<Plugin!Load(t)>> \o Plugin!RunTest(t, filter), filter)
<1> DEFINE q == <<Plugin!Load(t)>>
           r == Plugin!RunTest(t, filter)
<1>1. q \in Seq(PlacesOfTests) /\ Range(q) = {<<"load", t>>}
  BY LoadFacts
<1>2. /\ r \in Seq(PlacesOfTests) /\ Followed(r, filter)
      /\ Range(r) = IF t \in filter THEN {<<"setup", t>>, <<"body", t>>} ELSE {}
  BY RunTestFacts
<1>3. \A i \in DOMAIN q : q[i] = <<"load", t>>
  BY <1>1 DEF Range
<1> HIDE DEF q, r
<1>4. \A i \in DOMAIN q : q[i][2] \in filter => <<"body", q[i][2]>> \in Range(r)
  BY <1>2, <1>3
<1>5. Followed(q \o r, filter)
  BY <1>1, <1>2, <1>4, FollowedConcat
<1>6. q \o r \in Seq(PlacesOfTests) /\ Range(q \o r) = Range(q) \cup Range(r)
  BY <1>1, <1>2, ConcatRange
<1> QED BY <1>1, <1>2, <1>5, <1>6 DEF q, r

\* Sequences made of one sequence for every test.
LEMMA PerTestFacts ==
  ASSUME NEW e \in [1..Len(Tests) -> Seq(PlacesOfTests)], NEW tests, NEW R,
         \A i \in 1..Len(Tests) : Followed(e[i], tests) /\ Range(e[i]) = R[Tests[i]]
  PROVE  /\ Plugin!FlattenSeq(e) \in Seq(PlacesOfTests) /\ Followed(Plugin!FlattenSeq(e), tests)
         /\ \A p : p \in Range(Plugin!FlattenSeq(e)) <=> \E t \in Range(Tests) : p \in R[t]
<1>1. Len(Tests) \in Nat
  BY TestsAreListed
<1>2. /\ Plugin!FlattenSeq(e) \in Seq(PlacesOfTests) /\ Followed(Plugin!FlattenSeq(e), tests)
      /\ Range(Plugin!FlattenSeq(e)) = UNION {Range(e[i]) : i \in 1..Len(Tests)}
  BY <1>1, FlattenFacts
<1>3. \A p : p \in UNION {Range(e[i]) : i \in 1..Len(Tests)} <=> \E i \in 1..Len(Tests) : p \in R[Tests[i]]
  OBVIOUS
<1>4. \A p : (\E i \in 1..Len(Tests) : p \in R[Tests[i]]) <=> \E t \in Range(Tests) : p \in R[t]
  BY TestsAreListed
<1> QED BY <1>2, <1>3, <1>4

LEMMA JestStepsFacts ==
  ASSUME NEW filter \in SUBSET Range(Tests)
  PROVE  /\ Plugin!JestSteps(filter) \in Seq(PlacesOfTests) /\ Followed(Plugin!JestSteps(filter), filter)
         /\ \A t \in filter : {<<"load", t>>, <<"setup", t>>, <<"body", t>>} \subseteq Range(Plugin!JestSteps(filter))
<1> DEFINE e == [i \in 1..Len(Tests) |-> <<Plugin!Load(Tests[i])>> \o Plugin!RunTest(Tests[i], filter)]
           R == [t \in Range(Tests) |-> {<<"load", t>>} \cup IF t \in filter THEN {<<"setup", t>>, <<"body", t>>} ELSE {}]
<1>1. Plugin!JestSteps(filter) = Plugin!FlattenSeq(e)
  BY DEF Plugin!JestSteps, Plugin!Flat
<1>2. \A i \in 1..Len(Tests) : e[i] \in Seq(PlacesOfTests) /\ Followed(e[i], filter) /\ Range(e[i]) = R[Tests[i]]
  BY TestsAreListed, LoadAndRunFacts
<1>3. e \in [1..Len(Tests) -> Seq(PlacesOfTests)]
  BY <1>2
<1>4. \A t \in filter : R[t] = {<<"load", t>>, <<"setup", t>>, <<"body", t>>}
  OBVIOUS
<1> HIDE DEF e, R
<1>5. /\ Plugin!FlattenSeq(e) \in Seq(PlacesOfTests) /\ Followed(Plugin!FlattenSeq(e), filter)
      /\ \A p : p \in Range(Plugin!FlattenSeq(e)) <=> \E t \in Range(Tests) : p \in R[t]
  BY <1>2, <1>3, PerTestFacts
<1> QED BY <1>1, <1>4, <1>5

LEMMA FileStepsFacts ==
  ASSUME NEW filter \in SUBSET Range(Tests)
  PROVE  /\ Plugin!FileSteps(filter) \in Seq(PlacesOfTests) /\ Followed(Plugin!FileSteps(filter), filter)
         /\ \A t \in filter : {<<"load", t>>, <<"setup", t>>, <<"body", t>>} \subseteq Range(Plugin!FileSteps(filter))
<1> DEFINE e == [i \in 1..Len(Tests) |-> IF Tests[i] \in filter
                                         THEN <<Plugin!Load(Tests[i])>> \o Plugin!RunTest(Tests[i], filter) ELSE << >>]
           R == [t \in Range(Tests) |-> IF t \in filter THEN {<<"load", t>>, <<"setup", t>>, <<"body", t>>} ELSE {}]
<1>1. Plugin!FileSteps(filter) = Plugin!FlattenSeq(e)
  BY DEF Plugin!FileSteps, Plugin!Flat
<1>2. \A i \in 1..Len(Tests) : e[i] \in Seq(PlacesOfTests) /\ Followed(e[i], filter) /\ Range(e[i]) = R[Tests[i]]
  <2> SUFFICES ASSUME NEW i \in 1..Len(Tests)
               PROVE  e[i] \in Seq(PlacesOfTests) /\ Followed(e[i], filter) /\ Range(e[i]) = R[Tests[i]]
    OBVIOUS
  <2>1. Tests[i] \in Range(Tests)
    BY TestsAreListed
  <2>2. CASE Tests[i] \in filter
    <3>1. e[i] = <<Plugin!Load(Tests[i])>> \o Plugin!RunTest(Tests[i], filter)
      BY <2>2
    <3>2. R[Tests[i]] = {<<"load", Tests[i]>>} \cup {<<"setup", Tests[i]>>, <<"body", Tests[i]>>}
      BY <2>1, <2>2
    <3> HIDE DEF e, R
    <3> QED BY <2>1, <2>2, <3>1, <3>2, LoadAndRunFacts
  <2>3. CASE Tests[i] \notin filter
    <3>1. e[i] = << >> /\ R[Tests[i]] = {}
      BY <2>1, <2>3
    <3> HIDE DEF e, R
    <3>2. << >> \in Seq(PlacesOfTests) /\ DOMAIN << >> = {}
      OBVIOUS
    <3> QED BY <3>1, <3>2 DEF Followed, Range
  <2> QED BY <2>2, <2>3
<1>3. e \in [1..Len(Tests) -> Seq(PlacesOfTests)]
  BY <1>2
<1>4. \A t \in filter : R[t] = {<<"load", t>>, <<"setup", t>>, <<"body", t>>}
  OBVIOUS
<1> HIDE DEF e, R
<1>5. /\ Plugin!FlattenSeq(e) \in Seq(PlacesOfTests) /\ Followed(Plugin!FlattenSeq(e), filter)
      /\ \A p : p \in Range(Plugin!FlattenSeq(e)) <=> \E t \in Range(Tests) : p \in R[t]
  BY <1>2, <1>3, PerTestFacts
<1> QED BY <1>1, <1>4, <1>5

\* The suites: all files are loaded first, if they are loaded at all.
LoadSteps == Plugin!FlattenSeq([i \in 1..Len(Tests) |-> <<Plugin!Load(Tests[i])>>])

RunSteps(filter) == Plugin!FlattenSeq([i \in 1..Len(Tests) |-> Plugin!RunTest(Tests[i], filter)])

LEMMA LoadStepsFacts ==
  /\ LoadSteps \in Seq(PlacesOfTests)
  /\ \A p : p \in Range(LoadSteps) <=> \E t \in Range(Tests) : p = <<"load", t>>
<1> DEFINE e == [i \in 1..Len(Tests) |-> <<Plugin!Load(Tests[i])>>]
           R == [t \in Range(Tests) |-> {<<"load", t>>}]
<1>1. \A i \in 1..Len(Tests) : e[i] \in Seq(PlacesOfTests) /\ Followed(e[i], {}) /\ Range(e[i]) = R[Tests[i]]
  BY TestsAreListed, LoadFacts
<1>2. e \in [1..Len(Tests) -> Seq(PlacesOfTests)]
  BY <1>1
<1>3. LoadSteps = Plugin!FlattenSeq(e)
  BY DEF LoadSteps
<1>4. \A t \in Range(Tests) : R[t] = {<<"load", t>>}
  OBVIOUS
<1> HIDE DEF e, R
<1>5. /\ Plugin!FlattenSeq(e) \in Seq(PlacesOfTests)
      /\ \A p : p \in Range(Plugin!FlattenSeq(e)) <=> \E t \in Range(Tests) : p \in R[t]
  BY <1>1, <1>2, PerTestFacts
<1> QED BY <1>3, <1>4, <1>5

LEMMA RunStepsFacts ==
  ASSUME NEW filter \in SUBSET Range(Tests)
  PROVE  /\ RunSteps(filter) \in Seq(PlacesOfTests) /\ Followed(RunSteps(filter), filter)
         /\ \A p : p \in Range(RunSteps(filter)) <=> \E t \in filter : p = <<"setup", t>> \/ p = <<"body", t>>
<1> DEFINE e == [i \in 1..Len(Tests) |-> Plugin!RunTest(Tests[i], filter)]
           R == [t \in Range(Tests) |-> IF t \in filter THEN {<<"setup", t>>, <<"body", t>>} ELSE {}]
<1>1. \A i \in 1..Len(Tests) : e[i] \in Seq(PlacesOfTests) /\ Followed(e[i], filter) /\ Range(e[i]) = R[Tests[i]]
  BY TestsAreListed, RunTestFacts
<1>2. e \in [1..Len(Tests) -> Seq(PlacesOfTests)]
  BY <1>1
<1>3. RunSteps(filter) = Plugin!FlattenSeq(e)
  BY DEF RunSteps
<1>4. \A t \in Range(Tests) : \A p : p \in R[t] <=> t \in filter /\ (p = <<"setup", t>> \/ p = <<"body", t>>)
  OBVIOUS
<1> HIDE DEF e, R
<1>5. /\ Plugin!FlattenSeq(e) \in Seq(PlacesOfTests) /\ Followed(Plugin!FlattenSeq(e), filter)
      /\ \A p : p \in Range(Plugin!FlattenSeq(e)) <=> \E t \in Range(Tests) : p \in R[t]
  BY <1>1, <1>2, PerTestFacts
<1>6. \A p : p \in Range(Plugin!FlattenSeq(e)) <=> \E t \in filter : p = <<"setup", t>> \/ p = <<"body", t>>
  BY <1>4, <1>5
<1> QED BY <1>3, <1>5, <1>6

LEMMA SuiteStepsFacts ==
  ASSUME NEW filter \in SUBSET Range(Tests)
  PROVE  /\ Plugin!SuiteSteps(filter) \in Seq(PlacesOfTests) /\ Followed(Plugin!SuiteSteps(filter), filter)
         /\ LoadsFirst(Plugin!SuiteSteps(filter))
         /\ \A t \in filter : {<<"setup", t>>, <<"body", t>>} \subseteq Range(Plugin!SuiteSteps(filter))
         /\ ~loaded \/ Reloading => \A t \in filter : <<"load", t>> \in Range(Plugin!SuiteSteps(filter))
<1> DEFINE q == IF loaded /\ ~Reloading THEN << >> ELSE LoadSteps
           r == RunSteps(filter)
           c == q \o r
<1>1. Plugin!SuiteSteps(filter) = c
  BY DEF Plugin!SuiteSteps, Plugin!Flat, LoadSteps, RunSteps, Reloading
<1>2. q \in Seq(PlacesOfTests) /\ \A p \in Range(q) : \E t \in Range(Tests) : p = <<"load", t>>
  <2>1. << >> \in Seq(PlacesOfTests) /\ Range(<< >>) = {}
    BY DEF Range
  <2> QED BY <2>1, LoadStepsFacts
<1>3. ~loaded \/ Reloading => \A t \in filter : <<"load", t>> \in Range(q)
  BY LoadStepsFacts
<1>4. /\ r \in Seq(PlacesOfTests) /\ Followed(r, filter)
      /\ \A p : p \in Range(r) <=> \E t \in filter : p = <<"setup", t>> \/ p = <<"body", t>>
  BY RunStepsFacts
<1> HIDE DEF q, r
<1>5. c \in Seq(PlacesOfTests) /\ Range(c) = Range(q) \cup Range(r)
  BY <1>2, <1>4, ConcatRange
<1>6. Followed(c, filter)
  <2>1. \A i \in DOMAIN q : q[i] \in Range(q)
    BY DEF Range
  <2>2. \A i \in DOMAIN q : q[i][2] \in filter => <<"body", q[i][2]>> \in Range(r)
    BY <1>2, <1>4, <2>1
  <2> QED BY <1>2, <1>4, <2>2, FollowedConcat
<1>7. LoadsFirst(c)
  <2>1. /\ DOMAIN c = 1..(Len(q) + Len(r)) /\ DOMAIN q = 1..Len(q) /\ DOMAIN r = 1..Len(r)
        /\ Len(q) \in Nat /\ Len(r) \in Nat
        /\ \A i \in 1..Len(q) : c[i] = q[i]
        /\ \A i \in 1..(Len(q) + Len(r)) : i \notin 1..Len(q) => i - Len(q) \in 1..Len(r) /\ c[i] = r[i - Len(q)]
    BY <1>2, <1>4, ConcatFacts
  <2>2. \A i \in DOMAIN q : q[i][1] = "load"
    <3>1. \A i \in DOMAIN q : q[i] \in Range(q)
      BY DEF Range
    <3> QED BY <1>2, <3>1
  <2>3. \A i \in DOMAIN r : r[i][1] # "load"
    <3>1. \A i \in DOMAIN r : r[i] \in Range(r)
      BY DEF Range
    <3> QED BY <1>4, <3>1
  <2> HIDE DEF c
  <2>4. ASSUME NEW i \in DOMAIN c, NEW j \in DOMAIN c, i <= j, c[j][1] = "load" PROVE c[i][1] = "load"
    <3>1. j \in 1..Len(q)
      BY <2>1, <2>3, <2>4
    <3>2. i \in 1..Len(q)
      BY <2>1, <2>4, <3>1
    <3> QED BY <2>1, <2>2, <3>2
  <2> QED BY <2>4 DEF LoadsFirst
<1>8. \A t \in filter : {<<"setup", t>>, <<"body", t>>} \subseteq Range(c)
  BY <1>4, <1>5
<1> HIDE DEF c
<1> QED BY <1>1, <1>3, <1>5, <1>6, <1>7, <1>8

\* Whatever the plugin: a run executes the body of every test of its
\* filter, after what is set up and loaded for it.
LEMMA StepsFacts ==
  ASSUME NEW filter \in SUBSET Range(Tests), world.plugin \in Plugins
  PROVE  /\ Plugin!Steps(filter) \in Seq(PlacesOfTests) /\ Followed(Plugin!Steps(filter), filter)
         /\ world.plugin \in Suites => LoadsFirst(Plugin!Steps(filter))
         /\ \A t \in filter : {<<"setup", t>>, <<"body", t>>} \subseteq Range(Plugin!Steps(filter))
         /\ world.plugin \notin Suites \/ ~loaded \/ Reloading => \A t \in filter : <<"load", t>> \in Range(Plugin!Steps(filter))
<1>1. world.plugin \in {"jest", "jest-jasmine2", "mocha", "jasmine", "vitest", "karma", "cucumber", "tap"}
  BY PluginsAssumption
<1>2. CASE world.plugin \in {"jest", "jest-jasmine2"}
  <2>1. Plugin!Steps(filter) = Plugin!JestSteps(filter) /\ world.plugin \notin Suites
    BY <1>2 DEF Plugin!Steps, Suites
  <2> QED BY <2>1, JestStepsFacts
<1>3. CASE world.plugin \in {"vitest", "tap"}
  <2>1. Plugin!Steps(filter) = Plugin!FileSteps(filter) /\ world.plugin \notin Suites
    BY <1>3 DEF Plugin!Steps, Suites
  <2> QED BY <2>1, FileStepsFacts
<1>4. CASE world.plugin \in Suites
  <2>1. Plugin!Steps(filter) = Plugin!SuiteSteps(filter)
    BY <1>4 DEF Plugin!Steps, Suites
  <2> QED BY <1>4, <2>1, SuiteStepsFacts
<1> QED BY <1>1, <1>2, <1>3, <1>4 DEF Suites

-----------------------------------------------------------------------------
(* Verdicts: what a plugin can *)

LEMMA PluginFacts ==
  ASSUME world.plugin \in Plugins
  PROVE  /\ Reloading <=> world.plugin \notin {"mocha", "jasmine", "cucumber"}
         /\ world.plugin \in Suites \cup {"jest-jasmine2"} \/ Plugin!Tracking.forgets
         /\ world.analysis = "perTest" => world.plugin = "tap" \/ Plugin!Tracking.starts
         /\ world.plugin = "tap" => ~Plugin!Tracking.starts
         /\ world.plugin = "cucumber" => Plugin!Tracking.forgets
         /\ Plugin!Tracking.starts \in BOOLEAN /\ Plugin!Tracking.forgets \in BOOLEAN /\ Reloading \in BOOLEAN
<1>1. world.plugin \in {"jest", "jest-jasmine2", "mocha", "jasmine", "vitest", "karma", "cucumber", "tap"}
  BY PluginsAssumption
<1>2. CASE world.plugin \in {"jest", "jest-jasmine2", "karma"}
  BY <1>2 DEF Reloading, Plugin!Plugin, Plugin!Jest, Plugin!Karma, Plugin!Tracking, Plugin!JestTracks,
              Plugin!Jasmine2Tracks, Plugin!KarmaTracks, Suites
<1>3. CASE world.plugin \in {"mocha", "jasmine", "cucumber"}
  BY <1>3 DEF Reloading, Plugin!Plugin, Plugin!Mocha, Plugin!Jasmine, Plugin!Cucumber, Plugin!Tracking,
              Plugin!MochaTracks, Plugin!JasmineTracks, Plugin!CucumberTracks, Suites
<1>4. CASE world.plugin \in {"vitest", "tap"}
  BY <1>4 DEF Reloading, Plugin!Plugin, Plugin!Vitest, Plugin!Tap, Plugin!Tracking, Plugin!VitestTracks,
              Plugin!TapTracks, Suites
<1> QED BY <1>1, <1>2, <1>3, <1>4

\* From where on a plugin makes a mutant active.
LEMMA ActivationFacts ==
  ASSUME NEW activation, world.plugin \in Plugins
  PROVE  /\ Plugin!Plugin(activation).activates \in {"load", "run", "test"}
         /\ activation = "static" \/ world.plugin = "tap" => Plugin!Plugin(activation).activates = "load"
         /\ Plugin!Plugin(activation).activates = "load" /\ ~Reloading => activation = "static" \/ world.plugin = "cucumber"
<1>1. world.plugin \in {"jest", "jest-jasmine2", "mocha", "jasmine", "vitest", "karma", "cucumber", "tap"}
  BY PluginsAssumption
<1>2. Reloading <=> world.plugin \notin {"mocha", "jasmine", "cucumber"}
  BY PluginFacts
<1>3. CASE world.plugin \in {"jest", "jest-jasmine2", "karma"}
  BY <1>2, <1>3 DEF Plugin!Plugin, Plugin!Jest, Plugin!Karma
<1>4. CASE world.plugin \in {"mocha", "jasmine", "cucumber"}
  BY <1>2, <1>4 DEF Plugin!Plugin, Plugin!Mocha, Plugin!Jasmine, Plugin!Cucumber
<1>5. CASE world.plugin \in {"vitest", "tap"}
  BY <1>2, <1>5 DEF Plugin!Plugin, Plugin!Vitest, Plugin!Tap
<1> QED BY <1>1, <1>3, <1>4, <1>5

ActingIsRight ==
  world.plugin \in Plugins =>
    /\ \A p \in PlacesOfTests : Plugin!Acts(p) <=> p \in Acting
    /\ Acting \subseteq PlacesOfTests
    /\ run.of \notin Mutated => Acting = {}
    /\ Acting \subseteq Plugin!Places(run.of)
    /\ run.of \in Mutated =>
         \A p \in PlacesOfTests :
           p \in Plugin!Places(run.of) /\ (p[1] = "body" \/ run.activation = "static" \/ world.plugin = "tap") => p \in Acting
    /\ \A p \in Acting : p[1] = "load" /\ ~Reloading => run.activation = "static" \/ world.plugin = "cucumber"

LEMMA ActingFacts == ActingIsRight
<1> SUFFICES ASSUME world.plugin \in Plugins PROVE ActingIsRight
  BY DEF ActingIsRight
<1> DEFINE a == Plugin!Plugin(run.activation).activates
<1>1. /\ a \in {"load", "run", "test"}
      /\ run.activation = "static" \/ world.plugin = "tap" => a = "load"
      /\ a = "load" /\ ~Reloading => run.activation = "static" \/ world.plugin = "cucumber"
  BY ActivationFacts
<1>2. \A p : Plugin!Acts(p) <=> /\ run.of \in Mutated /\ p \in Plugin!Places(run.of)
                                /\ CASE a = "load" -> TRUE
                                     [] a = "run"  -> p[1] # "load"
                                     [] a = "test" -> p[1] = "body"
  BY DEF Plugin!Acts, Mutated
<1> HIDE DEF a
<1>3. \A p : Plugin!Acts(p) <=> /\ run.of \in Mutated /\ p \in Plugin!Places(run.of)
                                /\ a = "load" \/ (a = "run" /\ p[1] # "load") \/ (a = "test" /\ p[1] = "body")
  <2>1. CASE a = "load"
    BY <1>2, <2>1
  <2>2. CASE a = "run"
    BY <1>2, <2>2
  <2>3. CASE a = "test"
    BY <1>2, <2>3
  <2> QED BY <1>1, <2>1, <2>2, <2>3
<1>4. \A p \in PlacesOfTests : p[1] = "body" => p[1] # "load"
  OBVIOUS
<1> QED BY <1>1, <1>3, <1>4 DEF Acting, ActingIsRight

\* The same after a step.
LEMMA ActingFactsAfter == ActingIsRight'
BY ActingFacts, PTL

\* What depends on the world alone stays as it is.
LEMMA WorldStays ==
  ASSUME world' = world
  PROVE  /\ Mutated' = Mutated /\ Reloading' = Reloading
         /\ Plugin!Reported' <=> Plugin!Reported
         /\ Plugin!MayPoison' <=> Plugin!MayPoison
         /\ Plugin!Tracking' = Plugin!Tracking
         /\ \A m : Plugin!Places(m)' = Plugin!Places(m)
         /\ \A m : Plugin!Kind(m)' = Plugin!Kind(m)
         /\ \A m : Plugin!Misattributed(m)' <=> Plugin!Misattributed(m)
         /\ \A p : Expected(p)' = Expected(p)
<1>1. Mutated' = Mutated /\ (\A m : Plugin!Places(m)' = Plugin!Places(m)) /\ (\A m : Plugin!Kind(m)' = Plugin!Kind(m))
  BY DEF Mutated, Plugin!Mutated, Plugin!Places, Plugin!Kind
<1>2. Reloading' = Reloading
  BY DEF Reloading, Plugin!Plugin, Plugin!Jest, Plugin!Mocha, Plugin!Jasmine, Plugin!Vitest, Plugin!Karma,
         Plugin!Cucumber, Plugin!Tap
<1>3. Plugin!Reported' <=> Plugin!Reported
  BY DEF Plugin!Reported, Plugin!ReportsCoverage
<1>4. Plugin!MayPoison' <=> Plugin!MayPoison
  BY DEF Plugin!MayPoison
<1>5. Plugin!Tracking' = Plugin!Tracking
  BY DEF Plugin!Tracking, Plugin!JestTracks, Plugin!Jasmine2Tracks, Plugin!MochaTracks, Plugin!JasmineTracks,
         Plugin!VitestTracks, Plugin!KarmaTracks, Plugin!CucumberTracks, Plugin!TapTracks
<1>6. \A m : Plugin!Misattributed(m)' <=> Plugin!Misattributed(m)
  BY <1>1, <1>5 DEF Plugin!Misattributed, Plugin!TestSet, Plugin!Setup, Plugin!Load
<1>7. \A p : Expected(p)' = Expected(p)
  BY <1>5 DEF Expected
<1> QED BY <1>1, <1>2, <1>3, <1>4, <1>5, <1>6, <1>7

LEMMA RightStays ==
  ASSUME world' = world, NEW m, NEW verd
  PROVE  Right(m, verd)' <=> Right(m, verd)
<1>1. Plugin!Deserved(m)' = Plugin!Deserved(m)
  BY WorldStays DEF Plugin!Deserved
<1> QED BY <1>1, WorldStays DEF Right

LEMMA RightVerdictsStay ==
  ASSUME world' = world
  PROVE  RightVerdicts' = RightVerdicts
<1>1. Mutated' = Mutated /\ Outcomes' = Outcomes
  BY WorldStays DEF Outcomes
<1>2. \A m, verd : Right(m, verd)' <=> Right(m, verd)
  BY RightStays
<1> QED BY <1>1, <1>2 DEF RightVerdicts

LEMMA ActingStays ==
  ASSUME world' = world, run' = run
  PROVE  Acting' = Acting
<1>1. \A p : Plugin!Acts(p)' <=> Plugin!Acts(p)
  BY DEF Plugin!Acts, Plugin!Mutated, Plugin!Places, Plugin!Plugin, Plugin!Jest, Plugin!Mocha, Plugin!Jasmine,
         Plugin!Vitest, Plugin!Karma, Plugin!Cucumber, Plugin!Tap
<1> QED BY <1>1 DEF Acting, PlacesOfTests

\* The mutants of a world, and what may be said of them.
LEMMA WorldFacts ==
  ASSUME NEW w \in Worlds
  PROVE  /\ w.plugin \in Plugins /\ w.mutants \in Shapes /\ w.ignoreStatic \in BOOLEAN
         /\ w.analysis \in {"perTest", "all", "off"} /\ w # Plugin!None
         /\ "none" \notin DOMAIN w.mutants /\ "idle" \notin DOMAIN w.mutants /\ "dryRun" \notin DOMAIN w.mutants
         /\ \A m \in DOMAIN w.mutants : /\ w.mutants[m].places \subseteq PlacesOfTests
                                        /\ w.mutants[m].kind \in {"lethal", "harmless", "runaway"}
<1>1. /\ w.plugin \in Plugins /\ w.mutants \in Shapes /\ w.ignoreStatic \in BOOLEAN
      /\ w.analysis \in {"perTest", "all", "off"} /\ w.of = "world"
  BY DEF Worlds
<1>2. /\ {"none", "idle", "dryRun"} \cap DOMAIN w.mutants = {}
      /\ \A m \in DOMAIN w.mutants : /\ w.mutants[m].places \subseteq {"load", "setup", "body"} \X Range(Tests)
                                     /\ w.mutants[m].kind \in {"lethal", "harmless", "runaway"}
  BY <1>1, PluginsAssumption
<1>3. w # Plugin!None
  BY <1>1 DEF Plugin!None
<1> QED BY <1>1, <1>2, <1>3 DEF PlacesOfTests

LEMMA MutantFacts ==
  ASSUME world \in Worlds
  PROVE  /\ world.plugin \in Plugins /\ world.mutants \in Shapes /\ world.ignoreStatic \in BOOLEAN
         /\ world.analysis \in {"perTest", "all", "off"} /\ world # Plugin!None
         /\ "none" \notin Mutated /\ "idle" \notin Mutated /\ "dryRun" \notin Mutated
         /\ \A m \in Mutated : /\ Plugin!Places(m) \subseteq PlacesOfTests
                               /\ Plugin!Kind(m) \in {"lethal", "harmless", "runaway"}
BY WorldFacts DEF Mutated, Plugin!Mutated, Plugin!Places, Plugin!Kind

-----------------------------------------------------------------------------
(* Verdicts: what a plan does with the coverage *)

\* The three plans, and when a mutant gets which.
LEMMA PlanCases ==
  ASSUME NEW m
  PROVE  /\ ~Plugin!Reported \/ (Plugin!HasStatic(m) /\ ~world.ignoreStatic) =>
              Plugin!Plan(m) = [run |-> TRUE, filter |-> {}, activation |-> "static"]
         /\ Plugin!Reported /\ (world.ignoreStatic \/ ~Plugin!HasStatic(m)) /\ Plugin!CoveredBy(m) # {} =>
              Plugin!Plan(m) = [run |-> TRUE, filter |-> Plugin!CoveredBy(m), activation |-> "runtime"]
         /\ Plugin!Reported /\ (world.ignoreStatic \/ ~Plugin!HasStatic(m)) /\ Plugin!CoveredBy(m) = {} =>
              Plugin!Plan(m) = [run |-> FALSE, early |-> IF Plugin!HasStatic(m) THEN "Ignored" ELSE "NoCoverage"]
<1>1. CASE ~Plugin!Reported \/ (Plugin!HasStatic(m) /\ ~world.ignoreStatic)
  BY <1>1 DEF Plugin!Plan
<1>2. CASE Plugin!Reported /\ (world.ignoreStatic \/ ~Plugin!HasStatic(m)) /\ Plugin!CoveredBy(m) # {}
  BY <1>2 DEF Plugin!Plan
<1>3. CASE Plugin!Reported /\ (world.ignoreStatic \/ ~Plugin!HasStatic(m)) /\ Plugin!CoveredBy(m) = {}
  BY <1>3 DEF Plugin!Plan
<1> QED BY <1>1, <1>2, <1>3

\* After the dry run: what the coverage says of a mutant.
LEMMA CoveredFacts ==
  ASSUME world \in Worlds, world.ignoreStatic => world.analysis = "perTest", CoverageInv,
         run # Plugin!None, run.of # "dryRun", Plugin!Reported, NEW m \in Mutated
  PROVE  /\ \A p \in Plugin!Places(m) : ~Plugin!Misattributed(m) /\ ~Plugin!HasStatic(m) =>
              p[2] \in Plugin!CoveredBy(m) /\ (p[1] = "body" \/ world.plugin = "tap")
         /\ Plugin!Places(m) = {} => ~Plugin!HasStatic(m) /\ Plugin!CoveredBy(m) = {}
         /\ world.ignoreStatic => \A t \in Range(Tests) : <<"body", t>> \in Plugin!Places(m) => t \in Plugin!CoveredBy(m)
         /\ Plugin!CoveredBy(m) \subseteq Range(Tests)
<1>1. Plugin!CoveredBy(m) = {t \in Range(Tests) : <<m, t>> \in coverage} /\ (Plugin!HasStatic(m) <=> <<m, "static">> \in coverage)
  BY TestsAreListed DEF Plugin!CoveredBy, Plugin!HasStatic
<1>2. /\ \A p \in Plugin!Places(m) : ~Plugin!Misattributed(m) \/ Expected(p) # "static" => <<m, Expected(p)>> \in coverage
      /\ \A x : <<m, x>> \in coverage => Plugin!Places(m) # {}
  BY DEF CoverageInv
<1>3. Plugin!Places(m) \subseteq PlacesOfTests /\ \A p \in PlacesOfTests : p[2] \in Range(Tests)
  BY MutantFacts DEF PlacesOfTests
<1>4. ASSUME NEW p \in Plugin!Places(m), ~Plugin!Misattributed(m), ~Plugin!HasStatic(m)
      PROVE  p[2] \in Plugin!CoveredBy(m) /\ (p[1] = "body" \/ world.plugin = "tap")
  <2>1. <<m, Expected(p)>> \in coverage /\ Expected(p) # "static"
    BY <1>1, <1>2, <1>4
  <2>2. Expected(p) = p[2] /\ (p[1] = "body" \/ world.plugin = "tap")
    BY <2>1 DEF Expected
  <2> QED BY <1>1, <1>3, <2>1, <2>2
<1>5. ASSUME world.ignoreStatic, NEW t \in Range(Tests), <<"body", t>> \in Plugin!Places(m) PROVE t \in Plugin!CoveredBy(m)
  <2>1. world.plugin = "tap" \/ Plugin!Tracking.starts
    BY <1>5, MutantFacts, PluginFacts
  <2>2. Expected(<<"body", t>>) = t
    BY <2>1 DEF Expected
  <2>3. t # "static"
    BY PluginsAssumption
  <2>4. <<m, Expected(<<"body", t>>)>> \in coverage
    BY <1>2, <1>5, <2>2, <2>3
  <2> QED BY <1>1, <2>2, <2>4
<1> QED BY <1>1, <1>2, <1>4, <1>5

\* A verdict without a run is right.
LEMMA EarlyIsRight ==
  ASSUME world \in Worlds, world.ignoreStatic => world.analysis = "perTest", CoverageInv,
         run # Plugin!None, run.of # "dryRun", NEW m \in Mutated, ~Plugin!Plan(m).run
  PROVE  Plugin!Plan(m).early \in {"NoCoverage", "Ignored"} /\ Right(m, Plugin!Plan(m).early)
<1>1. /\ Plugin!Reported /\ (world.ignoreStatic \/ ~Plugin!HasStatic(m)) /\ Plugin!CoveredBy(m) = {}
      /\ Plugin!Plan(m).early = IF Plugin!HasStatic(m) THEN "Ignored" ELSE "NoCoverage"
  BY PlanCases
<1>2. CASE Plugin!HasStatic(m)
  <2>1. Plugin!Plan(m).early = "Ignored" /\ world.ignoreStatic
    BY <1>1, <1>2
  <2>2. \A t \in Range(Tests) : <<"body", t>> \notin Plugin!Places(m)
    BY <1>1, <2>1, CoveredFacts
  <2> QED BY <2>1, <2>2 DEF Right
<1>3. CASE ~Plugin!HasStatic(m)
  <2>1. Plugin!Plan(m).early = "NoCoverage"
    BY <1>1, <1>3
  <2>2. ~Plugin!Misattributed(m) => Plugin!Places(m) = {}
    BY <1>1, <1>3, CoveredFacts
  <2>3. ~Plugin!Misattributed(m) => "NoCoverage" \in Plugin!Deserved(m)
    BY <1>1, <2>2 DEF Plugin!Deserved
  <2> QED BY <2>1, <2>3 DEF Right
<1> QED BY <1>2, <1>3

-----------------------------------------------------------------------------
(* Verdicts: the steps *)

LEMMA InitVerdicts == Plugin!Init => VerdictsInv
<1> SUFFICES ASSUME Plugin!Init PROVE VerdictsInv
  OBVIOUS
<1>1. /\ world = Plugin!None /\ run = Plugin!None /\ todo = << >> /\ ns = Plugin!NoNamespace /\ loaded = FALSE
      /\ grep = {} /\ broken = Plugin!NotBroken /\ failed = {} /\ coverage = {} /\ staticRun = FALSE /\ outcome = << >>
  BY DEF Plugin!Init
<1>2. ValueTypes
  <2>1. << >> \in Seq(PlacesOfTests)
    OBVIOUS
  <2>2. broken \in [load : SUBSET Range(Tests), now : SUBSET Range(Tests)]
    BY <1>1 DEF Plugin!NotBroken
  <2>3. ns.over \in BOOLEAN
    BY <1>1 DEF Plugin!NoNamespace
  <2> QED BY <1>1, <2>1, <2>2, <2>3 DEF ValueTypes
<1> QED BY <1>1, <1>2 DEF VerdictsInv, Unconfigured, NothingYet

LEMMA ConfigureStep ==
  ASSUME VerdictsInv, Plugin!Configure
  PROVE  VerdictsInv'
<1>1. /\ world = Plugin!None /\ world' \in Worlds /\ (world'.ignoreStatic => world'.analysis = "perTest")
      /\ outcome' = [m \in DOMAIN world'.mutants |-> "none"]
      /\ UNCHANGED <<run, todo, ns, loaded, grep, broken, failed, coverage, staticRun>>
  BY DEF Plugin!Configure, Worlds
<1>2. ValueTypes /\ run = Plugin!None /\ NothingYet
  <2>1. ~Configured
    BY <1>1, MutantFacts DEF Configured, WorldTypes
  <2> QED BY <2>1 DEF VerdictsInv, Unconfigured
<1>3. Mutated' = DOMAIN world'.mutants /\ "none" \notin Mutated'
  BY <1>1, WorldFacts DEF Mutated, Plugin!Mutated
<1>4. WorldTypes' /\ (run' = Plugin!None => NothingYet')
  <2>1. run' = Plugin!None /\ NothingYet'
    BY <1>1, <1>2 DEF NothingYet, Plugin!NoNamespace, Plugin!NotBroken
  <2>2. outcome' \in [Mutated' -> Outcomes]
    BY <1>1, <1>3 DEF Outcomes
  <2>3. Worlds' = Worlds /\ Outcomes' = Outcomes /\ Plugin!None' = Plugin!None
    BY DEF Worlds, Outcomes, Plugin!None
  <2> QED BY <1>1, <2>1, <2>2, <2>3 DEF WorldTypes
<1>5. ProcessInv' /\ CoverageInv' /\ DryRunInv' /\ RunInv'
  <2>1. run' = Plugin!None /\ run'.of = "none" /\ grep' = {} /\ broken'.load = {} /\ ~staticRun'
    BY <1>1, <1>2 DEF NothingYet, Plugin!None, Plugin!NotBroken
  <2> QED BY <1>3, <2>1 DEF ProcessInv, CoverageInv, DryRunInv, RunInv, Plugin!None
<1>6. \A m \in Mutated' : <<m, outcome'[m]>> \in RightVerdicts'
  <2>1. \A m \in Mutated' : outcome'[m] = "none" /\ "none" \in Outcomes'
    BY <1>1, <1>3 DEF Outcomes
  <2>2. \A m : Right(m, "none")'
    BY DEF Right
  <2> QED BY <2>1, <2>2 DEF RightVerdicts
<1>7. ValueTypes'
  BY <1>1, <1>2 DEF ValueTypes, PlacesOfTests
<1> QED BY <1>4, <1>5, <1>6, <1>7 DEF VerdictsInv, Configured

\* The inductive invariant of a step that leaves the world alone.
LEMMA AfterStep ==
  ASSUME Configured, world' = world, ValueTypes', outcome' \in [Mutated -> Outcomes],
         \A m \in Mutated : <<m, outcome'[m]>> \in RightVerdicts,
         run' # Plugin!None, run' \in {Plugin!Idle} \cup DryRuns \cup MutantRuns,
         ProcessInv', CoverageInv', DryRunInv', RunInv'
  PROVE  VerdictsInv'
<1>1. Mutated' = Mutated /\ RightVerdicts' = RightVerdicts
  BY WorldStays, RightVerdictsStay
<1>2. /\ Worlds' = Worlds /\ Outcomes' = Outcomes /\ Plugin!None' = Plugin!None /\ Plugin!Idle' = Plugin!Idle
      /\ DryRuns' = DryRuns /\ MutantRuns' = MutantRuns
  BY <1>1 DEF Worlds, Outcomes, Plugin!None, Plugin!Idle, DryRuns, MutantRuns
<1>3. WorldTypes'
  BY <1>1, <1>2 DEF Configured, WorldTypes
<1> QED BY <1>1, <1>2, <1>3 DEF VerdictsInv, Configured

LEMMA DryRunStep ==
  ASSUME VerdictsInv, Plugin!DryRun
  PROVE  VerdictsInv'
<1>1. /\ world # Plugin!None /\ run = Plugin!None
      /\ run' = [of |-> "dryRun", filter |-> {}, activation |-> "runtime", limited |-> FALSE, bail |-> FALSE]
      /\ todo' = Plugin!Steps(Range(Tests)) /\ loaded' = TRUE
      /\ UNCHANGED <<world, ns, grep, broken, failed, coverage, staticRun, outcome>>
  BY TestsAreListed DEF Plugin!DryRun
<1>2. ValueTypes /\ Configured /\ WorldTypes /\ NothingYet /\ world \in Worlds
  BY <1>1 DEF VerdictsInv, Unconfigured, Configured, WorldTypes
<1>3. /\ ns = Plugin!NoNamespace /\ ~loaded /\ grep = {} /\ broken = Plugin!NotBroken
      /\ failed = {} /\ coverage = {} /\ ~staticRun
  BY <1>2 DEF NothingYet
<1>4. world.plugin \in Plugins
  BY <1>2, MutantFacts
<1>5. /\ todo' \in Seq(PlacesOfTests) /\ (world.plugin \in Suites => LoadsFirst(todo'))
      /\ \A t \in Range(Tests) : {<<"load", t>>, <<"setup", t>>, <<"body", t>>} \subseteq Range(todo')
  BY <1>1, <1>3, <1>4, StepsFacts
<1>6. PlacesOfTests \subseteq Range(todo')
  <2>1. ASSUME NEW k \in {"load", "setup", "body"}, NEW t \in Range(Tests) PROVE <<k, t>> \in Range(todo')
    BY <1>5
  <2> QED BY <2>1 DEF PlacesOfTests
<1>7. ValueTypes'
  BY <1>1, <1>2, <1>5 DEF ValueTypes, PlacesOfTests
<1>8. ProcessInv'
  BY <1>1, <1>3 DEF ProcessInv, Plugin!NotBroken
<1>9. CoverageInv'
  <2>1. \A m \in Mutated : Plugin!Places(m) \subseteq PlacesOfTests
    BY <1>2, MutantFacts
  <2>2. Mutated' = Mutated /\ \A m : Plugin!Places(m)' = Plugin!Places(m)
    BY <1>1, WorldStays
  <2>3. run'.of = "dryRun" /\ coverage' = {}
    BY <1>1, <1>3
  <2>4. \A m \in Mutated' : \A p \in Plugin!Places(m)' : p \in Range(todo')
    BY <1>6, <2>1, <2>2
  <2>5. Range(todo)' = Range(todo')
    BY DEF Range
  <2> QED BY <2>3, <2>4, <2>5 DEF CoverageInv
<1>10. DryRunInv'
  <2>1. broken' = Plugin!NotBroken /\ failed' = {} /\ ~ns'.over /\ ns'.currentTestId = "none"
    BY <1>1, <1>3 DEF Plugin!NoNamespace
  <2>2. world'.plugin \in Suites => LoadsFirst(todo')
    BY <1>1, <1>5
  <2>3. LoadsFirst(todo)' <=> LoadsFirst(todo')
    BY DEF LoadsFirst
  <2> QED BY <2>1, <2>2, <2>3 DEF DryRunInv, Plugin!NotBroken, Suites
<1>11. RunInv'
  <2>1. run'.of = "dryRun" /\ "dryRun" \notin Mutated /\ Mutated' = Mutated
    BY <1>1, <1>2, MutantFacts, WorldStays
  <2> QED BY <2>1 DEF RunInv
<1>12. run' \in DryRuns /\ run' # Plugin!None
  BY <1>1 DEF DryRuns, Plugin!None
<1>13. outcome' \in [Mutated -> Outcomes] /\ \A m \in Mutated : <<m, outcome'[m]>> \in RightVerdicts
  BY <1>1, <1>2 DEF WorldTypes, Configured
<1> QED BY <1>1, <1>2, <1>7, <1>8, <1>9, <1>10, <1>11, <1>12, <1>13, AfterStep

\* Nothing that is known of the coverage is lost when there is no dry run,
\* or when it is over.
LEMMA CoverageStays ==
  ASSUME CoverageInv, run # Plugin!None, run.of = "dryRun" => todo = << >>,
         world' = world, coverage' = coverage
  PROVE  CoverageInv'
<1>1. /\ Mutated' = Mutated /\ (Plugin!Reported' <=> Plugin!Reported)
      /\ \A m : Plugin!Places(m)' = Plugin!Places(m)
      /\ \A m : Plugin!Misattributed(m)' <=> Plugin!Misattributed(m)
      /\ \A p : Expected(p)' = Expected(p)
  BY WorldStays
<1>2. run.of = "dryRun" => Range(todo) = {}
  BY DEF Range
<1>3. Plugin!Reported =>
        /\ \A m \in Mutated : \A p \in Plugin!Places(m) :
             ~Plugin!Misattributed(m) \/ Expected(p) # "static" => <<m, Expected(p)>> \in coverage
        /\ \A m \in Mutated : \A x : <<m, x>> \in coverage => Plugin!Places(m) # {}
  BY <1>2 DEF CoverageInv
<1> QED BY <1>1, <1>3 DEF CoverageInv

\* A step after which the process waits.
LEMMA AfterIdle ==
  ASSUME Configured, run # Plugin!None, run.of = "dryRun" => todo = << >>,
         world' = world, coverage' = coverage, run' = Plugin!Idle,
         ValueTypes', outcome' \in [Mutated -> Outcomes],
         \A m \in Mutated : <<m, outcome'[m]>> \in RightVerdicts,
         ProcessInv'
  PROVE  VerdictsInv'
<1>1. CoverageInv'
  BY CoverageStays DEF Configured
<1>2. run'.of = "idle" /\ run' # Plugin!None
  BY DEF Plugin!Idle, Plugin!None
<1>3. DryRunInv'
  BY <1>2 DEF DryRunInv
<1>4. RunInv'
  <2>1. "idle" \notin Mutated /\ Mutated' = Mutated
    BY MutantFacts, WorldStays DEF Configured, WorldTypes
  <2> QED BY <1>2, <2>1 DEF RunInv
<1> QED BY <1>1, <1>2, <1>3, <1>4, AfterStep

\* A verdict that is right takes the place of another.
LEMMA VerdictIsGiven ==
  ASSUME Configured, NEW m \in Mutated, NEW verd \in Outcomes, Right(m, verd), NEW after,
         after = [outcome EXCEPT ![m] = verd]
  PROVE  after \in [Mutated -> Outcomes] /\ \A x \in Mutated : <<x, after[x]>> \in RightVerdicts
<1>1. outcome \in [Mutated -> Outcomes] /\ \A x \in Mutated : <<x, outcome[x]>> \in RightVerdicts
  BY DEF Configured, WorldTypes
<1>2. <<m, verd>> \in RightVerdicts
  BY DEF RightVerdicts
<1>3. after \in [Mutated -> Outcomes] /\ \A x \in Mutated : after[x] = IF x = m THEN verd ELSE outcome[x]
  BY <1>1
<1> QED BY <1>1, <1>2, <1>3

LEMMA BusyFacts ==
  ASSUME VerdictsInv, run # Plugin!None
  PROVE  Configured /\ ValueTypes /\ WorldTypes /\ world \in Worlds /\ (world.ignoreStatic => world.analysis = "perTest")
BY DEF VerdictsInv, Unconfigured, Configured, WorldTypes

LEMMA EarlyResultStep ==
  ASSUME VerdictsInv, NEW m \in DOMAIN outcome, Plugin!EarlyResult(m)
  PROVE  VerdictsInv'
<1>1. /\ run = Plugin!Idle /\ ~Plugin!Plan(m).run /\ outcome' = [outcome EXCEPT ![m] = Plugin!Plan(m).early]
      /\ UNCHANGED <<world, run, todo, ns, loaded, grep, broken, failed, coverage, staticRun>>
  BY DEF Plugin!EarlyResult
<1>2. run # Plugin!None /\ run.of = "idle"
  BY <1>1 DEF Plugin!Idle, Plugin!None
<1>3. Configured /\ ValueTypes /\ WorldTypes /\ world \in Worlds /\ (world.ignoreStatic => world.analysis = "perTest")
  BY <1>2, BusyFacts
<1>4. m \in Mutated
  BY <1>3 DEF WorldTypes
<1> DEFINE verd == Plugin!Plan(m).early
<1>5. verd \in {"NoCoverage", "Ignored"} /\ Right(m, verd)
  BY <1>1, <1>2, <1>3, <1>4, EarlyIsRight DEF Configured
<1>6. verd \in Outcomes /\ outcome' = [outcome EXCEPT ![m] = verd]
  BY <1>1, <1>5 DEF Outcomes
<1> HIDE DEF verd
<1>7. outcome' \in [Mutated -> Outcomes] /\ \A x \in Mutated : <<x, outcome'[x]>> \in RightVerdicts
  BY <1>3, <1>4, <1>5, <1>6, VerdictIsGiven
<1>8. ValueTypes'
  BY <1>1, <1>3 DEF ValueTypes, PlacesOfTests
<1>9. ProcessInv'
  BY <1>1, <1>3, WorldStays DEF Configured, ProcessInv
<1> QED BY <1>1, <1>2, <1>3, <1>7, <1>8, <1>9, AfterIdle

LEMMA FreshFacts ==
  ASSUME Plugin!Fresh
  PROVE  ValueTypes' /\ ProcessInv' /\ run' = Plugin!Idle
<1>1. /\ ns' = Plugin!NoNamespace /\ loaded' = FALSE /\ grep' = {} /\ broken' = Plugin!NotBroken /\ staticRun' = FALSE
      /\ failed' = {} /\ todo' = << >> /\ run' = Plugin!Idle
  BY DEF Plugin!Fresh
<1>2. << >> \in Seq(PlacesOfTests) /\ PlacesOfTests' = PlacesOfTests
  BY DEF PlacesOfTests
<1>3. broken' \in [load : SUBSET Range(Tests), now : SUBSET Range(Tests)] /\ broken'.load = {}
  BY <1>1 DEF Plugin!NotBroken
<1>4. ns'.over \in BOOLEAN
  BY <1>1 DEF Plugin!NoNamespace
<1> QED BY <1>1, <1>2, <1>3, <1>4 DEF ValueTypes, ProcessInv

LEMMA NewProcessStep ==
  ASSUME VerdictsInv, Plugin!NewProcess
  PROVE  VerdictsInv'
<1>1. run = Plugin!Idle /\ Plugin!Fresh /\ UNCHANGED <<world, coverage, outcome>>
  BY DEF Plugin!NewProcess
<1>2. run # Plugin!None /\ run.of = "idle"
  BY <1>1 DEF Plugin!Idle, Plugin!None
<1>3. Configured
  BY <1>2, BusyFacts
<1>4. outcome' \in [Mutated -> Outcomes] /\ \A x \in Mutated : <<x, outcome'[x]>> \in RightVerdicts
  BY <1>1, <1>3 DEF Configured, WorldTypes
<1>5. ValueTypes' /\ ProcessInv' /\ run' = Plugin!Idle
  BY <1>1, FreshFacts
<1> QED BY <1>1, <1>2, <1>3, <1>4, <1>5, AfterIdle

LEMMA TimerFiresEarly ==
  ASSUME VerdictsInv, Plugin!TimerFires
  PROVE  VerdictsInv'
<1>1. /\ Plugin!Busy /\ todo # << >> /\ Plugin!Acts(Head(todo)) /\ Plugin!Kind(run.of) = "runaway"
      /\ Plugin!Fresh /\ outcome' = [outcome EXCEPT ![run.of] = "Timeout"] /\ UNCHANGED <<world, coverage>>
  BY DEF Plugin!TimerFires, Plugin!Hangs
<1>2. run # Plugin!None
  BY <1>1 DEF Plugin!Busy
<1>3. Configured /\ world \in Worlds
  BY <1>2, BusyFacts
<1> DEFINE m == run.of
<1>4. m \in Mutated /\ Head(todo) \in Plugin!Places(m)
  BY <1>1 DEF Plugin!Acts, Mutated
<1>5. run.of # "dryRun"
  BY <1>3, <1>4, MutantFacts
<1>6. Right(m, "Timeout")
  BY <1>1, <1>4 DEF Right, Plugin!Deserved
<1>7. "Timeout" \in Outcomes /\ outcome' = [outcome EXCEPT ![m] = "Timeout"]
  BY <1>1 DEF Outcomes
<1> HIDE DEF m
<1>8. outcome' \in [Mutated -> Outcomes] /\ \A x \in Mutated : <<x, outcome'[x]>> \in RightVerdicts
  BY <1>3, <1>4, <1>6, <1>7, VerdictIsGiven
<1>9. ValueTypes' /\ ProcessInv' /\ run' = Plugin!Idle
  BY <1>1, FreshFacts
<1> QED BY <1>1, <1>2, <1>3, <1>5, <1>8, <1>9, AfterIdle

\* When a mutant's run is over, its verdict is right.
LEMMA VerdictIsRight ==
  ASSUME Configured, NEW m \in Mutated, run.of = m, run # Plugin!None, todo = << >>, ns.over \in BOOLEAN
  PROVE  Plugin!Verdict \in {"Timeout", "Killed", "Survived"} /\ Right(m, Plugin!Verdict)
<1>1. world \in Worlds /\ (world.ignoreStatic => world.analysis = "perTest") /\ CoverageInv
  BY DEF Configured, WorldTypes
<1>2. Justified(m) /\ Blamed(m) /\ Noticed(m)
  BY DEF Configured, RunInv
<1>3. ~Dooms(todo, Acting, Damaged) /\ ~Strikes(todo, Acting)
  BY DEF Dooms, Strikes
<1>4. run.of # "dryRun" /\ Plugin!Kind(m) \in {"lethal", "harmless", "runaway"}
  BY <1>1, MutantFacts
<1>5. Plugin!Verdict = IF ns.over THEN "Timeout" ELSE IF failed # {} THEN "Killed" ELSE "Survived"
  BY DEF Plugin!Verdict
<1>6. /\ ns.over => Plugin!Kind(m) = "runaway" /\ Plugin!Places(m) # {}
      /\ ~Plugin!MayPoison /\ failed # {} =>
           Plugin!Kind(m) # "harmless" /\ Plugin!Places(m) # {} /\ (Plugin!Kind(m) = "runaway" => ns.over)
  BY <1>2 DEF Blamed
<1>7. ASSUME ~world.ignoreStatic, ~Plugin!Misattributed(m) PROVE Plugin!Verdict \in Plugin!Deserved(m)
  <2>1. ~Plugin!MayPoison
    BY <1>7 DEF Plugin!MayPoison
  <2>2. CASE Plugin!Places(m) = {}
    <3>1. Plugin!Verdict = "Survived"
      BY <1>5, <1>6, <2>1, <2>2
    <3>2. ~Plugin!Reported
      <4>1. SUFFICES ASSUME Plugin!Reported PROVE FALSE
        OBVIOUS
      <4>2. ~Plugin!HasStatic(m) /\ Plugin!CoveredBy(m) = {}
        BY <1>1, <1>4, <2>2, <4>1, CoveredFacts
      <4> QED BY <1>2, <4>1, <4>2 DEF Justified
    <3> QED BY <2>2, <3>1, <3>2 DEF Plugin!Deserved
  <2>3. CASE Plugin!Places(m) # {} /\ Plugin!Kind(m) = "lethal"
    <3>1. failed # {} /\ ~ns.over
      BY <1>2, <1>3, <1>6, <1>7, <2>3 DEF Noticed
    <3> QED BY <1>5, <2>3, <3>1 DEF Plugin!Deserved
  <2>4. CASE Plugin!Places(m) # {} /\ Plugin!Kind(m) = "harmless"
    <3>1. failed = {} /\ ~ns.over
      BY <1>6, <2>1, <2>4
    <3> QED BY <1>5, <2>4, <3>1 DEF Plugin!Deserved
  <2>5. CASE Plugin!Places(m) # {} /\ Plugin!Kind(m) = "runaway"
    <3>1. ns.over
      BY <1>2, <1>3, <1>7, <2>5 DEF Noticed
    <3> QED BY <1>5, <2>5, <3>1 DEF Plugin!Deserved
  <2> QED BY <1>4, <2>2, <2>3, <2>4, <2>5
<1>8. Plugin!Verdict \in {"Killed", "Timeout"} /\ ~Plugin!MayPoison => Plugin!Kind(m) # "harmless"
  BY <1>5, <1>6
<1> QED BY <1>5, <1>7, <1>8 DEF Right

LEMMA FinishStep ==
  ASSUME VerdictsInv, Plugin!Finish
  PROVE  VerdictsInv'
<1>1. /\ Plugin!Busy /\ todo = << >> /\ run' = Plugin!Idle
      /\ outcome' = [m \in Mutated |-> IF m = run.of THEN Plugin!Verdict ELSE outcome[m]]
      /\ UNCHANGED <<world, todo, ns, loaded, grep, broken, failed, coverage, staticRun>>
  BY DEF Plugin!Finish, Mutated
<1>2. run # Plugin!None
  BY <1>1 DEF Plugin!Busy
<1>3. Configured /\ ValueTypes
  BY <1>2, BusyFacts
<1>4. outcome \in [Mutated -> Outcomes] /\ \A x \in Mutated : <<x, outcome[x]>> \in RightVerdicts
  BY <1>3 DEF Configured, WorldTypes
<1>5. ASSUME NEW m \in Mutated, m = run.of PROVE Plugin!Verdict \in Outcomes /\ <<m, Plugin!Verdict>> \in RightVerdicts
  <2>1. Plugin!Verdict \in {"Timeout", "Killed", "Survived"} /\ Right(m, Plugin!Verdict)
    BY <1>1, <1>2, <1>3, <1>5, VerdictIsRight DEF ValueTypes
  <2>2. Plugin!Verdict \in Outcomes
    BY <2>1 DEF Outcomes
  <2> QED BY <2>1, <2>2 DEF RightVerdicts
<1>6. outcome' \in [Mutated -> Outcomes] /\ \A x \in Mutated : <<x, outcome'[x]>> \in RightVerdicts
  BY <1>1, <1>4, <1>5
<1>7. ValueTypes'
  BY <1>1, <1>3 DEF ValueTypes, PlacesOfTests
<1>8. ProcessInv'
  BY <1>1, <1>3, WorldStays DEF Configured, ProcessInv
<1> QED BY <1>1, <1>2, <1>3, <1>6, <1>7, <1>8, AfterIdle

\* The run of a mutant: which of its places are going to be executed.
LEMMA PlannedPlaces ==
  ASSUME Configured, run = Plugin!Idle, NEW m \in Mutated, Plugin!Plan(m).run,
         ~Plugin!NeedsNewProcess(Plugin!Plan(m).activation), NEW filter, filter = Plugin!Filtered(Plugin!Plan(m).filter)
  PROVE  /\ filter \in SUBSET Range(Tests)
         /\ Plugin!Plan(m).activation \in {"static", "runtime"} /\ Plugin!Plan(m).filter \in SUBSET Range(Tests)
         /\ \/ /\ Plugin!Plan(m).activation = "static"
               /\ ~Plugin!Reported \/ (Plugin!HasStatic(m) /\ ~world.ignoreStatic)
            \/ /\ Plugin!Plan(m).activation = "runtime" /\ Plugin!Reported
               /\ Plugin!Plan(m).filter = Plugin!CoveredBy(m) /\ Plugin!CoveredBy(m) # {}
               /\ world.ignoreStatic \/ ~Plugin!HasStatic(m)
         /\ ~world.ignoreStatic /\ ~Plugin!Misattributed(m) =>
              \A p \in Plugin!Places(m) :
                /\ p[2] \in filter
                /\ p[1] = "body" \/ Plugin!Plan(m).activation = "static" \/ world.plugin = "tap"
                /\ p[1] = "load" => world.plugin \notin Suites \/ ~loaded \/ Reloading
<1>1. /\ world \in Worlds /\ (world.ignoreStatic => world.analysis = "perTest") /\ CoverageInv /\ ProcessInv
      /\ run # Plugin!None /\ run.of # "dryRun"
  BY DEF Configured, WorldTypes, Plugin!Idle, Plugin!None
<1>2. world.plugin \in Plugins /\ Plugin!Places(m) \subseteq PlacesOfTests
  BY <1>1, MutantFacts
<1>3. \A p \in Plugin!Places(m) : p[2] \in Range(Tests)
  BY <1>2 DEF PlacesOfTests
<1>4. CASE ~Plugin!Reported \/ (Plugin!HasStatic(m) /\ ~world.ignoreStatic)
  <2>1. Plugin!Plan(m) = [run |-> TRUE, filter |-> {}, activation |-> "static"]
    BY <1>4, PlanCases
  <2>2. ~loaded \/ Reloading
    BY <2>1 DEF Plugin!NeedsNewProcess, Reloading
  <2>3. filter = Range(Tests)
    <3>1. CASE world.plugin = "mocha"
      <4>1. ~Reloading
        BY <1>2, <3>1, PluginFacts
      <4>2. grep = {}
        BY <1>1, <2>2, <4>1 DEF ProcessInv
      <4> QED BY <2>1, <3>1, <4>2, TestsAreListed DEF Plugin!Filtered, Plugin!MochaFilter
    <3>2. CASE world.plugin # "mocha"
      BY <2>1, <3>2, TestsAreListed DEF Plugin!Filtered
    <3> QED BY <3>1, <3>2
  <2> QED BY <1>3, <1>4, <2>1, <2>2, <2>3
<1>5. CASE Plugin!Reported /\ (world.ignoreStatic \/ ~Plugin!HasStatic(m))
  <2>1. Plugin!CoveredBy(m) # {} /\ Plugin!Plan(m) = [run |-> TRUE, filter |-> Plugin!CoveredBy(m), activation |-> "runtime"]
    BY <1>5, PlanCases
  <2>2. Plugin!CoveredBy(m) \subseteq Range(Tests)
    BY <1>1, <1>5, CoveredFacts
  <2>3. filter = Plugin!CoveredBy(m)
    BY <2>1 DEF Plugin!Filtered, Plugin!MochaFilter
  <2>4. ASSUME ~world.ignoreStatic, ~Plugin!Misattributed(m), NEW p \in Plugin!Places(m)
        PROVE  p[2] \in Plugin!CoveredBy(m) /\ (p[1] = "body" \/ world.plugin = "tap")
    BY <1>1, <1>5, <2>4, CoveredFacts
  <2>5. "tap" \notin Suites
    BY DEF Suites
  <2> QED BY <1>5, <2>1, <2>2, <2>3, <2>4, <2>5
<1> QED BY <1>4, <1>5

LEMMA MutantRunStep ==
  ASSUME VerdictsInv, NEW m \in DOMAIN outcome, NEW bail \in BOOLEAN, Plugin!MutantRun(m, bail)
  PROVE  VerdictsInv'
<1> DEFINE filter == Plugin!Filtered(Plugin!Plan(m).filter)
           activation == Plugin!Plan(m).activation
<1>1. /\ run = Plugin!Idle /\ Plugin!Plan(m).run /\ ~Plugin!NeedsNewProcess(activation)
      /\ run' = [of |-> m, filter |-> Plugin!Plan(m).filter, activation |-> activation, limited |-> Plugin!Reported, bail |-> bail]
      /\ todo' = Plugin!Steps(filter) /\ staticRun' = (activation = "static")
      /\ ns' = Plugin!NoNamespace
      /\ broken' = IF Reloading THEN Plugin!NotBroken ELSE [broken EXCEPT !.now = {}]
      /\ failed' = {} /\ loaded' = TRUE
      /\ UNCHANGED <<world, coverage, outcome>>
  BY DEF Plugin!MutantRun, Reloading
<1>2. run # Plugin!None /\ run.of = "idle"
  BY <1>1 DEF Plugin!Idle, Plugin!None
<1>3. Configured /\ ValueTypes /\ WorldTypes /\ world \in Worlds /\ (world.ignoreStatic => world.analysis = "perTest")
  BY <1>2, BusyFacts
<1>4. m \in Mutated /\ world.plugin \in Plugins /\ ProcessInv /\ CoverageInv
  BY <1>3, MutantFacts DEF WorldTypes, Configured
<1>5. /\ filter \in SUBSET Range(Tests)
      /\ activation \in {"static", "runtime"} /\ Plugin!Plan(m).filter \in SUBSET Range(Tests)
      /\ \/ /\ activation = "static"
            /\ ~Plugin!Reported \/ (Plugin!HasStatic(m) /\ ~world.ignoreStatic)
         \/ /\ activation = "runtime" /\ Plugin!Reported
            /\ Plugin!Plan(m).filter = Plugin!CoveredBy(m) /\ Plugin!CoveredBy(m) # {}
            /\ world.ignoreStatic \/ ~Plugin!HasStatic(m)
      /\ ~world.ignoreStatic /\ ~Plugin!Misattributed(m) =>
           \A p \in Plugin!Places(m) :
             /\ p[2] \in filter
             /\ p[1] = "body" \/ activation = "static" \/ world.plugin = "tap"
             /\ p[1] = "load" => world.plugin \notin Suites \/ ~loaded \/ Reloading
  BY <1>1, <1>3, <1>4, PlannedPlaces
<1> HIDE DEF filter
<1>6. /\ todo' \in Seq(PlacesOfTests) /\ Followed(todo', filter)
      /\ \A t \in filter : {<<"setup", t>>, <<"body", t>>} \subseteq Range(todo')
      /\ world.plugin \notin Suites \/ ~loaded \/ Reloading => \A t \in filter : <<"load", t>> \in Range(todo')
  BY <1>1, <1>4, <1>5, StepsFacts
<1>7. /\ broken' \in [load : SUBSET Range(Tests), now : SUBSET Range(Tests)]
      /\ broken'.now = {} /\ (broken'.load # {} => Plugin!MayPoison)
  <2>1. broken \in [load : SUBSET Range(Tests), now : SUBSET Range(Tests)]
    BY <1>3 DEF ValueTypes
  <2>2. CASE Reloading
    BY <1>1, <2>2 DEF Plugin!NotBroken
  <2>3. CASE ~Reloading
    <3>1. broken' = [broken EXCEPT !.now = {}]
      BY <1>1, <2>3
    <3>2. broken'.load = broken.load
      BY <2>1, <3>1
    <3>3. ASSUME broken.load # {} PROVE Plugin!MayPoison
      <4>1. loaded /\ (staticRun \/ Plugin!MayPoison)
        BY <1>4, <2>3, <3>3 DEF ProcessInv
      <4>2. ~staticRun
        BY <1>1, <2>3, <4>1 DEF Plugin!NeedsNewProcess, Reloading
      <4> QED BY <4>1, <4>2
    <3> QED BY <2>1, <3>1, <3>2, <3>3
  <2> QED BY <2>2, <2>3
<1>8. ValueTypes'
  <2>1. ns'.over \in BOOLEAN /\ PlacesOfTests' = PlacesOfTests
    BY <1>1 DEF Plugin!NoNamespace, PlacesOfTests
  <2>2. (activation = "static") \in BOOLEAN
    OBVIOUS
  <2> QED BY <1>1, <1>6, <1>7, <2>1, <2>2 DEF ValueTypes
<1>9. Mutated' = Mutated /\ "dryRun" \notin Mutated /\ "none" \notin Mutated
  BY <1>1, <1>3, MutantFacts, WorldStays
<1>10. run' \in MutantRuns /\ run' # Plugin!None /\ run'.of = m /\ run'.activation = activation /\ run'.filter = Plugin!Plan(m).filter
  <2>1. Plugin!Reported \in BOOLEAN
    BY DEF Plugin!Reported, Plugin!ReportsCoverage
  <2> HIDE DEF activation
  <2>2. run' \in MutantRuns
    BY <1>1, <1>4, <1>5, <2>1 DEF MutantRuns
  <2>3. run'.of = m /\ run'.activation = activation /\ run'.filter = Plugin!Plan(m).filter
    BY <1>1
  <2> QED BY <1>4, <1>9, <2>2, <2>3 DEF Plugin!None
<1>11. ProcessInv'
  BY <1>1, <1>7, WorldStays DEF ProcessInv
<1>12. CoverageInv'
  BY <1>1, <1>2, <1>4, CoverageStays
<1>13. DryRunInv'
  BY <1>4, <1>9, <1>10 DEF DryRunInv
<1> HIDE DEF activation
<1>14. Justified(m)'
  <2>1. /\ (Plugin!Reported' <=> Plugin!Reported) /\ (Plugin!HasStatic(m)' <=> Plugin!HasStatic(m))
        /\ Plugin!CoveredBy(m)' = Plugin!CoveredBy(m) /\ world' = world
    BY <1>1, WorldStays DEF Plugin!HasStatic, Plugin!CoveredBy, Plugin!TestSet
  <2> QED BY <1>5, <1>10, <2>1 DEF Justified
<1>15. Blamed(m)'
  <2>1. failed' = {} /\ ~ns'.over
    BY <1>1 DEF Plugin!NoNamespace
  <2>2. ~Plugin!MayPoison' => Damaged' = {}
    BY <1>1, <1>7, WorldStays DEF Damaged
  <2> QED BY <2>1, <2>2 DEF Blamed
<1>16. Noticed(m)'
  <2> SUFFICES ASSUME ~world.ignoreStatic, ~Plugin!Misattributed(m), Plugin!Places(m) # {}
               PROVE  Dooms(todo, Acting, Damaged)' /\ Strikes(todo, Acting)'
    <3>1. /\ (Plugin!Misattributed(m)' <=> Plugin!Misattributed(m)) /\ Plugin!Places(m)' = Plugin!Places(m)
          /\ world'.ignoreStatic = world.ignoreStatic
      BY <1>1, WorldStays
    <3> QED BY <3>1 DEF Noticed
  <2>1. PICK p \in Plugin!Places(m) : TRUE
    OBVIOUS
  <2>2. /\ p \in PlacesOfTests /\ p[2] \in filter
        /\ p[1] = "body" \/ activation = "static" \/ world.plugin = "tap"
        /\ p[1] = "load" => world.plugin \notin Suites \/ ~loaded \/ Reloading
    BY <1>3, <1>4, <1>5, <2>1, MutantFacts
  <2>3. p \in Acting'
    <3>1. ActingIsRight' /\ world'.plugin \in Plugins /\ PlacesOfTests' = PlacesOfTests
      BY <1>1, <1>4, ActingFactsAfter DEF PlacesOfTests
    <3>2. run'.of \in Mutated' /\ p \in Plugin!Places(run.of)'
      <4>1. Plugin!Places(m)' = Plugin!Places(m)
        BY <1>1, WorldStays
      <4>2. Plugin!Places(run.of)' = Plugin!Places(m)'
        BY <1>10 DEF Plugin!Places
      <4> QED BY <1>4, <1>9, <1>10, <2>1, <4>1, <4>2
    <3> QED BY <1>1, <1>10, <2>2, <3>1, <3>2 DEF ActingIsRight
  <2>4. p \in Range(todo')
    <3>1. p = <<p[1], p[2]>> /\ p[1] \in {"load", "setup", "body"}
      BY <2>2 DEF PlacesOfTests
    <3>2. CASE p[1] = "load"
      <4>1. <<"load", p[2]>> \in Range(todo')
        BY <1>6, <2>2, <3>2
      <4> QED BY <3>1, <3>2, <4>1
    <3>3. CASE p[1] # "load"
      <4>1. <<"setup", p[2]>> \in Range(todo') /\ <<"body", p[2]>> \in Range(todo')
        BY <1>6, <2>2
      <4> QED BY <3>1, <3>3, <4>1
    <3> QED BY <3>2, <3>3
  <2>5. PICK i \in DOMAIN todo' : todo'[i] = p
    BY <2>4 DEF Range
  <2>6. PICK j \in DOMAIN todo' : i <= j /\ todo'[j] = <<"body", todo'[i][2]>>
    BY <1>6, <2>2, <2>5 DEF Followed
  <2> QED BY <2>3, <2>5, <2>6 DEF Dooms, Strikes
<1>17. RunInv'
  <2>1. \A x \in Mutated' : run'.of = x => x = m
    BY <1>10
  <2>2. loaded' /\ staticRun' = (run'.activation = "static")
    BY <1>1, <1>10
  <2> QED BY <1>14, <1>15, <1>16, <2>1, <2>2 DEF RunInv
<1>18. outcome' \in [Mutated -> Outcomes] /\ \A x \in Mutated : <<x, outcome'[x]>> \in RightVerdicts
  BY <1>1, <1>3 DEF WorldTypes, Configured
<1> QED BY <1>1, <1>3, <1>8, <1>10, <1>11, <1>12, <1>13, <1>17, <1>18, AfterStep

\* What is left of a sequence of places when the first has been executed.
LEMMA TailFacts ==
  ASSUME NEW q \in Seq(PlacesOfTests), q # << >>
  PROVE  /\ Tail(q) \in Seq(PlacesOfTests) /\ Head(q) = q[1] /\ Head(q) \in PlacesOfTests
         /\ 1 \in DOMAIN q
         /\ \A i \in DOMAIN q : i \in Nat /\ (i # 1 => i - 1 \in DOMAIN Tail(q) /\ Tail(q)[i - 1] = q[i])
         /\ \A i \in DOMAIN Tail(q) : i \in Nat /\ i + 1 \in DOMAIN q /\ Tail(q)[i] = q[i + 1] /\ 1 <= i + 1
OBVIOUS

LEMMA TailRange ==
  ASSUME NEW q \in Seq(PlacesOfTests), q # << >>, NEW p \in Range(q)
  PROVE  p = Head(q) \/ p \in Range(Tail(q))
<1>1. PICK i \in DOMAIN q : q[i] = p
  BY DEF Range
<1>2. CASE i = 1
  BY <1>1, <1>2, TailFacts
<1>3. CASE i # 1
  <2>1. i - 1 \in DOMAIN Tail(q) /\ Tail(q)[i - 1] = p
    BY <1>1, <1>3, TailFacts
  <2> QED BY <2>1 DEF Range
<1> QED BY <1>2, <1>3

LEMMA TailLoads ==
  ASSUME NEW q \in Seq(PlacesOfTests), q # << >>
  PROVE  /\ LoadsFirst(q) => LoadsFirst(Tail(q)) /\ (Head(q)[1] # "load" => NoLoads(Tail(q)))
         /\ NoLoads(q) => NoLoads(Tail(q)) /\ Head(q)[1] # "load"
<1> DEFINE r == Tail(q)
<1>1. /\ Head(q) = q[1] /\ 1 \in DOMAIN q
      /\ \A i \in DOMAIN r : i \in Nat /\ i + 1 \in DOMAIN q /\ r[i] = q[i + 1] /\ 1 <= i + 1
  BY TailFacts
<1> HIDE DEF r
<1>2. ASSUME LoadsFirst(q), NEW i \in DOMAIN r, NEW j \in DOMAIN r, i <= j, r[j][1] = "load" PROVE r[i][1] = "load"
  <2>1. i + 1 \in DOMAIN q /\ j + 1 \in DOMAIN q /\ i + 1 <= j + 1 /\ q[j + 1][1] = "load"
    BY <1>1, <1>2
  <2>2. q[i + 1][1] = "load"
    BY <1>2, <2>1 DEF LoadsFirst
  <2> QED BY <1>1, <2>2
<1>3. ASSUME LoadsFirst(q), Head(q)[1] # "load", NEW j \in DOMAIN r PROVE r[j][1] # "load"
  <2>1. j + 1 \in DOMAIN q /\ 1 <= j + 1 /\ r[j] = q[j + 1]
    BY <1>1
  <2>2. q[j + 1][1] = "load" => q[1][1] = "load"
    BY <1>1, <1>3, <2>1 DEF LoadsFirst
  <2> QED BY <1>1, <1>3, <2>1, <2>2
<1>4. NoLoads(q) => NoLoads(r) /\ q[1][1] # "load"
  BY <1>1 DEF NoLoads
<1>5. LoadsFirst(q) => LoadsFirst(r)
  BY <1>2 DEF LoadsFirst
<1>6. LoadsFirst(q) /\ Head(q)[1] # "load" => NoLoads(r)
  BY <1>3 DEF NoLoads
<1> QED BY <1>1, <1>4, <1>5, <1>6 DEF r

\* A test that is doomed fails now or stays doomed.
LEMMA TailDooms ==
  ASSUME NEW q \in Seq(PlacesOfTests), q # << >>, NEW acting, NEW damaged, NEW after, damaged \subseteq after,
         Head(q) \in acting => Head(q)[2] \in after, Dooms(q, acting, damaged)
  PROVE  Dooms(Tail(q), acting, after) \/ (Head(q)[1] = "body" /\ Head(q)[2] \in after)
<1> DEFINE r == Tail(q)
<1>1. /\ Head(q) = q[1] /\ \A i \in DOMAIN q : i \in Nat /\ (i # 1 => i - 1 \in DOMAIN r /\ r[i - 1] = q[i])
  BY TailFacts
<1> HIDE DEF r
<1>2. CASE \E i \in DOMAIN q : q[i][1] = "body" /\ q[i][2] \in damaged
  <2>1. PICK i \in DOMAIN q : q[i][1] = "body" /\ q[i][2] \in damaged
    BY <1>2
  <2>2. CASE i = 1
    BY <1>1, <2>1, <2>2
  <2>3. CASE i # 1
    <3>1. i - 1 \in DOMAIN r /\ r[i - 1][1] = "body" /\ r[i - 1][2] \in after
      BY <1>1, <2>1, <2>3
    <3>2. Dooms(r, acting, after)
      BY <3>1 DEF Dooms
    <3> QED BY <3>2 DEF r
  <2> QED BY <2>2, <2>3
<1>3. CASE \E i, j \in DOMAIN q : i <= j /\ q[i] \in acting /\ q[j] = <<"body", q[i][2]>>
  <2>1. PICK i \in DOMAIN q, j \in DOMAIN q : i <= j /\ q[i] \in acting /\ q[j] = <<"body", q[i][2]>>
    BY <1>3
  <2>2. CASE i = 1 /\ j = 1
    <3>1. Head(q) = <<"body", Head(q)[2]>> /\ Head(q)[2] \in after
      BY <1>1, <2>1, <2>2
    <3>2. Head(q)[1] = "body"
      BY <3>1
    <3> QED BY <3>1, <3>2
  <2>3. CASE i = 1 /\ j # 1
    <3>1. j - 1 \in DOMAIN r /\ r[j - 1] = <<"body", Head(q)[2]>> /\ Head(q)[2] \in after
      BY <1>1, <2>1, <2>3
    <3>2. r[j - 1][1] = "body" /\ r[j - 1][2] \in after
      BY <3>1
    <3>3. Dooms(r, acting, after)
      BY <3>1, <3>2 DEF Dooms
    <3> QED BY <3>3 DEF r
  <2>4. CASE i # 1
    <3>1. j # 1
      <4>1. i \in Nat /\ j \in Nat /\ i <= j /\ i # 0
        <5>1. DOMAIN q = 1..Len(q) /\ Len(q) \in Nat
          OBVIOUS
        <5> QED BY <2>1, <5>1
      <4> QED BY <2>4, <4>1
    <3>2. i - 1 \in DOMAIN r /\ j - 1 \in DOMAIN r /\ r[i - 1] = q[i] /\ r[j - 1] = q[j] /\ i - 1 <= j - 1
      BY <1>1, <2>1, <2>4, <3>1
    <3>3. Dooms(r, acting, after)
      BY <2>1, <3>2 DEF Dooms
    <3> QED BY <3>3 DEF r
  <2> QED BY <2>2, <2>3, <2>4
<1> QED BY <1>2, <1>3 DEF Dooms

LEMMA TailStrikes ==
  ASSUME NEW q \in Seq(PlacesOfTests), q # << >>, NEW acting, Strikes(q, acting)
  PROVE  Head(q) \in acting \/ Strikes(Tail(q), acting)
<1>1. PICK i \in DOMAIN q : q[i] \in acting
  BY DEF Strikes
<1>2. CASE i = 1
  BY <1>1, <1>2, TailFacts
<1>3. CASE i # 1
  <2>1. i - 1 \in DOMAIN Tail(q) /\ Tail(q)[i - 1] = q[i]
    BY <1>3, TailFacts
  <2> QED BY <1>1, <2>1 DEF Strikes
<1> QED BY <1>2, <1>3

\* What executing a place does.
LEMMA ExecuteFacts ==
  ASSUME VerdictsInv, Plugin!Execute
  PROVE  LET place == Head(todo)
             t     == place[2]
             breaks == place \in Acting /\ Plugin!Kind(run.of) # "harmless"
         IN  /\ run # Plugin!None /\ run # Plugin!Idle /\ todo # << >> /\ place \in PlacesOfTests /\ t \in Range(Tests)
             /\ Configured /\ ValueTypes
             /\ broken' = IF ~breaks THEN broken
                          ELSE IF place[1] = "load" THEN [broken EXCEPT !.load = @ \cup {t}]
                          ELSE [broken EXCEPT !.now = @ \cup {t}]
             /\ failed' = IF place[1] = "body" /\ t \in Damaged' THEN failed \cup {t} ELSE failed
             /\ todo' = IF run.bail /\ t \in failed' THEN << >> ELSE Tail(todo)
             /\ coverage' = coverage \cup Plugin!Covered(place)
             /\ ns'.over = (ns.over \/ (place \in Acting /\ Plugin!Kind(run.of) = "runaway"))
             /\ ns'.currentTestId = IF place[1] = "body" /\ Plugin!Tracking.starts
                                    THEN IF Plugin!Tracking.forgets THEN "none" ELSE t
                                    ELSE ns.currentTestId
             /\ UNCHANGED <<world, run, loaded, grep, staticRun, outcome>>
<1>1. Plugin!Busy /\ todo # << >>
  BY DEF Plugin!Execute
<1>2. run # Plugin!None /\ run # Plugin!Idle
  BY <1>1 DEF Plugin!Busy
<1>3. Configured /\ ValueTypes /\ world \in Worlds
  BY <1>2, BusyFacts
<1>4. todo \in Seq(PlacesOfTests)
  BY <1>3 DEF ValueTypes
<1>5. Head(todo) \in PlacesOfTests
  BY <1>1, <1>4, TailFacts
<1>6. Head(todo)[2] \in Range(Tests)
  BY <1>5 DEF PlacesOfTests
<1>7. Plugin!Acts(Head(todo)) <=> Head(todo) \in Acting
  BY <1>3, <1>5, ActingFacts, MutantFacts DEF ActingIsRight
<1> QED BY <1>1, <1>2, <1>3, <1>5, <1>6, <1>7 DEF Plugin!Execute, Damaged

LEMMA ExecuteTypes ==
  ASSUME VerdictsInv, Plugin!Execute
  PROVE  ValueTypes'
<1> DEFINE place == Head(todo)
           t     == place[2]
           breaks == place \in Acting /\ Plugin!Kind(run.of) # "harmless"
<1>1. /\ todo # << >> /\ t \in Range(Tests) /\ ValueTypes
      /\ broken' = IF ~breaks THEN broken
                   ELSE IF place[1] = "load" THEN [broken EXCEPT !.load = @ \cup {t}]
                   ELSE [broken EXCEPT !.now = @ \cup {t}]
      /\ todo' = IF run.bail /\ t \in failed' THEN << >> ELSE Tail(todo)
      /\ ns'.over = (ns.over \/ (place \in Acting /\ Plugin!Kind(run.of) = "runaway"))
      /\ UNCHANGED <<loaded, staticRun>>
  BY ExecuteFacts
<1> HIDE DEF t, breaks
<1>2. /\ todo \in Seq(PlacesOfTests) /\ loaded \in BOOLEAN /\ staticRun \in BOOLEAN
      /\ broken \in [load : SUBSET Range(Tests), now : SUBSET Range(Tests)] /\ ns.over \in BOOLEAN
  BY <1>1 DEF ValueTypes
<1>3. todo' \in Seq(PlacesOfTests)
  <2>1. Tail(todo) \in Seq(PlacesOfTests) /\ << >> \in Seq(PlacesOfTests)
    BY <1>1, <1>2, TailFacts
  <2> QED BY <1>1, <2>1
<1>4. broken' \in [load : SUBSET Range(Tests), now : SUBSET Range(Tests)]
  BY <1>1, <1>2
<1>5. ns'.over \in BOOLEAN /\ PlacesOfTests' = PlacesOfTests
  BY <1>1 DEF PlacesOfTests
<1> QED BY <1>1, <1>2, <1>3, <1>4, <1>5 DEF ValueTypes

LEMMA ExecuteDryRun ==
  ASSUME VerdictsInv, Plugin!Execute, run.of = "dryRun"
  PROVE  VerdictsInv'
<1> DEFINE place == Head(todo)
           t     == place[2]
<1>1. /\ run # Plugin!None /\ run # Plugin!Idle /\ todo # << >> /\ place \in PlacesOfTests
      /\ Configured /\ ValueTypes
      /\ broken' = IF ~(place \in Acting /\ Plugin!Kind(run.of) # "harmless") THEN broken
                   ELSE IF place[1] = "load" THEN [broken EXCEPT !.load = @ \cup {t}]
                   ELSE [broken EXCEPT !.now = @ \cup {t}]
      /\ failed' = IF place[1] = "body" /\ t \in Damaged' THEN failed \cup {t} ELSE failed
      /\ todo' = IF run.bail /\ t \in failed' THEN << >> ELSE Tail(todo)
      /\ coverage' = coverage \cup Plugin!Covered(place)
      /\ ns'.over = (ns.over \/ (place \in Acting /\ Plugin!Kind(run.of) = "runaway"))
      /\ ns'.currentTestId = IF place[1] = "body" /\ Plugin!Tracking.starts
                             THEN IF Plugin!Tracking.forgets THEN "none" ELSE t
                             ELSE ns.currentTestId
      /\ UNCHANGED <<world, run, loaded, grep, staticRun, outcome>>
  BY ExecuteFacts
<1>2. /\ WorldTypes /\ world \in Worlds /\ world.plugin \in Plugins /\ ProcessInv /\ CoverageInv /\ DryRunInv
      /\ "dryRun" \notin Mutated
  BY <1>1, MutantFacts DEF Configured, WorldTypes
<1>3. run \in DryRuns /\ ~run.bail
  <2>1. run \notin MutantRuns
    BY <1>2 DEF MutantRuns
  <2> QED BY <1>1, <1>2, <2>1 DEF WorldTypes, DryRuns
<1>4. Acting = {}
  BY <1>2, ActingFacts DEF ActingIsRight
<1>5. /\ broken = Plugin!NotBroken /\ failed = {} /\ ~ns.over
      /\ ns.currentTestId # "none" =>
           /\ Plugin!Tracking.starts /\ ~Plugin!Tracking.forgets
           /\ world.plugin \in Suites => NoLoads(todo)
      /\ world.plugin \in Suites => LoadsFirst(todo)
  BY <1>2 DEF DryRunInv
<1> HIDE DEF place, t
<1>6. broken' = broken /\ failed' = {} /\ ~ns'.over /\ todo' = Tail(todo)
  <2>1. broken' = broken /\ ~ns'.over
    BY <1>1, <1>4, <1>5
  <2>2. Damaged' = {}
    BY <1>5, <2>1 DEF Damaged, Plugin!NotBroken
  <2> QED BY <1>1, <1>3, <1>5, <2>1, <2>2
<1>7. todo \in Seq(PlacesOfTests)
  BY <1>1 DEF ValueTypes
<1>8. ProcessInv'
  BY <1>1, <1>2, <1>6, WorldStays DEF ProcessInv
<1>9. DryRunInv'
  <2>1. world.plugin \in Suites => LoadsFirst(todo')
    BY <1>1, <1>5, <1>6, <1>7, TailLoads
  <2>2. ASSUME ns'.currentTestId # "none"
        PROVE  /\ Plugin!Tracking.starts /\ ~Plugin!Tracking.forgets
               /\ world.plugin \in Suites => NoLoads(todo')
    <3>1. CASE place[1] = "body" /\ Plugin!Tracking.starts
      <4>1. ~Plugin!Tracking.forgets /\ place[1] # "load"
        BY <1>1, <2>2, <3>1
      <4>2. world.plugin \in Suites => NoLoads(todo')
        BY <1>1, <1>5, <1>6, <1>7, <4>1, TailLoads DEF place
      <4> QED BY <3>1, <4>1, <4>2
    <3>2. CASE ~(place[1] = "body" /\ Plugin!Tracking.starts)
      <4>1. ns.currentTestId # "none"
        BY <1>1, <2>2, <3>2
      <4> QED BY <1>1, <1>5, <1>6, <1>7, <4>1, TailLoads
    <3> QED BY <3>1, <3>2
  <2>3. /\ Plugin!Tracking' = Plugin!Tracking /\ world' = world /\ Suites' = Suites
        /\ (LoadsFirst(todo)' <=> LoadsFirst(todo')) /\ (NoLoads(todo)' <=> NoLoads(todo'))
        /\ Plugin!NotBroken' = Plugin!NotBroken
    BY <1>1, WorldStays DEF Suites, LoadsFirst, NoLoads, Plugin!NotBroken
  <2> QED BY <1>5, <1>6, <2>1, <2>2, <2>3 DEF DryRunInv
<1>10. CoverageInv'
  <2>1. /\ Mutated' = Mutated /\ (Plugin!Reported' <=> Plugin!Reported)
        /\ \A m : Plugin!Places(m)' = Plugin!Places(m)
        /\ \A m : Plugin!Misattributed(m)' <=> Plugin!Misattributed(m)
        /\ \A p : Expected(p)' = Expected(p)
    BY <1>1, WorldStays
  <2> SUFFICES ASSUME Plugin!Reported
               PROVE  /\ \A m \in Mutated : \A p \in Plugin!Places(m) :
                           ~Plugin!Misattributed(m) \/ Expected(p) # "static" =>
                             \/ <<m, Expected(p)>> \in coverage'
                             \/ p \in Range(todo')
                      /\ \A m \in Mutated : \A x : <<m, x>> \in coverage' => Plugin!Places(m) # {}
    <3>1. run' = run /\ Range(todo)' = Range(todo')
      BY <1>1 DEF Range
    <3> QED BY <2>1, <3>1 DEF CoverageInv
  <2>2. /\ \A m \in Mutated : \A p \in Plugin!Places(m) :
             ~Plugin!Misattributed(m) \/ Expected(p) # "static" =>
               <<m, Expected(p)>> \in coverage \/ p \in Range(todo)
        /\ \A m \in Mutated : \A x : <<m, x>> \in coverage => Plugin!Places(m) # {}
    BY <1>1, <1>2 DEF CoverageInv
  <2>3. Plugin!Covered(place) = {<<m, Plugin!Attributed(place)>> : m \in {x \in Mutated : place \in Plugin!Places(x)}}
    BY DEF Plugin!Covered, Mutated
  <2>4. ASSUME NEW m \in Mutated, place \in Plugin!Places(m), ~Plugin!Misattributed(m) \/ Expected(place) # "static"
        PROVE  Plugin!Attributed(place) = Expected(place)
    <3>1. CASE world.plugin = "tap"
      BY <3>1 DEF Plugin!Attributed, Expected
    <3>2. CASE world.plugin # "tap" /\ place[1] = "body" /\ Plugin!Tracking.starts
      BY <3>2 DEF Plugin!Attributed, Expected, place
    <3>3. CASE world.plugin # "tap" /\ ~(place[1] = "body" /\ Plugin!Tracking.starts)
      <4>1. Expected(place) = "static" /\ ~Plugin!Misattributed(m)
        BY <2>4, <3>3 DEF Expected
      <4>2. Plugin!Attributed(place) = IF ns.currentTestId = "none" THEN "static" ELSE ns.currentTestId
        BY <3>3 DEF Plugin!Attributed
      <4>3. ns.currentTestId = "none"
        <5>1. SUFFICES ASSUME ns.currentTestId # "none" PROVE FALSE
          OBVIOUS
        <5>2. Plugin!Tracking.starts /\ ~Plugin!Tracking.forgets /\ (world.plugin \in Suites => NoLoads(todo))
          BY <1>5, <5>1
        <5>3. world.plugin \in Suites \cup {"jest-jasmine2"}
          BY <1>2, <5>2, PluginFacts
        <5>4. \A x \in Range(Tests) : <<"setup", x>> \notin Plugin!Places(m)
                                      /\ (world.plugin = "jest-jasmine2" => <<"load", x>> \notin Plugin!Places(m))
          BY <4>1, <5>2, TestsAreListed DEF Plugin!Misattributed, Plugin!Setup, Plugin!Load
        <5>5. place = <<place[1], place[2]>> /\ place[1] \in {"load", "setup"} /\ place[2] \in Range(Tests)
          BY <1>1, <3>3, <5>2 DEF PlacesOfTests
        <5>6. place[1] = "load" /\ world.plugin \in Suites
          BY <2>4, <5>3, <5>4, <5>5
        <5>7. NoLoads(todo) => Head(todo)[1] # "load"
          BY <1>1, <1>7, TailLoads
        <5> QED BY <5>2, <5>6, <5>7 DEF place
      <4> QED BY <4>1, <4>2, <4>3
    <3> QED BY <3>1, <3>2, <3>3
  <2>5. ASSUME NEW m \in Mutated, NEW p \in Plugin!Places(m), ~Plugin!Misattributed(m) \/ Expected(p) # "static"
        PROVE  <<m, Expected(p)>> \in coverage' \/ p \in Range(todo')
    <3>1. CASE <<m, Expected(p)>> \in coverage
      BY <1>1, <3>1
    <3>2. CASE p \in Range(todo)
      <4>1. p = place \/ p \in Range(todo')
        BY <1>1, <1>6, <1>7, <3>2, TailRange DEF place
      <4>2. CASE p = place
        <5>1. <<m, Plugin!Attributed(place)>> \in Plugin!Covered(place)
          BY <2>3, <2>5, <4>2
        <5> QED BY <1>1, <2>4, <2>5, <4>2, <5>1
      <4> QED BY <4>1, <4>2
    <3> QED BY <2>2, <2>5, <3>1, <3>2
  <2>6. ASSUME NEW m \in Mutated, NEW x, <<m, x>> \in coverage' PROVE Plugin!Places(m) # {}
    <3>1. <<m, x>> \in coverage \/ <<m, x>> \in Plugin!Covered(place)
      BY <1>1, <2>6
    <3>2. <<m, x>> \in Plugin!Covered(place) => place \in Plugin!Places(m)
      BY <2>3
    <3> QED BY <2>2, <3>1, <3>2
  <2> QED BY <2>5, <2>6
<1>11. RunInv'
  <2>1. run'.of = "dryRun" /\ Mutated' = Mutated
    BY <1>1, WorldStays
  <2> QED BY <1>2, <2>1 DEF RunInv
<1>12. outcome' \in [Mutated -> Outcomes] /\ \A x \in Mutated : <<x, outcome'[x]>> \in RightVerdicts
  BY <1>1, <1>2 DEF WorldTypes, Configured
<1>13. run' # Plugin!None /\ run' \in {Plugin!Idle} \cup DryRuns \cup MutantRuns
  BY <1>1, <1>3
<1> QED BY <1>1, <1>8, <1>9, <1>10, <1>11, <1>12, <1>13, ExecuteTypes, AfterStep

LEMMA ExecuteMutant ==
  ASSUME VerdictsInv, Plugin!Execute, run.of # "dryRun"
  PROVE  VerdictsInv'
<1> DEFINE place == Head(todo)
           t     == place[2]
           m     == run.of
           breaks == place \in Acting /\ Plugin!Kind(m) # "harmless"
<1>1. /\ run # Plugin!None /\ run # Plugin!Idle /\ todo # << >> /\ place \in PlacesOfTests /\ t \in Range(Tests)
      /\ Configured /\ ValueTypes
      /\ broken' = IF ~breaks THEN broken
                   ELSE IF place[1] = "load" THEN [broken EXCEPT !.load = @ \cup {t}]
                   ELSE [broken EXCEPT !.now = @ \cup {t}]
      /\ failed' = IF place[1] = "body" /\ t \in Damaged' THEN failed \cup {t} ELSE failed
      /\ todo' = IF run.bail /\ t \in failed' THEN << >> ELSE Tail(todo)
      /\ coverage' = coverage \cup Plugin!Covered(place)
      /\ ns'.over = (ns.over \/ (place \in Acting /\ Plugin!Kind(m) = "runaway"))
      /\ UNCHANGED <<world, run, loaded, grep, staticRun, outcome>>
  BY ExecuteFacts
<1>2. /\ WorldTypes /\ world \in Worlds /\ (world.ignoreStatic => world.analysis = "perTest")
      /\ world.plugin \in Plugins /\ ProcessInv /\ CoverageInv /\ RunInv
  BY <1>1, MutantFacts DEF Configured, WorldTypes
<1>3. run \in MutantRuns /\ m \in Mutated /\ run.activation \in {"static", "runtime"}
  <2>1. run \notin DryRuns
    BY DEF DryRuns
  <2>2. run \in MutantRuns
    BY <1>1, <1>2, <2>1 DEF WorldTypes
  <2> QED BY <2>2 DEF MutantRuns
<1>4. loaded /\ staticRun = (run.activation = "static") /\ Justified(m) /\ Blamed(m) /\ Noticed(m)
  BY <1>2, <1>3 DEF RunInv
<1>5. /\ Acting \subseteq Plugin!Places(m)
      /\ \A p \in Acting : p[1] = "load" /\ ~Reloading => run.activation = "static" \/ world.plugin = "cucumber"
  BY <1>2, ActingFacts DEF ActingIsRight
<1>6. Plugin!Kind(m) \in {"lethal", "harmless", "runaway"}
  BY <1>2, <1>3, MutantFacts
<1>7. todo \in Seq(PlacesOfTests) /\ broken \in [load : SUBSET Range(Tests), now : SUBSET Range(Tests)] /\ ns.over \in BOOLEAN
  BY <1>1 DEF ValueTypes
<1>8. coverage' = coverage
  <2>1. Plugin!Covered(place) = {}
    BY DEF Plugin!Covered
  <2> QED BY <1>1, <2>1
<1>9. CoverageInv' /\ DryRunInv'
  <2>1. CoverageInv'
    BY <1>1, <1>2, <1>8, CoverageStays
  <2>2. run'.of # "dryRun"
    BY <1>1
  <2> QED BY <2>1, <2>2 DEF DryRunInv
<1> HIDE DEF place, t, m
<1>10. Damaged' = Damaged \cup (IF breaks THEN {t} ELSE {}) /\ broken'.load = broken.load \cup (IF breaks /\ place[1] = "load" THEN {t} ELSE {})
  <2>1. CASE ~breaks
    BY <1>1, <2>1 DEF Damaged
  <2>2. CASE breaks /\ place[1] = "load"
    <3>1. broken' = [broken EXCEPT !.load = @ \cup {t}]
      BY <1>1, <2>2
    <3>2. broken'.load = broken.load \cup {t} /\ broken'.now = broken.now
      BY <1>7, <3>1
    <3> QED BY <2>2, <3>2 DEF Damaged
  <2>3. CASE breaks /\ place[1] # "load"
    <3>1. broken' = [broken EXCEPT !.now = @ \cup {t}]
      BY <1>1, <2>3
    <3>2. broken'.load = broken.load /\ broken'.now = broken.now \cup {t}
      BY <1>7, <3>1
    <3> QED BY <2>3, <3>2 DEF Damaged
  <2> QED BY <2>1, <2>2, <2>3
<1>11. ProcessInv'
  <2> SUFFICES ASSUME broken'.load # {} PROVE staticRun \/ Reloading \/ Plugin!MayPoison
    BY <1>1, <1>4, WorldStays DEF ProcessInv
  <2>1. CASE broken.load # {}
    BY <1>2, <2>1 DEF ProcessInv
  <2>2. CASE broken.load = {}
    <3>1. place \in Acting /\ place[1] = "load"
      BY <1>10, <2>2
    <3>2. Reloading \/ staticRun \/ world.plugin = "cucumber"
      BY <1>4, <1>5, <3>1
    <3>3. ASSUME world.plugin = "cucumber", run.activation # "static" PROVE world.ignoreStatic
      <4>1. SUFFICES ASSUME ~world.ignoreStatic PROVE FALSE
        OBVIOUS
      <4>2. Plugin!Reported /\ ~Plugin!HasStatic(m)
        BY <1>4, <3>3, <4>1 DEF Justified
      <4>3. ~Plugin!Misattributed(m)
        BY <1>2, <3>3, PluginFacts DEF Plugin!Misattributed
      <4>4. place[1] = "body" \/ world.plugin = "tap"
        BY <1>1, <1>2, <1>3, <1>5, <3>1, <4>2, <4>3, CoveredFacts DEF m
      <4> QED BY <3>1, <3>3, <4>4
    <3> QED BY <1>4, <3>2, <3>3 DEF Plugin!MayPoison
  <2> QED BY <2>1, <2>2
<1>12. Acting' = Acting
  BY <1>1, ActingStays
<1>13. /\ (Plugin!Reported' <=> Plugin!Reported) /\ (Plugin!MayPoison' <=> Plugin!MayPoison) /\ Mutated' = Mutated
       /\ \A x : Plugin!Places(x)' = Plugin!Places(x)
       /\ \A x : Plugin!Kind(x)' = Plugin!Kind(x)
       /\ \A x : Plugin!Misattributed(x)' <=> Plugin!Misattributed(x)
  BY <1>1, WorldStays
<1>14. RunInv'
  <2> SUFFICES ASSUME NEW x \in Mutated, run.of = x
               PROVE  Justified(x)' /\ Blamed(x)' /\ Noticed(x)'
    BY <1>1, <1>4, <1>13 DEF RunInv
  <2>0. m = x
    BY DEF m
  <2>1. Justified(x)'
    <3>1. (Plugin!HasStatic(x)' <=> Plugin!HasStatic(x)) /\ Plugin!CoveredBy(x)' = Plugin!CoveredBy(x)
      BY <1>8 DEF Plugin!HasStatic, Plugin!CoveredBy, Plugin!TestSet
    <3>2. Justified(x) /\ run' = run /\ world' = world
      BY <1>1, <1>4, <2>0
    <3> QED BY <1>13, <3>1, <3>2 DEF Justified
  <2>2. failed' \subseteq failed \cup Damaged' /\ failed \subseteq failed'
    BY <1>1
  <2>3. Blamed(x)'
    <3>1. Blamed(x) /\ breaks = (place \in Acting /\ Plugin!Kind(x) # "harmless")
      BY <1>4, <2>0
    <3>2. ns'.over <=> ns.over \/ (place \in Acting /\ Plugin!Kind(x) = "runaway")
      BY <1>1, <1>7, <2>0
    <3>3. place \in Acting => Plugin!Places(x) # {}
      BY <1>5, <2>0
    <3>4. ns'.over => Plugin!Kind(x) = "runaway" /\ Plugin!Places(x) # {}
      BY <3>1, <3>2, <3>3 DEF Blamed
    <3>5. ASSUME ~Plugin!MayPoison, Damaged' # {} \/ failed' # {}
          PROVE  Plugin!Kind(x) # "harmless" /\ Plugin!Places(x) # {} /\ (Plugin!Kind(x) = "runaway" => ns'.over)
      <4>1. CASE breaks
        BY <3>1, <3>2, <3>3, <4>1
      <4>2. CASE ~breaks
        <5>1. Damaged # {} \/ failed # {}
          BY <1>10, <2>2, <3>5, <4>2
        <5> QED BY <3>1, <3>2, <3>5, <5>1 DEF Blamed
      <4> QED BY <4>1, <4>2
    <3> QED BY <1>13, <3>4, <3>5 DEF Blamed
  <2>4. Noticed(x)'
    <3> SUFFICES ASSUME ~world.ignoreStatic, ~Plugin!Misattributed(x), Plugin!Places(x) # {}
                 PROVE  /\ Plugin!Kind(x) = "lethal" => failed' # {} \/ Dooms(todo, Acting, Damaged)'
                        /\ Plugin!Kind(x) = "runaway" => ns'.over \/ Strikes(todo, Acting)'
      BY <1>1, <1>13 DEF Noticed
    <3>1. Noticed(x)
      BY <1>4, <2>0
    <3>2. (Dooms(todo, Acting, Damaged)' <=> Dooms(todo', Acting, Damaged')) /\ (Strikes(todo, Acting)' <=> Strikes(todo', Acting))
      BY <1>12 DEF Dooms, Strikes
    <3>3. ASSUME Plugin!Kind(x) = "lethal", failed' = {} PROVE Dooms(todo', Acting, Damaged')
      <4>1. failed = {} /\ Dooms(todo, Acting, Damaged)
        BY <2>2, <3>1, <3>3 DEF Noticed
      <4>2. todo' = Tail(todo)
        BY <1>1, <3>3
      <4>3. Damaged \subseteq Damaged' /\ (place \in Acting => t \in Damaged')
        <5>1. Plugin!Kind(m) # "harmless"
          BY <2>0, <3>3
        <5> QED BY <1>10, <5>1
      <4>4. ~(place[1] = "body" /\ t \in Damaged')
        BY <1>1, <3>3
      <4> DEFINE after == Damaged'
      <4>5. Damaged \subseteq after /\ (place \in Acting => t \in after) /\ ~(place[1] = "body" /\ t \in after)
        BY <4>3, <4>4
      <4> HIDE DEF after
      <4>6. Dooms(Tail(todo), Acting, after)
        BY <1>1, <1>7, <4>1, <4>5, TailDooms DEF place, t
      <4> QED BY <4>2, <4>6 DEF after
    <3>4. ASSUME Plugin!Kind(x) = "runaway", ~ns'.over PROVE Strikes(todo', Acting)
      <4>1. ~ns.over /\ place \notin Acting
        BY <1>1, <1>7, <2>0, <3>4
      <4>2. Strikes(Tail(todo), Acting)
        BY <1>1, <1>7, <3>1, <3>4, <4>1, TailStrikes DEF Noticed, place
      <4>3. failed' = {}
        <5>1. ~Plugin!MayPoison' /\ Blamed(x)' /\ Plugin!Kind(x)' = "runaway"
          BY <1>13, <2>3, <3>4 DEF Plugin!MayPoison
        <5> QED BY <3>4, <5>1 DEF Blamed
      <4>4. todo' = Tail(todo)
        BY <1>1, <4>3
      <4> QED BY <4>2, <4>4
    <3> QED BY <3>2, <3>3, <3>4
  <2> QED BY <2>1, <2>3, <2>4
<1>15. outcome' \in [Mutated -> Outcomes] /\ \A x \in Mutated : <<x, outcome'[x]>> \in RightVerdicts
  BY <1>1, <1>2 DEF WorldTypes, Configured
<1>16. run' # Plugin!None /\ run' \in {Plugin!Idle} \cup DryRuns \cup MutantRuns
  BY <1>1, <1>3
<1> QED BY <1>1, <1>9, <1>11, <1>14, <1>15, <1>16, ExecuteTypes, AfterStep

\* Every step keeps the invariant.
LEMMA VerdictSteps == VerdictsInv /\ Plugin!Next => VerdictsInv'
<1> SUFFICES ASSUME VerdictsInv, Plugin!Next PROVE VerdictsInv'
  OBVIOUS
<1>1. CASE Plugin!Configure
  BY <1>1, ConfigureStep
<1>2. CASE Plugin!DryRun
  BY <1>2, DryRunStep
<1>3. CASE Plugin!NewProcess
  BY <1>3, NewProcessStep
<1>4. CASE Plugin!Execute
  BY <1>4, ExecuteDryRun, ExecuteMutant
<1>5. CASE Plugin!Finish
  BY <1>5, FinishStep
<1>6. CASE Plugin!TimerFires
  BY <1>6, TimerFiresEarly
<1>7. CASE \E m \in DOMAIN outcome : Plugin!EarlyResult(m) \/ \E bail \in BOOLEAN : Plugin!MutantRun(m, bail)
  BY <1>7, EarlyResultStep, MutantRunStep
<1> QED BY <1>1, <1>2, <1>3, <1>4, <1>5, <1>6, <1>7 DEF Plugin!Next

\* What none of its variables changes, stays.
LEMMA StutterVerdicts == VerdictsInv /\ UNCHANGED Plugin!pluginVars => VerdictsInv'
<1> SUFFICES ASSUME VerdictsInv, UNCHANGED Plugin!pluginVars PROVE VerdictsInv'
  OBVIOUS
<1>1. /\ world' = world /\ run' = run /\ todo' = todo /\ ns' = ns /\ loaded' = loaded /\ grep' = grep
      /\ broken' = broken /\ failed' = failed /\ coverage' = coverage /\ staticRun' = staticRun /\ outcome' = outcome
  BY DEF Plugin!pluginVars
<1>2. ValueTypes' /\ (NothingYet' <=> NothingYet) /\ (Unconfigured' <=> Unconfigured)
  BY <1>1 DEF VerdictsInv, Unconfigured, NothingYet, ValueTypes, PlacesOfTests, Plugin!None, Plugin!NoNamespace,
              Plugin!NotBroken
<1>3. CASE Unconfigured
  BY <1>2, <1>3 DEF VerdictsInv
<1>4. CASE Configured
  <2>1. /\ Mutated' = Mutated /\ Reloading' = Reloading /\ Plugin!Tracking' = Plugin!Tracking
        /\ (Plugin!Reported' <=> Plugin!Reported) /\ (Plugin!MayPoison' <=> Plugin!MayPoison)
        /\ \A m : Plugin!Places(m)' = Plugin!Places(m)
        /\ \A m : Plugin!Kind(m)' = Plugin!Kind(m)
        /\ \A m : Plugin!Misattributed(m)' <=> Plugin!Misattributed(m)
        /\ \A p : Expected(p)' = Expected(p)
    BY <1>1, WorldStays
  <2>2. /\ Worlds' = Worlds /\ Outcomes' = Outcomes /\ Plugin!None' = Plugin!None /\ Plugin!Idle' = Plugin!Idle
        /\ DryRuns' = DryRuns /\ MutantRuns' = MutantRuns /\ Suites' = Suites /\ Plugin!NotBroken' = Plugin!NotBroken
    BY <2>1 DEF Worlds, Outcomes, Plugin!None, Plugin!Idle, DryRuns, MutantRuns, Suites, Plugin!NotBroken
  <2>3. WorldTypes' /\ (run' = Plugin!None => NothingYet')
    BY <1>1, <1>2, <1>4, <2>1, <2>2 DEF Configured, WorldTypes
  <2>4. ProcessInv'
    BY <1>1, <1>4, <2>1 DEF Configured, ProcessInv
  <2>5. CoverageInv'
    <3>1. Range(todo)' = Range(todo)
      BY <1>1 DEF Range
    <3> QED BY <1>1, <1>4, <2>1, <2>2, <3>1 DEF Configured, CoverageInv
  <2>6. DryRunInv'
    <3>1. (LoadsFirst(todo)' <=> LoadsFirst(todo)) /\ (NoLoads(todo)' <=> NoLoads(todo))
      BY <1>1 DEF LoadsFirst, NoLoads
    <3> QED BY <1>1, <1>4, <2>1, <2>2, <3>1 DEF Configured, DryRunInv
  <2>7. RunInv'
    <3> SUFFICES ASSUME NEW m \in Mutated, run.of = m
                 PROVE  loaded /\ staticRun = (run.activation = "static") /\ Justified(m)' /\ Blamed(m)' /\ Noticed(m)'
      BY <1>1, <2>1 DEF RunInv
    <3>1. loaded /\ staticRun = (run.activation = "static") /\ Justified(m) /\ Blamed(m) /\ Noticed(m)
      BY <1>4 DEF Configured, RunInv
    <3>2. /\ Acting' = Acting /\ Damaged' = Damaged
          /\ (Plugin!HasStatic(m)' <=> Plugin!HasStatic(m)) /\ Plugin!CoveredBy(m)' = Plugin!CoveredBy(m)
      BY <1>1, ActingStays DEF Damaged, Plugin!HasStatic, Plugin!CoveredBy, Plugin!TestSet
    <3>3. (Dooms(todo, Acting, Damaged)' <=> Dooms(todo, Acting, Damaged)) /\ (Strikes(todo, Acting)' <=> Strikes(todo, Acting))
      BY <1>1, <3>2 DEF Dooms, Strikes
    <3>4. Justified(m)'
      BY <1>1, <2>1, <3>1, <3>2 DEF Justified
    <3>5. Blamed(m)'
      BY <1>1, <2>1, <3>1, <3>2 DEF Blamed
    <3>6. Noticed(m)'
      BY <1>1, <2>1, <3>1, <3>3 DEF Noticed
    <3> QED BY <3>1, <3>4, <3>5, <3>6
  <2>8. \A m \in Mutated' : <<m, outcome'[m]>> \in RightVerdicts'
    <3>1. RightVerdicts' = RightVerdicts
      BY <1>1, RightVerdictsStay
    <3> QED BY <1>1, <1>4, <2>1, <3>1 DEF Configured
  <2> QED BY <1>2, <2>3, <2>4, <2>5, <2>6, <2>7, <2>8 DEF VerdictsInv, Configured
<1> QED BY <1>3, <1>4 DEF VerdictsInv

LEMMA DeservedByInvariant == VerdictsInv => VerdictsAreDeserved
<1> SUFFICES ASSUME VerdictsInv PROVE Plugin!EveryVerdictIsDeserved /\ Plugin!NoFalseKills
  BY DEF VerdictsAreDeserved
<1>1. CASE Unconfigured
  <2>1. DOMAIN outcome = {}
    BY <1>1 DEF Unconfigured
  <2> QED BY <2>1 DEF Plugin!EveryVerdictIsDeserved, Plugin!NoFalseKills
<1>2. CASE Configured
  <2>1. DOMAIN outcome = Mutated
    BY <1>2 DEF Configured, WorldTypes
  <2>2. \A m \in Mutated : Right(m, outcome[m])
    BY <1>2 DEF Configured, RightVerdicts
  <2>3. Plugin!EveryVerdictIsDeserved
    BY <2>1, <2>2 DEF Plugin!EveryVerdictIsDeserved, Right
  <2>4. Plugin!NoFalseKills
    BY <2>1, <2>2, TestsAreListed DEF Plugin!NoFalseKills, Right, Plugin!Body
  <2> QED BY <2>3, <2>4
<1> QED BY <1>1, <1>2 DEF VerdictsInv

-----------------------------------------------------------------------------
(* Together *)

\* A step of MCPlugins is one of each component, or none of it.
LEMMA PluginSteps ==
  [Next]_vars => /\ [Command!Next]_(Command!commandVars) /\ [Karma!Next]_(Karma!vars)
                 /\ [Plugin!Next]_(Plugin!pluginVars)
BY DEF Next, vars, PluginStep, CommandStep, CheckerStep, KarmaStep, SetupStep, ConfigStep,
   commandVars, karmaVars, pluginVars, Command!commandVars, Karma!vars, Plugin!pluginVars

\* CommandTestRunner with its decorators: what `timeoutHandler', the process
\* that is being killed and the run that the pool awaits say of each other,
\* whatever ends, is killed, cannot be killed or is tried again.
THEOREM PluginsCommandInvariant == Spec => []CommandInv
<1>1. Init => CommandInv
  BY InitCommand DEF Init
<1>2. CommandInv /\ [Next]_vars => CommandInv'
  BY PluginSteps, CommandSteps, PluginsAssumption
<1> QED BY <1>1, <1>2, PTL DEF Spec

\* StrykerReporter between karma and its caller: which run the task is of and
\* what the reporter, the hooks and the page know of that run, in every phase
\* of it, as long as no browser is lost between two runs.
THEOREM PluginsKarmaInvariant == Spec => []KarmaInv
<1>1. Init => KarmaInv
  BY InitKarma DEF Init, KarmaInv
<1>2. KarmaInv /\ [Next]_vars => KarmaInv'
  BY PluginSteps, KarmaSteps
<1> QED BY <1>1, <1>2, PTL DEF Spec

\* CommandTestRunner under RetryRejectedDecorator and TimeoutDecorator: a
\* verdict is the exit code of the last process that was started for its
\* mutant, and the timeout of an open run finds its process.  KarmaRunner: a
\* run is answered with what happened in it, and a page executes the mutant of
\* its run, unless a browser is lost between two runs; to dispose the runner
\* while it starts is no premature exit of karma.
THEOREM PluginsRunsAreSeparate == Spec => RunsAreSeparate
<1>1. CommandInv => (part = "command" => Command!OwnVerdict /\ Command!TimeoutReachesTheProcess)
  BY CommandIsRight
<1>2. KarmaInv => (part = "karma" => Karma!RightUntilIdleLoss /\ Karma!PageIsOfTheRun)
  BY KarmaIsRight
<1>3. [Next]_vars => [disposal # "no" /\ init # "exited prematurely" => init' # "exited prematurely"]_(Karma!vars)
  <2>1. ASSUME Karma!Next PROVE disposal # "no" /\ init # "exited prematurely" => init' # "exited prematurely"
    BY <2>1 DEF Karma!Next, Karma!StartInit, Karma!CreateServer, Karma!Started, Karma!Capture, Karma!BrowserFails,
       Karma!Exit, Karma!EndInit, Karma!DryRun, Karma!MutantRun, Karma!Execute, Karma!Complete, Karma!Disconnect,
       Karma!CompleteWithoutBrowser, Karma!DisconnectIdle, Karma!Recapture, Karma!Dispose, Karma!EndDispose
  <2> QED BY <2>1, PluginSteps
<1>4. Spec => [](part = "command" => Command!OwnVerdict /\ Command!TimeoutReachesTheProcess)
  BY <1>1, PluginsCommandInvariant, PTL
<1>5. Spec => [](part = "karma" => Karma!RightUntilIdleLoss /\ Karma!PageIsOfTheRun)
  BY <1>2, PluginsKarmaInvariant, PTL
<1>6. Spec => Karma!DisposalIsNoCrash
  BY <1>3, PTL DEF Spec, Karma!DisposalIsNoCrash
<1> QED BY <1>4, <1>5, <1>6 DEF RunsAreSeparate

\* Whatever has run before in its process, every mutant gets the verdict
\* that it deserves, and none is killed or ignored that should not be: for
\* any tests, any mutants at any of their places, and each of the plugins.
THEOREM PluginsVerdictsAreDeserved == Spec => []VerdictsAreDeserved
<1>1. Init => VerdictsInv
  BY InitVerdicts DEF Init
<1>2. VerdictsInv /\ [Plugin!Next]_(Plugin!pluginVars) => VerdictsInv'
  BY VerdictSteps, StutterVerdicts
<1> QED BY <1>1, <1>2, PluginSteps, DeservedByInvariant, PTL DEF Spec
=============================================================================
