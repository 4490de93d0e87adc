--------------------- MODULE MutationTestExecutorProofs ---------------------
(***************************************************************************)
(* Proofs about MutationTestExecutor, for any mutants, any number of       *)
(* checkers, any concurrency and under all faults.                         *)
(***************************************************************************)
EXTENDS MutationTestExecutor, FiniteSetTheorems, SequenceTheorems, TLAPS

-----------------------------------------------------------------------------
(* Sequences and sets *)

\* Every element of t is one of s, no two of them the same one.
Among(t, s) ==
    \E f \in [1..Len(t) -> 1..Len(s)] :
        /\ \A i \in 1..Len(t) : t[i] = s[f[i]]
        /\ \A i, j \in 1..Len(t) : f[i] = f[j] => i = j

\* What is left of the jobs when one has ended; no other job is lost.
LEMMA RemoveAtFacts ==
    ASSUME NEW S, NEW s \in Seq(S), NEW i \in 1..Len(s)
    PROVE  /\ RemoveAt(s, i) \in Seq(S)
           /\ Len(RemoveAt(s, i)) = Len(s) - 1
           /\ \A j \in 1..(Len(s) - 1) : RemoveAt(s, i)[j] = IF j < i THEN s[j] ELSE s[j + 1]
<1> DEFINE a == SubSeq(s, 1, i - 1)
           b == SubSeq(s, i + 1, Len(s))
<1>1. Len(s) \in Nat /\ i \in Nat
  OBVIOUS
<1>2. /\ a \in Seq(S) /\ Len(a) = i - 1
      /\ \A j \in 1..(i - 1) : a[j] = s[j]
  <2>1. \A j \in 1..(i - 1) : s[j] \in S
    BY <1>1
  <2> HIDE DEF a
  <2>2. /\ a \in Seq(S) /\ Len(a) = IF 1 <= i - 1 THEN (i - 1) - 1 + 1 ELSE 0
        /\ \A j \in 1..((i - 1) - 1 + 1) : a[j] = s[1 + j - 1]
    BY <1>1, <2>1, SubSeqProperties DEF a
  <2> QED BY <1>1, <2>2
<1>3. /\ b \in Seq(S) /\ Len(b) = Len(s) - i
      /\ \A j \in 1..(Len(s) - i) : b[j] = s[i + j]
  <2>1. \A j \in (i + 1)..Len(s) : s[j] \in S
    BY <1>1
  <2> HIDE DEF b
  <2>2. /\ b \in Seq(S) /\ Len(b) = IF i + 1 <= Len(s) THEN Len(s) - (i + 1) + 1 ELSE 0
        /\ \A j \in 1..(Len(s) - (i + 1) + 1) : b[j] = s[i + 1 + j - 1]
    BY <1>1, <2>1, SubSeqProperties DEF b
  <2> QED BY <1>1, <2>2
<1>4. RemoveAt(s, i) = a \o b
  BY DEF RemoveAt
<1> HIDE DEF a, b
<1>5. /\ a \o b \in Seq(S) /\ Len(a \o b) = Len(a) + Len(b)
      /\ \A j \in 1..(Len(a) + Len(b)) : (a \o b)[j] = IF j <= Len(a) THEN a[j] ELSE b[j - Len(a)]
  BY <1>2, <1>3, ConcatProperties
<1>6. ASSUME NEW j \in 1..(Len(s) - 1)
      PROVE  RemoveAt(s, i)[j] = IF j < i THEN s[j] ELSE s[j + 1]
  <2>1. CASE j < i
    BY <1>1, <1>2, <1>3, <1>4, <1>5, <2>1
  <2>2. CASE ~(j < i)
    <3>1. j - Len(a) \in 1..(Len(s) - i) /\ i + (j - Len(a)) = j + 1
      BY <1>1, <1>2, <2>2
    <3>2. j \in 1..(Len(a) + Len(b)) /\ ~(j <= Len(a))
      BY <1>1, <1>2, <1>3, <2>2
    <3>3. (a \o b)[j] = b[j - Len(a)]
      BY <1>5, <3>2
    <3>4. b[j - Len(a)] = s[i + (j - Len(a))]
      BY <1>3, <3>1
    <3> QED BY <1>4, <2>2, <3>1, <3>3, <3>4
  <2> QED BY <2>1, <2>2
<1> QED BY <1>1, <1>2, <1>3, <1>4, <1>5, <1>6

LEMMA RemoveAtAmong ==
    ASSUME NEW S, NEW s \in Seq(S), NEW i \in 1..Len(s)
    PROVE  /\ Among(RemoveAt(s, i), s)
           /\ \A j \in 1..Len(s) : j # i => \E h \in 1..Len(RemoveAt(s, i)) : RemoveAt(s, i)[h] = s[j]
           /\ \A j \in 1..Len(RemoveAt(s, i)) : \E h \in 1..Len(s) : h # i /\ RemoveAt(s, i)[j] = s[h]
<1> DEFINE t == RemoveAt(s, i)
           f == [j \in 1..Len(t) |-> IF j < i THEN j ELSE j + 1]
<1>1. Len(s) \in Nat /\ i \in Nat /\ Len(t) = Len(s) - 1
      /\ \A j \in 1..(Len(s) - 1) : t[j] = IF j < i THEN s[j] ELSE s[j + 1]
  BY RemoveAtFacts
<1> HIDE DEF t
<1>2. f \in [1..Len(t) -> 1..Len(s)] /\ \A j \in 1..Len(t) : f[j] # i /\ t[j] = s[f[j]]
  BY <1>1
<1>3. \A j, h \in 1..Len(t) : f[j] = f[h] => j = h
  BY <1>1
<1>4. Among(t, s)
  BY <1>2, <1>3 DEF Among
<1>5. ASSUME NEW j \in 1..Len(s), j # i
      PROVE  \E h \in 1..Len(t) : t[h] = s[j]
  <2>1. CASE j < i
    BY <1>1, <2>1
  <2>2. CASE ~(j < i)
    <3>1. j - 1 \in 1..Len(t) /\ ~(j - 1 < i) /\ (j - 1) + 1 = j
      BY <1>1, <1>5, <2>2
    <3>2. t[j - 1] = s[j]
      BY <1>1, <3>1
    <3> QED BY <3>1, <3>2
  <2> QED BY <2>1, <2>2
<1> QED BY <1>2, <1>4, <1>5 DEF t

LEMMA PrefixAmong ==
    ASSUME NEW S, NEW s \in Seq(S), NEW n \in 0..Len(s)
    PROVE  /\ SubSeq(s, 1, n) \in Seq(S) /\ Len(SubSeq(s, 1, n)) = n
           /\ Among(SubSeq(s, 1, n), s)
<1> DEFINE t == SubSeq(s, 1, n)
           f == [j \in 1..n |-> j]
<1>1. \A j \in 1..n : s[j] \in S
  OBVIOUS
<1>2. /\ t \in Seq(S) /\ Len(t) = IF 1 <= n THEN n - 1 + 1 ELSE 0
      /\ \A j \in 1..(n - 1 + 1) : t[j] = s[1 + j - 1]
  BY <1>1, SubSeqProperties
<1> HIDE DEF t
<1>3. Len(t) = n /\ \A j \in 1..n : t[j] = s[j]
  BY <1>2
<1>4. f \in [1..Len(t) -> 1..Len(s)] /\ \A j \in 1..Len(t) : f[j] = j
  BY <1>3
<1> HIDE DEF f
<1>5. Among(t, s)
  BY <1>3, <1>4 DEF Among
<1> QED BY <1>2, <1>3, <1>5 DEF t

LEMMA EmptyAmong == ASSUME NEW S, NEW s \in Seq(S) PROVE Among(<< >>, s)
<1> DEFINE f == [j \in 1..0 |-> j]
<1>1. f \in [1..Len(<< >>) -> 1..Len(s)]
  OBVIOUS
<1>2. \A i \in 1..Len(<< >>) : FALSE
  OBVIOUS
<1> HIDE DEF f
<1> QED BY <1>1, <1>2 DEF Among

LEMMA SeqFacts ==
    ASSUME NEW S, NEW n \in Nat, NEW s \in [1..n -> S]
    PROVE  s \in Seq(S) /\ Len(s) = n
OBVIOUS

LEMMA ConcatFacts ==
    ASSUME NEW S, NEW s \in Seq(S), NEW t \in Seq(S), NEW u, u = s \o t
    PROVE  /\ u \in Seq(S)
           /\ \A i \in 1..Len(u) : \/ i \in 1..Len(s) /\ u[i] = s[i]
                                   \/ /\ i \notin 1..Len(s) /\ i - Len(s) \in 1..Len(t)
                                      /\ u[i] = t[i - Len(s)]
           /\ \A i \in 1..Len(s) : i \in 1..Len(u) /\ u[i] = s[i]
           /\ \A i \in 1..Len(t) : i + Len(s) \in 1..Len(u) /\ u[i + Len(s)] = t[i]
<1>1. /\ u \in Seq(S) /\ Len(u) = Len(s) + Len(t) /\ Len(s) \in Nat /\ Len(t) \in Nat
      /\ \A i \in 1..(Len(s) + Len(t)) : u[i] = IF i <= Len(s) THEN s[i] ELSE t[i - Len(s)]
  BY ConcatProperties, LenProperties
<1> QED BY <1>1

\* The sequences that take every element of a set once.
LEMMA PermutationFacts ==
    ASSUME NEW S, IsFiniteSet(S), NEW s \in SetToSeqs(S)
    PROVE  /\ s \in Seq(S)
           /\ \A i, j \in 1..Len(s) : s[i] = s[j] => i = j
           /\ \A x \in S : \E i \in 1..Len(s) : s[i] = x
<1> DEFINE n == Cardinality(S)
<1>1. n \in Nat /\ Cardinality(1..n) = n /\ IsFiniteSet(1..n)
  <2>1. n \in Nat
    BY FS_CardinalityType
  <2> HIDE DEF n
  <2>2. Cardinality(1..n) = (IF 1 > n THEN 0 ELSE n - 1 + 1) /\ IsFiniteSet(1..n)
    BY <2>1, FS_Interval
  <2> QED BY <2>1, <2>2
<1>2. s \in [1..n -> S] /\ \A i, j \in 1..n : i # j => s[i] # s[j]
  BY DEF SetToSeqs
<1>3. s \in Injection(1..n, S)
  BY <1>2 DEF Injection, IsInjective
<1>4. s \in Surjection(1..n, S)
  BY <1>1, <1>3, FS_Injection
<1>5. \A x \in S : \E i \in 1..n : s[i] = x
  BY <1>4 DEF Surjection
<1> HIDE DEF n
<1>6. s \in Seq(S) /\ Len(s) = n
  BY <1>1, <1>2, SeqFacts
<1> QED BY <1>2, <1>5, <1>6

LEMMA MinFacts ==
    ASSUME NEW a \in Nat, NEW b \in Nat
    PROVE  Min({a, b}) = IF a <= b THEN a ELSE b
<1> DEFINE m == IF a <= b THEN a ELSE b
<1>1. m \in {a, b} /\ \A y \in {a, b} : m =< y
  OBVIOUS
<1>2. \A x \in {a, b} : (\A y \in {a, b} : x =< y) => x = m
  OBVIOUS
<1> HIDE DEF m
<1>3. Min({a, b}) = m
  BY <1>1, <1>2 DEF Min
<1> QED BY <1>3 DEF m

LEMMA MaxFacts ==
    ASSUME NEW a \in Nat, NEW b \in Nat
    PROVE  Max({a, b}) = IF a >= b THEN a ELSE b
<1> DEFINE m == IF a >= b THEN a ELSE b
<1>1. m \in {a, b} /\ \A y \in {a, b} : m >= y
  OBVIOUS
<1>2. \A x \in {a, b} : (\A y \in {a, b} : x >= y) => x = m
  OBVIOUS
<1> HIDE DEF m
<1>3. Max({a, b}) = m
  BY <1>1, <1>2 DEF Max
<1> QED BY <1>3 DEF m

-----------------------------------------------------------------------------
(* What the streams do to the places of the mutants *)

\* A place that loses jobs or runs leaves every other mutant where it was.
LEMMA FewerPlaces ==
    ASSUME NEW buf, NEW queue, NEW q2, NEW rbuf, NEW rqueue, NEW r2, NEW psd,
           InOrder(buf, queue, rbuf, rqueue, psd), OnePlace(buf, queue, rbuf, rqueue),
           Among(q2, queue), Among(r2, rqueue)
    PROVE  /\ InOrder(buf, q2, rbuf, r2, psd) /\ OnePlace(buf, q2, rbuf, r2)
           /\ \A m : Waits(m, buf, q2, rbuf, r2) => Waits(m, buf, queue, rbuf, rqueue)
<1>1. PICK f \in [1..Len(q2) -> 1..Len(queue)] :
        /\ \A i \in 1..Len(q2) : q2[i] = queue[f[i]]
        /\ \A i, j \in 1..Len(q2) : f[i] = f[j] => i = j
  BY DEF Among
<1>2. PICK g \in [1..Len(r2) -> 1..Len(rqueue)] :
        /\ \A i \in 1..Len(r2) : r2[i] = rqueue[g[i]]
        /\ \A i, j \in 1..Len(r2) : g[i] = g[j] => i = j
  BY DEF Among
<1>3. \A i \in 1..Len(q2) : f[i] \in 1..Len(queue)
  BY <1>1
<1>4. \A i \in 1..Len(r2) : g[i] \in 1..Len(rqueue)
  BY <1>2
<1>5. InOrder(buf, q2, rbuf, r2, psd)
  <2>1. \A i \in 1..Len(q2) : \A m \in q2[i].group : psd[m] = q2[i].stage - 1
    BY <1>1, <1>3 DEF InOrder
  <2>2. \A i \in 1..Len(r2) : psd[r2[i]] = numCheckers
    BY <1>2, <1>4 DEF InOrder
  <2> QED BY <2>1, <2>2 DEF InOrder
<1>6. OnePlace(buf, q2, rbuf, r2)
  <2>1. \A i, j \in 1..Len(q2) : \A m \in q2[i].group : m \in q2[j].group => i = j
    BY <1>1, <1>3 DEF OnePlace
  <2>2. \A i, j \in 1..Len(r2) : r2[i] = r2[j] => i = j
    BY <1>2, <1>4 DEF OnePlace
  <2>3. \A i \in 1..Len(q2) : \A m \in q2[i].group : m \notin buf[q2[i].stage]
    BY <1>1, <1>3 DEF OnePlace
  <2>4. \A i \in 1..Len(r2) : r2[i] \notin rbuf
    BY <1>2, <1>4 DEF OnePlace
  <2> QED BY <2>1, <2>2, <2>3, <2>4 DEF OnePlace
<1>7. ASSUME NEW m, Waits(m, buf, q2, rbuf, r2)
      PROVE  Waits(m, buf, queue, rbuf, rqueue)
  <2>1. (\E i \in 1..Len(q2) : m \in q2[i].group) => \E i \in 1..Len(queue) : m \in queue[i].group
    BY <1>1, <1>3
  <2>2. (\E i \in 1..Len(r2) : r2[i] = m) => \E i \in 1..Len(rqueue) : rqueue[i] = m
    BY <1>2, <1>4
  <2> QED BY <1>7, <2>1, <2>2 DEF Waits
<1> QED BY <1>5, <1>6, <1>7

LEMMA AmongItself == ASSUME NEW s PROVE Among(s, s)
<1> DEFINE f == [i \in 1..Len(s) |-> i]
<1>1. f \in [1..Len(s) -> 1..Len(s)] /\ \A i \in 1..Len(s) : f[i] = i
  OBVIOUS
<1> HIDE DEF f
<1> QED BY <1>1 DEF Among

LEMMA JobFacts ==
    ASSUME NEW queue \in Seq(Jobs), NEW i \in 1..Len(queue)
    PROVE  queue[i] \in Jobs /\ queue[i].stage \in Stages /\ queue[i].group \in SUBSET Mutants
<1>1. queue[i] \in Jobs
  BY ElementOfSeq
<1> QED BY <1>1 DEF Jobs

\* Mutants that passed the checkers before stage k and are in no place yet.
MayJoin(k, plans, buf, queue, rbuf, rqueue, psd) ==
    /\ numCheckers \in Nat /\ k \in 1..(numCheckers + 1) /\ plans \in SUBSET Mutants
    /\ buf \in [Stages -> SUBSET Mutants] /\ queue \in Seq(Jobs)
    /\ rbuf \in SUBSET Mutants /\ rqueue \in Seq(Mutants)
    /\ InOrder(buf, queue, rbuf, rqueue, psd) /\ OnePlace(buf, queue, rbuf, rqueue)
    /\ \A m \in plans : psd[m] = k - 1 /\ ~Waits(m, buf, queue, rbuf, rqueue)

\* The buffer of a stage gets plans; a job is made of a buffer and plans.
Buffered(b2, buf, k, plans) == b2 = [buf EXCEPT ![k] = buf[k] \cup plans]
MadeJob(b2, q2, buf, queue, k, plans) ==
    b2 = [buf EXCEPT ![k] = {}] /\ q2 = Append(queue, GroupJob(k, buf[k] \cup plans))

\* What a stage emits waits in the buffer of the next checker.
LEMMA IntoBuffer ==
    ASSUME NEW k \in Stages, NEW plans, NEW buf, NEW queue, NEW rbuf, NEW rqueue, NEW psd,
           MayJoin(k, plans, buf, queue, rbuf, rqueue, psd),
           NEW b2, Buffered(b2, buf, k, plans)
    PROVE  /\ b2 \in [Stages -> SUBSET Mutants]
           /\ InOrder(b2, queue, rbuf, rqueue, psd) /\ OnePlace(b2, queue, rbuf, rqueue)
           /\ \A m : Waits(m, b2, queue, rbuf, rqueue) <=>
                       Waits(m, buf, queue, rbuf, rqueue) \/ m \in plans
<1>0. /\ numCheckers \in Nat /\ plans \in SUBSET Mutants
      /\ buf \in [Stages -> SUBSET Mutants] /\ queue \in Seq(Jobs)
      /\ InOrder(buf, queue, rbuf, rqueue, psd) /\ OnePlace(buf, queue, rbuf, rqueue)
      /\ \A m \in plans : psd[m] = k - 1 /\ ~Waits(m, buf, queue, rbuf, rqueue)
  BY DEF MayJoin
<1> USE <1>0
<1>1. /\ b2 \in [Stages -> SUBSET Mutants]
      /\ b2[k] = buf[k] \cup plans /\ \A s \in Stages : s # k => b2[s] = buf[s]
  BY DEF Buffered
<1>2. InOrder(b2, queue, rbuf, rqueue, psd)
  <2>1. \A s \in Stages : \A m \in b2[s] : psd[m] = s - 1
    BY <1>1 DEF InOrder
  <2> QED BY <2>1 DEF InOrder
<1>3. OnePlace(b2, queue, rbuf, rqueue)
  <2>1. ASSUME NEW i \in 1..Len(queue), NEW m \in queue[i].group
        PROVE  m \notin b2[queue[i].stage]
    <3>1. queue[i].stage \in Stages
      BY JobFacts
    <3>2. Waits(m, buf, queue, rbuf, rqueue) /\ m \notin buf[queue[i].stage]
      BY DEF Waits, OnePlace
    <3> QED BY <1>1, <3>1, <3>2
  <2> QED BY <2>1 DEF OnePlace
<1>4. ASSUME NEW m
      PROVE  Waits(m, b2, queue, rbuf, rqueue) <=>
                       Waits(m, buf, queue, rbuf, rqueue) \/ m \in plans
  <2>1. (\E s \in Stages : m \in b2[s]) <=> (\E s \in Stages : m \in buf[s]) \/ m \in plans
    BY <1>1
  <2> QED BY <2>1 DEF Waits
<1> QED BY <1>1, <1>2, <1>3, <1>4

\* A buffer, with what has just reached it, becomes a job.
LEMMA IntoJob ==
    ASSUME NEW k \in Stages, NEW plans, NEW buf, NEW queue, NEW rbuf, NEW rqueue, NEW psd,
           MayJoin(k, plans, buf, queue, rbuf, rqueue, psd),
           NEW b2, NEW q2, MadeJob(b2, q2, buf, queue, k, plans)
    PROVE  /\ b2 \in [Stages -> SUBSET Mutants] /\ q2 \in Seq(Jobs)
           /\ InOrder(b2, q2, rbuf, rqueue, psd) /\ OnePlace(b2, q2, rbuf, rqueue)
           /\ \A m : Waits(m, b2, q2, rbuf, rqueue) <=>
                       Waits(m, buf, queue, rbuf, rqueue) \/ m \in plans
           /\ Len(q2) = Len(queue) + 1 /\ q2[Len(q2)].stage = k
           /\ \A i \in 1..Len(queue) : q2[i] = queue[i]
<1>0. /\ numCheckers \in Nat /\ plans \in SUBSET Mutants
      /\ buf \in [Stages -> SUBSET Mutants] /\ queue \in Seq(Jobs)
      /\ InOrder(buf, queue, rbuf, rqueue, psd) /\ OnePlace(buf, queue, rbuf, rqueue)
      /\ \A m \in plans : psd[m] = k - 1 /\ ~Waits(m, buf, queue, rbuf, rqueue)
  BY DEF MayJoin
<1> USE <1>0
<1> DEFINE job == GroupJob(k, buf[k] \cup plans)
<1>1. /\ b2 \in [Stages -> SUBSET Mutants]
      /\ b2[k] = {} /\ \A s \in Stages : s # k => b2[s] = buf[s]
  BY DEF MadeJob
<1>2. job \in Jobs /\ job.stage = k /\ job.group = buf[k] \cup plans
  BY DEF GroupJob, Jobs
<1> HIDE DEF job
<1>3. /\ q2 \in Seq(Jobs) /\ Len(q2) = Len(queue) + 1 /\ Len(queue) \in Nat
      /\ q2[Len(q2)] = job /\ \A i \in 1..Len(queue) : q2[i] = queue[i]
  BY <1>2, AppendProperties DEF job, MadeJob
<1>4. \A i \in 1..Len(q2) : i \in 1..Len(queue) \/ i = Len(q2)
  BY <1>3
<1>5. \A i \in 1..Len(queue) : queue[i].stage \in Stages
  BY JobFacts
<1>6. \A m \in job.group : psd[m] = k - 1
  BY <1>2 DEF InOrder
<1>7. InOrder(b2, q2, rbuf, rqueue, psd)
  <2>1. \A s \in Stages : \A m \in b2[s] : psd[m] = s - 1
    BY <1>1 DEF InOrder
  <2>2. \A i \in 1..Len(q2) : \A m \in q2[i].group : psd[m] = q2[i].stage - 1
    BY <1>2, <1>3, <1>4, <1>6 DEF InOrder
  <2> QED BY <2>1, <2>2 DEF InOrder
<1>8. ASSUME NEW i \in 1..Len(queue), NEW m \in queue[i].group
      PROVE  m \notin job.group
  <2>1. Waits(m, buf, queue, rbuf, rqueue) /\ m \notin buf[queue[i].stage]
        /\ psd[m] = queue[i].stage - 1
    BY DEF Waits, OnePlace, InOrder
  <2>2. ASSUME m \in buf[k] PROVE FALSE
    <3>1. psd[m] = k - 1
      BY <2>2 DEF InOrder
    <3>2. queue[i].stage = k
      BY <1>5, <2>1, <3>1 DEF Stages
    <3> QED BY <2>1, <2>2, <3>2
  <2> QED BY <1>2, <2>1, <2>2
<1>9. OnePlace(b2, q2, rbuf, rqueue)
  <2>1. \A i, j \in 1..Len(q2) : \A m \in q2[i].group : m \in q2[j].group => i = j
    BY <1>3, <1>4, <1>8 DEF OnePlace
  <2>2. \A i \in 1..Len(q2) : \A m \in q2[i].group : m \notin b2[q2[i].stage]
    <3>1. ASSUME NEW i \in 1..Len(queue), NEW m \in q2[i].group PROVE m \notin b2[q2[i].stage]
      <4>1. m \notin buf[queue[i].stage] /\ q2[i] = queue[i] /\ queue[i].stage \in Stages
        BY <1>3, <1>5, <3>1 DEF OnePlace
      <4> QED BY <1>1, <4>1
    <3>2. b2[q2[Len(q2)].stage] = {}
      BY <1>1, <1>2, <1>3
    <3> QED BY <1>4, <3>1, <3>2
  <2> QED BY <2>1, <2>2 DEF OnePlace
<1>10. ASSUME NEW m
       PROVE  Waits(m, b2, q2, rbuf, rqueue) <=>
                       Waits(m, buf, queue, rbuf, rqueue) \/ m \in plans
  <2>1. (\E i \in 1..Len(q2) : m \in q2[i].group) <=>
          (\E i \in 1..Len(queue) : m \in queue[i].group) \/ m \in buf[k] \/ m \in plans
    BY <1>2, <1>3, <1>4
  <2>2. (\E s \in Stages : m \in b2[s]) \/ m \in buf[k] <=> (\E s \in Stages : m \in buf[s])
    BY <1>1
  <2> QED BY <2>1, <2>2 DEF Waits
<1> QED BY <1>1, <1>2, <1>3, <1>7, <1>9, <1>10

Queued(r2, rqueue, s, plans) == s \in SetToSeqs(plans) /\ r2 = rqueue \o s

\* The plans that reach the test runners are queued in any order.
LEMMA IntoRuns ==
    ASSUME NEW plans, NEW buf, NEW queue, NEW rbuf, NEW rqueue, NEW psd, NEW s, NEW r2,
           MayJoin(numCheckers + 1, plans, buf, queue, rbuf, rqueue, psd),
           Queued(r2, rqueue, s, rbuf \cup plans)
    PROVE  /\ r2 \in Seq(Mutants)
           /\ InOrder(buf, queue, {}, r2, psd) /\ OnePlace(buf, queue, {}, r2)
           /\ \A m : Waits(m, buf, queue, {}, r2) <=>
                       Waits(m, buf, queue, rbuf, rqueue) \/ m \in plans
<1>0. /\ plans \in SUBSET Mutants /\ rbuf \in SUBSET Mutants /\ rqueue \in Seq(Mutants)
      /\ s \in SetToSeqs(rbuf \cup plans) /\ r2 = rqueue \o s
      /\ InOrder(buf, queue, rbuf, rqueue, psd) /\ OnePlace(buf, queue, rbuf, rqueue)
      /\ \A m \in plans : psd[m] = numCheckers /\ ~Waits(m, buf, queue, rbuf, rqueue)
  BY DEF MayJoin, Queued
<1> USE <1>0
<1> DEFINE full == rbuf \cup plans
<1>1. IsFiniteSet(full) /\ full \in SUBSET Mutants
  BY MutantsAssumption, FS_Subset
<1>2. /\ s \in Seq(full) /\ \A i, j \in 1..Len(s) : s[i] = s[j] => i = j
      /\ \A x \in full : \E i \in 1..Len(s) : s[i] = x
  <2>1. s \in SetToSeqs(full)
    OBVIOUS
  <2> HIDE DEF full
  <2>2. IsFiniteSet(full)
    BY <1>1
  <2> QED BY <2>1, <2>2, PermutationFacts
<1>3. /\ s \in Seq(Mutants) /\ Len(s) \in Nat /\ Len(rqueue) \in Nat
      /\ \A i \in 1..Len(s) : s[i] \in full
  BY <1>1, <1>2, SeqMonotonic, LenProperties
<1>4. r2 \in Seq(Mutants)
  BY <1>3, ConcatFacts
<1>5. \A i \in 1..Len(r2) : \/ i \in 1..Len(rqueue) /\ r2[i] = rqueue[i]
                            \/ /\ i \notin 1..Len(rqueue) /\ i - Len(rqueue) \in 1..Len(s)
                               /\ r2[i] = s[i - Len(rqueue)]
  BY <1>3, ConcatFacts
<1>6. \A i \in 1..Len(rqueue) : i \in 1..Len(r2) /\ r2[i] = rqueue[i]
  BY <1>3, ConcatFacts
<1>7. \A i \in 1..Len(s) : i + Len(rqueue) \in 1..Len(r2) /\ r2[i + Len(rqueue)] = s[i]
  BY <1>3, ConcatFacts
<1>8. \A m \in full : psd[m] = numCheckers /\ \A i \in 1..Len(rqueue) : rqueue[i] # m
  BY DEF InOrder, OnePlace, Waits
<1> HIDE DEF full
<1>9. InOrder(buf, queue, {}, r2, psd)
  <2>1. \A i \in 1..Len(r2) : psd[r2[i]] = numCheckers
    BY <1>3, <1>5, <1>8 DEF InOrder
  <2> QED BY <2>1 DEF InOrder
<1>10. ASSUME NEW i \in 1..Len(r2), NEW j \in 1..Len(r2), r2[i] = r2[j]
       PROVE  i = j
  <2>1. CASE i \in 1..Len(rqueue) /\ j \in 1..Len(rqueue)
    BY <1>6, <1>10, <2>1 DEF OnePlace
  <2>2. CASE i \notin 1..Len(rqueue) /\ j \notin 1..Len(rqueue)
    <3> DEFINE a == i - Len(rqueue)
               b == j - Len(rqueue)
    <3>1. a \in 1..Len(s) /\ b \in 1..Len(s) /\ s[a] = s[b]
      BY <1>5, <1>10, <2>2
    <3> HIDE DEF a, b
    <3>2. a = b
      BY <1>2, <3>1
    <3> QED BY <1>3, <3>2 DEF a, b
  <2>3. ~(i \in 1..Len(rqueue) /\ j \notin 1..Len(rqueue))
    BY <1>3, <1>5, <1>8, <1>10
  <2>4. ~(i \notin 1..Len(rqueue) /\ j \in 1..Len(rqueue))
    BY <1>3, <1>5, <1>8, <1>10
  <2> QED BY <2>1, <2>2, <2>3, <2>4
<1>11. OnePlace(buf, queue, {}, r2)
  BY <1>10 DEF OnePlace
<1>12. ASSUME NEW m
       PROVE  Waits(m, buf, queue, {}, r2) <=>
                       Waits(m, buf, queue, rbuf, rqueue) \/ m \in plans
  <2>1. (\E i \in 1..Len(r2) : r2[i] = m) <=> (\E i \in 1..Len(rqueue) : rqueue[i] = m) \/ m \in full
    <3>1. ASSUME NEW i \in 1..Len(r2), r2[i] = m
          PROVE  (\E j \in 1..Len(rqueue) : rqueue[j] = m) \/ m \in full
      BY <1>3, <1>5, <3>1
    <3>2. ASSUME NEW i \in 1..Len(rqueue), rqueue[i] = m
          PROVE  \E j \in 1..Len(r2) : r2[j] = m
      BY <1>6, <3>2
    <3>3. ASSUME m \in full
          PROVE  \E j \in 1..Len(r2) : r2[j] = m
      <4>1. PICK i \in 1..Len(s) : s[i] = m
        BY <1>2, <3>3
      <4> QED BY <1>7, <4>1
    <3> QED BY <3>1, <3>2, <3>3
  <2> QED BY <2>1 DEF Waits, full
<1> QED BY <1>4, <1>9, <1>11, <1>12

\* The jobs that check the groups of a job, in place of it.
ChecksOf(job, groups) ==
    [j \in 1..Len(groups) |-> [stage |-> job.stage, act |-> "check", group |-> groups[j]]]
Regrouped(q2, queue, i) ==
    \E P \in Partitions(queue[i].group) : \E groups \in SetToSeqs(P) :
        q2 = RemoveAt(queue, i) \o ChecksOf(queue[i], groups)

\* The groups of a job become jobs of their own: every mutant is in one.
LEMMA IntoGroups ==
    ASSUME NEW queue \in Seq(Jobs), NEW i \in 1..Len(queue), NEW q2, Regrouped(q2, queue, i),
           NEW buf, NEW rbuf, NEW rqueue, NEW psd,
           InOrder(buf, queue, rbuf, rqueue, psd), OnePlace(buf, queue, rbuf, rqueue)
    PROVE  /\ q2 \in Seq(Jobs)
           /\ InOrder(buf, q2, rbuf, rqueue, psd) /\ OnePlace(buf, q2, rbuf, rqueue)
           /\ \A m : Waits(m, buf, q2, rbuf, rqueue) <=> Waits(m, buf, queue, rbuf, rqueue)
           /\ \A j \in 1..Len(q2) : \E h \in 1..Len(queue) : q2[j].stage = queue[h].stage
<1>0. PICK P \in Partitions(queue[i].group), groups \in UNION {SetToSeqs(Q) : Q \in Partitions(queue[i].group)} :
        groups \in SetToSeqs(P) /\ q2 = RemoveAt(queue, i) \o ChecksOf(queue[i], groups)
  BY DEF Regrouped
<1> DEFINE checks == ChecksOf(queue[i], groups)
<1> DEFINE job == queue[i]
           rest == RemoveAt(queue, i)
<1>1. queue[i] \in Jobs /\ job.stage \in Stages /\ job.group \in SUBSET Mutants
  BY JobFacts
<1>2. /\ P \in SUBSET (SUBSET job.group) /\ UNION P = job.group
      /\ \A A, B \in P : A # B => A \cap B = {}
  BY DEF Partitions
<1>3. IsFiniteSet(P)
  <2>1. P \in SUBSET (SUBSET Mutants)
    BY <1>1, <1>2
  <2>2. IsFiniteSet(SUBSET Mutants)
    BY MutantsAssumption, FS_SUBSET
  <2> QED BY <2>1, <2>2, FS_Subset
<1>4. /\ groups \in Seq(P) /\ \A j, h \in 1..Len(groups) : groups[j] = groups[h] => j = h
      /\ \A A \in P : \E j \in 1..Len(groups) : groups[j] = A
  BY <1>0, <1>3, PermutationFacts
<1>5. Len(groups) \in Nat /\ \A j \in 1..Len(groups) : groups[j] \in P
  BY <1>4, LenProperties, ElementOfSeq
<1>6. \A j \in 1..Len(groups) : [stage |-> job.stage, act |-> "check", group |-> groups[j]] \in Jobs
  <2>1. ASSUME NEW j \in 1..Len(groups)
        PROVE  [stage |-> job.stage, act |-> "check", group |-> groups[j]] \in Jobs
    <3>1. groups[j] \in SUBSET Mutants
      BY <1>1, <1>2, <1>5
    <3> HIDE DEF job
    <3> QED BY <1>1, <3>1 DEF Jobs
  <2> QED BY <2>1
<1>7. /\ checks \in Seq(Jobs) /\ Len(checks) = Len(groups)
      /\ \A j \in 1..Len(checks) : checks[j].stage = job.stage /\ checks[j].group = groups[j]
  <2>1. checks = [j \in 1..Len(groups) |-> [stage |-> job.stage, act |-> "check", group |-> groups[j]]]
    BY DEF ChecksOf
  <2>3. checks \in [1..Len(groups) -> Jobs]
    BY <1>6, <2>1
  <2>2. checks \in Seq(Jobs) /\ Len(checks) = Len(groups)
    BY <1>5, <2>3, SeqFacts
  <2>4. \A j \in 1..Len(groups) : checks[j].stage = job.stage /\ checks[j].group = groups[j]
    BY <2>1
  <2> HIDE DEF checks
  <2> QED BY <2>2, <2>4
<1> HIDE DEF checks
<1>8. /\ rest \in Seq(Jobs) /\ Len(rest) \in Nat /\ Among(rest, queue)
      /\ \A j \in 1..Len(queue) : j # i => \E h \in 1..Len(rest) : rest[h] = queue[j]
      /\ \A j \in 1..Len(rest) : \E h \in 1..Len(queue) : h # i /\ rest[j] = queue[h]
  BY RemoveAtFacts, RemoveAtAmong, LenProperties
<1>9. InOrder(buf, rest, rbuf, rqueue, psd) /\ OnePlace(buf, rest, rbuf, rqueue)
  BY <1>8, FewerPlaces, AmongItself
<1> HIDE DEF rest
<1>21. q2 = rest \o checks
  BY <1>0 DEF rest, checks
<1>22. /\ q2 \in Seq(Jobs)
       /\ \A j \in 1..Len(q2) : \/ j \in 1..Len(rest) /\ q2[j] = rest[j]
                               \/ /\ j \notin 1..Len(rest) /\ j - Len(rest) \in 1..Len(checks)
                                  /\ q2[j] = checks[j - Len(rest)]
       /\ \A j \in 1..Len(rest) : j \in 1..Len(q2) /\ q2[j] = rest[j]
       /\ \A j \in 1..Len(checks) : j + Len(rest) \in 1..Len(q2) /\ q2[j + Len(rest)] = checks[j]
  <2>1. rest \in Seq(Jobs) /\ checks \in Seq(Jobs)
    BY <1>7, <1>8
  <2> QED BY <1>21, <2>1, ConcatFacts
<1>10. q2 \in Seq(Jobs)
  BY <1>22
<1>11. \A j \in 1..Len(q2) : \/ j \in 1..Len(rest) /\ q2[j] = rest[j]
                             \/ /\ j \notin 1..Len(rest) /\ j - Len(rest) \in 1..Len(checks)
                                /\ q2[j] = checks[j - Len(rest)]
  BY <1>22
<1>12. \A j \in 1..Len(rest) : j \in 1..Len(q2) /\ q2[j] = rest[j]
  BY <1>22
<1>13. \A j \in 1..Len(checks) : j + Len(rest) \in 1..Len(q2) /\ q2[j + Len(rest)] = checks[j]
  BY <1>22
<1> HIDE DEF job
<1>14. \A j \in 1..Len(checks) : checks[j].group \subseteq job.group
  BY <1>2, <1>5, <1>7
<1>15. \A m \in job.group : psd[m] = job.stage - 1 /\ m \notin buf[job.stage]
  BY DEF InOrder, OnePlace, job
<1>16. \A j \in 1..Len(rest) : \A m \in rest[j].group : m \notin job.group
  BY <1>8 DEF OnePlace, job
<1>17. InOrder(buf, q2, rbuf, rqueue, psd)
  <2>1. ASSUME NEW j \in 1..Len(q2), NEW m \in q2[j].group PROVE psd[m] = q2[j].stage - 1
    <3>1. CASE j \in 1..Len(rest) /\ q2[j] = rest[j]
      BY <1>9, <2>1, <3>1 DEF InOrder
    <3>2. CASE j - Len(rest) \in 1..Len(checks) /\ q2[j] = checks[j - Len(rest)]
      <4> DEFINE a == j - Len(rest)
      <4>1. a \in 1..Len(checks) /\ q2[j] = checks[a]
        BY <3>2
      <4> HIDE DEF a
      <4>2. q2[j].stage = job.stage /\ m \in job.group
        BY <1>7, <1>14, <2>1, <4>1
      <4> QED BY <1>15, <4>2
    <3> QED BY <1>11, <3>1, <3>2
  <2> QED BY <1>9, <2>1 DEF InOrder
<1>18. OnePlace(buf, q2, rbuf, rqueue)
  <2>1. ASSUME NEW j \in 1..Len(q2), NEW m \in q2[j].group PROVE m \notin buf[q2[j].stage]
    <3>1. CASE j \in 1..Len(rest) /\ q2[j] = rest[j]
      BY <1>9, <2>1, <3>1 DEF OnePlace
    <3>2. CASE j - Len(rest) \in 1..Len(checks) /\ q2[j] = checks[j - Len(rest)]
      BY <1>7, <1>14, <1>15, <2>1, <3>2
    <3> QED BY <1>11, <3>1, <3>2
  <2>2. ASSUME NEW j \in 1..Len(q2), NEW h \in 1..Len(q2), NEW m \in q2[j].group, m \in q2[h].group
        PROVE  j = h
    <3> DEFINE a == j - Len(rest)
               b == h - Len(rest)
    <3>1. CASE j \in 1..Len(rest) /\ h \in 1..Len(rest)
      BY <1>9, <1>12, <2>2, <3>1 DEF OnePlace
    <3>2. CASE j \notin 1..Len(rest) /\ h \notin 1..Len(rest)
      <4>1. a \in 1..Len(checks) /\ b \in 1..Len(checks) /\ q2[j] = checks[a] /\ q2[h] = checks[b]
        BY <1>11, <3>2
      <4> HIDE DEF a, b
      <4>2. m \in groups[a] /\ m \in groups[b] /\ groups[a] \in P /\ groups[b] \in P
        BY <1>5, <1>7, <2>2, <4>1
      <4>3. groups[a] = groups[b]
        BY <1>2, <4>2
      <4>4. a = b
        BY <1>4, <1>7, <4>1, <4>3
      <4> QED BY <1>8, <4>4 DEF a, b
    <3>3. ~(j \in 1..Len(rest) /\ h \notin 1..Len(rest))
      BY <1>11, <1>14, <1>16, <2>2
    <3>4. ~(j \notin 1..Len(rest) /\ h \in 1..Len(rest))
      BY <1>11, <1>14, <1>16, <2>2
    <3> QED BY <3>1, <3>2, <3>3, <3>4
  <2>3. \A j, h \in 1..Len(q2) : \A m \in q2[j].group : m \in q2[h].group => j = h
    BY <2>2
  <2> QED BY <1>9, <2>1, <2>3 DEF OnePlace
<1>19. ASSUME NEW m
       PROVE  Waits(m, buf, q2, rbuf, rqueue) <=> Waits(m, buf, queue, rbuf, rqueue)
  <2>1. (\E j \in 1..Len(q2) : m \in q2[j].group) <=> (\E j \in 1..Len(queue) : m \in queue[j].group)
    <3>1. ASSUME NEW j \in 1..Len(q2), m \in q2[j].group
          PROVE  \E h \in 1..Len(queue) : m \in queue[h].group
      <4>1. CASE j \in 1..Len(rest) /\ q2[j] = rest[j]
        BY <1>8, <3>1, <4>1
      <4>2. CASE j - Len(rest) \in 1..Len(checks) /\ q2[j] = checks[j - Len(rest)]
        BY <1>14, <3>1, <4>2 DEF job
      <4> QED BY <1>11, <4>1, <4>2
    <3>2. ASSUME NEW j \in 1..Len(queue), m \in queue[j].group
          PROVE  \E h \in 1..Len(q2) : m \in q2[h].group
      <4>1. CASE j # i
        BY <1>8, <1>12, <3>2, <4>1
      <4>2. CASE j = i
        <5>1. PICK A \in P : m \in A
          BY <1>2, <3>2, <4>2 DEF job
        <5>2. PICK h \in 1..Len(checks) : m \in checks[h].group
          <6>1. PICK h \in 1..Len(groups) : groups[h] = A
            BY <1>4, <5>1
          <6>2. h \in 1..Len(checks) /\ checks[h].group = A
            BY <1>7, <6>1
          <6> QED BY <5>1, <6>2
        <5>3. h + Len(rest) \in 1..Len(q2) /\ q2[h + Len(rest)] = checks[h]
          BY <1>13
        <5>4. m \in q2[h + Len(rest)].group
          BY <5>2, <5>3
        <5> QED BY <5>3, <5>4
      <4> QED BY <4>1, <4>2
    <3> QED BY <3>1, <3>2
  <2> QED BY <2>1 DEF Waits
<1>20. ASSUME NEW j \in 1..Len(q2)
       PROVE  \E h \in 1..Len(queue) : q2[j].stage = queue[h].stage
  <2>1. CASE j \in 1..Len(rest) /\ q2[j] = rest[j]
    BY <1>8, <2>1
  <2>2. CASE j - Len(rest) \in 1..Len(checks) /\ q2[j] = checks[j - Len(rest)]
    BY <1>7, <2>2 DEF job
  <2> QED BY <1>11, <2>1, <2>2
<1> QED BY <1>10, <1>17, <1>18, <1>19, <1>20

-----------------------------------------------------------------------------
(* What a stage emits *)

\* Stage k may emit plans while queue are the jobs left: its mutants are in no
\* other place, and reported only if they have no coverage.
Emitting(k, plans, queue, psd, rep) ==
    /\ k \in 0..numCheckers /\ plans \in SUBSET Mutants /\ queue \in Seq(Jobs)
    /\ k >= inputDone /\ \A i \in 1..Len(queue) : queue[i].stage >= inputDone
    /\ inputDone = 0 => k = 0 /\ queue = << >> /\ connected = numCheckers + 1
    /\ InOrder(buffer, queue, runBuffer, runQueue, psd)
    /\ OnePlace(buffer, queue, runBuffer, runQueue)
    /\ \A m \in plans : psd[m] = k /\ ~Waits(m, buffer, queue, runBuffer, runQueue)
    /\ \A m \in Mutants : rep[m] # << >> => ~Waits(m, buffer, queue, runBuffer, runQueue)
    /\ \A m \in plans : rep[m] = << >> <=> m \notin NoCoverage(k, plans)

\* Then the mutants are in order again, and none is lost if nothing failed.
Emitted(plans, queue, psd, rep) ==
    /\ inputDone' \in 1..(numCheckers + 1) /\ connected' \in 0..connected
    /\ buffer' \in [Stages -> SUBSET Mutants] /\ checkQueue' \in Seq(Jobs)
    /\ runBuffer' \in SUBSET Mutants /\ runQueue' \in Seq(Mutants)
    /\ checkerDisposal' \in {checkerDisposal, "freeing"}
    /\ InOrder(buffer', checkQueue', runBuffer', runQueue', psd)
    /\ OnePlace(buffer', checkQueue', runBuffer', runQueue')
    /\ \A m \in Mutants : rep[m] # << >> => ~Waits(m, buffer', checkQueue', runBuffer', runQueue')
    /\ \A i \in 1..Len(checkQueue') : checkQueue'[i].stage >= inputDone'
    /\ \A k \in Stages : k <= inputDone' => buffer'[k] = {}
    /\ inputDone' > numCheckers /\ connected' > numCheckers => runBuffer' = {}
    /\ checkerDisposal' # "none" /\ shutdown = "none" => inputDone' > numCheckers
    /\ \/ status' = status /\ connected' = connected
       \/ status' = IF status = "running" THEN "rejected" ELSE status
    /\ status' = "running" /\ connected = numCheckers + 1 =>
         \A m \in Mutants : m \in plans \/ Waits(m, buffer, queue, runBuffer, runQueue) =>
            Waits(m, buffer', checkQueue', runBuffer', runQueue') \/ rep[m] # << >>

LEMMA IgnoreEmits ==
    ASSUME TypeOK, StagesComplete, NEW k, NEW plans, NEW queue, NEW psd, NEW rep,
           Emitting(k, plans, queue, psd, rep), connected < numCheckers + 1, Ignore(queue)
    PROVE  Emitted(plans, queue, psd, rep)
<1>1. /\ checkQueue' = queue /\ UNCHANGED <<inputDone, buffer, runBuffer, runQueue, checkerDisposal>>
      /\ UNCHANGED <<connected, status>>
  BY DEF Ignore, StayConnected
<1>2. inputDone \in 1..(numCheckers + 1)
  BY DEF TypeOK, Emitting
<1>3. connected \in 0..connected /\ connected # numCheckers + 1
  BY DEF TypeOK
<1>4. /\ inputDone' \in 1..(numCheckers + 1) /\ connected' \in 0..connected
      /\ buffer' \in [Stages -> SUBSET Mutants] /\ checkQueue' \in Seq(Jobs)
      /\ runBuffer' \in SUBSET Mutants /\ runQueue' \in Seq(Mutants)
  BY <1>1, <1>2, <1>3 DEF TypeOK, Emitting
<1> QED BY <1>1, <1>3, <1>4 DEF Emitting, Emitted, StagesComplete

LEMMA PassToCheckerEmits ==
    ASSUME TypeOK, StagesComplete, NEW k, NEW plans, NEW queue, NEW psd, NEW rep,
           Emitting(k, plans, queue, psd, rep), k < numCheckers, k < connected,
           PassToChecker(k, plans, queue)
    PROVE  Emitted(plans, queue, psd, rep)
<1> DEFINE next == k + 1
<1>1. /\ k \in Nat /\ k + 1 \in Stages /\ numCheckers \in Nat /\ k + 1 - 1 = k
      /\ inputDone \in 0..k /\ connected \in 0..connected
      /\ plans \in SUBSET Mutants /\ queue \in Seq(Jobs) /\ buffer \in [Stages -> SUBSET Mutants]
  BY DEF TypeOK, Emitting, Stages
<1>2. UNCHANGED <<connected, status, runBuffer, runQueue, checkerDisposal>>
  BY DEF PassToChecker, StayConnected
<1>3. \A m \in plans : psd[m] = next - 1 /\ ~Waits(m, buffer, queue, runBuffer, runQueue)
  BY <1>1 DEF Emitting
<1>6. next = k + 1 /\ next \in Stages
  BY <1>1
<1>7. /\ InOrder(buffer, queue, runBuffer, runQueue, psd)
      /\ OnePlace(buffer, queue, runBuffer, runQueue)
  BY DEF Emitting
<1>8. MayJoin(next, plans, buffer, queue, runBuffer, runQueue, psd)
  BY <1>1, <1>3, <1>6, <1>7 DEF MayJoin, TypeOK
<1>4. CASE Over(k, queue)
  <2>1. /\ inputDone' = k + 1 /\ buffer' = [buffer EXCEPT ![next] = {}]
        /\ checkQueue' = Append(queue, GroupJob(next, buffer[next] \cup plans))
    BY <1>4 DEF PassToChecker
  <2> HIDE DEF next
  <2>8. MadeJob(buffer', checkQueue', buffer, queue, next, plans)
    BY <2>1 DEF MadeJob
  <2>2. /\ buffer' \in [Stages -> SUBSET Mutants] /\ checkQueue' \in Seq(Jobs)
        /\ InOrder(buffer', checkQueue', runBuffer, runQueue, psd)
        /\ OnePlace(buffer', checkQueue', runBuffer, runQueue)
        /\ \A m : Waits(m, buffer', checkQueue', runBuffer, runQueue) <=>
                       Waits(m, buffer, queue, runBuffer, runQueue) \/ m \in plans
        /\ Len(checkQueue') = Len(queue) + 1 /\ checkQueue'[Len(checkQueue')].stage = next
        /\ \A i \in 1..Len(queue) : checkQueue'[i] = queue[i]
    BY <1>6, <1>8, <2>8, IntoJob
  <2>3. \A i \in 1..Len(checkQueue') : checkQueue'[i].stage >= inputDone'
    <3>1. \A i \in 1..Len(queue) : queue[i].stage \in Stages /\ queue[i].stage >= k /\ queue[i].stage # k
      BY <1>1, <1>4, JobFacts DEF Over, Emitting
    <3>2. \A i \in 1..Len(queue) : queue[i].stage >= k + 1
      BY <1>1, <3>1 DEF Stages
    <3>3. Len(queue) \in Nat /\ \A i \in 1..Len(checkQueue') : i \in 1..Len(queue) \/ i = Len(checkQueue')
      BY <1>1, <2>2, LenProperties
    <3> QED BY <1>1, <1>6, <2>1, <2>2, <3>2, <3>3
  <2>4. \A s \in Stages : s <= inputDone' => buffer'[s] = {}
    <3>1. inputDone = k
      BY <1>4 DEF Over
    <3>2. \A s \in Stages : s <= k => buffer[s] = {}
      BY <3>1 DEF StagesComplete
    <3>3. \A s \in Stages : s <= k + 1 => s <= k \/ s = k + 1
      BY <1>1 DEF Stages
    <3> QED BY <1>1, <1>6, <2>1, <3>2, <3>3
  <2>5. inputDone' \in 1..(numCheckers + 1) /\ ~(inputDone' > numCheckers)
    BY <1>1, <2>1
  <2>6. \A m \in Mutants : rep[m] # << >> => ~Waits(m, buffer', checkQueue', runBuffer', runQueue')
    <3>1. k # numCheckers
      BY <1>1
    <3>2. \A m \in plans : rep[m] = << >>
      BY <3>1 DEF Emitting, NoCoverage
    <3> QED BY <1>2, <2>2, <3>2 DEF Emitting
  <2>7. ~(checkerDisposal # "none" /\ shutdown = "none")
    BY <1>1, <1>4 DEF Over, StagesComplete
  <2> QED BY <1>1, <1>2, <2>2, <2>3, <2>4, <2>5, <2>6, <2>7 DEF Emitted, TypeOK
<1>5. CASE ~Over(k, queue)
  <2>1. /\ inputDone' = inputDone /\ buffer' = [buffer EXCEPT ![next] = buffer[next] \cup plans]
        /\ checkQueue' = queue
    BY <1>5 DEF PassToChecker
  <2> HIDE DEF next
  <2>6. Buffered(buffer', buffer, next, plans)
    BY <2>1 DEF Buffered
  <2>2. /\ buffer' \in [Stages -> SUBSET Mutants]
        /\ InOrder(buffer', queue, runBuffer, runQueue, psd)
        /\ OnePlace(buffer', queue, runBuffer, runQueue)
        /\ \A m : Waits(m, buffer', queue, runBuffer, runQueue) <=>
                       Waits(m, buffer, queue, runBuffer, runQueue) \/ m \in plans
    BY <1>6, <1>8, <2>6, IntoBuffer
  <2>3. \A s \in Stages : s <= inputDone' => buffer'[s] = {}
    <3>1. \A s \in Stages : s <= inputDone => buffer[s] = {} /\ s # k + 1
      BY <1>1 DEF StagesComplete, Stages
    <3> QED BY <1>1, <1>6, <2>1, <3>1
  <2>4. inputDone' \in 1..(numCheckers + 1)
    <3>1. inputDone # 0
      BY <1>5 DEF Over, Emitting
    <3> QED BY <1>1, <2>1, <3>1
  <2>5. \A m \in Mutants : rep[m] # << >> => ~Waits(m, buffer', checkQueue', runBuffer', runQueue')
    <3>1. k # numCheckers
      BY <1>1
    <3>2. \A m \in plans : rep[m] = << >>
      BY <3>1 DEF Emitting, NoCoverage
    <3> QED BY <1>2, <2>1, <2>2, <3>2 DEF Emitting
  <2> QED BY <1>1, <1>2, <2>1, <2>2, <2>3, <2>4, <2>5 DEF Emitted, Emitting, StagesComplete, TypeOK
<1> QED BY <1>4, <1>5

\* A buffer of plans reaches the pool of the test runners, or is lost to it.
LEMMA RunPlansEmits ==
    ASSUME TypeOK, NEW plans, NEW queue, NEW psd, RunPlans(runBuffer \cup plans),
           MayJoin(numCheckers + 1, plans, buffer, queue, runBuffer, runQueue, psd)
    PROVE  /\ runBuffer' = {} /\ runQueue' \in Seq(Mutants)
           /\ InOrder(buffer, queue, {}, runQueue', psd) /\ OnePlace(buffer, queue, {}, runQueue')
           /\ \A m : Waits(m, buffer, queue, {}, runQueue') =>
                       Waits(m, buffer, queue, runBuffer, runQueue) \/ m \in plans
           /\ \/ /\ UNCHANGED <<connected, status>>
                 /\ \A m : Waits(m, buffer, queue, runBuffer, runQueue) \/ m \in plans =>
                       Waits(m, buffer, queue, {}, runQueue')
              \/ Disconnect(numCheckers)
<1>1. runBuffer' = {}
  BY DEF RunPlans
<1>2. CASE runBuffer \cup plans # {} /\ poolFailed
  <2>1. Disconnect(numCheckers) /\ runQueue' = runQueue
    BY <1>2 DEF RunPlans
  <2>2. InOrder(buffer, queue, {}, runQueue, psd) /\ OnePlace(buffer, queue, {}, runQueue)
    BY DEF MayJoin, InOrder, OnePlace
  <2>3. \A m : Waits(m, buffer, queue, {}, runQueue) => Waits(m, buffer, queue, runBuffer, runQueue)
    BY DEF Waits
  <2>4. runQueue' \in Seq(Mutants)
    BY <2>1 DEF TypeOK
  <2> QED BY <1>1, <2>1, <2>2, <2>3, <2>4
<1>3. CASE ~(runBuffer \cup plans # {} /\ poolFailed)
  <2>1. PICK s \in Sorted(runBuffer \cup plans) : runQueue' = runQueue \o s
    BY <1>3 DEF RunPlans
  <2>2. UNCHANGED <<connected, status>>
    BY <1>3 DEF RunPlans, StayConnected
  <2>3. Queued(runQueue', runQueue, s, runBuffer \cup plans)
    BY <2>1 DEF Queued, Sorted
  <2> QED BY <1>1, <2>2, <2>3, IntoRuns
<1> QED BY <1>2, <1>3

LEMMA IntoRunBuffer ==
    ASSUME NEW plans, NEW buf, NEW queue, NEW rbuf, NEW rqueue, NEW psd,
           MayJoin(numCheckers + 1, plans, buf, queue, rbuf, rqueue, psd)
    PROVE  /\ InOrder(buf, queue, rbuf \cup plans, rqueue, psd)
           /\ OnePlace(buf, queue, rbuf \cup plans, rqueue)
           /\ \A m : Waits(m, buf, queue, rbuf \cup plans, rqueue) <=>
                       Waits(m, buf, queue, rbuf, rqueue) \/ m \in plans
<1>1. /\ InOrder(buf, queue, rbuf, rqueue, psd) /\ OnePlace(buf, queue, rbuf, rqueue)
      /\ \A m \in plans : psd[m] = numCheckers /\ ~Waits(m, buf, queue, rbuf, rqueue)
  BY DEF MayJoin
<1>2. InOrder(buf, queue, rbuf \cup plans, rqueue, psd)
  BY <1>1 DEF InOrder
<1>3. \A i \in 1..Len(rqueue) : rqueue[i] \notin plans
  BY <1>1 DEF Waits
<1>4. OnePlace(buf, queue, rbuf \cup plans, rqueue)
  BY <1>1, <1>3 DEF OnePlace
<1> QED BY <1>2, <1>4 DEF Waits

LEMMA PassToRunnersEmits ==
    ASSUME TypeOK, StagesComplete, NEW plans, NEW queue, NEW psd, NEW rep,
           Emitting(numCheckers, plans, queue, psd, rep), PassToRunners(plans, queue)
    PROVE  Emitted(plans, queue, psd, rep)
<1> DEFINE covered == {m \in plans : plan[m] # "noCoverage"}
           over == Over(numCheckers, queue)
           listen == connected > numCheckers
           full == IF listen THEN runBuffer \cup covered ELSE runBuffer
<1>1. /\ numCheckers \in Nat /\ inputDone \in 0..numCheckers /\ connected \in 0..(numCheckers + 1)
      /\ plans \in SUBSET Mutants /\ queue \in Seq(Jobs) /\ buffer \in [Stages -> SUBSET Mutants]
      /\ runBuffer \in SUBSET Mutants /\ runQueue \in Seq(Mutants)
      /\ connected \in 0..connected
  BY DEF TypeOK, Emitting
<1>2. /\ checkQueue' = queue /\ buffer' = buffer
      /\ inputDone' = IF over THEN numCheckers + 1 ELSE inputDone
      /\ checkerDisposal' = IF over /\ checkerDisposal = "none" THEN "freeing" ELSE checkerDisposal
  BY DEF PassToRunners
<1>3. InOrder(buffer, queue, runBuffer, runQueue, psd) /\ OnePlace(buffer, queue, runBuffer, runQueue)
  BY DEF Emitting
<1>4. MayJoin(numCheckers + 1, covered, buffer, queue, runBuffer, runQueue, psd)
  BY <1>1, <1>3 DEF Emitting, MayJoin
<1>5. \A m \in plans : listen => (rep[m] = << >> <=> m \in covered)
  BY <1>1 DEF Emitting, NoCoverage
<1>6. /\ inputDone' \in 1..(numCheckers + 1)
      /\ \A i \in 1..Len(queue) : queue[i].stage >= inputDone'
      /\ \A k \in Stages : k <= inputDone' => buffer[k] = {}
      /\ checkerDisposal' \in {checkerDisposal, "freeing"}
      /\ checkerDisposal' # "none" /\ shutdown = "none" => inputDone' > numCheckers
  <2>1. CASE over
    <3>1. inputDone = numCheckers /\ \A i \in 1..Len(queue) : queue[i].stage # numCheckers
      BY <2>1 DEF Over
    <3>2. \A i \in 1..Len(queue) : queue[i].stage \in Stages /\ queue[i].stage >= numCheckers
      BY <1>1, <3>1, JobFacts DEF Emitting
    <3>3. \A i \in 1..Len(queue) : FALSE
      BY <1>1, <3>1, <3>2 DEF Stages
    <3>4. \A k \in Stages : buffer[k] = {}
      BY <1>1, <3>1 DEF StagesComplete, Stages
    <3>5. inputDone' = numCheckers + 1
      BY <1>2, <2>1
    <3> QED BY <1>1, <1>2, <3>3, <3>4, <3>5
  <2>2. CASE ~over
    <3>1. inputDone' = inputDone /\ checkerDisposal' = checkerDisposal
      BY <1>2, <2>2
    <3>2. inputDone # 0
      BY <1>1, <2>2 DEF Over, Emitting
    <3>3. /\ \A i \in 1..Len(queue) : queue[i].stage >= inputDone
          /\ \A k \in Stages : k <= inputDone => buffer[k] = {}
          /\ checkerDisposal # "none" /\ shutdown = "none" => inputDone > numCheckers
      BY DEF Emitting, StagesComplete
    <3> QED BY <1>1, <3>1, <3>2, <3>3
  <2> QED BY <2>1, <2>2
<1>7. CASE over /\ listen
  <2>1. RunPlans(runBuffer \cup covered)
    BY <1>7 DEF PassToRunners
  <2> HIDE DEF covered
  <2>2. /\ runBuffer' = {} /\ runQueue' \in Seq(Mutants)
        /\ InOrder(buffer, queue, {}, runQueue', psd) /\ OnePlace(buffer, queue, {}, runQueue')
        /\ \A m : Waits(m, buffer, queue, {}, runQueue') =>
                       Waits(m, buffer, queue, runBuffer, runQueue) \/ m \in covered
        /\ \/ /\ UNCHANGED <<connected, status>>
              /\ \A m : Waits(m, buffer, queue, runBuffer, runQueue) \/ m \in covered =>
                       Waits(m, buffer, queue, {}, runQueue')
           \/ Disconnect(numCheckers)
    BY <1>4, <2>1, RunPlansEmits
  <2>3. covered \subseteq plans
    BY DEF covered
  <2>4. \A m \in Mutants : rep[m] # << >> => ~Waits(m, buffer, queue, {}, runQueue')
    BY <1>5, <1>7, <2>2, <2>3 DEF Emitting
  <2>5. CASE /\ UNCHANGED <<connected, status>>
             /\ \A m : Waits(m, buffer, queue, runBuffer, runQueue) \/ m \in covered =>
                       Waits(m, buffer, queue, {}, runQueue')
    <3>1. \A m \in Mutants : m \in plans \/ Waits(m, buffer, queue, runBuffer, runQueue) =>
            Waits(m, buffer, queue, {}, runQueue') \/ rep[m] # << >>
      BY <1>5, <1>7, <2>5
    <3>2. connected' \in 0..connected
      BY <1>1, <2>5
    <3> QED BY <1>1, <1>2, <1>6, <2>2, <2>4, <2>5, <3>1, <3>2 DEF Emitted
  <2>6. CASE Disconnect(numCheckers)
    <3>1. connected' = numCheckers /\ status' = IF status = "running" THEN "rejected" ELSE status
      BY <2>6 DEF Disconnect
    <3>2. connected' \in 0..connected /\ status' # "running"
      BY <1>1, <1>7, <3>1
    <3> QED BY <1>1, <1>2, <1>6, <2>2, <2>4, <3>1, <3>2 DEF Emitted
  <2> QED BY <2>2, <2>5, <2>6
<1>8. CASE ~over /\ listen
  <2>1. runBuffer' = runBuffer \cup covered /\ UNCHANGED <<connected, status, runQueue>>
    BY <1>8 DEF PassToRunners, StayConnected
  <2> HIDE DEF covered
  <2>2. /\ InOrder(buffer, queue, runBuffer', runQueue, psd)
        /\ OnePlace(buffer, queue, runBuffer', runQueue)
        /\ \A m : Waits(m, buffer, queue, runBuffer', runQueue) <=>
                       Waits(m, buffer, queue, runBuffer, runQueue) \/ m \in covered
    BY <1>4, <2>1, IntoRunBuffer
  <2>3. covered \subseteq plans
    BY DEF covered
  <2>4. \A m \in Mutants : rep[m] # << >> => ~Waits(m, buffer, queue, runBuffer', runQueue)
    BY <1>5, <1>8, <2>2, <2>3 DEF Emitting
  <2>5. \A m \in Mutants : m \in plans \/ Waits(m, buffer, queue, runBuffer, runQueue) =>
            Waits(m, buffer, queue, runBuffer', runQueue) \/ rep[m] # << >>
    BY <1>5, <1>8, <2>2
  <2>6. runBuffer' \in SUBSET Mutants
    BY <1>1, <2>1, <2>3
  <2>7. ~(inputDone' > numCheckers)
    BY <1>1, <1>2, <1>8
  <2> QED BY <1>1, <1>2, <1>6, <2>1, <2>2, <2>4, <2>5, <2>6, <2>7 DEF Emitted
<1>9. CASE ~listen
  <2>1. UNCHANGED <<connected, status, runBuffer, runQueue>>
    BY <1>9 DEF PassToRunners, StayConnected
  <2>2. connected # numCheckers + 1
    BY <1>1, <1>9
  <2>3. \A m \in Mutants : rep[m] # << >> => ~Waits(m, buffer, queue, runBuffer, runQueue)
    BY DEF Emitting
  <2> HIDE DEF covered
  <2> QED BY <1>1, <1>2, <1>3, <1>6, <1>9, <2>1, <2>2, <2>3 DEF Emitted
<1> QED BY <1>7, <1>8, <1>9

\* Whoever listens to stage k, what it emits keeps the mutants in order.
LEMMA PassOnEmits ==
    ASSUME TypeOK, StagesComplete, NEW k, NEW plans, NEW queue, NEW psd, NEW rep,
           Emitting(k, plans, queue, psd, rep), PassOn(k, plans, queue)
    PROVE  Emitted(plans, queue, psd, rep)
<1>1. k \in Nat /\ numCheckers \in Nat /\ k <= numCheckers /\ connected \in 0..(numCheckers + 1)
  BY DEF Emitting, TypeOK
<1>2. CASE k > connected \/ (k = connected /\ k < numCheckers)
  <2>1. Ignore(queue)
    BY <1>2 DEF PassOn
  <2>2. connected < numCheckers + 1
    BY <1>1, <1>2
  <2> QED BY <2>1, <2>2, IgnoreEmits
<1>3. CASE ~(k > connected \/ (k = connected /\ k < numCheckers)) /\ k < numCheckers
  <2>1. PassToChecker(k, plans, queue)
    BY <1>3 DEF PassOn
  <2>2. k < connected
    BY <1>1, <1>3
  <2> QED BY <1>3, <2>1, <2>2, PassToCheckerEmits
<1>4. CASE ~(k > connected \/ (k = connected /\ k < numCheckers)) /\ ~(k < numCheckers)
  <2>1. PassToRunners(plans, queue)
    BY <1>4 DEF PassOn
  <2>2. k = numCheckers
    BY <1>1, <1>4
  <2> QED BY <2>1, <2>2, PassToRunnersEmits
<1> QED BY <1>2, <1>3, <1>4

-----------------------------------------------------------------------------
(* What every step has to show *)

Kinds == {"early", "checkFailed", "noCoverage", "tested"}
Statuses == {"instrumenting", "dryRun", "idle", "running", "reporting", "resolved", "rejected", "crashed"}

ProcessTypes ==
    /\ checkers \in Nat /\ runners \in Nat /\ ready \in 0..runners
    /\ checkerDisposal \in {"none", "freeing", "stopping", "done"}
    /\ poolFailed \in BOOLEAN
    /\ shutdown \in {"none", "runners", "checkers", "over", "failed"}

\* StreamInv of the next state, but for the types of ProcessTypes.
StreamsNext ==
    /\ status' \in Statuses /\ skipped' \in BOOLEAN
    /\ inputDone' \in 0..(numCheckers + 1) /\ connected' \in 0..(numCheckers + 1)
    /\ buffer' \in [Stages -> SUBSET Mutants] /\ checkQueue' \in Seq(Jobs)
    /\ runBuffer' \in SUBSET Mutants /\ runQueue' \in Seq(Mutants)
    /\ reported' \in [Mutants -> Seq(Kinds)] /\ passed' \in [Mutants -> 0..numCheckers]
    /\ InOrder(buffer', checkQueue', runBuffer', runQueue', passed')
    /\ OnePlace(buffer', checkQueue', runBuffer', runQueue')
    /\ \A m \in Mutants :
        /\ Len(reported'[m]) <= 1
        /\ reported'[m] # << >> => ~Waits(m, buffer', checkQueue', runBuffer', runQueue')
        /\ reported'[m] \in {<<"tested">>, <<"noCoverage">>} => passed'[m] = numCheckers
    /\ inputDone' = 0 => checkQueue' = << >> /\ \A m \in Mutants :
        /\ ~Waits(m, buffer', checkQueue', runBuffer', runQueue')
        /\ reported'[m] = << >> /\ passed'[m] = 0
    /\ \A i \in 1..Len(checkQueue') : checkQueue'[i].stage >= inputDone'
    /\ \A k \in Stages : k <= inputDone' => buffer'[k] = {}
    /\ inputDone' > numCheckers /\ connected' > numCheckers => runBuffer' = {}
    /\ checkerDisposal' # "none" /\ shutdown' = "none" => inputDone' > numCheckers
    /\ shutdown' # "none" => status' \in {"resolved", "rejected", "crashed"}
    /\ status' \in {"instrumenting", "dryRun", "idle"} => inputDone' = 0
    /\ status' \in {"instrumenting", "dryRun", "idle", "running"} => connected' = numCheckers + 1
    /\ status' = "running" /\ inputDone' > 0 => \A m \in Mutants :
        Waits(m, buffer', checkQueue', runBuffer', runQueue') \/ reported'[m] # << >>
    /\ status' \in {"reporting", "resolved"} /\ ~skipped' => \A m \in Mutants : reported'[m] # << >>

LEMMA StreamsNextFacts ==
    ASSUME StreamInv, UNCHANGED <<configVars, plan>>, StreamsNext, ProcessTypes'
    PROVE  StreamInv'
<1>1. numCheckers' = numCheckers /\ concurrency' = concurrency /\ plan' = plan
  BY DEF configVars
<1>2. Stages' = Stages
  BY <1>1 DEF Stages
<1>3. Jobs' = Jobs
  BY <1>2 DEF Jobs
<1>4. \A m : Waits(m, buffer, checkQueue, runBuffer, runQueue)' <=>
             Waits(m, buffer', checkQueue', runBuffer', runQueue')
  BY <1>2 DEF Waits
<1>5. TypeOK'
  BY <1>1, <1>2, <1>3 DEF StreamsNext, ProcessTypes, StreamInv, TypeOK, Kinds, Statuses
<1>6. InOrder(buffer, checkQueue, runBuffer, runQueue, passed)'
  BY <1>1, <1>2 DEF StreamsNext, InOrder
<1>7. OnePlace(buffer, checkQueue, runBuffer, runQueue)'
  BY DEF StreamsNext, OnePlace
<1>8. ReportedOnce'
  BY <1>1, <1>4 DEF StreamsNext, ReportedOnce
<1>9. StagesComplete'
  BY <1>1, <1>2, <1>4 DEF StreamsNext, StagesComplete
<1>10. NothingIsLost'
  BY <1>1, <1>4 DEF StreamsNext, NothingIsLost, Settled
<1> QED BY <1>5, <1>6, <1>7, <1>8, <1>9, <1>10 DEF StreamInv

LEMMA AmongNothing ==
    ASSUME NEW S, NEW t \in Seq(S), Among(t, << >>)
    PROVE  t = << >>
<1>1. PICK f \in [1..Len(t) -> 1..Len(<< >>)] : TRUE
  BY DEF Among
<1>2. \A i \in 1..Len(t) : f[i] \in 1..0
  BY <1>1
<1>3. Len(t) \in Nat /\ \A i \in 1..Len(t) : FALSE
  BY <1>2, LenProperties
<1>4. Len(t) = 0
  BY <1>3
<1> QED BY <1>4, EmptySeq

\* Steps that only lose jobs or runs, of a run that is over or has failed.
LEMMA LosesOnly ==
    ASSUME StreamInv, UNCHANGED <<configVars, plan, skipped, inputDone, buffer, runBuffer, reported, passed>>,
           checkQueue' \in Seq(Jobs), Among(checkQueue', checkQueue),
           runQueue' \in Seq(Mutants), Among(runQueue', runQueue),
           connected' \in 0..connected,
           status' \in {status, "rejected", "crashed"}, status' \in {"reporting", "resolved", "rejected", "crashed"},
           shutdown' # "none" => status' \in {"resolved", "rejected", "crashed"},
           checkerDisposal' # "none" /\ shutdown' = "none" => inputDone > numCheckers
    PROVE  StreamsNext
<1>1. /\ skipped' = skipped /\ inputDone' = inputDone /\ buffer' = buffer /\ runBuffer' = runBuffer
      /\ reported' = reported /\ passed' = passed
  OBVIOUS
<1>2. TypeOK /\ ReportedOnce /\ StagesComplete /\ NothingIsLost
      /\ InOrder(buffer, checkQueue, runBuffer, runQueue, passed)
      /\ OnePlace(buffer, checkQueue, runBuffer, runQueue)
  BY DEF StreamInv
<1>3. /\ InOrder(buffer, checkQueue', runBuffer, runQueue', passed)
      /\ OnePlace(buffer, checkQueue', runBuffer, runQueue')
      /\ \A m : Waits(m, buffer, checkQueue', runBuffer, runQueue')
                  => Waits(m, buffer, checkQueue, runBuffer, runQueue)
  BY <1>2, FewerPlaces
<1>4. inputDone = 0 => checkQueue' = << >>
  BY <1>2, AmongNothing DEF StagesComplete
<1>5. \A i \in 1..Len(checkQueue') : checkQueue'[i].stage >= inputDone
  BY <1>2 DEF Among, StagesComplete
<1>6. /\ status' \in Statuses /\ skipped' \in BOOLEAN
      /\ inputDone' \in 0..(numCheckers + 1)
      /\ buffer' \in [Stages -> SUBSET Mutants] /\ runBuffer' \in SUBSET Mutants
      /\ reported' \in [Mutants -> Seq(Kinds)] /\ passed' \in [Mutants -> 0..numCheckers]
  BY <1>1, <1>2 DEF TypeOK, Statuses, Kinds
<1>7. connected' \in 0..(numCheckers + 1)
      /\ (connected' > numCheckers => connected > numCheckers)
  BY <1>2 DEF TypeOK
<1>8. status' \in {"reporting", "resolved"} => status = status'
  OBVIOUS
<1>9. /\ status' \notin {"instrumenting", "dryRun", "idle", "running"}
      /\ status' \in {"reporting", "resolved"} /\ ~skipped' => \A m \in Mutants : reported'[m] # << >>
  BY <1>1, <1>2, <1>8 DEF NothingIsLost
<1>10. inputDone' = 0 => checkQueue' = << >> /\ \A m \in Mutants :
        /\ ~Waits(m, buffer', checkQueue', runBuffer', runQueue')
        /\ reported'[m] = << >> /\ passed'[m] = 0
  BY <1>1, <1>2, <1>3, <1>4 DEF StagesComplete
<1>11. \A m \in Mutants :
        /\ Len(reported'[m]) <= 1
        /\ reported'[m] # << >> => ~Waits(m, buffer', checkQueue', runBuffer', runQueue')
        /\ reported'[m] \in {<<"tested">>, <<"noCoverage">>} => passed'[m] = numCheckers
  BY <1>1, <1>2, <1>3 DEF ReportedOnce
<1>12. /\ \A k \in Stages : k <= inputDone' => buffer'[k] = {}
       /\ inputDone' > numCheckers /\ connected' > numCheckers => runBuffer' = {}
  BY <1>1, <1>2, <1>7 DEF StagesComplete
<1> QED BY <1>1, <1>3, <1>5, <1>6, <1>7, <1>9, <1>10, <1>11, <1>12 DEF StreamsNext

\* A stage has emitted: with what was reported, the invariant holds again.
LEMMA EmittedKeeps ==
    ASSUME StreamInv, NEW plans, NEW queue, Emitted(plans, queue, passed', reported'),
           UNCHANGED <<configVars, plan, skipped, shutdown>>,
           status \notin {"instrumenting", "dryRun", "idle"},
           reported' \in [Mutants -> Seq(Kinds)], passed' \in [Mutants -> 0..numCheckers],
           \A m \in Mutants :
              /\ Len(reported'[m]) <= 1
              /\ reported'[m] \in {<<"tested">>, <<"noCoverage">>} => passed'[m] = numCheckers
              /\ reported[m] # << >> => reported'[m] # << >>
              /\ status = "running" =>
                   m \in plans \/ Waits(m, buffer, queue, runBuffer, runQueue) \/ reported'[m] # << >>
    PROVE  StreamsNext
<1>1. /\ skipped' = skipped /\ shutdown' = shutdown
      /\ TypeOK /\ NothingIsLost
  BY DEF StreamInv
<1>2. /\ numCheckers \in Nat /\ connected \in 0..(numCheckers + 1) /\ status \in Statuses
      /\ skipped \in BOOLEAN
  BY <1>1 DEF TypeOK, Statuses
<1>3. /\ status' \in Statuses /\ skipped' \in BOOLEAN
      /\ inputDone' \in 0..(numCheckers + 1) /\ inputDone' # 0 /\ connected' \in 0..(numCheckers + 1)
      /\ buffer' \in [Stages -> SUBSET Mutants] /\ checkQueue' \in Seq(Jobs)
      /\ runBuffer' \in SUBSET Mutants /\ runQueue' \in Seq(Mutants)
  BY <1>1, <1>2 DEF Emitted, Statuses
<1>4. \/ status' = status /\ connected' = connected
      \/ status' = IF status = "running" THEN "rejected" ELSE status
  BY DEF Emitted
<1>5. /\ status' \notin {"instrumenting", "dryRun", "idle"}
      /\ status' = "running" => status = "running" /\ connected' = connected
      /\ status' \in {"reporting", "resolved"} => status = status'
  BY <1>4
<1>6. status' = "running" => connected' = numCheckers + 1
  BY <1>1, <1>5 DEF NothingIsLost
<1>7. shutdown' # "none" => status' \in {"resolved", "rejected", "crashed"}
  BY <1>1, <1>4 DEF NothingIsLost, Settled
<1>8. status' = "running" => \A m \in Mutants :
        Waits(m, buffer', checkQueue', runBuffer', runQueue') \/ reported'[m] # << >>
  <2> SUFFICES ASSUME status' = "running", NEW m \in Mutants, reported'[m] = << >>
               PROVE  Waits(m, buffer', checkQueue', runBuffer', runQueue')
    OBVIOUS
  <2>1. status = "running" /\ connected = numCheckers + 1
    BY <1>5, <1>6
  <2>2. m \in plans \/ Waits(m, buffer, queue, runBuffer, runQueue)
    BY <2>1
  <2> QED BY <2>1, <2>2 DEF Emitted
<1>9. status' \in {"reporting", "resolved"} /\ ~skipped' => \A m \in Mutants : reported'[m] # << >>
  BY <1>1, <1>5 DEF NothingIsLost
<1>10. /\ InOrder(buffer', checkQueue', runBuffer', runQueue', passed')
       /\ OnePlace(buffer', checkQueue', runBuffer', runQueue')
       /\ \A m \in Mutants : reported'[m] # << >> => ~Waits(m, buffer', checkQueue', runBuffer', runQueue')
       /\ \A i \in 1..Len(checkQueue') : checkQueue'[i].stage >= inputDone'
       /\ \A k \in Stages : k <= inputDone' => buffer'[k] = {}
       /\ inputDone' > numCheckers /\ connected' > numCheckers => runBuffer' = {}
       /\ checkerDisposal' # "none" /\ shutdown' = "none" => inputDone' > numCheckers
  BY <1>1 DEF Emitted
<1> QED BY <1>3, <1>5, <1>6, <1>7, <1>8, <1>9, <1>10 DEF StreamsNext

-----------------------------------------------------------------------------
(* The tokens *)

LEMMA TokenFacts ==
    ASSUME TypeOK
    PROVE  /\ checkerTokens \in Nat \ {0} /\ concurrencyCheckers \in Nat
           /\ concurrencyTestRunners \in Nat \ {0}
           /\ numCheckers > 0 => /\ checkerTokens = concurrencyCheckers
                                 /\ concurrencyCheckers + concurrencyTestRunners <= Max({concurrency, 2})
                                 /\ concurrencyTestRunners <= Max({concurrency, 2})
<1>1. concurrency \in Nat \ {0} /\ numCheckers \in Nat
  BY MaxConcurrencyAssumption, MaxCheckersAssumption DEF TypeOK
<1> DEFINE a == (concurrency + 1) \div 2
           b == concurrency \div 2
<1>2. a \in Nat \ {0} /\ b \in Nat /\ a + b = concurrency
  BY <1>1
<1>3. Max({a, 1}) = a
  <2> HIDE DEF a
  <2> QED BY <1>2, MaxFacts
<1>4. Max({b, 1}) = IF b >= 1 THEN b ELSE 1
  <2> HIDE DEF b
  <2> QED BY <1>2, MaxFacts
<1>5. Max({concurrency, 2}) = IF concurrency >= 2 THEN concurrency ELSE 2
  BY <1>1, MaxFacts
<1>6. concurrencyCheckers = IF numCheckers > 0 THEN a ELSE 0
  BY <1>3 DEF concurrencyCheckers
<1>7. concurrencyTestRunners = IF numCheckers > 0 THEN (IF b >= 1 THEN b ELSE 1) ELSE concurrency
  BY <1>4 DEF concurrencyTestRunners
<1>8. b = 0 => a = concurrency /\ concurrency = 1
  BY <1>1, <1>2
<1> HIDE DEF a, b
<1> QED BY <1>1, <1>2, <1>5, <1>6, <1>7, <1>8 DEF checkerTokens

\* The jobs in progress are the oldest ones.
LEMMA BusyFacts ==
    ASSUME TypeOK
    PROVE  /\ \A i \in CheckersBusy : i \in 1..Len(checkQueue)
           /\ \A i \in RunnersBusy : i \in 1..Len(runQueue)
           /\ Min({Len(runQueue), ready}) \in 0..Len(runQueue)
           /\ Min({Len(checkQueue), checkerTokens}) \in 0..Len(checkQueue)
<1>1. Len(checkQueue) \in Nat /\ Len(runQueue) \in Nat /\ ready \in Nat /\ checkerTokens \in Nat
  BY TokenFacts, LenProperties DEF TypeOK
<1>2. /\ Min({Len(checkQueue), checkerTokens}) \in 0..Len(checkQueue)
      /\ Min({Len(runQueue), ready}) \in 0..Len(runQueue)
  BY <1>1, MinFacts
<1> QED BY <1>1, <1>2 DEF CheckersBusy, RunnersBusy

-----------------------------------------------------------------------------
(* The steps of the streams *)

\* Reporting what was not reported before.
LEMMA ReportFacts ==
    ASSUME TypeOK, NEW D \in SUBSET Mutants, NEW kinds \in [D -> Kinds], Report(kinds),
           \A m \in D : reported[m] = << >>
    PROVE  /\ reported' \in [Mutants -> Seq(Kinds)]
           /\ \A m \in D : reported'[m] = << kinds[m] >> /\ Len(reported'[m]) = 1 /\ reported'[m] # << >>
           /\ \A m \in Mutants \ D : reported'[m] = reported[m]
<1>1. reported \in [Mutants -> Seq(Kinds)] /\ DOMAIN kinds = D
  BY DEF TypeOK, Kinds
<1>2. reported' = [m \in Mutants |-> IF m \in D THEN Append(reported[m], kinds[m]) ELSE reported[m]]
  BY <1>1 DEF Report
<1>3. ASSUME NEW m \in D
      PROVE  /\ reported'[m] = << kinds[m] >> /\ Len(reported'[m]) = 1 /\ reported'[m] # << >>
             /\ reported'[m] \in Seq(Kinds)
  <2>1. reported'[m] = Append(<< >>, kinds[m]) /\ kinds[m] \in Kinds
    BY <1>2
  <2> QED BY <2>1
<1>4. \A m \in Mutants \ D : reported'[m] = reported[m]
  BY <1>2
<1>5. reported' \in [Mutants -> Seq(Kinds)]
  BY <1>1, <1>2, <1>3, <1>4
<1> QED BY <1>3, <1>4, <1>5

\* A job that has ended leaves its mutants in no place.
LEMMA TakenJob ==
    ASSUME NEW queue \in Seq(Jobs), NEW i \in 1..Len(queue), NEW buf, NEW rbuf, NEW rqueue, NEW psd,
           numCheckers \in Nat,
           InOrder(buf, queue, rbuf, rqueue, psd), OnePlace(buf, queue, rbuf, rqueue)
    PROVE  /\ RemoveAt(queue, i) \in Seq(Jobs) /\ Among(RemoveAt(queue, i), queue)
           /\ InOrder(buf, RemoveAt(queue, i), rbuf, rqueue, psd)
           /\ OnePlace(buf, RemoveAt(queue, i), rbuf, rqueue)
           /\ \A m \in queue[i].group : /\ psd[m] = queue[i].stage - 1
                                        /\ ~Waits(m, buf, RemoveAt(queue, i), rbuf, rqueue)
           /\ \A m : Waits(m, buf, queue, rbuf, rqueue) <=>
                       Waits(m, buf, RemoveAt(queue, i), rbuf, rqueue) \/ m \in queue[i].group
           /\ \A j \in 1..Len(RemoveAt(queue, i)) : \E h \in 1..Len(queue) : RemoveAt(queue, i)[j] = queue[h]
<1> DEFINE rest == RemoveAt(queue, i)
<1>1. /\ rest \in Seq(Jobs) /\ Among(rest, queue)
      /\ \A j \in 1..Len(queue) : j # i => \E h \in 1..Len(rest) : rest[h] = queue[j]
      /\ \A j \in 1..Len(rest) : \E h \in 1..Len(queue) : h # i /\ rest[j] = queue[h]
  BY RemoveAtFacts, RemoveAtAmong
<1> HIDE DEF rest
<1>2. InOrder(buf, rest, rbuf, rqueue, psd) /\ OnePlace(buf, rest, rbuf, rqueue)
  BY <1>1, FewerPlaces, AmongItself
<1>3. queue[i].stage \in Stages /\ \A m \in queue[i].group : psd[m] = queue[i].stage - 1
  BY JobFacts DEF InOrder
<1>4. ASSUME NEW m \in queue[i].group
      PROVE  ~Waits(m, buf, rest, rbuf, rqueue)
  <2>1. \A j \in 1..Len(rest) : m \notin rest[j].group
    BY <1>1 DEF OnePlace
  <2>2. \A k \in Stages : m \notin buf[k]
    <3>1. \A k \in Stages : m \in buf[k] => psd[m] = k - 1
      BY DEF InOrder
    <3>2. \A k \in Stages : m \in buf[k] => k = queue[i].stage
      BY <1>3, <3>1 DEF Stages
    <3> QED BY <3>2 DEF OnePlace
  <2>3. psd[m] # numCheckers
    BY <1>3 DEF Stages
  <2>4. m \notin rbuf /\ \A j \in 1..Len(rqueue) : rqueue[j] # m
    BY <2>3 DEF InOrder
  <2> QED BY <2>1, <2>2, <2>4 DEF Waits
<1>5. ASSUME NEW m
      PROVE  Waits(m, buf, queue, rbuf, rqueue) <=>
               Waits(m, buf, rest, rbuf, rqueue) \/ m \in queue[i].group
  <2>1. (\E j \in 1..Len(queue) : m \in queue[j].group) <=>
          (\E j \in 1..Len(rest) : m \in rest[j].group) \/ m \in queue[i].group
    BY <1>1
  <2> QED BY <2>1 DEF Waits
<1>6. \A j \in 1..Len(rest) : \E h \in 1..Len(queue) : rest[j] = queue[h]
  BY <1>1
<1> QED BY <1>1, <1>2, <1>3, <1>4, <1>5, <1>6 DEF rest

\* Counting a check of mutants that wait nowhere disturbs no place.
LEMMA CountsElsewhere ==
    ASSUME NEW buf, NEW queue, NEW rbuf, NEW rqueue, NEW psd, NEW psd2,
           InOrder(buf, queue, rbuf, rqueue, psd),
           \A m : Waits(m, buf, queue, rbuf, rqueue) => psd2[m] = psd[m]
    PROVE  InOrder(buf, queue, rbuf, rqueue, psd2)
<1>1. /\ \A k \in Stages : \A m \in buf[k] : psd2[m] = psd[m]
      /\ \A i \in 1..Len(queue) : \A m \in queue[i].group : psd2[m] = psd[m]
      /\ \A m \in rbuf : psd2[m] = psd[m]
      /\ \A i \in 1..Len(rqueue) : psd2[rqueue[i]] = psd[rqueue[i]]
  BY DEF Waits
<1> QED BY <1>1 DEF InOrder

LEMMA InvFacts ==
    ASSUME StreamInv
    PROVE  /\ TypeOK /\ ReportedOnce /\ StagesComplete /\ NothingIsLost
           /\ InOrder(buffer, checkQueue, runBuffer, runQueue, passed)
           /\ OnePlace(buffer, checkQueue, runBuffer, runQueue)
           /\ numCheckers \in Nat /\ checkQueue \in Seq(Jobs) /\ runQueue \in Seq(Mutants)
           /\ reported \in [Mutants -> Seq(Kinds)] /\ passed \in [Mutants -> 0..numCheckers]
BY DEF StreamInv, TypeOK, Kinds

\* Where mutants wait, the plans were made.
LEMMA WaitingFacts ==
    ASSUME StreamInv
    PROVE  /\ \A i \in 1..Len(checkQueue) : inputDone # 0
           /\ \A i \in 1..Len(runQueue) : inputDone # 0
           /\ \A k \in Stages : buffer[k] # {} => inputDone # 0
           /\ runBuffer # {} => inputDone # 0
           /\ inputDone # 0 => status \notin {"instrumenting", "dryRun", "idle"}
<1>1. TypeOK /\ StagesComplete /\ NothingIsLost
  BY InvFacts
<1>2. \A i \in 1..Len(checkQueue) : inputDone # 0
  <2>1. Len(<< >>) = 0 /\ 1..0 = {}
    OBVIOUS
  <2> QED BY <1>1, <2>1 DEF StagesComplete
<1>3. \A i \in 1..Len(runQueue) : Waits(runQueue[i], buffer, checkQueue, runBuffer, runQueue)
      /\ runQueue[i] \in Mutants
  BY <1>1, ElementOfSeq DEF Waits, TypeOK
<1>4. \A k \in Stages : \A m \in buffer[k] :
        Waits(m, buffer, checkQueue, runBuffer, runQueue) /\ m \in Mutants
  BY <1>1 DEF Waits, TypeOK
<1>5. \A m \in runBuffer : Waits(m, buffer, checkQueue, runBuffer, runQueue) /\ m \in Mutants
  BY <1>1 DEF Waits, TypeOK
<1> QED BY <1>1, <1>2, <1>3, <1>4, <1>5 DEF StagesComplete, NothingIsLost

LEMMA PlansMadeStep == ASSUME StreamInv, PlansMade PROVE StreamsNext
<1> DEFINE toRun == {m \in Mutants : plan[m] # "early"}
           early == Mutants \ toRun
           uncovered == NoCoverage(0, toRun)
           D == early \cup uncovered
           kinds == [m \in D |-> IF m \in early THEN "early" ELSE "noCoverage"]
<1>1. /\ status = "running" /\ inputDone = 0 /\ connected = numCheckers + 1
      /\ Report(kinds) /\ PassOn(0, toRun, << >>)
      /\ UNCHANGED <<configVars, plan, skipped, passed, shutdown>>
  BY InvFacts DEF PlansMade, NothingIsLost
<1>2. /\ checkQueue = << >> /\ TypeOK /\ StagesComplete /\ numCheckers \in Nat
      /\ InOrder(buffer, << >>, runBuffer, runQueue, passed)
      /\ OnePlace(buffer, << >>, runBuffer, runQueue)
      /\ \A m \in Mutants : /\ ~Waits(m, buffer, << >>, runBuffer, runQueue)
                            /\ reported[m] = << >> /\ passed[m] = 0
      /\ passed \in [Mutants -> 0..numCheckers]
  BY <1>1, InvFacts DEF StagesComplete
<1>3. toRun \in SUBSET Mutants /\ uncovered \in SUBSET toRun /\ D \in SUBSET Mutants
      /\ kinds \in [D -> Kinds] /\ (uncovered # {} => numCheckers = 0)
  BY DEF NoCoverage, Kinds
<1>4. \A m \in Mutants : m \in toRun \/ m \in early
  OBVIOUS
<1>5. \A m \in D : kinds[m] \in {"early", "noCoverage"} /\ (kinds[m] = "noCoverage" => m \in uncovered)
  OBVIOUS
<1>6. \A m \in toRun : m \in D <=> m \in uncovered
  OBVIOUS
<1>7. passed' = passed
  BY <1>1
<1> HIDE DEF toRun, early, uncovered, D, kinds
<1>8. /\ reported' \in [Mutants -> Seq(Kinds)]
      /\ \A m \in D : reported'[m] = << kinds[m] >> /\ Len(reported'[m]) = 1 /\ reported'[m] # << >>
      /\ \A m \in Mutants \ D : reported'[m] = reported[m]
  BY <1>1, <1>2, <1>3, ReportFacts
<1>9. Emitting(0, toRun, << >>, passed', reported')
  <2>1. \A m \in toRun : reported'[m] = << >> <=> m \notin NoCoverage(0, toRun)
    BY <1>2, <1>3, <1>6, <1>8 DEF uncovered
  <2>2. << >> \in Seq(Jobs) /\ \A i \in 1..Len(<< >>) : FALSE
    OBVIOUS
  <2> QED BY <1>1, <1>2, <1>3, <1>7, <2>1, <2>2 DEF Emitting
<1>10. Emitted(toRun, << >>, passed', reported')
  BY <1>1, <1>2, <1>9, PassOnEmits
<1>11. ASSUME NEW m \in Mutants
       PROVE  /\ Len(reported'[m]) <= 1
              /\ reported'[m] \in {<<"tested">>, <<"noCoverage">>} => passed'[m] = numCheckers
              /\ reported[m] # << >> => reported'[m] # << >>
              /\ m \in toRun \/ reported'[m] # << >>
  <2>1. CASE m \in D
    <3>1. reported'[m] # <<"tested">> /\ (reported'[m] = <<"noCoverage">> => m \in uncovered)
      <4>1. reported'[m][1] \in {"early", "noCoverage"}
            /\ (reported'[m][1] = "noCoverage" => m \in uncovered)
        BY <1>5, <1>8, <2>1
      <4>2. <<"tested">>[1] = "tested" /\ <<"noCoverage">>[1] = "noCoverage"
        OBVIOUS
      <4> QED BY <4>1, <4>2
    <3>2. Len(reported'[m]) = 1 /\ reported'[m] # << >>
      BY <1>8, <2>1
    <3>3. reported'[m] = <<"noCoverage">> => passed'[m] = numCheckers
      <4>1. passed'[m] = 0
        BY <1>2, <1>7
      <4> QED BY <1>3, <3>1, <4>1
    <3>4. reported'[m] \in {<<"tested">>, <<"noCoverage">>} => reported'[m] = <<"noCoverage">>
      BY <3>1
    <3>5. Len(reported'[m]) <= 1
      BY <3>2
    <3> QED BY <3>2, <3>3, <3>4, <3>5
  <2>2. CASE m \notin D
    <3>1. reported'[m] = << >> /\ m \in toRun
      BY <1>2, <1>4, <1>8, <2>2 DEF D
    <3> QED BY <1>2, <3>1
  <2> QED BY <2>1, <2>2
<1> QED BY <1>1, <1>2, <1>7, <1>8, <1>10, <1>11, EmittedKeeps

LEMMA GroupStep ==
    ASSUME StreamInv, NEW i \in CheckersBusy, GroupEnds(i)
    PROVE  StreamsNext
<1> DEFINE job == checkQueue[i]
           k == job.stage
           rest == RemoveAt(checkQueue, i)
<1>1. /\ TypeOK /\ ReportedOnce /\ StagesComplete /\ NothingIsLost /\ numCheckers \in Nat
      /\ InOrder(buffer, checkQueue, runBuffer, runQueue, passed)
      /\ OnePlace(buffer, checkQueue, runBuffer, runQueue)
      /\ i \in 1..Len(checkQueue) /\ checkQueue \in Seq(Jobs)
      /\ reported \in [Mutants -> Seq(Kinds)] /\ passed \in [Mutants -> 0..numCheckers]
  BY InvFacts, BusyFacts
<1>2. /\ inputDone # 0 /\ status \notin {"instrumenting", "dryRun", "idle"}
      /\ k \in 0..numCheckers /\ k >= inputDone
  BY <1>1, WaitingFacts, JobFacts DEF StagesComplete, Stages
<1>3. UNCHANGED <<configVars, plan, skipped, shutdown>> /\ reported' = reported /\ passed' = passed
  BY DEF GroupEnds
<1>4. PICK groups \in UNION {SetToSeqs(Q) : Q \in Partitions(job.group)} :
        LET checks == [j \in 1..Len(groups) |->
                          [stage |-> job.stage, act |-> "check", group |-> groups[j]]]
        IN  IF job.stage > connected THEN Ignore(rest) ELSE PassOn(job.stage, {}, rest \o checks)
  BY DEF GroupEnds
<1>12. PICK P \in Partitions(job.group) : groups \in SetToSeqs(P)
  OBVIOUS
<1> DEFINE q2 == rest \o ChecksOf(job, groups)
<1>13. Regrouped(q2, checkQueue, i)
  BY <1>12 DEF Regrouped
<1>5. /\ q2 \in Seq(Jobs)
      /\ InOrder(buffer, q2, runBuffer, runQueue, passed) /\ OnePlace(buffer, q2, runBuffer, runQueue)
      /\ \A m : Waits(m, buffer, q2, runBuffer, runQueue) <=>
                  Waits(m, buffer, checkQueue, runBuffer, runQueue)
      /\ \A j \in 1..Len(q2) : \E h \in 1..Len(checkQueue) : q2[j].stage = checkQueue[h].stage
  <2> HIDE DEF q2
  <2> QED BY <1>1, <1>13, IntoGroups
<1>6. /\ rest \in Seq(Jobs)
      /\ InOrder(buffer, rest, runBuffer, runQueue, passed) /\ OnePlace(buffer, rest, runBuffer, runQueue)
      /\ \A m : Waits(m, buffer, checkQueue, runBuffer, runQueue) <=>
                  Waits(m, buffer, rest, runBuffer, runQueue) \/ m \in checkQueue[i].group
      /\ \A j \in 1..Len(rest) : \E h \in 1..Len(checkQueue) : rest[j] = checkQueue[h]
  BY <1>1, TakenJob
<1>7. IF k > connected THEN Ignore(rest) ELSE PassOn(k, {}, q2)
  BY <1>4 DEF ChecksOf
<1> HIDE DEF q2, rest, job, k
<1>8. ASSUME NEW q, q \in Seq(Jobs),
             InOrder(buffer, q, runBuffer, runQueue, passed), OnePlace(buffer, q, runBuffer, runQueue),
             \A m : Waits(m, buffer, q, runBuffer, runQueue) =>
                      Waits(m, buffer, checkQueue, runBuffer, runQueue),
             \A j \in 1..Len(q) : \E h \in 1..Len(checkQueue) : q[j].stage = checkQueue[h].stage
      PROVE  Emitting(k, {}, q, passed', reported')
  BY <1>1, <1>2, <1>3, <1>8 DEF Emitting, StagesComplete, ReportedOnce
<1>9. \A m \in Mutants :
         /\ Len(reported'[m]) <= 1
         /\ reported'[m] \in {<<"tested">>, <<"noCoverage">>} => passed'[m] = numCheckers
         /\ reported[m] # << >> => reported'[m] # << >>
  BY <1>1, <1>3 DEF ReportedOnce
<1>10. CASE k > connected
  <2>1. Emitting(k, {}, rest, passed', reported')
    BY <1>6, <1>8
  <2>2. connected < numCheckers + 1
    BY <1>1, <1>2, <1>10 DEF TypeOK
  <2>3. Emitted({}, rest, passed', reported')
    BY <1>1, <1>7, <1>10, <2>1, <2>2, IgnoreEmits
  <2>4. status # "running"
    BY <1>1, <2>2 DEF NothingIsLost, TypeOK
  <2> QED BY <1>1, <1>2, <1>3, <1>9, <2>3, <2>4, EmittedKeeps
<1>11. CASE ~(k > connected)
  <2>1. Emitting(k, {}, q2, passed', reported')
    BY <1>5, <1>8
  <2>2. Emitted({}, q2, passed', reported')
    BY <1>1, <1>7, <1>11, <2>1, PassOnEmits
  <2>3. \A m \in Mutants : status = "running" =>
           Waits(m, buffer, q2, runBuffer, runQueue) \/ reported'[m] # << >>
    BY <1>1, <1>2, <1>3, <1>5 DEF NothingIsLost, TypeOK
  <2> QED BY <1>1, <1>2, <1>3, <1>9, <2>2, <2>3, EmittedKeeps
<1> QED BY <1>10, <1>11

LEMMA CheckStep ==
    ASSUME StreamInv, NEW i \in CheckersBusy, CheckEnds(i)
    PROVE  StreamsNext
<1> DEFINE job == checkQueue[i]
           k == job.stage
           rest == RemoveAt(checkQueue, i)
<1>1. /\ TypeOK /\ ReportedOnce /\ StagesComplete /\ NothingIsLost /\ numCheckers \in Nat
      /\ InOrder(buffer, checkQueue, runBuffer, runQueue, passed)
      /\ OnePlace(buffer, checkQueue, runBuffer, runQueue)
      /\ i \in 1..Len(checkQueue) /\ checkQueue \in Seq(Jobs)
      /\ reported \in [Mutants -> Seq(Kinds)] /\ passed \in [Mutants -> 0..numCheckers]
  BY InvFacts, BusyFacts
<1>2. /\ inputDone # 0 /\ status \notin {"instrumenting", "dryRun", "idle"}
      /\ k \in 1..numCheckers /\ k >= inputDone /\ job.group \in SUBSET Mutants
  BY <1>1, WaitingFacts, JobFacts DEF StagesComplete, Stages
<1>3. UNCHANGED <<configVars, plan, skipped, shutdown>>
  BY DEF CheckEnds
<1>4. PICK failed \in SUBSET job.group :
        LET ok == LetThrough(job.group, failed)
            uncovered == NoCoverage(k, ok)
        IN  /\ IF k > connected THEN UNCHANGED reported
               ELSE Report([m \in failed \cup uncovered |->
                               IF m \in failed THEN "checkFailed" ELSE "noCoverage"])
            /\ passed' = [m \in Mutants |-> IF m \in job.group \ failed
                                            THEN passed[m] + 1 ELSE passed[m]]
            /\ PassOn(k, ok, rest)
  BY DEF CheckEnds
<1> DEFINE ok == job.group \ failed
           uncovered == NoCoverage(k, ok)
           D == failed \cup uncovered
           kinds == [m \in D |-> IF m \in failed THEN "checkFailed" ELSE "noCoverage"]
<1>5. /\ IF k > connected THEN UNCHANGED reported ELSE Report(kinds)
      /\ passed' = [m \in Mutants |-> IF m \in ok THEN passed[m] + 1 ELSE passed[m]]
      /\ PassOn(k, ok, rest)
  BY <1>4 DEF LetThrough
<1>6. /\ rest \in Seq(Jobs)
      /\ InOrder(buffer, rest, runBuffer, runQueue, passed) /\ OnePlace(buffer, rest, runBuffer, runQueue)
      /\ \A m \in checkQueue[i].group : /\ passed[m] = checkQueue[i].stage - 1
                                        /\ ~Waits(m, buffer, rest, runBuffer, runQueue)
      /\ \A m : Waits(m, buffer, checkQueue, runBuffer, runQueue) <=>
                  Waits(m, buffer, rest, runBuffer, runQueue) \/ m \in checkQueue[i].group
      /\ \A j \in 1..Len(rest) : \E h \in 1..Len(checkQueue) : rest[j] = checkQueue[h]
  BY <1>1, TakenJob
<1>7. /\ ok \in SUBSET Mutants /\ failed \in SUBSET Mutants /\ uncovered \in SUBSET ok
      /\ D \in SUBSET job.group /\ D \in SUBSET Mutants /\ kinds \in [D -> Kinds]
      /\ (uncovered # {} => k = numCheckers)
      /\ (k > connected => uncovered = {})
      /\ \A m \in job.group : m \in failed \/ m \in ok
      /\ \A m \in ok : m \in D <=> m \in uncovered
      /\ \A m \in D : kinds[m] \in {"checkFailed", "noCoverage"} /\ (kinds[m] = "noCoverage" => m \in uncovered)
  <2> HIDE DEF job, k
  <2>1. ok \in SUBSET Mutants /\ failed \in SUBSET Mutants /\ failed \in SUBSET job.group /\ ok \in SUBSET job.group
    BY <1>2
  <2>2. /\ uncovered \in SUBSET ok /\ (uncovered # {} => k = numCheckers)
        /\ (uncovered # {} => connected > numCheckers)
    BY DEF NoCoverage
  <2>3. k > connected => uncovered = {}
    <3>1. connected \in Nat /\ numCheckers \in Nat /\ k \in Nat /\ k <= numCheckers
      BY <1>1, <1>2 DEF TypeOK
    <3>2. k > connected => ~(connected > numCheckers)
      BY <3>1
    <3> QED BY <2>2, <3>2
  <2>4. D \in SUBSET job.group /\ D \in SUBSET Mutants
    BY <2>1, <2>2
  <2>5. \A m \in job.group : m \in failed \/ m \in ok
    OBVIOUS
  <2>6. \A m \in ok : m \in D <=> m \in uncovered
    OBVIOUS
  <2>7. \A m \in D : kinds[m] \in {"checkFailed", "noCoverage"} /\ (kinds[m] = "noCoverage" => m \in uncovered)
    OBVIOUS
  <2>8. kinds \in [D -> Kinds]
    BY DEF Kinds
  <2> QED BY <2>1, <2>2, <2>3, <2>4, <2>5, <2>6, <2>7, <2>8
<1>8. \A m \in job.group : /\ Waits(m, buffer, checkQueue, runBuffer, runQueue)
                           /\ reported[m] = << >> /\ passed[m] = k - 1
                           /\ ~Waits(m, buffer, rest, runBuffer, runQueue)
  BY <1>1, <1>2, <1>6 DEF ReportedOnce
<1>9. \A m : Waits(m, buffer, checkQueue, runBuffer, runQueue) <=>
               Waits(m, buffer, rest, runBuffer, runQueue) \/ m \in job.group
  BY <1>6
<1>10. \A j \in 1..Len(rest) : rest[j].stage >= inputDone
  BY <1>1, <1>6 DEF StagesComplete
<1>11. ok \subseteq job.group
  OBVIOUS
<1> HIDE DEF job, k, rest, ok, uncovered, D, kinds
<1>12. \A m \in ok : passed'[m] = k
  BY <1>1, <1>2, <1>5, <1>7, <1>8, <1>11
<1>13. \A m \in Mutants : m \notin ok => passed'[m] = passed[m]
  BY <1>5
<1>14. passed' \in [Mutants -> 0..numCheckers]
  <2>1. \A m \in Mutants : passed'[m] \in 0..numCheckers
    BY <1>1, <1>2, <1>12, <1>13
  <2> QED BY <1>5, <2>1
<1>15. InOrder(buffer, rest, runBuffer, runQueue, passed')
  <2>1. ASSUME NEW m, Waits(m, buffer, rest, runBuffer, runQueue) PROVE m \in Mutants /\ m \notin ok
    <3>1. m \notin ok
      BY <1>8, <1>11, <2>1
    <3>2. \A j \in 1..Len(rest) : rest[j].group \subseteq Mutants
      BY <1>6, JobFacts
    <3>3. /\ \A s \in Stages : buffer[s] \subseteq Mutants
          /\ runBuffer \subseteq Mutants /\ \A j \in 1..Len(runQueue) : runQueue[j] \in Mutants
      BY <1>1, ElementOfSeq DEF TypeOK
    <3> QED BY <2>1, <3>1, <3>2, <3>3 DEF Waits
  <2>2. \A m : Waits(m, buffer, rest, runBuffer, runQueue) => passed'[m] = passed[m]
    BY <1>13, <2>1
  <2> QED BY <1>6, <2>2, CountsElsewhere
<1>16. /\ reported' \in [Mutants -> Seq(Kinds)]
       /\ \A m \in Mutants : m \notin D => reported'[m] = reported[m]
       /\ \A m \in D : k > connected => reported'[m] = << >>
       /\ \A m \in D : ~(k > connected) => /\ reported'[m] = << kinds[m] >>
                                           /\ Len(reported'[m]) = 1 /\ reported'[m] # << >>
  <2>1. CASE k > connected
    <3>1. reported' = reported
      BY <1>5, <2>1
    <3> QED BY <1>1, <1>7, <1>8, <2>1, <3>1
  <2>2. CASE ~(k > connected)
    <3>1. Report(kinds) /\ \A m \in D : reported[m] = << >>
      BY <1>5, <1>7, <1>8, <2>2
    <3> QED BY <1>1, <1>7, <2>2, <3>1, ReportFacts
  <2> QED BY <2>1, <2>2
<1>17. Emitting(k, ok, rest, passed', reported')
  <2>1. \A m \in ok : reported'[m] = << >> <=> m \notin NoCoverage(k, ok)
    BY <1>7, <1>8, <1>11, <1>16 DEF uncovered
  <2>2. \A m \in ok : passed'[m] = k /\ ~Waits(m, buffer, rest, runBuffer, runQueue)
    BY <1>8, <1>11, <1>12
  <2>3. \A m \in Mutants : reported'[m] # << >> => ~Waits(m, buffer, rest, runBuffer, runQueue)
    <3>1. \A m \in Mutants : m \in D => ~Waits(m, buffer, rest, runBuffer, runQueue)
      BY <1>7, <1>8
    <3> QED BY <1>1, <1>9, <1>16, <3>1 DEF ReportedOnce
  <2> QED BY <1>2, <1>6, <1>7, <1>10, <1>15, <2>1, <2>2, <2>3 DEF Emitting
<1>18. Emitted(ok, rest, passed', reported')
  BY <1>1, <1>5, <1>17, PassOnEmits
<1>19. ASSUME NEW m \in Mutants
       PROVE  /\ Len(reported'[m]) <= 1
              /\ reported'[m] \in {<<"tested">>, <<"noCoverage">>} => passed'[m] = numCheckers
              /\ reported[m] # << >> => reported'[m] # << >>
  <2>1. CASE m \in D /\ ~(k > connected)
    <3>1. /\ reported'[m] = << kinds[m] >> /\ Len(reported'[m]) = 1 /\ reported'[m] # << >>
      BY <1>16, <2>1
    <3>2. reported'[m] \in {<<"tested">>, <<"noCoverage">>} => m \in uncovered
      <4>1. reported'[m][1] \in {"checkFailed", "noCoverage"}
            /\ (reported'[m][1] = "noCoverage" => m \in uncovered)
        BY <1>7, <2>1, <3>1
      <4>2. <<"tested">>[1] = "tested" /\ <<"noCoverage">>[1] = "noCoverage"
        OBVIOUS
      <4> QED BY <4>1, <4>2
    <3>3. m \in uncovered => passed'[m] = numCheckers
      BY <1>7, <1>12
    <3>4. Len(reported'[m]) <= 1
      BY <3>1
    <3> QED BY <3>1, <3>2, <3>3, <3>4
  <2>2. CASE m \in D /\ k > connected
    <3>1. reported'[m] = << >> /\ reported[m] = << >>
      BY <1>7, <1>8, <1>16, <2>2
    <3> QED BY <3>1
  <2>3. CASE m \notin D
    <3>1. reported'[m] = reported[m] /\ Len(reported[m]) <= 1
      BY <1>1, <1>16, <2>3 DEF ReportedOnce
    <3>2. CASE m \in ok
      <4>1. reported[m] = << >>
        BY <1>8, <1>11, <3>2
      <4> QED BY <3>1, <4>1
    <3>3. CASE m \notin ok
      BY <1>1, <1>13, <3>1, <3>3 DEF ReportedOnce
    <3> QED BY <3>2, <3>3
  <2> QED BY <2>1, <2>2, <2>3
<1>20. ASSUME NEW m \in Mutants, status = "running"
       PROVE  m \in ok \/ Waits(m, buffer, rest, runBuffer, runQueue) \/ reported'[m] # << >>
  <2>1. connected = numCheckers + 1 /\ ~(k > connected)
    BY <1>1, <1>2, <1>20 DEF NothingIsLost
  <2>2. Waits(m, buffer, checkQueue, runBuffer, runQueue) \/ reported[m] # << >>
    BY <1>1, <1>2, <1>20 DEF NothingIsLost, TypeOK
  <2>3. CASE m \in job.group
    BY <1>7, <1>16, <2>1, <2>3 DEF D
  <2>4. CASE m \notin job.group
    BY <1>9, <1>19, <2>2, <2>4
  <2> QED BY <2>3, <2>4
<1> QED BY <1>2, <1>3, <1>14, <1>16, <1>18, <1>19, <1>20, EmittedKeeps

\* CHECK_BUFFER_MS has passed: the buffer becomes a job before its input ends.
LEMMA FlushStep ==
    ASSUME StreamInv, NEW k \in Stages, TimerFlush(k)
    PROVE  StreamsNext
<1>1. /\ TypeOK /\ ReportedOnce /\ StagesComplete /\ NothingIsLost /\ numCheckers \in Nat
      /\ InOrder(buffer, checkQueue, runBuffer, runQueue, passed)
      /\ OnePlace(buffer, checkQueue, runBuffer, runQueue)
      /\ checkQueue \in Seq(Jobs)
      /\ reported \in [Mutants -> Seq(Kinds)] /\ passed \in [Mutants -> 0..numCheckers]
  BY InvFacts
<1>2. /\ inputDone \in 1..(k - 1) /\ status \notin {"instrumenting", "dryRun", "idle"}
  BY WaitingFacts DEF TimerFlush, Stages
<1>3. /\ checkQueue' = Append(checkQueue, GroupJob(k, buffer[k])) /\ buffer' = [buffer EXCEPT ![k] = {}]
      /\ UNCHANGED <<configVars, plan, skipped, shutdown>>
      /\ status' = status /\ inputDone' = inputDone /\ connected' = connected
      /\ runBuffer' = runBuffer /\ runQueue' = runQueue /\ reported' = reported /\ passed' = passed
      /\ checkerDisposal' = checkerDisposal
  BY DEF TimerFlush, processVars
<1>4. MayJoin(k, {}, buffer, checkQueue, runBuffer, runQueue, passed)
  BY <1>1 DEF MayJoin, TypeOK, Stages
<1>5. MadeJob(buffer', checkQueue', buffer, checkQueue, k, {})
  <2>1. buffer[k] \cup {} = buffer[k]
    OBVIOUS
  <2> QED BY <1>3, <2>1 DEF MadeJob
<1>6. /\ buffer' \in [Stages -> SUBSET Mutants] /\ checkQueue' \in Seq(Jobs)
      /\ InOrder(buffer', checkQueue', runBuffer, runQueue, passed)
      /\ OnePlace(buffer', checkQueue', runBuffer, runQueue)
      /\ \A m : Waits(m, buffer', checkQueue', runBuffer, runQueue) <=>
                  Waits(m, buffer, checkQueue, runBuffer, runQueue) \/ m \in {}
      /\ Len(checkQueue') = Len(checkQueue) + 1 /\ checkQueue'[Len(checkQueue')].stage = k
      /\ \A i \in 1..Len(checkQueue) : checkQueue'[i] = checkQueue[i]
  BY <1>4, <1>5, IntoJob
<1>7. \A i \in 1..Len(checkQueue') : checkQueue'[i].stage >= inputDone
  <2>1. Len(checkQueue) \in Nat /\ \A i \in 1..Len(checkQueue') : i \in 1..Len(checkQueue) \/ i = Len(checkQueue')
    BY <1>1, <1>6, LenProperties
  <2>2. k >= inputDone
    BY <1>2 DEF Stages
  <2> QED BY <1>1, <1>6, <2>1, <2>2 DEF StagesComplete
<1>8. /\ inputDone \in 1..(numCheckers + 1) /\ connected \in 0..connected
      /\ runBuffer \in SUBSET Mutants /\ runQueue \in Seq(Mutants)
  BY <1>1, <1>2 DEF TypeOK
<1>9. \A s \in Stages : s <= inputDone => buffer'[s] = {}
  BY <1>1, <1>3 DEF StagesComplete, TypeOK
<1>10. /\ \A m \in Mutants : reported'[m] # << >> => ~Waits(m, buffer', checkQueue', runBuffer', runQueue')
       /\ inputDone' > numCheckers /\ connected' > numCheckers => runBuffer' = {}
       /\ checkerDisposal' # "none" /\ shutdown = "none" => inputDone' > numCheckers
  BY <1>1, <1>3, <1>6 DEF ReportedOnce, StagesComplete
<1>11. Emitted({}, checkQueue, passed', reported')
  BY <1>3, <1>6, <1>7, <1>8, <1>9, <1>10 DEF Emitted
<1>12. \A m \in Mutants :
         /\ Len(reported'[m]) <= 1
         /\ reported'[m] \in {<<"tested">>, <<"noCoverage">>} => passed'[m] = numCheckers
         /\ reported[m] # << >> => reported'[m] # << >>
         /\ status = "running" => Waits(m, buffer, checkQueue, runBuffer, runQueue) \/ reported'[m] # << >>
  BY <1>1, <1>2, <1>3 DEF ReportedOnce, NothingIsLost
<1>13. reported' \in [Mutants -> Seq(Kinds)] /\ passed' \in [Mutants -> 0..numCheckers]
  BY <1>1, <1>3
<1> QED BY <1>2, <1>3, <1>11, <1>12, <1>13, EmittedKeeps

\* bufferTime(0) has passed: the plans are queued, or the stream errors.
LEMMA SortStep == ASSUME StreamInv, SortTimer PROVE StreamsNext
<1>1. /\ TypeOK /\ ReportedOnce /\ StagesComplete /\ NothingIsLost /\ numCheckers \in Nat
      /\ InOrder(buffer, checkQueue, runBuffer, runQueue, passed)
      /\ OnePlace(buffer, checkQueue, runBuffer, runQueue)
      /\ checkQueue \in Seq(Jobs)
      /\ reported \in [Mutants -> Seq(Kinds)] /\ passed \in [Mutants -> 0..numCheckers]
  BY InvFacts
<1>2. inputDone # 0 /\ status \notin {"instrumenting", "dryRun", "idle"} /\ connected > numCheckers
  BY WaitingFacts DEF SortTimer
<1>3. /\ UNCHANGED <<configVars, plan, skipped, shutdown>>
      /\ inputDone' = inputDone /\ buffer' = buffer /\ checkQueue' = checkQueue
      /\ reported' = reported /\ passed' = passed /\ checkerDisposal' = checkerDisposal
  BY DEF SortTimer, processVars
<1>4. MayJoin(numCheckers + 1, {}, buffer, checkQueue, runBuffer, runQueue, passed)
  BY <1>1 DEF MayJoin, TypeOK
<1>5. RunPlans(runBuffer \cup {})
  <2>1. runBuffer \cup {} = runBuffer
    OBVIOUS
  <2> QED BY <2>1 DEF SortTimer
<1>6. /\ runBuffer' = {} /\ runQueue' \in Seq(Mutants)
      /\ InOrder(buffer, checkQueue, {}, runQueue', passed) /\ OnePlace(buffer, checkQueue, {}, runQueue')
      /\ \A m : Waits(m, buffer, checkQueue, {}, runQueue') =>
                  Waits(m, buffer, checkQueue, runBuffer, runQueue) \/ m \in {}
      /\ \/ /\ UNCHANGED <<connected, status>>
            /\ \A m : Waits(m, buffer, checkQueue, runBuffer, runQueue) \/ m \in {} =>
                  Waits(m, buffer, checkQueue, {}, runQueue')
         \/ Disconnect(numCheckers)
  BY <1>1, <1>4, <1>5, RunPlansEmits
<1>7. /\ inputDone \in 1..(numCheckers + 1) /\ connected \in 0..connected /\ numCheckers \in 0..connected
      /\ buffer \in [Stages -> SUBSET Mutants] /\ {} \in SUBSET Mutants
  BY <1>1, <1>2 DEF TypeOK
<1>8. /\ \A s \in Stages : s <= inputDone => buffer[s] = {}
      /\ \A i \in 1..Len(checkQueue) : checkQueue[i].stage >= inputDone
      /\ checkerDisposal # "none" /\ shutdown = "none" => inputDone > numCheckers
  BY <1>1 DEF StagesComplete
<1>9. \A m \in Mutants : reported[m] # << >> => ~Waits(m, buffer, checkQueue, {}, runQueue')
  BY <1>1, <1>6 DEF ReportedOnce
<1>10. Emitted({}, checkQueue, passed', reported')
  <2>1. CASE /\ UNCHANGED <<connected, status>>
             /\ \A m : Waits(m, buffer, checkQueue, runBuffer, runQueue) \/ m \in {} =>
                  Waits(m, buffer, checkQueue, {}, runQueue')
    BY <1>1, <1>3, <1>6, <1>7, <1>8, <1>9, <2>1 DEF Emitted
  <2>2. CASE Disconnect(numCheckers)
    <3>1. /\ connected' = numCheckers /\ status' = IF status = "running" THEN "rejected" ELSE status
          /\ status' # "running"
      BY <2>2 DEF Disconnect
    <3> QED BY <1>1, <1>3, <1>6, <1>7, <1>8, <1>9, <3>1 DEF Emitted
  <2> QED BY <1>6, <2>1, <2>2
<1>11. \A m \in Mutants :
         /\ Len(reported'[m]) <= 1
         /\ reported'[m] \in {<<"tested">>, <<"noCoverage">>} => passed'[m] = numCheckers
         /\ reported[m] # << >> => reported'[m] # << >>
         /\ status = "running" => Waits(m, buffer, checkQueue, runBuffer, runQueue) \/ reported'[m] # << >>
  BY <1>1, <1>2, <1>3, <1>7 DEF ReportedOnce, NothingIsLost
<1>12. reported' \in [Mutants -> Seq(Kinds)] /\ passed' \in [Mutants -> 0..numCheckers]
  BY <1>1, <1>3
<1> QED BY <1>2, <1>3, <1>10, <1>11, <1>12, EmittedKeeps

\* A test runner has answered: its mutant is reported and waits no more.
LEMMA RunStep ==
    ASSUME StreamInv, NEW i \in RunnersBusy, RunEnds(i)
    PROVE  StreamsNext
<1> DEFINE m0 == runQueue[i]
           kinds == [m \in {m0} |-> "tested"]
<1>1. /\ TypeOK /\ ReportedOnce /\ StagesComplete /\ NothingIsLost /\ numCheckers \in Nat
      /\ InOrder(buffer, checkQueue, runBuffer, runQueue, passed)
      /\ OnePlace(buffer, checkQueue, runBuffer, runQueue)
      /\ i \in 1..Len(runQueue) /\ checkQueue \in Seq(Jobs) /\ runQueue \in Seq(Mutants)
      /\ reported \in [Mutants -> Seq(Kinds)] /\ passed \in [Mutants -> 0..numCheckers]
  BY InvFacts, BusyFacts
<1>2. inputDone # 0 /\ status \notin {"instrumenting", "dryRun", "idle"}
  BY <1>1, WaitingFacts
<1>3. /\ UNCHANGED <<configVars, plan, skipped, shutdown>>
      /\ Report(kinds) /\ runQueue' = RemoveAt(runQueue, i)
      /\ status' = status /\ connected' = connected
      /\ inputDone' = inputDone /\ buffer' = buffer /\ checkQueue' = checkQueue
      /\ runBuffer' = runBuffer /\ passed' = passed /\ checkerDisposal' = checkerDisposal
  BY DEF RunEnds, processVars
<1>4. /\ m0 \in Mutants /\ {m0} \in SUBSET Mutants /\ kinds \in [{m0} -> Kinds] /\ kinds[m0] = "tested"
  BY <1>1, ElementOfSeq DEF Kinds
<1>5. /\ runQueue' \in Seq(Mutants) /\ Among(runQueue', runQueue)
      /\ \A j \in 1..Len(runQueue) : j # i => \E h \in 1..Len(runQueue') : runQueue'[h] = runQueue[j]
      /\ \A j \in 1..Len(runQueue') : \E h \in 1..Len(runQueue) : h # i /\ runQueue'[j] = runQueue[h]
  BY <1>1, <1>3, RemoveAtFacts, RemoveAtAmong
<1>6. /\ InOrder(buffer, checkQueue, runBuffer, runQueue', passed)
      /\ OnePlace(buffer, checkQueue, runBuffer, runQueue')
      /\ \A m : Waits(m, buffer, checkQueue, runBuffer, runQueue') =>
                  Waits(m, buffer, checkQueue, runBuffer, runQueue)
  BY <1>1, <1>5, FewerPlaces, AmongItself
<1>7. \A m : Waits(m, buffer, checkQueue, runBuffer, runQueue) =>
               Waits(m, buffer, checkQueue, runBuffer, runQueue') \/ m = m0
  <2>1. \A m : (\E j \in 1..Len(runQueue) : runQueue[j] = m) =>
                 (\E j \in 1..Len(runQueue') : runQueue'[j] = m) \/ m = m0
    BY <1>5
  <2> HIDE DEF m0
  <2> QED BY <2>1 DEF Waits
<1>8. passed[m0] = numCheckers /\ Waits(m0, buffer, checkQueue, runBuffer, runQueue)
  BY <1>1 DEF InOrder, Waits
<1>9. ~Waits(m0, buffer, checkQueue, runBuffer, runQueue')
  <2>1. m0 \notin runBuffer /\ \A j \in 1..Len(runQueue') : runQueue'[j] # m0
    BY <1>1, <1>5 DEF OnePlace
  <2>2. \A s \in Stages : m0 \notin buffer[s]
    <3>1. \A s \in Stages : s - 1 # numCheckers
      BY <1>1 DEF Stages
    <3> QED BY <1>1, <1>8, <3>1 DEF InOrder
  <2>3. \A j \in 1..Len(checkQueue) : m0 \notin checkQueue[j].group
    <3>1. ASSUME NEW j \in 1..Len(checkQueue)
          PROVE  checkQueue[j].stage - 1 # numCheckers
      <4>1. checkQueue[j].stage \in Stages
        BY <1>1, JobFacts
      <4> QED BY <1>1, <4>1 DEF Stages
    <3> HIDE DEF m0
    <3> QED BY <1>1, <1>8, <3>1 DEF InOrder
  <2> HIDE DEF m0
  <2> QED BY <2>1, <2>2, <2>3 DEF Waits
<1>10. reported[m0] = << >>
  BY <1>1, <1>4, <1>8 DEF ReportedOnce
<1> HIDE DEF m0, kinds
<1>11. /\ reported' \in [Mutants -> Seq(Kinds)]
       /\ reported'[m0] = << kinds[m0] >> /\ Len(reported'[m0]) = 1 /\ reported'[m0] # << >>
       /\ \A m \in Mutants : m # m0 => reported'[m] = reported[m]
  BY <1>1, <1>3, <1>4, <1>10, ReportFacts
<1>12. /\ inputDone \in 1..(numCheckers + 1) /\ connected \in 0..connected
       /\ buffer \in [Stages -> SUBSET Mutants] /\ runBuffer \in SUBSET Mutants
  BY <1>1, <1>2 DEF TypeOK
<1>13. /\ \A s \in Stages : s <= inputDone => buffer[s] = {}
       /\ \A j \in 1..Len(checkQueue) : checkQueue[j].stage >= inputDone
       /\ inputDone > numCheckers /\ connected > numCheckers => runBuffer = {}
       /\ checkerDisposal # "none" /\ shutdown = "none" => inputDone > numCheckers
  BY <1>1 DEF StagesComplete
<1>14. \A m \in Mutants : reported'[m] # << >> => ~Waits(m, buffer, checkQueue, runBuffer, runQueue')
  BY <1>1, <1>6, <1>9, <1>11 DEF ReportedOnce
<1>15. \A m \in Mutants : Waits(m, buffer, checkQueue, runBuffer, runQueue) =>
          Waits(m, buffer, checkQueue, runBuffer, runQueue') \/ reported'[m] # << >>
  BY <1>7, <1>11
<1>16. Emitted({}, checkQueue, passed', reported')
  BY <1>1, <1>3, <1>5, <1>6, <1>12, <1>13, <1>14, <1>15 DEF Emitted
<1>17. ASSUME NEW m \in Mutants
       PROVE  /\ Len(reported'[m]) <= 1
              /\ reported'[m] \in {<<"tested">>, <<"noCoverage">>} => passed'[m] = numCheckers
              /\ reported[m] # << >> => reported'[m] # << >>
              /\ status = "running" => Waits(m, buffer, checkQueue, runBuffer, runQueue) \/ reported'[m] # << >>
  <2>1. CASE m = m0
    <3>1. Len(reported'[m]) <= 1
      <4>1. Len(reported'[m]) = 1
        <5>1. Len(reported'[m0]) = 1
          BY <1>11
        <5> QED BY <2>1, <5>1
      <4> QED BY <4>1
    <3> QED BY <1>3, <1>8, <1>11, <2>1, <3>1
  <2>2. CASE m # m0
    <3>1. reported'[m] = reported[m]
      BY <1>11, <2>2
    <3>2. inputDone > 0
      BY <1>12
    <3> QED BY <1>1, <1>3, <3>1, <3>2 DEF ReportedOnce, NothingIsLost
  <2> QED BY <2>1, <2>2
<1>18. passed' \in [Mutants -> 0..numCheckers]
  BY <1>1, <1>3
<1> QED BY <1>2, <1>3, <1>11, <1>16, <1>17, <1>18, EmittedKeeps

\* A rejected check: the streams from its stage on have failed.
LEMMA CheckRejectsStep ==
    ASSUME StreamInv, NEW i \in CheckersBusy, CheckRejects(i)
    PROVE  StreamsNext
<1> DEFINE k == checkQueue[i].stage
<1>1. /\ TypeOK /\ StagesComplete /\ NothingIsLost /\ numCheckers \in Nat
      /\ i \in 1..Len(checkQueue) /\ checkQueue \in Seq(Jobs) /\ runQueue \in Seq(Mutants)
      /\ connected \in 0..(numCheckers + 1) /\ status \in Statuses
  BY InvFacts, BusyFacts DEF TypeOK, Statuses
<1>2. status \notin {"instrumenting", "dryRun", "idle"}
  BY <1>1, WaitingFacts
<1>3. /\ checkQueue' = RemoveAt(checkQueue, i)
      /\ IF k > connected THEN StayConnected ELSE Disconnect(k - 1)
      /\ UNCHANGED <<configVars, plan, skipped, inputDone, buffer, runBuffer, reported, passed>>
      /\ UNCHANGED <<runQueue, checkerDisposal, shutdown>>
  BY DEF CheckRejects, processVars
<1>4. checkQueue' \in Seq(Jobs) /\ Among(checkQueue', checkQueue)
  BY <1>1, <1>3, RemoveAtFacts, RemoveAtAmong
<1>5. runQueue' \in Seq(Mutants) /\ Among(runQueue', runQueue)
  BY <1>1, <1>3, AmongItself
<1>6. k \in 1..numCheckers
  BY <1>1, JobFacts DEF Stages
<1> HIDE DEF k
<1>7. status = "running" => connected = numCheckers + 1
  BY <1>1 DEF NothingIsLost
<1>8. /\ connected' \in 0..connected /\ status' \in {status, "rejected"}
      /\ status' \in {"reporting", "resolved", "rejected", "crashed"}
  <2>1. CASE k > connected
    <3>1. status # "running" /\ connected' = connected /\ status' = status
      BY <1>1, <1>3, <1>6, <1>7, <2>1 DEF StayConnected
    <3> QED BY <1>1, <1>2, <3>1 DEF Statuses
  <2>2. CASE ~(k > connected)
    <3>1. connected' = k - 1 /\ status' = IF status = "running" THEN "rejected" ELSE status
      BY <1>3, <2>2 DEF Disconnect
    <3>2. connected' \in 0..connected
      BY <1>1, <1>6, <2>2, <3>1
    <3> QED BY <1>1, <1>2, <3>1, <3>2 DEF Statuses
  <2> QED BY <2>1, <2>2
<1>9. shutdown # "none" => status \in {"resolved", "rejected", "crashed"}
  BY <1>1 DEF NothingIsLost, Settled
<1>10. shutdown' # "none" => status' \in {"resolved", "rejected", "crashed"}
  BY <1>3, <1>8, <1>9
<1>11. checkerDisposal' # "none" /\ shutdown' = "none" => inputDone > numCheckers
  BY <1>1, <1>3 DEF StagesComplete
<1> QED BY <1>3, <1>4, <1>5, <1>8, <1>10, <1>11, LosesOnly

\* A rejected run, or a failed init() with items in the pool.
LEMMA RunnersFail ==
    ASSUME StreamInv, Disconnect(Min({connected, numCheckers})), runQueue # << >>,
           UNCHANGED <<configVars, plan, skipped, inputDone, buffer, checkQueue, runBuffer, reported,
                       passed, checkerDisposal, shutdown>>,
           runQueue' \in Seq(Mutants), Among(runQueue', runQueue)
    PROVE  StreamsNext
<1>1. /\ TypeOK /\ StagesComplete /\ NothingIsLost /\ numCheckers \in Nat
      /\ checkQueue \in Seq(Jobs) /\ runQueue \in Seq(Mutants)
      /\ connected \in 0..(numCheckers + 1) /\ status \in Statuses
  BY InvFacts DEF TypeOK, Statuses
<1>2. 1 \in 1..Len(runQueue)
  <2>1. Len(runQueue) \in Nat /\ Len(runQueue) # 0
    BY <1>1, EmptySeq, LenProperties
  <2> QED BY <2>1
<1>3. status \notin {"instrumenting", "dryRun", "idle"}
  BY <1>2, WaitingFacts
<1>4. Min({connected, numCheckers}) \in 0..connected
  <2>1. connected \in Nat
    BY <1>1
  <2> QED BY <1>1, <2>1, MinFacts
<1>5. /\ connected' \in 0..connected /\ status' \in {status, "rejected"}
      /\ status' \in {"reporting", "resolved", "rejected", "crashed"}
  BY <1>1, <1>3, <1>4 DEF Disconnect, Statuses
<1>6. shutdown' # "none" => status' \in {"resolved", "rejected", "crashed"}
  BY <1>1, <1>5 DEF NothingIsLost, Settled
<1>7. checkerDisposal' # "none" /\ shutdown' = "none" => inputDone > numCheckers
  BY <1>1 DEF StagesComplete
<1>8. checkQueue' \in Seq(Jobs) /\ Among(checkQueue', checkQueue)
  BY <1>1, AmongItself
<1> QED BY <1>5, <1>6, <1>7, <1>8, LosesOnly

LEMMA RunRejectsStep ==
    ASSUME StreamInv, NEW i \in RunnersBusy, RunRejects(i)
    PROVE  StreamsNext
<1>1. i \in 1..Len(runQueue) /\ runQueue \in Seq(Mutants)
  BY InvFacts, BusyFacts
<1>2. /\ runQueue' = RemoveAt(runQueue, i) /\ Disconnect(Min({connected, numCheckers}))
      /\ UNCHANGED <<configVars, plan, skipped, inputDone, buffer, checkQueue, runBuffer, reported,
                     passed, checkerDisposal, shutdown>>
  BY DEF RunRejects, processVars
<1>3. runQueue' \in Seq(Mutants) /\ Among(runQueue', runQueue)
  BY <1>1, <1>2, RemoveAtFacts, RemoveAtAmong
<1>4. runQueue # << >>
  <2>1. Len(<< >>) = 0 /\ 1..0 = {}
    OBVIOUS
  <2> QED BY <1>1, <2>1
<1> QED BY <1>2, <1>3, <1>4, RunnersFail

\* What a stopped test runner pool is left with.
LEMMA InProgressFacts ==
    ASSUME TypeOK
    PROVE  InProgress \in Seq(Mutants) /\ Among(InProgress, runQueue)
<1>1. runQueue \in Seq(Mutants) /\ Min({Len(runQueue), ready}) \in 0..Len(runQueue)
  BY BusyFacts DEF TypeOK
<1> QED BY <1>1, PrefixAmong DEF InProgress

LEMMA InitFailsStep == ASSUME StreamInv, RunnerInitFails, runQueue # << >> PROVE StreamsNext
<1>1. TypeOK
  BY InvFacts
<1>2. runQueue' = InProgress /\ Disconnect(Min({connected, numCheckers}))
      /\ UNCHANGED <<configVars, plan, skipped, inputDone, buffer, checkQueue, runBuffer, reported,
                     passed, checkerDisposal, shutdown>>
  BY DEF RunnerInitFails
<1>3. runQueue' \in Seq(Mutants) /\ Among(runQueue', runQueue)
  BY <1>1, <1>2, InProgressFacts
<1> QED BY <1>2, <1>3, RunnersFail

\* The pools lose what they have, once execute() is over; so does a crash.
LEMMA OverStep ==
    ASSUME StreamInv, DisposeTestRunnerPool \/ TestRunnersGone \/ CheckersGone \/ CheckersNotFreed
    PROVE  StreamsNext
<1>1. /\ TypeOK /\ StagesComplete /\ NothingIsLost
      /\ checkQueue \in Seq(Jobs) /\ runQueue \in Seq(Mutants)
      /\ connected \in Nat /\ connected \in 0..connected /\ 0 \in 0..connected
  BY InvFacts DEF TypeOK
<1>2. Among(checkQueue, checkQueue) /\ Among(runQueue, runQueue)
      /\ Among(<< >>, checkQueue) /\ Among(<< >>, runQueue)
      /\ << >> \in Seq(Jobs) /\ << >> \in Seq(Mutants)
  BY <1>1, AmongItself, EmptyAmong
<1>3. shutdown # "none" => status \in {"resolved", "rejected", "crashed"}
  BY <1>1 DEF NothingIsLost, Settled
<1>4. CASE DisposeTestRunnerPool
  <2>1. /\ UNCHANGED <<configVars, plan, skipped, inputDone, buffer, runBuffer, reported, passed>>
        /\ checkQueue' = checkQueue /\ runQueue' = InProgress /\ connected' = connected
        /\ status' = status /\ status \in {"resolved", "rejected"} /\ shutdown' = "runners"
    BY <1>4 DEF DisposeTestRunnerPool
  <2>2. runQueue' \in Seq(Mutants) /\ Among(runQueue', runQueue)
    BY <1>1, <2>1, InProgressFacts
  <2> QED BY <1>1, <1>2, <2>1, <2>2, LosesOnly
<1>5. CASE TestRunnersGone
  <2>1. /\ UNCHANGED <<configVars, plan, skipped, inputDone, buffer, runBuffer, reported, passed>>
        /\ runQueue' = << >> /\ connected' = 0 /\ status' = status
        /\ checkQueue' = SubSeq(checkQueue, 1, Min({Len(checkQueue), checkerTokens}))
        /\ shutdown = "runners" /\ shutdown' # "none"
    BY <1>5 DEF TestRunnersGone, DisposeCheckerPool
  <2>2. checkQueue' \in Seq(Jobs) /\ Among(checkQueue', checkQueue)
    BY <1>1, <2>1, BusyFacts, PrefixAmong
  <2> QED BY <1>1, <1>2, <1>3, <2>1, <2>2, LosesOnly
<1>6. CASE CheckersGone
  <2>1. /\ UNCHANGED <<configVars, plan, skipped, inputDone, buffer, runBuffer, reported, passed>>
        /\ runQueue' = runQueue /\ checkQueue' = << >> /\ connected' = connected /\ status' = status
        /\ shutdown = "checkers" /\ shutdown' = "over"
    BY <1>6 DEF CheckersGone
  <2> QED BY <1>1, <1>2, <1>3, <2>1, LosesOnly
<1>7. CASE CheckersNotFreed
  <2>1. /\ UNCHANGED <<configVars, plan, skipped, inputDone, buffer, runBuffer, reported, passed>>
        /\ runQueue' = runQueue /\ checkQueue' = checkQueue /\ connected' = connected
        /\ status' = "crashed" /\ shutdown' = shutdown /\ checkerDisposal' = checkerDisposal
    BY <1>7 DEF CheckersNotFreed, streamVars, processVars
  <2>2. checkerDisposal' # "none" /\ shutdown' = "none" => inputDone > numCheckers
    BY <1>1, <2>1 DEF StagesComplete
  <2> QED BY <1>1, <1>2, <2>1, <2>2, LosesOnly
<1> QED BY <1>4, <1>5, <1>6, <1>7

\* makePlan() rejects, and no stream is ever subscribed.
LEMMA PlanFailsStep == ASSUME StreamInv, PlanFails PROVE StreamsNext
<1>1. /\ TypeOK /\ StagesComplete /\ NothingIsLost
      /\ checkQueue \in Seq(Jobs) /\ runQueue \in Seq(Mutants) /\ 0 \in 0..connected
  BY InvFacts DEF TypeOK
<1>2. /\ UNCHANGED <<configVars, plan, skipped, inputDone, buffer, runBuffer, reported, passed>>
      /\ runQueue' = runQueue /\ checkQueue' = checkQueue /\ connected' = 0
      /\ status' = "rejected" /\ shutdown' = shutdown /\ checkerDisposal' = checkerDisposal
  BY DEF PlanFails, Disconnect, processVars
<1>3. checkerDisposal' # "none" /\ shutdown' = "none" => inputDone > numCheckers
  BY <1>1, <1>2 DEF StagesComplete
<1> QED BY <1>1, <1>2, <1>3, AmongItself, LosesOnly

\* Steps that leave the streams as they are.
LEMMA Quiet ==
    ASSUME StreamInv, UNCHANGED <<configVars, plan, streamVars, reported, passed>>,
           status' \in Statuses, skipped' \in BOOLEAN,
           checkerDisposal' # "none" /\ shutdown' = "none" => inputDone > numCheckers,
           shutdown' # "none" => status' \in {"resolved", "rejected", "crashed"},
           status' \in {"instrumenting", "dryRun", "idle"} => inputDone = 0,
           status' \in {"instrumenting", "dryRun", "idle", "running"} => connected = numCheckers + 1,
           status' = "running" /\ inputDone > 0 => status = "running",
           status' \in {"reporting", "resolved"} /\ ~skipped' => \A m \in Mutants : reported[m] # << >>
    PROVE  StreamsNext
<1>1. /\ inputDone' = inputDone /\ connected' = connected /\ buffer' = buffer /\ checkQueue' = checkQueue
      /\ runBuffer' = runBuffer /\ runQueue' = runQueue /\ reported' = reported /\ passed' = passed
  BY DEF streamVars
<1>2. TypeOK /\ ReportedOnce /\ StagesComplete /\ NothingIsLost
      /\ InOrder(buffer, checkQueue, runBuffer, runQueue, passed)
      /\ OnePlace(buffer, checkQueue, runBuffer, runQueue)
  BY InvFacts
<1>3. /\ inputDone' \in 0..(numCheckers + 1) /\ connected' \in 0..(numCheckers + 1)
      /\ buffer' \in [Stages -> SUBSET Mutants] /\ checkQueue' \in Seq(Jobs)
      /\ runBuffer' \in SUBSET Mutants /\ runQueue' \in Seq(Mutants)
      /\ reported' \in [Mutants -> Seq(Kinds)] /\ passed' \in [Mutants -> 0..numCheckers]
  BY <1>1, <1>2 DEF TypeOK, Kinds
<1>4. \A m \in Mutants :
        /\ Len(reported'[m]) <= 1
        /\ reported'[m] # << >> => ~Waits(m, buffer', checkQueue', runBuffer', runQueue')
        /\ reported'[m] \in {<<"tested">>, <<"noCoverage">>} => passed'[m] = numCheckers
  BY <1>1, <1>2 DEF ReportedOnce
<1>5. /\ inputDone' = 0 => checkQueue' = << >> /\ \A m \in Mutants :
        /\ ~Waits(m, buffer', checkQueue', runBuffer', runQueue')
        /\ reported'[m] = << >> /\ passed'[m] = 0
      /\ \A i \in 1..Len(checkQueue') : checkQueue'[i].stage >= inputDone'
      /\ \A k \in Stages : k <= inputDone' => buffer'[k] = {}
      /\ inputDone' > numCheckers /\ connected' > numCheckers => runBuffer' = {}
  BY <1>1, <1>2 DEF StagesComplete
<1>6. status' = "running" /\ inputDone' > 0 => \A m \in Mutants :
        Waits(m, buffer', checkQueue', runBuffer', runQueue') \/ reported'[m] # << >>
  BY <1>1, <1>2 DEF NothingIsLost
<1> QED BY <1>1, <1>2, <1>3, <1>4, <1>5, <1>6 DEF StreamsNext

\* Before the plans are made, and after the results are in.
LEMMA PhaseSteps ==
    ASSUME StreamInv,
           InitCheckerPool \/ DryRun \/ Skip \/ Execute \/ WrapUp \/ DisposeFails
           \/ RunnerReady \/ UNCHANGED vars
    PROVE  StreamsNext
<1>1. /\ TypeOK /\ StagesComplete /\ NothingIsLost /\ status \in Statuses /\ skipped \in BOOLEAN
  BY InvFacts DEF TypeOK, Statuses
<1>2. /\ checkerDisposal # "none" /\ shutdown = "none" => inputDone > numCheckers
      /\ shutdown # "none" => status \in {"resolved", "rejected", "crashed"}
      /\ status \in {"instrumenting", "dryRun", "idle"} => inputDone = 0
      /\ status \in {"instrumenting", "dryRun", "idle", "running"} => connected = numCheckers + 1
      /\ status \in {"reporting", "resolved"} /\ ~skipped => \A m \in Mutants : reported[m] # << >>
  BY <1>1 DEF StagesComplete, NothingIsLost, Settled
<1>3. CASE InitCheckerPool
  <2>1. /\ UNCHANGED <<configVars, plan, streamVars, reported, passed>>
        /\ status = "instrumenting" /\ status' \in {"dryRun", "rejected"}
        /\ skipped' = skipped /\ checkerDisposal' = checkerDisposal /\ shutdown' = shutdown
    BY <1>3 DEF InitCheckerPool
  <2>2. status' \in Statuses /\ shutdown' = "none" /\ status' \notin {"reporting", "resolved", "running"}
    BY <1>2, <2>1 DEF Statuses
  <2>3. inputDone = 0 /\ connected = numCheckers + 1
    BY <1>2, <2>1
  <2> QED BY <1>1, <1>2, <2>1, <2>2, <2>3, Quiet
<1>4. CASE DryRun
  <2>1. /\ UNCHANGED <<configVars, plan, streamVars, reported, passed>>
        /\ status = "dryRun" /\ status' \in {"idle", "rejected"}
        /\ skipped' = skipped /\ checkerDisposal' = checkerDisposal /\ shutdown' = shutdown
    BY <1>4 DEF DryRun
  <2>2. status' \in Statuses /\ shutdown' = "none" /\ status' \notin {"reporting", "resolved", "running"}
    BY <1>2, <2>1 DEF Statuses
  <2>3. inputDone = 0 /\ connected = numCheckers + 1
    BY <1>2, <2>1
  <2> QED BY <1>1, <1>2, <2>1, <2>2, <2>3, Quiet
<1>5. CASE Skip
  <2>1. /\ UNCHANGED <<configVars, plan, streamVars, reported, passed>>
        /\ status = "idle" /\ status' = "resolved" /\ skipped' = TRUE
        /\ checkerDisposal' = checkerDisposal /\ shutdown' = shutdown
    BY <1>5 DEF Skip, processVars
  <2> QED BY <1>1, <1>2, <2>1, Quiet DEF Statuses
<1>6. CASE Execute
  <2>1. /\ UNCHANGED <<configVars, plan, streamVars, reported, passed>>
        /\ status = "idle" /\ status' = "running" /\ skipped' = skipped
        /\ checkerDisposal' = checkerDisposal /\ shutdown' = shutdown
    BY <1>6 DEF Execute, processVars
  <2>2. shutdown' = "none" /\ inputDone = 0 /\ connected = numCheckers + 1 /\ status' \in Statuses
    BY <1>2, <2>1 DEF Statuses
  <2> QED BY <1>1, <1>2, <2>1, <2>2, Quiet
<1>7. CASE WrapUp
  <2>1. /\ UNCHANGED <<configVars, plan, streamVars, reported, passed>>
        /\ status = "reporting" /\ status' \in {"resolved", "rejected"} /\ skipped' = skipped
        /\ checkerDisposal' = checkerDisposal /\ shutdown' = shutdown
    BY <1>7 DEF WrapUp, processVars
  <2>2. status' \in Statuses /\ status' \notin {"instrumenting", "dryRun", "idle", "running"}
    BY <2>1 DEF Statuses
  <2> QED BY <1>1, <1>2, <2>1, <2>2, Quiet
<1>8. CASE DisposeFails
  <2>1. /\ UNCHANGED <<configVars, plan, streamVars, reported, passed>>
        /\ status' = status /\ skipped' = skipped /\ checkerDisposal' = checkerDisposal
        /\ shutdown # "none" /\ shutdown' = "failed"
    BY <1>8 DEF DisposeFails, processVars
  <2> QED BY <1>1, <1>2, <2>1, Quiet
<1>9. CASE RunnerReady
  <2>1. /\ UNCHANGED <<configVars, plan, streamVars, reported, passed>>
        /\ status' = status /\ skipped' = skipped /\ checkerDisposal' = checkerDisposal
        /\ shutdown' = shutdown
    BY <1>9 DEF RunnerReady
  <2> QED BY <1>1, <1>2, <2>1, Quiet
<1>10. CASE UNCHANGED vars
  <2>1. /\ UNCHANGED <<configVars, plan, streamVars, reported, passed>>
        /\ status' = status /\ skipped' = skipped /\ checkerDisposal' = checkerDisposal
        /\ shutdown' = shutdown
    BY <1>10 DEF vars, processVars
  <2> QED BY <1>1, <1>2, <2>1, Quiet
<1> QED BY <1>3, <1>4, <1>5, <1>6, <1>7, <1>8, <1>9, <1>10

\* The checkers have gone, or a test runner failed that had nothing to do.
LEMMA ProcessSteps ==
    ASSUME StreamInv, CheckersFreed \/ (RunnerInitFails /\ runQueue = << >>)
    PROVE  StreamsNext
<1>1. /\ TypeOK /\ StagesComplete /\ NothingIsLost /\ status \in Statuses /\ skipped \in BOOLEAN
      /\ runQueue \in Seq(Mutants)
  BY InvFacts DEF TypeOK, Statuses
<1>2. /\ checkerDisposal # "none" /\ shutdown = "none" => inputDone > numCheckers
      /\ shutdown # "none" => status \in {"resolved", "rejected", "crashed"}
      /\ status \in {"instrumenting", "dryRun", "idle"} => inputDone = 0
      /\ status \in {"instrumenting", "dryRun", "idle", "running"} => connected = numCheckers + 1
      /\ status \in {"reporting", "resolved"} /\ ~skipped => \A m \in Mutants : reported[m] # << >>
  BY <1>1 DEF StagesComplete, NothingIsLost, Settled
<1>3. CASE CheckersFreed
  <2>1. /\ UNCHANGED <<configVars, plan, streamVars, reported, passed>>
        /\ status' = status /\ skipped' = skipped /\ checkerDisposal = "freeing"
        /\ shutdown' = shutdown
    BY <1>3 DEF CheckersFreed
  <2> QED BY <1>1, <1>2, <2>1, Quiet
<1>4. CASE RunnerInitFails /\ runQueue = << >>
  <2>1. InProgress \in Seq(Mutants) /\ Among(InProgress, runQueue)
    BY <1>1, InProgressFacts
  <2>2. InProgress = << >>
    BY <1>4, <2>1, AmongNothing
  <2>3. /\ UNCHANGED <<configVars, plan, skipped, inputDone, buffer, checkQueue, runBuffer, reported,
                       passed, checkerDisposal, shutdown>>
        /\ UNCHANGED <<connected, status>> /\ runQueue' = runQueue
    BY <1>4, <2>2 DEF RunnerInitFails, StayConnected
  <2>4. UNCHANGED streamVars
    BY <2>3 DEF streamVars
  <2> QED BY <1>1, <1>2, <2>3, <2>4, Quiet
<1> QED BY <1>3, <1>4

\* merge() completes only when no mutant is on its way.
LEMMA AllResultsStep == ASSUME StreamInv, AllResults PROVE StreamsNext
<1>1. /\ TypeOK /\ StagesComplete /\ NothingIsLost /\ numCheckers \in Nat
      /\ checkQueue \in Seq(Jobs) /\ skipped \in BOOLEAN
  BY InvFacts DEF TypeOK
<1>2. /\ UNCHANGED <<configVars, plan, streamVars, reported, passed>>
      /\ status = "running" /\ status' = "reporting" /\ skipped' = skipped
      /\ inputDone = numCheckers + 1 /\ runQueue = << >>
      /\ checkerDisposal' = checkerDisposal /\ shutdown' = shutdown
  BY DEF AllResults, processVars
<1>3. connected = numCheckers + 1 /\ shutdown = "none" /\ inputDone > 0
  BY <1>1, <1>2 DEF NothingIsLost, Settled
<1>4. ASSUME NEW m \in Mutants
      PROVE  ~Waits(m, buffer, checkQueue, runBuffer, runQueue)
  <2>1. \A k \in Stages : buffer[k] = {}
    BY <1>1, <1>2 DEF StagesComplete, Stages
  <2>2. \A i \in 1..Len(checkQueue) : FALSE
    <3> SUFFICES ASSUME NEW i \in 1..Len(checkQueue)
                 PROVE  FALSE
      OBVIOUS
    <3>1. checkQueue[i].stage \in 1..numCheckers
      BY <1>1, JobFacts DEF Stages
    <3>2. checkQueue[i].stage >= numCheckers + 1
      BY <1>1, <1>2 DEF StagesComplete
    <3> QED BY <1>1, <3>1, <3>2
  <2>3. runBuffer = {}
    BY <1>1, <1>2, <1>3 DEF StagesComplete
  <2>4. \A i \in 1..Len(runQueue) : FALSE
    BY <1>2
  <2> QED BY <2>1, <2>2, <2>3, <2>4 DEF Waits
<1>5. \A m \in Mutants : reported[m] # << >>
  BY <1>1, <1>2, <1>3, <1>4 DEF NothingIsLost
<1>6. /\ status' \in Statuses /\ inputDone > numCheckers
  BY <1>1, <1>2 DEF Statuses
<1> QED BY <1>1, <1>2, <1>3, <1>5, <1>6, Quiet

-----------------------------------------------------------------------------
(* The tokens in use *)

\* ProcessTypes and SharesInv of the next state.
SharesNext ==
    /\ checkers' \in {0, checkerTokens} /\ runners' \in Nat /\ ready' \in 0..runners'
    /\ checkerDisposal' \in {"none", "freeing", "stopping", "done"}
    /\ poolFailed' \in BOOLEAN
    /\ shutdown' \in {"none", "runners", "checkers", "over", "failed"}
    /\ (status' = "instrumenting" \/ checkerDisposal' = "done") => checkers' = 0
    /\ status' \in {"instrumenting", "dryRun"} => runners' = 0 /\ poolFailed' = FALSE
    /\ status' \in {"idle", "running"} => runners' # 0
    /\ inputDone' > 0 /\ shutdown' = "none" => runners' # 0
    /\ shutdown' = "none" => checkerDisposal' # "stopping"
    /\ \/ runners' \in {0, concurrencyTestRunners}
       \/ (checkerDisposal' = "done" /\ runners' = concurrencyTestRunners + concurrencyCheckers)
    /\ shutdown' \in {"checkers", "over"} => runners' = 0
    /\ numCheckers > 0 /\ checkerDisposal' = "done" /\ shutdown' = "none" /\ poolFailed' = FALSE =>
         runners' = concurrencyTestRunners + concurrencyCheckers

LEMMA SharesNextFacts ==
    ASSUME TypeOK, UNCHANGED configVars, SharesNext
    PROVE  ProcessTypes' /\ SharesInv'
<1>1. numCheckers' = numCheckers /\ concurrency' = concurrency
  BY DEF configVars
<1>2. /\ checkerTokens' = checkerTokens /\ concurrencyCheckers' = concurrencyCheckers
      /\ concurrencyTestRunners' = concurrencyTestRunners
  BY <1>1 DEF checkerTokens, concurrencyCheckers, concurrencyTestRunners
<1>3. checkers' \in Nat
  BY TokenFacts DEF SharesNext
<1>4. ProcessTypes'
  BY <1>3 DEF SharesNext, ProcessTypes
<1>5. poolFailed' \in BOOLEAN
  BY DEF SharesNext
<1>6. status' \in {"instrumenting", "dryRun"} => ~poolFailed'
  <2>1. status' \in {"instrumenting", "dryRun"} => poolFailed' = FALSE
    BY DEF SharesNext
  <2> QED BY <2>1
<1>7. ShareHandedOver'
  <2>1. ~poolFailed' => poolFailed' = FALSE
    BY <1>5
  <2> QED BY <1>1, <1>2, <2>1 DEF SharesNext, ShareHandedOver
<1>8. RunnersStayGone'
  BY DEF SharesNext, RunnersStayGone
<1> QED BY <1>2, <1>4, <1>6, <1>7, <1>8 DEF SharesNext, SharesInv

\* What the invariants say of the processes, for arithmetic to use.
LEMMA SharesNow ==
    ASSUME StreamInv, SharesInv
    PROVE  /\ checkers \in {0, checkerTokens} /\ runners \in Nat /\ ready \in 0..runners
           /\ checkerDisposal \in {"none", "freeing", "stopping", "done"}
           /\ poolFailed \in BOOLEAN
           /\ shutdown \in {"none", "runners", "checkers", "over", "failed"}
           /\ inputDone \in Nat /\ numCheckers \in Nat
           /\ checkerTokens \in Nat \ {0} /\ concurrencyCheckers \in Nat
           /\ concurrencyTestRunners \in Nat \ {0}
           /\ (status = "instrumenting" \/ checkerDisposal = "done") => checkers = 0
           /\ status \in {"instrumenting", "dryRun"} => runners = 0 /\ poolFailed = FALSE
           /\ status \in {"idle", "running"} => runners # 0
           /\ inputDone > 0 /\ shutdown = "none" => runners # 0
           /\ shutdown = "none" => checkerDisposal # "stopping"
           /\ \/ runners \in {0, concurrencyTestRunners}
              \/ (checkerDisposal = "done" /\ runners = concurrencyTestRunners + concurrencyCheckers)
           /\ shutdown \in {"checkers", "over"} => runners = 0
           /\ numCheckers > 0 /\ checkerDisposal = "done" /\ shutdown = "none" /\ poolFailed = FALSE =>
                runners = concurrencyTestRunners + concurrencyCheckers
           /\ status \in {"instrumenting", "dryRun", "idle", "running", "reporting"} => shutdown = "none"
           /\ status \in {"instrumenting", "dryRun", "idle"} =>
                inputDone = 0 /\ checkerDisposal = "none"
           /\ checkerDisposal # "none" /\ shutdown = "none" => inputDone > 0
<1>1. TypeOK /\ StagesComplete /\ NothingIsLost
  BY InvFacts
<1>2. /\ checkerTokens \in Nat \ {0} /\ concurrencyCheckers \in Nat
      /\ concurrencyTestRunners \in Nat \ {0}
  BY <1>1, TokenFacts
<1>3. /\ runners \in Nat /\ ready \in 0..runners /\ poolFailed \in BOOLEAN
      /\ checkerDisposal \in {"none", "freeing", "stopping", "done"}
      /\ shutdown \in {"none", "runners", "checkers", "over", "failed"}
      /\ inputDone \in Nat /\ numCheckers \in Nat
  BY <1>1 DEF TypeOK
<1>4. /\ status \in {"instrumenting", "dryRun", "idle", "running", "reporting"} => shutdown = "none"
      /\ checkerDisposal # "none" /\ shutdown = "none" => inputDone > 0
  BY <1>1, <1>3 DEF StagesComplete, NothingIsLost, Settled
<1>5. status \in {"instrumenting", "dryRun", "idle"} => inputDone = 0 /\ checkerDisposal = "none"
  BY <1>1, <1>3, <1>4 DEF NothingIsLost
<1>6. /\ poolFailed = FALSE => ~poolFailed
      /\ ~poolFailed => poolFailed = FALSE
  BY <1>3
<1>7. /\ status \in {"instrumenting", "dryRun"} => runners = 0 /\ ~poolFailed
      /\ numCheckers > 0 /\ checkerDisposal = "done" /\ shutdown = "none" /\ ~poolFailed =>
            runners = concurrencyTestRunners + concurrencyCheckers
  BY DEF SharesInv, ShareHandedOver
<1>8. /\ status \in {"instrumenting", "dryRun"} => runners = 0 /\ poolFailed = FALSE
      /\ numCheckers > 0 /\ checkerDisposal = "done" /\ shutdown = "none" /\ poolFailed = FALSE =>
            runners = concurrencyTestRunners + concurrencyCheckers
  BY <1>6, <1>7
<1> QED BY <1>2, <1>3, <1>4, <1>5, <1>8 DEF SharesInv, RunnersStayGone

\* A step of the streams starts and ends no process.
StreamStep ==
    /\ UNCHANGED <<checkers, runners, ready, poolFailed, shutdown>>
    /\ checkerDisposal' = checkerDisposal \/ (checkerDisposal = "none" /\ checkerDisposal' = "freeing")
    /\ status' = status \/ status' = "rejected"
    /\ inputDone' = inputDone \/ inputDone # 0 \/ status = "running"

LEMMA StreamStepShares ==
    ASSUME StreamInv, SharesInv, StreamStep
    PROVE  SharesNext
<1>1. /\ checkers' = checkers /\ runners' = runners /\ ready' = ready
      /\ poolFailed' = poolFailed /\ shutdown' = shutdown
  BY DEF StreamStep
<1>2. inputDone' > 0 /\ shutdown = "none" => runners # 0
  BY SharesNow DEF StreamStep
<1>3. checkerDisposal' \in {checkerDisposal, "freeing"}
      /\ (checkerDisposal' # checkerDisposal => checkerDisposal = "none" /\ checkerDisposal' = "freeing")
  BY DEF StreamStep
<1>4. status' \in {status, "rejected"}
  BY DEF StreamStep
<1> QED BY <1>1, <1>2, <1>3, <1>4, SharesNow DEF SharesNext

LEMMA PassOnSteps ==
    ASSUME NEW k, NEW plans, NEW queue, PassOn(k, plans, queue)
    PROVE  /\ checkerDisposal' = checkerDisposal \/ (checkerDisposal = "none" /\ checkerDisposal' = "freeing")
           /\ status' = status \/ status' = "rejected"
<1>1. CASE Ignore(queue)
  BY <1>1 DEF Ignore, StayConnected
<1>2. CASE PassToChecker(k, plans, queue)
  BY <1>2 DEF PassToChecker, StayConnected
<1>3. CASE PassToRunners(plans, queue)
  BY <1>3 DEF PassToRunners, RunPlans, Disconnect, StayConnected
<1> QED BY <1>1, <1>2, <1>3 DEF PassOn

LEMMA StreamsShare ==
    ASSUME StreamInv, SharesInv,
           \/ PlanFails \/ PlansMade \/ SortTimer
           \/ \E k \in Stages : TimerFlush(k)
           \/ CheckSettles \/ RunSettles
    PROVE  SharesNext
<1>1. CASE PlanFails
  BY <1>1, StreamStepShares DEF PlanFails, Disconnect, processVars, StreamStep
<1>2. CASE PlansMade
  <2>1. /\ \E k, plans, queue : PassOn(k, plans, queue)
        /\ status = "running" /\ UNCHANGED <<checkers, runners, ready, poolFailed, shutdown>>
    BY <1>2 DEF PlansMade
  <2>2. PICK k, plans, queue : PassOn(k, plans, queue)
    BY <2>1
  <2>3. /\ checkerDisposal' = checkerDisposal \/ (checkerDisposal = "none" /\ checkerDisposal' = "freeing")
        /\ status' = status \/ status' = "rejected"
    BY <2>2, PassOnSteps
  <2> QED BY <2>1, <2>3, StreamStepShares DEF StreamStep
<1>3. CASE SortTimer
  <2>1. /\ UNCHANGED <<checkers, runners, ready, poolFailed, shutdown, checkerDisposal, inputDone>>
        /\ status' = status \/ status' = "rejected"
    BY <1>3 DEF SortTimer, RunPlans, Disconnect, StayConnected, processVars
  <2> QED BY <2>1, StreamStepShares DEF StreamStep
<1>4. CASE \E k \in Stages : TimerFlush(k)
  <2>1. UNCHANGED <<checkers, runners, ready, poolFailed, shutdown, checkerDisposal, inputDone, status>>
    BY <1>4 DEF TimerFlush, processVars
  <2> QED BY <2>1, StreamStepShares DEF StreamStep
<1>5. CASE CheckSettles
  <2>1. PICK i \in CheckersBusy : GroupEnds(i) \/ CheckEnds(i) \/ CheckRejects(i)
    BY <1>5 DEF CheckSettles
  <2>2. inputDone # 0
    BY <2>1, InvFacts, BusyFacts, WaitingFacts
  <2>3. CASE GroupEnds(i)
    <3>1. /\ (\E q : Ignore(q)) \/ \E k, plans, q : PassOn(k, plans, q)
          /\ UNCHANGED <<checkers, runners, ready, poolFailed, shutdown>>
      BY <2>3 DEF GroupEnds
    <3>2. CASE \E q : Ignore(q)
      BY <3>1, <3>2, StreamStepShares DEF Ignore, StayConnected, StreamStep
    <3>3. CASE \E k, plans, q : PassOn(k, plans, q)
      BY <2>2, <3>1, <3>3, PassOnSteps, StreamStepShares DEF StreamStep
    <3> QED BY <3>1, <3>2, <3>3
  <2>4. CASE CheckEnds(i)
    <3>1. /\ \E k, plans, q : PassOn(k, plans, q)
          /\ UNCHANGED <<checkers, runners, ready, poolFailed, shutdown>>
      BY <2>4 DEF CheckEnds
    <3> QED BY <2>2, <3>1, PassOnSteps, StreamStepShares DEF StreamStep
  <2>5. CASE CheckRejects(i)
    <3>1. /\ UNCHANGED <<checkers, runners, ready, poolFailed, shutdown, checkerDisposal, inputDone>>
          /\ status' = status \/ status' = "rejected"
      BY <2>5 DEF CheckRejects, Disconnect, StayConnected, processVars
    <3> QED BY <3>1, StreamStepShares DEF StreamStep
  <2> QED BY <2>1, <2>3, <2>4, <2>5
<1>6. CASE RunSettles
  <2>1. PICK i \in RunnersBusy : RunEnds(i) \/ RunRejects(i)
    BY <1>6 DEF RunSettles
  <2>2. /\ UNCHANGED <<checkers, runners, ready, poolFailed, shutdown, checkerDisposal, inputDone>>
        /\ status' = status \/ status' = "rejected"
    BY <2>1 DEF RunEnds, RunRejects, Disconnect, processVars
  <2> QED BY <2>2, StreamStepShares DEF StreamStep
<1> QED BY <1>1, <1>2, <1>3, <1>4, <1>5, <1>6

\* The phases of the run: the first checkers, the first test runners.
LEMMA PhasesShare ==
    ASSUME StreamInv, SharesInv,
           InitCheckerPool \/ DryRun \/ Skip \/ Execute \/ AllResults \/ WrapUp \/ UNCHANGED vars
    PROVE  SharesNext
<1>1. CASE InitCheckerPool
  <2>1. /\ status = "instrumenting" /\ checkers' = checkerTokens /\ status' \in {"dryRun", "rejected"}
        /\ inputDone' = inputDone /\ runners' = runners /\ ready' = ready /\ poolFailed' = poolFailed
        /\ checkerDisposal' = checkerDisposal /\ shutdown' = shutdown
    BY <1>1 DEF InitCheckerPool, streamVars
  <2> QED BY <2>1, SharesNow DEF SharesNext
<1>2. CASE DryRun
  <2>1. /\ status = "dryRun" /\ runners' = concurrencyTestRunners /\ ready' \in 0..concurrencyTestRunners
        /\ status' \in {"idle", "rejected"} /\ poolFailed' \in BOOLEAN
        /\ inputDone' = inputDone /\ checkers' = checkers
        /\ checkerDisposal' = checkerDisposal /\ shutdown' = shutdown
    BY <1>2 DEF DryRun, streamVars
  <2> QED BY <2>1, SharesNow DEF SharesNext
<1>3. CASE Skip \/ Execute \/ AllResults \/ WrapUp
  <2>1. /\ status' \in {"resolved", "rejected", "reporting"} \/ (status = "idle" /\ status' = "running")
        /\ UNCHANGED <<inputDone, checkers, runners, ready, poolFailed, checkerDisposal, shutdown>>
    BY <1>3 DEF Skip, Execute, AllResults, WrapUp, streamVars, processVars
  <2>2. /\ checkers' = checkers /\ runners' = runners /\ ready' = ready /\ poolFailed' = poolFailed
        /\ checkerDisposal' = checkerDisposal /\ shutdown' = shutdown /\ inputDone' = inputDone
    BY <2>1
  <2>3. status' \notin {"instrumenting", "dryRun", "idle"}
        /\ (status' = "running" => status = "idle")
    BY <2>1
  <2> QED BY <2>2, <2>3, SharesNow DEF SharesNext
<1>4. CASE UNCHANGED vars
  <2>1. StreamStep
    BY <1>4 DEF vars, streamVars, processVars, StreamStep
  <2> QED BY <2>1, StreamStepShares
<1> QED BY <1>1, <1>2, <1>3, <1>4

\* Test runners become ready or fail; the checkers hand over their tokens.
LEMMA HandingOver ==
    ASSUME StreamInv, SharesInv, RunnerSettles \/ CheckersLeave
    PROVE  SharesNext
<1>1. CASE RunnerReady
  <2>1. /\ ready < runners /\ ready' = ready + 1 /\ status' = status /\ inputDone' = inputDone
        /\ checkers' = checkers /\ runners' = runners /\ poolFailed' = poolFailed
        /\ checkerDisposal' = checkerDisposal /\ shutdown' = shutdown
    BY <1>1 DEF RunnerReady, streamVars
  <2>2. ready' \in 0..runners
    BY <2>1, SharesNow
  <2> QED BY <2>1, <2>2, SharesNow DEF SharesNext
<1>2. CASE RunnerInitFails
  <2>1. /\ ready < runners /\ poolFailed' = TRUE /\ status' \in {status, "rejected"}
        /\ ready' = ready /\ inputDone' = inputDone /\ checkers' = checkers /\ runners' = runners
        /\ checkerDisposal' = checkerDisposal /\ shutdown' = shutdown
    BY <1>2 DEF RunnerInitFails, StayConnected, Disconnect
  <2>2. status \notin {"instrumenting", "dryRun"}
    <3>1. runners \in Nat /\ ready \in 0..runners
      BY SharesNow
    <3>2. runners # 0
      BY <2>1, <3>1
    <3>3. status \in {"instrumenting", "dryRun"} => runners = 0
      BY SharesNow
    <3> QED BY <3>2, <3>3
  <2> QED BY <2>1, <2>2, SharesNow DEF SharesNext
<1>3. CASE CheckersFreed
  <2>1. /\ checkerDisposal = "freeing" /\ checkers' = 0 /\ checkerDisposal' = "done"
        /\ status' = status /\ inputDone' = inputDone /\ ready' = ready
        /\ poolFailed' = poolFailed /\ shutdown' = shutdown
        /\ runners' = IF shutdown = "none" /\ ~poolFailed THEN runners + concurrencyCheckers ELSE runners
    BY <1>3 DEF CheckersFreed, FreeCheckers, streamVars
  <2>2. status \notin {"instrumenting", "dryRun", "idle"} /\ runners \in {0, concurrencyTestRunners}
    BY <2>1, SharesNow
  <2>3. CASE shutdown = "none" /\ poolFailed = FALSE
    <3>1. runners' = runners + concurrencyCheckers
      BY <2>1, <2>3
    <3>2. runners = concurrencyTestRunners
      BY <2>1, <2>2, <2>3, SharesNow
    <3>3. runners' \in Nat /\ runners' # 0 /\ ready' \in 0..runners'
      BY <2>1, <3>1, <3>2, SharesNow
    <3> QED BY <2>1, <2>2, <2>3, <3>1, <3>2, <3>3, SharesNow DEF SharesNext
  <2>4. CASE ~(shutdown = "none" /\ poolFailed = FALSE)
    <3>1. poolFailed = TRUE \/ poolFailed = FALSE
      BY SharesNow
    <3>2. runners' = runners
      BY <2>1, <2>4, <3>1
    <3> QED BY <2>1, <2>2, <2>4, <3>1, <3>2, SharesNow DEF SharesNext
  <2> QED BY <2>3, <2>4
<1>4. CASE CheckersNotFreed
  <2>1. /\ status' = "crashed"
        /\ UNCHANGED <<inputDone, checkers, runners, ready, poolFailed, checkerDisposal, shutdown>>
    BY <1>4 DEF CheckersNotFreed, streamVars, processVars
  <2> QED BY <2>1, SharesNow DEF SharesNext
<1> QED BY <1>1, <1>2, <1>3, <1>4 DEF RunnerSettles, CheckersLeave

\* The pools are disposed, the test runners' one first.
LEMMA ShutdownShares ==
    ASSUME StreamInv, SharesInv, Shutdown
    PROVE  SharesNext
<1>1. CASE DisposeTestRunnerPool \/ DisposeFails
  <2>1. /\ shutdown' \in {"runners", "failed"} /\ status' = status
        /\ UNCHANGED <<inputDone, checkers, runners, ready, poolFailed, checkerDisposal>>
    BY <1>1 DEF DisposeTestRunnerPool, DisposeFails, streamVars, processVars
  <2>2. /\ checkers' = checkers /\ runners' = runners /\ ready' = ready /\ poolFailed' = poolFailed
        /\ checkerDisposal' = checkerDisposal /\ inputDone' = inputDone
    BY <2>1
  <2> QED BY <2>1, <2>2, SharesNow DEF SharesNext
<1>2. CASE TestRunnersGone
  <2>1. /\ shutdown = "runners" /\ shutdown' \in {"checkers", "over"} /\ runners' = 0 /\ ready' = 0
        /\ checkerDisposal' = checkerDisposal \/ checkerDisposal' = "stopping"
        /\ status' = status /\ checkers' = checkers /\ poolFailed' = poolFailed
    BY <1>2 DEF TestRunnersGone, DisposeCheckerPool
  <2>2. status \notin {"instrumenting", "dryRun", "idle", "running"}
    BY <2>1, SharesNow
  <2> QED BY <2>1, <2>2, SharesNow DEF SharesNext
<1>3. CASE CheckersGone
  <2>1. /\ shutdown = "checkers" /\ shutdown' = "over" /\ checkers' = 0 /\ checkerDisposal' = "done"
        /\ UNCHANGED <<status, inputDone, runners, ready, poolFailed>>
    BY <1>3 DEF CheckersGone
  <2> QED BY <2>1, SharesNow DEF SharesNext
<1> QED BY <1>1, <1>2, <1>3 DEF Shutdown

-----------------------------------------------------------------------------
(* The theorems *)

LEMMA StreamsStep ==
    ASSUME StreamInv, [Next]_vars
    PROVE  StreamsNext
<1>1. CASE InitCheckerPool \/ DryRun \/ Skip \/ Execute \/ WrapUp \/ UNCHANGED vars
  BY <1>1, PhaseSteps
<1>2. CASE PlanFails
  BY <1>2, PlanFailsStep
<1>3. CASE PlansMade
  BY <1>3, PlansMadeStep
<1>4. CASE AllResults
  BY <1>4, AllResultsStep
<1>5. CASE \E k \in Stages : TimerFlush(k)
  BY <1>5, FlushStep
<1>6. CASE CheckSettles
  BY <1>6, GroupStep, CheckStep, CheckRejectsStep DEF CheckSettles
<1>7. CASE CheckersLeave
  BY <1>7, ProcessSteps, OverStep DEF CheckersLeave
<1>8. CASE SortTimer
  BY <1>8, SortStep
<1>9. CASE RunSettles
  BY <1>9, RunStep, RunRejectsStep DEF RunSettles
<1>10. CASE RunnerSettles
  BY <1>10, PhaseSteps, ProcessSteps, InitFailsStep DEF RunnerSettles
<1>11. CASE Shutdown
  BY <1>11, OverStep, PhaseSteps DEF Shutdown
<1> QED BY <1>1, <1>2, <1>3, <1>4, <1>5, <1>6, <1>7, <1>8, <1>9, <1>10, <1>11 DEF Next

LEMMA SharesStep ==
    ASSUME StreamInv, SharesInv, [Next]_vars
    PROVE  SharesNext
<1>1. CASE InitCheckerPool \/ DryRun \/ Skip \/ Execute \/ AllResults \/ WrapUp \/ UNCHANGED vars
  BY <1>1, PhasesShare
<1>2. CASE PlanFails \/ PlansMade \/ SortTimer \/ (\E k \in Stages : TimerFlush(k))
           \/ CheckSettles \/ RunSettles
  BY <1>2, StreamsShare
<1>3. CASE RunnerSettles \/ CheckersLeave
  BY <1>3, HandingOver
<1>4. CASE Shutdown
  BY <1>4, ShutdownShares
<1> QED BY <1>1, <1>2, <1>3, <1>4 DEF Next

\* What the planner decided and what was configured never changes.
LEMMA NothingReconfigured ==
    ASSUME [Next]_vars
    PROVE  UNCHANGED <<configVars, plan>>
<1>1. CASE InitCheckerPool \/ DryRun \/ Skip \/ Execute \/ PlanFails \/ PlansMade \/ AllResults \/ WrapUp
  BY <1>1 DEF InitCheckerPool, DryRun, Skip, Execute, PlanFails, PlansMade, AllResults, WrapUp
<1>2. CASE (\E k \in Stages : TimerFlush(k)) \/ CheckSettles \/ CheckersLeave
  BY <1>2 DEF TimerFlush, CheckSettles, GroupEnds, CheckEnds, CheckRejects, CheckersLeave,
              CheckersFreed, CheckersNotFreed
<1>3. CASE SortTimer \/ RunSettles \/ RunnerSettles
  BY <1>3 DEF SortTimer, RunSettles, RunEnds, RunRejects, RunnerSettles, RunnerReady, RunnerInitFails
<1>4. CASE Shutdown
  BY <1>4 DEF Shutdown, DisposeTestRunnerPool, DisposeFails, TestRunnersGone, CheckersGone
<1>5. CASE UNCHANGED vars
  BY <1>5 DEF vars
<1> QED BY <1>1, <1>2, <1>3, <1>4, <1>5 DEF Next

LEMMA InitStreams == Init => StreamInv
<1> SUFFICES ASSUME Init PROVE StreamInv
  OBVIOUS
<1> USE DEF Init
<1>1. /\ numCheckers \in Nat /\ concurrency \in Nat /\ MaxCheckers \in Nat
      /\ checkQueue = << >> /\ runQueue = << >> /\ runBuffer = {}
      /\ inputDone = 0 /\ connected = numCheckers + 1 /\ checkerDisposal = "none" /\ shutdown = "none"
  BY MaxCheckersAssumption, MaxConcurrencyAssumption
<1>2. \A k \in Stages : buffer[k] = {}
  OBVIOUS
<1>3. /\ \A i \in 1..Len(checkQueue) : FALSE
      /\ \A i \in 1..Len(runQueue) : FALSE
  BY <1>1
<1>4. TypeOK
  <2>1. /\ inputDone \in 0..(numCheckers + 1) /\ connected \in 0..(numCheckers + 1)
        /\ checkQueue \in Seq(Jobs) /\ runQueue \in Seq(Mutants)
    BY <1>1
  <2>2. /\ buffer \in [Stages -> SUBSET Mutants] /\ runBuffer \in SUBSET Mutants
        /\ reported \in [Mutants -> Seq({"early", "checkFailed", "noCoverage", "tested"})]
        /\ passed \in [Mutants -> 0..numCheckers]
    BY <1>1
  <2>3. checkers \in Nat /\ runners \in Nat /\ ready \in 0..runners
    OBVIOUS
  <2>4. numCheckers \in 0..MaxCheckers /\ concurrency \in 1..MaxConcurrency
        /\ plan \in [Mutants -> {"early", "noCoverage", "run", "reload"}]
    OBVIOUS
  <2>5. skipped \in BOOLEAN /\ poolFailed \in BOOLEAN
    OBVIOUS
  <2>6. status \in {"instrumenting", "dryRun", "idle", "running", "reporting",
                    "resolved", "rejected", "crashed"}
    OBVIOUS
  <2> QED BY <1>1, <2>1, <2>2, <2>3, <2>4, <2>5, <2>6 DEF TypeOK
<1>5. ASSUME NEW m PROVE ~Waits(m, buffer, checkQueue, runBuffer, runQueue)
  BY <1>1, <1>2, <1>3 DEF Waits
<1>6. InOrder(buffer, checkQueue, runBuffer, runQueue, passed)
  BY <1>1, <1>2, <1>3 DEF InOrder
<1>7. OnePlace(buffer, checkQueue, runBuffer, runQueue)
  BY <1>1, <1>2, <1>3 DEF OnePlace
<1>8. ReportedOnce
  <2>1. \A m \in Mutants : reported[m] = << >>
    OBVIOUS
  <2> QED BY <1>5, <2>1 DEF ReportedOnce
<1>9. StagesComplete
  BY <1>1, <1>2, <1>3, <1>5 DEF StagesComplete
<1>10. NothingIsLost
  BY <1>1 DEF NothingIsLost
<1> QED BY <1>4, <1>6, <1>7, <1>8, <1>9, <1>10 DEF StreamInv

\* The inductive invariant: where every mutant is, and what every stage is
\* done with; and which tokens are in use.
THEOREM ExecutorInvariant == Spec => [](StreamInv /\ SharesInv)
<1>1. Init => StreamInv /\ SharesInv
  <2>1. ASSUME Init PROVE SharesInv
    <3>1. /\ checkers = 0 /\ runners = 0 /\ poolFailed = FALSE /\ inputDone = 0
          /\ checkerDisposal = "none" /\ shutdown = "none" /\ status = "instrumenting"
      BY <2>1 DEF Init
    <3> QED BY <3>1 DEF SharesInv, RunnersStayGone, ShareHandedOver
  <2> QED BY <2>1, InitStreams
<1>2. StreamInv /\ SharesInv /\ [Next]_vars => (StreamInv /\ SharesInv)'
  <2> SUFFICES ASSUME StreamInv, SharesInv, [Next]_vars
               PROVE  StreamInv' /\ SharesInv'
    OBVIOUS
  <2>1. UNCHANGED <<configVars, plan>> /\ TypeOK
    BY NothingReconfigured, InvFacts
  <2>2. ProcessTypes' /\ SharesInv'
    BY <2>1, SharesStep, SharesNextFacts
  <2>3. StreamInv'
    BY <2>1, <2>2, StreamsStep, StreamsNextFacts
  <2> QED BY <2>2, <2>3
<1> QED BY <1>1, <1>2, PTL DEF Spec

\* Whatever fails, the reporters hear of every mutant at most once
\* (4-mutation-test-executor.ts), and of each of them exactly once before
\* execute() passes its results on: none is lost between the partitions, the
\* buffers of the checkers, their regrouping and the two pools, and none is
\* reported by two of the streams that are merged.
THEOREM ExecutorResultsAreComplete == Spec => []ResultsAreComplete
<1>1. StreamInv => ResultsAreComplete
  <2> SUFFICES ASSUME StreamInv PROVE ResultsAreComplete
    OBVIOUS
  <2>1. TypeOK /\ ReportedOnce /\ NothingIsLost /\ reported \in [Mutants -> Seq(Kinds)]
    BY InvFacts
  <2>2. ASSUME NEW m \in Mutants
        PROVE  Len(reported[m]) <= 1 /\ (reported[m] # << >> => Len(reported[m]) = 1)
    <3> DEFINE r == reported[m]
               n == Len(r)
    <3>1. r \in Seq(Kinds) /\ n <= 1
      BY <2>1 DEF ReportedOnce
    <3> HIDE DEF r
    <3>2. n \in Nat /\ (n = 0 => r = << >>)
      BY <3>1, EmptySeq, LenProperties
    <3> HIDE DEF n
    <3>3. n <= 1 /\ (r # << >> => n = 1)
      BY <3>1, <3>2
    <3> QED BY <3>3 DEF n, r
  <2>3. status \in {"reporting", "resolved"} /\ ~skipped => \A m \in Mutants : reported[m] # << >>
    BY <2>1 DEF NothingIsLost
  <2> QED BY <2>1, <2>2, <2>3 DEF ResultsAreComplete, OneResult
<1> QED BY <1>1, ExecutorInvariant, PTL

\* executeCheck() runs the checkers in order: a mutant is checked by the next
\* one, tested or reported without coverage only when all before it let it
\* pass; and the tap on completion of the last one disposes the checker pool
\* only when no check is queued, running or buffered.
THEOREM ExecutorChecksComeFirst == Spec => []ChecksComeFirst
<1>1. StreamInv => ChecksComeFirst
  <2> SUFFICES ASSUME StreamInv PROVE ChecksComeFirst
    OBVIOUS
  <2>1. /\ TypeOK /\ ReportedOnce /\ StagesComplete /\ numCheckers \in Nat
        /\ InOrder(buffer, checkQueue, runBuffer, runQueue, passed)
        /\ checkQueue \in Seq(Jobs) /\ runQueue \in Seq(Mutants) /\ inputDone \in Nat
    BY InvFacts DEF TypeOK
  <2>2. \A m \in Range(runQueue) : passed[m] = numCheckers
    <3>1. DOMAIN runQueue = 1..Len(runQueue)
      BY <2>1
    <3> QED BY <2>1, <3>1 DEF InOrder, Range
  <2>3. CheckedFirst
    BY <2>1, <2>2 DEF InOrder, ReportedOnce, CheckedFirst
  <2>4. CheckersOutliveChecks
    <3> SUFFICES ASSUME inputDone > numCheckers
                 PROVE  checkQueue = << >> /\ \A k \in Stages : buffer[k] = {}
      BY <2>1 DEF StagesComplete, CheckersOutliveChecks
    <3>1. \A k \in Stages : k <= inputDone
      BY <2>1 DEF Stages
    <3>2. \A i \in 1..Len(checkQueue) : FALSE
      <4> SUFFICES ASSUME NEW i \in 1..Len(checkQueue) PROVE FALSE
        OBVIOUS
      <4>1. checkQueue[i].stage \in 1..numCheckers /\ checkQueue[i].stage >= inputDone
        BY <2>1, JobFacts DEF Stages, StagesComplete
      <4> QED BY <2>1, <4>1
    <3>3. Len(checkQueue) \in Nat /\ (Len(checkQueue) = 0 => checkQueue = << >>)
      BY <2>1, EmptySeq, LenProperties
    <3>4. checkQueue = << >>
      BY <3>2, <3>3
    <3> QED BY <2>1, <3>1, <3>4 DEF StagesComplete
  <2> QED BY <2>3, <2>4 DEF ChecksComeFirst
<1> QED BY <1>1, ExecutorInvariant, PTL

\* concurrency-token-provider.ts: with checkers, the processes of both pools
\* together stay within the concurrency; the tokens of the checkers reach the
\* test runners, all of them, once the checkers have gone; and they create no
\* test runner in a pool that was disposed meanwhile.
THEOREM ExecutorConcurrencyIsShared == Spec => []ConcurrencyIsShared
<1>1. StreamInv /\ SharesInv => ConcurrencyIsShared
  <2> SUFFICES ASSUME StreamInv, SharesInv PROVE ConcurrencyIsShared
    OBVIOUS
  <2>1. TypeOK
    BY InvFacts
  <2>2. ASSUME numCheckers > 0
        PROVE  checkers + runners <= Max({concurrency, 2})
    <3>1. concurrency \in Nat
      BY <2>1, MaxConcurrencyAssumption DEF TypeOK
    <3>2. Max({concurrency, 2}) \in Nat
      BY <3>1, MaxFacts
    <3>3. /\ checkerTokens = concurrencyCheckers
          /\ concurrencyCheckers + concurrencyTestRunners <= Max({concurrency, 2})
          /\ concurrencyTestRunners <= Max({concurrency, 2})
      BY <2>1, <2>2, TokenFacts
    <3> QED BY <3>2, <3>3, SharesNow
  <2> QED BY <2>2 DEF SharesInv, ConcurrencyIsShared, WithinConcurrency
<1> QED BY <1>1, ExecutorInvariant, PTL
=============================================================================
