----------------------------- MODULE PoolProofs -----------------------------
(***************************************************************************)
(* Proofs about Pool, for any set of resources and any number of items.    *)
(* The invariant IInv of Pool is inductive; what the pool promises follows *)
(* from it, and with it every step of the pool is a step of ExclusiveWork. *)
(***************************************************************************)
EXTENDS Pool, FiniteSetTheorems, TLAPS

\* The state of the pool before anything was scheduled satisfies IInv.
LEMMA InitIInv == Init => IInv
<1> SUFFICES ASSUME Init PROVE IInv
  OBVIOUS
<1>1. TypeOK
  <2>1. phase \in [Resources -> Phases] /\ outcome \in [Items -> Outcomes]
    BY DEF Init, Phases, Outcomes
  <2>2. idle \in Seq(Resources) /\ todo \in Seq(Items)
    BY DEF Init
  <2>3. disposal \in [Resources -> {"none", "busy", "done", "rejected"}]
    BY DEF Init
  <2> QED BY <2>1, <2>2, <2>3 DEF Init, TypeOK
<1>2. Len(idle) = 0 /\ Len(todo) = 0
  BY DEF Init
<1>3. OnePlacePerResource /\ OnePlacePerItem
  BY <1>2 DEF Init, OnePlacePerResource, OnePlacePerItem
<1>4. StoppedMeansEmpty /\ StoppedMeansSettled
  BY DEF Init, StoppedMeansEmpty, StoppedMeansSettled
<1> QED BY <1>1, <1>3, <1>4 DEF IInv

\* The members of running are pairs.
LEMMA RunningPairs ==
    ASSUME TypeOK
    PROVE  \A p \in running : p[1] \in Resources /\ p[2] \in Items /\ p = <<p[1], p[2]>>
BY DEF TypeOK

\* Offering to zip a ready resource that is nowhere else keeps resources and
\* items apart: used by InitSucceeds and by Recycle.
LEMMA OfferKeepsPlaces ==
    ASSUME TypeOK, OnePlacePerResource, OnePlacePerItem, Live,
           NEW r \in Resources, r \notin recycling',
           \A p \in running : p[1] # r,
           \A k \in 1..Len(idle) : idle[k] # r,
           phase' \in [Resources -> Phases], phase'[r] = "ready",
           \A s \in Resources : phase[s] = "ready" => phase'[s] = "ready",
           recycling' \subseteq recycling,
           Offer(r),
           UNCHANGED <<scheduled, outcome, failed, disposed>>
    PROVE  /\ idle' \in Seq(Resources)
           /\ todo' \in Seq(Items)
           /\ running' \in SUBSET (Resources \X Items)
           /\ OnePlacePerResource'
           /\ OnePlacePerItem'
<1>1. CASE todo = << >>
  <2>1. idle' = Append(idle, r) /\ UNCHANGED <<todo, running>>
    BY <1>1 DEF Offer
  <2>2. /\ idle' \in Seq(Resources)
        /\ Len(idle') = Len(idle) + 1
        /\ \A k \in 1..Len(idle') : k \in 1..Len(idle) \/ k = Len(idle')
        /\ \A k \in 1..Len(idle) : idle'[k] = idle[k]
        /\ idle'[Len(idle')] = r
    BY <2>1 DEF TypeOK
  <2>3. OnePlacePerResource'
    <3>1. /\ \A p, q \in running' : p[1] = q[1] => p = q
          /\ \A p \in running' : p[1] \notin recycling' /\ phase'[p[1]] = "ready"
          /\ \A s \in recycling' : phase'[s] = "ready"
      BY <2>1, RunningPairs DEF TypeOK, OnePlacePerResource
    <3>2. ASSUME NEW k \in 1..Len(idle')
          PROVE  /\ idle'[k] \notin recycling'
                 /\ phase'[idle'[k]] = "ready"
                 /\ \A p \in running' : p[1] # idle'[k]
                 /\ \A l \in 1..Len(idle') : idle'[k] = idle'[l] => k = l
      <4>1. CASE k \in 1..Len(idle)
        BY <4>1, <2>1, <2>2 DEF TypeOK, OnePlacePerResource
      <4>2. CASE k = Len(idle')
        BY <4>2, <2>1, <2>2 DEF TypeOK, OnePlacePerResource
      <4> QED BY <4>1, <4>2, <2>2
    <3> QED BY <3>1, <3>2 DEF OnePlacePerResource
  <2>4. OnePlacePerItem'
    <3>1. /\ running' = running /\ todo' = todo /\ Live' = Live
          /\ scheduled' = scheduled /\ outcome' = outcome
      BY <2>1 DEF Live
    <3> QED BY <3>1 DEF OnePlacePerItem
  <2> QED BY <2>1, <2>2, <2>3, <2>4 DEF TypeOK
<1>2. CASE todo # << >>
  <2>1. /\ running' = running \cup {<<r, Head(todo)>>}
        /\ todo' = Tail(todo)
        /\ UNCHANGED idle
    BY <1>2 DEF Offer
  <2>2. /\ Head(todo) = todo[1] /\ 1 \in 1..Len(todo)
        /\ Head(todo) \in Items
        /\ Len(Tail(todo)) = Len(todo) - 1
        /\ \A k \in 1..Len(Tail(todo)) : Tail(todo)[k] = todo[k + 1] /\ k + 1 \in 1..Len(todo)
    BY <1>2 DEF TypeOK
  <2>a. \A p \in running' : p \in running \/ p = <<r, Head(todo)>>
    BY <2>1
  <2>3. OnePlacePerResource'
    <3>1. \A p, q \in running' : p[1] = q[1] => p = q
      BY <2>a DEF OnePlacePerResource
    <3>2. \A p \in running' : p[1] \notin recycling' /\ phase'[p[1]] = "ready"
      BY <2>a, RunningPairs DEF OnePlacePerResource
    <3> QED BY <2>1, <2>a, <3>1, <3>2 DEF TypeOK, OnePlacePerResource
  <2>4. OnePlacePerItem'
    <3>1. \A p, q \in running' : p[2] = q[2] => p = q
      BY <2>a, <2>2 DEF OnePlacePerItem
    <3>2. \A p \in running' : p[2] \in scheduled' /\ (Live' => outcome'[p[2]] = "pending")
      BY <2>a, <2>2 DEF OnePlacePerItem, Live
    <3>3. ASSUME NEW k \in 1..Len(todo')
          PROVE  /\ todo'[k] \in scheduled'
                 /\ outcome'[todo'[k]] = "pending"
                 /\ \A p \in running' : p[2] # todo'[k]
                 /\ \A l \in 1..Len(todo') : todo'[k] = todo'[l] => k = l
      <4>1. todo'[k] = todo[k + 1] /\ k + 1 \in 1..Len(todo) /\ k \in Nat /\ k >= 1
        BY <2>1, <2>2 DEF TypeOK
      <4>2. todo[k + 1] # todo[1]
        BY <4>1, <2>2 DEF OnePlacePerItem
      <4>3. \A p \in running' : p[2] # todo'[k]
        BY <4>1, <4>2, <2>1, <2>2 DEF OnePlacePerItem
      <4>4. \A l \in 1..Len(todo') : todo'[k] = todo'[l] => k = l
        BY <4>1, <2>1, <2>2 DEF TypeOK, OnePlacePerItem
      <4> QED BY <4>1, <4>3, <4>4 DEF OnePlacePerItem
    <3> QED BY <3>1, <3>2, <3>3 DEF OnePlacePerItem
  <2> QED BY <2>1, <2>2, <2>3, <2>4 DEF TypeOK
<1> QED BY <1>1, <1>2
\* A step of the creation pipeline alone, which leaves zip and the items as
\* they are, keeps the invariant as long as no ready resource is lost.
LEMMA CreationOnly ==
    ASSUME IInv,
           phase' \in [Resources -> Phases],
           \A s \in Resources : phase[s] = "ready" => phase'[s] = "ready",
           UNCHANGED workVars, UNCHANGED itemVars, UNCHANGED <<failed, disposed>>
    PROVE  /\ OnePlacePerResource' /\ OnePlacePerItem'
           /\ StoppedMeansEmpty' /\ StoppedMeansSettled'
<1>1. /\ idle' = idle /\ todo' = todo /\ running' = running /\ recycling' = recycling
      /\ scheduled' = scheduled /\ outcome' = outcome /\ Live' = Live
  BY DEF workVars, itemVars, Live
<1>2. OnePlacePerResource'
  BY <1>1, RunningPairs DEF IInv, TypeOK, OnePlacePerResource
<1>3. OnePlacePerItem'
  BY <1>1 DEF IInv, OnePlacePerItem
<1>4. StoppedMeansEmpty' /\ StoppedMeansSettled'
  BY <1>1 DEF IInv, StoppedMeansEmpty, StoppedMeansSettled
<1> QED BY <1>2, <1>3, <1>4

\* What mergeMap does with a free slot keeps the phases well typed and does
\* not touch a resource that is ready.
LEMMA FillSlotPhases ==
    ASSUME NEW p \in [Resources -> Phases], NEW q \in FillSlot(p)
    PROVE  /\ q \in [Resources -> Phases]
           /\ \A s \in Resources : p[s] = "ready" => q[s] = "ready"
<1>1. CASE q = DropBuffered(p)
  BY <1>1 DEF DropBuffered, Phases
<1>2. CASE q = p
  BY <1>2
<1>3. ASSUME NEW r \in Buffered(p), q \in Project(p, r)
      PROVE  /\ q \in [Resources -> Phases]
             /\ \A s \in Resources : p[s] = "ready" => q[s] = "ready"
  BY <1>3 DEF Buffered, Project, Phases
<1>4. q = DropBuffered(p) \/ q = p \/ \E r \in Buffered(p) : q \in Project(p, r)
  BY DEF FillSlot
<1> QED BY <1>1, <1>2, <1>3, <1>4

\* TokenArrives keeps IInv: only a resource that was unseen changes its phase.
LEMMA TokenArrivesIInv ==
    ASSUME IInv, NEW r \in Resources, TokenArrives(r) PROVE IInv'
<1>1. /\ phase' \in [Resources -> Phases]
      /\ \A s \in Resources : phase[s] = "ready" => phase'[s] = "ready"
  <2>1. phase' \in Project(phase, r) \/ phase' = [phase EXCEPT ![r] = "buffered"]
    BY DEF TokenArrives
  <2>2. phase \in [Resources -> Phases] /\ phase[r] = "unseen"
    BY DEF TokenArrives, IInv, TypeOK
  <2> QED BY <2>1, <2>2 DEF Project, Phases
<1>2. UNCHANGED workVars /\ UNCHANGED itemVars /\ UNCHANGED <<failed, disposed>>
  BY DEF TokenArrives
<1>3. TypeOK'
  BY <1>1, <1>2 DEF TokenArrives, IInv, TypeOK, workVars, itemVars
<1> QED BY <1>1, <1>2, <1>3, CreationOnly DEF IInv

\* TokensComplete keeps IInv: it only touches the init subject.
LEMMA TokensCompleteIInv ==
    ASSUME IInv, TokensComplete PROVE IInv'
<1>1. UNCHANGED workVars /\ UNCHANGED itemVars /\ UNCHANGED <<phase, failed, disposed>>
  BY DEF TokensComplete
<1>2. TypeOK'
  BY <1>1 DEF TokensComplete, SignalInit, IInv, TypeOK, workVars, itemVars
<1> QED BY <1>1, <1>2, CreationOnly DEF IInv, TypeOK

\* InitSucceeds keeps IInv: the new resource was in no place before it is offered.
LEMMA InitSucceedsIInv ==
    ASSUME IInv, NEW r \in Resources, InitSucceeds(r) PROVE IInv'
<1> DEFINE ph == [phase EXCEPT ![r] = "ready"]
<1>1. /\ ph \in [Resources -> Phases]
      /\ ph[r] = "ready"
      /\ \A s \in Resources : phase[s] = "ready" => ph[s] = "ready"
  BY DEF IInv, TypeOK, Phases
<1>2. /\ phase' \in [Resources -> Phases]
      /\ phase'[r] = "ready"
      /\ \A s \in Resources : phase[s] = "ready" => phase'[s] = "ready"
  <2>1. phase' = ph \/ phase' \in FillSlot(ph)
    BY DEF InitSucceeds
  <2> HIDE DEF ph
  <2> QED BY <1>1, <2>1, FillSlotPhases
<1>3. initSubject' \in {"pending", "completed", "errored"}
  BY DEF InitSucceeds, SignalInit, IInv, TypeOK
<1>4. UNCHANGED <<tokensDone, recycling, scheduled, outcome, failed, disposed, disposal>>
  BY DEF InitSucceeds, itemVars
<1>5. CASE Live
  <2>1. /\ Offer(r)
        /\ r \notin recycling'
        /\ \A p \in running : p[1] # r
        /\ \A k \in 1..Len(idle) : idle[k] # r
    BY <1>4, <1>5 DEF InitSucceeds, IInv, TypeOK, OnePlacePerResource
  <2>2. /\ idle' \in Seq(Resources) /\ todo' \in Seq(Items)
        /\ running' \in SUBSET (Resources \X Items)
        /\ OnePlacePerResource' /\ OnePlacePerItem'
    BY <1>2, <1>4, <1>5, <2>1, OfferKeepsPlaces DEF IInv
  <2>3. TypeOK'
    BY <1>2, <1>3, <1>4, <2>2 DEF IInv, TypeOK
  <2>4. Live'
    BY <1>4, <1>5 DEF Live
  <2> QED BY <2>2, <2>3, <2>4 DEF IInv, StoppedMeansEmpty, StoppedMeansSettled
<1>6. CASE ~Live
  <2>1. UNCHANGED <<idle, todo, running>>
    BY <1>6 DEF InitSucceeds
  <2>2. TypeOK'
    BY <1>2, <1>3, <1>4, <2>1 DEF IInv, TypeOK
  <2>3. UNCHANGED workVars /\ UNCHANGED itemVars
    BY <1>4, <2>1 DEF workVars, itemVars
  <2> QED BY <1>2, <1>4, <2>2, <2>3, CreationOnly DEF IInv
<1> QED BY <1>5, <1>6
\* Settling items that still are pending keeps outcomes well typed, and leaves
\* pending only what was pending and is not among the items.
LEMMA SettleFacts ==
    ASSUME outcome \in [Items -> Outcomes], NEW items, NEW how \in Outcomes \ {"pending"},
           Settle(items, how)
    PROVE  /\ outcome' \in [Items -> Outcomes]
           /\ \A i \in Items : outcome'[i] = "pending" <=> outcome[i] = "pending" /\ i \notin items
BY DEF Settle, Outcomes

\* When everything scheduled is settled and zip is torn down, the invariant
\* holds again: used by CreationFails and by Dispose.
LEMMA StopKeepsIInv ==
    ASSUME IInv, ~Live',
           \A s \in Resources : phase[s] = "ready" => phase'[s] = "ready",
           NEW how \in Outcomes \ {"pending"}, Settle(scheduled, how),
           idle' = << >>, todo' = << >>,
           UNCHANGED <<running, recycling, scheduled>>
    PROVE  /\ OnePlacePerResource' /\ OnePlacePerItem'
           /\ StoppedMeansEmpty' /\ StoppedMeansSettled'
<1>1. \A i \in Items : outcome'[i] = "pending" <=> outcome[i] = "pending" /\ i \notin scheduled
  BY SettleFacts DEF IInv, TypeOK
<1>2. Len(idle') = 0 /\ Len(todo') = 0
  OBVIOUS
<1>3. OnePlacePerResource'
  BY <1>2, RunningPairs DEF IInv, TypeOK, OnePlacePerResource
<1>4. OnePlacePerItem'
  BY <1>1, <1>2, RunningPairs DEF IInv, TypeOK, OnePlacePerItem
<1>5. StoppedMeansEmpty' /\ StoppedMeansSettled'
  BY <1>1 DEF IInv, TypeOK, StoppedMeansEmpty, StoppedMeansSettled
<1> QED BY <1>3, <1>4, <1>5

\* CreationFails keeps IInv: the pool stops and its buffers are emptied.
LEMMA CreationFailsIInv ==
    ASSUME IInv, NEW r \in Resources, CreationFails(r) PROVE IInv'
<1>1. /\ phase' \in [Resources -> Phases]
      /\ \A s \in Resources : phase[s] = "ready" => phase'[s] = "ready"
  <2> DEFINE p == [phase EXCEPT ![r] = IF phase[r] = "throwing" THEN "unbuilt" ELSE "broken"]
  <2>1. phase' = p \/ phase' = DropBuffered(p)
    BY DEF CreationFails
  <2>2. /\ p \in [Resources -> Phases]
        /\ \A s \in Resources : phase[s] = "ready" => p[s] = "ready"
    BY DEF CreationFails, IInv, TypeOK, Phases
  <2> HIDE DEF p
  <2> QED BY <2>1, <2>2 DEF DropBuffered, Phases
<1>2. initSubject' \in {"pending", "completed", "errored"} /\ failed' = TRUE
  BY DEF CreationFails, IInv, TypeOK
<1>3. UNCHANGED <<tokensDone, running, recycling, scheduled, disposed, disposal>>
  BY DEF CreationFails
<1>4. ~Live'
  BY <1>2 DEF Live
<1>5. CASE Live
  <2>1. Settle(scheduled, "poolError") /\ idle' = << >> /\ todo' = << >>
    BY <1>5 DEF CreationFails, SettleScheduled
  <2>2. "poolError" \in Outcomes \ {"pending"}
    BY DEF Outcomes
  <2>3. TypeOK'
    BY <1>1, <1>2, <1>3, <2>1, <2>2, SettleFacts DEF IInv, TypeOK
  <2> QED BY <1>1, <1>3, <1>4, <2>1, <2>2, <2>3, StopKeepsIInv DEF IInv
<1>6. CASE ~Live
  <2>1. UNCHANGED <<outcome, idle, todo>>
    BY <1>6 DEF CreationFails
  <2>2. TypeOK'
    BY <1>1, <1>2, <1>3, <2>1 DEF IInv, TypeOK
  <2>3. OnePlacePerResource'
    BY <1>1, <1>3, <2>1, RunningPairs DEF IInv, TypeOK, OnePlacePerResource
  <2>4. OnePlacePerItem'
    BY <1>3, <1>4, <2>1 DEF IInv, OnePlacePerItem
  <2> QED BY <1>3, <1>6, <2>1, <2>2, <2>3, <2>4 DEF IInv, StoppedMeansEmpty, StoppedMeansSettled
<1> QED BY <1>5, <1>6

\* Schedule keeps IInv: the new item was in no place before.
LEMMA ScheduleIInv ==
    ASSUME IInv, NEW i \in Items, Schedule(i) PROVE IInv'
<1>1. /\ i \notin scheduled /\ scheduled' = scheduled \cup {i}
      /\ outcome[i] = "pending"
      /\ UNCHANGED <<phase, tokensDone, initSubject, recycling, failed, disposed, disposal>>
      /\ Live' = Live /\ ~disposed
  BY DEF Schedule, creationVars, Live, IInv, OnePlacePerItem
<1>2. /\ \A p \in running : p[2] # i
      /\ \A k \in 1..Len(todo) : todo[k] # i
  BY <1>1 DEF IInv, OnePlacePerItem
<1>3. CASE failed /\ Settle({i}, "poolError") /\ UNCHANGED <<idle, todo, running>>
  <2>1. ~Live /\ ~Live'
    BY <1>1, <1>3 DEF Live
  <2>2. /\ outcome' \in [Items -> Outcomes]
        /\ \A j \in Items : outcome'[j] = "pending" <=> outcome[j] = "pending" /\ j # i
    <3>1. "poolError" \in Outcomes \ {"pending"}
      BY DEF Outcomes
    <3> QED BY <1>3, <3>1, SettleFacts DEF IInv, TypeOK
  <2>3. TypeOK'
    BY <1>1, <1>3, <2>2 DEF IInv, TypeOK
  <2>4. OnePlacePerResource'
    BY <1>1, <1>3 DEF IInv, OnePlacePerResource
  <2>5. idle = << >> /\ todo = << >> /\ Len(todo') = 0
    BY <1>3, <2>1 DEF IInv, StoppedMeansEmpty
  <2>6. OnePlacePerItem'
    BY <1>1, <1>3, <2>1, <2>2, <2>5 DEF IInv, TypeOK, OnePlacePerItem
  <2>7. StoppedMeansEmpty' /\ StoppedMeansSettled'
    BY <1>1, <1>3, <2>1, <2>2, <2>5 DEF IInv, TypeOK, StoppedMeansEmpty, StoppedMeansSettled
  <2> QED BY <2>3, <2>4, <2>6, <2>7 DEF IInv
<1>4. CASE ~failed /\ todo' = Append(todo, i) /\ UNCHANGED <<idle, running, outcome>>
  <2>1. /\ todo' \in Seq(Items)
        /\ Len(todo') = Len(todo) + 1 /\ Len(todo) \in Nat
        /\ \A k \in 1..Len(todo') : k \in 1..Len(todo) \/ k = Len(todo')
        /\ \A k \in 1..Len(todo) : todo'[k] = todo[k]
        /\ todo'[Len(todo')] = i
    BY <1>4 DEF IInv, TypeOK
  <2>2. TypeOK'
    BY <1>1, <1>4, <2>1 DEF IInv, TypeOK
  <2>3. OnePlacePerResource'
    BY <1>1, <1>4 DEF IInv, OnePlacePerResource
  <2>4. ASSUME NEW k \in 1..Len(todo')
        PROVE  /\ todo'[k] \in scheduled'
               /\ outcome'[todo'[k]] = "pending"
               /\ \A p \in running' : p[2] # todo'[k]
               /\ \A l \in 1..Len(todo') : todo'[k] = todo'[l] => k = l
    <3>1. CASE k \in 1..Len(todo)
      BY <3>1, <1>1, <1>2, <1>4, <2>1 DEF IInv, OnePlacePerItem
    <3>2. CASE k = Len(todo')
      BY <3>2, <1>1, <1>2, <1>4, <2>1 DEF IInv, OnePlacePerItem
    <3> QED BY <3>1, <3>2, <2>1
  <2>5. OnePlacePerItem'
    BY <1>1, <1>4, <2>4 DEF IInv, OnePlacePerItem
  <2>6. Live'
    BY <1>1, <1>4 DEF Live
  <2> QED BY <2>2, <2>3, <2>5, <2>6 DEF IInv, StoppedMeansEmpty, StoppedMeansSettled
<1>5. CASE /\ ~failed /\ idle # << >>
           /\ running' = running \cup {<<Head(idle), i>>}
           /\ idle' = Tail(idle)
           /\ UNCHANGED <<todo, outcome>>
  <2>1. /\ Head(idle) = idle[1] /\ 1 \in 1..Len(idle)
        /\ Head(idle) \in Resources
        /\ Tail(idle) \in Seq(Resources)
        /\ Len(Tail(idle)) = Len(idle) - 1
        /\ \A k \in 1..Len(Tail(idle)) : Tail(idle)[k] = idle[k + 1] /\ k + 1 \in 1..Len(idle) /\ k >= 1
    BY <1>5 DEF IInv, TypeOK
  <2>2. \A p \in running' : p \in running \/ p = <<Head(idle), i>>
    BY <1>5
  <2>3. TypeOK'
    BY <1>1, <1>5, <2>1 DEF IInv, TypeOK
  <2>4. OnePlacePerResource'
    <3>1. \A p, q \in running' : p[1] = q[1] => p = q
      BY <2>1, <2>2 DEF IInv, OnePlacePerResource
    <3>2. \A p \in running' : p[1] \notin recycling' /\ phase'[p[1]] = "ready"
      BY <1>1, <2>1, <2>2 DEF IInv, OnePlacePerResource
    <3>3. ASSUME NEW k \in 1..Len(idle')
          PROVE  /\ idle'[k] \notin recycling'
                 /\ phase'[idle'[k]] = "ready"
                 /\ \A p \in running' : p[1] # idle'[k]
                 /\ \A l \in 1..Len(idle') : idle'[k] = idle'[l] => k = l
      <4>1. idle'[k] = idle[k + 1] /\ k + 1 \in 1..Len(idle) /\ k \in Nat /\ k >= 1
        BY <1>5, <2>1
      <4>2. idle[k + 1] # idle[1]
        BY <4>1, <2>1 DEF IInv, OnePlacePerResource
      <4>3. \A p \in running' : p[1] # idle'[k]
        BY <4>1, <4>2, <2>1, <2>2 DEF IInv, OnePlacePerResource
      <4>4. \A l \in 1..Len(idle') : idle'[k] = idle'[l] => k = l
        BY <4>1, <1>5, <2>1 DEF IInv, TypeOK, OnePlacePerResource
      <4> QED BY <1>1, <4>1, <4>3, <4>4 DEF IInv, OnePlacePerResource
    <3> QED BY <1>1, <3>1, <3>2, <3>3 DEF IInv, OnePlacePerResource
  <2>5. OnePlacePerItem'
    <3>1. \A p, q \in running' : p[2] = q[2] => p = q
      BY <1>2, <2>2 DEF IInv, OnePlacePerItem
    <3>2. \A p \in running' : p[2] \in scheduled' /\ (Live' => outcome'[p[2]] = "pending")
      BY <1>1, <1>5, <2>2 DEF IInv, OnePlacePerItem
    <3> QED BY <1>1, <1>2, <1>5, <2>2, <3>1, <3>2 DEF IInv, OnePlacePerItem
  <2>6. Live'
    BY <1>1, <1>5 DEF Live
  <2> QED BY <2>3, <2>4, <2>5, <2>6 DEF IInv, StoppedMeansEmpty, StoppedMeansSettled
<1> QED BY <1>3, <1>4, <1>5 DEF Schedule

\* TaskSettles keeps IInv: the resource moves from running to recycling.
LEMMA TaskSettlesIInv ==
    ASSUME IInv, NEW r \in Resources, NEW i \in Items, TaskSettles(r, i) PROVE IInv'
<1>1. /\ <<r, i>> \in running
      /\ running' = running \ {<<r, i>>} /\ recycling' = recycling \cup {r}
      /\ UNCHANGED <<idle, todo, scheduled, failed, disposed, disposal>>
      /\ UNCHANGED <<phase, tokensDone, initSubject>>
      /\ Live' = Live
  BY DEF TaskSettles, creationVars, Live
<1>2. /\ outcome' \in [Items -> Outcomes]
      /\ \A j \in Items : outcome'[j] = "pending" <=> outcome[j] = "pending" /\ j # i
  <2>1. PICK how \in {"value", "taskError"} : Settle({i}, how)
    BY DEF TaskSettles
  <2>2. how \in Outcomes \ {"pending"}
    BY DEF Outcomes
  <2> QED BY <2>1, <2>2, SettleFacts DEF IInv, TypeOK
<1>3. TypeOK'
  BY <1>1, <1>2 DEF IInv, TypeOK
<1>4. /\ \A p \in running' : p[1] # r /\ p[2] # i
      /\ \A k \in 1..Len(idle) : idle[k] # r
      /\ \A k \in 1..Len(todo) : todo[k] # i
      /\ phase[r] = "ready" /\ i \in scheduled
  <2>1. \A p \in running' : p \in running /\ p # <<r, i>>
    BY <1>1
  <2> QED BY <1>1, <2>1 DEF IInv, OnePlacePerResource, OnePlacePerItem
<1>5. OnePlacePerResource'
  BY <1>1, <1>4 DEF IInv, OnePlacePerResource
<1>6. OnePlacePerItem'
  BY <1>1, <1>2, <1>4, RunningPairs DEF IInv, TypeOK, OnePlacePerItem
<1>7. StoppedMeansEmpty' /\ StoppedMeansSettled'
  BY <1>1, <1>2 DEF IInv, TypeOK, StoppedMeansEmpty, StoppedMeansSettled
<1> QED BY <1>3, <1>5, <1>6, <1>7 DEF IInv

\* Recycle keeps IInv: the resource moves from recycling back to zip.
LEMMA RecycleIInv ==
    ASSUME IInv, NEW r \in Resources, Recycle(r) PROVE IInv'
<1>1. /\ r \in recycling /\ recycling' = recycling \ {r}
      /\ UNCHANGED <<failed, disposed, disposal, scheduled, outcome>>
      /\ UNCHANGED <<phase, tokensDone, initSubject>>
      /\ Live' = Live
  BY DEF Recycle, creationVars, itemVars, Live
<1>2. CASE Live
  <2>1. /\ Offer(r)
        /\ phase'[r] = "ready"
        /\ phase' \in [Resources -> Phases]
        /\ \A s \in Resources : phase[s] = "ready" => phase'[s] = "ready"
        /\ r \notin recycling' /\ recycling' \subseteq recycling
        /\ \A p \in running : p[1] # r
        /\ \A k \in 1..Len(idle) : idle[k] # r
    BY <1>1, <1>2 DEF Recycle, IInv, TypeOK, OnePlacePerResource
  <2>2. /\ idle' \in Seq(Resources) /\ todo' \in Seq(Items)
        /\ running' \in SUBSET (Resources \X Items)
        /\ OnePlacePerResource' /\ OnePlacePerItem'
    BY <1>1, <1>2, <2>1, OfferKeepsPlaces DEF IInv
  <2>3. TypeOK'
    BY <1>1, <2>2 DEF IInv, TypeOK
  <2> QED BY <1>1, <1>2, <2>2, <2>3 DEF IInv, StoppedMeansEmpty, StoppedMeansSettled
<1>3. CASE ~Live
  <2>1. UNCHANGED <<idle, todo, running>>
    BY <1>3 DEF Recycle
  <2>2. TypeOK'
    BY <1>1, <2>1 DEF IInv, TypeOK
  <2>3. OnePlacePerResource' /\ OnePlacePerItem'
    BY <1>1, <2>1 DEF IInv, OnePlacePerResource, OnePlacePerItem
  <2> QED BY <1>1, <2>1, <2>2, <2>3 DEF IInv, StoppedMeansEmpty, StoppedMeansSettled
<1> QED BY <1>2, <1>3

\* Dispose keeps IInv: the pool stops and its buffers are emptied.
LEMMA DisposeIInv ==
    ASSUME IInv, Dispose PROVE IInv'
<1>1. /\ disposed' = TRUE
      /\ Settle(scheduled, "completed")
      /\ idle' = << >> /\ todo' = << >>
      /\ UNCHANGED <<phase, tokensDone, running, recycling, scheduled, failed>>
      /\ initSubject' \in {"pending", "completed", "errored"}
      /\ disposal' \in [Resources -> {"none", "busy", "done", "rejected"}]
      /\ ~Live'
  BY DEF Dispose, DisposeResources, SettleScheduled, SignalInit, IInv, TypeOK, Live
<1>2. "completed" \in Outcomes \ {"pending"}
  BY DEF Outcomes
<1>3. TypeOK'
  BY <1>1, <1>2, SettleFacts DEF IInv, TypeOK
<1> QED BY <1>1, <1>2, <1>3, StopKeepsIInv DEF IInv

\* ResourceDisposed keeps IInv: it only touches the dispose() call of a resource.
LEMMA ResourceDisposedIInv ==
    ASSUME IInv, NEW r \in Resources, ResourceDisposed(r) PROVE IInv'
<1>1. /\ UNCHANGED workVars /\ UNCHANGED itemVars /\ UNCHANGED <<failed, disposed>>
      /\ UNCHANGED <<phase, tokensDone, initSubject>>
  BY DEF ResourceDisposed, creationVars
<1>2. disposal' \in [Resources -> {"none", "busy", "done", "rejected"}]
  BY DEF ResourceDisposed, IInv, TypeOK
<1>3. TypeOK'
  BY <1>1, <1>2 DEF IInv, TypeOK, workVars, itemVars
<1> QED BY <1>1, <1>3, CreationOnly DEF IInv, TypeOK

\* IInv is inductive.
THEOREM NextIInv == IInv /\ [Next]_vars => IInv'
<1> SUFFICES ASSUME IInv, [Next]_vars PROVE IInv'
  OBVIOUS
<1>1. ASSUME NEW r \in Resources, TokenArrives(r) PROVE IInv'
  BY <1>1, TokenArrivesIInv
<1>2. ASSUME NEW r \in Resources, InitSucceeds(r) PROVE IInv'
  BY <1>2, InitSucceedsIInv
<1>3. ASSUME NEW r \in Resources, CreationFails(r) PROVE IInv'
  BY <1>3, CreationFailsIInv
<1>4. ASSUME NEW r \in Resources, Recycle(r) PROVE IInv'
  BY <1>4, RecycleIInv
<1>5. ASSUME NEW r \in Resources, ResourceDisposed(r) PROVE IInv'
  BY <1>5, ResourceDisposedIInv
<1>6. ASSUME NEW r \in Resources, NEW i \in Items, TaskSettles(r, i) PROVE IInv'
  BY <1>6, TaskSettlesIInv
<1>7. ASSUME NEW i \in Items, Schedule(i) PROVE IInv'
  BY <1>7, ScheduleIInv
<1>8. CASE TokensComplete
  BY <1>8, TokensCompleteIInv
<1>9. CASE Dispose
  BY <1>9, DisposeIInv
<1>10. CASE UNCHANGED vars
  <2>1. /\ UNCHANGED workVars /\ UNCHANGED itemVars /\ UNCHANGED <<failed, disposed>>
        /\ UNCHANGED <<phase, tokensDone, initSubject, disposal>>
    BY <1>10 DEF vars, workVars, itemVars
  <2>2. TypeOK'
    BY <2>1 DEF IInv, TypeOK, workVars, itemVars
  <2> QED BY <2>1, <2>2, CreationOnly DEF IInv, TypeOK
<1> QED
  BY <1>1, <1>2, <1>3, <1>4, <1>5, <1>6, <1>7, <1>8, <1>9, <1>10 DEF Next

\* The inductive invariant holds in every reachable state of every instance.
THEOREM PoolInvariant == Spec => []IInv
<1>1. Init => IInv
  BY InitIInv
<1>2. IInv /\ [Next]_vars => IInv'
  BY NextIInv
<1> QED BY <1>1, <1>2, PTL DEF Spec

-----------------------------------------------------------------------------
(* What the pool promises *)

\* Type correctness of the pool, whatever the number of resources and items.
THEOREM PoolTypeCorrect == Spec => []TypeOK
<1>1. IInv => TypeOK
  BY DEF IInv
<1> QED BY <1>1, PoolInvariant, PTL

\* One task at a time on a resource, one resource for an item (pool.ts:67).
THEOREM PoolExclusiveUse == Spec => []ExclusiveUse
<1>1. IInv => ExclusiveUse
  BY DEF IInv, OnePlacePerResource, OnePlacePerItem, ExclusiveUse
<1> QED BY <1>1, PoolInvariant, PTL

\* No task runs on a resource before its init() has resolved.
THEOREM PoolInitialisedBeforeUse == Spec => []InitialisedBeforeUse
<1>1. IInv => InitialisedBeforeUse
  BY DEF IInv, OnePlacePerResource, InitialisedBeforeUse
<1> QED BY <1>1, PoolInvariant, PTL

\* A failed or disposed pool has settled every item it ever accepted.
THEOREM PoolStoppedMeansSettled == Spec => []StoppedMeansSettled
<1>1. IInv => StoppedMeansSettled
  BY DEF IInv
<1> QED BY <1>1, PoolInvariant, PTL
-----------------------------------------------------------------------------
(* Refinement of ExclusiveWork *)

\* Offering a ready resource to zip is a Begin of the contract, or nothing.
LEMMA OfferRefines ==
    ASSUME IInv, NEW r \in Resources, Live, Offer(r),
           \A p \in running : p[1] # r,
           UNCHANGED <<scheduled, outcome, failed, disposed>>
    PROVE  [Work!Next]_Work!vars
<1>1. CASE todo = << >>
  BY <1>1 DEF Offer, Work!vars
<1>2. CASE todo # << >>
  <2> DEFINE j == Head(todo)
  <2>1. /\ running' = running \cup {<<r, j>>}
        /\ j \in Items /\ j = todo[1] /\ 1 \in 1..Len(todo)
    BY <1>2 DEF Offer, IInv, TypeOK
  <2>2. /\ j \in scheduled /\ outcome[j] = "pending"
        /\ \A p \in running : p[2] # j
    BY <2>1 DEF IInv, OnePlacePerItem
  <2>3. Work!Free(r) /\ \A v \in Resources : <<v, j>> \notin running
    BY <2>2 DEF Work!Free
  <2>4. Work!Begin(j, r)
    BY <2>1, <2>2, <2>3 DEF Work!Begin, Live
  <2> QED BY <2>1, <2>4 DEF Work!Next
<1> QED BY <1>1, <1>2

\* Scheduling an item is a Submit of the contract.
LEMMA ScheduleRefines ==
    ASSUME IInv, NEW i \in Items, Schedule(i) PROVE Work!Submit(i)
<1>1. /\ i \notin scheduled /\ scheduled' = scheduled \cup {i}
      /\ UNCHANGED <<failed, disposed>> /\ ~disposed
      /\ outcome[i] = "pending"
  BY DEF Schedule, IInv, OnePlacePerItem
<1>2. CASE failed /\ Settle({i}, "poolError") /\ UNCHANGED <<idle, todo, running>>
  <2>1. outcome' = [outcome EXCEPT ![i] = "poolError"]
    BY <1>1, <1>2 DEF Settle, IInv, TypeOK
  <2> QED BY <1>1, <1>2, <2>1 DEF Work!Submit
<1>3. CASE ~failed /\ todo' = Append(todo, i) /\ UNCHANGED <<idle, running, outcome>>
  BY <1>1, <1>3 DEF Work!Submit
<1>4. CASE /\ ~failed /\ idle # << >>
           /\ running' = running \cup {<<Head(idle), i>>}
           /\ idle' = Tail(idle)
           /\ UNCHANGED <<todo, outcome>>
  <2>1. Head(idle) \in Resources /\ Head(idle) = idle[1] /\ 1 \in 1..Len(idle)
    BY <1>4 DEF IInv, TypeOK
  <2>2. Work!Free(Head(idle))
    BY <2>1 DEF IInv, OnePlacePerResource, Work!Free
  <2> QED BY <1>1, <1>4, <2>1, <2>2 DEF Work!Submit
<1> QED BY <1>2, <1>3, <1>4 DEF Schedule

\* Every step of the pool is a step of the contract, or does not concern it.
LEMMA StepRefines ==
    ASSUME IInv, [Next]_vars PROVE [Work!Next]_Work!vars
<1>1. ASSUME NEW r \in Resources, TokenArrives(r) PROVE UNCHANGED Work!vars
  BY <1>1 DEF TokenArrives, workVars, itemVars, Work!vars
<1>2. ASSUME NEW r \in Resources, InitSucceeds(r) PROVE [Work!Next]_Work!vars
  <2>1. UNCHANGED <<scheduled, outcome, failed, disposed>>
    BY <1>2 DEF InitSucceeds, itemVars
  <2>2. CASE Live
    <3>1. Offer(r) /\ \A p \in running : p[1] # r
      BY <1>2, <2>2 DEF InitSucceeds, IInv, OnePlacePerResource
    <3> QED BY <2>1, <2>2, <3>1, OfferRefines
  <2>3. CASE ~Live
    BY <1>2, <2>1, <2>3 DEF InitSucceeds, Work!vars
  <2> QED BY <2>2, <2>3
<1>3. ASSUME NEW r \in Resources, CreationFails(r) PROVE [Work!Next]_Work!vars
  <2>1. UNCHANGED <<running, scheduled, disposed>> /\ failed' = TRUE
    BY <1>3 DEF CreationFails
  <2>2. CASE Live
    <3>1. Settle(scheduled, "poolError")
      BY <1>3, <2>2 DEF CreationFails, SettleScheduled
    <3>2. Work!Fail
      BY <2>1, <2>2, <3>1 DEF Work!Fail, Work!SettleAll, Settle, Live
    <3> QED BY <3>2 DEF Work!Next
  <2>3. CASE ~Live
    <3>1. UNCHANGED outcome
      BY <1>3, <2>3 DEF CreationFails
    <3> QED BY <2>1, <2>3, <3>1 DEF Live, Work!vars
  <2> QED BY <2>2, <2>3
<1>4. ASSUME NEW r \in Resources, Recycle(r) PROVE [Work!Next]_Work!vars
  <2>1. UNCHANGED <<scheduled, outcome, failed, disposed>>
    BY <1>4 DEF Recycle, itemVars
  <2>2. CASE Live
    <3>1. Offer(r) /\ \A p \in running : p[1] # r
      BY <1>4, <2>2 DEF Recycle, IInv, OnePlacePerResource
    <3> QED BY <2>1, <2>2, <3>1, OfferRefines
  <2>3. CASE ~Live
    BY <1>4, <2>1, <2>3 DEF Recycle, Work!vars
  <2> QED BY <2>2, <2>3
<1>5. ASSUME NEW r \in Resources, ResourceDisposed(r) PROVE UNCHANGED Work!vars
  BY <1>5 DEF ResourceDisposed, workVars, itemVars, Work!vars
<1>6. ASSUME NEW r \in Resources, NEW i \in Items, TaskSettles(r, i) PROVE Work!Finish(i, r)
  <2>1. PICK how \in {"value", "taskError"} : Settle({i}, how)
    BY <1>6 DEF TaskSettles
  <2>2. CASE outcome[i] = "pending"
    <3>1. outcome' = [outcome EXCEPT ![i] = how]
      BY <2>1, <2>2 DEF Settle, IInv, TypeOK
    <3> QED BY <1>6, <2>1, <2>2, <3>1 DEF TaskSettles, Work!Finish
  <2>3. CASE outcome[i] # "pending"
    <3>1. outcome' = outcome
      BY <2>1, <2>3 DEF Settle, IInv, TypeOK
    <3> QED BY <1>6, <2>3, <3>1 DEF TaskSettles, Work!Finish
  <2> QED BY <2>2, <2>3
<1>7. ASSUME NEW i \in Items, Schedule(i) PROVE Work!Submit(i)
  BY <1>7, ScheduleRefines
<1>8. CASE TokensComplete
  BY <1>8 DEF TokensComplete, workVars, itemVars, Work!vars
<1>9. CASE Dispose
  <2>1. Work!Close
    BY <1>9 DEF Dispose, SettleScheduled, Settle, Work!Close, Work!SettleAll
  <2> QED BY <2>1 DEF Work!Next
<1>10. CASE UNCHANGED vars
  BY <1>10 DEF vars, Work!vars
<1> QED
  BY <1>1, <1>2, <1>3, <1>4, <1>5, <1>6, <1>7, <1>8, <1>9, <1>10 DEF Next, Work!Next

\* The pool implements the contract of ExclusiveWork: its states map to states
\* of the contract and each of its steps to a step of the contract or a stutter.
THEOREM PoolRefinesExclusiveWork == Spec => ImplementsExclusiveWork
<1>1. Init => Work!Init
  BY DEF Init, Work!Init
<1>2. IInv /\ [Next]_vars => [Work!Next]_Work!vars
  BY StepRefines
<1> QED BY <1>1, <1>2, PoolInvariant, PTL DEF Spec, ImplementsExclusiveWork, Work!Spec
-----------------------------------------------------------------------------
(* What stopping means for what is running and for what was created *)

\* No step of a stopped pool starts a task or creates a resource.
LEMMA StoppedStep ==
    ASSUME TypeOK, ~Live, [Next]_vars
    PROVE  running' \subseteq running /\ Created' \subseteq Created
<1>1. ASSUME NEW r \in Resources, TokenArrives(r) PROVE FALSE
  BY <1>1 DEF TokenArrives
<1>2. ASSUME NEW r \in Resources, InitSucceeds(r)
      PROVE  running' \subseteq running /\ Created' \subseteq Created
  <2> DEFINE p == [phase EXCEPT ![r] = "ready"]
  <2>1. running' = running /\ phase[r] = "initializing"
    BY <1>2 DEF InitSucceeds
  <2>2. phase' = p \/ phase' = DropBuffered(p)
    <3>1. CASE failed
      BY <1>2, <3>1 DEF InitSucceeds
    <3>2. CASE ~failed
      <4>1. disposed
        BY <3>2 DEF Live
      <4> QED BY <1>2, <3>2, <4>1 DEF InitSucceeds, FillSlot
    <3> QED BY <3>1, <3>2
  <2> QED BY <2>1, <2>2 DEF DropBuffered, Created, TypeOK
<1>3. ASSUME NEW r \in Resources, CreationFails(r)
      PROVE  running' \subseteq running /\ Created' \subseteq Created
  <2> DEFINE p == [phase EXCEPT ![r] = IF phase[r] = "throwing" THEN "unbuilt" ELSE "broken"]
  <2>1. /\ running' = running /\ phase[r] \in {"initializing", "throwing"}
        /\ phase' = p \/ phase' = DropBuffered(p)
    BY <1>3 DEF CreationFails
  <2> QED BY <2>1 DEF DropBuffered, Created, TypeOK
<1>4. ASSUME NEW r \in Resources, Recycle(r)
      PROVE  running' \subseteq running /\ Created' \subseteq Created
  BY <1>4 DEF Recycle, creationVars, Created
<1>5. ASSUME NEW r \in Resources, ResourceDisposed(r)
      PROVE  running' \subseteq running /\ Created' \subseteq Created
  BY <1>5 DEF ResourceDisposed, creationVars, workVars, Created
<1>6. ASSUME NEW r \in Resources, NEW i \in Items, TaskSettles(r, i)
      PROVE  running' \subseteq running /\ Created' \subseteq Created
  BY <1>6 DEF TaskSettles, creationVars, Created
<1>7. ASSUME NEW i \in Items, Schedule(i)
      PROVE  running' \subseteq running /\ Created' \subseteq Created
  <2>1. failed
    BY <1>7 DEF Schedule, Live
  <2> QED BY <1>7, <2>1 DEF Schedule, creationVars, Created
<1>8. CASE TokensComplete
  BY <1>8 DEF TokensComplete
<1>9. CASE Dispose
  BY <1>9 DEF Dispose, Created
<1>10. CASE UNCHANGED vars
  BY <1>10 DEF vars, Created
<1> QED
  BY <1>1, <1>2, <1>3, <1>4, <1>5, <1>6, <1>7, <1>8, <1>9, <1>10 DEF Next

\* Once the pool failed or was disposed no task is started and no resource is
\* created (pool.ts:111).
THEOREM PoolNothingStartsWhenStopped == Spec => NothingStartsWhenStopped
<1>1. IInv /\ [Next]_vars => [~Live => running' \subseteq running /\ Created' \subseteq Created]_vars
  BY StoppedStep DEF IInv
<1> QED BY <1>1, PoolInvariant, PTL DEF Spec, NothingStartsWhenStopped

\* A step keeps CreatedAreDisposed: dispose() is called on all that was
\* created, and afterwards nothing is created any more.
LEMMA DisposalStep ==
    ASSUME TypeOK, CreatedAreDisposed, [Next]_vars PROVE CreatedAreDisposed'
<1>1. CASE disposed
  <2>1. Created' \subseteq Created
    BY <1>1, StoppedStep DEF Live
  <2>2. \A r \in Resources : disposal[r] # "none" => disposal'[r] # "none"
    <3>1. ASSUME NEW r \in Resources, ResourceDisposed(r)
          PROVE  \A s \in Resources : disposal[s] # "none" => disposal'[s] # "none"
      BY <3>1 DEF ResourceDisposed, TypeOK
    <3>2. disposal' = disposal \/ \E r \in Resources : ResourceDisposed(r)
      BY <1>1 DEF Next, vars, TokenArrives, InitSucceeds, CreationFails, Recycle, TaskSettles,
                  Schedule, TokensComplete, Dispose
    <3> QED BY <3>1, <3>2
  <2> QED BY <1>1, <2>1, <2>2 DEF CreatedAreDisposed, Created
<1>2. CASE Dispose
  BY <1>2 DEF Dispose, DisposeResources, CreatedAreDisposed, Created
<1>3. CASE ~disposed /\ ~Dispose
  <2>1. disposed' = disposed
    BY <1>3 DEF Next, vars, TokenArrives, InitSucceeds, CreationFails, Recycle, TaskSettles,
                Schedule, TokensComplete, ResourceDisposed
  <2> QED BY <1>3, <2>1 DEF CreatedAreDisposed
<1> QED BY <1>1, <1>2, <1>3

\* dispose() reaches every resource that factory() ever returned.
THEOREM PoolCreatedAreDisposed == Spec => []CreatedAreDisposed
<1>1. Init => CreatedAreDisposed
  BY DEF Init, CreatedAreDisposed
<1>2. TypeOK /\ CreatedAreDisposed /\ [Next]_vars => CreatedAreDisposed'
  BY DisposalStep
<1> QED BY <1>1, <1>2, PoolTypeCorrect, PTL DEF Spec
-----------------------------------------------------------------------------
(* The queues *)

\* A free slot is handed on to one buffered token at most.
LEMMA FillSlotInits ==
    ASSUME NEW p \in [Resources -> Phases], NEW q \in FillSlot(p),
           IsFiniteSet(InFlight(p)), Cardinality(InFlight(p)) < MaxConcurrentInit
    PROVE  IsFiniteSet(InFlight(q)) /\ Cardinality(InFlight(q)) <= MaxConcurrentInit
<1>1. Cardinality(InFlight(p)) \in Nat
  BY FS_CardinalityType
<1>2. CASE q = DropBuffered(p) \/ q = p
  <2>1. InFlight(q) = InFlight(p)
    BY <1>2 DEF InFlight, DropBuffered
  <2> QED BY <1>1, <2>1, MaxConcurrentInitAssumption
<1>3. ASSUME NEW r \in Buffered(p), q \in Project(p, r)
      PROVE  IsFiniteSet(InFlight(q)) /\ Cardinality(InFlight(q)) <= MaxConcurrentInit
  <2>1. InFlight(q) = InFlight(p) \cup {r}
    BY <1>3 DEF InFlight, Buffered, Project
  <2> QED BY <1>1, <2>1, FS_AddElement, MaxConcurrentInitAssumption
<1>4. q = DropBuffered(p) \/ q = p \/ \E r \in Buffered(p) : q \in Project(p, r)
  BY DEF FillSlot
<1> QED BY <1>2, <1>3, <1>4

\* No step has more creations in flight than MAX_CONCURRENT_INIT.
LEMMA InitsStep ==
    ASSUME TypeOK, IsFiniteSet(InFlight(phase)), BoundedInit, [Next]_vars
    PROVE  IsFiniteSet(InFlight(phase'))
           /\ Cardinality(InFlight(phase')) <= MaxConcurrentInit
<1> USE DEF BoundedInit
<1>0. Cardinality(InFlight(phase)) \in Nat /\ phase \in [Resources -> Phases]
  BY FS_CardinalityType DEF TypeOK
<1>1. ASSUME NEW r \in Resources, TokenArrives(r)
      PROVE  IsFiniteSet(InFlight(phase')) /\ Cardinality(InFlight(phase')) <= MaxConcurrentInit
  <2>1. CASE Cardinality(InFlight(phase)) < MaxConcurrentInit
    <3>1. phase' \in Project(phase, r) /\ phase[r] = "unseen"
      BY <1>1, <2>1 DEF TokenArrives
    <3>2. InFlight(phase') = InFlight(phase) \cup {r}
      BY <1>0, <3>1 DEF InFlight, Project
    <3>3. /\ IsFiniteSet(InFlight(phase'))
          /\ Cardinality(InFlight(phase')) \in {Cardinality(InFlight(phase)), Cardinality(InFlight(phase)) + 1}
      BY <3>2, FS_AddElement
    <3> QED BY <1>0, <2>1, <3>3, MaxConcurrentInitAssumption
  <2>2. CASE ~(Cardinality(InFlight(phase)) < MaxConcurrentInit)
    <3>1. phase' = [phase EXCEPT ![r] = "buffered"] /\ phase[r] = "unseen"
      BY <1>1, <2>2 DEF TokenArrives
    <3>2. InFlight(phase') = InFlight(phase)
      BY <1>0, <3>1 DEF InFlight
    <3> QED BY <3>2
  <2> QED BY <2>1, <2>2
<1>2. ASSUME NEW r \in Resources, NEW to \in {"ready", "unbuilt", "broken"},
             phase[r] \in {"initializing", "throwing"}
      PROVE  LET p == [phase EXCEPT ![r] = to]
             IN  /\ p \in [Resources -> Phases]
                 /\ IsFiniteSet(InFlight(p)) /\ Cardinality(InFlight(p)) < MaxConcurrentInit
  <2> DEFINE p == [phase EXCEPT ![r] = to]
  <2>1. p \in [Resources -> Phases] /\ InFlight(p) = InFlight(phase) \ {r} /\ r \in InFlight(phase)
    BY <1>0, <1>2 DEF InFlight, Phases
  <2> HIDE DEF p
  <2>2. IsFiniteSet(InFlight(p)) /\ Cardinality(InFlight(p)) < MaxConcurrentInit
    BY <1>0, <2>1, FS_RemoveElement, MaxConcurrentInitAssumption
  <2> QED BY <2>1, <2>2 DEF p
<1>3. ASSUME NEW r \in Resources, InitSucceeds(r)
      PROVE  IsFiniteSet(InFlight(phase')) /\ Cardinality(InFlight(phase')) <= MaxConcurrentInit
  <2> DEFINE p == [phase EXCEPT ![r] = "ready"]
  <2>1. phase[r] = "initializing" /\ (phase' = p \/ phase' \in FillSlot(p))
    BY <1>3 DEF InitSucceeds
  <2>2. /\ p \in [Resources -> Phases]
        /\ IsFiniteSet(InFlight(p)) /\ Cardinality(InFlight(p)) < MaxConcurrentInit
    BY <1>2, <2>1
  <2> HIDE DEF p
  <2>3. CASE phase' = p
    BY <2>2, <2>3, FS_CardinalityType, MaxConcurrentInitAssumption
  <2>4. CASE phase' \in FillSlot(p)
    BY <2>2, <2>4, FillSlotInits
  <2> QED BY <2>1, <2>3, <2>4
<1>4. ASSUME NEW r \in Resources, CreationFails(r)
      PROVE  IsFiniteSet(InFlight(phase')) /\ Cardinality(InFlight(phase')) <= MaxConcurrentInit
  <2> DEFINE to == IF phase[r] = "throwing" THEN "unbuilt" ELSE "broken"
             p  == [phase EXCEPT ![r] = to]
  <2>1. phase[r] \in {"initializing", "throwing"} /\ (phase' = p \/ phase' = DropBuffered(p))
    BY <1>4 DEF CreationFails
  <2>2. /\ p \in [Resources -> Phases]
        /\ IsFiniteSet(InFlight(p)) /\ Cardinality(InFlight(p)) < MaxConcurrentInit
    <3>1. to \in {"ready", "unbuilt", "broken"}
      OBVIOUS
    <3> HIDE DEF to
    <3> QED BY <1>2, <2>1, <3>1
  <2> HIDE DEF p
  <2>3. InFlight(phase') = InFlight(p)
    BY <2>1, <2>2 DEF InFlight, DropBuffered
  <2> QED BY <2>2, <2>3, FS_CardinalityType, MaxConcurrentInitAssumption
<1>5. phase' = phase \/ \E r \in Resources : TokenArrives(r) \/ InitSucceeds(r) \/ CreationFails(r)
  BY DEF Next, vars, creationVars, Recycle, ResourceDisposed, TaskSettles, Schedule,
         TokensComplete, Dispose
<1> QED BY <1>1, <1>3, <1>4, <1>5

\* Offering a resource holds back no work and starts the oldest item.
LEMMA OfferKeepsOrder ==
    ASSUME TypeOK, WaitInOrder, WorkConserving, NoOvertaking, Live,
           NEW r \in Resources, Offer(r), UNCHANGED <<scheduled, failed, disposed>>
    PROVE  WaitInOrder' /\ WorkConserving' /\ NoOvertaking'
<1>1. CASE todo = << >>
  <2>1. todo' = << >> /\ Range(todo') = {}
    BY <1>1 DEF Offer, Range
  <2> QED BY <2>1 DEF WaitInOrder, WorkConserving, NoOvertaking
<1>2. CASE todo # << >>
  <2>1. idle = << >> /\ idle' = idle /\ todo' = Tail(todo)
    BY <1>2 DEF Offer, WorkConserving
  <2>2. /\ \A k \in 1..Len(todo') : todo'[k] = todo[k + 1] /\ k + 1 \in 1..Len(todo)
        /\ \A k \in 1..Len(todo) : k = 1 \/ (k - 1 \in 1..Len(todo') /\ todo'[k - 1] = todo[k])
        /\ \A k \in 1..Len(todo) : todo[k] \in Nat
        /\ DOMAIN todo = 1..Len(todo) /\ DOMAIN todo' = 1..Len(todo')
        /\ Len(todo) \in Nat /\ Len(todo') \in Nat /\ 1 \in 1..Len(todo)
    BY <1>2, <2>1, NumItemsAssumption DEF TypeOK, Items
  <2>3. WaitInOrder'
    BY <2>2 DEF WaitInOrder
  <2>4. NoOvertaking'
    <3>1. SUFFICES ASSUME NEW i \in scheduled, NEW j \in scheduled, i < j, i \in Range(todo')
                   PROVE  j \in Range(todo')
      BY DEF NoOvertaking
    <3>2. PICK k \in 1..Len(todo') : todo'[k] = i
      BY <2>2, <3>1 DEF Range
    <3>3. i \in Range(todo) /\ todo[1] < i /\ i \in Nat
      BY <2>2, <3>2 DEF Range, WaitInOrder
    <3>4. PICK l \in 1..Len(todo) : todo[l] = j
      BY <2>2, <3>1, <3>3 DEF Range, NoOvertaking
    <3>5. l # 1
      BY <2>2, <3>1, <3>3, <3>4
    <3> QED BY <2>2, <3>4, <3>5 DEF Range
  <2> QED BY <2>1, <2>3, <2>4 DEF WorkConserving
<1> QED BY <1>1, <1>2

\* An item that is scheduled is the last one: it waits behind all others.
LEMMA ScheduleKeepsOrder ==
    ASSUME TypeOK, StoppedMeansEmpty, \A k \in 1..Len(todo) : todo[k] \in scheduled,
           WaitInOrder, NoneLeftOut, WorkConserving, NoOvertaking,
           NEW i \in Items, Schedule(i)
    PROVE  WaitInOrder' /\ NoneLeftOut' /\ WorkConserving' /\ NoOvertaking'
<1>1. /\ scheduled' = scheduled \cup {i} /\ Live' = Live
      /\ \A j \in Items : j < i => j \in scheduled
      /\ scheduled \subseteq Items /\ Items \subseteq Nat
    BY NumItemsAssumption DEF Schedule, Live, TypeOK, Items
<1>2. \A j \in scheduled : j < i
  BY <1>1 DEF Schedule, NoneLeftOut
<1>3. NoneLeftOut'
  BY <1>1 DEF NoneLeftOut
<1>4. CASE failed /\ UNCHANGED <<idle, todo, running>>
  <2>1. ~Live /\ todo' = todo /\ idle' = idle
    BY <1>4 DEF Live
  <2> QED BY <1>1, <1>3, <2>1 DEF WaitInOrder, WorkConserving, NoOvertaking
<1>5. CASE idle = << >> /\ todo' = Append(todo, i) /\ UNCHANGED idle
  <2>1. /\ Len(todo') = Len(todo) + 1 /\ Len(todo) \in Nat
        /\ DOMAIN todo = 1..Len(todo) /\ DOMAIN todo' = 1..Len(todo')
        /\ \A k \in 1..Len(todo) : todo'[k] = todo[k]
        /\ todo'[Len(todo')] = i
    BY <1>5 DEF TypeOK
  <2>2. WaitInOrder'
    BY <1>2, <2>1 DEF WaitInOrder
  <2>3. Range(todo') = Range(todo) \cup {i}
    BY <2>1 DEF Range
  <2>4. NoOvertaking'
    BY <1>1, <1>2, <2>3 DEF NoOvertaking
  <2> QED BY <1>3, <1>5, <2>2, <2>4 DEF WorkConserving
<1>6. CASE idle # << >> /\ UNCHANGED todo
  <2>1. todo = << >> /\ todo' = << >> /\ Range(todo') = {}
    BY <1>6 DEF WorkConserving, StoppedMeansEmpty, Range
  <2> QED BY <1>3, <2>1 DEF WaitInOrder, WorkConserving, NoOvertaking
<1> QED BY <1>4, <1>5, <1>6 DEF Schedule

\* QueueInv is inductive, given IInv.
LEMMA QueueStep ==
    ASSUME IInv, QueueInv, [Next]_vars PROVE QueueInv'
<1>1. TypeOK /\ WaitInOrder /\ NoneLeftOut /\ WorkConserving /\ NoOvertaking
  BY DEF IInv, QueueInv, QueuesAreFair
<1>2. IsFiniteSet(InFlight(phase')) /\ Cardinality(InFlight(phase')) <= MaxConcurrentInit
  BY InitsStep DEF IInv, QueueInv, QueuesAreFair
<1>3. ASSUME UNCHANGED <<idle, todo, scheduled>>, Live' => Live
      PROVE  WaitInOrder' /\ NoneLeftOut' /\ WorkConserving' /\ NoOvertaking'
  BY <1>1, <1>3 DEF WaitInOrder, NoneLeftOut, WorkConserving, NoOvertaking
<1>4. ASSUME idle' = << >>, todo' = << >>, scheduled' = scheduled
      PROVE  WaitInOrder' /\ NoneLeftOut' /\ WorkConserving' /\ NoOvertaking'
  <2>1. Range(todo') = {} /\ Len(todo') = 0
    BY <1>4 DEF Range
  <2> QED BY <1>1, <1>4, <2>1 DEF WaitInOrder, NoneLeftOut, WorkConserving, NoOvertaking
<1>5. ASSUME NEW r \in Resources, InitSucceeds(r) \/ Recycle(r)
      PROVE  WaitInOrder' /\ NoneLeftOut' /\ WorkConserving' /\ NoOvertaking'
  <2>1. UNCHANGED <<scheduled, failed, disposed>> /\ Live' = Live
    BY <1>5 DEF InitSucceeds, Recycle, itemVars, Live
  <2>2. CASE Live
    <3>1. Offer(r)
      BY <1>5, <2>2 DEF InitSucceeds, Recycle
    <3>2. NoneLeftOut'
      BY <1>1, <2>1 DEF NoneLeftOut
    <3> QED BY <1>1, <2>1, <2>2, <3>1, <3>2, OfferKeepsOrder
  <2>3. CASE ~Live
    <3>1. UNCHANGED <<idle, todo>>
      BY <1>5, <2>3 DEF InitSucceeds, Recycle
    <3> QED BY <1>3, <2>1, <3>1
  <2> QED BY <2>2, <2>3
<1>6. ASSUME NEW r \in Resources, CreationFails(r)
      PROVE  WaitInOrder' /\ NoneLeftOut' /\ WorkConserving' /\ NoOvertaking'
  <2>1. scheduled' = scheduled /\ ~Live'
    BY <1>6 DEF CreationFails, Live
  <2>2. (idle' = << >> /\ todo' = << >>) \/ UNCHANGED <<idle, todo>>
    BY <1>6 DEF CreationFails
  <2> QED BY <1>3, <1>4, <2>1, <2>2
<1>7. ASSUME NEW i \in Items, Schedule(i)
      PROVE  WaitInOrder' /\ NoneLeftOut' /\ WorkConserving' /\ NoOvertaking'
  <2>1. StoppedMeansEmpty /\ \A k \in 1..Len(todo) : todo[k] \in scheduled
    BY DEF IInv, OnePlacePerItem
  <2> QED BY <1>1, <1>7, <2>1, ScheduleKeepsOrder
<1>8. ASSUME Dispose
      PROVE  WaitInOrder' /\ NoneLeftOut' /\ WorkConserving' /\ NoOvertaking'
  BY <1>4, <1>8 DEF Dispose
<1>9. ASSUME NEW r \in Resources, TokenArrives(r) \/ ResourceDisposed(r)
      PROVE  UNCHANGED <<idle, todo, scheduled>> /\ (Live' => Live)
  <2>1. UNCHANGED workVars /\ UNCHANGED itemVars /\ UNCHANGED <<failed, disposed>>
    BY <1>9 DEF TokenArrives, ResourceDisposed, workVars, itemVars
  <2> QED BY <2>1 DEF workVars, itemVars, Live
<1>10. ASSUME NEW r \in Resources, NEW i \in Items, TaskSettles(r, i)
       PROVE  UNCHANGED <<idle, todo, scheduled>> /\ (Live' => Live)
  BY <1>10 DEF TaskSettles, Live
<1>11. ASSUME TokensComplete \/ UNCHANGED vars
       PROVE  WaitInOrder' /\ NoneLeftOut' /\ WorkConserving' /\ NoOvertaking'
  <2>1. UNCHANGED workVars /\ UNCHANGED itemVars /\ UNCHANGED <<failed, disposed>>
    BY <1>11 DEF TokensComplete, vars, workVars, itemVars
  <2>2. UNCHANGED <<idle, todo, scheduled>> /\ (Live' => Live)
    BY <2>1 DEF workVars, itemVars, Live
  <2> QED BY <1>3, <2>2
<1>12. WaitInOrder' /\ NoneLeftOut' /\ WorkConserving' /\ NoOvertaking'
  BY <1>3, <1>5, <1>6, <1>7, <1>8, <1>9, <1>10, <1>11 DEF Next
<1> QED BY <1>2, <1>12 DEF QueueInv, QueuesAreFair, BoundedInit

\* Creation, waiting resources and waiting items keep their order and their
\* bounds, whatever the number of tokens and of items.
THEOREM PoolQueuesAreFair == Spec => []QueuesAreFair
<1>1. Init => QueueInv
  <2> SUFFICES ASSUME Init PROVE QueueInv
    OBVIOUS
  <2>1. InFlight(phase) = {} /\ Len(todo) = 0
    BY DEF Init, InFlight
  <2>2. IsFiniteSet(InFlight(phase)) /\ BoundedInit
    BY <2>1, FS_EmptySet, MaxConcurrentInitAssumption DEF BoundedInit
  <2>3. WaitInOrder /\ NoneLeftOut /\ WorkConserving /\ NoOvertaking
    BY <2>1 DEF Init, WaitInOrder, NoneLeftOut, WorkConserving, NoOvertaking
  <2> QED BY <2>2, <2>3 DEF QueueInv, QueuesAreFair
<1>2. IInv /\ QueueInv /\ [Next]_vars => QueueInv'
  BY QueueStep
<1>3. QueueInv => QueuesAreFair
  BY DEF QueueInv
<1> QED BY <1>1, <1>2, <1>3, PoolInvariant, PTL DEF Spec
=============================================================================
