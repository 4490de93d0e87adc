-------------------------------- MODULE Pool --------------------------------
(***************************************************************************)
(* concurrent/pool.ts: the pool that hands work items to test runners and  *)
(* checkers.  Two RxJS pipelines run side by side.                         *)
(*                                                                         *)
(*   creation    concurrencyToken$ |> takeUntil(dispose$)                  *)
(*                 |> mergeMap(create and init a resource, at most 2)      *)
(*   work        zip(resourcesSubject, todoSubject)                        *)
(*                 |> mergeMap(execute, then recycle the resource)         *)
(*                 |> takeUntil(dispose$)                                  *)
(*                                                                         *)
(* An element of Resources stands for a concurrency token and for the      *)
(* resource that is created for it.  Tokens carry no data, so the order in *)
(* which they are buffered is not observable.  A work item is a number:    *)
(* item i is the i-th one that callers of schedule() offer to the pool.    *)
(*                                                                         *)
(* JavaScript runs one callback at a time; an action is what one callback  *)
(* does until it returns.                                                  *)
(***************************************************************************)
EXTENDS Naturals, Sequences, FiniteSets, Functions

CONSTANTS
    Resources,          \* the concurrency tokens the provider may ever emit
    NumItems,           \* bound: how many items are ever scheduled
    MaxConcurrentInit   \* MAX_CONCURRENT_INIT

ASSUME NumItemsAssumption == NumItems \in Nat
ASSUME MaxConcurrentInitAssumption == MaxConcurrentInit \in Nat \ {0}

Items == 1..NumItems

VARIABLES
    phase,       \* what became of each token and of its resource
    tokensDone,  \* concurrencyToken$ has completed
    initSubject, \* the ReplaySubject behind init()
    idle,        \* zip's buffer of resources without an item
    todo,        \* zip's buffer of items without a resource
    running,     \* the pairs <<resource, item>> whose execute() is pending
    recycling,   \* resources whose execute() returned, not yet offered again
    scheduled,   \* the work items todoSubject has replayed or will replay
    outcome,     \* how the result$ of each item ended
    failed,      \* the creation pipeline and resourcesSubject have errored
    disposed,    \* disposedSubject.value
    disposal     \* the dispose() call on each resource

vars == <<phase, tokensDone, initSubject, idle, todo, running, recycling,
          scheduled, outcome, failed, disposed, disposal>>

creationVars == <<phase, tokensDone, initSubject>>
workVars == <<idle, todo, running, recycling>>
itemVars == <<scheduled, outcome>>

(***************************************************************************)
(* unseen       the token was not emitted (to this pool) yet               *)
(* buffered     mergeMap holds it back: 2 creations are in flight          *)
(* initializing pushed on createdResources, init() is pending              *)
(* throwing     factory() threw, the async function's rejection is pending *)
(* ready        init() resolved                                            *)
(* broken       init() rejected                                            *)
(* unbuilt      the rejection of a factory() that threw was delivered      *)
(* dropped      projected after disposal, or lost when mergeMap errored    *)
(***************************************************************************)
Phases == {"unseen", "buffered", "initializing", "throwing", "ready",
           "broken", "unbuilt", "dropped"}

Outcomes == {"pending", "value", "taskError", "poolError", "completed"}

TypeOK ==
    /\ phase \in [Resources -> Phases]
    /\ tokensDone \in BOOLEAN
    /\ initSubject \in {"pending", "completed", "errored"}
    /\ idle \in Seq(Resources)
    /\ todo \in Seq(Items)
    /\ running \in SUBSET (Resources \X Items)
    /\ recycling \in SUBSET Resources
    /\ scheduled \in SUBSET Items
    /\ outcome \in [Items -> Outcomes]
    /\ failed \in BOOLEAN
    /\ disposed \in BOOLEAN
    /\ disposal \in [Resources -> {"none", "busy", "done", "rejected"}]

InFlight(p) == {r \in Resources : p[r] \in {"initializing", "throwing"}}
Buffered(p) == {r \in Resources : p[r] = "buffered"}
Created == {r \in Resources : phase[r] \in {"initializing", "ready", "broken"}}

\* The zip subscription is alive: not torn down by takeUntil, not errored.
Live == ~disposed /\ ~failed

Init ==
    /\ phase = [r \in Resources |-> "unseen"]
    /\ tokensDone = FALSE
    /\ initSubject = "pending"
    /\ idle = << >>
    /\ todo = << >>
    /\ running = {}
    /\ recycling = {}
    /\ scheduled = {}
    /\ outcome = [i \in Items |-> "pending"]
    /\ failed = FALSE
    /\ disposed = FALSE
    /\ disposal = [r \in Resources |-> "none"]

-----------------------------------------------------------------------------
(* Helpers *)

\* factory() either returns a resource, whose init() is then called, or throws.
Project(p, r) == {[p EXCEPT ![r] = q] : q \in {"initializing", "throwing"}}

\* Mutant: the buffered tokens are forgotten rather than consumed.
DropBufferedForgets(p) == [r \in Resources \ Buffered(p) |-> p[r]]

\* mergeMap's buffer is thrown away, or drained by projections that return
\* at once because the pool is disposed.
DropBuffered(p) == [r \in Resources |-> IF p[r] = "buffered" THEN "dropped" ELSE p[r]]

\* Mutant: a free slot lets every buffered token through.
FillSlotUnbounded(p) ==
    IF disposed THEN {DropBuffered(p)}
    ELSE {[r \in Resources |-> IF p[r] = "buffered" THEN "initializing" ELSE p[r]]}

\* Mutant: no check of disposedSubject before factory().
FillSlotAfterDispose(p) ==
    IF Buffered(p) = {} THEN {p} ELSE UNION {Project(p, r) : r \in Buffered(p)}

\* What mergeMap does with its buffer when a creation has completed.
FillSlot(p) ==
    IF disposed THEN {DropBuffered(p)}
    ELSE IF Buffered(p) = {} THEN {p}
    ELSE UNION {Project(p, r) : r \in Buffered(p)}

\* Mutant: counts the creation that has just ended as still in flight.
SignalInitStale(p, over) ==
    initSubject' = IF over /\ InFlight(phase) = {} /\ initSubject = "pending"
                   THEN "completed" ELSE initSubject

\* initSubject completes when the token stream is over and no creation is left.
SignalInit(p, over) ==
    initSubject' = IF over /\ InFlight(p) = {} /\ initSubject = "pending"
                   THEN "completed" ELSE initSubject

\* Mutant: the resource stays in the buffer when it is paired with an item.
OfferWithoutTaking(r) ==
    /\ idle' = Append(idle, r)
    /\ IF todo = << >>
         THEN UNCHANGED <<todo, running>>
         ELSE /\ running' = running \cup {<<r, Head(todo)>>}
              /\ todo' = Tail(todo)

\* Mutant: the newest item is taken first.
OfferToNewest(r) ==
    \/ /\ todo = << >>
       /\ idle' = Append(idle, r)
       /\ UNCHANGED <<todo, running>>
    \/ /\ todo # << >>
       /\ running' = running \cup {<<r, todo[Len(todo)]>>}
       /\ todo' = SubSeq(todo, 1, Len(todo) - 1)
       /\ UNCHANGED idle

\* Mutant: the resource is put back without looking for a waiting item.
OfferWithoutPairing(r) ==
    /\ idle' = Append(idle, r)
    /\ UNCHANGED <<todo, running>>

\* Mutant: the item stays in the buffer when it is paired with a resource.
OfferPeeks(r) ==
    \/ /\ todo = << >>
       /\ idle' = Append(idle, r)
       /\ UNCHANGED <<todo, running>>
    \/ /\ todo # << >>
       /\ running' = running \cup {<<r, Head(todo)>>}
       /\ UNCHANGED <<todo, idle>>

\* zip pairs a resource with the oldest waiting item, or lets it wait.
Offer(r) ==
    \/ /\ todo = << >>
       /\ idle' = Append(idle, r)
       /\ UNCHANGED <<todo, running>>
    \/ /\ todo # << >>
       /\ running' = running \cup {<<r, Head(todo)>>}
       /\ todo' = Tail(todo)
       /\ UNCHANGED idle

\* Mutant: a late answer replaces the outcome that was reported before.
SettleAgain(items, how) ==
    outcome' = [i \in Items |-> IF i \in items THEN how ELSE outcome[i]]

\* A result$ that has ended ignores whatever comes later.
Settle(items, how) ==
    outcome' = [i \in Items |-> IF i \in items /\ outcome[i] = "pending"
                                THEN how ELSE outcome[i]]

\* Mutant: only the items that still wait for a resource.
SettleWaiting(how) == Settle(Range(todo), how)

\* todoSubject replays every item that was ever scheduled.
SettleScheduled(how) == Settle(scheduled, how)

-----------------------------------------------------------------------------
(* The creation pipeline *)

\* Mutant: resource.init() is called but not awaited.
TokenArrivesInitNotAwaited(r) ==
    /\ Live /\ ~tokensDone
    /\ phase[r] = "unseen"
    /\ Cardinality(InFlight(phase)) < MaxConcurrentInit
    /\ phase' = [phase EXCEPT ![r] = "initializing"]
    /\ Offer(r)
    /\ UNCHANGED <<tokensDone, initSubject, recycling, failed, disposed, disposal>>
    /\ UNCHANGED itemVars

\* The token provider emits a token: mergeMap creates a resource for it, or
\* buffers the token when MAX_CONCURRENT_INIT creations are in flight.
TokenArrives(r) ==
    /\ Live /\ ~tokensDone
    /\ phase[r] = "unseen"
    /\ IF Cardinality(InFlight(phase)) < MaxConcurrentInit
         THEN phase' \in Project(phase, r)
         ELSE phase' = [phase EXCEPT ![r] = "buffered"]
    /\ UNCHANGED <<tokensDone, initSubject, failed, disposed, disposal>>
    /\ UNCHANGED workVars /\ UNCHANGED itemVars

\* The token provider completes the token stream.  Both streams of the
\* ConcurrencyTokenProvider emit at least one token before they complete.
TokensComplete ==
    /\ Live /\ ~tokensDone
    /\ \E r \in Resources : phase[r] # "unseen"
    /\ tokensDone' = TRUE
    /\ SignalInit(phase, TRUE)
    /\ UNCHANGED <<phase, failed, disposed, disposal>>
    /\ UNCHANGED workVars /\ UNCHANGED itemVars

\* init() of a resource resolves: the resource goes to zip, the slot in
\* mergeMap goes to the next token.
InitSucceeds(r) ==
    /\ phase[r] = "initializing"
    /\ IF failed
         THEN /\ phase' = [phase EXCEPT ![r] = "ready"]
              /\ UNCHANGED initSubject
         ELSE /\ phase' \in FillSlot([phase EXCEPT ![r] = "ready"])
              /\ SignalInit(phase', tokensDone \/ disposed)
    /\ IF Live THEN Offer(r) ELSE UNCHANGED <<idle, todo, running>>
    /\ UNCHANGED <<tokensDone, recycling, failed, disposed, disposal>>
    /\ UNCHANGED itemVars

\* init() rejects or factory() threw.  The first time, init() rejects and the
\* error reaches zip through resourcesSubject: every item is rejected.
CreationFails(r) ==
    /\ phase[r] \in {"initializing", "throwing"}
    /\ LET p == [phase EXCEPT ![r] = IF phase[r] = "throwing" THEN "unbuilt"
                                     ELSE "broken"]
       IN  IF failed
             THEN /\ phase' = p
                  /\ UNCHANGED initSubject
             ELSE /\ phase' = DropBuffered(p)
                  /\ initSubject' = "errored"
    /\ failed' = TRUE
    /\ IF Live
         THEN /\ SettleScheduled("poolError")
              /\ idle' = << >> /\ todo' = << >>
         ELSE UNCHANGED <<outcome, idle, todo>>
    /\ UNCHANGED <<tokensDone, running, recycling, scheduled, disposed, disposal>>

-----------------------------------------------------------------------------
(* The work pipeline *)

\* schedule(): input$ delivers the next item.  In an errored pool the item is
\* rejected at once; todoSubject of a disposed pool ignores it altogether.
Schedule(i) ==
    /\ ~disposed
    /\ i \notin scheduled
    /\ \A j \in Items : j < i => j \in scheduled
    /\ scheduled' = scheduled \cup {i}
    /\ \/ /\ failed
          /\ Settle({i}, "poolError")
          /\ UNCHANGED <<idle, todo, running>>
       \/ /\ ~failed /\ idle = << >>
          /\ todo' = Append(todo, i)
          /\ UNCHANGED <<idle, running, outcome>>
       \/ /\ ~failed /\ idle # << >>
          /\ running' = running \cup {<<Head(idle), i>>}
          /\ idle' = Tail(idle)
          /\ UNCHANGED <<todo, outcome>>
    /\ UNCHANGED <<recycling, failed, disposed, disposal>>
    /\ UNCHANGED creationVars

\* WorkItem.execute: the task on resource r resolved or rejected.
TaskSettles(r, i) ==
    /\ <<r, i>> \in running
    /\ running' = running \ {<<r, i>>}
    /\ recycling' = recycling \cup {r}
    /\ \E how \in {"value", "taskError"} : Settle({i}, how)
    /\ UNCHANGED <<idle, todo, scheduled, failed, disposed, disposal>>
    /\ UNCHANGED creationVars

\* Mutant: the resource is not offered again after a task.
RecycleNever(r) ==
    /\ r \in recycling
    /\ recycling' = recycling \ {r}
    /\ UNCHANGED <<idle, todo, running, failed, disposed, disposal>>
    /\ UNCHANGED creationVars /\ UNCHANGED itemVars

\* The continuation after `await workItem.execute(resource)`, a microtask
\* later: subscribers of result$ may have run in between.
Recycle(r) ==
    /\ r \in recycling
    /\ recycling' = recycling \ {r}
    /\ IF Live THEN Offer(r) ELSE UNCHANGED <<idle, todo, running>>
    /\ UNCHANGED <<failed, disposed, disposal>>
    /\ UNCHANGED creationVars /\ UNCHANGED itemVars

-----------------------------------------------------------------------------
(* Disposal *)

\* Mutant: only resources that are ready are disposed.
DisposeReadyResources ==
    disposal' = [r \in Resources |-> IF phase[r] = "ready" THEN "busy" ELSE "none"]

\* dispose() is called on everything in createdResources.
DisposeResources ==
    disposal' = [r \in Resources |-> IF r \in Created THEN "busy" ELSE "none"]

\* dispose(), first call: complete every item, close todoSubject and call
\* dispose() on every created resource.  A later call does nothing.
Dispose ==
    /\ ~disposed
    /\ disposed' = TRUE
    /\ SettleScheduled("completed")
    /\ idle' = << >> /\ todo' = << >>
    /\ SignalInit(phase, ~failed)
    /\ DisposeResources
    /\ UNCHANGED <<phase, tokensDone, running, recycling, scheduled, failed>>

\* dispose() of one resource resolves or rejects.
ResourceDisposed(r) ==
    /\ disposal[r] = "busy"
    /\ \E how \in {"done", "rejected"} : disposal' = [disposal EXCEPT ![r] = how]
    /\ UNCHANGED <<failed, disposed>>
    /\ UNCHANGED creationVars /\ UNCHANGED workVars /\ UNCHANGED itemVars

Next ==
    \/ \E r \in Resources :
          \/ TokenArrives(r) \/ InitSucceeds(r) \/ CreationFails(r)
          \/ Recycle(r) \/ ResourceDisposed(r)
          \/ \E i \in Items : TaskSettles(r, i)
    \/ \E i \in Items : Schedule(i)
    \/ TokensComplete
    \/ Dispose

(***************************************************************************)
(* Fairness.  The token provider emits at least one token.  While the pool *)
(* is in use an init() and a task settle: the resources are promises with  *)
(* a timeout.  A disposed resource need not answer any more.  A microtask  *)
(* always runs.                                                            *)
(***************************************************************************)
FirstToken == (\A r \in Resources : phase[r] = "unseen") /\ \E r \in Resources : TokenArrives(r)
CreationSettles(r) == ~disposed /\ (InitSucceeds(r) \/ CreationFails(r))

Fairness ==
    /\ WF_vars(FirstToken)
    /\ \A r \in Resources :
          /\ WF_vars(CreationSettles(r))
          /\ WF_vars(Recycle(r))
          /\ \A i \in Items : WF_vars(~disposed /\ TaskSettles(r, i))

Spec == Init /\ [][Next]_vars
FairSpec == Spec /\ Fairness

-----------------------------------------------------------------------------
(* Properties *)

\* "The pool will make sure only one task is executed on one resource at any
\* one time" (pool.ts:67): no two pending execute() calls share a resource, and
\* no item is executed on two resources, although resources enter zip from two
\* sides (creation and recycling) and items are paired on three occasions.
ExclusiveUse ==
    \A p, q \in running : p[1] = q[1] \/ p[2] = q[2] => p = q

\* A task only ever gets a resource whose init() has resolved.
InitialisedBeforeUse == \A p \in running : phase[p[1]] = "ready"

\* "should create 2 workers at a time": never more than MAX_CONCURRENT_INIT
\* creations are in flight, also when a slot is handed on to a buffered token.
BoundedInit == Cardinality(InFlight(phase)) <= MaxConcurrentInit

\* zip never holds back work: while the pool is live no item waits next to an
\* idle resource, whichever of the two came last.
WorkConserving == Live => idle = << >> \/ todo = << >>

\* Items start in the order in which they were scheduled.  The executor relies
\* on it: it sorts mutants that need a fresh environment to the end.
NoOvertaking ==
    Live => \A i, j \in scheduled :
                i < j /\ i \in Range(todo) => j \in Range(todo)

\* How tokens and items flow through the two mergeMap operators and zip: no
\* more inits at once than allowed, no work held back, no item overtaken.
QueuesAreFair == BoundedInit /\ WorkConserving /\ NoOvertaking

\* Failure or disposal reaches every item that was ever scheduled: the ones
\* that wait, the ones that run and the ones that come after a failure.  A
\* caller that awaits the results is never left hanging.
StoppedMeansSettled ==
    ~Live => \A i \in scheduled : outcome[i] # "pending"

\* dispose() reaches every resource that factory() ever returned, also the
\* ones whose init() is still pending or has rejected: no worker leaks.
CreatedAreDisposed ==
    disposed => \A r \in Created : disposal[r] # "none"

\* Once the pool failed or was disposed no task is started and no resource is
\* created (pool.ts:111 "Don't create new resources when disposed").
NothingStartsWhenStopped ==
    [][~Live => running' \subseteq running /\ Created' \subseteq Created]_vars

\* Every scheduled item settles, if the token provider emits a token and tasks
\* and inits settle.
EveryItemSettles ==
    \A i \in Items : i \in scheduled ~> outcome[i] # "pending"

\* init() settles once the token stream is over, unless the pool is disposed.
InitPromiseSettles ==
    tokensDone ~> initSubject # "pending" \/ disposed

\* Whoever awaits init() or the result of an item gets an answer.
EveryWaitEnds == EveryItemSettles /\ InitPromiseSettles

-----------------------------------------------------------------------------
(* The inductive invariant behind ExclusiveUse, InitialisedBeforeUse,      *)
(* StoppedMeansSettled and the refinement                                  *)

\* A resource that has been offered to zip is ready and is in one place only:
\* waiting in zip (once), executing one item, or between two items.
OnePlacePerResource ==
    /\ \A p, q \in running : p[1] = q[1] => p = q
    /\ \A p \in running : p[1] \notin recycling /\ phase[p[1]] = "ready"
    /\ \A r \in recycling : phase[r] = "ready"
    /\ \A k \in 1..Len(idle) :
          /\ idle[k] \notin recycling
          /\ phase[idle[k]] = "ready"
          /\ \A p \in running : p[1] # idle[k]
          /\ \A l \in 1..Len(idle) : idle[k] = idle[l] => k = l

\* An item that waits in zip does so once, is not executing and is not settled;
\* an item that executes does so on one resource, and is only settled by its
\* task while the pool is live.
OnePlacePerItem ==
    /\ \A p, q \in running : p[2] = q[2] => p = q
    /\ \A p \in running : p[2] \in scheduled /\ (Live => outcome[p[2]] = "pending")
    /\ \A i \in Items \ scheduled : outcome[i] = "pending"
    /\ \A k \in 1..Len(todo) :
          /\ todo[k] \in scheduled
          /\ outcome[todo[k]] = "pending"
          /\ \A p \in running : p[2] # todo[k]
          /\ \A l \in 1..Len(todo) : todo[k] = todo[l] => k = l

\* zip's buffers go when its subscription goes.
StoppedMeansEmpty == ~Live => idle = << >> /\ todo = << >>

\* The invariant that is inductive: places and settlement together.
IInv == /\ TypeOK
        /\ OnePlacePerResource
        /\ OnePlacePerItem
        /\ StoppedMeansEmpty
        /\ StoppedMeansSettled

-----------------------------------------------------------------------------
(* The inductive invariant behind QueuesAreFair *)

\* Items wait in the order of their numbers, which is that of schedule().
WaitInOrder == \A k, l \in 1..Len(todo) : k < l => todo[k] < todo[l]

\* schedule() leaves no number out.
NoneLeftOut == \A i \in scheduled : \A j \in Items : j < i => j \in scheduled

\* The creations in flight can be counted, however many tokens there may be.
QueueInv == /\ IsFiniteSet(InFlight(phase))
            /\ WaitInOrder
            /\ NoneLeftOut
            /\ QueuesAreFair

-----------------------------------------------------------------------------
(* Refinement *)

Work == INSTANCE ExclusiveWork WITH
            Workers <- Resources, Jobs <- Items,
            status <- IF disposed THEN "closed" ELSE IF failed THEN "failed" ELSE "open",
            submitted <- scheduled,
            busy <- running,
            result <- outcome

\* The pool, with its queues, its tokens and the microtask between a result and
\* the recycling of the resource, implements the contract of ExclusiveWork.
ImplementsExclusiveWork == Work!Spec
=============================================================================
