------------------------ MODULE MutationTestExecutor ------------------------
(***************************************************************************)
(* process/4-mutation-test-executor.ts: the streams that take every mutant *)
(* from its plan to one result, with the two pools and the token provider  *)
(* (concurrent/concurrency-token-provider.ts) that they share.             *)
(*                                                                         *)
(*   planner -> checker 1 -> ... -> checker N -> sort -> test runners      *)
(*                                                                         *)
(* A checker is a stage: it buffers the mutants that reach it (bufferTime),*)
(* has the checker group a full buffer, and has it check every group.  The *)
(* planner is stage 0.  When the last stage completes, the checker pool is *)
(* disposed and its tokens are given to the test runners.                  *)
(*                                                                         *)
(* The pools are taken by what Pool shows of them: first come, first       *)
(* served, so the jobs in progress are the oldest ones of a queue, as many *)
(* as there are workers.  What a checker or a test runner answers is       *)
(* external.                                                               *)
(***************************************************************************)
EXTENDS Naturals, Sequences, FiniteSets, SequencesExt, FiniteSetsExt

CONSTANTS
    Mutants,       \* the mutants of the instrumenter
    MaxCheckers,   \* bound on options.checkers.length
    MaxConcurrency,\* bound on options.concurrency, or its default
    Faults         \* which faults the surroundings may show

(***************************************************************************)
(* job     a checker, a test runner or a reporter rejects                  *)
(* init    the init() of a test runner rejects                             *)
(* kill    a worker process cannot be killed, so its dispose() rejects     *)
(***************************************************************************)
ASSUME MutantsAssumption == IsFiniteSet(Mutants)
ASSUME MaxCheckersAssumption == MaxCheckers \in Nat
ASSUME MaxConcurrencyAssumption == MaxConcurrency \in Nat \ {0}
ASSUME FaultsAssumption == Faults \subseteq {"job", "init", "kill"}

VARIABLES
    numCheckers,    \* options.checkers.length
    concurrency,    \* options.concurrency, or its default
    plan,           \* what the planner decided for each mutant
    status,         \* the phase of the run; execute() when it is not initial
    skipped,        \* execute() returned before it planned
    inputDone,      \* the stage whose input is complete
    connected,      \* stages up to this one are subscribed; the last is the runners
    buffer,         \* bufferTime of each checker
    checkQueue,     \* open jobs of the checker pool, oldest first
    runBuffer,      \* bufferTime of executeRunInTestRunner
    runQueue,       \* open jobs of the test runner pool, oldest first
    reported,       \* what the reporters were told about each mutant
    passed,         \* ghost: how many checkers let the mutant pass
    checkers,       \* live checker facades, each with a worker process
    checkerDisposal,\* checkerPool.dispose() and who awaits it
    runners,        \* tokens of the test runner pool: a test runner each, or one to be
    ready,          \* how many of them are initialised
    poolFailed,     \* the test runner pool has errored
    shutdown        \* the disposal of the injector tree

configVars == <<numCheckers, concurrency>>
streamVars == <<inputDone, connected, buffer, checkQueue, runBuffer, runQueue>>
processVars == <<checkers, checkerDisposal, runners, ready, poolFailed>>
vars == <<configVars, plan, status, skipped, streamVars, reported, passed, processVars, shutdown>>

Stages == 1..numCheckers

Jobs == [stage : Stages, act : {"group", "check"}, group : SUBSET Mutants]

TypeOK ==
    /\ numCheckers \in 0..MaxCheckers /\ concurrency \in 1..MaxConcurrency
    /\ plan \in [Mutants -> {"early", "noCoverage", "run", "reload"}]
    /\ status \in {"instrumenting", "dryRun", "idle", "running", "reporting",
                    "resolved", "rejected", "crashed"}
    /\ skipped \in BOOLEAN
    /\ inputDone \in 0..(numCheckers + 1) /\ connected \in 0..(numCheckers + 1)
    /\ buffer \in [Stages -> SUBSET Mutants]
    /\ checkQueue \in Seq(Jobs)
    /\ runBuffer \in SUBSET Mutants /\ runQueue \in Seq(Mutants)
    /\ reported \in [Mutants -> Seq({"early", "checkFailed", "noCoverage", "tested"})]
    /\ passed \in [Mutants -> 0..numCheckers]
    /\ checkers \in Nat /\ runners \in Nat /\ ready \in 0..runners
    /\ checkerDisposal \in {"none", "freeing", "stopping", "done"}
    /\ poolFailed \in BOOLEAN
    /\ shutdown \in {"none", "runners", "checkers", "over", "failed"}

-----------------------------------------------------------------------------
(* ConcurrencyTokenProvider *)

concurrencyCheckers == IF numCheckers > 0 THEN Max({(concurrency + 1) \div 2, 1}) ELSE 0

checkerTokens == IF numCheckers > 0 THEN concurrencyCheckers ELSE 1

concurrencyTestRunners ==
    IF numCheckers > 0 THEN Max({concurrency \div 2, 1}) ELSE concurrency

\* Mutant: the new test runners are created whatever became of their pool.
FreeCheckersAlways ==
    /\ runners' = runners + concurrencyCheckers
    /\ UNCHANGED ready

\* Mutant: one checker's token is forgotten.
FreeCheckersButOne ==
    /\ runners' = IF shutdown = "none" /\ ~poolFailed
                  THEN runners + concurrencyCheckers - 1 ELSE runners
    /\ UNCHANGED ready

\* The tokens of the checkers reach the test runner pool, unless it was
\* disposed or has errored.
FreeCheckers ==
    /\ runners' = IF shutdown = "none" /\ ~poolFailed
                  THEN runners + concurrencyCheckers ELSE runners
    /\ UNCHANGED ready

-----------------------------------------------------------------------------
(* The instrumenter has found the mutants; no process exists yet. *)

Init ==
    /\ numCheckers \in 0..MaxCheckers /\ concurrency \in 1..MaxConcurrency
    /\ plan \in [Mutants -> {"early", "noCoverage", "run", "reload"}]
    /\ status = "instrumenting" /\ skipped = FALSE
    /\ inputDone = 0 /\ connected = numCheckers + 1
    /\ buffer = [k \in Stages |-> {}]
    /\ checkQueue = << >>
    /\ runBuffer = {} /\ runQueue = << >>
    /\ reported = [m \in Mutants |-> << >>]
    /\ passed = [m \in Mutants |-> 0]
    /\ checkers = 0 /\ checkerDisposal = "none"
    /\ runners = 0 /\ ready = 0
    /\ poolFailed = FALSE
    /\ shutdown = "none"

\* The main process runs.
Up == status # "crashed"

\* Jobs in progress, as positions in the queue.
CheckersBusy == 1..Min({Len(checkQueue), checkerTokens})
RunnersBusy == 1..Min({Len(runQueue), ready})

-----------------------------------------------------------------------------
(* Passing mutants on *)

\* reportMutantStatus, reportCheckFailed, reportMutantRunResult
Report(kinds) ==
    reported' = [m \in Mutants |-> IF m \in DOMAIN kinds
                                   THEN Append(reported[m], kinds[m]) ELSE reported[m]]

\* The streams that did not error stay connected by their shareReplay().
Disconnect(k) ==
    /\ connected' = k
    /\ status' = IF status = "running" THEN "rejected" ELSE status

StayConnected == UNCHANGED <<connected, status>>

\* reloadEnvironmentLast: Array.sort is stable, the order of a buffer is any.
Sorted(plans) ==
    {s \in SetToSeqs(plans) : \A i, j \in 1..Len(s) :
        i < j /\ plan[s[i]] = "reload" => plan[s[j]] = "reload"}

\* sortedPlan$ emits a buffer: the pool queues it, or rejects it at once.
RunPlans(plans) ==
    /\ runBuffer' = {}
    /\ IF plans # {} /\ poolFailed
         THEN Disconnect(numCheckers) /\ UNCHANGED runQueue
         ELSE /\ StayConnected
              /\ \E s \in Sorted(plans) : runQueue' = runQueue \o s

GroupJob(k, plans) == [stage |-> k, act |-> "group", group |-> plans]

\* Mutant: a stage waits for its jobs, but not for the input it has yet to get.
OverEarly(k, queue) == \A i \in 1..Len(queue) : queue[i].stage # k

\* Stage k emits nothing any more once its input and its jobs have ended.
Over(k, queue) == inputDone = k /\ \A i \in 1..Len(queue) : queue[i].stage # k

\* Mutant: the buffer is lost when the input completes.
PassToCheckerLossy(k, plans, queue) ==
    /\ inputDone' = IF Over(k, queue) THEN k + 1 ELSE inputDone
    /\ buffer' = [buffer EXCEPT ![k + 1] = IF Over(k, queue) THEN {} ELSE @ \cup plans]
    /\ checkQueue' = IF Over(k, queue) THEN Append(queue, GroupJob(k + 1, plans)) ELSE queue
    /\ StayConnected
    /\ UNCHANGED <<runBuffer, runQueue, checkerDisposal>>

\* Mutant: completion is passed on only together with a mutant.
PassToCheckerWhenAny(k, plans, queue) ==
    LET full == buffer[k + 1] \cup plans
        over == Over(k, queue) /\ full # {}
    IN  /\ inputDone' = IF over THEN k + 1 ELSE inputDone
        /\ buffer' = [buffer EXCEPT ![k + 1] = IF over THEN {} ELSE full]
        /\ checkQueue' = IF over THEN Append(queue, GroupJob(k + 1, full)) ELSE queue
        /\ StayConnected
        /\ UNCHANGED <<runBuffer, runQueue, checkerDisposal>>

\* From stage k to the next checker.  bufferTime emits what it holds, even
\* nothing, when its input completes.
PassToChecker(k, plans, queue) ==
    LET full == buffer[k + 1] \cup plans
    IN  /\ inputDone' = IF Over(k, queue) THEN k + 1 ELSE inputDone
        /\ buffer' = [buffer EXCEPT ![k + 1] = IF Over(k, queue) THEN {} ELSE full]
        /\ checkQueue' = IF Over(k, queue) THEN Append(queue, GroupJob(k + 1, full)) ELSE queue
        /\ StayConnected
        /\ UNCHANGED <<runBuffer, runQueue, checkerDisposal>>

\* From the last stage to the test runners, if they listen.  Its completion
\* disposes the checker pool (a second dispose() returns at once).
PassToRunners(plans, queue) ==
    LET over == Over(numCheckers, queue)
        full == IF connected > numCheckers
                THEN runBuffer \cup {m \in plans : plan[m] # "noCoverage"} ELSE runBuffer
    IN  /\ inputDone' = IF over THEN numCheckers + 1 ELSE inputDone
        /\ checkerDisposal' = IF over /\ checkerDisposal = "none" THEN "freeing" ELSE checkerDisposal
        /\ checkQueue' = queue
        /\ IF over /\ connected > numCheckers
             THEN RunPlans(full)
             ELSE runBuffer' = full /\ StayConnected /\ UNCHANGED runQueue
        /\ UNCHANGED buffer

\* Nobody listens to stage k any more, or to what follows it.
Ignore(queue) ==
    /\ checkQueue' = queue
    /\ StayConnected
    /\ UNCHANGED <<inputDone, buffer, runBuffer, runQueue, checkerDisposal>>

\* What stage k emits goes to the next one that listens.
PassOn(k, plans, queue) ==
    IF k > connected \/ (k = connected /\ k < numCheckers) THEN Ignore(queue)
    ELSE IF k < numCheckers THEN PassToChecker(k, plans, queue)
    ELSE PassToRunners(plans, queue)

\* noCoverageResult$ is fed by the last stage, as long as it is subscribed.
NoCoverage(k, plans) ==
    IF k = numCheckers /\ connected > numCheckers
    THEN {m \in plans : plan[m] = "noCoverage"} ELSE {}

-----------------------------------------------------------------------------
(* Before execute(): MutantInstrumenterExecutor and DryRunExecutor *)

\* checkerPool.init() is awaited: all checkers are ready, or the run is over.
InitCheckerPool ==
    /\ status = "instrumenting"
    /\ checkers' = checkerTokens
    /\ status' \in {"dryRun"} \cup (IF "init" \in Faults THEN {"rejected"} ELSE {})
    /\ UNCHANGED <<configVars, plan, skipped, streamVars, reported, passed, checkerDisposal,
                   runners, ready, poolFailed, shutdown>>

\* The initial test run needs one test runner; the others may come later.
DryRun ==
    /\ status = "dryRun"
    /\ runners' = concurrencyTestRunners
    /\ ready' \in 0..concurrencyTestRunners
    /\ \/ ready' > 0 /\ status' = "idle" /\ poolFailed' = FALSE
       \/ "job" \in Faults /\ ready' > 0 /\ status' = "rejected" /\ poolFailed' = FALSE
       \/ "init" \in Faults /\ ready' < runners' /\ status' = "rejected" /\ poolFailed' = TRUE
    /\ UNCHANGED <<configVars, plan, skipped, streamVars, reported, passed, checkers,
                   checkerDisposal, shutdown>>

-----------------------------------------------------------------------------
(* execute() *)

\* dryRunOnly, or allowEmpty and no tests: nothing is planned.
Skip ==
    /\ status = "idle"
    /\ status' = "resolved" /\ skipped' = TRUE
    /\ UNCHANGED <<configVars, plan, streamVars, reported, passed, processVars, shutdown>>

\* execute() awaits makePlan().
Execute ==
    /\ status = "idle"
    /\ status' = "running"
    /\ UNCHANGED <<configVars, plan, skipped, streamVars, reported, passed, processVars, shutdown>>

\* makePlan() rejects: no stream is ever subscribed.
PlanFails ==
    /\ "job" \in Faults
    /\ status = "running" /\ inputDone = 0
    /\ Disconnect(0)
    /\ UNCHANGED <<configVars, plan, skipped, inputDone, buffer, checkQueue, runBuffer, runQueue, reported,
                   passed, processVars, shutdown>>

\* merge() subscribes to the streams; from(plans) emits all plans at once.
PlansMade ==
    /\ status = "running" /\ inputDone = 0
    /\ LET toRun == {m \in Mutants : plan[m] # "early"}
           early == Mutants \ toRun
       IN  /\ Report([m \in early \cup NoCoverage(0, toRun) |->
                          IF m \in early THEN "early" ELSE "noCoverage"])
           /\ PassOn(0, toRun, << >>)
    /\ UNCHANGED <<configVars, plan, skipped, passed, checkers, runners, ready, poolFailed, shutdown>>

\* merge() has completed; reportAll() and wrapUp() are awaited.
AllResults ==
    /\ status = "running"
    /\ inputDone = numCheckers + 1 /\ runQueue = << >>
    /\ status' = "reporting"
    /\ UNCHANGED <<configVars, plan, skipped, streamVars, reported, passed, processVars, shutdown>>

WrapUp ==
    /\ status = "reporting"
    /\ status' \in {"resolved"} \cup (IF "job" \in Faults THEN {"rejected"} ELSE {})
    /\ UNCHANGED <<configVars, plan, skipped, streamVars, reported, passed, processVars, shutdown>>

-----------------------------------------------------------------------------
(* executeCheck() *)

\* CHECK_BUFFER_MS has passed.  (A buffer that is empty then becomes a job
\* that comes back without a group; it is left out.)
TimerFlush(k) ==
    /\ Up /\ inputDone \in 1..(k - 1) /\ k <= connected
    /\ buffer[k] # {}
    /\ checkQueue' = Append(checkQueue, GroupJob(k, buffer[k]))
    /\ buffer' = [buffer EXCEPT ![k] = {}]
    /\ UNCHANGED <<configVars, plan, status, skipped, inputDone, connected, runBuffer, runQueue,
                   reported, passed, processVars, shutdown>>

Partitions(S) ==
    {P \in SUBSET ((SUBSET S) \ {{}}) :
        UNION P = S /\ \A A, B \in P : A # B => A \cap B = {}}

\* CheckerFacade.group: every mutant of the buffer ends up in a group.
GroupEnds(i) ==
    LET job == checkQueue[i]
        rest == RemoveAt(checkQueue, i)
    IN  /\ Up /\ job.act = "group"
        /\ \E groups \in UNION {SetToSeqs(P) : P \in Partitions(job.group)} :
             LET checks == [j \in 1..Len(groups) |->
                               [stage |-> job.stage, act |-> "check", group |-> groups[j]]]
             IN  IF job.stage > connected THEN Ignore(rest)
                 ELSE PassOn(job.stage, {}, rest \o checks)
        /\ UNCHANGED <<configVars, plan, skipped, reported, passed, checkers, runners, ready,
                       poolFailed, shutdown>>

\* Mutant: every mutant passes, the failed ones too.
LetThroughAll(group, failed) == group

\* checkPassedResult$
LetThrough(group, failed) == group \ failed

\* CheckerFacade.check: any mutants of the group may fail.  A stage that has
\* errored reports nothing.
CheckEnds(i) ==
    LET job == checkQueue[i]
        k == job.stage
        rest == RemoveAt(checkQueue, i)
    IN  /\ Up /\ job.act = "check"
        /\ \E failed \in SUBSET job.group :
             LET ok == LetThrough(job.group, failed)
                 uncovered == NoCoverage(k, ok)
             IN  /\ IF k > connected THEN UNCHANGED reported
                    ELSE Report([m \in failed \cup uncovered |->
                                    IF m \in failed THEN "checkFailed" ELSE "noCoverage"])
                 /\ passed' = [m \in Mutants |-> IF m \in job.group \ failed
                                                 THEN passed[m] + 1 ELSE passed[m]]
                 /\ PassOn(k, ok, rest)
        /\ UNCHANGED <<configVars, plan, skipped, checkers, runners, ready, poolFailed, shutdown>>

\* The streams of the stage and of those after it error.
CheckRejects(i) ==
    LET k == checkQueue[i].stage IN
    /\ Up /\ "job" \in Faults
    /\ checkQueue' = RemoveAt(checkQueue, i)
    /\ IF k > connected THEN StayConnected ELSE Disconnect(k - 1)
    /\ UNCHANGED <<configVars, plan, skipped, inputDone, buffer, runBuffer, runQueue, reported,
                   passed, processVars, shutdown>>

\* Mutant: the tokens are freed before the checkers have gone.
CheckersFreedEarly ==
    /\ Up /\ checkerDisposal = "freeing"
    /\ checkerDisposal' = "done"
    /\ FreeCheckers
    /\ UNCHANGED <<configVars, plan, status, skipped, streamVars, reported, passed, checkers,
                   poolFailed, shutdown>>

\* The microtask after checkerPool.dispose(): only now the tokens are free.
CheckersFreed ==
    /\ Up /\ checkerDisposal = "freeing"
    /\ checkers' = 0 /\ checkerDisposal' = "done"
    /\ FreeCheckers
    /\ UNCHANGED <<configVars, plan, status, skipped, streamVars, reported, passed, poolFailed, shutdown>>

\* dispose() rejects in a callback of tap that nobody awaits: node ends the
\* process on the unhandled rejection.
CheckersNotFreed ==
    /\ "kill" \in Faults
    /\ Up /\ checkerDisposal = "freeing"
    /\ status' = "crashed"
    /\ UNCHANGED <<configVars, plan, skipped, streamVars, reported, passed, processVars, shutdown>>

-----------------------------------------------------------------------------
(* executeRunInTestRunner() *)

\* bufferTime(0)
SortTimer ==
    /\ Up /\ connected > numCheckers /\ runBuffer # {}
    /\ RunPlans(runBuffer)
    /\ UNCHANGED <<configVars, plan, skipped, inputDone, buffer, checkQueue, reported, passed,
                   processVars, shutdown>>

\* The task of the pool reports by itself, whoever listens.
RunEnds(i) ==
    /\ Up
    /\ Report([m \in {runQueue[i]} |-> "tested"])
    /\ runQueue' = RemoveAt(runQueue, i)
    /\ UNCHANGED <<configVars, plan, status, skipped, inputDone, connected, buffer, checkQueue,
                   runBuffer, passed, processVars, shutdown>>

RunRejects(i) ==
    /\ Up /\ "job" \in Faults
    /\ runQueue' = RemoveAt(runQueue, i)
    /\ Disconnect(Min({connected, numCheckers}))
    /\ UNCHANGED <<configVars, plan, skipped, inputDone, buffer, checkQueue, runBuffer, reported,
                   passed, processVars, shutdown>>

\* Once stopped, the pool starts nothing: it is left with what is in progress.
InProgress == SubSeq(runQueue, 1, Min({Len(runQueue), ready}))

\* Mutant: a test runner may become ready more than once.
RunnerReadyAgain ==
    /\ Up /\ ready \in 1..runners /\ ~poolFailed /\ shutdown = "none"
    /\ ready' = ready + 1
    /\ UNCHANGED <<configVars, plan, status, skipped, streamVars, reported, passed, checkers,
                   checkerDisposal, runners, poolFailed, shutdown>>

RunnerReady ==
    /\ Up /\ ready < runners /\ ~poolFailed /\ shutdown = "none"
    /\ ready' = ready + 1
    /\ UNCHANGED <<configVars, plan, status, skipped, streamVars, reported, passed, checkers,
                   checkerDisposal, runners, poolFailed, shutdown>>

\* init() rejects, the pool errors and with it every item it was given.
RunnerInitFails ==
    /\ "init" \in Faults
    /\ Up /\ ready < runners /\ ~poolFailed /\ shutdown = "none"
    /\ poolFailed' = TRUE
    /\ runQueue' = InProgress
    /\ IF runQueue = << >> THEN StayConnected
       ELSE Disconnect(Min({connected, numCheckers}))
    /\ UNCHANGED <<configVars, plan, skipped, inputDone, buffer, checkQueue, runBuffer, reported,
                   passed, checkers, checkerDisposal, runners, ready, shutdown>>

-----------------------------------------------------------------------------
(* rootInjector.dispose() in Stryker: what was created last goes first *)

DisposeTestRunnerPool ==
    /\ status \in {"resolved", "rejected"} /\ shutdown = "none"
    /\ shutdown' = "runners"
    /\ runQueue' = InProgress
    /\ UNCHANGED <<configVars, plan, status, skipped, inputDone, connected, buffer, checkQueue,
                   runBuffer, reported, passed, processVars>>

\* A dispose() that rejects leaves the rest of the tree as it is.
DisposeFails ==
    /\ "kill" \in Faults
    /\ Up /\ shutdown \in {"runners", "checkers"}
    /\ shutdown' = "failed"
    /\ UNCHANGED <<configVars, plan, status, skipped, streamVars, reported, passed, processVars>>

\* Mutant: the checker pool is left to the streams.
DisposeCheckerPoolNever ==
    /\ connected' = 0
    /\ shutdown' = "over"
    /\ UNCHANGED <<checkQueue, checkerDisposal>>

\* checkerPool.dispose() returns at once when the streams have disposed it.
DisposeCheckerPool ==
    /\ connected' = 0
    /\ checkQueue' = SubSeq(checkQueue, 1, Min({Len(checkQueue), checkerTokens}))
    /\ IF checkerDisposal = "none"
         THEN checkerDisposal' = "stopping" /\ shutdown' = "checkers"
         ELSE UNCHANGED checkerDisposal /\ shutdown' = "over"

TestRunnersGone ==
    /\ Up /\ shutdown = "runners"
    /\ runners' = 0 /\ ready' = 0 /\ runQueue' = << >>
    /\ DisposeCheckerPool
    /\ UNCHANGED <<configVars, plan, status, skipped, inputDone, buffer, runBuffer, reported,
                   passed, checkers, poolFailed>>

CheckersGone ==
    /\ Up /\ shutdown = "checkers"
    /\ shutdown' = "over"
    /\ checkers' = 0 /\ checkerDisposal' = "done" /\ checkQueue' = << >>
    /\ UNCHANGED <<configVars, plan, status, skipped, inputDone, connected, buffer, runBuffer,
                   runQueue, reported, passed, runners, ready, poolFailed>>

-----------------------------------------------------------------------------
CheckSettles == \E i \in CheckersBusy : GroupEnds(i) \/ CheckEnds(i) \/ CheckRejects(i)
RunSettles == \E i \in RunnersBusy : RunEnds(i) \/ RunRejects(i)
RunnerSettles == RunnerReady \/ RunnerInitFails
CheckersLeave == CheckersFreed \/ CheckersNotFreed
Shutdown ==
    DisposeTestRunnerPool \/ DisposeFails \/ TestRunnersGone \/ CheckersGone

Next ==
    \/ InitCheckerPool \/ DryRun
    \/ Skip \/ Execute \/ PlanFails \/ PlansMade \/ AllResults \/ WrapUp
    \/ \E k \in Stages : TimerFlush(k)
    \/ CheckSettles \/ CheckersLeave
    \/ SortTimer \/ RunSettles \/ RunnerSettles
    \/ Shutdown

Spec == Init /\ [][Next]_vars

\* Promises settle, jobs are answered, processes can be disposed of.
FairSpec ==
    /\ Spec
    /\ WF_vars(InitCheckerPool) /\ WF_vars(DryRun) /\ WF_vars(Skip \/ Execute)
    /\ WF_vars(PlanFails \/ PlansMade) /\ WF_vars(AllResults) /\ WF_vars(WrapUp)
    /\ WF_vars(CheckSettles)
    /\ WF_vars(RunSettles)
    /\ WF_vars(SortTimer) /\ WF_vars(CheckersLeave)
    /\ WF_vars(Shutdown)

-----------------------------------------------------------------------------
(* Properties *)

Settled == status \in {"resolved", "rejected", "crashed"}

\* Reporters hear of every mutant at most once, whatever fails, and of every
\* mutant by the time execute() has all results: nothing gets lost between
\* the partitions, the buffers and the two pools.
OneResult ==
    /\ \A m \in Mutants : Len(reported[m]) <= 1
    /\ status \in {"reporting", "resolved"} /\ ~skipped =>
         \A m \in Mutants : Len(reported[m]) = 1

\* A mutant is checked by checker k only when it passed the checkers before,
\* and reaches a test runner, or NoCoverage, only when it passed all of them.
CheckedFirst ==
    /\ \A i \in 1..Len(checkQueue) : \A m \in checkQueue[i].group :
         passed[m] = checkQueue[i].stage - 1
    /\ \A k \in Stages : \A m \in buffer[k] : passed[m] = k - 1
    /\ \A m \in runBuffer \cup Range(runQueue) : passed[m] = numCheckers
    /\ \A m \in Mutants : reported[m] \in {<<"tested">>, <<"noCoverage">>} =>
         passed[m] = numCheckers

\* What is reported is complete and nothing is reported twice.
ResultsAreComplete == TypeOK /\ OneResult

\* The checkers are disposed only when no check is open and no mutant waits
\* for one, unless execute() is over anyway.
CheckersOutliveChecks ==
    checkerDisposal # "none" /\ shutdown = "none" =>
        checkQueue = << >> /\ \A k \in Stages : buffer[k] = {}

\* Mutants get every check they need, and checkers stay until then.
ChecksComeFirst == CheckedFirst /\ CheckersOutliveChecks

\* With checkers, checker and test runner processes together stay within the
\* concurrency, of which each pool gets at least one: a checker's share is
\* handed over after its process has gone.
WithinConcurrency ==
    numCheckers > 0 => checkers + runners <= Max({concurrency, 2})

\* No test runner exists after the disposal of their pool, also when the last
\* checker is freed at that moment.
RunnersStayGone == shutdown \in {"checkers", "over"} => runners = 0

\* Once all checkers are freed, the test runners use the whole concurrency.
ShareHandedOver ==
    numCheckers > 0 /\ checkerDisposal = "done" /\ shutdown = "none" /\ ~poolFailed =>
        runners = concurrencyTestRunners + concurrencyCheckers

\* The two pools share the concurrency, all of it and no more.
ConcurrencyIsShared == WithinConcurrency /\ RunnersStayGone /\ ShareHandedOver

\* concurrency-token-provider.ts:33 says that without checkers "the
\* `CheckerFacade` will not create worker process".
NoCheckerProcess == numCheckers = 0 => checkers = 0

\* execute() settles: completion and errors get through all stages.
ExecuteSettles == (status = "running") ~> Settled

\* After a run, both pools are empty, unless a process could not be killed.
ProcessesEnd ==
    (status \in {"resolved", "rejected"}) ~>
        (checkers + runners = 0 \/ shutdown = "failed" \/ status = "crashed")

\* The run settles, and leaves no process behind.
EverythingEnds == ExecuteSettles /\ ProcessesEnd

-----------------------------------------------------------------------------
(* The inductive invariant behind the properties *)

\* Where a mutant is while it is on its way: planned, and not reported yet.
Waits(m, buf, queue, rbuf, rqueue) ==
    \/ \E k \in Stages : m \in buf[k]
    \/ \E i \in 1..Len(queue) : m \in queue[i].group
    \/ m \in rbuf
    \/ \E i \in 1..Len(rqueue) : rqueue[i] = m

\* A mutant has passed the checkers before the place it is in.
InOrder(buf, queue, rbuf, rqueue, psd) ==
    /\ \A k \in Stages : \A m \in buf[k] : psd[m] = k - 1
    /\ \A i \in 1..Len(queue) : \A m \in queue[i].group : psd[m] = queue[i].stage - 1
    /\ \A m \in rbuf : psd[m] = numCheckers
    /\ \A i \in 1..Len(rqueue) : psd[rqueue[i]] = numCheckers

\* It is in no other place: InOrder tells the places of two stages apart.
OnePlace(buf, queue, rbuf, rqueue) ==
    /\ \A i, j \in 1..Len(queue) : \A m \in queue[i].group : m \in queue[j].group => i = j
    /\ \A i \in 1..Len(queue) : \A m \in queue[i].group : m \notin buf[queue[i].stage]
    /\ \A i, j \in 1..Len(rqueue) : rqueue[i] = rqueue[j] => i = j
    /\ \A i \in 1..Len(rqueue) : rqueue[i] \notin rbuf

\* What was reported is on its way no more.
ReportedOnce ==
    \A m \in Mutants :
        /\ Len(reported[m]) <= 1
        /\ reported[m] # << >> => ~Waits(m, buffer, checkQueue, runBuffer, runQueue)
        /\ reported[m] \in {<<"tested">>, <<"noCoverage">>} => passed[m] = numCheckers

\* Stages complete in order, and leave nothing behind.
StagesComplete ==
    /\ inputDone = 0 => checkQueue = << >> /\ \A m \in Mutants :
         /\ ~Waits(m, buffer, checkQueue, runBuffer, runQueue)
         /\ reported[m] = << >> /\ passed[m] = 0
    /\ \A i \in 1..Len(checkQueue) : checkQueue[i].stage >= inputDone
    /\ \A k \in Stages : k <= inputDone => buffer[k] = {}
    /\ inputDone > numCheckers /\ connected > numCheckers => runBuffer = {}
    /\ checkerDisposal # "none" /\ shutdown = "none" => inputDone > numCheckers

\* A run without an error loses no mutant.
NothingIsLost ==
    /\ shutdown # "none" => Settled
    /\ status \in {"instrumenting", "dryRun", "idle"} => inputDone = 0
    /\ status \in {"instrumenting", "dryRun", "idle", "running"} => connected = numCheckers + 1
    /\ status = "running" /\ inputDone > 0 => \A m \in Mutants :
         Waits(m, buffer, checkQueue, runBuffer, runQueue) \/ reported[m] # << >>
    /\ status \in {"reporting", "resolved"} /\ ~skipped =>
         \A m \in Mutants : reported[m] # << >>

StreamInv ==
    /\ TypeOK
    /\ InOrder(buffer, checkQueue, runBuffer, runQueue, passed)
    /\ OnePlace(buffer, checkQueue, runBuffer, runQueue)
    /\ ReportedOnce /\ StagesComplete /\ NothingIsLost

\* The tokens that are in use, in every phase of the run.
SharesInv ==
    /\ checkers \in {0, checkerTokens}
    /\ (status = "instrumenting" \/ checkerDisposal = "done") => checkers = 0
    /\ status \in {"instrumenting", "dryRun"} => runners = 0 /\ ~poolFailed
    /\ status \in {"idle", "running"} => runners # 0
    /\ inputDone > 0 /\ shutdown = "none" => runners # 0
    /\ shutdown = "none" => checkerDisposal # "stopping"
    /\ \/ runners \in {0, concurrencyTestRunners}
       \/ (checkerDisposal = "done" /\ runners = concurrencyTestRunners + concurrencyCheckers)
    /\ RunnersStayGone /\ ShareHandedOver
=============================================================================
