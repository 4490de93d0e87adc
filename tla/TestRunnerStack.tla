-------------------------- MODULE TestRunnerStack --------------------------
(***************************************************************************)
(* test-runner/: what a test runner of the pool is made of (index.ts:41)   *)
(*                                                                         *)
(*   RetryRejected( ReloadEnvironment( MaxTestRunnerReuse( Timeout(        *)
(*       ChildProcessTestRunnerProxy ))))                                  *)
(*                                                                         *)
(* Each decorator can throw away what it wraps and create it anew          *)
(* (recover), each keeps a state of its own about the process at the       *)
(* bottom, and all of them are handed one options object, which one of     *)
(* them changes.  The pool runs one job at a time; the steps below are the *)
(* points where such a job waits for the worker process.                   *)
(*                                                                         *)
(* The test runner plugin in the worker process is external.  What matters *)
(* of it is the environment it has loaded: tests and code are loaded on    *)
(* the first run, and again when a run says reloadEnvironment; a mutant    *)
(* that is activated statically is part of what gets loaded.               *)
(***************************************************************************)
EXTENDS Naturals, FiniteSets

CONSTANTS
    StaticMutants,   \* planned with reloadEnvironment and static activation
    RuntimeMutants,  \* planned with a test filter: activated at run time
    DryRun,          \* the initial test run
    MaxReuse,        \* bound on maxTestRunnerReuse; 0 stands for no limit
    Faults           \* which faults the environment may show, see below

Mutants == StaticMutants \cup RuntimeMutants
Jobs == Mutants \cup {DryRun}

(***************************************************************************)
(* crash        the process ends, or the plugin rejects a run              *)
(* timeout      a run takes longer than its timeout                        *)
(* initFails    init() of a new process rejects                            *)
(* busyDispose  the pool is disposed while a job is in progress            *)
(***************************************************************************)
ASSUME FaultsAssumption == Faults \subseteq {"crash", "timeout", "initFails", "busyDispose"}
ASSUME JobsAssumption ==
    /\ StaticMutants \cap RuntimeMutants = {}
    /\ DryRun \notin Mutants
    /\ {"none", "fresh", "clean"} \cap Jobs = {}
ASSUME MaxReuseAssumption == MaxReuse \in Nat

VARIABLES
    (* configuration, chosen once *)
    capable,         \* the plugin's capability reloadEnvironment
    restartAfter,    \* MaxTestRunnerReuseDecorator.restartAfter
    (* control *)
    pc,              \* where the job waits
    recovering,      \* the decorator whose recover() is in progress
    job,             \* the job in progress
    answers,         \* what the pool got for each job
    (* state of the decorators *)
    attempts,        \* RetryRejected: attemptsLeft
    testEnvironment, \* ReloadEnvironment
    newState,        \* ReloadEnvironment.mutantRun: local variable
    capsKnown,       \* ReloadEnvironment._capabilities is cached
    runs,            \* MaxTestRunnerReuse
    reload,          \* options.reloadEnvironment of each mutant
    (* the worker process *)
    alive,           \* the current process runs
    silenced,        \* it was disposed while a call was open: nobody answers that
    env,             \* the environment it has loaded
    ranOn,           \* how many mutants were run on it
    hung,            \* it is in an endless loop
    processes,       \* how many processes of this stack run, the current one included
    closed,          \* dispose() was called by the pool
    tainted          \* mutants whose verdict came from a wrong environment

configVars == <<capable, restartAfter>>
decoratorVars == <<attempts, testEnvironment, newState, capsKnown, runs, reload>>
processVars == <<alive, silenced, env, ranOn, hung, processes>>
vars == <<configVars, pc, recovering, job, answers, decoratorVars, processVars,
          closed, tainted>>

EnvironmentStates == {"Pristine", "Loaded", "LoadedStaticMutant"}

TypeOK ==
    /\ capable \in BOOLEAN
    /\ restartAfter \in 0..MaxReuse
    /\ pc \in {"idle", "reload", "reuse", "run", "disposing", "initialising"}
    /\ recovering \in {"none", "reload", "reuse", "timeout", "retry"}
    /\ job \in Jobs \cup {"none"}
    /\ answers \in [Jobs -> {"none", "verdict", "timeout", "error", "rejected"}]
    /\ attempts \in 0..2
    /\ testEnvironment \in EnvironmentStates
    /\ newState \in EnvironmentStates
    /\ capsKnown \in BOOLEAN
    /\ runs \in Nat
    /\ reload \in [Mutants -> BOOLEAN]
    /\ alive \in BOOLEAN /\ silenced \in BOOLEAN /\ hung \in BOOLEAN
    /\ env \in {"fresh", "clean"} \cup StaticMutants
    /\ ranOn \in Nat /\ processes \in Nat
    /\ closed \in BOOLEAN
    /\ tainted \in SUBSET Mutants

\* A test runner that the pool has created and initialised.
Init ==
    /\ capable \in BOOLEAN
    /\ restartAfter \in 0..MaxReuse
    /\ pc = "idle" /\ recovering = "none" /\ job = "none"
    /\ answers = [j \in Jobs |-> "none"]
    /\ attempts = 0
    /\ testEnvironment = "Pristine" /\ newState = "Pristine" /\ capsKnown = FALSE
    /\ runs = 0
    /\ reload = [m \in Mutants |-> m \in StaticMutants]
    /\ alive = TRUE /\ silenced = FALSE /\ env = "fresh" /\ ranOn = 0
    /\ hung = FALSE /\ processes = 1
    /\ closed = FALSE
    /\ tainted = {}

-----------------------------------------------------------------------------
(* The plugin in the worker process (external) *)

\* The environment after running job j: loaded now, or what it was.
EnvAfter(j) ==
    IF env = "fresh" \/ (j # DryRun /\ reload[j] /\ capable)
    THEN IF j \in StaticMutants THEN j ELSE "clean"
    ELSE env

\* What a verdict on j needs: j itself loaded, or nothing but the original code.
RightEnv(j) == IF j \in StaticMutants THEN j ELSE "clean"

-----------------------------------------------------------------------------
(* RetryRejectedDecorator *)

\* Mutant: one more retry.
MaxRetriesOffByOne == 3

MAX_RETRIES == 2

\* A job of the pool enters the outermost decorator.  The dry run comes before
\* the mutants, which are only tested when it completes.
Start(j) ==
    /\ pc = "idle" /\ ~closed
    /\ answers[j] = "none"
    /\ IF j = DryRun THEN \A m \in Mutants : answers[m] = "none"
                     ELSE answers[DryRun] \in {"none", "verdict"}
    /\ job' = j
    /\ attempts' = MAX_RETRIES
    /\ pc' = "reload"
    /\ UNCHANGED <<configVars, recovering, answers, testEnvironment, newState, capsKnown,
                   runs, reload, processVars, closed, tainted>>

\* The pool gets its answer.
Answer(how) ==
    /\ answers' = [answers EXCEPT ![job] = how]
    /\ pc' = "idle" /\ recovering' = "none" /\ job' = "none"

\* A promise of a decorator further in rejects: catch, and recover.
Reject == pc' = "disposing" /\ recovering' = "retry"

-----------------------------------------------------------------------------
(* ReloadEnvironmentDecorator *)

\* Mutant: a static mutant that was loaded before is forgotten.
NeedsCapabilitiesStaticOnly ==
    job \in Mutants /\ reload[job] /\ testEnvironment # "Pristine"

NeedsCapabilities ==
    job \in Mutants /\ IF reload[job] THEN testEnvironment # "Pristine"
                                      ELSE testEnvironment = "LoadedStaticMutant"

\* dryRun: the environment counts as loaded; the reuse decorator passes it on.
EnterDryRun ==
    /\ pc = "reload" /\ job = DryRun
    /\ testEnvironment' = "Loaded"
    /\ pc' = "run"
    /\ UNCHANGED <<configVars, recovering, job, answers, attempts, newState, capsKnown, runs,
                   reload, processVars, closed, tainted>>

\* mutantRun up to the point where the wrapped runner is called.  It decides
\* whether to reload, to recover, or to just run, and writes the decision back
\* into options.reloadEnvironment.
EnterMutantRun ==
    /\ pc = "reload" /\ job \in Mutants
    /\ newState' = IF reload[job] THEN "LoadedStaticMutant" ELSE "Loaded"
    /\ \/ /\ ~NeedsCapabilities
          /\ reload' = [reload EXCEPT ![job] = FALSE]
          /\ pc' = "reuse"
          /\ UNCHANGED <<recovering, capsKnown>>
       \/ /\ NeedsCapabilities /\ (capsKnown \/ alive) /\ capable
          /\ reload' = [reload EXCEPT ![job] = TRUE]
          /\ capsKnown' = TRUE
          /\ pc' = "reuse"
          /\ UNCHANGED recovering
       \/ /\ NeedsCapabilities /\ (capsKnown \/ alive) /\ ~capable
          /\ capsKnown' = TRUE
          /\ pc' = "disposing" /\ recovering' = "reload"
          /\ UNCHANGED reload
       \/ /\ NeedsCapabilities /\ ~capsKnown /\ ~alive
          /\ Reject
          /\ UNCHANGED <<reload, capsKnown>>
    /\ UNCHANGED <<configVars, job, answers, attempts, testEnvironment, runs, processVars,
                   closed, tainted>>

-----------------------------------------------------------------------------
(* MaxTestRunnerReuseDecorator *)

\* Mutant: off by one.
CountRunTooMany ==
    /\ pc = "reuse"
    /\ runs' = runs + 1
    /\ IF restartAfter > 0 /\ runs > restartAfter
         THEN pc' = "disposing" /\ recovering' = "reuse"
         ELSE pc' = "run" /\ UNCHANGED recovering
    /\ UNCHANGED <<configVars, job, answers, attempts, testEnvironment, newState, capsKnown,
                   reload, processVars, closed, tainted>>

CountRun ==
    /\ pc = "reuse"
    /\ runs' = runs + 1
    /\ IF restartAfter > 0 /\ runs + 1 > restartAfter
         THEN pc' = "disposing" /\ recovering' = "reuse"
         ELSE pc' = "run" /\ UNCHANGED recovering
    /\ UNCHANGED <<configVars, job, answers, attempts, testEnvironment, newState, capsKnown,
                   reload, processVars, closed, tainted>>

-----------------------------------------------------------------------------
(* TimeoutDecorator and ChildProcessTestRunnerProxy *)

RanOnProcess == ranOn' = IF job \in Mutants THEN ranOn + 1 ELSE ranOn

\* Mutant: the environment is taken for loaded by an ordinary mutant.
LoadedPlain == testEnvironment' = IF job \in Mutants THEN "Loaded" ELSE testEnvironment

\* ReloadEnvironment.mutantRun after its await; dryRun has nothing after it.
Loaded == testEnvironment' = IF job \in Mutants THEN newState ELSE testEnvironment

\* A fault that may take the process with it.
ProcessMayEnd ==
    \/ UNCHANGED <<alive, processes>>
    \/ alive /\ alive' = FALSE /\ processes' = processes - 1

\* The mutant makes the process loop: it does not answer any more.
RunHangs ==
    /\ pc = "run" /\ alive /\ ~hung
    /\ "timeout" \in Faults
    /\ hung' = TRUE
    /\ UNCHANGED <<configVars, pc, recovering, job, answers, decoratorVars, alive, silenced,
                   env, ranOn, processes, closed, tainted>>

\* The run ends in time with a result.
RunEnds ==
    /\ pc = "run" /\ alive /\ ~hung
    /\ env' = EnvAfter(job)
    /\ tainted' = IF job \in Mutants /\ env' # RightEnv(job) THEN tainted \cup {job} ELSE tainted
    /\ RanOnProcess
    /\ Loaded
    /\ Answer("verdict")
    /\ UNCHANGED <<configVars, attempts, newState, capsKnown, runs, reload, alive, silenced,
                   hung, processes, closed>>

\* The run rejects: the process has ended, now or before, or the plugin rejects.
RunRejects ==
    /\ pc = "run" /\ ~silenced
    /\ ~alive \/ ("crash" \in Faults /\ ~hung)
    /\ ProcessMayEnd
    /\ env' = EnvAfter(job)
    /\ RanOnProcess
    /\ Reject
    /\ UNCHANGED <<configVars, job, answers, decoratorVars, silenced, hung, closed, tainted>>

\* Mutant: no timer.
RunNeverTimesOut == pc = "run" /\ FALSE /\ UNCHANGED vars

\* The timer of the timeout decorator expires first.  A process that was
\* disposed from outside never answers.
RunTimesOut ==
    /\ pc = "run"
    /\ silenced \/ ("timeout" \in Faults /\ alive)
    /\ env' = EnvAfter(job)
    /\ RanOnProcess
    /\ pc' = "disposing" /\ recovering' = "timeout"
    /\ UNCHANGED <<configVars, job, answers, decoratorVars, alive, silenced, hung,
                   processes, closed, tainted>>

-----------------------------------------------------------------------------
(* ResourceDecorator.recover() *)

\* Mutant: the wrapped runner is replaced without being disposed.
AfterNoDispose == processes

\* Disposing what is wrapped ends the current process.
AfterDispose == IF alive THEN processes - 1 ELSE processes

\* What is wrapped by the recovering decorator is disposed, which ends the
\* process, and created anew with its initial state.
Recreate ==
    /\ pc = "disposing"
    /\ pc' = "initialising"
    /\ runs' = IF recovering = "timeout" THEN runs ELSE 0
    /\ IF recovering = "retry"
         THEN testEnvironment' = "Pristine" /\ capsKnown' = FALSE
         ELSE UNCHANGED <<testEnvironment, capsKnown>>
    /\ processes' = AfterDispose + 1
    /\ alive' = TRUE /\ silenced' = FALSE /\ hung' = FALSE /\ env' = "fresh" /\ ranOn' = 0
    /\ UNCHANGED <<configVars, recovering, job, answers, attempts, newState, reload, closed,
                   tainted>>

\* init() of the new process resolves and the recovering decorator goes on.
InitSucceeds ==
    /\ pc = "initialising" /\ alive
    /\ \/ /\ recovering = "reload"
          /\ reload' = [reload EXCEPT ![job] = FALSE]
          /\ pc' = "reuse" /\ recovering' = "none"
          /\ UNCHANGED <<job, answers, attempts, testEnvironment, runs>>
       \/ /\ recovering = "reuse"
          /\ runs' = 1
          /\ pc' = "run" /\ recovering' = "none"
          /\ UNCHANGED <<job, answers, attempts, testEnvironment, reload>>
       \/ /\ recovering = "timeout"
          /\ Loaded
          /\ Answer("timeout")
          /\ UNCHANGED <<attempts, runs, reload>>
       \/ /\ recovering = "retry" /\ attempts = 2
          /\ attempts' = 1
          /\ pc' = "reload" /\ recovering' = "none"
          /\ UNCHANGED <<job, answers, testEnvironment, runs, reload>>
       \/ /\ recovering = "retry" /\ attempts = 1
          /\ attempts' = 0
          /\ Reject
          /\ UNCHANGED <<job, answers, testEnvironment, runs, reload>>
       \/ /\ recovering = "retry" /\ attempts = 0
          /\ Answer("error")
          /\ UNCHANGED <<attempts, testEnvironment, runs, reload>>
    /\ UNCHANGED <<configVars, newState, capsKnown, processVars, closed, tainted>>

\* init() rejects.  The retry decorator catches that of the decorators it
\* wraps; that of its own recover() goes to the pool.
InitFails ==
    /\ pc = "initialising" /\ ~silenced
    /\ "initFails" \in Faults
    /\ ProcessMayEnd
    /\ IF recovering = "retry"
         THEN Answer("rejected")
         ELSE Reject /\ UNCHANGED <<job, answers>>
    /\ UNCHANGED <<configVars, decoratorVars, silenced, env, ranOn, hung, closed, tainted>>

-----------------------------------------------------------------------------
(* The surroundings *)

\* The process ends between two jobs.
IdleCrash ==
    /\ "crash" \in Faults
    /\ pc = "idle" /\ alive
    /\ alive' = FALSE /\ processes' = processes - 1
    /\ UNCHANGED <<configVars, pc, recovering, job, answers, decoratorVars, silenced, env,
                   ranOn, hung, closed, tainted>>

\* Pool.dispose() disposes the stack, down to the process there is right now.
\* Nobody listens for its exit any more, so a call that is open is never
\* answered; a later one finds its channel closed and rejects.
Dispose ==
    /\ ~closed
    /\ pc = "idle" \/ "busyDispose" \in Faults
    /\ closed' = TRUE
    /\ processes' = AfterDispose
    /\ alive' = FALSE
    /\ silenced' = (pc \in {"run", "initialising"})
    /\ UNCHANGED <<configVars, pc, recovering, job, answers, decoratorVars, env, ranOn, hung,
                   tainted>>

Next ==
    \/ \E j \in Jobs : Start(j)
    \/ EnterDryRun \/ EnterMutantRun \/ CountRun
    \/ RunEnds \/ RunHangs \/ RunRejects \/ RunTimesOut
    \/ Recreate \/ InitSucceeds \/ InitFails
    \/ IdleCrash \/ Dispose

Spec == Init /\ [][Next]_vars

\* The steps of a job: promises of the main process, the worker process that
\* answers or dies, and the timer for the one that does neither.
JobStep ==
    \/ EnterDryRun \/ EnterMutantRun \/ CountRun
    \/ RunEnds \/ RunRejects \/ RunTimesOut
    \/ Recreate \/ InitSucceeds \/ InitFails

FairSpec == Spec /\ WF_vars(JobStep)

-----------------------------------------------------------------------------
(* Properties *)

\* Every verdict on a mutant comes from the environment the mutant needs: for a
\* static mutant the one that was loaded while it was active, for a runtime
\* mutant one loaded without any mutant ("The test environment should first
\* load all tests and sut files before activating the mutant", run-options.ts).
RightEnvironment == tainted = {}

\* What the reload decorator believes between jobs is on the safe side of what
\* the process has loaded, although the decorators inside it replace the
\* process without telling it.
BeliefIsSound ==
    pc = "idle" =>
        /\ testEnvironment = "Pristine" => env = "fresh"
        /\ testEnvironment = "Loaded" => env \in {"fresh", "clean"}

\* The reload decorator's belief, in a well-typed state.
ReloadIsSound == TypeOK /\ BeliefIsSound

\* No process runs more mutants than maxTestRunnerReuse, although the reuse
\* decorator counts calls and other decorators replace the process as well.
ReuseLimit == restartAfter > 0 => ranOn <= restartAfter

\* A process is disposed before the next one is created ("should dispose a test
\* runner when it rejected, before creating a new one"): there is never more
\* than one process to a test runner of the pool.
OneProcess == processes <= 1

\* What the reuse decorator and the resource decorators keep within bounds.
ProcessesAreBounded == ReuseLimit /\ OneProcess

\* The pool gets an answer for every job it starts: a verdict, a timeout, an
\* error, or the rejection of a recovery that failed.  Only when the pool is
\* disposed in the meantime may a job stay open.
EveryJobAnswered == \A j \in Jobs : job = j ~> (answers[j] # "none" \/ closed)

\* "Implements the retry functionality whenever an internal test runner rejects
\* a promise" (retry-rejected-decorator.ts:13): the pool never sees a rejection.
NeverRejects == \A j \in Jobs : answers[j] # "rejected"

\* "Don't create new resources when disposed" (pool.ts:111): when the pool has
\* disposed the test runner and its job is over, no process is left.
DisposedMeansGone == closed /\ pc = "idle" => processes = 0
-----------------------------------------------------------------------------
(* The inductive invariants behind these properties *)

\* A job is in progress except when idle, and a decorator recovers while what it
\* wraps is disposed and initialised.
JobInProgress ==
    /\ job = "none" <=> pc = "idle"
    /\ recovering = "none" <=> pc \notin {"disposing", "initialising"}
    /\ pc = "reuse" \/ recovering \in {"reload", "reuse"} => job \in Mutants
    /\ job \in Jobs => answers[job] = "none"

\* A process is replaced with a counter that is at least as high as its runs.
RunsAreCounted ==
    /\ processes = IF alive THEN 1 ELSE 0
    /\ ranOn <= runs
    /\ restartAfter > 0 => ranOn <= restartAfter
    /\ pc = "run" /\ job \in Mutants => ranOn < runs /\ (restartAfter > 0 => runs <= restartAfter)
    /\ pc = "initialising" => ranOn = 0

BoundsInv == TypeOK /\ JobInProgress /\ RunsAreCounted

\* The pool was disposed in the middle of a job.
Cut == closed /\ "busyDispose" \in Faults

\* The options say what the plan said for every mutant that was not started, and
\* for the one that the reload decorator has yet to look at.
PlansAreKept ==
    \A m \in Mutants :
        answers[m] = "none" /\ (m = job => pc = "reload") => (reload[m] <=> m \in StaticMutants)

\* The belief of the reload decorator is on the safe side when it is used.
BeliefHolds ==
    /\ pc \in {"idle", "reload"} =>
          /\ testEnvironment = "Pristine" => env = "fresh"
          /\ testEnvironment = "Loaded" => env \in {"fresh", "clean"}
    /\ job = DryRun => env \in {"fresh", "clean"} /\ (pc # "reload" => testEnvironment = "Loaded")
    /\ pc = "idle" /\ (\A m \in Mutants : answers[m] = "none") => env \in {"fresh", "clean"}

\* A mutant that is about to run gets the environment it needs, and newState says which.
RunIsPrepared ==
    job \in Mutants /\ pc # "reload" =>
        /\ newState = IF job \in StaticMutants THEN "LoadedStaticMutant" ELSE "Loaded"
        /\ pc \in {"reuse", "run"} => EnvAfter(job) = RightEnv(job)

\* As long as nothing is cut short there is no retry and no process is lost.
NothingIsLost ==
    /\ closed => pc = "idle" \/ Cut
    /\ ~closed => alive /\ ~silenced /\ recovering # "retry"
    /\ pc = "initialising" => env = "fresh"

\* What is run after a cut is run in a new environment.
CutIsFresh == Cut /\ alive /\ pc \in {"reload", "reuse", "run"} => env = "fresh"

\* Holds unless the environment shows crashes or processes that fail to start.
EnvironmentInv ==
    /\ NothingIsLost
    /\ ~Cut => PlansAreKept /\ BeliefHolds /\ RunIsPrepared
    /\ CutIsFresh
    /\ RightEnvironment
=============================================================================
