------------------------ MODULE TestRunnerStackProofs ------------------------
(***************************************************************************)
(* Proofs about TestRunnerStack, for any mutants and any reuse limit.      *)
(* Under all faults: there is one process, and it runs no more mutants     *)
(* than maxTestRunnerReuse allows.  Without crashes and failing starts:    *)
(* every verdict comes from the environment the mutant needs.              *)
(***************************************************************************)
EXTENDS TestRunnerStack, TLAPS

-----------------------------------------------------------------------------
(* Processes and runs, under all faults *)

\* An answer ends the job.
LEMMA AnswerFacts ==
    ASSUME TypeOK, job \in Jobs,
           NEW how \in {"verdict", "timeout", "error", "rejected"}, Answer(how)
    PROVE  /\ answers' \in [Jobs -> {"none", "verdict", "timeout", "error", "rejected"}]
           /\ answers'[job] = how /\ \A j \in Jobs : j # job => answers'[j] = answers[j]
           /\ pc' = "idle" /\ recovering' = "none" /\ job' = "none"
BY DEF Answer, TypeOK

\* The job in progress is one of the jobs.
LEMMA JobFacts ==
    ASSUME TypeOK, JobInProgress
    PROVE  /\ pc # "idle" => job \in Jobs
           /\ "none" \notin Jobs /\ DryRun \notin Mutants /\ Mutants \subseteq Jobs /\ DryRun \in Jobs
           /\ job \in Jobs => job \in Mutants \/ job = DryRun
BY JobsAssumption DEF TypeOK, JobInProgress, Jobs

LEMMA EnvTypes ==
    ASSUME TypeOK, NEW j \in Jobs
    PROVE  EnvAfter(j) \in {"fresh", "clean"} \cup StaticMutants
BY DEF EnvAfter, TypeOK

\* A process may end once.
LEMMA EndsOnce ==
    ASSUME TypeOK, processes = IF alive THEN 1 ELSE 0, ProcessMayEnd
    PROVE  alive' \in BOOLEAN /\ processes' \in Nat /\ processes' = IF alive' THEN 1 ELSE 0
<1>1. CASE UNCHANGED <<alive, processes>>
  <2>1. alive \in BOOLEAN /\ processes \in Nat
    BY DEF TypeOK
  <2>2. CASE alive
    BY <1>1, <2>1, <2>2
  <2>3. CASE ~alive
    BY <1>1, <2>1, <2>3
  <2> QED BY <2>2, <2>3
<1>2. CASE alive /\ alive' = FALSE /\ processes' = processes - 1
  <2>1. processes = 1
    BY <1>2
  <2>2. processes' = 0
    BY <1>2, <2>1
  <2>3. processes' = IF alive' THEN 1 ELSE 0
    BY <1>2, <2>2
  <2>4. alive' \in BOOLEAN
    BY <1>2
  <2>5. processes' \in Nat
    BY <2>2
  <2> QED BY <2>3, <2>4, <2>5
<1> QED BY <1>1, <1>2 DEF ProcessMayEnd

\* Disposing ends the process if it runs.
LEMMA DisposeEnds ==
    ASSUME TypeOK, processes = IF alive THEN 1 ELSE 0
    PROVE  AfterDispose = 0
<1>1. CASE alive
  BY <1>1 DEF AfterDispose
<1>2. CASE ~alive
  BY <1>2 DEF AfterDispose
<1> QED BY <1>1, <1>2

\* A step that neither starts nor ends a process.
LEMMA SameProcess ==
    ASSUME BoundsInv, UNCHANGED <<alive, processes, ranOn, runs, restartAfter>>,
           pc' = "run" /\ job' \in Mutants => pc = "run" /\ job \in Mutants,
           pc' = "initialising" => pc = "initialising"
    PROVE  RunsAreCounted'
BY DEF BoundsInv, RunsAreCounted

LEMMA BoundsStep == BoundsInv /\ [Next]_vars => BoundsInv'
<1> SUFFICES ASSUME BoundsInv, [Next]_vars PROVE BoundsInv'
  OBVIOUS
<1>1. TypeOK /\ JobInProgress /\ RunsAreCounted
  BY DEF BoundsInv
<1>2. /\ pc # "idle" => job \in Jobs
      /\ "none" \notin Jobs /\ DryRun \notin Mutants /\ Mutants \subseteq Jobs /\ DryRun \in Jobs
      /\ job \in Jobs => job \in Mutants \/ job = DryRun
  BY <1>1, JobFacts
<1> USE DEF configVars, decoratorVars, processVars
<1>3. ASSUME NEW j \in Jobs, Start(j) PROVE BoundsInv'
  <2>1. TypeOK'
    BY <1>1, <1>3 DEF Start, TypeOK, MAX_RETRIES
  <2>2. JobInProgress'
    BY <1>1, <1>2, <1>3 DEF Start, JobInProgress
  <2>3. RunsAreCounted'
    BY <1>3, SameProcess DEF Start
  <2> QED BY <2>1, <2>2, <2>3 DEF BoundsInv
<1>4. CASE EnterDryRun
  <2>1. TypeOK'
    BY <1>1, <1>4 DEF EnterDryRun, TypeOK, EnvironmentStates
  <2>2. JobInProgress'
    BY <1>1, <1>2, <1>4 DEF EnterDryRun, JobInProgress
  <2>3. RunsAreCounted'
    BY <1>1, <1>2, <1>4, SameProcess DEF EnterDryRun
  <2> QED BY <2>1, <2>2, <2>3 DEF BoundsInv
<1>5. CASE EnterMutantRun
  <2>1. TypeOK'
    <3>1. newState' \in EnvironmentStates
      BY <1>5 DEF EnterMutantRun, EnvironmentStates
    <3>2. reload' \in [Mutants -> BOOLEAN]
      BY <1>1, <1>5 DEF EnterMutantRun, TypeOK
    <3>3. capsKnown' \in BOOLEAN /\ pc' \in {"reuse", "disposing"} /\ recovering' \in {recovering, "reload", "retry"}
      BY <1>1, <1>5 DEF EnterMutantRun, Reject, TypeOK
    <3> QED BY <1>1, <1>5, <3>1, <3>2, <3>3 DEF EnterMutantRun, TypeOK
  <2>2. JobInProgress'
    BY <1>1, <1>2, <1>5 DEF EnterMutantRun, Reject, JobInProgress
  <2>3. RunsAreCounted'
    BY <1>1, <1>5, SameProcess DEF EnterMutantRun, Reject
  <2> QED BY <2>1, <2>2, <2>3 DEF BoundsInv
<1>6. CASE CountRun
  <2>1. TypeOK'
    BY <1>1, <1>6 DEF CountRun, TypeOK
  <2>2. JobInProgress'
    BY <1>1, <1>2, <1>6 DEF CountRun, JobInProgress
  <2>3. RunsAreCounted'
    <3>1. /\ runs \in Nat /\ ranOn \in Nat /\ restartAfter \in Nat
          /\ runs' = runs + 1 /\ UNCHANGED <<alive, processes, ranOn, restartAfter, job>>
          /\ \/ pc' = "disposing"
             \/ pc' = "run" /\ ~(restartAfter > 0 /\ runs + 1 > restartAfter)
      BY <1>1, <1>6, MaxReuseAssumption DEF CountRun, TypeOK
    <3> QED BY <1>1, <3>1 DEF RunsAreCounted
  <2> QED BY <2>1, <2>2, <2>3 DEF BoundsInv
\* What all ends of a run have in common.
<1>7. ASSUME pc = "run", RanOnProcess, UNCHANGED <<runs, restartAfter>>, ProcessMayEnd,
             pc' \in {"idle", "disposing"}
      PROVE  RunsAreCounted' /\ ranOn' \in Nat /\ alive' \in BOOLEAN /\ processes' \in Nat
  <2>1. /\ runs \in Nat /\ ranOn \in Nat /\ restartAfter \in Nat
        /\ ranOn' = ranOn \/ (job \in Mutants /\ ranOn' = ranOn + 1)
    BY <1>1, <1>7, MaxReuseAssumption DEF RanOnProcess, TypeOK
  <2>2. alive' \in BOOLEAN /\ processes' \in Nat /\ processes' = IF alive' THEN 1 ELSE 0
    BY <1>1, <1>7, EndsOnce DEF RunsAreCounted
  <2>3. ranOn' \in Nat /\ ranOn' <= runs' /\ (restartAfter' > 0 => ranOn' <= restartAfter')
    BY <1>1, <1>7, <2>1 DEF RunsAreCounted
  <2> QED BY <1>7, <2>2, <2>3 DEF RunsAreCounted
<1>8. CASE RunHangs
  <2>1. TypeOK'
    BY <1>1, <1>8 DEF RunHangs, TypeOK
  <2>2. JobInProgress'
    BY <1>1, <1>8 DEF RunHangs, JobInProgress
  <2>3. RunsAreCounted'
    BY <1>1, <1>8, SameProcess DEF RunHangs
  <2> QED BY <2>1, <2>2, <2>3 DEF BoundsInv
<1>9. CASE RunEnds
  <2>0. job \in Jobs /\ Answer("verdict") /\ pc = "run"
    BY <1>2, <1>9 DEF RunEnds
  <2>1. /\ answers' \in [Jobs -> {"none", "verdict", "timeout", "error", "rejected"}]
        /\ pc' = "idle" /\ recovering' = "none" /\ job' = "none"
    BY <1>1, <2>0, AnswerFacts
  <2>2. RunsAreCounted' /\ ranOn' \in Nat
    BY <1>7, <1>9, <2>0, <2>1 DEF RunEnds, ProcessMayEnd
  <2>3. TypeOK'
    <3>1. env' \in {"fresh", "clean"} \cup StaticMutants
      BY <1>1, <1>9, <2>0, EnvTypes DEF RunEnds
    <3>2. testEnvironment' \in EnvironmentStates /\ tainted' \in SUBSET Mutants
      BY <1>1, <1>9 DEF RunEnds, Loaded, TypeOK
    <3> QED BY <1>1, <1>9, <2>1, <2>2, <3>1, <3>2 DEF RunEnds, TypeOK
  <2>4. JobInProgress'
    BY <1>2, <2>1 DEF JobInProgress, Jobs
  <2> QED BY <2>2, <2>3, <2>4 DEF BoundsInv
<1>10. CASE RunRejects
  <2>1. pc = "run" /\ job \in Jobs /\ pc' = "disposing" /\ recovering' = "retry"
    BY <1>2, <1>10 DEF RunRejects, Reject
  <2>2. RunsAreCounted' /\ ranOn' \in Nat /\ alive' \in BOOLEAN /\ processes' \in Nat
    BY <1>7, <1>10, <2>1 DEF RunRejects
  <2>3. env' \in {"fresh", "clean"} \cup StaticMutants
    BY <1>1, <1>10, <2>1, EnvTypes DEF RunRejects
  <2>4. TypeOK'
    BY <1>1, <1>10, <2>1, <2>2, <2>3 DEF RunRejects, TypeOK
  <2>5. JobInProgress'
    BY <1>1, <1>2, <1>10, <2>1 DEF RunRejects, JobInProgress
  <2> QED BY <2>2, <2>4, <2>5 DEF BoundsInv
<1>11. CASE RunTimesOut
  <2>1. pc = "run" /\ job \in Jobs /\ pc' = "disposing" /\ recovering' = "timeout"
    BY <1>2, <1>11 DEF RunTimesOut
  <2>2. RunsAreCounted' /\ ranOn' \in Nat
    BY <1>7, <1>11, <2>1 DEF RunTimesOut, ProcessMayEnd
  <2>3. env' \in {"fresh", "clean"} \cup StaticMutants
    BY <1>1, <1>11, <2>1, EnvTypes DEF RunTimesOut
  <2>4. TypeOK'
    BY <1>1, <1>11, <2>1, <2>2, <2>3 DEF RunTimesOut, TypeOK
  <2>5. JobInProgress'
    BY <1>1, <1>2, <1>11, <2>1 DEF RunTimesOut, JobInProgress
  <2> QED BY <2>2, <2>4, <2>5 DEF BoundsInv
<1>12. CASE Recreate
  <2>1. /\ alive \in BOOLEAN /\ processes \in Nat /\ runs \in Nat
        /\ alive' = TRUE /\ processes' = AfterDispose + 1 /\ ranOn' = 0
        /\ runs' \in {0, runs} /\ pc' = "initialising" /\ restartAfter' = restartAfter
    BY <1>1, <1>12 DEF Recreate, TypeOK
  <2>2. RunsAreCounted' /\ processes' \in Nat /\ runs' \in Nat
    <3>1. AfterDispose = 0
      BY <1>1, DisposeEnds DEF RunsAreCounted
    <3>2. restartAfter \in Nat
      BY <1>1, MaxReuseAssumption DEF TypeOK
    <3> QED BY <2>1, <3>1, <3>2 DEF RunsAreCounted
  <2>3. TypeOK'
    <3>1. testEnvironment' \in EnvironmentStates
      BY <1>1, <1>12 DEF Recreate, TypeOK, EnvironmentStates
    <3>2. capsKnown' \in BOOLEAN
      BY <1>1, <1>12 DEF Recreate, TypeOK
    <3>3. /\ alive' \in BOOLEAN /\ silenced' \in BOOLEAN /\ hung' \in BOOLEAN
          /\ env' \in {"fresh", "clean"} \cup StaticMutants /\ ranOn' \in Nat
      BY <1>12 DEF Recreate
    <3>4. UNCHANGED <<configVars, recovering, job, answers, attempts, newState, reload, closed, tainted>>
      BY <1>12 DEF Recreate
    <3> QED BY <1>1, <2>1, <2>2, <3>1, <3>2, <3>3, <3>4 DEF TypeOK
  <2>4. JobInProgress'
    BY <1>1, <1>12 DEF Recreate, JobInProgress
  <2> QED BY <2>2, <2>3, <2>4 DEF BoundsInv
<1>13. CASE InitSucceeds
  <2>1. /\ pc = "initialising" /\ job \in Jobs /\ ranOn = 0 /\ runs \in Nat /\ restartAfter \in Nat
        /\ UNCHANGED <<alive, processes, ranOn, restartAfter>>
    BY <1>1, <1>2, <1>13, MaxReuseAssumption DEF InitSucceeds, RunsAreCounted, TypeOK
  <2>2. /\ runs' \in {runs, 1} /\ attempts' \in {attempts, 0, 1} /\ job' \in {job, "none"}
        /\ pc' \in {"idle", "reload", "reuse", "run", "disposing"}
        /\ recovering' \in {"none", "retry"}
    BY <1>13 DEF InitSucceeds, Reject, Answer
  <2>3. TypeOK'
    <3>1. answers' \in [Jobs -> {"none", "verdict", "timeout", "error", "rejected"}]
      <4>1. UNCHANGED answers \/ Answer("timeout") \/ Answer("error")
        BY <1>13 DEF InitSucceeds
      <4> QED BY <1>1, <2>1, <4>1, AnswerFacts DEF TypeOK
    <3>2. reload' \in [Mutants -> BOOLEAN]
      <4>1. UNCHANGED reload \/ reload' = [reload EXCEPT ![job] = FALSE]
        BY <1>13 DEF InitSucceeds
      <4> QED BY <1>1, <4>1 DEF TypeOK
    <3>3. testEnvironment' \in EnvironmentStates
      <4>1. UNCHANGED testEnvironment \/ Loaded
        BY <1>13 DEF InitSucceeds
      <4> QED BY <1>1, <4>1 DEF Loaded, TypeOK
    <3>4. UNCHANGED <<configVars, newState, capsKnown, processVars, closed, tainted>>
      BY <1>13 DEF InitSucceeds
    <3> QED BY <1>1, <2>1, <2>2, <3>1, <3>2, <3>3, <3>4 DEF TypeOK
  <2>4. JobInProgress'
    BY <1>1, <1>2, <1>13, <2>1 DEF InitSucceeds, Reject, Answer, JobInProgress
  <2>5. RunsAreCounted'
    <3>1. pc' # "initialising" /\ (pc' = "run" => runs' = 1) /\ (runs' = runs \/ runs' = 1)
      BY <1>13 DEF InitSucceeds, Reject, Answer
    <3> QED BY <1>1, <2>1, <3>1 DEF RunsAreCounted
  <2> QED BY <2>3, <2>4, <2>5 DEF BoundsInv
<1>14. CASE InitFails
  <2>1. pc = "initialising" /\ job \in Jobs
    BY <1>2, <1>14 DEF InitFails
  <2>2. /\ answers' \in [Jobs -> {"none", "verdict", "timeout", "error", "rejected"}]
        /\ \/ pc' = "idle" /\ recovering' = "none" /\ job' = "none"
           \/ pc' = "disposing" /\ recovering' = "retry" /\ job' = job /\ answers' = answers
    <3>1. CASE recovering = "retry"
      BY <1>1, <1>14, <2>1, <3>1, AnswerFacts DEF InitFails
    <3>2. CASE recovering # "retry"
      BY <1>1, <1>14, <3>2 DEF InitFails, Reject, TypeOK
    <3> QED BY <3>1, <3>2
  <2>3. /\ alive' \in BOOLEAN /\ processes' \in Nat /\ RunsAreCounted'
    <3>1. UNCHANGED <<runs, ranOn, restartAfter>> /\ ProcessMayEnd
      BY <1>14 DEF InitFails
    <3>2. alive' \in BOOLEAN /\ processes' \in Nat /\ processes' = IF alive' THEN 1 ELSE 0
      BY <1>1, <3>1, EndsOnce DEF RunsAreCounted
    <3> QED BY <1>1, <2>2, <3>1, <3>2 DEF RunsAreCounted
  <2>4. TypeOK'
    BY <1>1, <1>14, <2>2, <2>3 DEF InitFails, TypeOK
  <2>5. JobInProgress'
    BY <1>1, <1>2, <2>1, <2>2 DEF JobInProgress
  <2> QED BY <2>3, <2>4, <2>5 DEF BoundsInv
<1>15. CASE IdleCrash
  <2>1. alive' = FALSE /\ processes' \in Nat /\ RunsAreCounted'
    BY <1>1, <1>15 DEF IdleCrash, RunsAreCounted, TypeOK
  <2>2. TypeOK'
    BY <1>1, <1>15, <2>1 DEF IdleCrash, TypeOK
  <2>3. JobInProgress'
    BY <1>1, <1>15 DEF IdleCrash, JobInProgress
  <2> QED BY <2>1, <2>2, <2>3 DEF BoundsInv
<1>16. CASE Dispose
  <2>0. AfterDispose = 0
    BY <1>1, DisposeEnds DEF RunsAreCounted
  <2>1. alive' = FALSE /\ processes' \in Nat /\ RunsAreCounted'
    BY <1>1, <1>16, <2>0 DEF Dispose, RunsAreCounted
  <2>2. TypeOK'
    <3>1. silenced' \in BOOLEAN
      BY <1>16 DEF Dispose
    <3> QED BY <1>1, <1>16, <2>1, <3>1 DEF Dispose, TypeOK
  <2>3. JobInProgress'
    BY <1>1, <1>16 DEF Dispose, JobInProgress
  <2> QED BY <2>1, <2>2, <2>3 DEF BoundsInv
<1>17. CASE UNCHANGED vars
  BY <1>17 DEF vars, BoundsInv, TypeOK, JobInProgress, RunsAreCounted
<1> QED BY <1>3, <1>4, <1>5, <1>6, <1>8, <1>9, <1>10, <1>11, <1>12, <1>13, <1>14, <1>15, <1>16, <1>17 DEF Next

LEMMA InitBounds == Init => BoundsInv
<1> SUFFICES ASSUME Init PROVE BoundsInv
  OBVIOUS
<1>1. TypeOK
  <2>1. reload \in [Mutants -> BOOLEAN] /\ answers \in [Jobs -> {"none"}] /\ tainted \in SUBSET Mutants
    BY DEF Init
  <2>2. answers \in [Jobs -> {"none", "verdict", "timeout", "error", "rejected"}]
    BY <2>1
  <2>3. /\ alive \in BOOLEAN /\ silenced \in BOOLEAN /\ hung \in BOOLEAN /\ capsKnown \in BOOLEAN
        /\ closed \in BOOLEAN /\ processes \in Nat /\ ranOn \in Nat /\ runs \in Nat /\ attempts \in 0..2
    <3>1. alive = TRUE /\ silenced = FALSE /\ hung = FALSE /\ capsKnown = FALSE /\ closed = FALSE
      BY DEF Init
    <3>2. processes = 1 /\ ranOn = 0 /\ runs = 0 /\ attempts = 0
      BY DEF Init
    <3>3. /\ alive \in BOOLEAN /\ silenced \in BOOLEAN /\ hung \in BOOLEAN /\ capsKnown \in BOOLEAN
          /\ closed \in BOOLEAN
      BY <3>1
    <3>4. processes \in Nat /\ ranOn \in Nat /\ runs \in Nat /\ attempts \in 0..2
      BY <3>2
    <3> QED BY <3>3, <3>4
  <2>4. /\ pc = "idle" /\ recovering = "none" /\ job = "none" /\ env = "fresh" /\ capable \in BOOLEAN
        /\ restartAfter \in 0..MaxReuse /\ testEnvironment \in EnvironmentStates /\ newState \in EnvironmentStates
    BY DEF Init, EnvironmentStates
  <2> QED BY <2>1, <2>2, <2>3, <2>4 DEF TypeOK
<1>2. JobInProgress
  BY JobsAssumption DEF Init, JobInProgress, Jobs
<1>3. RunsAreCounted
  BY <1>1, MaxReuseAssumption DEF Init, RunsAreCounted, TypeOK
<1> QED BY <1>1, <1>2, <1>3 DEF BoundsInv

\* Whatever fails, a test runner of the pool has one process at most, and no
\* process runs more mutants than maxTestRunnerReuse, although four decorators
\* replace it and only one of them counts.
THEOREM StackProcessesAreBounded == Spec => []ProcessesAreBounded
<1>1. BoundsInv => ProcessesAreBounded
  BY DEF BoundsInv, RunsAreCounted, ProcessesAreBounded, ReuseLimit, OneProcess
<1> QED BY InitBounds, BoundsStep, <1>1, PTL DEF Spec
-----------------------------------------------------------------------------
(* Environments, without crashes and failing starts *)

\* A new environment serves any job, and the dry run loads no mutant.
LEMMA EnvFacts ==
    ASSUME NEW j \in Jobs
    PROVE  /\ env = "fresh" => EnvAfter(j) = RightEnv(j)
           /\ j = DryRun /\ env \in {"fresh", "clean"} => EnvAfter(j) = "clean"
           /\ j \in Mutants /\ reload[j] /\ capable => EnvAfter(j) = RightEnv(j)
           /\ j \in Mutants \ StaticMutants /\ env = "clean" => EnvAfter(j) = RightEnv(j)
           /\ RightEnv(j) = "clean" \/ j \in StaticMutants
<1>1. DryRun \notin StaticMutants /\ DryRun \notin Mutants
  BY JobsAssumption DEF Mutants
<1> QED BY <1>1 DEF EnvAfter, RightEnv

\* After the pool was disposed in the middle of a job.
LEMMA CutStep ==
    ASSUME BoundsInv, EnvironmentInv, Cut, Next, "crash" \notin Faults, "initFails" \notin Faults
    PROVE  EnvironmentInv'
<1> USE DEF configVars, decoratorVars, processVars
<1>1. /\ closed /\ "busyDispose" \in Faults /\ NothingIsLost /\ CutIsFresh /\ tainted = {}
      /\ pc # "idle" => job \in Jobs
  BY JobFacts DEF Cut, EnvironmentInv, RightEnvironment, BoundsInv
<1>2. SUFFICES /\ closed' /\ (pc' = "initialising" => env' = "fresh") /\ tainted' = {}
               /\ alive' /\ pc' \in {"reload", "reuse", "run"} => env' = "fresh"
  BY <1>1 DEF EnvironmentInv, NothingIsLost, CutIsFresh, RightEnvironment, Cut
<1>3. CASE RunEnds
  <2>1. pc = "run" /\ alive /\ job \in Jobs /\ env = "fresh"
    BY <1>1, <1>3 DEF RunEnds, CutIsFresh, Cut
  <2>2. env' = RightEnv(job)
    BY <1>3, <2>1, EnvFacts DEF RunEnds
  <2> QED BY <1>1, <1>3, <2>2 DEF RunEnds, Answer
<1>4. CASE RunRejects \/ RunTimesOut
  BY <1>1, <1>4 DEF RunRejects, RunTimesOut, Reject
<1>5. CASE Recreate
  BY <1>1, <1>5 DEF Recreate
<1>6. CASE InitSucceeds
  <2>1. env = "fresh" /\ env' = env /\ UNCHANGED <<closed, tainted>>
    BY <1>1, <1>6 DEF InitSucceeds, NothingIsLost
  <2> QED BY <1>1, <2>1
<1>7. CASE EnterDryRun \/ EnterMutantRun \/ CountRun \/ RunHangs
  <2>1. /\ UNCHANGED <<closed, tainted, env, alive>> /\ pc' # "initialising"
        /\ pc' \in {"reload", "reuse", "run"} => pc \in {"reload", "reuse", "run"}
    BY <1>7 DEF EnterDryRun, EnterMutantRun, Reject, CountRun, RunHangs
  <2> QED BY <1>1, <2>1 DEF CutIsFresh, Cut
<1> QED BY <1>1, <1>3, <1>4, <1>5, <1>6, <1>7 DEF Next, Start, InitFails, IdleCrash, Dispose

\* As long as the pool is open.
LEMMA OpenStep ==
    ASSUME BoundsInv, EnvironmentInv, ~closed, Next, "crash" \notin Faults, "initFails" \notin Faults
    PROVE  EnvironmentInv'
<1> USE DEF configVars, decoratorVars, processVars
<1>1. /\ TypeOK /\ JobInProgress /\ RightEnvironment
      /\ PlansAreKept /\ BeliefHolds /\ RunIsPrepared
      /\ alive /\ ~silenced /\ recovering # "retry" /\ (pc = "initialising" => env = "fresh")
  BY DEF BoundsInv, EnvironmentInv, NothingIsLost, Cut
<1>2. /\ pc # "idle" => job \in Jobs
      /\ "none" \notin Jobs /\ DryRun \notin Mutants /\ Mutants \subseteq Jobs /\ DryRun \in Jobs
      /\ job \in Jobs => job \in Mutants \/ job = DryRun
      /\ StaticMutants \subseteq Mutants /\ "clean" \notin Jobs /\ "fresh" \notin Jobs
  BY <1>1, JobFacts, JobsAssumption DEF Mutants
<1>3. CASE Dispose
  <2>1. /\ closed' /\ ~alive'
        /\ pc = "idle" \/ "busyDispose" \in Faults
        /\ UNCHANGED <<pc, recovering, job, answers, decoratorVars, configVars, env, tainted>>
    BY <1>3 DEF Dispose
  <2>2. RightEnvironment' /\ CutIsFresh' /\ NothingIsLost'
    BY <1>1, <2>1 DEF RightEnvironment, CutIsFresh, NothingIsLost, Cut
  <2>3. PlansAreKept' /\ BeliefHolds' /\ RunIsPrepared'
    BY <1>1, <2>1 DEF PlansAreKept, BeliefHolds, RunIsPrepared, EnvAfter, RightEnv
  <2> QED BY <2>2, <2>3 DEF EnvironmentInv
<1>4. ASSUME ~closed', alive', ~silenced', recovering' # "retry", pc' = "initialising" => env' = "fresh",
             PlansAreKept', BeliefHolds', RunIsPrepared', tainted' = tainted
      PROVE  EnvironmentInv'
  BY <1>1, <1>4 DEF EnvironmentInv, NothingIsLost, CutIsFresh, Cut, RightEnvironment
<1>5. ASSUME NEW j \in Jobs, Start(j) PROVE EnvironmentInv'
  <2>1. /\ pc = "idle" /\ pc' = "reload" /\ job = "none" /\ job' = j /\ answers[j] = "none"
        /\ UNCHANGED <<reload, answers, env, testEnvironment, recovering, alive, silenced, tainted, closed>>
        /\ j = DryRun => \A m \in Mutants : answers[m] = "none"
    BY <1>1, <1>5 DEF Start, JobInProgress
  <2>2. PlansAreKept'
    BY <1>1, <1>2, <2>1 DEF PlansAreKept
  <2>3. BeliefHolds' /\ RunIsPrepared'
    BY <1>1, <2>1 DEF BeliefHolds, RunIsPrepared
  <2> QED BY <1>1, <1>4, <2>1, <2>2, <2>3
<1>6. CASE EnterDryRun
  <2>1. /\ pc = "reload" /\ pc' = "run" /\ job = DryRun /\ job' = job /\ testEnvironment' = "Loaded"
        /\ UNCHANGED <<reload, answers, env, recovering, alive, silenced, tainted, closed>>
    BY <1>6 DEF EnterDryRun
  <2>2. PlansAreKept' /\ BeliefHolds' /\ RunIsPrepared'
    BY <1>1, <1>2, <2>1 DEF PlansAreKept, BeliefHolds, RunIsPrepared
  <2> QED BY <1>1, <1>4, <2>1, <2>2
<1>7. CASE EnterMutantRun
  <2>1. /\ pc = "reload" /\ job \in Mutants /\ job' = job
        /\ newState' = IF reload[job] THEN "LoadedStaticMutant" ELSE "Loaded"
        /\ UNCHANGED <<capable, answers, env, testEnvironment, alive, silenced, tainted, closed>>
        /\ \/ ~NeedsCapabilities /\ reload' = [reload EXCEPT ![job] = FALSE] /\ pc' = "reuse" /\ recovering' = recovering
           \/ capable /\ reload' = [reload EXCEPT ![job] = TRUE] /\ pc' = "reuse" /\ recovering' = recovering
           \/ reload' = reload /\ pc' = "disposing" /\ recovering' = "reload"
    BY <1>1, <1>7 DEF EnterMutantRun
  <2>2. PlansAreKept'
    <3>1. \A m \in Mutants : m # job => reload'[m] = reload[m]
      BY <1>1, <2>1 DEF TypeOK
    <3> QED BY <1>1, <2>1, <3>1 DEF PlansAreKept
  <2>3. BeliefHolds'
    BY <1>2, <2>1 DEF BeliefHolds
  <2>4. reload[job] <=> job \in StaticMutants
    BY <1>1, <1>2, <2>1 DEF PlansAreKept, JobInProgress
  <2>5. EnvAfter(job)' = IF env = "fresh" \/ (reload'[job] /\ capable)
                         THEN IF job \in StaticMutants THEN job ELSE "clean"
                         ELSE env
    BY <1>2, <2>1 DEF EnvAfter
  <2>6. RightEnv(job)' = IF job \in StaticMutants THEN job ELSE "clean"
    BY <2>1 DEF RightEnv
  <2>7. pc' = "reuse" => EnvAfter(job)' = RightEnv(job)'
    <3>1. ASSUME ~NeedsCapabilities PROVE EnvAfter(job)' = RightEnv(job)'
      <4>1. CASE job \in StaticMutants
        <5>1. testEnvironment = "Pristine"
          BY <2>1, <2>4, <3>1, <4>1 DEF NeedsCapabilities
        <5> QED BY <1>1, <2>1, <2>5, <2>6, <5>1 DEF BeliefHolds
      <4>2. CASE job \notin StaticMutants
        <5>1. testEnvironment \in {"Pristine", "Loaded"}
          BY <1>1, <2>1, <2>4, <3>1, <4>2 DEF NeedsCapabilities, TypeOK, EnvironmentStates
        <5>2. env \in {"fresh", "clean"}
          BY <1>1, <2>1, <5>1 DEF BeliefHolds
        <5> QED BY <2>5, <2>6, <4>2, <5>2
      <4> QED BY <4>1, <4>2
    <3>2. ASSUME capable, reload' = [reload EXCEPT ![job] = TRUE] PROVE EnvAfter(job)' = RightEnv(job)'
      <4>1. reload'[job]
        BY <1>1, <2>1, <3>2 DEF TypeOK
      <4> QED BY <2>5, <2>6, <3>2, <4>1
    <3> QED BY <2>1, <3>1, <3>2
  <2>8. RunIsPrepared'
    BY <2>1, <2>4, <2>7 DEF RunIsPrepared
  <2> QED BY <1>1, <1>4, <2>1, <2>2, <2>3, <2>8
<1>8. CASE CountRun
  <2>1. /\ pc = "reuse" /\ pc' \in {"run", "disposing"} /\ recovering' \in {recovering, "reuse"}
        /\ UNCHANGED <<capable, job, answers, env, testEnvironment, newState, reload, alive, silenced, tainted, closed>>
    BY <1>8 DEF CountRun
  <2>2. job \in Mutants
    BY <1>1, <2>1 DEF JobInProgress
  <2>3. PlansAreKept' /\ BeliefHolds' /\ RunIsPrepared'
    BY <1>1, <1>2, <2>1, <2>2 DEF PlansAreKept, BeliefHolds, RunIsPrepared, EnvAfter, RightEnv
  <2> QED BY <1>1, <1>4, <2>1, <2>3
<1>9. CASE RunHangs
  <2>1. UNCHANGED <<pc, recovering, capable, job, answers, env, testEnvironment, newState, reload, alive,
                    silenced, tainted, closed>>
    BY <1>9 DEF RunHangs
  <2>2. PlansAreKept' /\ BeliefHolds' /\ RunIsPrepared'
    BY <1>1, <2>1 DEF PlansAreKept, BeliefHolds, RunIsPrepared, EnvAfter, RightEnv
  <2> QED BY <1>1, <1>4, <2>1, <2>2
<1>10. CASE RunEnds
  <2>1. /\ pc = "run" /\ env' = EnvAfter(job) /\ Loaded /\ Answer("verdict") /\ job \in Jobs
        /\ tainted' = IF job \in Mutants /\ env' # RightEnv(job) THEN tainted \cup {job} ELSE tainted
        /\ UNCHANGED <<newState, reload, alive, silenced, closed>>
    BY <1>2, <1>10 DEF RunEnds
  <2>2. /\ answers'[job] = "verdict" /\ \A j \in Jobs : j # job => answers'[j] = answers[j]
        /\ pc' = "idle" /\ recovering' = "none" /\ job' = "none"
    BY <1>1, <2>1, AnswerFacts
  <2>3. PlansAreKept'
    BY <1>1, <1>2, <2>1, <2>2 DEF PlansAreKept
  <2>4. RunIsPrepared'
    BY <1>2, <2>2 DEF RunIsPrepared
  <2>5. BeliefHolds' /\ tainted' = tainted
    <3>1. CASE job = DryRun
      <4>1. env' = "clean" /\ testEnvironment' = "Loaded"
        BY <1>1, <1>2, <2>1, <3>1, EnvFacts DEF BeliefHolds, Loaded
      <4> QED BY <1>2, <2>1, <2>2, <3>1, <4>1 DEF BeliefHolds
    <3>2. CASE job \in Mutants
      <4>1. env' = RightEnv(job) /\ tainted' = tainted
        BY <1>1, <2>1, <3>2 DEF RunIsPrepared
      <4>2. testEnvironment' = IF job \in StaticMutants THEN "LoadedStaticMutant" ELSE "Loaded"
        BY <1>1, <2>1, <3>2 DEF RunIsPrepared, Loaded
      <4>3. testEnvironment' # "Pristine" /\ (testEnvironment' = "Loaded" => env' = "clean")
        BY <4>1, <4>2 DEF RightEnv
      <4> QED BY <1>2, <2>2, <3>2, <4>1, <4>3 DEF BeliefHolds
    <3> QED BY <1>2, <2>1, <3>1, <3>2
  <2> QED BY <1>1, <1>4, <2>1, <2>2, <2>3, <2>4, <2>5
<1>11. CASE RunTimesOut
  <2>1. /\ pc = "run" /\ env' = EnvAfter(job) /\ pc' = "disposing" /\ recovering' = "timeout"
        /\ UNCHANGED <<job, answers, testEnvironment, newState, reload, alive, silenced, tainted, closed>>
    BY <1>11 DEF RunTimesOut
  <2>2. job = DryRun => env' = "clean"
    BY <1>1, <1>2, <2>1, EnvFacts DEF BeliefHolds
  <2>3. PlansAreKept' /\ BeliefHolds' /\ RunIsPrepared'
    BY <1>1, <2>1, <2>2 DEF PlansAreKept, BeliefHolds, RunIsPrepared
  <2> QED BY <1>1, <1>4, <2>1, <2>3
<1>12. CASE Recreate
  <2>1. /\ pc = "disposing" /\ pc' = "initialising" /\ env' = "fresh" /\ alive' /\ ~silenced'
        /\ UNCHANGED <<recovering, job, answers, testEnvironment, newState, reload, tainted, closed>>
    BY <1>1, <1>12 DEF Recreate
  <2>2. PlansAreKept' /\ BeliefHolds' /\ RunIsPrepared'
    BY <1>1, <2>1 DEF PlansAreKept, BeliefHolds, RunIsPrepared
  <2> QED BY <1>1, <1>4, <2>1, <2>2
<1>13. CASE InitSucceeds
  <2>1. /\ pc = "initialising" /\ env = "fresh" /\ job \in Jobs
        /\ UNCHANGED <<capable, env, newState, alive, silenced, tainted, closed>>
    BY <1>1, <1>2, <1>13 DEF InitSucceeds
  <2>2. ASSUME job \in Mutants, UNCHANGED <<job, answers, testEnvironment>>, pc' \in {"reuse", "run"},
               recovering' = "none", UNCHANGED reload \/ reload' = [reload EXCEPT ![job] = FALSE]
        PROVE  EnvironmentInv'
    <3>1. \A m \in Mutants : m # job => reload'[m] = reload[m]
      BY <1>1, <2>2 DEF TypeOK
    <3>2. PlansAreKept'
      BY <1>1, <2>1, <2>2, <3>1 DEF PlansAreKept
    <3>3. BeliefHolds' /\ RunIsPrepared'
      BY <1>1, <1>2, <2>1, <2>2 DEF BeliefHolds, RunIsPrepared, EnvAfter, RightEnv
    <3> QED BY <1>1, <1>4, <2>1, <2>2, <3>2, <3>3
  <2>3. CASE recovering \in {"reload", "reuse"}
    <3>1. job \in Mutants
      BY <1>1, <2>3 DEF JobInProgress
    <3> QED BY <1>13, <2>2, <2>3, <3>1 DEF InitSucceeds
  <2>4. CASE recovering = "timeout"
    <3>1. Answer("timeout") /\ UNCHANGED reload
      BY <1>13, <2>4 DEF InitSucceeds
    <3>2. /\ answers'[job] = "timeout" /\ \A j \in Jobs : j # job => answers'[j] = answers[j]
          /\ pc' = "idle" /\ recovering' = "none" /\ job' = "none"
      BY <1>1, <2>1, <3>1, AnswerFacts
    <3>3. PlansAreKept'
      BY <1>1, <1>2, <3>1, <3>2 DEF PlansAreKept
    <3>4. BeliefHolds' /\ RunIsPrepared'
      BY <1>2, <2>1, <3>2 DEF BeliefHolds, RunIsPrepared
    <3> QED BY <1>1, <1>4, <2>1, <3>2, <3>3, <3>4
  <2> QED BY <1>1, <1>13, <2>3, <2>4 DEF InitSucceeds
<1> QED BY <1>1, <1>3, <1>5, <1>6, <1>7, <1>8, <1>9, <1>10, <1>11, <1>12, <1>13
        DEF Next, RunRejects, InitFails, IdleCrash

LEMMA EnvironmentStep ==
    ASSUME "crash" \notin Faults, "initFails" \notin Faults
    PROVE  BoundsInv /\ EnvironmentInv /\ [Next]_vars => EnvironmentInv'
<1> SUFFICES ASSUME BoundsInv, EnvironmentInv, [Next]_vars PROVE EnvironmentInv'
  OBVIOUS
<1>1. CASE UNCHANGED vars
  <2>1. UNCHANGED <<pc, recovering, capable, job, answers, env, testEnvironment, newState, reload, alive,
                    silenced, tainted, closed>>
    BY <1>1 DEF vars, configVars, decoratorVars, processVars
  <2>2. /\ NothingIsLost' <=> NothingIsLost
        /\ Cut' <=> Cut
        /\ CutIsFresh' <=> CutIsFresh
        /\ RightEnvironment' <=> RightEnvironment
    BY <2>1 DEF NothingIsLost, Cut, CutIsFresh, RightEnvironment
  <2>3. PlansAreKept /\ BeliefHolds /\ RunIsPrepared => PlansAreKept' /\ BeliefHolds' /\ RunIsPrepared'
    BY <2>1 DEF PlansAreKept, BeliefHolds, RunIsPrepared, EnvAfter, RightEnv
  <2> QED BY <2>2, <2>3 DEF EnvironmentInv
<1>2. CASE Next /\ Cut
  BY <1>2, CutStep
<1>3. CASE Next /\ ~closed
  BY <1>3, OpenStep
<1>4. CASE Next /\ closed /\ ~Cut
  <2>1. pc = "idle" /\ job = "none"
    BY <1>4 DEF EnvironmentInv, NothingIsLost, BoundsInv, JobInProgress
  <2> QED BY <1>4, <2>1 DEF Next, Start, EnterDryRun, EnterMutantRun, CountRun, RunEnds, RunHangs, RunRejects,
                            RunTimesOut, Recreate, InitSucceeds, InitFails, IdleCrash, Dispose
<1> QED BY <1>1, <1>2, <1>3, <1>4

LEMMA InitEnvironment == Init => EnvironmentInv
<1> SUFFICES ASSUME Init PROVE EnvironmentInv
  OBVIOUS
<1>1. /\ pc = "idle" /\ recovering = "none" /\ job = "none" /\ ~closed /\ alive /\ ~silenced
      /\ env = "fresh" /\ tainted = {} /\ \A m \in Mutants : reload[m] <=> m \in StaticMutants
  BY DEF Init
<1>2. "none" # DryRun /\ "none" \notin Mutants
  BY JobsAssumption DEF Jobs
<1>3. PlansAreKept /\ BeliefHolds /\ RunIsPrepared
  BY <1>1, <1>2 DEF PlansAreKept, BeliefHolds, RunIsPrepared
<1> QED BY <1>1, <1>3 DEF EnvironmentInv, NothingIsLost, CutIsFresh, Cut, RightEnvironment

\* As long as no process crashes or fails to start, every verdict comes from the
\* environment that the mutant needs, whichever runs time out, whatever the
\* plugin can and however often the process is replaced.
THEOREM StackEnvironmentIsRight ==
    ASSUME "crash" \notin Faults, "initFails" \notin Faults
    PROVE  Spec => []RightEnvironment
<1>1. BoundsInv /\ EnvironmentInv /\ [Next]_vars => EnvironmentInv'
  BY EnvironmentStep
<1>2. EnvironmentInv => RightEnvironment
  BY DEF EnvironmentInv
<1> QED BY InitBounds, BoundsStep, InitEnvironment, <1>1, <1>2, PTL DEF Spec

\* If moreover the pool is not disposed in the middle of a job, what the reload
\* decorator believes is on the safe side of what the process has loaded.
THEOREM StackReloadIsSound ==
    ASSUME Faults \subseteq {"timeout"}
    PROVE  Spec => []ReloadIsSound
<1>1. "crash" \notin Faults /\ "initFails" \notin Faults /\ "busyDispose" \notin Faults
  OBVIOUS
<1>2. BoundsInv /\ EnvironmentInv /\ [Next]_vars => EnvironmentInv'
  BY <1>1, EnvironmentStep
<1>3. BoundsInv /\ EnvironmentInv => ReloadIsSound
  BY <1>1 DEF BoundsInv, EnvironmentInv, Cut, BeliefHolds, ReloadIsSound, BeliefIsSound
<1> QED BY InitBounds, BoundsStep, InitEnvironment, <1>2, <1>3, PTL DEF Spec
=============================================================================
