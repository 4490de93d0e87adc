--------------------------- MODULE LifecycleProofs ---------------------------
(***************************************************************************)
(* Proofs about MCLifecycle, whose components move side by side: the       *)
(* reporters (Reporting), the executors and the user's files (StrykerRun), *)
(* a resource of the checker pool (CheckerStack), the report               *)
(* (ReportAssembly), the options (Preparation) and what is in the files of *)
(* a sandbox (SandboxFiles), for any reporters, mutants, plans, files,     *)
(* checkers, limits and numbers of tests, results, settings and            *)
(* directories, whatever fails and whenever.                               *)
(***************************************************************************)
EXTENDS MCLifecycle, CollectionTheorems, TLAPS

-----------------------------------------------------------------------------
(* What is left of a run, its exit code and the failures that end it *)

Stages == {"start", "dryRun", "planning", "testing", "saving", "wrapUp", "done", "rejected", "crashed"}

\* The events are in files up to the moment that the base folder is clean.
RecorderInv ==
  /\ files = [begun |-> files.begun, open |-> files.open, failed |-> files.failed]
  /\ Report!Has("recorder") <=> work["baseFolder"] # "none"
  /\ work["baseFolder"] = "none" => recorded = << >>
  /\ work["baseFolder"] = "done" => files.begun = recorded
  /\ work["baseFolder"] # "done" => files.begun = << >>

\* What each stage says of the work in the background, the timer and the exit
\* code.
StageInv ==
  /\ stage \in Stages
  /\ work \in [Report!Writers \cup {"baseFolder"} -> {"none", "busy", "done", "failed"}]
  /\ work["baseFolder"] # "failed"
  /\ stage = "start" => ~Report!Has("recorder") /\ work["baseFolder"] = "none"
  /\ stage = "saving" => settings.incremental
  /\ interval => stage \in {"testing", "rejected", "crashed"}
  /\ stage = "done" => (\A w \in DOMAIN work : work[w] # "busy") /\ (files.open = 0 \/ files.failed)

ExitInv ==
  /\ stage \in {"start", "dryRun", "planning", "testing", "saving"} => exitCode = 0
  /\ stage = "rejected" => exitCode = 1
  /\ stage \in {"wrapUp", "done"} => exitCode = IF Report!ScoreIsBelow(Break) THEN 1 ELSE 0

OutcomeInv == RecorderInv /\ StageInv /\ ExitInv /\ Report!FailuresAreContained

LEMMA OutcomeInit == Report!Init => OutcomeInv
BY DEF Report!Init, OutcomeInv, RecorderInv, StageInv, ExitInv, Report!FailuresAreContained, Stages, Report!Has, Report!Writers

\* An event is told to the recorder or, without one, to nobody.
LEMMA RecordKeeps ==
  ASSUME RecorderInv, StageInv, NEW event, Report!Record(event), settings' = settings,
         work'["baseFolder"] = work["baseFolder"]
  PROVE  RecorderInv'
<1>1. CASE Report!Has("recorder")
  <2>1. recorded' = Append(recorded, event)
    BY <1>1 DEF Report!Record
  <2>2. CASE work["baseFolder"] = "done"
    <3>1. /\ files' = [files EXCEPT !.begun = Append(files.begun, event), !.open = files.open + 1]
          /\ files.begun = recorded
      BY <1>1, <2>2 DEF Report!Record, RecorderInv
    <3>2. /\ files' = [begun |-> Append(files.begun, event), open |-> files.open + 1, failed |-> files.failed]
      BY <3>1 DEF RecorderInv
    <3> QED BY <1>1, <2>1, <2>2, <3>1, <3>2 DEF RecorderInv, Report!Has
  <2>3. CASE work["baseFolder"] # "done"
    <3>1. files' = files
      BY <1>1, <2>3 DEF Report!Record
    <3> QED BY <1>1, <2>1, <2>3, <3>1 DEF RecorderInv, Report!Has
  <2> QED BY <2>2, <2>3
<1>2. CASE ~Report!Has("recorder")
  BY <1>2 DEF Report!Record, RecorderInv, Report!Has
<1> QED BY <1>1, <1>2

\* The score is a matter of what was reported.
LEMMA ScoreKeeps ==
  ASSUME reported' = reported PROVE Report!ScoreIsBelow(Break)' <=> Report!ScoreIsBelow(Break)
BY DEF Report!ScoreIsBelow

LEMMA OutcomeSteps ==
  ASSUME OutcomeInv, [Report!Next]_reportingVars PROVE OutcomeInv'
<1> USE DEF OutcomeInv
<1>1. CASE Report!CreateReporters
  <2>1. PICK configured \in ReporterSets, isTTY \in BOOLEAN, reloads \in BOOLEAN, incremental \in BOOLEAN :
          /\ settings' = [reporters |-> {IF r = "progress" /\ ~isTTY THEN "progress-append-only" ELSE r : r \in configured},
                          reloads |-> reloads, incremental |-> incremental]
          /\ work' = [work EXCEPT !["baseFolder"] = IF "recorder" \in configured THEN "busy" ELSE "none"]
    BY <1>1 DEF Report!CreateReporters
  <2>2. /\ stage = "start" /\ stage' = "dryRun" /\ UNCHANGED <<plan, reported, progress, interval, recorded, files, exitCode>>
        /\ work["baseFolder"] = "none"
    BY <1>1 DEF Report!CreateReporters, StageInv
  <2>3. Report!Has("recorder")' <=> "recorder" \in configured
    BY <2>1 DEF Report!Has
  <2>4. /\ work' \in [Report!Writers \cup {"baseFolder"} -> {"none", "busy", "done", "failed"}]
        /\ work'["baseFolder"] = IF "recorder" \in configured THEN "busy" ELSE "none"
    BY <2>1 DEF StageInv
  <2>5. RecorderInv'
    BY <2>2, <2>3, <2>4 DEF RecorderInv
  <2>6. StageInv'
    BY <2>2, <2>4 DEF StageInv, Stages
  <2> QED BY <2>2, <2>5, <2>6 DEF ExitInv, Report!FailuresAreContained
<1>2. CASE Report!DryRunCompleted
  <2>1. /\ stage = "dryRun" /\ stage' = "planning" /\ Report!Record("onDryRunCompleted")
        /\ UNCHANGED <<settings, plan, reported, progress, interval, work, exitCode>>
    BY <1>2 DEF Report!DryRunCompleted
  <2>2. RecorderInv'
    BY <2>1, RecordKeeps
  <2> QED BY <2>1, <2>2 DEF StageInv, ExitInv, Report!FailuresAreContained, Stages, Report!Has
<1>3. CASE Report!PlanReady
  <2>1. /\ stage = "planning" /\ stage' = "testing" /\ Report!Record("onMutationTestingPlanReady")
        /\ UNCHANGED <<settings, reported, work, exitCode>>
    BY <1>3 DEF Report!PlanReady
  <2>2. RecorderInv'
    BY <2>1, RecordKeeps
  <2> QED BY <2>1, <2>2 DEF StageInv, ExitInv, Report!FailuresAreContained, Stages, Report!Has
<1>4. CASE \E m \in Mutants, status \in Statuses : Report!MutantTested(m, status)
  <2>1. /\ stage = "testing" /\ Report!Record("onMutantTested")
        /\ UNCHANGED <<stage, settings, plan, interval, work, exitCode>>
    BY <1>4 DEF Report!MutantTested
  <2>2. RecorderInv'
    BY <2>1, RecordKeeps
  <2> QED BY <2>1, <2>2 DEF StageInv, ExitInv, Report!FailuresAreContained, Stages, Report!Has
<1>5. CASE Report!ReportReady
  <2>1. PICK context \in {"complete", "unknown", "missing"} :
          LET rejects == Report!Has("dashboard") /\ context = "missing"
          IN  /\ work' = [w \in DOMAIN work |->
                            CASE w = "baseFolder" \/ ~Report!Has(w) -> work[w]
                              [] w = "dashboard" /\ Report!Has(w) /\ context # "complete" ->
                                   IF context = "missing" THEN "failed" ELSE "done"
                              [] OTHER -> "busy"]
              /\ stage' = CASE ~settings.incremental -> "wrapUp"
                            [] settings.incremental /\ rejects -> "crashed"
                            [] OTHER -> "saving"
    BY <1>5 DEF Report!ReportReady
  <2>2. /\ stage = "testing" /\ interval' = FALSE /\ Report!Record("onMutationTestReportReady")
        /\ UNCHANGED <<settings, plan, reported, progress>>
    BY <1>5 DEF Report!ReportReady
  <2>3. DOMAIN work = Report!Writers \cup {"baseFolder"} /\ DOMAIN work' = DOMAIN work
    BY <2>1 DEF StageInv
  <2>4. work'["baseFolder"] = work["baseFolder"]
    BY <2>1, <2>3
  <2>5. RecorderInv'
    BY <2>2, <2>4, RecordKeeps
  <2>6. \A w \in DOMAIN work : work'[w] \in {"none", "busy", "done", "failed"}
    <3>1. ASSUME NEW w \in DOMAIN work PROVE work'[w] \in {"none", "busy", "done", "failed"}
      <4>1. work[w] \in {"none", "busy", "done", "failed"}
        BY DEF StageInv
      <4> QED BY <2>1, <4>1
    <3> QED BY <3>1
  <2>7. work' \in [Report!Writers \cup {"baseFolder"} -> {"none", "busy", "done", "failed"}]
    <3>1. work' = [w \in DOMAIN work |-> work'[w]]
      BY <2>1
    <3> QED BY <2>3, <2>6, <3>1
  <2>8. stage' \in {"wrapUp", "crashed", "saving"} /\ (stage' # "wrapUp" => settings.incremental)
    BY <2>1
  <2>9. StageInv'
    BY <2>2, <2>4, <2>7, <2>8 DEF StageInv, Stages
  <2>10. stage' = "crashed" => settings.incremental /\ work'["dashboard"] = "failed"
    <3>1. "dashboard" \in DOMAIN work
      BY <2>3 DEF Report!Writers
    <3>2. ASSUME stage' = "crashed" PROVE Report!Has("dashboard") /\ context = "missing" /\ settings.incremental
      BY <2>1, <3>2
    <3> QED BY <2>1, <3>1, <3>2
  <2>11. Report!FailuresAreContained'
    BY <2>2, <2>10 DEF Report!FailuresAreContained, Report!Writers
  <2>12. ExitInv'
    <3>1. exitCode = 0 /\ (stage' = "wrapUp" <=> ~settings.incremental)
      BY <2>1, <2>2 DEF ExitInv
    <3>2. CASE settings.incremental
      BY <1>5, <2>8, <3>1, <3>2 DEF Report!ReportReady, ExitInv
    <3>3. CASE ~settings.incremental
      <4>1. exitCode' = IF Report!ScoreIsBelow(Break) THEN 1 ELSE 0
        BY <1>5, <3>1, <3>3 DEF Report!ReportReady, Report!DetermineExitCode
      <4> QED BY <2>2, <3>1, <3>3, <4>1, ScoreKeeps DEF ExitInv
    <3> QED BY <3>2, <3>3
  <2> QED BY <2>5, <2>9, <2>11, <2>12
<1>6. CASE Report!IncrementalFileSaved
  <2>1. /\ stage = "saving" /\ stage' = "wrapUp" /\ Report!DetermineExitCode
        /\ UNCHANGED <<settings, plan, reported, progress, interval, work, recorded, files>>
    BY <1>6 DEF Report!IncrementalFileSaved
  <2>2. exitCode' = IF Report!ScoreIsBelow(Break) THEN 1 ELSE 0
    BY <2>1 DEF Report!DetermineExitCode, ExitInv
  <2>3. ExitInv'
    BY <2>1, <2>2, ScoreKeeps DEF ExitInv
  <2> QED BY <2>1, <2>3 DEF RecorderInv, StageInv, Report!FailuresAreContained, Stages, Report!Has
<1>7. CASE Report!RunRejects
  BY <1>7 DEF Report!RunRejects, RecorderInv, StageInv, ExitInv, Report!FailuresAreContained, Stages, Report!Has
<1>8. CASE Report!WrappedUp
  <2>1. ExitInv'
    BY <1>8, ScoreKeeps DEF Report!WrappedUp, ExitInv
  <2> QED BY <1>8, <2>1 DEF Report!WrappedUp, RecorderInv, StageInv, Report!FailuresAreContained, Stages, Report!Has
<1>9. CASE \E w \in Report!Writers : Report!WriterEnds(w) \/ Report!WriterFails(w)
  <2>1. PICK w \in Report!Writers : Report!WriterEnds(w) \/ Report!WriterFails(w)
    BY <1>9
  <2>2. PICK value \in {"done", "failed"} : work' = [work EXCEPT ![w] = value]
    BY <2>1 DEF Report!WriterEnds, Report!WriterFails
  <2>3. /\ stage \notin Report!Over /\ UNCHANGED <<settings, plan, reported, progress, interval, recorded, files, exitCode>>
        /\ stage' = stage \/ (stage = "saving" /\ stage' = "crashed" /\ work' = [work EXCEPT ![w] = "failed"])
    BY <2>1 DEF Report!WriterEnds, Report!WriterFails
  <2>4. /\ w # "baseFolder" /\ work'["baseFolder"] = work["baseFolder"]
        /\ work' \in [Report!Writers \cup {"baseFolder"} -> {"none", "busy", "done", "failed"}]
    BY <2>2 DEF StageInv, Report!Writers
  <2>5. RecorderInv'
    BY <2>3, <2>4 DEF RecorderInv, Report!Has
  <2>6. StageInv'
    BY <2>3, <2>4 DEF StageInv, Stages, Report!Over, Report!Has
  <2>7. ExitInv'
    BY <2>3, ScoreKeeps DEF ExitInv
  <2>8. Report!FailuresAreContained'
    <3>1. ASSUME stage' = "crashed" PROVE settings'.incremental /\ work'[w] = "failed"
      BY <2>3, <3>1 DEF StageInv, Report!Over
    <3> QED BY <3>1 DEF Report!FailuresAreContained
  <2> QED BY <2>5, <2>6, <2>7, <2>8
<1>10. CASE Report!BaseFolderCleaned
  <2>1. /\ stage \notin Report!Over /\ work["baseFolder"] = "busy"
        /\ UNCHANGED <<stage, settings, plan, reported, progress, interval, recorded, exitCode>>
    BY <1>10 DEF Report!BaseFolderCleaned
  <2>2. files' = [begun |-> recorded, open |-> Len(recorded), failed |-> files.failed]
    BY <1>10 DEF Report!BaseFolderCleaned, RecorderInv
  <2>3. /\ work' \in [Report!Writers \cup {"baseFolder"} -> {"none", "busy", "done", "failed"}]
        /\ work'["baseFolder"] = "done"
    BY <1>10 DEF Report!BaseFolderCleaned, StageInv
  <2>4. RecorderInv'
    BY <2>1, <2>2, <2>3 DEF RecorderInv, Report!Has
  <2>5. StageInv'
    BY <2>1, <2>3 DEF StageInv, Stages, Report!Over, Report!Has
  <2>6. ExitInv'
    BY <2>1, ScoreKeeps DEF ExitInv
  <2> QED BY <2>1, <2>4, <2>5, <2>6 DEF Report!FailuresAreContained, Report!Over
<1>11. CASE Report!BaseFolderFails
  BY <1>11 DEF Report!BaseFolderFails, RecorderInv, StageInv, ExitInv, Report!FailuresAreContained, Stages, Report!Has, Report!Over
<1>12. CASE Report!FileWritten \/ Report!FileFails
  <2>1. /\ stage \notin Report!Over /\ UNCHANGED <<settings, plan, reported, progress, interval, work, recorded, exitCode>>
        /\ stage' \in {stage, "crashed"}
    BY <1>12 DEF Report!FileWritten, Report!FileFails
  <2>2. /\ files' = [begun |-> files'.begun, open |-> files'.open, failed |-> files'.failed]
        /\ files'.begun = files.begun
        /\ stage' = "crashed" => files'.failed = TRUE
    <3>1. CASE Report!FileWritten
      <4>1. files' = [files EXCEPT !.open = @ - 1] /\ stage' = stage
        BY <3>1 DEF Report!FileWritten
      <4>2. files' = [begun |-> files.begun, open |-> files.open - 1, failed |-> files.failed]
        BY <4>1 DEF RecorderInv
      <4> QED BY <2>1, <4>1, <4>2 DEF Report!Over
    <3>2. CASE Report!FileFails
      <4>1. files' = [begun |-> files.begun, open |-> files.open, failed |-> TRUE]
        BY <3>2 DEF Report!FileFails, RecorderInv
      <4> QED BY <4>1
    <3> QED BY <1>12, <3>1, <3>2
  <2>3. RecorderInv'
    BY <2>1, <2>2 DEF RecorderInv, Report!Has
  <2>4. StageInv'
    BY <2>1 DEF StageInv, Stages, Report!Over, Report!Has
  <2>5. ExitInv'
    BY <2>1, ScoreKeeps DEF ExitInv
  <2>6. Report!FailuresAreContained'
    BY <2>2 DEF Report!FailuresAreContained
  <2> QED BY <2>3, <2>4, <2>5, <2>6
<1>13. CASE UNCHANGED reportingVars
  <2>1. ExitInv'
    BY <1>13, ScoreKeeps DEF reportingVars, ExitInv
  <2> QED BY <1>13, <2>1 DEF reportingVars, RecorderInv, StageInv, Report!FailuresAreContained, Report!Has
<1> QED BY <1>1, <1>2, <1>3, <1>4, <1>5, <1>6, <1>7, <1>8, <1>9, <1>10, <1>11, <1>12, <1>13 DEF Report!Next

\* When wrapUp() is over, the reports are written or have failed, the events
\* are in their files in order, and no timer runs (broadcast-reporter.ts,
\* event-recorder-reporter.ts); the exit code is that of the score or of the
\* rejection (mutation-test-report-helper.ts); and only while the incremental
\* file is written, or because of the recorder, a failure ends the process.
OutcomeIsRight == Report!NothingLeftBehind /\ Report!ExitCodeIsRight /\ Report!FailuresAreContained

LEMMA OutcomeImplies == OutcomeInv => OutcomeIsRight
<1> SUFFICES ASSUME OutcomeInv PROVE OutcomeIsRight
  OBVIOUS
<1>1. Report!NothingLeftBehind
  <2>1. SUFFICES ASSUME stage = "done" PROVE files.begun = recorded /\ ~interval
    BY DEF OutcomeInv, StageInv, Report!NothingLeftBehind
  <2>2. work["baseFolder"] \in {"none", "done"}
    BY <2>1 DEF OutcomeInv, StageInv
  <2> QED BY <2>1, <2>2 DEF OutcomeInv, StageInv, RecorderInv
<1>2. Report!ExitCodeIsRight
  BY DEF OutcomeInv, ExitInv, Report!ExitCodeIsRight
<1> QED BY <1>1, <1>2 DEF OutcomeInv, OutcomeIsRight

-----------------------------------------------------------------------------
(* The progress adds up *)

Runs == {m \in Mutants : plan[m].run}

Cost == [m \in Runs |-> Report!Ticks(plan[m])]

\* What has been counted: the ticks that remain are the sum over the mutants
\* that have not been reported.
ProgressInv ==
  /\ stage \in {"start", "dryRun", "planning"} => reported = << >> /\ progress = Report!NoProgress
  /\ progress \in [survived : Nat, timedOut : Nat, tested : Nat, mutants : Nat, total : Nat, ticks : Nat]
  /\ stage \in {"testing", "saving", "wrapUp", "done"} =>
       /\ plan \in [Mutants -> [run : BOOLEAN, netTime : Times, reloadEnvironment : BOOLEAN]]
       /\ DOMAIN reported \subseteq Mutants
       /\ progress.mutants = Cardinality(Runs)
       /\ progress.tested = Cardinality(Report!TestedRuns)
       /\ progress.survived + progress.timedOut <= progress.tested
       /\ \E g : IsSum(g, Cost, Runs) /\ progress.ticks + g[Runs \ Report!TestedRuns] = progress.total

\* An instance has the cardinalities of its own copy of FiniteSets.
LEMMA SameCardinality == \A S : Report!Cardinality(S) = Cardinality(S)
BY DEF Report!Cardinality, Cardinality

LEMMA ProgressInit == Report!Init => ProgressInv
BY DEF Report!Init, ProgressInv, Report!NoProgress

LEMMA CostIsNatural ==
  ASSUME plan \in [Mutants -> [run : BOOLEAN, netTime : Times, reloadEnvironment : BOOLEAN]]
  PROVE  Cost \in [Runs -> Nat]
<1>1. ASSUME NEW m \in Runs PROVE Report!Ticks(plan[m]) \in Nat
  <2>1. plan[m].netTime \in Nat /\ Overhead \in Nat
    BY LifecycleAssumption DEF Runs
  <2> QED BY <2>1 DEF Report!Ticks
<1> QED BY <1>1 DEF Cost

\* ProgressReporter and ProgressAppendOnlyReporter begin with the total of what
\* is to be run.
LEMMA PlanReadyAddsUp ==
  ASSUME ProgressInv, Report!PlanReady
  PROVE  ProgressInv'
<1>1. /\ stage = "planning" /\ stage' = "testing" /\ reported' = << >> /\ progress = Report!NoProgress
      /\ plan' \in [Mutants -> [run : BOOLEAN, netTime : Times, reloadEnvironment : BOOLEAN]]
      /\ settings' = settings
  BY DEF Report!PlanReady, ProgressInv
<1>2. Cost' \in [Runs' -> Nat]
  <2>1. ASSUME NEW m \in Runs' PROVE Report!Ticks(plan[m])' \in Nat
    <3>1. plan'[m].netTime \in Nat /\ Overhead \in Nat
      BY <1>1, LifecycleAssumption DEF Runs
    <3> QED BY <3>1 DEF Report!Ticks
  <2> QED BY <2>1 DEF Cost
<1>3. IsFiniteSet(Runs') /\ Cardinality(Runs') \in Nat
  <2>1. Runs' \subseteq Mutants
    BY DEF Runs
  <2> QED BY <2>1, LifecycleAssumption, FS_Subset, FS_CardinalityType
<1>4. PICK g : IsSum(g, Cost', Runs')
  <2>1. \A m \in Runs' : Cost'[m] \in Nat
    BY <1>2
  <2> QED BY <1>3, <2>1, SumsExist
<1> DEFINE total == Report!MapThenSumSet(LAMBDA m : Report!Ticks(plan'[m]), Runs')
<1>5. progress' = [progress EXCEPT !.mutants = Cardinality(Runs'), !.total = total]
  BY SameCardinality DEF Report!PlanReady, Runs
<1>6. total = g[Runs']
  <2> DEFINE S == Runs'
             h == CHOOSE i : i = [s \in SUBSET S |-> IF s = {} THEN 0
                     ELSE Report!Ticks(plan'[CHOOSE x \in s : TRUE]) + i[s \ {CHOOSE x \in s : TRUE}]]
  <2>1. total = h[S]
    BY DEF Report!MapThenSumSet, Report!MapThenFoldSet
  <2>2. \A s \in SUBSET S : s # {} => Cost'[CHOOSE x \in s : TRUE] = Report!Ticks(plan'[CHOOSE x \in s : TRUE])
    BY <1>1 DEF Cost, Report!Ticks
  <2>3. \E i : i = [s \in SUBSET S |-> IF s = {} THEN 0
                     ELSE Report!Ticks(plan'[CHOOSE x \in s : TRUE]) + i[s \ {CHOOSE x \in s : TRUE}]]
    <3>1. Folds(g, Cost', S)
      BY <1>4, SumFolds
    <3> HIDE DEF S
    <3>2. g = [s \in SUBSET S |-> IF s = {} THEN 0
                 ELSE Report!Ticks(plan'[CHOOSE x \in s : TRUE]) + g[s \ {CHOOSE x \in s : TRUE}]]
      BY <2>2, <3>1 DEF Folds
    <3> QED BY <3>2
  <2>4. Folds(h, Cost', S)
    BY <2>2, <2>3 DEF Folds
  <2> HIDE DEF h, S
  <2> QED BY <1>3, <1>4, <2>1, <2>4, FoldIsSum DEF S
<1> HIDE DEF total
<1>7. progress' = [survived |-> 0, timedOut |-> 0, tested |-> 0, mutants |-> Cardinality(Runs'), total |-> total, ticks |-> 0]
  BY <1>1, <1>5 DEF Report!NoProgress
<1>8. Report!TestedRuns' = {}
  BY <1>1 DEF Report!TestedRuns
<1>9. total \in Nat
  BY <1>4, <1>6 DEF IsSum
<1>10. progress'.ticks + g[Runs' \ Report!TestedRuns'] = progress'.total
  <2>1. Runs' \ Report!TestedRuns' = Runs'
    BY <1>8
  <2>2. g[Runs' \ Report!TestedRuns'] = total
    BY <1>6, <2>1
  <2>3. progress'.ticks = 0 /\ progress'.total = total
    BY <1>7
  <2> QED BY <1>9, <2>2, <2>3
<1>11. progress'.tested = Cardinality(Report!TestedRuns') /\ DOMAIN reported' = {}
  BY <1>1, <1>7, <1>8, FS_EmptySet
<1>12. progress' \in [survived : Nat, timedOut : Nat, tested : Nat, mutants : Nat, total : Nat, ticks : Nat]
  BY <1>3, <1>7, <1>9
<1>13. progress'.mutants = Cardinality(Runs') /\ progress'.survived + progress'.timedOut <= progress'.tested
  BY <1>7
<1> QED BY <1>1, <1>4, <1>10, <1>11, <1>12, <1>13 DEF ProgressInv

\* progress-keeper.ts: a mutant that is run counts once, with its ticks.
LEMMA MutantTestedAddsUp ==
  ASSUME ProgressInv,
         NEW m \in Mutants, NEW status \in Statuses, Report!MutantTested(m, status)
  PROVE  ProgressInv'
<1>1. /\ stage = "testing" /\ stage' = stage /\ plan' = plan /\ settings' = settings /\ m \notin DOMAIN reported
      /\ DOMAIN reported' = DOMAIN reported \cup {m}
      /\ DOMAIN reported \subseteq Mutants
      /\ plan \in [Mutants -> [run : BOOLEAN, netTime : Times, reloadEnvironment : BOOLEAN]]
  BY DEF Report!MutantTested, ProgressInv
<1>2. PICK g : IsSum(g, Cost, Runs) /\ progress.ticks + g[Runs \ Report!TestedRuns] = progress.total
  BY <1>1 DEF ProgressInv
<1>3. Runs' = Runs /\ Cost' = Cost /\ Cost \in [Runs -> Nat]
  BY <1>1, CostIsNatural DEF Runs, Cost, Report!Ticks
<1>4. CASE ~plan[m].run
  <2>1. progress' = progress /\ Report!TestedRuns' = Report!TestedRuns
    BY <1>1, <1>4 DEF Report!MutantTested, Report!TestedRuns
  <2> QED BY <1>1, <1>2, <1>3, <2>1 DEF ProgressInv
<1>5. CASE plan[m].run
  <2>1. /\ Report!TestedRuns' = Report!TestedRuns \cup {m} /\ m \notin Report!TestedRuns /\ m \in Runs \ Report!TestedRuns
        /\ Runs \ Report!TestedRuns' = (Runs \ Report!TestedRuns) \ {m}
    BY <1>1, <1>5 DEF Report!TestedRuns, Runs
  <2>2. IsFiniteSet(Report!TestedRuns) /\ Cardinality(Report!TestedRuns') = Cardinality(Report!TestedRuns) + 1
    <3>1. Report!TestedRuns \subseteq Mutants
      BY <1>1 DEF Report!TestedRuns
    <3> QED BY <2>1, <3>1, LifecycleAssumption, FS_Subset, FS_AddElement
  <2>3. /\ g[Runs \ Report!TestedRuns] = Report!Ticks(plan[m]) + g[Runs \ Report!TestedRuns']
        /\ Report!Ticks(plan[m]) \in Nat /\ g[Runs \ Report!TestedRuns'] \in Nat
    <3>1. Cost[m] = Report!Ticks(plan[m])
      BY <2>1 DEF Cost
    <3>2. g[Runs \ Report!TestedRuns] = Cost[m] + g[(Runs \ Report!TestedRuns) \ {m}]
      BY <1>2, <2>1 DEF IsSum
    <3>3. Cost[m] \in Nat /\ g[(Runs \ Report!TestedRuns) \ {m}] \in Nat
      BY <1>2, <1>3, <2>1 DEF IsSum
    <3> QED BY <2>1, <3>1, <3>2, <3>3
  <2> DEFINE t == Report!Ticks(plan[m])
             p == progress
  <2>4. /\ progress' = [p EXCEPT !.tested = @ + 1, !.ticks = @ + t,
                           !.survived = @ + Report!Bit(status = "Survived"), !.timedOut = @ + Report!Bit(status = "Timeout")]
        /\ p \in [survived : Nat, timedOut : Nat, tested : Nat, mutants : Nat, total : Nat, ticks : Nat]
    BY <1>5 DEF Report!MutantTested, ProgressInv
  <2>5. /\ Report!Bit(status = "Survived") \in {0, 1} /\ Report!Bit(status = "Timeout") \in {0, 1}
        /\ Report!Bit(status = "Survived") + Report!Bit(status = "Timeout") <= 1
    BY DEF Report!Bit
  <2>6. t \in Nat
    BY <2>3
  <2> DEFINE b == Report!Bit(status = "Survived")
             c == Report!Bit(status = "Timeout")
  <2>7. /\ progress'.tested = p.tested + 1 /\ progress'.ticks = p.ticks + t
        /\ progress'.survived = p.survived + b /\ progress'.timedOut = p.timedOut + c
        /\ progress'.mutants = p.mutants /\ progress'.total = p.total
        /\ progress' = [survived |-> p.survived + b, timedOut |-> p.timedOut + c, tested |-> p.tested + 1,
                        mutants |-> p.mutants, total |-> p.total, ticks |-> p.ticks + t]
    <3> HIDE DEF b, c, t, p
    <3> QED BY <2>4 DEF b, c, t
  <2>8. b \in {0, 1} /\ c \in {0, 1} /\ b + c <= 1
    BY <2>5
  <2>9. /\ p.mutants = Cardinality(Runs) /\ p.tested = Cardinality(Report!TestedRuns)
        /\ p.survived + p.timedOut <= p.tested /\ p.ticks + g[Runs \ Report!TestedRuns] = p.total
    BY <1>1, <1>2 DEF ProgressInv
  <2>10. p.survived \in Nat /\ p.timedOut \in Nat /\ p.tested \in Nat /\ p.ticks \in Nat /\ p.mutants \in Nat /\ p.total \in Nat
    BY <2>4
  <2> HIDE DEF b, c, t, p
  <2>11. progress' \in [survived : Nat, timedOut : Nat, tested : Nat, mutants : Nat, total : Nat, ticks : Nat]
    BY <2>6, <2>7, <2>8, <2>10
  <2>12. progress'.survived + progress'.timedOut <= progress'.tested
    BY <2>7, <2>8, <2>9, <2>10
  <2>13. progress'.ticks + g[Runs \ Report!TestedRuns'] = progress'.total
    <3> DEFINE u == g[Runs \ Report!TestedRuns]
               v == g[Runs \ Report!TestedRuns']
    <3>1. u = t + v /\ v \in Nat
      BY <2>3 DEF t
    <3>2. p.ticks + u = p.total
      BY <2>9
    <3> HIDE DEF u, v
    <3>3. progress'.ticks + v = progress'.total
      BY <2>6, <2>7, <2>10, <3>1, <3>2
    <3> QED BY <3>3 DEF v
  <2>14. progress'.tested = Cardinality(Report!TestedRuns') /\ progress'.mutants = Cardinality(Runs')
    BY <1>3, <2>2, <2>7, <2>9
  <2>15. \E h : IsSum(h, Cost', Runs') /\ progress'.ticks + h[Runs' \ Report!TestedRuns'] = progress'.total
    BY <1>2, <1>3, <2>13
  <2> QED BY <1>1, <2>11, <2>12, <2>14, <2>15 DEF ProgressInv
<1> QED BY <1>4, <1>5

LEMMA ProgressSteps ==
  ASSUME ProgressInv, StageInv, [Report!Next]_reportingVars
  PROVE  ProgressInv'
<1>1. CASE Report!PlanReady
  BY <1>1, PlanReadyAddsUp
<1>2. CASE \E m \in Mutants, status \in Statuses : Report!MutantTested(m, status)
  BY <1>2, MutantTestedAddsUp
<1>3. CASE Report!CreateReporters \/ Report!DryRunCompleted
  BY <1>3 DEF Report!CreateReporters, Report!DryRunCompleted, ProgressInv
<1>4. ASSUME UNCHANGED <<plan, reported, progress, settings>>,
             \/ stage' \in {"rejected", "crashed"} \/ stage' = stage
             \/ stage \in {"testing", "saving", "wrapUp", "done"} /\ stage' \in {"testing", "saving", "wrapUp", "done"}
      PROVE  ProgressInv'
  <2>1. Runs' = Runs /\ Cost' = Cost /\ Report!TestedRuns' = Report!TestedRuns
    BY <1>4 DEF Runs, Cost, Report!Ticks, Report!TestedRuns
  <2> QED BY <1>4, <2>1 DEF ProgressInv
<1>5. CASE \/ Report!ReportReady \/ Report!IncrementalFileSaved \/ Report!RunRejects \/ Report!WrappedUp
  BY <1>4, <1>5 DEF Report!ReportReady, Report!IncrementalFileSaved, Report!RunRejects, Report!WrappedUp
<1>6. CASE \E w \in Report!Writers : Report!WriterEnds(w) \/ Report!WriterFails(w)
  BY <1>4, <1>6 DEF Report!WriterEnds, Report!WriterFails
<1>7. CASE Report!BaseFolderCleaned \/ Report!BaseFolderFails \/ Report!FileWritten \/ Report!FileFails \/ UNCHANGED reportingVars
  BY <1>4, <1>7 DEF Report!BaseFolderCleaned, Report!BaseFolderFails, Report!FileWritten, Report!FileFails, reportingVars
<1> QED BY <1>1, <1>2, <1>3, <1>5, <1>6, <1>7 DEF Report!Next

LEMMA ProgressImplies ==
  ASSUME ProgressInv PROVE Report!ProgressAddsUp
<1>1. SUFFICES ASSUME stage \in {"testing", "saving", "wrapUp", "done"}
      PROVE  /\ progress.tested = Cardinality(Report!TestedRuns)
             /\ progress.ticks <= progress.total /\ progress.tested <= progress.mutants
             /\ progress.survived + progress.timedOut <= progress.tested
             /\ DOMAIN reported = Mutants => progress.ticks = progress.total /\ progress.tested = progress.mutants
  BY SameCardinality DEF Report!ProgressAddsUp
<1>2. PICK g : IsSum(g, Cost, Runs) /\ progress.ticks + g[Runs \ Report!TestedRuns] = progress.total
  BY <1>1 DEF ProgressInv
<1>3. /\ progress.tested = Cardinality(Report!TestedRuns) /\ progress.mutants = Cardinality(Runs)
      /\ progress.survived + progress.timedOut <= progress.tested
      /\ progress.ticks \in Nat /\ progress.total \in Nat /\ DOMAIN reported \subseteq Mutants
  BY <1>1 DEF ProgressInv
<1>4. g[Runs \ Report!TestedRuns] \in Nat /\ g[{}] = 0
  BY <1>2 DEF IsSum
<1>5. progress.ticks <= progress.total
  BY <1>2, <1>3, <1>4
<1>6. Report!TestedRuns \subseteq Runs /\ IsFiniteSet(Runs)
  <2>1. Runs \subseteq Mutants
    BY DEF Runs
  <2> QED BY <1>3, <2>1, LifecycleAssumption, FS_Subset DEF Report!TestedRuns, Runs
<1>7. progress.tested <= progress.mutants
  BY <1>3, <1>6, FS_Subset
<1>8. ASSUME DOMAIN reported = Mutants PROVE progress.ticks = progress.total /\ progress.tested = progress.mutants
  <2>1. Report!TestedRuns = Runs /\ Runs \ Report!TestedRuns = {}
    BY <1>8 DEF Report!TestedRuns, Runs
  <2>2. progress.ticks + 0 = progress.total
    BY <1>2, <1>4, <2>1
  <2> QED BY <1>3, <2>1, <2>2
<1> QED BY <1>3, <1>5, <1>7, <1>8

-----------------------------------------------------------------------------
(* StrykerRun *)

\* The steps of the executors, of the file operations and of the disposal.
Executes == Run!Prepare \/ Run!Instrument \/ Run!SandboxFilled \/ Run!DryRun \/ Run!MutationTest
Operates(f) == Run!BackupEnds(f) \/ Run!WriteEnds(f) \/ Run!CopyEnds(f) \/ Run!OperationFails(f)
Disposes ==
  Run!RunnersDisposed \/ Run!DisposeSandbox \/ Run!DisposeExitHandler \/ Run!DisposeFileSystem \/ Run!DisposeTempDir

LEMMA InitTypes == Run!Init => Run!TypeOK
BY DEF Run!Init, Run!TypeOK, Run!Executors

LEMMA TypeStep == ASSUME Run!TypeOK, [Run!Next]_runVars PROVE Run!TypeOK'
<1> USE DEF Run!TypeOK
<1>1. CASE Executes
  <2>1. phase' \in Run!Executors \cup Run!Disposals \cup Run!Over
    BY <1>1 DEF Executes, Run!Prepare, Run!Instrument, Run!SandboxFilled, Run!DryRun, Run!MutationTest, Run!Stop, Run!Executors, Run!Disposals
  <2>2. io' \in [Files -> {"none", "backup", "write", "copy", "done", "failed", "dropped"}]
    BY <1>1 DEF Executes, Run!Prepare, Run!Instrument, Run!SandboxFilled, Run!DryRun, Run!MutationTest, Run!files
  <2>3. UNCHANGED <<options, changed, disk, stored>>
    BY <1>1 DEF Executes, Run!Prepare, Run!Instrument, Run!SandboxFilled, Run!DryRun, Run!MutationTest, Run!files, Run!config
  <2>4. failed' \in BOOLEAN
    BY <1>1 DEF Executes, Run!Prepare, Run!Instrument, Run!SandboxFilled, Run!DryRun, Run!MutationTest, Run!Stop
  <2>5. remove' \in BOOLEAN
    BY <1>1 DEF Executes, Run!Prepare, Run!Instrument, Run!SandboxFilled, Run!DryRun, Run!MutationTest, Run!Stop
  <2>6. tempDir' \in BOOLEAN /\ listening' \in BOOLEAN /\ fsOpen' \in BOOLEAN
    BY <1>1 DEF Executes, Run!Prepare, Run!Instrument, Run!SandboxFilled, Run!DryRun, Run!MutationTest
  <2> QED BY <2>1, <2>2, <2>3, <2>4, <2>5, <2>6
<1>2. ASSUME NEW f \in Files, Operates(f) PROVE Run!TypeOK'
  <2>1. phase' \in Run!Executors \cup Run!Disposals \cup Run!Over
    BY <1>2 DEF Operates, Run!BackupEnds, Run!WriteEnds, Run!CopyEnds, Run!OperationFails, Run!Stop, Run!Disposals
  <2>2. io' \in [Files -> {"none", "backup", "write", "copy", "done", "failed", "dropped"}]
    BY <1>2 DEF Operates, Run!BackupEnds, Run!WriteEnds, Run!CopyEnds, Run!OperationFails
  <2>3. UNCHANGED <<options, changed>> /\ disk' \in [Files -> {"original", "mutated"}] /\ stored' \subseteq Files
    BY <1>2 DEF Operates, Run!BackupEnds, Run!WriteEnds, Run!CopyEnds, Run!OperationFails, Run!config
  <2>4. failed' \in BOOLEAN /\ remove' \in BOOLEAN
    BY <1>2 DEF Operates, Run!BackupEnds, Run!WriteEnds, Run!CopyEnds, Run!OperationFails, Run!Stop
  <2>5. tempDir' \in BOOLEAN /\ listening' \in BOOLEAN /\ fsOpen' \in BOOLEAN
    BY <1>2 DEF Operates, Run!BackupEnds, Run!WriteEnds, Run!CopyEnds, Run!OperationFails
  <2> QED BY <2>1, <2>2, <2>3, <2>4, <2>5
<1>3. CASE Disposes \/ Run!Exit
  <2>1. phase' \in Run!Executors \cup Run!Disposals \cup Run!Over
    BY <1>3 DEF Disposes, Run!RunnersDisposed, Run!DisposeSandbox, Run!DisposeExitHandler, Run!DisposeFileSystem,
                Run!DisposeTempDir, Run!Exit, Run!Disposals, Run!Over
  <2>2. UNCHANGED <<options, changed, io>> /\ disk' \in [Files -> {"original", "mutated"}] /\ stored' \subseteq Files
    BY <1>3 DEF Disposes, Run!RunnersDisposed, Run!DisposeSandbox, Run!DisposeExitHandler, Run!DisposeFileSystem,
                Run!DisposeTempDir, Run!Exit, Run!Restore, Run!files, Run!config
  <2>3. failed' \in BOOLEAN /\ remove' \in BOOLEAN
    BY <1>3 DEF Disposes, Run!RunnersDisposed, Run!DisposeSandbox, Run!DisposeExitHandler, Run!DisposeFileSystem,
                Run!DisposeTempDir, Run!Exit
  <2>4. tempDir' \in BOOLEAN /\ listening' \in BOOLEAN /\ fsOpen' \in BOOLEAN
    BY <1>3 DEF Disposes, Run!RunnersDisposed, Run!DisposeSandbox, Run!DisposeExitHandler, Run!DisposeFileSystem,
                Run!DisposeTempDir, Run!Exit
  <2> QED BY <2>1, <2>2, <2>3, <2>4
<1>4. CASE UNCHANGED runVars
  BY <1>4 DEF runVars
<1> QED BY <1>1, <1>2, <1>3, <1>4 DEF Run!Next, Executes, Operates, Disposes

-----------------------------------------------------------------------------
(* Files *)

\* Moving the backups back leaves the original of every file in place.
LEMMA RestoreFacts ==
  ASSUME Run!TypeOK, Run!Restore, Run!Untouched \/ \A f \in Files : Run!Filled(f) \/ Run!Filling(f)
  PROVE  \A f \in Files : disk'[f] = "original"
<1>1. CASE options.inPlace
  BY <1>1 DEF Run!TypeOK, Run!Restore, Run!Untouched, Run!Filled, Run!Filling
<1>2. CASE ~options.inPlace
  BY <1>2 DEF Run!TypeOK, Run!Restore, Run!Untouched, Run!Filled, Run!Filling
<1> QED BY <1>1, <1>2

LEMMA ExecutorsKeepFiles == ASSUME Run!TypeOK, Run!FilesInv, Executes PROVE Run!FilesInv'
<1>1. /\ UNCHANGED <<options, changed, disk, stored, fsOpen>>
  BY DEF Executes, Run!Prepare, Run!Instrument, Run!SandboxFilled, Run!DryRun, Run!MutationTest, Run!files, Run!config
<1>2. CASE io' = io /\ listening' = listening /\ phase' # "sandbox"
  <2>1. Run!SomeFailed' = Run!SomeFailed /\ Run!Untouched' = Run!Untouched /\ \A f \in Files : Run!Filled(f)' = Run!Filled(f)
    BY <1>1, <1>2 DEF Run!SomeFailed, Run!Untouched, Run!Filled
  <2>2. CASE phase = "prepare" /\ phase' \in {"instrument", "disposeRunners"}
    BY <1>1, <2>1, <2>2 DEF Run!FilesInv, Run!Disposals, Run!Over, Run!Untouched
  <2>3. CASE phase = "instrument" /\ phase' = "disposeRunners"
    BY <2>1, <2>3 DEF Run!FilesInv, Run!Disposals, Run!Over, Run!Untouched
  <2>4. CASE phase = "sandbox" /\ (\A f \in Files : io[f] = "done") /\ phase' \in {"dryRun", "disposeRunners"}
    <3>1. \A f \in Files : Run!Filled(f)
      BY <2>4 DEF Run!FilesInv, Run!Filling
    <3> QED BY <1>2, <2>1, <2>4, <3>1 DEF Run!FilesInv, Run!Disposals, Run!Over
  <2>5. CASE phase \in {"dryRun", "mutationTest"} /\ phase' \in {"mutationTest", "disposeRunners"}
    BY <1>2, <2>1, <2>5 DEF Run!FilesInv, Run!Disposals, Run!Over, Run!Filled
  <2> QED BY <1>2, <2>2, <2>3, <2>4, <2>5
        DEF Executes, Run!Prepare, Run!Instrument, Run!SandboxFilled, Run!DryRun, Run!MutationTest, Run!Stop
<1>3. CASE /\ phase = "instrument" /\ phase' = "sandbox" /\ listening' = TRUE
           /\ io' = [f \in Files |-> IF ~options.inPlace THEN "copy"
                                     ELSE IF f \in changed THEN "backup" ELSE "done"]
  <2>1. fsOpen'
    BY <1>1, <1>3 DEF Run!FilesInv
  <2>2. ASSUME NEW f \in Files PROVE Run!Filling(f)'
    <3>1. disk'[f] = "original"
      BY <1>1, <1>3 DEF Run!FilesInv, Run!Untouched
    <3>2. io'[f] = IF ~options.inPlace THEN "copy" ELSE IF f \in changed THEN "backup" ELSE "done"
      BY <1>3
    <3> QED BY <1>1, <3>1, <3>2 DEF Run!Filling, Run!Filled
  <2> QED BY <1>1, <1>3, <2>1, <2>2 DEF Run!FilesInv, Run!Disposals, Run!Over
<1>4. \/ io' = io /\ listening' = listening /\ phase' # "sandbox"
      \/ /\ phase = "instrument" /\ phase' = "sandbox" /\ listening' = TRUE
         /\ io' = [f \in Files |-> IF ~options.inPlace THEN "copy"
                                   ELSE IF f \in changed THEN "backup" ELSE "done"]
  BY DEF Executes, Run!Prepare, Run!Instrument, Run!SandboxFilled, Run!DryRun, Run!MutationTest, Run!Stop, Run!files
<1> QED BY <1>2, <1>3, <1>4

LEMMA OperationsKeepFiles ==
  ASSUME Run!TypeOK, Run!FilesInv, NEW f \in Files, Operates(f)
  PROVE  Run!FilesInv'
<1>1. /\ UNCHANGED <<options, changed, fsOpen, listening>>
      /\ phase # "exited" /\ io[f] \in {"backup", "write", "copy"}
  BY DEF Operates, Run!BackupEnds, Run!WriteEnds, Run!CopyEnds, Run!OperationFails, Run!Alive, Run!config
<1>2. \A g \in Files : g # f => io'[g] = io[g] /\ disk'[g] = disk[g]
  BY DEF Operates, Run!BackupEnds, Run!WriteEnds, Run!CopyEnds, Run!OperationFails, Run!TypeOK
<1>3. \A g \in Files : g # f => (g \in stored <=> g \in stored')
  BY DEF Operates, Run!BackupEnds, Run!WriteEnds, Run!CopyEnds, Run!OperationFails
<1>4. CASE phase = "sandbox"
  <2>1. fsOpen = TRUE /\ Run!Filling(f) /\ listening
    BY <1>4 DEF Run!FilesInv, Run!TypeOK
  <2>2. CASE Run!OperationFails(f)
    <3>1. Run!SomeFailed'
      BY <2>2 DEF Run!OperationFails, Run!SomeFailed, Run!TypeOK
    <3>2. phase' = "disposeRunners"
      BY <1>4, <2>2 DEF Run!OperationFails, Run!Stop
    <3> QED BY <3>1, <3>2 DEF Run!FilesInv, Run!Over
  <2>3. CASE Run!BackupEnds(f) \/ Run!WriteEnds(f) \/ Run!CopyEnds(f)
    <3>1. phase' = phase
      BY <2>3 DEF Run!BackupEnds, Run!WriteEnds, Run!CopyEnds
    <3>2. Run!Filling(f)'
      <4>1. CASE Run!BackupEnds(f)
        <5>1. io'[f] = "write" /\ f \in stored' /\ disk' = disk /\ io[f] = "backup"
          BY <2>1, <4>1 DEF Run!BackupEnds, Run!TypeOK
        <5> QED BY <1>1, <2>1, <5>1 DEF Run!Filling, Run!Filled
      <4>2. CASE Run!WriteEnds(f)
        <5>1. io'[f] = "done" /\ stored' = stored /\ disk'[f] = "mutated" /\ io[f] = "write"
          BY <4>2 DEF Run!WriteEnds, Run!TypeOK
        <5> QED BY <1>1, <2>1, <5>1 DEF Run!Filling, Run!Filled
      <4>3. CASE Run!CopyEnds(f)
        <5>1. io'[f] = "done" /\ f \in stored' /\ disk' = disk /\ io[f] = "copy"
          BY <4>3 DEF Run!CopyEnds, Run!TypeOK
        <5> QED BY <1>1, <2>1, <5>1 DEF Run!Filling, Run!Filled
      <4> QED BY <2>3, <4>1, <4>2, <4>3
    <3>3. ASSUME NEW g \in Files, g # f PROVE Run!Filling(g)'
      <4>1. io'[g] = io[g] /\ disk'[g] = disk[g] /\ (g \in stored <=> g \in stored')
        BY <1>2, <1>3, <3>3
      <4>2. Run!Filling(g)
        BY <1>4 DEF Run!FilesInv
      <4> QED BY <1>1, <4>1, <4>2 DEF Run!Filling, Run!Filled
    <3> QED BY <1>1, <1>4, <2>1, <3>1, <3>2, <3>3 DEF Run!FilesInv, Run!Disposals, Run!Over
  <2> QED BY <2>2, <2>3 DEF Operates
<1>5. CASE phase # "sandbox"
  <2>1. phase \in Run!Disposals \cup {"ended"}
    BY <1>1, <1>5 DEF Run!FilesInv, Run!TypeOK, Run!Executors, Run!Over, Run!Untouched, Run!Filled
  <2>2. Run!SomeFailed
    BY <1>1, <2>1 DEF Run!FilesInv
  <2>3. phase' = phase
    BY <1>5 DEF Operates, Run!BackupEnds, Run!WriteEnds, Run!CopyEnds, Run!OperationFails
  <2>4. Run!SomeFailed'
    BY <1>1, <1>2, <2>2 DEF Run!SomeFailed
  <2> QED BY <2>1, <2>3, <2>4 DEF Run!FilesInv, Run!Disposals
<1> QED BY <1>4, <1>5

LEMMA DisposalKeepsFiles ==
  ASSUME Run!TypeOK, Run!FilesInv, Disposes
  PROVE  Run!FilesInv'
<1>1. UNCHANGED <<options, changed, io>> /\ Run!SomeFailed' = Run!SomeFailed
  BY DEF Disposes, Run!RunnersDisposed, Run!DisposeSandbox, Run!DisposeExitHandler, Run!DisposeFileSystem, Run!DisposeTempDir,
         Run!files, Run!config, Run!SomeFailed
<1>2. CASE Run!SomeFailed
  <2>1. phase' \in {"disposeSandbox", "disposeExitHandler", "disposeFileSystem", "disposeTempDir", "ended"}
    BY DEF Disposes, Run!RunnersDisposed, Run!DisposeSandbox, Run!DisposeExitHandler, Run!DisposeFileSystem, Run!DisposeTempDir
  <2> QED BY <1>1, <1>2, <2>1 DEF Run!FilesInv
<1>3. CASE ~Run!SomeFailed
  <2>1. \A f \in Files : io[f] \in {"none", "done"}
    BY <1>3 DEF Run!FilesInv, Run!Disposals, Disposes, Run!RunnersDisposed, Run!DisposeSandbox, Run!DisposeExitHandler,
                Run!DisposeFileSystem, Run!DisposeTempDir
  <2>2. CASE Run!RunnersDisposed
    <3>1. UNCHANGED <<disk, stored, listening>> /\ phase = "disposeRunners" /\ phase' = "disposeSandbox"
      BY <2>2 DEF Run!RunnersDisposed, Run!files
    <3>2. Run!Untouched' = Run!Untouched /\ \A f \in Files : Run!Filled(f)' = Run!Filled(f)
      BY <1>1, <3>1 DEF Run!Untouched, Run!Filled
    <3> QED BY <1>1, <1>3, <2>1, <3>1, <3>2 DEF Run!FilesInv, Run!Over
  <2>3. CASE Run!DisposeSandbox
    <3>1. phase = "disposeSandbox" /\ phase' = "disposeExitHandler" /\ Run!Restore
      BY <2>3 DEF Run!DisposeSandbox
    <3>2. Run!Untouched \/ \A f \in Files : Run!Filled(f) \/ Run!Filling(f)
      BY <1>3, <3>1 DEF Run!FilesInv
    <3>3. \A f \in Files : disk'[f] = "original"
      BY <3>1, <3>2, RestoreFacts
    <3> QED BY <1>1, <1>3, <2>1, <3>1, <3>3 DEF Run!FilesInv
  <2>4. CASE Run!DisposeExitHandler \/ Run!DisposeFileSystem \/ Run!DisposeTempDir
    <3>1. /\ disk' = disk
          /\ phase \in {"disposeExitHandler", "disposeFileSystem", "disposeTempDir"}
          /\ phase' \in {"disposeFileSystem", "disposeTempDir", "ended"}
      BY <2>4 DEF Run!DisposeExitHandler, Run!DisposeFileSystem, Run!DisposeTempDir, Run!files
    <3> QED BY <1>1, <1>3, <2>1, <3>1 DEF Run!FilesInv
  <2> QED BY <2>2, <2>3, <2>4 DEF Disposes
<1> QED BY <1>2, <1>3

\* The exit handler is there from the moment an original can change until it
\* is back.
LEMMA ExitKeepsFiles ==
  ASSUME Run!TypeOK, Run!FilesInv, Run!Exit
  PROVE  Run!FilesInv'
<1>1. UNCHANGED <<options, changed, io>> /\ Run!SomeFailed' = Run!SomeFailed /\ phase' = "exited" /\ phase \notin Run!Over
  BY DEF Run!Exit, Run!config, Run!SomeFailed
<1> SUFFICES ASSUME ~Run!SomeFailed PROVE \A f \in Files : disk'[f] = "original"
  BY <1>1 DEF Run!FilesInv, Run!Disposals
<1>2. CASE listening
  <2>1. Run!Restore
    BY <1>2 DEF Run!Exit
  <2>2. \/ Run!Untouched \/ (\A f \in Files : Run!Filled(f) \/ Run!Filling(f))
        \/ \A f \in Files : disk[f] = "original"
    BY <1>1 DEF Run!FilesInv, Run!TypeOK, Run!Executors, Run!Disposals
  <2>3. CASE \A f \in Files : disk[f] = "original"
    BY <2>1, <2>3 DEF Run!Restore, Run!TypeOK
  <2> QED BY <2>1, <2>2, <2>3, RestoreFacts
<1>3. CASE ~listening
  <2>1. disk' = disk
    BY <1>3 DEF Run!Exit
  <2>2. Run!Untouched \/ \A f \in Files : disk[f] = "original"
    BY <1>1, <1>3 DEF Run!FilesInv, Run!TypeOK, Run!Executors, Run!Disposals
  <2> QED BY <2>1, <2>2 DEF Run!Untouched
<1> QED BY <1>2, <1>3

-----------------------------------------------------------------------------
(* The temporary directory *)

LEMMA TempDirStep ==
  ASSUME Run!TypeOK, Run!FilesInv, Run!TempDirInv, [Run!Next]_runVars
  PROVE  Run!TempDirInv'
<1> USE DEF Run!TempDirInv
<1>1. CASE Executes
  <2>1. phase \in Run!Executors /\ options' = options
    BY <1>1 DEF Executes, Run!Prepare, Run!Instrument, Run!SandboxFilled, Run!DryRun, Run!MutationTest, Run!Executors, Run!config
  <2>2. \/ phase' \in Run!Executors /\ remove' = remove
        \/ \E stopped \in BOOLEAN : Run!Stop(stopped)
    BY <1>1 DEF Executes, Run!Prepare, Run!Instrument, Run!SandboxFilled, Run!DryRun, Run!MutationTest, Run!Executors
  <2>3. CASE phase' \in Run!Executors /\ remove' = remove
    BY <2>1, <2>3 DEF Run!Executors, Run!Disposals
  <2>4. CASE \E stopped \in BOOLEAN : Run!Stop(stopped)
    <3>1. PICK stopped \in BOOLEAN : Run!Stop(stopped)
      BY <2>4
    <3>2. remove = (options.cleanTempDir # "never")
      BY <2>1
    <3>3. phase' = "disposeRunners" /\ remove' = (remove /\ (failed' => options.cleanTempDir = "always"))
      BY <3>1 DEF Run!Stop
    <3>4. remove' = (options'.cleanTempDir # "never" /\ (failed' => options'.cleanTempDir = "always"))
      BY <2>1, <3>2, <3>3
    <3> QED BY <3>3, <3>4 DEF Run!Executors, Run!Disposals
  <2> QED BY <2>2, <2>3, <2>4
<1>2. ASSUME NEW f \in Files, Operates(f) PROVE Run!TempDirInv'
  <2>1. options' = options /\ phase # "exited" /\ io[f] \in {"backup", "write", "copy"}
    BY <1>2 DEF Operates, Run!BackupEnds, Run!WriteEnds, Run!CopyEnds, Run!OperationFails, Run!Alive, Run!config
  <2>2. CASE phase = "sandbox" /\ Run!OperationFails(f)
    BY <2>1, <2>2 DEF Run!OperationFails, Run!Stop, Run!Executors, Run!Disposals
  <2>3. CASE ~(phase = "sandbox" /\ Run!OperationFails(f))
    <3>1. phase' = phase /\ failed' = failed /\ remove' = remove
      BY <1>2, <2>3 DEF Operates, Run!BackupEnds, Run!WriteEnds, Run!CopyEnds, Run!OperationFails
    <3>2. phase = "ended" => Run!SomeFailed
      BY <2>1 DEF Run!FilesInv
    <3>3. Run!SomeFailed => Run!SomeFailed'
      BY <1>2, <2>1 DEF Operates, Run!BackupEnds, Run!WriteEnds, Run!CopyEnds, Run!OperationFails, Run!SomeFailed, Run!TypeOK
    <3> QED BY <2>1, <3>1, <3>2, <3>3
  <2> QED BY <2>2, <2>3
<1>3. CASE Disposes
  <2>1. options' = options /\ failed' = failed /\ remove' = remove
    BY <1>3 DEF Disposes, Run!RunnersDisposed, Run!DisposeSandbox, Run!DisposeExitHandler, Run!DisposeFileSystem,
                Run!DisposeTempDir, Run!config
  <2>2. phase \in Run!Disposals /\ phase' \in Run!Disposals \cup {"ended"}
    BY <1>3 DEF Disposes, Run!RunnersDisposed, Run!DisposeSandbox, Run!DisposeExitHandler, Run!DisposeFileSystem,
                Run!DisposeTempDir, Run!Disposals
  <2>3. phase' = "ended" => (remove => tempDir' = FALSE)
    BY <1>3 DEF Disposes, Run!RunnersDisposed, Run!DisposeSandbox, Run!DisposeExitHandler, Run!DisposeFileSystem,
                Run!DisposeTempDir
  <2> QED BY <2>1, <2>2, <2>3 DEF Run!Executors, Run!Disposals
<1>4. CASE Run!Exit
  BY <1>4 DEF Run!Exit, Run!Executors, Run!Disposals
<1>5. CASE UNCHANGED runVars
  BY <1>5 DEF runVars, Run!SomeFailed
<1> QED BY <1>1, <1>2, <1>3, <1>4, <1>5 DEF Run!Next, Executes, Operates, Disposes

-----------------------------------------------------------------------------
(* CheckerStack *)

\* What tryAction has counted, and which process it has at hand.
AttemptsInv ==
  /\ tries \in Nat /\ crashes \in 0..2
  /\ worker = "ready" => started = Checkers
  /\ Check!Busy => /\ call \in Check!Calls
                   /\ worker \in {"ready", "dead"} => tries \in {1, 2} /\ tries = crashes + 1
                   /\ worker = "init" => tries = 1 /\ crashes = 1
                   /\ worker \in {"init", "ready", "dead"}
  /\ reply = Check!Rejected("crash") => crashes = 2

LEMMA CheckerInit == Check!Init => AttemptsInv /\ Check!AnswersAreComplete
BY DEF Check!Init, AttemptsInv, Check!Busy, Check!Rejected, Check!AnswersAreComplete

\* A call that is settled leaves no counter behind that anyone reads.
LEMMA SettledKeeps ==
  ASSUME NEW value, Check!Settle(value), tries' \in Nat, crashes' \in 0..2,
         worker' = "ready" => started' = Checkers,
         value = Check!Rejected("crash") => crashes' = 2
  PROVE  AttemptsInv'
BY DEF Check!Settle, Check!NoCall, Check!Busy, AttemptsInv, Check!Rejected

\* The answer of the checker: it is passed on only when it names the mutants
\* that were asked for and no other.
LEMMA AnswerStep ==
  ASSUME AttemptsInv, Check!CheckerReturns
  PROVE  AttemptsInv' /\ Check!AnswersAreComplete'
<1>1. /\ Check!Busy /\ worker = "ready" /\ UNCHANGED <<tries, worker, started, crashes>>
      /\ call \in Check!Calls
  BY DEF Check!CheckerReturns, AttemptsInv
<1>2. PICK times \in [call.mutants \cup {Stranger} -> IF call.kind = "check" THEN 0..1 ELSE 0..2] :
        Check!Settle(Check!Verify(call, times))
  BY DEF Check!CheckerReturns
<1>3. times \in [call.mutants \cup {Stranger} -> 0..2]
  BY <1>2
<1> DEFINE value == Check!Verify(call, times)
           returned == {id \in DOMAIN times : times[id] > 0}
<1>4. \/ value \in {Check!Rejected("no such checker"), Check!Rejected("stranger"), Check!Rejected("missing")}
      \/ /\ value = [status |-> "ok", times |-> times, call |-> call]
         /\ Stranger \notin returned /\ returned = call.mutants
  <2>1. value = CASE call.checker = "unknown" -> Check!Rejected("no such checker")
                  [] Stranger \in returned      -> Check!Rejected("stranger")
                  [] returned # call.mutants    -> Check!Rejected("missing")
                  [] OTHER                      -> [status |-> "ok", times |-> times, call |-> call]
    BY DEF Check!Verify
  <2> HIDE DEF returned, value
  <2>2. \/ value \in {Check!Rejected("no such checker"), Check!Rejected("stranger"), Check!Rejected("missing")}
        \/ call.checker # "unknown" /\ Stranger \notin returned /\ ~(returned # call.mutants)
    BY <2>1
  <2> QED BY <2>1, <2>2
<1>5. reply' = value
  BY <1>2 DEF Check!Settle
<1>6. Check!Settle(value)
  BY <1>2
<1> HIDE DEF value, returned
<1>7. value # Check!Rejected("crash")
  <2>1. CASE value = Check!Rejected("no such checker")
    BY <2>1 DEF Check!Rejected
  <2>2. CASE value = Check!Rejected("stranger")
    BY <2>2 DEF Check!Rejected
  <2>3. CASE value = Check!Rejected("missing")
    BY <2>3 DEF Check!Rejected
  <2>4. CASE value = [status |-> "ok", times |-> times, call |-> call]
    BY <2>4 DEF Check!Rejected
  <2> QED BY <1>4, <2>1, <2>2, <2>3, <2>4
<1>8. AttemptsInv'
  <2>1. tries' \in Nat /\ crashes' \in 0..2 /\ worker' = "ready" /\ started' = Checkers
    BY <1>1 DEF AttemptsInv
  <2> QED BY <1>6, <1>7, <2>1, SettledKeeps
<1>9. Check!AnswersAreComplete'
  <2>1. CASE value \in {Check!Rejected("no such checker"), Check!Rejected("stranger"), Check!Rejected("missing")}
    <3>1. reply'.status = "rejected"
      <4>1. PICK why \in {"no such checker", "stranger", "missing"} : value = Check!Rejected(why)
        BY <2>1
      <4> QED BY <1>5, <4>1 DEF Check!Rejected
    <3> QED BY <3>1 DEF Check!AnswersAreComplete
  <2>2. CASE /\ value = [status |-> "ok", times |-> times, call |-> call]
             /\ Stranger \notin returned /\ returned = call.mutants
    <3>1. reply'.times = times /\ reply'.call = call
      BY <1>5, <2>2
    <3>2. times[Stranger] = 0
      BY <1>3, <2>2 DEF returned
    <3>3. \A m \in call.mutants : times[m] > 0
      BY <2>2 DEF returned
    <3> QED BY <3>1, <3>2, <3>3 DEF Check!AnswersAreComplete
  <2> QED BY <1>4, <2>1, <2>2
<1> QED BY <1>8, <1>9

LEMMA CheckerSteps ==
  ASSUME AttemptsInv, Check!AnswersAreComplete, [Check!Next]_checkerVars
  PROVE  AttemptsInv' /\ Check!AnswersAreComplete'
<1>1. CASE Check!InitChecker
  BY <1>1 DEF Check!InitChecker, AttemptsInv, Check!Busy, Check!AnswersAreComplete
<1>2. CASE Check!InitEnds
  <2>1. CASE Check!Busy
    BY <1>2, <2>1 DEF Check!InitEnds, AttemptsInv, Check!Busy, Check!AnswersAreComplete
  <2>2. CASE ~Check!Busy
    <3>1. /\ Check!Settle([status |-> "ready"]) /\ tries' = tries /\ crashes' = crashes
          /\ started' = Checkers /\ reply'.status = "ready"
      BY <1>2, <2>2 DEF Check!InitEnds, Check!Settle
    <3>2. [status |-> "ready"] # Check!Rejected("crash")
      BY DEF Check!Rejected
    <3>3. AttemptsInv'
      BY <3>1, <3>2, SettledKeeps DEF AttemptsInv
    <3> QED BY <3>1, <3>3 DEF Check!AnswersAreComplete
  <2> QED BY <2>1, <2>2
<1>3. CASE Check!InitFails \/ Check!CheckerThrows
  <2>1. PICK why \in {"init", "checker"} : Check!Settle(Check!Rejected(why))
    BY <1>3 DEF Check!InitFails, Check!CheckerThrows
  <2>2. /\ tries' = tries /\ crashes' = crashes /\ started' = started
        /\ worker' = "ready" => worker = "ready"
    BY <1>3 DEF Check!InitFails, Check!CheckerThrows
  <2>3. reply'.status = "rejected" /\ Check!Rejected(why) # Check!Rejected("crash")
    BY <2>1 DEF Check!Settle, Check!Rejected
  <2>4. AttemptsInv'
    BY <2>1, <2>2, <2>3, SettledKeeps DEF AttemptsInv
  <2> QED BY <2>3, <2>4 DEF Check!AnswersAreComplete
<1>4. CASE \E c \in Check!Calls : Check!Call(c)
  <2>1. PICK c \in Check!Calls : Check!Call(c)
    BY <1>4
  <2>2. /\ call' = c /\ tries' = 1 /\ crashes' = 0 /\ worker \in {"ready", "dead"}
        /\ worker' = worker /\ started' = started /\ reply' = [status |-> "none"]
    BY <2>1 DEF Check!Call
  <2>3. reply' # Check!Rejected("crash") /\ reply'.status = "none"
    BY <2>2 DEF Check!Rejected
  <2> QED BY <2>2, <2>3 DEF AttemptsInv, Check!Busy, Check!AnswersAreComplete, Check!Calls, Check!Rejected
<1>5. CASE Check!CheckerReturns
  BY <1>5, AnswerStep
<1>6. CASE Check!WorkerCrashes
  BY <1>6 DEF Check!WorkerCrashes, AttemptsInv, Check!Busy, Check!AnswersAreComplete
<1>7. CASE Check!CrashIsSeen
  <2>1. /\ Check!Busy /\ tries \in {1, 2} /\ tries = crashes + 1 /\ crashes' = crashes + 1 /\ tries' = tries
    BY <1>7 DEF Check!CrashIsSeen, AttemptsInv
  <2>2. CASE tries = 1
    <3>1. worker' = "init" /\ call' = call /\ reply' = reply /\ crashes = 0 /\ crashes' = 1
      BY <1>7, <2>1, <2>2 DEF Check!CrashIsSeen, AttemptsInv
    <3> QED BY <2>1, <2>2, <3>1 DEF AttemptsInv, Check!Busy, Check!AnswersAreComplete
  <2>3. CASE tries = 2
    <3>1. worker' = "gone" /\ Check!Settle(Check!Rejected("crash")) /\ crashes' = 2
      BY <1>7, <2>1, <2>3 DEF Check!CrashIsSeen, AttemptsInv
    <3>2. reply'.status = "rejected"
      BY <3>1 DEF Check!Settle, Check!Rejected
    <3>3. AttemptsInv'
      BY <2>1, <2>3, <3>1, SettledKeeps
    <3> QED BY <3>2, <3>3 DEF Check!AnswersAreComplete
  <2> QED BY <2>1, <2>2, <2>3
<1>8. CASE UNCHANGED checkerVars
  BY <1>8 DEF checkerVars, AttemptsInv, Check!Busy, Check!AnswersAreComplete
<1> QED BY <1>1, <1>2, <1>3, <1>4, <1>5, <1>6, <1>7, <1>8 DEF Check!Next

-----------------------------------------------------------------------------
(* ReportAssembly *)

\* What reduce() in the model is defined by.
Reduces(h, entries) ==
  h = [n \in 0..Len(entries) |-> IF n = 0 THEN [f \in {} |-> << >>] ELSE Assembly!Push(h[n - 1], entries[n])]

\* It can be taken to any number of entries.
LEMMA ReduceExists ==
  ASSUME NEW entries, Len(entries) \in Nat PROVE \E h : Reduces(h, entries)
<1> DEFINE Upto(h, m) == h = [n \in 0..m |-> IF n = 0 THEN [f \in {} |-> << >>] ELSE Assembly!Push(h[n - 1], entries[n])]
           T == {m \in Nat : ~\E h : Upto(h, m)}
<1>1. SUFFICES T = {}
  <2>1. Len(entries) \notin T
    BY <1>1
  <2> QED BY <2>1 DEF Reduces
<1>2. SUFFICES ASSUME T # {} PROVE FALSE
  OBVIOUS
<1>3. PICK m \in T : \A k \in T : m <= k
  <2>1. T \subseteq Nat
    OBVIOUS
  <2> HIDE DEF T
  <2> QED BY <1>2, <2>1, LeastNatural
<1>4. m # 0
  <2>1. SUFFICES ASSUME m = 0 PROVE FALSE
    OBVIOUS
  <2> DEFINE e == [n \in 0..0 |-> [f \in {} |-> << >>]]
  <2>2. Upto(e, 0)
    OBVIOUS
  <2> HIDE DEF Upto, e
  <2>3. m \notin T
    BY <2>1, <2>2
  <2> QED BY <2>3
<1>5. m \in Nat /\ m - 1 \in Nat /\ m - 1 \notin T
  <2>1. m \in Nat
    OBVIOUS
  <2>2. m - 1 \in Nat /\ ~(m <= m - 1)
    BY <1>4, <2>1
  <2> HIDE DEF T
  <2> QED BY <1>3, <2>1, <2>2
<1>6. PICK h : Upto(h, m - 1)
  BY <1>5
<1> DEFINE longer == [n \in 0..m |-> IF n = m THEN Assembly!Push(h[m - 1], entries[m]) ELSE h[n]]
<1>7. ASSUME NEW n \in 0..m
      PROVE  longer[n] = IF n = 0 THEN [f \in {} |-> << >>] ELSE Assembly!Push(longer[n - 1], entries[n])
  <2>1. CASE n = 0
    <3>1. longer[n] = h[0] /\ 0 \in 0..(m - 1)
      BY <1>4, <1>5, <2>1
    <3> QED BY <1>6, <2>1, <3>1
  <2>2. CASE n = m
    <3>1. longer[n] = Assembly!Push(h[m - 1], entries[m]) /\ longer[m - 1] = h[m - 1]
      BY <1>5, <2>2
    <3> QED BY <1>4, <2>2, <3>1
  <2>3. CASE n # 0 /\ n # m
    <3>1. n \in 0..(m - 1) /\ n - 1 \in 0..m /\ n - 1 # m
      BY <1>5, <2>3
    <3>2. longer[n] = h[n] /\ longer[n - 1] = h[n - 1]
      BY <2>3, <3>1
    <3>3. h[n] = Assembly!Push(h[n - 1], entries[n])
      BY <1>6, <2>3, <3>1
    <3> QED BY <2>3, <3>2, <3>3
  <2> QED BY <2>1, <2>2, <2>3
<1>8. longer = [n \in 0..m |-> longer[n]]
  OBVIOUS
<1> HIDE DEF longer
<1>9. Upto(longer, m)
  BY <1>7, <1>8
<1> HIDE DEF Upto
<1>10. m \notin T
  BY <1>9
<1> QED BY <1>10

\* The lists of the first n entries: every entry is in the one of its file.
Grouped(acc, entries, n) ==
  /\ DOMAIN acc = {entries[k].file : k \in 1..n}
  /\ \A f \in DOMAIN acc :
       /\ acc[f] \in Seq({entries[k].item : k \in 1..Len(entries)})
       /\ {acc[f][i] : i \in 1..Len(acc[f])} = {entries[k].item : k \in {j \in 1..n : entries[j].file = f}}

LEMMA PushGroups ==
  ASSUME NEW entries, Len(entries) \in Nat, NEW acc, NEW n \in Nat, n + 1 <= Len(entries), Grouped(acc, entries, n)
  PROVE  Grouped(Assembly!Push(acc, entries[n + 1]), entries, n + 1)
<1> DEFINE entry == entries[n + 1]
           after == Assembly!Push(acc, entry)
           Items == {entries[k].item : k \in 1..Len(entries)}
           old(f) == IF f \in DOMAIN acc THEN acc[f] ELSE << >>
<1>1. 1..(n + 1) = 1..n \cup {n + 1} /\ n + 1 \in 1..Len(entries) /\ n + 1 \notin 1..n
  OBVIOUS
<1>2. /\ DOMAIN after = DOMAIN acc \cup {entry.file}
      /\ \A f \in DOMAIN after : after[f] = IF f = entry.file THEN Append(old(f), entry.item) ELSE old(f)
  BY DEF Assembly!Push
<1>3. DOMAIN after = {entries[k].file : k \in 1..(n + 1)}
  BY <1>1, <1>2 DEF Grouped
<1>4. entry.item \in Items
  BY <1>1
<1>5. ASSUME NEW f PROVE /\ old(f) \in Seq(Items)
                         /\ {old(f)[i] : i \in 1..Len(old(f))} = {entries[k].item : k \in {j \in 1..n : entries[j].file = f}}
  <2>1. CASE f \in DOMAIN acc
    BY <2>1 DEF Grouped
  <2>2. CASE f \notin DOMAIN acc
    <3>1. {j \in 1..n : entries[j].file = f} = {}
      BY <2>2 DEF Grouped
    <3>2. old(f) = << >>
      BY <2>2
    <3> HIDE DEF old
    <3> QED BY <3>1, <3>2
  <2> QED BY <2>1, <2>2
<1> HIDE DEF old, Items, after, entry
<1>6. ASSUME NEW f \in DOMAIN after
      PROVE  /\ after[f] \in Seq(Items)
             /\ {after[f][i] : i \in 1..Len(after[f])} = {entries[k].item : k \in {j \in 1..(n + 1) : entries[j].file = f}}
  <2>1. CASE f = entry.file
    <3>1. after[f] = Append(old(f), entry.item)
      BY <1>2, <2>1
    <3>2. after[f] \in Seq(Items) /\ Len(after[f]) = Len(old(f)) + 1 /\ Len(old(f)) \in Nat
          /\ after[f][Len(old(f)) + 1] = entry.item /\ \A i \in 1..Len(old(f)) : after[f][i] = old(f)[i]
      BY <1>4, <1>5, <3>1
    <3>3. {after[f][i] : i \in 1..Len(after[f])} = {old(f)[i] : i \in 1..Len(old(f))} \cup {entry.item}
      BY <3>2
    <3>4. {j \in 1..(n + 1) : entries[j].file = f} = {j \in 1..n : entries[j].file = f} \cup {n + 1}
      BY <1>1, <2>1 DEF entry
    <3>5. {entries[k].item : k \in {j \in 1..(n + 1) : entries[j].file = f}}
            = {entries[k].item : k \in {j \in 1..n : entries[j].file = f}} \cup {entry.item}
      BY <3>4 DEF entry
    <3> QED BY <1>5, <3>2, <3>3, <3>5
  <2>2. CASE f # entry.file
    <3>1. after[f] = old(f)
      BY <1>2, <2>2
    <3>2. {j \in 1..(n + 1) : entries[j].file = f} = {j \in 1..n : entries[j].file = f}
      BY <1>1, <2>2 DEF entry
    <3>3. {entries[k].item : k \in {j \in 1..(n + 1) : entries[j].file = f}}
            = {entries[k].item : k \in {j \in 1..n : entries[j].file = f}}
      BY <3>2
    <3>4. {after[f][i] : i \in 1..Len(after[f])} = {old(f)[i] : i \in 1..Len(old(f))}
      BY <3>1
    <3> QED BY <1>5, <3>1, <3>3, <3>4
  <2> QED BY <2>1, <2>2
<1> QED BY <1>3, <1>6 DEF Grouped, Items, after, entry

\* mutation-test-report-helper.ts: the lists of reduce() hold all entries.
LEMMA ByFileGroups ==
  ASSUME NEW entries, Len(entries) \in Nat
  PROVE  Grouped(Assembly!ByFile(entries), entries, Len(entries))
<1> DEFINE h == CHOOSE g : Reduces(g, entries)
<1>1. Assembly!ByFile(entries) = h[Len(entries)]
  BY DEF Assembly!ByFile, Reduces
<1>2. Reduces(h, entries)
  BY ReduceExists
<1> HIDE DEF h
<1> DEFINE T == {n \in Nat : n <= Len(entries) /\ ~Grouped(h[n], entries, n)}
<1>3. SUFFICES T = {}
  <2>1. Len(entries) \notin T
    BY <1>3
  <2> QED BY <1>1, <2>1
<1>4. SUFFICES ASSUME T # {} PROVE FALSE
  OBVIOUS
<1>5. PICK n \in T : \A k \in T : n <= k
  <2>1. T \subseteq Nat
    OBVIOUS
  <2> HIDE DEF T
  <2> QED BY <1>4, <2>1, LeastNatural
<1>6. n # 0
  <2>1. h[0] = [f \in {} |-> << >>]
    BY <1>2 DEF Reduces
  <2>2. Grouped(h[0], entries, 0)
    <3> DEFINE e == [f \in {} |-> << >>]
    <3>1. DOMAIN e = {} /\ 1..0 = {}
      OBVIOUS
    <3> HIDE DEF e
    <3>2. Grouped(e, entries, 0)
      BY <3>1 DEF Grouped
    <3> QED BY <2>1, <3>2 DEF e
  <2> QED BY <1>5, <2>2
<1>7. n \in Nat /\ n <= Len(entries) /\ ~Grouped(h[n], entries, n)
  OBVIOUS
<1>8. n - 1 \in Nat /\ n - 1 <= Len(entries) /\ ~(n <= n - 1)
  BY <1>6, <1>7
<1>9. Grouped(h[n - 1], entries, n - 1)
  BY <1>5, <1>8
<1>10. h[n] = Assembly!Push(h[n - 1], entries[n])
  BY <1>2, <1>6, <1>7 DEF Reduces
<1>11. (n - 1) + 1 = n
  BY <1>7
<1>12. Grouped(Assembly!Push(h[n - 1], entries[n]), entries, n)
  BY <1>7, <1>8, <1>9, <1>11, PushGroups
<1> QED BY <1>7, <1>10, <1>12

\* A test of the dry run, one as the coverage has it, and a result.
RanTests  == [id : Assembly!Ids, file : Assembly!TestFiles, line : {0}]
MapTests  == [id : Assembly!Ids, file : Assembly!TestFiles, line : {0, -1}]
MutantResults ==
  [mutant : Nat, file : {"source.js", "a.spec.js"}, line : {0}, killedBy : SUBSET Assembly!Ids, coveredBy : SUBSET Assembly!Ids]

\* Where a test is, unless a line is taken off that was never added.
InPlace(checks, test, moved) ==
  /\ moved.file = test.file
  /\ (test.file # Assembly!NoFile => checks[test.file] # "asked for") => moved.line = test.line

AssemblyTypes ==
  /\ nocheck \in [Assembly!TestFiles \ {Assembly!NoFile} -> {"no", "added", "asked for"}]
  /\ ran \in Seq(RanTests) /\ testsById \in Seq(MapTests) /\ results \in Seq(MutantResults)
  /\ report.made \in BOOLEAN

\* The map has one entry for each id that ran, which is of the last such test.
OneEach(map) == \A i, j \in 1..Len(map) : map[i].id = map[j].id => i = j

Covers(map, runs) == \A i \in 1..Len(runs) : \E j \in 1..Len(map) : map[j].id = runs[i].id

LastRun(runs, i) == \A k \in 1..Len(runs) : k > i => runs[k].id # runs[i].id

LastOnes(map, runs, checks) ==
  \A i \in 1..Len(runs), j \in 1..Len(map) : runs[i].id = map[j].id /\ LastRun(runs, i) => InPlace(checks, runs[i], map[j])

\* Results are numbered and are covered by tests that ran.
Numbered(list, runs) ==
  \A i \in 1..Len(list) : list[i].mutant = i /\ \A id \in list[i].coveredBy : \E k \in 1..Len(runs) : runs[k].id = id

AssemblyInv ==
  /\ AssemblyTypes /\ OneEach(testsById) /\ Covers(testsById, ran) /\ LastOnes(testsById, ran, nocheck)
  /\ Numbered(results, ran)
  /\ report.made => report.files = Assembly!ToFileResults /\ report.testFiles = Assembly!ToTestFiles

\* The sequence without elements.
LEMMA NothingIn == ASSUME NEW s, s = << >> PROVE 1..Len(s) = {} /\ \A S : s \in Seq(S)
  OBVIOUS

\* An element at the end of a sequence.
LEMMA AppendAdds ==
  ASSUME NEW S, NEW s \in Seq(S), NEW e \in S, NEW after, after = Append(s, e)
  PROVE  /\ after \in Seq(S) /\ Len(s) \in Nat /\ Len(after) = Len(s) + 1 /\ after[Len(s) + 1] = e
         /\ \A i \in 1..Len(s) : after[i] = s[i] /\ i \in 1..Len(after) /\ Len(s) + 1 > i
         /\ Len(s) + 1 \in 1..Len(after)
         /\ \A i \in 1..Len(after) : i = Len(s) + 1 \/ i \in 1..Len(s)
  OBVIOUS

LEMMA AssemblyInit == Assembly!Init => AssemblyInv
<1> SUFFICES ASSUME Assembly!Init PROVE AssemblyInv
  OBVIOUS
<1>1. ran = << >> /\ testsById = << >> /\ results = << >> /\ report = Assembly!Unmade
      /\ nocheck \in [Assembly!TestFiles \ {Assembly!NoFile} -> {"no", "added", "asked for"}]
  BY DEF Assembly!Init
<1>2. report.made = FALSE
  BY <1>1 DEF Assembly!Unmade
<1>3. 1..Len(ran) = {} /\ 1..Len(results) = {} /\ 1..Len(testsById) = {}
  BY <1>1, NothingIn
<1>4. OneEach(testsById) /\ Covers(testsById, ran) /\ LastOnes(testsById, ran, nocheck) /\ Numbered(results, ran)
  BY <1>3 DEF OneEach, Covers, LastOnes, Numbered
<1>5. ran \in Seq(RanTests) /\ testsById \in Seq(MapTests) /\ results \in Seq(MutantResults)
  BY <1>1, NothingIn
<1>6. AssemblyTypes
  BY <1>1, <1>2, <1>5 DEF AssemblyTypes
<1> QED BY <1>2, <1>4, <1>6 DEF AssemblyInv

\* 3-dry-run-executor.ts: where a test is after the preprocessor's line was
\* taken off.
LEMMA MovedTest ==
  ASSUME AssemblyTypes, NEW test \in RanTests, NEW moved,
         moved = Assembly!RemapSandboxFilesToOriginalFiles(Assembly!InTheSandbox(test))
  PROVE  moved \in MapTests /\ moved.id = test.id /\ InPlace(nocheck, test, moved)
<1>1. test = [id |-> test.id, file |-> test.file, line |-> 0] /\ test.id \in Assembly!Ids /\ test.file \in Assembly!TestFiles
  BY DEF RanTests
<1> DEFINE inside == Assembly!InTheSandbox(test)
<1>2. inside = [id |-> test.id, file |-> test.file,
                line |-> IF test.file # Assembly!NoFile /\ nocheck[test.file] = "added" THEN 1 ELSE 0]
  BY <1>1 DEF Assembly!InTheSandbox
<1> HIDE DEF inside
<1>3. moved = [id |-> test.id, file |-> test.file,
               line |-> inside.line - IF test.file # Assembly!NoFile /\ nocheck[test.file] # "no" THEN 1 ELSE 0]
  BY <1>2 DEF Assembly!RemapSandboxFilesToOriginalFiles, inside
<1>4. inside.line = IF test.file # Assembly!NoFile /\ nocheck[test.file] = "added" THEN 1 ELSE 0
  BY <1>2
<1>5. test.file # Assembly!NoFile => nocheck[test.file] \in {"no", "added", "asked for"}
  BY <1>1 DEF AssemblyTypes
<1>6. moved.line = IF test.file # Assembly!NoFile /\ nocheck[test.file] = "asked for" THEN -1 ELSE 0
  <2>1. moved.line = inside.line - (IF test.file # Assembly!NoFile /\ nocheck[test.file] # "no" THEN 1 ELSE 0)
    BY <1>3
  <2>2. CASE test.file = Assembly!NoFile
    <3>1. inside.line = 0 /\ moved.line = inside.line - 0
      BY <1>4, <2>1, <2>2
    <3>2. moved.line = 0
      BY <3>1
    <3> QED BY <2>2, <3>2
  <2>3. CASE test.file # Assembly!NoFile /\ nocheck[test.file] = "no"
    <3>1. inside.line = 0 /\ moved.line = inside.line - 0
      BY <1>4, <2>1, <2>3
    <3>2. moved.line = 0
      BY <3>1
    <3> QED BY <2>3, <3>2
  <2>4. CASE test.file # Assembly!NoFile /\ nocheck[test.file] = "added"
    <3>1. inside.line = 1 /\ moved.line = inside.line - 1
      BY <1>4, <2>1, <2>4
    <3>2. moved.line = 0
      BY <3>1
    <3> QED BY <2>4, <3>2
  <2>5. CASE test.file # Assembly!NoFile /\ nocheck[test.file] = "asked for"
    <3>1. inside.line = 0 /\ moved.line = inside.line - 1
      BY <1>4, <2>1, <2>5
    <3>2. moved.line = -1
      BY <3>1
    <3> QED BY <2>5, <3>2
  <2> QED BY <1>5, <2>2, <2>3, <2>4, <2>5
<1>7. moved.id = test.id /\ moved.file = test.file /\ moved = [id |-> test.id, file |-> test.file, line |-> moved.line]
  BY <1>3
<1>8. moved \in MapTests
  BY <1>1, <1>6, <1>7 DEF MapTests
<1> QED BY <1>1, <1>6, <1>7, <1>8 DEF InPlace

\* test-coverage.ts: the map has the test under its id, and the others as they
\* were.
Added(map, test, after) ==
  /\ after \in Seq(MapTests) /\ OneEach(after)
  /\ \E j \in 1..Len(after) : after[j].id = test.id
  /\ \A j \in 1..Len(map) : \E k \in 1..Len(after) : after[k].id = map[j].id
  /\ \A j \in 1..Len(after) :
       IF after[j].id = test.id THEN after[j] = test ELSE \E k \in 1..Len(map) : after[j] = map[k]

LEMMA AddedTest ==
  ASSUME NEW map \in Seq(MapTests), OneEach(map), NEW test \in MapTests, NEW after, after = Assembly!AddTest(map, test)
  PROVE  Added(map, test, after)
<1> USE DEF Added
<1>0. DOMAIN map = 1..Len(map) /\ Len(map) \in Nat
  OBVIOUS
<1> DEFINE there == \E i \in DOMAIN map : map[i].id = test.id
<1>1. CASE there
  <2>1. after = [i \in 1..Len(map) |-> IF map[i].id = test.id THEN test ELSE map[i]]
    BY <1>0, <1>1 DEF Assembly!AddTest
  <2>2. after \in Seq(MapTests) /\ Len(after) = Len(map)
    <3>1. \A i \in 1..Len(map) : (IF map[i].id = test.id THEN test ELSE map[i]) \in MapTests
      OBVIOUS
    <3> QED BY <1>0, <2>1, <3>1
  <2>3. \A i \in 1..Len(after) : after[i].id = map[i].id /\ after[i] = IF map[i].id = test.id THEN test ELSE map[i]
    BY <2>1, <2>2
  <2>4. OneEach(after)
    BY <2>2, <2>3 DEF OneEach
  <2>5. \A j \in 1..Len(map) : \E k \in 1..Len(after) : after[k].id = map[j].id
    BY <2>2, <2>3
  <2>6. \E j \in 1..Len(after) : after[j].id = test.id
    BY <1>0, <1>1, <2>2, <2>3
  <2> QED BY <2>2, <2>3, <2>4, <2>5, <2>6
<1>2. CASE ~there
  <2>1. after = Append(map, test)
    BY <1>2 DEF Assembly!AddTest
  <2>2. /\ after \in Seq(MapTests) /\ Len(after) = Len(map) + 1 /\ after[Len(map) + 1] = test
        /\ \A i \in 1..Len(map) : after[i] = map[i]
    BY <2>1
  <2>3. \A i \in 1..Len(map) : after[i].id # test.id
    BY <1>0, <1>2, <2>2
  <2>4. \A i \in 1..Len(after) : i = Len(map) + 1 \/ i \in 1..Len(map)
    BY <1>0, <2>2
  <2>5. OneEach(after)
    BY <2>2, <2>3, <2>4 DEF OneEach
  <2>6. Len(map) + 1 \in 1..Len(after) /\ \A j \in 1..Len(map) : j \in 1..Len(after)
    BY <1>0, <2>2
  <2> QED BY <2>2, <2>3, <2>4, <2>5, <2>6
<1> QED BY <1>1, <1>2

LEMMA TestRanKeeps == ASSUME AssemblyInv, Assembly!TestRan PROVE AssemblyInv'
<1>1. ~report.made /\ results = << >> /\ UNCHANGED <<nocheck, results, report>>
  BY DEF Assembly!TestRan
<1>2. PICK id \in Assembly!Ids, home \in Assembly!TestFiles :
        LET test == [id |-> id, file |-> home, line |-> 0]
        IN  /\ ran' = Append(ran, test)
            /\ testsById' = Assembly!AddTest(testsById, Assembly!RemapSandboxFilesToOriginalFiles(Assembly!InTheSandbox(test)))
  BY DEF Assembly!TestRan
<1> DEFINE test  == [id |-> id, file |-> home, line |-> 0]
           moved == Assembly!RemapSandboxFilesToOriginalFiles(Assembly!InTheSandbox(test))
<1>3. test \in RanTests
  BY DEF RanTests
<1>4. ran' = Append(ran, test) /\ testsById' = Assembly!AddTest(testsById, moved)
  BY <1>2
<1>5. AssemblyTypes /\ OneEach(testsById) /\ Covers(testsById, ran) /\ LastOnes(testsById, ran, nocheck)
  BY DEF AssemblyInv
<1> HIDE DEF test
<1>6. moved \in MapTests /\ moved.id = test.id /\ InPlace(nocheck, test, moved)
  BY <1>3, <1>5, MovedTest
<1> HIDE DEF moved
<1>7. SUFFICES ASSUME NEW after, after = testsById', NEW runs, runs = ran'
               PROVE  /\ after \in Seq(MapTests) /\ runs \in Seq(RanTests)
                      /\ OneEach(after) /\ Covers(after, runs) /\ LastOnes(after, runs, nocheck)
  <2>1. /\ testsById' \in Seq(MapTests) /\ ran' \in Seq(RanTests)
        /\ OneEach(testsById') /\ Covers(testsById', ran') /\ LastOnes(testsById', ran', nocheck)
    BY <1>7
  <2>2. AssemblyTypes'
    BY <1>1, <1>5, <2>1 DEF AssemblyTypes
  <2>3. Numbered(results', ran') /\ ~report'.made
    BY <1>1 DEF Numbered
  <2>4. nocheck' = nocheck
    BY <1>1
  <2> QED BY <2>1, <2>2, <2>3, <2>4 DEF AssemblyInv
<1>8. /\ after \in Seq(MapTests) /\ OneEach(after)
      /\ \E j \in 1..Len(after) : after[j].id = test.id
      /\ \A j \in 1..Len(testsById) : \E k \in 1..Len(after) : after[k].id = testsById[j].id
      /\ \A j \in 1..Len(after) :
           IF after[j].id = test.id THEN after[j] = moved ELSE \E k \in 1..Len(testsById) : after[j] = testsById[k]
  <2>1. testsById \in Seq(MapTests)
    BY <1>5 DEF AssemblyTypes
  <2>2. after = Assembly!AddTest(testsById, moved)
    BY <1>4, <1>7
  <2>3. moved.id = test.id /\ moved \in MapTests /\ OneEach(testsById)
    BY <1>5, <1>6
  <2>4. Added(testsById, moved, after)
    BY <2>1, <2>2, <2>3, AddedTest
  <2> QED BY <2>3, <2>4 DEF Added
<1> DEFINE last == Len(ran) + 1
<1>9. /\ runs \in Seq(RanTests) /\ Len(runs) = last /\ runs[last] = test /\ Len(ran) \in Nat
      /\ \A i \in 1..Len(ran) : runs[i] = ran[i]
  <2>1. ran \in Seq(RanTests)
    BY <1>5 DEF AssemblyTypes
  <2> QED BY <1>3, <1>4, <1>7, <2>1, AppendAdds
<1>10. \A i \in 1..Len(runs) : i = last \/ (i \in 1..Len(ran) /\ last > i)
  BY <1>9
<1>11. last \in 1..Len(runs) /\ \A i \in 1..Len(ran) : i \in 1..Len(runs)
  BY <1>9
<1> HIDE DEF last
<1>12. Covers(after, runs)
  <2>1. ASSUME NEW i \in 1..Len(runs) PROVE \E j \in 1..Len(after) : after[j].id = runs[i].id
    <3>1. CASE i = last
      <4>1. runs[i].id = test.id
        BY <1>9, <3>1
      <4> QED BY <1>8, <4>1
    <3>2. CASE i \in 1..Len(ran)
      <4>1. runs[i].id = ran[i].id
        BY <1>9, <3>2
      <4>2. PICK j \in 1..Len(testsById) : testsById[j].id = ran[i].id
        BY <1>5, <3>2 DEF Covers
      <4> QED BY <1>8, <4>1, <4>2
    <3> QED BY <1>10, <3>1, <3>2
  <2> QED BY <2>1 DEF Covers
<1>13. ASSUME NEW i \in 1..Len(runs), NEW j \in 1..Len(after), runs[i].id = after[j].id, LastRun(runs, i)
       PROVE  InPlace(nocheck, runs[i], after[j])
  <2>1. CASE i = last
    <3>1. after[j] = moved /\ runs[i] = test
      BY <1>8, <1>9, <1>13, <2>1
    <3> QED BY <1>6, <3>1
  <2>2. CASE i \in 1..Len(ran) /\ last > i
    <3>1. runs[i] = ran[i]
      BY <1>9, <2>2
    <3>2. ran[i].id # test.id
      BY <1>9, <1>11, <1>13, <2>2, <3>1 DEF LastRun
    <3>3. PICK k \in 1..Len(testsById) : after[j] = testsById[k]
      BY <1>8, <1>13, <3>1, <3>2
    <3>4. LastRun(ran, i)
      BY <1>9, <1>11, <1>13, <2>2 DEF LastRun
    <3>5. ran[i].id = testsById[k].id
      BY <1>13, <3>1, <3>3
    <3> QED BY <1>5, <2>2, <3>1, <3>3, <3>4, <3>5 DEF LastOnes
  <2> QED BY <1>10, <2>1, <2>2
<1>14. LastOnes(after, runs, nocheck)
  BY <1>13 DEF LastOnes
<1> QED BY <1>8, <1>9, <1>12, <1>14

LEMMA MutantTestedKeeps == ASSUME AssemblyInv, Assembly!MutantTested PROVE AssemblyInv'
<1>1. ~report.made /\ UNCHANGED <<nocheck, ran, testsById, report>>
  BY DEF Assembly!MutantTested
<1>2. PICK home \in {"source.js", "a.spec.js"}, coveredBy \in {{}, {ran[i].id : i \in DOMAIN ran}} :
        \E killedBy \in IF coveredBy = {} THEN {{}} ELSE {{id} : id \in Assembly!Ids} :
          results' = Append(results, [mutant |-> Len(results) + 1, file |-> home, line |-> 0, killedBy |-> killedBy, coveredBy |-> coveredBy])
  BY DEF Assembly!MutantTested, Assembly!SourceFile
<1>3. PICK killedBy \in SUBSET Assembly!Ids :
        results' = Append(results, [mutant |-> Len(results) + 1, file |-> home, line |-> 0, killedBy |-> killedBy, coveredBy |-> coveredBy])
  <2>1. (IF coveredBy = {} THEN {{}} ELSE {{id} : id \in Assembly!Ids}) \subseteq SUBSET Assembly!Ids
    OBVIOUS
  <2> QED BY <1>2, <2>1
<1> DEFINE result == [mutant |-> Len(results) + 1, file |-> home, line |-> 0, killedBy |-> killedBy, coveredBy |-> coveredBy]
<1>4. AssemblyTypes /\ Numbered(results, ran)
  BY DEF AssemblyInv
<1>5. \A id \in coveredBy : id \in Assembly!Ids /\ \E k \in 1..Len(ran) : ran[k].id = id
  <2>1. DOMAIN ran = 1..Len(ran) /\ \A k \in 1..Len(ran) : ran[k].id \in Assembly!Ids
    <3>1. ran \in Seq(RanTests)
      BY <1>4 DEF AssemblyTypes
    <3>2. DOMAIN ran = 1..Len(ran) /\ \A k \in 1..Len(ran) : ran[k] \in RanTests
      BY <3>1
    <3> QED BY <3>2 DEF RanTests
  <2>2. ASSUME NEW id \in coveredBy PROVE \E k \in 1..Len(ran) : ran[k].id = id
    BY <1>2, <2>1
  <2> QED BY <2>1, <2>2
<1>6. Len(results) \in Nat
  <2>1. results \in Seq(MutantResults)
    BY <1>4 DEF AssemblyTypes
  <2> QED BY <2>1
<1>7. result \in MutantResults /\ result.mutant = Len(results) + 1 /\ result.coveredBy = coveredBy
  <2>1. Len(results) + 1 \in Nat /\ coveredBy \in SUBSET Assembly!Ids
    BY <1>5, <1>6
  <2> QED BY <2>1 DEF MutantResults
<1> HIDE DEF result
<1>8. results' = Append(results, result)
  BY <1>3 DEF result
<1>9. SUFFICES ASSUME NEW list, list = results' PROVE list \in Seq(MutantResults) /\ Numbered(list, ran)
  <2>1. results' \in Seq(MutantResults) /\ Numbered(results', ran)
    BY <1>9
  <2>2. AssemblyTypes'
    BY <1>1, <1>4, <2>1 DEF AssemblyTypes
  <2>3. OneEach(testsById') /\ Covers(testsById', ran') /\ LastOnes(testsById', ran', nocheck') /\ ~report'.made /\ Numbered(results', ran')
    BY <1>1, <2>1 DEF AssemblyInv
  <2> QED BY <2>2, <2>3 DEF AssemblyInv
<1>10. /\ list \in Seq(MutantResults) /\ Len(list) = Len(results) + 1
       /\ list[Len(results) + 1] = result /\ \A i \in 1..Len(results) : list[i] = results[i]
       /\ \A i \in 1..Len(list) : i = Len(results) + 1 \/ i \in 1..Len(results)
  <2>1. results \in Seq(MutantResults)
    BY <1>4 DEF AssemblyTypes
  <2> QED BY <1>7, <1>8, <1>9, <2>1, AppendAdds
<1>11. ASSUME NEW i \in 1..Len(list)
       PROVE  list[i].mutant = i /\ \A id \in list[i].coveredBy : \E k \in 1..Len(ran) : ran[k].id = id
  <2>1. CASE i = Len(results) + 1
    <3>1. list[i].mutant = i /\ list[i].coveredBy = coveredBy
      BY <1>7, <1>10, <2>1
    <3> QED BY <1>5, <3>1
  <2>2. CASE i # Len(results) + 1
    <3>1. i \in 1..Len(results) /\ list[i] = results[i]
      BY <1>10, <2>2
    <3> QED BY <1>4, <3>1 DEF Numbered
  <2> QED BY <2>1, <2>2
<1> QED BY <1>10, <1>11 DEF Numbered

LEMMA AssemblySteps == ASSUME AssemblyInv, [Assembly!Next]_assemblyVars PROVE AssemblyInv'
<1>1. CASE Assembly!ReportAll
  <2>1. /\ ~report.made /\ UNCHANGED <<nocheck, ran, testsById, results>>
        /\ report' = [made |-> TRUE, files |-> Assembly!ToFileResults, testFiles |-> Assembly!ToTestFiles]
    BY <1>1 DEF Assembly!ReportAll
  <2>2. Assembly!ToFileResults' = Assembly!ToFileResults /\ Assembly!ToTestFiles' = Assembly!ToTestFiles
    BY <2>1 DEF Assembly!ToFileResults, Assembly!ToTestFiles, Assembly!ToMutantResult, Assembly!ToTestDefinition, Assembly!RemapTestId
  <2>3. report'.made = TRUE /\ report'.files = Assembly!ToFileResults /\ report'.testFiles = Assembly!ToTestFiles
    BY <2>1
  <2>4. AssemblyTypes' /\ OneEach(testsById') /\ Covers(testsById', ran') /\ LastOnes(testsById', ran', nocheck') /\ Numbered(results', ran')
    BY <2>1, <2>3 DEF AssemblyInv, AssemblyTypes
  <2> QED BY <2>2, <2>3, <2>4 DEF AssemblyInv
<1>2. CASE UNCHANGED assemblyVars
  <2>1. UNCHANGED <<nocheck, ran, testsById, results, report>>
    BY <1>2 DEF assemblyVars
  <2>2. Assembly!ToFileResults' = Assembly!ToFileResults /\ Assembly!ToTestFiles' = Assembly!ToTestFiles
    BY <2>1 DEF Assembly!ToFileResults, Assembly!ToTestFiles, Assembly!ToMutantResult, Assembly!ToTestDefinition, Assembly!RemapTestId
  <2>3. AssemblyTypes' /\ OneEach(testsById') /\ Covers(testsById', ran') /\ LastOnes(testsById', ran', nocheck') /\ Numbered(results', ran')
    BY <2>1 DEF AssemblyInv, AssemblyTypes
  <2> QED BY <2>1, <2>2, <2>3 DEF AssemblyInv
<1> QED BY <1>1, <1>2, TestRanKeeps, MutantTestedKeeps DEF Assembly!Next

-----------------------------------------------------------------------------
\* An entry is in the list of its file, and nothing else is.
Listed(acc, entries, n) ==
  /\ DOMAIN acc = {entries[k].file : k \in 1..n}
  /\ \A f \in DOMAIN acc : Assembly!Range(acc[f]) = {entries[k].item : k \in {j \in 1..n : entries[j].file = f}}

LEMMA InTheLists ==
  ASSUME NEW entries, Len(entries) \in Nat PROVE Listed(Assembly!ByFile(entries), entries, Len(entries))
<1> DEFINE acc == Assembly!ByFile(entries)
<1>1. Grouped(acc, entries, Len(entries))
  BY ByFileGroups
<1> HIDE DEF acc
<1>2. ASSUME NEW f \in DOMAIN acc
      PROVE  Assembly!Range(acc[f]) = {entries[k].item : k \in {j \in 1..Len(entries) : entries[j].file = f}}
  <2>1. /\ acc[f] \in Seq({entries[k].item : k \in 1..Len(entries)})
        /\ {acc[f][i] : i \in 1..Len(acc[f])} = {entries[k].item : k \in {j \in 1..Len(entries) : entries[j].file = f}}
    BY <1>1 DEF Grouped
  <2>2. DOMAIN acc[f] = 1..Len(acc[f])
    BY <2>1
  <2>3. Assembly!Range(acc[f]) = {acc[f][i] : i \in 1..Len(acc[f])}
    BY <2>2 DEF Assembly!Range
  <2> QED BY <2>1, <2>3
<1>3. DOMAIN acc = {entries[k].file : k \in 1..Len(entries)}
  BY <1>1 DEF Grouped
<1> HIDE DEF acc
<1>4. Listed(acc, entries, Len(entries))
  BY <1>2, <1>3 DEF Listed
<1> QED BY <1>4 DEF acc

\* The id of a test of the map is its place in it, and no other id is.
LEMMA PlaceIsTheId ==
  ASSUME AssemblyTypes, OneEach(testsById), NEW j \in 1..Len(testsById)
  PROVE  Assembly!RemapTestId(testsById[j].id) = Assembly!Digits(j - 1)
<1> DEFINE places == {i \in DOMAIN testsById : testsById[i].id = testsById[j].id}
<1>1. testsById \in Seq(MapTests)
  BY DEF AssemblyTypes
<1>2. DOMAIN testsById = 1..Len(testsById)
  BY <1>1
<1>3. places = {j}
  BY <1>2 DEF OneEach
<1>4. (CHOOSE i \in {j} : TRUE) = j
  OBVIOUS
<1> QED BY <1>3, <1>4 DEF Assembly!RemapTestId

LEMMA PlacesDiffer ==
  ASSUME NEW i \in Int, NEW j \in Int, Assembly!Digits(i - 1) = Assembly!Digits(j - 1) PROVE i = j
<1>1. Assembly!Digits(i - 1).number = i - 1 /\ Assembly!Digits(j - 1).number = j - 1
  BY DEF Assembly!Digits
<1>2. i - 1 = j - 1
  BY <1>1
<1> QED BY <1>2

LEMMA KnownIdsDiffer ==
  ASSUME AssemblyTypes, OneEach(testsById), Covers(testsById, ran),
         NEW i \in 1..Len(ran), NEW j \in 1..Len(ran),
         Assembly!RemapTestId(ran[i].id) = Assembly!RemapTestId(ran[j].id)
  PROVE  ran[i].id = ran[j].id
<1>1. PICK a \in 1..Len(testsById) : testsById[a].id = ran[i].id
  BY DEF Covers
<1>2. PICK b \in 1..Len(testsById) : testsById[b].id = ran[j].id
  BY DEF Covers
<1>3. Assembly!RemapTestId(ran[i].id) = Assembly!Digits(a - 1) /\ Assembly!RemapTestId(ran[j].id) = Assembly!Digits(b - 1)
  BY <1>1, <1>2, PlaceIsTheId
<1>4. a = b
  <2>1. Assembly!Digits(a - 1) = Assembly!Digits(b - 1)
    BY <1>3
  <2>2. a \in Int /\ b \in Int
    OBVIOUS
  <2> QED BY <2>1, <2>2, PlacesDiffer
<1> QED BY <1>1, <1>2, <1>4

\* An instance has the cardinalities of its own copy of FiniteSets.
LEMMA AssemblyCardinality == \A S : Assembly!Cardinality(S) = Cardinality(S)
BY DEF Assembly!Cardinality, Cardinality

\* What the report has under the new id of a test: that test, in its file.
LEMMA OneDefinition ==
  ASSUME AssemblyInv, report.made, NEW j \in 1..Len(testsById)
  PROVE  Assembly!Definitions(Assembly!Digits(j - 1)) = {<<testsById[j].file, Assembly!ToTestDefinition(testsById[j])>>}
<1> DEFINE entries == [i \in 1..Len(testsById) |-> [file |-> testsById[i].file, item |-> Assembly!ToTestDefinition(testsById[i])]]
           defs == Assembly!Definitions(Assembly!Digits(j - 1))
           pairs == UNION {{f} \X Assembly!Range(report.testFiles[f]) : f \in DOMAIN report.testFiles}
           item(k) == Assembly!ToTestDefinition(testsById[k])
<1>1. AssemblyTypes /\ OneEach(testsById) /\ report.testFiles = Assembly!ByFile(entries)
  BY DEF AssemblyInv, Assembly!ToTestFiles
<1>2. Len(testsById) \in Nat
  <2>1. testsById \in Seq(MapTests)
    BY <1>1 DEF AssemblyTypes
  <2> QED BY <2>1
<1>3. Len(entries) = Len(testsById) /\ \A k \in 1..Len(testsById) : entries[k].file = testsById[k].file /\ entries[k].item = item(k)
  BY <1>2
<1> HIDE DEF entries
<1>4. /\ DOMAIN report.testFiles = {testsById[k].file : k \in 1..Len(testsById)}
      /\ \A f \in DOMAIN report.testFiles : \A e :
           e \in Assembly!Range(report.testFiles[f]) <=> \E k \in 1..Len(testsById) : testsById[k].file = f /\ item(k) = e
  <2>1. Listed(report.testFiles, entries, Len(testsById))
    BY <1>1, <1>2, <1>3, InTheLists
  <2>2. DOMAIN report.testFiles = {testsById[k].file : k \in 1..Len(testsById)}
    BY <1>3, <2>1 DEF Listed
  <2>3. ASSUME NEW f \in DOMAIN report.testFiles, NEW e
        PROVE  e \in Assembly!Range(report.testFiles[f]) <=> \E k \in 1..Len(testsById) : testsById[k].file = f /\ item(k) = e
    <3>3. Assembly!Range(report.testFiles[f]) = {entries[k].item : k \in {u \in 1..Len(testsById) : entries[u].file = f}}
      BY <2>1 DEF Listed
    <3>1. e \in Assembly!Range(report.testFiles[f]) <=> \E k \in 1..Len(testsById) : entries[k].file = f /\ entries[k].item = e
      BY <3>3
    <3>2. (\E k \in 1..Len(testsById) : entries[k].file = f /\ entries[k].item = e)
            <=> \E k \in 1..Len(testsById) : testsById[k].file = f /\ item(k) = e
      BY <1>3
    <3> QED BY <3>1, <3>2
  <2> QED BY <2>2, <2>3
<1>5. ASSUME NEW k \in 1..Len(testsById) PROVE item(k).id = Assembly!Digits(k - 1)
  BY <1>1, PlaceIsTheId DEF Assembly!ToTestDefinition
<1> HIDE DEF item
<1>6. ASSUME NEW pair \in pairs, pair[2].id = Assembly!Digits(j - 1) PROVE pair = <<testsById[j].file, item(j)>>
  <2>1. PICK f \in DOMAIN report.testFiles : \E e \in Assembly!Range(report.testFiles[f]) : pair = <<f, e>>
    OBVIOUS
  <2>6. PICK e \in Assembly!Range(report.testFiles[f]) : pair = <<f, e>>
    BY <2>1
  <2>2. PICK k \in 1..Len(testsById) : testsById[k].file = f /\ item(k) = e
    BY <1>4
  <2>3. pair[2] = item(k)
    BY <2>2, <2>6
  <2>4. Assembly!Digits(k - 1) = Assembly!Digits(j - 1)
    BY <1>5, <1>6, <2>3
  <2>5. k = j
    BY <2>4, PlacesDiffer
  <2> QED BY <2>2, <2>5, <2>6
<1>7. <<testsById[j].file, item(j)>> \in pairs
  <2>1. testsById[j].file \in DOMAIN report.testFiles
    BY <1>4
  <2>2. item(j) \in Assembly!Range(report.testFiles[testsById[j].file])
    BY <1>4, <2>1
  <2> QED BY <2>1, <2>2
<1>8. <<testsById[j].file, item(j)>>[2].id = Assembly!Digits(j - 1)
  BY <1>5
<1>9. defs = {pair \in pairs : pair[2].id = Assembly!Digits(j - 1)}
  BY DEF Assembly!Definitions
<1> HIDE DEF pairs, defs
<1>10. defs = {<<testsById[j].file, item(j)>>}
  BY <1>6, <1>7, <1>8, <1>9
<1> QED BY <1>10 DEF defs, item

LEMMA TestsInTheReport == AssemblyInv => Assembly!TestsAreReported
<1> SUFFICES ASSUME AssemblyInv, report.made, NEW i \in DOMAIN ran, \A j \in DOMAIN ran : j > i => ran[j].id # ran[i].id
             PROVE  /\ Cardinality(Assembly!Definitions(Assembly!RemapTestId(ran[i].id))) = 1
                    /\ \A pair \in Assembly!Definitions(Assembly!RemapTestId(ran[i].id)) :
                         /\ pair[1] = ran[i].file
                         /\ \/ ran[i].file # Assembly!NoFile /\ nocheck[ran[i].file] = "asked for"
                            \/ pair[2].line = ran[i].line + 1
                    /\ \A j \in DOMAIN ran : Assembly!RemapTestId(ran[i].id) = Assembly!RemapTestId(ran[j].id) => ran[i].id = ran[j].id
  BY AssemblyCardinality DEF Assembly!TestsAreReported, Assembly!Made
<1>1. AssemblyTypes /\ OneEach(testsById) /\ Covers(testsById, ran) /\ LastOnes(testsById, ran, nocheck)
  BY DEF AssemblyInv
<1>2. DOMAIN ran = 1..Len(ran) /\ i \in 1..Len(ran)
  <2>1. ran \in Seq(RanTests)
    BY <1>1 DEF AssemblyTypes
  <2> QED BY <2>1
<1>3. PICK j \in 1..Len(testsById) : testsById[j].id = ran[i].id
  BY <1>1, <1>2 DEF Covers
<1>4. Assembly!RemapTestId(ran[i].id) = Assembly!Digits(j - 1)
  BY <1>1, <1>3, PlaceIsTheId
<1> DEFINE one == <<testsById[j].file, Assembly!ToTestDefinition(testsById[j])>>
<1>5. Assembly!Definitions(Assembly!RemapTestId(ran[i].id)) = {one}
  BY <1>4, OneDefinition
<1>6. InPlace(nocheck, ran[i], testsById[j])
  <2>1. LastRun(ran, i)
    BY <1>2 DEF LastRun
  <2> QED BY <1>1, <1>2, <1>3, <2>1 DEF LastOnes
<1>7. one[1] = ran[i].file
  BY <1>6 DEF InPlace
<1>8. \/ ran[i].file # Assembly!NoFile /\ nocheck[ran[i].file] = "asked for"
      \/ one[2].line = ran[i].line + 1
  <2>1. one[2].line = testsById[j].line + 1
    BY DEF Assembly!ToTestDefinition, Assembly!ToPosition
  <2> QED BY <1>6, <2>1 DEF InPlace
<1> HIDE DEF one
<1>9. Cardinality({one}) = 1
  BY FS_Singleton
<1>10. \A k \in DOMAIN ran : Assembly!RemapTestId(ran[i].id) = Assembly!RemapTestId(ran[k].id) => ran[i].id = ran[k].id
  BY <1>1, <1>2, KnownIdsDiffer
<1> QED BY <1>5, <1>7, <1>8, <1>9, <1>10

LEMMA ResultsInTheReport == AssemblyInv => Assembly!ResultsAreReported
<1> SUFFICES ASSUME AssemblyInv, report.made, NEW i \in DOMAIN results
             PROVE  LET r == results[i]
                        here == {m \in Assembly!Range(report.files[r.file]) : m.mutant = r.mutant}
                    IN  /\ \A f \in DOMAIN report.files \ {r.file} : \A m \in Assembly!Range(report.files[f]) : m.mutant # r.mutant
                        /\ \E m \in here : here = {m} /\ m.line = r.line + 1
                                           /\ \A id \in {k \in Assembly!Ids : Assembly!Known(k)} :
                                                /\ id \in r.coveredBy <=> Assembly!RemapTestId(id) \in m.coveredBy
                                                /\ r.killedBy \subseteq {k \in Assembly!Ids : Assembly!Known(k)} =>
                                                     (id \in r.killedBy <=> Assembly!RemapTestId(id) \in m.killedBy)
  BY DEF Assembly!ResultsAreReported, Assembly!Made
<1> DEFINE entries == [k \in 1..Len(results) |-> [file |-> results[k].file, item |-> Assembly!ToMutantResult(results[k])]]
           item(k) == Assembly!ToMutantResult(results[k])
           r == results[i]
           here == {m \in Assembly!Range(report.files[r.file]) : m.mutant = r.mutant}
           KnownIds == {k \in Assembly!Ids : Assembly!Known(k)}
<1>1. AssemblyTypes /\ OneEach(testsById) /\ Covers(testsById, ran) /\ Numbered(results, ran) /\ report.files = Assembly!ByFile(entries)
  BY DEF AssemblyInv, Assembly!ToFileResults
<1>2. Len(results) \in Nat /\ DOMAIN results = 1..Len(results) /\ i \in 1..Len(results) /\ \A k \in 1..Len(results) : results[k] \in MutantResults
  <2>1. results \in Seq(MutantResults)
    BY <1>1 DEF AssemblyTypes
  <2> QED BY <2>1
<1>3. Len(entries) = Len(results) /\ \A k \in 1..Len(results) : entries[k].file = results[k].file /\ entries[k].item = item(k)
  BY <1>2
<1> HIDE DEF entries
<1>4. /\ DOMAIN report.files = {results[k].file : k \in 1..Len(results)}
      /\ \A f \in DOMAIN report.files : \A e :
           e \in Assembly!Range(report.files[f]) <=> \E k \in 1..Len(results) : results[k].file = f /\ item(k) = e
  <2>1. Listed(report.files, entries, Len(results))
    BY <1>1, <1>2, <1>3, InTheLists
  <2>2. DOMAIN report.files = {results[k].file : k \in 1..Len(results)}
    BY <1>3, <2>1 DEF Listed
  <2>3. ASSUME NEW f \in DOMAIN report.files, NEW e
        PROVE  e \in Assembly!Range(report.files[f]) <=> \E k \in 1..Len(results) : results[k].file = f /\ item(k) = e
    <3>3. Assembly!Range(report.files[f]) = {entries[k].item : k \in {j \in 1..Len(results) : entries[j].file = f}}
      BY <2>1 DEF Listed
    <3>1. e \in Assembly!Range(report.files[f]) <=> \E k \in 1..Len(results) : entries[k].file = f /\ entries[k].item = e
      BY <3>3
    <3>2. (\E k \in 1..Len(results) : entries[k].file = f /\ entries[k].item = e)
            <=> \E k \in 1..Len(results) : results[k].file = f /\ item(k) = e
      BY <1>3
    <3> QED BY <3>1, <3>2
  <2> QED BY <2>2, <2>3
<1>5. ASSUME NEW k \in 1..Len(results) PROVE item(k).mutant = k
  BY <1>1 DEF Assembly!ToMutantResult, Numbered
<1>6. r.mutant = i
  BY <1>1, <1>2 DEF Numbered
<1>7. /\ item(i).line = r.line + 1
      /\ item(i).killedBy = {Assembly!RemapTestId(id) : id \in r.killedBy}
      /\ item(i).coveredBy = {Assembly!RemapTestId(id) : id \in r.coveredBy}
  BY DEF Assembly!ToMutantResult, Assembly!ToPosition
<1> HIDE DEF item
<1>8. ASSUME NEW f \in DOMAIN report.files \ {r.file}, NEW m \in Assembly!Range(report.files[f]) PROVE m.mutant # r.mutant
  <2>1. PICK k \in 1..Len(results) : results[k].file = f /\ item(k) = m
    BY <1>4
  <2>2. k # i
    BY <2>1
  <2> QED BY <1>5, <1>6, <2>1, <2>2
<1>9. here = {item(i)}
  <2>1. r.file \in DOMAIN report.files
    BY <1>2, <1>4
  <2>2. item(i) \in Assembly!Range(report.files[r.file])
    BY <1>2, <1>4, <2>1
  <2>3. ASSUME NEW m \in Assembly!Range(report.files[r.file]), m.mutant = r.mutant PROVE m = item(i)
    <3>1. PICK k \in 1..Len(results) : results[k].file = r.file /\ item(k) = m
      BY <1>4, <2>1
    <3>2. k = i
      BY <1>5, <1>6, <2>3, <3>1
    <3> QED BY <3>1, <3>2
  <2>4. item(i).mutant = r.mutant
    BY <1>2, <1>5, <1>6
  <2> QED BY <2>2, <2>3, <2>4
<1>10. ASSUME NEW a \in KnownIds, NEW b \in KnownIds, Assembly!RemapTestId(a) = Assembly!RemapTestId(b) PROVE a = b
  <2>1. DOMAIN ran = 1..Len(ran)
    <3>1. ran \in Seq(RanTests)
      BY <1>1 DEF AssemblyTypes
    <3> QED BY <3>1
  <2>2. PICK u \in 1..Len(ran) : ran[u].id = a
    BY <2>1 DEF Assembly!Known
  <2>3. PICK v \in 1..Len(ran) : ran[v].id = b
    BY <2>1 DEF Assembly!Known
  <2> QED BY <1>1, <1>10, <2>2, <2>3, KnownIdsDiffer
<1>11. r.coveredBy \subseteq KnownIds
  <2>1. DOMAIN ran = 1..Len(ran)
    <3>1. ran \in Seq(RanTests)
      BY <1>1 DEF AssemblyTypes
    <3> QED BY <3>1
  <2>2. \A id \in r.coveredBy : \E k \in 1..Len(ran) : ran[k].id = id
    BY <1>1, <1>2 DEF Numbered
  <2>3. r.coveredBy \subseteq Assembly!Ids
    BY <1>2 DEF MutantResults
  <2> QED BY <2>1, <2>2, <2>3 DEF Assembly!Known
<1> HIDE DEF KnownIds
<1>12. ASSUME NEW id \in KnownIds
       PROVE  /\ id \in r.coveredBy <=> Assembly!RemapTestId(id) \in item(i).coveredBy
              /\ r.killedBy \subseteq KnownIds => (id \in r.killedBy <=> Assembly!RemapTestId(id) \in item(i).killedBy)
  <2>1. ASSUME NEW S \in SUBSET KnownIds PROVE id \in S <=> Assembly!RemapTestId(id) \in {Assembly!RemapTestId(k) : k \in S}
    BY <1>10
  <2> QED BY <1>7, <1>11, <2>1
<1> HIDE DEF here, r
<1>13. \E m \in here : here = {m} /\ m.line = r.line + 1
                      /\ \A id \in KnownIds :
                           /\ id \in r.coveredBy <=> Assembly!RemapTestId(id) \in m.coveredBy
                           /\ r.killedBy \subseteq KnownIds => (id \in r.killedBy <=> Assembly!RemapTestId(id) \in m.killedBy)
  <2> WITNESS item(i) \in here
  <2> QED BY <1>7, <1>9, <1>12
<1> QED BY <1>8, <1>13 DEF KnownIds, here, r
-----------------------------------------------------------------------------
(* Options: lists of plugins *)

\* What has been pushed after i of n elements.
IsPushed(f, list, wanted, n) ==
  f = [i \in 0..n |-> IF i = 0 THEN << >>
                      ELSE IF list[i] \in wanted THEN Append(f[i - 1], list[i]) ELSE f[i - 1]]

LEMMA FilterExists ==
  ASSUME NEW n \in Nat, NEW list, NEW wanted
  PROVE  \E f : IsPushed(f, list, wanted, n)
<1> DEFINE Is(f, k) == f = [i \in 0..k |-> IF i = 0 THEN << >>
                                           ELSE IF list[i] \in wanted THEN Append(f[i - 1], list[i]) ELSE f[i - 1]]
           T == {k \in Nat : \E f : Is(f, k)}
           Rest == {k \in Nat : k \notin T}
<1>1. 0 \in T
  <2> DEFINE f == [i \in 0..0 |-> << >>]
  <2>1. Is(f, 0)
    OBVIOUS
  <2> QED BY <2>1
<1>2. ASSUME NEW k \in T PROVE k + 1 \in T
  <2>1. k \in Nat /\ k + 1 \in Nat
    OBVIOUS
  <2>2. PICK f : Is(f, k)
    OBVIOUS
  <2> DEFINE g == [i \in 0..(k + 1) |-> IF i = 0 THEN << >>
                                        ELSE IF list[i] \in wanted THEN Append(f[i - 1], list[i]) ELSE f[i - 1]]
  <2>3. \A i \in 0..k : i \in 0..(k + 1) /\ g[i] = f[i]
    <3>1. \A i \in 0..k : i \in 0..(k + 1)
      BY <2>1
    <3>2. \A i \in 0..k : f[i] = IF i = 0 THEN << >>
                                 ELSE IF list[i] \in wanted THEN Append(f[i - 1], list[i]) ELSE f[i - 1]
      BY <2>2
    <3> QED BY <3>1, <3>2
  <2>4. \A i \in 0..(k + 1) : i # 0 => i - 1 \in 0..k
    BY <2>1
  <2>5. \A i \in 0..(k + 1) : i # 0 => g[i - 1] = f[i - 1]
    BY <2>3, <2>4
  <2>6. Is(g, k + 1)
    BY <2>5
  <2> QED BY <2>1, <2>6
<1>3. Rest = {}
  <2> SUFFICES ASSUME Rest # {} PROVE FALSE
    OBVIOUS
  <2>1. Rest \subseteq Nat
    OBVIOUS
  <2>2. PICK k \in Rest : \A j \in Rest : k <= j
    BY <2>1, LeastNatural
  <2>3. k \in Nat /\ k \notin T /\ k # 0
    BY <1>1
  <2>4. k - 1 \in Nat /\ (k - 1) + 1 = k /\ ~(k <= k - 1)
    BY <2>3
  <2>5. k - 1 \in T
    BY <2>2, <2>4
  <2> HIDE DEF T, Rest
  <2>6. k \in T
    BY <1>2, <2>4, <2>5
  <2> QED BY <2>3, <2>6
<1> QED BY <1>3 DEF IsPushed

\* The elements that are wanted, from the first one on.
LEMMA FilterFacts ==
  ASSUME NEW S, NEW list \in Seq(S), NEW wanted
  PROVE  LET places == {i \in DOMAIN list : list[i] \in wanted}
             kept == Prepare!Filter(list, wanted)
         IN  /\ kept \in Seq(S)
             /\ places = {} => kept = << >>
             /\ \A p \in places : (\A i \in places : p <= i) => kept # << >> /\ Head(kept) = list[p]
<1>0. PICK n \in Nat : n = Len(list)
  OBVIOUS
<1> DEFINE places == {i \in DOMAIN list : list[i] \in wanted}
           f == CHOOSE g : IsPushed(g, list, wanted, n)
<1>1. n \in Nat /\ DOMAIN list = 1..n /\ \A i \in 1..n : list[i] \in S
  BY <1>0
<1>2. Prepare!Filter(list, wanted) = f[n]
  BY <1>0 DEF Prepare!Filter, IsPushed
<1>3. \A i \in 0..n : f[i] = IF i = 0 THEN << >>
                             ELSE IF list[i] \in wanted THEN Append(f[i - 1], list[i]) ELSE f[i - 1]
  <2>1. \E g : IsPushed(g, list, wanted, n)
    BY FilterExists
  <2>2. IsPushed(f, list, wanted, n)
    BY <2>1
  <2> HIDE DEF f
  <2> QED BY <2>2 DEF IsPushed
<1> HIDE DEF f
<1> DEFINE Good(k) ==
             /\ f[k] \in Seq(S)
             /\ (\A i \in 1..k : list[i] \notin wanted) => f[k] = << >>
             /\ \A p \in 1..k : list[p] \in wanted /\ (\A i \in 1..k : list[i] \in wanted => p <= i) =>
                  f[k] # << >> /\ Head(f[k]) = list[p]
           Bad == {k \in 0..n : ~Good(k)}
<1>4. Good(0)
  <2>1. f[0] = << >> /\ 1..0 = {}
    BY <1>1, <1>3
  <2> QED BY <2>1
<1>5. ASSUME NEW k \in 0..n, k # 0, Good(k - 1) PROVE Good(k)
  <2>1. k \in 1..n /\ k - 1 \in 0..n /\ 1..k = 1..(k - 1) \cup {k} /\ list[k] \in S
    BY <1>1, <1>5
  <2>2. CASE list[k] \notin wanted
    <3>1. f[k] = f[k - 1]
      BY <1>3, <1>5, <2>2
    <3>2. \A i \in 1..k : list[i] \in wanted => i \in 1..(k - 1)
      BY <2>1, <2>2
    <3> QED BY <1>5, <2>1, <3>1, <3>2
  <2>3. CASE list[k] \in wanted
    <3>1. f[k] = Append(f[k - 1], list[k]) /\ f[k - 1] \in Seq(S)
      BY <1>3, <1>5, <2>3
    <3>2. f[k] \in Seq(S) /\ f[k] # << >>
      <4>1. PICK q \in Seq(S) : q = f[k - 1]
        BY <3>1
      <4>2. PICK e \in S : e = list[k]
        BY <2>1
      <4>3. Append(q, e) \in Seq(S) /\ Append(q, e) # << >>
        OBVIOUS
      <4> QED BY <3>1, <4>1, <4>2, <4>3
    <3>3. ~(\A i \in 1..k : list[i] \notin wanted)
      BY <2>1, <2>3
    <3>4. ASSUME NEW p \in 1..k, list[p] \in wanted, \A i \in 1..k : list[i] \in wanted => p <= i
          PROVE  Head(f[k]) = list[p]
      <4>1. CASE p = k
        <5>1. \A i \in 1..(k - 1) : list[i] \notin wanted
          BY <2>1, <3>4, <4>1
        <5>2. f[k - 1] = << >>
          BY <1>5, <5>1
        <5> QED BY <3>1, <4>1, <5>2
      <4>2. CASE p # k
        <5>1. p \in 1..(k - 1) /\ \A i \in 1..(k - 1) : list[i] \in wanted => p <= i
          BY <2>1, <3>4, <4>2
        <5>2. f[k - 1] # << >> /\ Head(f[k - 1]) = list[p]
          BY <1>5, <3>4, <5>1
        <5>3. PICK q \in Seq(S) : q = f[k - 1]
          BY <3>1
        <5>4. Head(Append(q, list[k])) = Head(q)
          BY <2>1, <5>2, <5>3
        <5> QED BY <3>1, <5>2, <5>3, <5>4
      <4> QED BY <4>1, <4>2
    <3> QED BY <3>2, <3>3, <3>4
  <2> QED BY <2>2, <2>3
<1> HIDE DEF Good
<1>6. Bad = {}
  <2> SUFFICES ASSUME Bad # {} PROVE FALSE
    OBVIOUS
  <2>1. Bad \subseteq Nat
    BY <1>1
  <2>2. PICK k \in Bad : \A j \in Bad : k <= j
    BY <2>1, LeastNatural
  <2>3. k \in 0..n /\ ~Good(k) /\ k # 0
    BY <1>4
  <2>4. k - 1 \in 0..n /\ ~(k <= k - 1)
    BY <1>1, <2>3
  <2>5. Good(k - 1)
    BY <2>2, <2>4
  <2> QED BY <1>5, <2>3, <2>5
<1>7. Good(n)
  BY <1>1, <1>6
<1> QED BY <1>1, <1>2, <1>7 DEF Good

\* The sequences that are joined, up to the n-th.
IsJoined(f, lists, n) ==
  f = [i \in 1..n |-> IF i = 1 THEN lists[i] ELSE f[i - 1] \o lists[i]]

LEMMA JoinedExists ==
  ASSUME NEW n \in Nat, NEW lists
  PROVE  \E f : IsJoined(f, lists, n)
<1> DEFINE T == {k \in Nat : \E f : IsJoined(f, lists, k)}
           Rest == {k \in Nat : k \notin T}
<1>1. 0 \in T
  <2> DEFINE f == [i \in 1..0 |-> << >>]
  <2>1. IsJoined(f, lists, 0)
    BY DEF IsJoined
  <2> QED BY <2>1
<1>2. ASSUME NEW k \in T PROVE k + 1 \in T
  <2>1. k \in Nat /\ k + 1 \in Nat
    OBVIOUS
  <2>2. PICK f : IsJoined(f, lists, k)
    OBVIOUS
  <2> DEFINE g == [i \in 1..(k + 1) |-> IF i = 1 THEN lists[i] ELSE f[i - 1] \o lists[i]]
  <2>3. \A i \in 1..k : i \in 1..(k + 1) /\ g[i] = f[i]
    <3>1. \A i \in 1..k : i \in 1..(k + 1)
      BY <2>1
    <3>2. \A i \in 1..k : f[i] = IF i = 1 THEN lists[i] ELSE f[i - 1] \o lists[i]
      BY <2>2 DEF IsJoined
    <3> QED BY <3>1, <3>2
  <2>4. \A i \in 1..(k + 1) : i # 1 => i - 1 \in 1..k
    BY <2>1
  <2>5. \A i \in 1..(k + 1) : i # 1 => g[i - 1] = f[i - 1]
    BY <2>3, <2>4
  <2>6. IsJoined(g, lists, k + 1)
    BY <2>5 DEF IsJoined
  <2> QED BY <2>1, <2>6
<1>3. Rest = {}
  <2> SUFFICES ASSUME Rest # {} PROVE FALSE
    OBVIOUS
  <2>1. Rest \subseteq Nat
    OBVIOUS
  <2>2. PICK k \in Rest : \A j \in Rest : k <= j
    BY <2>1, LeastNatural
  <2>3. k \in Nat /\ k \notin T /\ k # 0
    BY <1>1
  <2>4. k - 1 \in Nat /\ (k - 1) + 1 = k /\ ~(k <= k - 1)
    BY <2>3
  <2>5. k - 1 \in T
    BY <2>2, <2>4
  <2> HIDE DEF T, Rest
  <2>6. k \in T
    BY <1>2, <2>4, <2>5
  <2> QED BY <2>3, <2>6
<1> QED BY <1>3

LEMMA FlatIsSequence ==
  ASSUME NEW S, NEW n \in Nat, NEW lists \in [1..n -> Seq(S)]
  PROVE  Prepare!FlattenSeq(lists) \in Seq(S)
<1>1. Len(lists) = n
  OBVIOUS
<1>2. CASE n = 0
  <2>1. Prepare!FlattenSeq(lists) = << >>
    BY <1>1, <1>2 DEF Prepare!FlattenSeq
  <2> QED BY <2>1
<1>3. CASE n # 0
  <2> DEFINE f == CHOOSE g : IsJoined(g, lists, n)
  <2>1. Prepare!FlattenSeq(lists) = f[n]
    BY <1>1, <1>3 DEF Prepare!FlattenSeq, IsJoined
  <2>2. IsJoined(f, lists, n)
    <3>1. \E g : IsJoined(g, lists, n)
      BY JoinedExists
    <3> QED BY <3>1
  <2> HIDE DEF f
  <2>3. \A i \in 1..n : f[i] = IF i = 1 THEN lists[i] ELSE f[i - 1] \o lists[i]
    BY <2>2 DEF IsJoined
  <2> DEFINE Bad == {k \in 1..n : f[k] \notin Seq(S)}
  <2>4. Bad = {}
    <3> SUFFICES ASSUME Bad # {} PROVE FALSE
      OBVIOUS
    <3>1. Bad \subseteq Nat
      OBVIOUS
    <3>2. PICK k \in Bad : \A j \in Bad : k <= j
      BY <3>1, LeastNatural
    <3>3. k \in 1..n /\ f[k] \notin Seq(S) /\ lists[k] \in Seq(S)
      OBVIOUS
    <3>4. CASE k = 1
      BY <2>3, <3>3, <3>4
    <3>5. CASE k # 1
      <4>1. k - 1 \in 1..n /\ ~(k <= k - 1)
        BY <3>3, <3>5
      <4>2. f[k - 1] \in Seq(S)
        BY <3>2, <4>1
      <4>3. f[k] = f[k - 1] \o lists[k]
        BY <2>3, <3>3, <3>5
      <4> QED BY <3>3, <4>2, <4>3
    <3> QED BY <3>4, <3>5
  <2>5. n \in 1..n
    BY <1>3
  <2> QED BY <2>1, <2>4, <2>5
<1> QED BY <1>2, <1>3

\* The modules of the descriptors, whatever they stand for.
Words == {"*", "a", "b", "core", "reporters"}

LEMMA ModulesAreListed ==
  ASSUME descriptors \in Seq(Words)
  PROVE  Prepare!PluginModules \in Seq(Words)
<1>1. PICK n \in Nat : n = Len(descriptors) /\ DOMAIN descriptors = 1..n
  OBVIOUS
<1>2. ASSUME NEW word \in Words PROVE Prepare!Resolve(word) \in Seq(Words)
  <2>1. Prepare!Installed \in Seq(Words)
    BY DEF Prepare!Installed, Words
  <2>2. Prepare!Filter(Prepare!Installed, Prepare!Range(Prepare!Installed) \ Prepare!IgnoredPackages) \in Seq(Words)
    BY <2>1, FilterFacts
  <2> QED BY <2>2 DEF Prepare!Resolve
<1> DEFINE lists == [i \in 1..n |-> Prepare!Resolve(descriptors[i])]
<1>3. lists \in [1..n -> Seq(Words)]
  BY <1>1, <1>2
<1>4. Prepare!FlattenSeq(lists) \in Seq(Words)
  <2> HIDE DEF lists
  <2> QED BY <1>3, FlatIsSequence
<1> QED BY <1>1, <1>4 DEF Prepare!PluginModules

-----------------------------------------------------------------------------
(* Options: the errors that are shown *)

\* If none of the schema's errors is relevant, they are about a combining
\* keyword: the deepest of the others is kept, and so is one at its place.
LEMMA SomethingIsRelevant ==
  ASSUME NEW all \in SUBSET Prepare!SchemaErrors, Prepare!RelevantErrors(all) = {}
  PROVE  \A e \in all : e.keyword = "anyOf"
<1> DEFINE meta == {e \in all : e.keyword = "anyOf"}
           single == all \ meta
           kept == {e \in single :
                      (\E m \in meta : Prepare!IsUnder(e.path, m.path)) =>
                        ~\E d \in single : Prepare!IsUnder(d.path, e.path) /\ Len(d.path) > Len(e.path)}
           types == {e \in kept : e.keyword = "type"}
<1>1. (kept \ types) \cup {t \in types : ~\E e \in kept \ types : e.path = t.path} = {}
  BY DEF Prepare!RelevantErrors
<1>2. \A e \in all : Len(e.path) \in {1, 2}
  <2>1. \A path \in Prepare!Paths : Len(path) \in {1, 2}
    BY DEF Prepare!Paths
  <2> QED BY <2>1 DEF Prepare!SchemaErrors
<1> HIDE DEF meta
<1>3. single # {} => kept # {}
  <2> SUFFICES ASSUME NEW e \in single PROVE kept # {}
    OBVIOUS
  <2>1. CASE \E b \in single : Len(b.path) = 2
    <3>1. PICK d \in single : Len(d.path) = 2
      BY <2>1
    <3>2. ASSUME NEW c \in single PROVE ~(Len(c.path) > Len(d.path))
      <4>1. c \in all
        OBVIOUS
      <4>2. Len(c.path) \in {1, 2}
        BY <1>2, <4>1
      <4>3. PICK j \in {1, 2} : j = Len(c.path)
        BY <4>2
      <4>4. PICK k : k = Len(d.path)
        OBVIOUS
      <4>5. k = 2
        BY <3>1, <4>4
      <4>6. ~(j > k)
        BY <4>5
      <4> QED BY <4>3, <4>4, <4>6
    <3>3. ~\E c \in single : Prepare!IsUnder(c.path, d.path) /\ Len(c.path) > Len(d.path)
      BY <3>2
    <3>4. d \in kept
      BY <3>3
    <3> QED BY <3>4
  <2>2. CASE \A d \in single : Len(d.path) # 2
    <3>1. \A c \in single : ~(Len(c.path) > Len(e.path))
      BY <1>2, <2>2
    <3>2. ~\E c \in single : Prepare!IsUnder(c.path, e.path) /\ Len(c.path) > Len(e.path)
      BY <3>1
    <3>3. e \in kept
      BY <3>2
    <3> QED BY <3>3
  <2> QED BY <2>1, <2>2
<1> HIDE DEF kept
<1>4. kept = {}
  BY <1>1
<1>5. single = {}
  BY <1>3, <1>4
<1> QED BY <1>5 DEF meta

\* One error about a type is relevant.
LEMMA TheOneIsRelevant ==
  ASSUME NEW e, e.keyword = "type", Prepare!IsUnder(e.path, e.path) \in BOOLEAN
  PROVE  Prepare!RelevantErrors({e}) # {}
<1> DEFINE meta == {d \in {e} : d.keyword = "anyOf"}
<1>1. meta = {} /\ {e} \ meta = {e}
  OBVIOUS
<1> QED BY <1>1 DEF Prepare!RelevantErrors

-----------------------------------------------------------------------------
(* Options: what a validation makes of them *)

LEMMA OverFacts ==
  ASSUME NEW upper, NEW lower
  PROVE  /\ DOMAIN Prepare!Over(upper, lower) = DOMAIN upper \cup DOMAIN lower
         /\ \A s \in DOMAIN upper : Prepare!Over(upper, lower)[s] = upper[s]
         /\ \A s \in DOMAIN lower \ DOMAIN upper : Prepare!Over(upper, lower)[s] = lower[s]
BY DEF Prepare!Over

LEMMA OneFacts ==
  ASSUME NEW setting, NEW value
  PROVE  DOMAIN Prepare!One(setting, value) = {setting} /\ Prepare!One(setting, value)[setting] = value
BY DEF Prepare!One

\* Objects that are functions.
IsObject(o) == o = [s \in DOMAIN o |-> o[s]]

LEMMA SameObject ==
  ASSUME NEW o, NEW p, IsObject(o), IsObject(p), DOMAIN o = DOMAIN p, \A s \in DOMAIN o : o[s] = p[s]
  PROVE  o = p
BY DEF IsObject

DefaultSettings ==
  {"thresholds", "maxConcurrentTestRunners", "ignoreStatic", "coverageAnalysis", "mutate", "ignorePatterns", "disableBail"}

LEMMA DefaultFacts ==
  /\ DOMAIN Prepare!Defaults = DefaultSettings
  /\ Prepare!Deprecated \cap (DefaultSettings \cup {"concurrency"}) = {}
  /\ Prepare!Defaults["maxConcurrentTestRunners"] = Prepare!MaxSafeInteger
BY DEF Prepare!Defaults, Prepare!Deprecated, DefaultSettings

\* What is left of the settings, deprecated ones gone.
LEMMA RemoveFacts ==
  ASSUME NEW o
  PROVE  LET r == Prepare!RemoveDeprecatedOptions(o)
         IN  /\ IsObject(r) /\ DOMAIN r \cap Prepare!Deprecated = {}
             /\ \A s \in DOMAIN o \ Prepare!Deprecated :
                  /\ s \in DOMAIN r
                  /\ \/ r[s] = o[s]
                     \/ s = "disableBail" /\ "jest.enableBail" \in DOMAIN o
                     \/ s = "ignorePatterns" /\ "files" \in DOMAIN o /\ r[s] = <<"**", "!src">> \o o[s]
             /\ \A s \in DOMAIN r \ DOMAIN o :
                  \/ s = "disableBail" /\ "jest.enableBail" \in DOMAIN o
                  \/ s = "ignorePatterns" /\ "files" \in DOMAIN o
                  \/ s = "htmlReporter.fileName"
             /\ \A s \in DOMAIN r : s = "runner.option" => s \in DOMAIN o /\ r[s] = o[s]
             /\ DOMAIN o \cap Prepare!Deprecated = {} /\ IsObject(o) => r = o
<1> DEFINE patterns == IF Prepare!Has(o, "files")
                       THEN Prepare!One("ignorePatterns", <<"**", "!src">> \o IF Prepare!Has(o, "ignorePatterns") THEN o["ignorePatterns"] ELSE << >>)
                       ELSE Prepare!None
           bail     == IF Prepare!Has(o, "jest.enableBail") THEN Prepare!One("disableBail", ~o["jest.enableBail"]) ELSE Prepare!None
           page     == IF Prepare!Has(o, "htmlReporter.baseDir") /\ ~Prepare!Has(o, "htmlReporter.fileName")
                       THEN Prepare!One("htmlReporter.fileName", "dir/index.html") ELSE Prepare!None
           first    == Prepare!Over(page, o)
           second   == Prepare!Over(bail, first)
           third    == Prepare!Over(patterns, second)
           r        == Prepare!Without(third, Prepare!Deprecated)
<1>1. Prepare!RemoveDeprecatedOptions(o) = r
  BY DEF Prepare!RemoveDeprecatedOptions
<1>0. DOMAIN Prepare!None = {}
  BY DEF Prepare!None
<1>2. /\ DOMAIN patterns = IF "files" \in DOMAIN o THEN {"ignorePatterns"} ELSE {}
      /\ "files" \in DOMAIN o /\ "ignorePatterns" \in DOMAIN o => patterns["ignorePatterns"] = <<"**", "!src">> \o o["ignorePatterns"]
  <2>1. CASE "files" \in DOMAIN o
    <3> DEFINE value == <<"**", "!src">> \o IF Prepare!Has(o, "ignorePatterns") THEN o["ignorePatterns"] ELSE << >>
    <3>1. patterns = Prepare!One("ignorePatterns", value)
      BY <2>1 DEF Prepare!Has
    <3>2. "ignorePatterns" \in DOMAIN o => value = <<"**", "!src">> \o o["ignorePatterns"]
      BY DEF Prepare!Has
    <3> HIDE DEF patterns, value
    <3> QED BY <2>1, <3>1, <3>2, OneFacts
  <2>2. CASE "files" \notin DOMAIN o
    <3>1. patterns = Prepare!None
      BY <2>2 DEF Prepare!Has
    <3> HIDE DEF patterns
    <3> QED BY <1>0, <2>2, <3>1
  <2> QED BY <2>1, <2>2
<1>3. DOMAIN bail = IF "jest.enableBail" \in DOMAIN o THEN {"disableBail"} ELSE {}
  <2>1. CASE "jest.enableBail" \in DOMAIN o
    <3>1. bail = Prepare!One("disableBail", ~o["jest.enableBail"])
      BY <2>1 DEF Prepare!Has
    <3> HIDE DEF bail
    <3> QED BY <2>1, <3>1, OneFacts
  <2>2. CASE "jest.enableBail" \notin DOMAIN o
    <3>1. bail = Prepare!None
      BY <2>2 DEF Prepare!Has
    <3> HIDE DEF bail
    <3> QED BY <1>0, <2>2, <3>1
  <2> QED BY <2>1, <2>2
<1>4. /\ DOMAIN page \subseteq {"htmlReporter.fileName"}
      /\ "htmlReporter.fileName" \in DOMAIN o \/ "htmlReporter.baseDir" \notin DOMAIN o => DOMAIN page = {}
  <2>1. CASE "htmlReporter.fileName" \in DOMAIN o \/ "htmlReporter.baseDir" \notin DOMAIN o
    <3>1. page = Prepare!None
      BY <2>1 DEF Prepare!Has
    <3> HIDE DEF page
    <3> QED BY <1>0, <3>1
  <2>2. CASE ~("htmlReporter.fileName" \in DOMAIN o \/ "htmlReporter.baseDir" \notin DOMAIN o)
    <3>1. page = Prepare!One("htmlReporter.fileName", "dir/index.html")
      BY <2>2 DEF Prepare!Has
    <3> HIDE DEF page
    <3> QED BY <2>2, <3>1, OneFacts
  <2> QED BY <2>1, <2>2
<1> HIDE DEF patterns, bail, page
<1>5. /\ DOMAIN first = DOMAIN page \cup DOMAIN o
      /\ \A s \in DOMAIN o \ DOMAIN page : first[s] = o[s]
  BY OverFacts
<1>6. /\ DOMAIN second = DOMAIN bail \cup DOMAIN first
      /\ \A s \in DOMAIN first \ DOMAIN bail : second[s] = first[s]
  BY OverFacts
<1>7. /\ DOMAIN third = DOMAIN patterns \cup DOMAIN second
      /\ \A s \in DOMAIN patterns : third[s] = patterns[s]
      /\ \A s \in DOMAIN second \ DOMAIN patterns : third[s] = second[s]
  BY OverFacts
<1> HIDE DEF first, second, third
<1>8. /\ DOMAIN r = DOMAIN third \ Prepare!Deprecated /\ IsObject(r)
      /\ \A s \in DOMAIN r : r[s] = third[s]
  BY DEF Prepare!Without, IsObject
<1> HIDE DEF r
<1>9. ASSUME NEW s \in DOMAIN o \ Prepare!Deprecated
      PROVE  /\ s \in DOMAIN r
             /\ \/ r[s] = o[s]
                \/ s = "disableBail" /\ "jest.enableBail" \in DOMAIN o
                \/ s = "ignorePatterns" /\ "files" \in DOMAIN o /\ r[s] = <<"**", "!src">> \o o[s]
  <2>1. s \in DOMAIN first /\ s \in DOMAIN second /\ s \in DOMAIN third /\ s \in DOMAIN r /\ r[s] = third[s]
    BY <1>5, <1>6, <1>7, <1>8
  <2>2. s \notin DOMAIN page
    BY <1>4
  <2>3. first[s] = o[s]
    BY <1>5, <2>2
  <2>4. CASE s \in DOMAIN patterns
    BY <1>2, <1>7, <2>1, <2>4
  <2>5. CASE s \notin DOMAIN patterns /\ s \in DOMAIN bail
    BY <1>3, <2>1, <2>5
  <2>6. CASE s \notin DOMAIN patterns /\ s \notin DOMAIN bail
    <3>1. third[s] = second[s] /\ second[s] = first[s]
      BY <1>6, <1>7, <2>1, <2>6
    <3> QED BY <2>1, <2>3, <3>1
  <2> QED BY <2>4, <2>5, <2>6
<1>10. ASSUME NEW s \in DOMAIN r \ DOMAIN o
       PROVE  \/ s = "disableBail" /\ "jest.enableBail" \in DOMAIN o
              \/ s = "ignorePatterns" /\ "files" \in DOMAIN o
              \/ s = "htmlReporter.fileName"
  BY <1>2, <1>3, <1>4, <1>5, <1>6, <1>7, <1>8
<1>11. ASSUME "runner.option" \in DOMAIN r PROVE "runner.option" \in DOMAIN o /\ r["runner.option"] = o["runner.option"]
  <2>1. "runner.option" \in DOMAIN o
    BY <1>10, <1>11
  <2>2. "runner.option" \notin Prepare!Deprecated
    BY DEF Prepare!Deprecated
  <2> QED BY <1>9, <2>1, <2>2
<1>12. ASSUME DOMAIN o \cap Prepare!Deprecated = {}, IsObject(o) PROVE r = o
  <2>1. "files" \notin DOMAIN o /\ "jest.enableBail" \notin DOMAIN o /\ "htmlReporter.baseDir" \notin DOMAIN o
    BY <1>12 DEF Prepare!Deprecated
  <2>2. DOMAIN r = DOMAIN o
    BY <1>2, <1>3, <1>4, <1>5, <1>6, <1>7, <1>8, <1>12, <2>1
  <2>3. \A s \in DOMAIN o : r[s] = o[s]
    BY <1>9, <1>12, <2>1
  <2> QED BY <1>8, <1>12, <2>2, <2>3, SameObject
<1>13. DOMAIN r \cap Prepare!Deprecated = {}
  BY <1>8
<1> QED BY <1>1, <1>8, <1>9, <1>10, <1>11, <1>12, <1>13

\* The deprecated limit only adds a setting.
LEMMA LimitFacts ==
  ASSUME NEW o, IsObject(o)
  PROVE  LET v == Prepare!UseDeprecatedLimit(o)
         IN  /\ IsObject(v) /\ DOMAIN o \subseteq DOMAIN v /\ DOMAIN v \subseteq DOMAIN o \cup {"concurrency"}
             /\ \A s \in DOMAIN o : v[s] = o[s]
             /\ "maxConcurrentTestRunners" \in DOMAIN o => Prepare!UseDeprecatedLimit(v) = v
<1> DEFINE limit == o["maxConcurrentTestRunners"]
           low == limit # Prepare!MaxSafeInteger /\ limit < Cpus - 1
           v == Prepare!UseDeprecatedLimit(o)
<1>1. CASE low /\ "concurrency" \notin DOMAIN o
  <2>1. v = Prepare!Over(Prepare!One("concurrency", limit), o)
    BY <1>1 DEF Prepare!UseDeprecatedLimit, Prepare!Has
  <2>2. IsObject(v)
    BY <2>1 DEF Prepare!Over, IsObject
  <2>3. /\ DOMAIN v = {"concurrency"} \cup DOMAIN o
        /\ \A s \in DOMAIN o : v[s] = o[s]
    <3>1. PICK one : one = Prepare!One("concurrency", limit)
      OBVIOUS
    <3>2. DOMAIN one = {"concurrency"}
      BY <3>1, OneFacts
    <3>3. v = Prepare!Over(one, o)
      BY <2>1, <3>1
    <3> HIDE DEF v
    <3> DEFINE u == Prepare!Over(one, o)
    <3>4. DOMAIN u = DOMAIN one \cup DOMAIN o /\ \A s \in DOMAIN o \ DOMAIN one : u[s] = o[s]
      BY OverFacts
    <3> HIDE DEF u
    <3>5. v = u
      BY <3>3 DEF u
    <3> QED BY <1>1, <3>2, <3>4, <3>5
  <2>4. Prepare!UseDeprecatedLimit(v) = v
    <3> HIDE DEF v
    <3> QED BY <2>3 DEF Prepare!UseDeprecatedLimit, Prepare!Has
  <2> QED BY <2>2, <2>3, <2>4
<1>2. CASE ~low \/ "concurrency" \in DOMAIN o
  <2>1. v = o
    BY <1>2 DEF Prepare!UseDeprecatedLimit, Prepare!Has
  <2> QED BY <2>1
<1> QED BY <1>1, <1>2

\* The validation: what becomes of each setting, and that a second one
\* finds nothing left to change.
LEMMA ValidatedFacts ==
  ASSUME NEW o
  PROVE  LET v == Prepare!Validated(o)
         IN  /\ DOMAIN v \cap Prepare!Deprecated = {} /\ DefaultSettings \subseteq DOMAIN v
             /\ \A s \in DOMAIN o \ Prepare!Deprecated :
                  \/ v[s] = o[s]
                  \/ s = "disableBail" /\ "jest.enableBail" \in DOMAIN o
                  \/ s = "ignorePatterns" /\ "files" \in DOMAIN o /\ v[s] = <<"**", "!src">> \o o[s]
             /\ \A s \in DefaultSettings \ DOMAIN o :
                  \/ v[s] = Prepare!Defaults[s]
                  \/ s = "disableBail" /\ "jest.enableBail" \in DOMAIN o
                  \/ s = "ignorePatterns" /\ "files" \in DOMAIN o
             /\ "runner.option" \in DOMAIN v => "runner.option" \in DOMAIN o /\ v["runner.option"] = o["runner.option"]
             /\ Prepare!Validated(v) = v
<1> DEFINE r == Prepare!RemoveDeprecatedOptions(o)
           w == Prepare!Over(r, Prepare!Defaults)
           v == Prepare!Validated(o)
<1>1. v = Prepare!UseDeprecatedLimit(w)
  BY DEF Prepare!Validated
<1>2. /\ IsObject(r) /\ DOMAIN r \cap Prepare!Deprecated = {}
      /\ \A s \in DOMAIN o \ Prepare!Deprecated :
           /\ s \in DOMAIN r
           /\ \/ r[s] = o[s]
              \/ s = "disableBail" /\ "jest.enableBail" \in DOMAIN o
              \/ s = "ignorePatterns" /\ "files" \in DOMAIN o /\ r[s] = <<"**", "!src">> \o o[s]
      /\ \A s \in DOMAIN r \ DOMAIN o :
           \/ s = "disableBail" /\ "jest.enableBail" \in DOMAIN o
           \/ s = "ignorePatterns" /\ "files" \in DOMAIN o
           \/ s = "htmlReporter.fileName"
      /\ "runner.option" \in DOMAIN r => "runner.option" \in DOMAIN o /\ r["runner.option"] = o["runner.option"]
  BY RemoveFacts
<1> HIDE DEF r
<1>3. /\ DOMAIN w = DOMAIN r \cup DefaultSettings /\ IsObject(w)
      /\ \A s \in DOMAIN r : w[s] = r[s]
      /\ \A s \in DefaultSettings \ DOMAIN r : w[s] = Prepare!Defaults[s]
  <2>1. IsObject(w)
    BY DEF IsObject, Prepare!Over
  <2> HIDE DEF w
  <2>2. DOMAIN w = DOMAIN r \cup DOMAIN Prepare!Defaults
    BY OverFacts DEF w
  <2>3. \A s \in DOMAIN r : w[s] = r[s]
    BY OverFacts DEF w
  <2>4. \A s \in DOMAIN Prepare!Defaults \ DOMAIN r : w[s] = Prepare!Defaults[s]
    BY OverFacts DEF w
  <2> QED BY <2>1, <2>2, <2>3, <2>4, DefaultFacts
<1> HIDE DEF w
<1>4. "maxConcurrentTestRunners" \in DOMAIN w
  BY <1>3 DEF DefaultSettings
<1>5. /\ IsObject(v) /\ DOMAIN w \subseteq DOMAIN v /\ DOMAIN v \subseteq DOMAIN w \cup {"concurrency"}
      /\ \A s \in DOMAIN w : v[s] = w[s]
      /\ Prepare!UseDeprecatedLimit(v) = v
  BY <1>1, <1>3, <1>4, LimitFacts
<1> HIDE DEF v
<1>6. DOMAIN v \cap Prepare!Deprecated = {}
  BY <1>2, <1>3, <1>5, DefaultFacts
<1>7. DefaultSettings \subseteq DOMAIN v
  BY <1>3, <1>5
<1>8. ASSUME NEW s \in DOMAIN o \ Prepare!Deprecated
      PROVE  \/ v[s] = o[s]
             \/ s = "disableBail" /\ "jest.enableBail" \in DOMAIN o
             \/ s = "ignorePatterns" /\ "files" \in DOMAIN o /\ v[s] = <<"**", "!src">> \o o[s]
  <2>1. v[s] = r[s]
    BY <1>2, <1>3, <1>5
  <2> QED BY <1>2, <2>1
<1>9. ASSUME NEW s \in DefaultSettings \ DOMAIN o
      PROVE  \/ v[s] = Prepare!Defaults[s]
             \/ s = "disableBail" /\ "jest.enableBail" \in DOMAIN o
             \/ s = "ignorePatterns" /\ "files" \in DOMAIN o
  <2>1. s # "htmlReporter.fileName"
    BY DEF DefaultSettings
  <2>2. CASE s \in DOMAIN r
    BY <1>2, <2>1, <2>2
  <2>3. CASE s \notin DOMAIN r
    BY <1>3, <1>5, <2>3
  <2> QED BY <2>2, <2>3
<1>10. ASSUME "runner.option" \in DOMAIN v PROVE "runner.option" \in DOMAIN o /\ v["runner.option"] = o["runner.option"]
  <2>1. "runner.option" \in DOMAIN w /\ v["runner.option"] = w["runner.option"]
    BY <1>5, <1>10
  <2>2. "runner.option" \in DOMAIN r
    BY <1>3, <2>1 DEF DefaultSettings
  <2> QED BY <1>2, <1>3, <2>1, <2>2
<1>11. Prepare!Validated(v) = v
  <2>1. Prepare!RemoveDeprecatedOptions(v) = v
    BY <1>5, <1>6, RemoveFacts
  <2> DEFINE u == Prepare!Over(v, Prepare!Defaults)
  <2>2. IsObject(u)
    BY DEF IsObject, Prepare!Over
  <2>3. DOMAIN u = DOMAIN v /\ \A s \in DOMAIN v : u[s] = v[s]
    <3> HIDE DEF u
    <3>1. DOMAIN u = DOMAIN v \cup DOMAIN Prepare!Defaults /\ \A s \in DOMAIN v : u[s] = v[s]
      BY OverFacts DEF u
    <3> QED BY <1>7, <3>1, DefaultFacts
  <2>4. u = v
    <3> HIDE DEF u
    <3> QED BY <1>5, <2>2, <2>3, SameObject
  <2>5. Prepare!Validated(v) = Prepare!UseDeprecatedLimit(u)
    BY <2>1 DEF Prepare!Validated
  <2> HIDE DEF u
  <2> QED BY <1>5, <2>4, <2>5
<1> QED BY <1>6, <1>7, <1>8, <1>9, <1>10, <1>11 DEF v

-----------------------------------------------------------------------------
(* Options: the inductive invariant *)

\* What the settings that are given can be.
AreSettings(o) == \A s \in DOMAIN o : <<s, o[s]>> \in Prepare!Values

Merged == Prepare!Over(cli, file)

Supplied == {m \in Prepare!Range(Prepare!PluginModules) : Prepare!GivesPlugins(m)}

PrepareInv ==
  /\ AreSettings(cli) /\ AreSettings(file)
  /\ errors \in SUBSET Prepare!SchemaErrors /\ descriptors \in Seq(Words)
  /\ prepPhase \in {"configure", "loading", "loaded", "frozen", "failed"}
  /\ prepPhase = "failed" => shown # {}
  /\ prepPhase \in {"loading", "loaded", "frozen"} =>
       /\ prepOptions = Prepare!Validated(Merged)
       /\ Prepare!RelevantErrors(errors) = {} /\ Prepare!CustomErrors(prepOptions) = {}
  /\ prepPhase \in {"loaded", "frozen"} => modules = Prepare!Filter(Prepare!PluginModules, Supplied)
  /\ prepPhase = "frozen" /\ "a" \in schemas /\ "runner.option" \in DOMAIN prepOptions =>
       prepOptions["runner.option"] = "right"

LEMMA PrepareInit == Prepare!Init => PrepareInv
<1> SUFFICES ASSUME Prepare!Init PROVE PrepareInv
  OBVIOUS
<1>1. cli = << >> /\ file = << >> /\ prepPhase = "configure"
  BY DEF Prepare!Init, Prepare!None
<1>2. AreSettings(cli) /\ AreSettings(file)
  BY <1>1 DEF AreSettings
<1>3. errors \in SUBSET Prepare!SchemaErrors
  <2>1. errors \in UNION {Prepare!kSubset(k, Prepare!SchemaErrors) : k \in 1..MaxErrors} \/ errors = {}
    BY DEF Prepare!Init
  <2>2. \A k : Prepare!kSubset(k, Prepare!SchemaErrors) \subseteq SUBSET Prepare!SchemaErrors
    BY DEF Prepare!kSubset
  <2> QED BY <2>1, <2>2
<1>4. descriptors \in Seq(Words)
  <2>1. descriptors \in {<<"*", "reporters">>, <<"b", "reporters", "a">>, <<"b", "*", "reporters">>, <<"a", "reporters">>}
    BY DEF Prepare!Init
  <2>2. <<"*", "reporters">> \in Seq(Words)
    BY DEF Words
  <2>3. <<"b", "reporters", "a">> \in Seq(Words)
    BY DEF Words
  <2>4. <<"b", "*", "reporters">> \in Seq(Words)
    BY DEF Words
  <2>5. <<"a", "reporters">> \in Seq(Words)
    BY DEF Words
  <2> QED BY <2>1, <2>2, <2>3, <2>4, <2>5
<1> QED BY <1>1, <1>2, <1>3, <1>4 DEF PrepareInv

LEMMA PrepareStutter == PrepareInv /\ UNCHANGED prepareVars => PrepareInv'
BY DEF PrepareInv, prepareVars, Merged, Supplied, AreSettings, Prepare!PluginModules, Prepare!GivesPlugins

\* One more setting is one of the values.
LEMMA OneMoreSetting ==
  ASSUME NEW o, AreSettings(o), NEW pair \in Prepare!Values
  PROVE  AreSettings(Prepare!Over(Prepare!One(pair[1], pair[2]), o))
<1>1. pair = <<pair[1], pair[2]>>
  <2>1. \A a, b : pair = <<a, b>> => pair = <<pair[1], pair[2]>>
    OBVIOUS
  <2>2. \E a, b : pair = <<a, b>>
    BY DEF Prepare!Values
  <2> QED BY <2>1, <2>2
<1> DEFINE one == Prepare!One(pair[1], pair[2])
           p == Prepare!Over(one, o)
<1>2. DOMAIN one = {pair[1]} /\ one[pair[1]] = pair[2]
  BY OneFacts
<1> HIDE DEF one
<1>3. DOMAIN p = DOMAIN one \cup DOMAIN o
      /\ (\A s \in DOMAIN one : p[s] = one[s]) /\ \A s \in DOMAIN o \ DOMAIN one : p[s] = o[s]
  BY OverFacts
<1> HIDE DEF p
<1>4. ASSUME NEW s \in DOMAIN p PROVE <<s, p[s]>> \in Prepare!Values
  <2>1. CASE s = pair[1]
    BY <1>1, <1>2, <1>3, <2>1
  <2>2. CASE s # pair[1]
    BY <1>2, <1>3, <2>2 DEF AreSettings
  <2> QED BY <2>1, <2>2
<1> QED BY <1>4 DEF AreSettings, p, one

LEMMA ConfigureKeeps == PrepareInv /\ Prepare!Configure => PrepareInv'
<1> SUFFICES ASSUME PrepareInv, Prepare!Configure PROVE PrepareInv'
  OBVIOUS
<1>1. PICK pair \in Prepare!Values :
        \/ cli' = Prepare!Over(Prepare!One(pair[1], pair[2]), cli) /\ file' = file
        \/ file' = Prepare!Over(Prepare!One(pair[1], pair[2]), file) /\ cli' = cli
  BY DEF Prepare!Configure
<1>2. \A o : AreSettings(o) => AreSettings(Prepare!Over(Prepare!One(pair[1], pair[2]), o))
  BY OneMoreSetting
<1>3. AreSettings(cli) /\ AreSettings(file)
  BY DEF PrepareInv
<1>4. \A a, b : (a = cli' /\ b = file') => AreSettings(a) /\ AreSettings(b)
  BY <1>1, <1>2, <1>3
<1>5. AreSettings(cli)' /\ AreSettings(file)'
  BY <1>4 DEF AreSettings
<1>6. /\ prepPhase' = "configure" /\ errors' \in SUBSET Prepare!SchemaErrors
      /\ descriptors' \in Seq(Words)
  BY DEF PrepareInv, Prepare!Configure
<1> QED BY <1>5, <1>6 DEF PrepareInv

LEMMA ReadConfigKeeps == PrepareInv /\ Prepare!ReadConfig => PrepareInv'
<1> SUFFICES ASSUME PrepareInv, Prepare!ReadConfig PROVE PrepareInv'
  OBVIOUS
<1>1. /\ cli' = cli /\ file' = file /\ errors' = errors /\ descriptors' = descriptors
  BY DEF Prepare!ReadConfig
<1>2. /\ AreSettings(cli)' /\ AreSettings(file)' /\ errors' \in SUBSET Prepare!SchemaErrors
      /\ descriptors' \in Seq(Words)
  BY <1>1 DEF PrepareInv, AreSettings
<1> DEFINE merged == Prepare!Over(cli, file)
           wrong == Prepare!ErrorsOf(merged, errors)
<1>3. CASE prepPhase' = "failed" /\ shown' = {fileKind}
  BY <1>2, <1>3 DEF PrepareInv
<1>4. CASE prepOptions' = Prepare!Validated(merged) /\ shown' = wrong /\ prepPhase' = IF wrong = {} THEN "loading" ELSE "failed"
  <2>1. CASE wrong # {}
    BY <1>2, <1>4, <2>1 DEF PrepareInv
  <2>2. CASE wrong = {}
    <3>1. Prepare!RelevantErrors(errors) = {} /\ Prepare!CustomErrors(Prepare!Validated(merged)) = {}
      BY <2>2 DEF Prepare!ErrorsOf
    <3>2. Merged' = merged
      BY <1>1 DEF Merged
    <3>3. Prepare!RelevantErrors(errors)' = {} /\ Prepare!CustomErrors(prepOptions)' = {}
      BY <1>1, <1>4, <3>1
    <3>4. prepOptions' = Prepare!Validated(Merged)'
      BY <1>4, <3>2
    <3>5. prepPhase' = "loading"
      BY <1>4, <2>2
    <3> QED BY <1>2, <3>3, <3>4, <3>5 DEF PrepareInv
  <2> QED BY <2>1, <2>2
<1> QED BY <1>3, <1>4 DEF Prepare!ReadConfig

LEMMA LoadingKeeps == PrepareInv /\ (Prepare!Imported \/ Prepare!Load) => PrepareInv'
<1> SUFFICES ASSUME PrepareInv, Prepare!Imported \/ Prepare!Load PROVE PrepareInv'
  OBVIOUS
<1>1. /\ cli' = cli /\ file' = file /\ errors' = errors /\ descriptors' = descriptors /\ gives' = gives
      /\ prepOptions' = prepOptions /\ prepPhase = "loading"
  BY DEF Prepare!Imported, Prepare!Load
<1>2. Merged' = Merged /\ Prepare!PluginModules' = Prepare!PluginModules /\ Supplied' = Supplied
  BY <1>1 DEF Merged, Supplied, Prepare!PluginModules, Prepare!GivesPlugins
<1>3. /\ AreSettings(cli)' /\ AreSettings(file)' /\ errors' \in SUBSET Prepare!SchemaErrors
      /\ descriptors' \in Seq(Words)
  BY <1>1 DEF PrepareInv, AreSettings
<1>4. /\ prepOptions' = Prepare!Validated(Merged)'
      /\ Prepare!RelevantErrors(errors)' = {} /\ Prepare!CustomErrors(prepOptions)' = {}
  BY <1>1, <1>2 DEF PrepareInv
<1>5. CASE Prepare!Imported
  <2>1. prepPhase' = "loading"
    BY <1>5 DEF Prepare!Imported
  <2> QED BY <1>3, <1>4, <2>1 DEF PrepareInv
<1>6. CASE Prepare!Load
  <2>1. prepPhase' = "loaded" /\ modules' = Prepare!Filter(Prepare!PluginModules, {m \in loads : Prepare!GivesPlugins(m)})
        /\ loads = Prepare!Range(Prepare!PluginModules)
    BY <1>6 DEF Prepare!Load
  <2>2. modules' = Prepare!Filter(Prepare!PluginModules, Supplied)
    BY <2>1 DEF Supplied
  <2>3. modules' = Prepare!Filter(Prepare!PluginModules, Supplied)'
    BY <1>2, <2>2
  <2> QED BY <1>3, <1>4, <2>1, <2>3 DEF PrepareInv
<1> QED BY <1>5, <1>6

\* The second validation changes nothing.
LEMMA RevalidateChangesNothing == PrepareInv /\ Prepare!Revalidate => prepOptions' = prepOptions
<1> SUFFICES ASSUME PrepareInv, Prepare!Revalidate PROVE prepOptions' = prepOptions
  OBVIOUS
<1>1. prepOptions = Prepare!Validated(Merged) /\ prepOptions' = Prepare!Validated(prepOptions)
  BY DEF PrepareInv, Prepare!Revalidate
<1>2. Prepare!Validated(Prepare!Validated(Merged)) = Prepare!Validated(Merged)
  <2>1. PICK o : o = Merged
    OBVIOUS
  <2>2. Prepare!Validated(Prepare!Validated(o)) = Prepare!Validated(o)
    BY ValidatedFacts
  <2> QED BY <2>1, <2>2
<1> QED BY <1>1, <1>2

LEMMA RevalidateKeeps == PrepareInv /\ Prepare!Revalidate => PrepareInv'
<1> SUFFICES ASSUME PrepareInv, Prepare!Revalidate PROVE PrepareInv'
  OBVIOUS
<1>1. prepOptions' = prepOptions
  BY RevalidateChangesNothing
<1>2. /\ cli' = cli /\ file' = file /\ errors' = errors /\ descriptors' = descriptors /\ gives' = gives
      /\ modules' = modules /\ schemas' = schemas /\ prepPhase = "loaded"
  BY DEF Prepare!Revalidate
<1>3. Merged' = Merged /\ Prepare!PluginModules' = Prepare!PluginModules /\ Supplied' = Supplied
  BY <1>2 DEF Merged, Supplied, Prepare!PluginModules, Prepare!GivesPlugins
<1>4. /\ AreSettings(cli)' /\ AreSettings(file)' /\ errors' \in SUBSET Prepare!SchemaErrors
      /\ descriptors' \in Seq(Words)
  BY <1>2 DEF PrepareInv, AreSettings
<1>5. /\ prepOptions' = Prepare!Validated(Merged)'
      /\ Prepare!RelevantErrors(errors)' = {} /\ Prepare!CustomErrors(prepOptions)' = {}
      /\ modules' = Prepare!Filter(Prepare!PluginModules, Supplied)'
  BY <1>1, <1>2, <1>3 DEF PrepareInv
<1> DEFINE bad == "a" \in schemas /\ Prepare!Has(prepOptions, "runner.option") /\ prepOptions["runner.option"] = "wrong"
           wrong == IF bad THEN {[path |-> <<"runner.option">>, keyword |-> "type"]} ELSE {}
           stop == Prepare!ErrorsOf(prepOptions, wrong)
<1>6. shown' = stop /\ prepPhase' = IF stop = {} THEN "frozen" ELSE "failed"
  BY DEF Prepare!Revalidate
<1>7. CASE stop # {}
  BY <1>4, <1>6, <1>7 DEF PrepareInv
<1>8. CASE stop = {}
  <2>1. ~bad
    <3> SUFFICES ASSUME bad PROVE FALSE
      OBVIOUS
    <3> DEFINE e == [path |-> <<"runner.option">>, keyword |-> "type"]
    <3>1. wrong = {e} /\ e.keyword = "type"
      OBVIOUS
    <3>2. Prepare!RelevantErrors(wrong) = {}
      BY <1>8 DEF Prepare!ErrorsOf
    <3>3. Prepare!IsUnder(e.path, e.path) \in BOOLEAN
      BY DEF Prepare!IsUnder, Prepare!IsPrefix
    <3> HIDE DEF e, wrong, bad
    <3> QED BY <3>1, <3>2, <3>3, TheOneIsRelevant
  <2>2. ASSUME "a" \in schemas, "runner.option" \in DOMAIN prepOptions PROVE prepOptions["runner.option"] = "right"
    <3>1. PICK o : o = Merged
      OBVIOUS
    <3>2. prepOptions = Prepare!Validated(o)
      BY <1>2, <3>1 DEF PrepareInv
    <3>3. "runner.option" \in DOMAIN o /\ prepOptions["runner.option"] = o["runner.option"]
      BY <2>2, <3>2, ValidatedFacts
    <3>4. <<"runner.option", o["runner.option"]>> \in Prepare!Values
      <4> DEFINE u == Prepare!Over(cli, file)
      <4>1. /\ DOMAIN u = DOMAIN cli \cup DOMAIN file
            /\ \A s \in DOMAIN cli : u[s] = cli[s]
            /\ \A s \in DOMAIN file \ DOMAIN cli : u[s] = file[s]
        BY OverFacts
      <4>2. o = u
        BY <3>1 DEF Merged
      <4> HIDE DEF u
      <4>3. AreSettings(cli) /\ AreSettings(file)
        BY DEF PrepareInv
      <4>4. CASE "runner.option" \in DOMAIN cli
        BY <4>1, <4>2, <4>3, <4>4 DEF AreSettings
      <4>5. CASE "runner.option" \notin DOMAIN cli
        <5>1. "runner.option" \in DOMAIN file /\ o["runner.option"] = file["runner.option"]
          BY <3>3, <4>1, <4>2, <4>5
        <5> QED BY <4>3, <5>1 DEF AreSettings
      <4> QED BY <4>4, <4>5
    <3>5. o["runner.option"] \in {"right", "wrong"}
      BY <3>4 DEF Prepare!Values
    <3> QED BY <2>1, <2>2, <3>3, <3>5 DEF Prepare!Has
  <2>3. prepPhase' = "frozen"
    BY <1>6, <1>8
  <2> HIDE DEF stop
  <2> QED BY <1>1, <1>2, <1>4, <1>5, <2>2, <2>3 DEF PrepareInv
<1> QED BY <1>7, <1>8

LEMMA PrepareKeeps == PrepareInv /\ [Prepare!Next]_prepareVars => PrepareInv'
BY PrepareStutter, ConfigureKeeps, ReadConfigKeeps, LoadingKeeps, RevalidateKeeps DEF Prepare!Next

\* What the invariant says once the options are there.
LEMMA OptionsAreValid == PrepareInv => Prepare!FrozenOptionsAreValid
<1> SUFFICES ASSUME PrepareInv, prepPhase = "frozen"
             PROVE  /\ DOMAIN prepOptions \cap Prepare!Deprecated = {} /\ DOMAIN Prepare!Defaults \subseteq DOMAIN prepOptions
                    /\ Prepare!CustomErrors(prepOptions) = {}
                    /\ "a" \in schemas /\ Prepare!Has(prepOptions, "runner.option") => prepOptions["runner.option"] = "right"
  BY DEF Prepare!FrozenOptionsAreValid
<1>1. PICK o : o = Merged
  OBVIOUS
<1>2. prepOptions = Prepare!Validated(o) /\ Prepare!CustomErrors(prepOptions) = {}
  BY <1>1 DEF PrepareInv
<1>3. DOMAIN prepOptions \cap Prepare!Deprecated = {} /\ DefaultSettings \subseteq DOMAIN prepOptions
  BY <1>2, ValidatedFacts
<1>4. "a" \in schemas /\ Prepare!Has(prepOptions, "runner.option") => prepOptions["runner.option"] = "right"
  BY DEF PrepareInv, Prepare!Has
<1> QED BY <1>2, <1>3, <1>4, DefaultFacts

\* The end of a sequence is a suffix of it.
LEMMA EndIsSuffix ==
  ASSUME NEW S, NEW a \in Seq(S), NEW b \in Seq(S)
  PROVE  Prepare!IsSuffix(b, a \o b)
<1>1. PICK t \in Seq(S) : t = a \o b
  BY ConcatProperties
<1>2. PICK k \in Nat, n \in Nat : k = Len(a) /\ n = Len(b)
  OBVIOUS
<1>3. Len(t) = k + n /\ \A i \in 1..(k + n) : t[i] = IF i <= k THEN a[i] ELSE b[i - k]
  BY <1>1, <1>2, ConcatProperties
<1> DEFINE q == [i \in 1..n |-> b[(n - i) + 1]]
           r == [i \in 1..(k + n) |-> t[((k + n) - i) + 1]]
<1>4. Prepare!Reverse(b) = q /\ Prepare!Reverse(t) = r
  BY <1>2, <1>3 DEF Prepare!Reverse
<1>5. q \in Seq(S) /\ Len(q) = n
  <2>1. \A i \in 1..n : b[(n - i) + 1] \in S
    BY <1>2
  <2>2. q \in [1..n -> S]
    BY <2>1
  <2> QED BY <2>2
<1>6. r \in Seq(S) /\ Len(r) = k + n
  <2>1. \A i \in 1..(k + n) : t[((k + n) - i) + 1] \in S
    BY <1>3
  <2>2. r \in [1..(k + n) -> S]
    BY <2>1
  <2> QED BY <2>2
<1>7. \A i \in 1..n : q[i] = r[i]
  <2> SUFFICES ASSUME NEW i \in 1..n PROVE q[i] = r[i]
    OBVIOUS
  <2>1. i \in 1..(k + n) /\ ((k + n) - i) + 1 \in 1..(k + n) /\ ~(((k + n) - i) + 1 <= k)
    OBVIOUS
  <2>2. t[((k + n) - i) + 1] = b[(((k + n) - i) + 1) - k]
    BY <1>3, <2>1
  <2>3. (((k + n) - i) + 1) - k = (n - i) + 1
    OBVIOUS
  <2> QED BY <2>1, <2>2, <2>3
<1> HIDE DEF q, r
<1>8. SubSeq(q, 1, n) = SubSeq(r, 1, n)
  <2>1. \A i \in 1..n : q[i] \in S /\ r[i] \in S
    BY <1>5, <1>6
  <2>2. PICK x \in Seq(S) : x = SubSeq(q, 1, n) /\ Len(x) = n /\ \A i \in 1..n : x[i] = q[i]
    <3>1. /\ SubSeq(q, 1, n) \in Seq(S)
          /\ Len(SubSeq(q, 1, n)) = IF 1 <= n THEN n - 1 + 1 ELSE 0
          /\ \A i \in 1..(n - 1 + 1) : SubSeq(q, 1, n)[i] = q[1 + i - 1]
      BY <2>1, SubSeqProperties
    <3>2. n - 1 + 1 = n /\ (IF 1 <= n THEN n - 1 + 1 ELSE 0) = n /\ \A i \in 1..n : 1 + i - 1 = i
      OBVIOUS
    <3> QED BY <3>1, <3>2
  <2>3. PICK y \in Seq(S) : y = SubSeq(r, 1, n) /\ Len(y) = n /\ \A i \in 1..n : y[i] = r[i]
    <3>1. /\ SubSeq(r, 1, n) \in Seq(S)
          /\ Len(SubSeq(r, 1, n)) = IF 1 <= n THEN n - 1 + 1 ELSE 0
          /\ \A i \in 1..(n - 1 + 1) : SubSeq(r, 1, n)[i] = r[1 + i - 1]
      BY <2>1, SubSeqProperties
    <3>2. n - 1 + 1 = n /\ (IF 1 <= n THEN n - 1 + 1 ELSE 0) = n /\ \A i \in 1..n : 1 + i - 1 = i
      OBVIOUS
    <3> QED BY <3>1, <3>2
  <2>4. x = y
    BY <1>7, <2>2, <2>3, SeqEqual
  <2> QED BY <2>2, <2>3, <2>4
<1>9. n <= k + n
  OBVIOUS
<1> QED BY <1>1, <1>4, <1>5, <1>6, <1>8, <1>9 DEF Prepare!IsSuffix, Prepare!IsPrefix

LEMMA CommandLineHasTheLastWord == PrepareInv => Prepare!CommandLineWins
<1> SUFFICES ASSUME PrepareInv, prepPhase \in {"loading", "loaded", "frozen"}
             PROVE  /\ \A s \in DOMAIN cli \ Prepare!Deprecated :
                         \/ prepOptions[s] = cli[s]
                         \/ s = "disableBail" /\ Prepare!Has(Merged, "jest.enableBail")
                         \/ s = "ignorePatterns" /\ Prepare!Has(Merged, "files") /\ Prepare!IsSuffix(cli[s], prepOptions[s])
                    /\ \A s \in DOMAIN Prepare!Defaults \ DOMAIN Merged :
                         prepOptions[s] = Prepare!Defaults[s] \/ (s = "disableBail" /\ Prepare!Has(Merged, "jest.enableBail"))
                                                  \/ (s = "ignorePatterns" /\ Prepare!Has(Merged, "files"))
  BY DEF Prepare!CommandLineWins, Merged
<1>1. DOMAIN cli \subseteq DOMAIN Merged /\ \A s \in DOMAIN cli : Merged[s] = cli[s]
  BY OverFacts DEF Merged
<1>2. PICK o : o = Merged
  OBVIOUS
<1>3. prepOptions = Prepare!Validated(o)
  BY <1>2 DEF PrepareInv
<1>4. /\ \A s \in DOMAIN o \ Prepare!Deprecated :
           \/ prepOptions[s] = o[s]
           \/ s = "disableBail" /\ "jest.enableBail" \in DOMAIN o
           \/ s = "ignorePatterns" /\ "files" \in DOMAIN o /\ prepOptions[s] = <<"**", "!src">> \o o[s]
      /\ \A s \in DefaultSettings \ DOMAIN o :
           \/ prepOptions[s] = Prepare!Defaults[s]
           \/ s = "disableBail" /\ "jest.enableBail" \in DOMAIN o
           \/ s = "ignorePatterns" /\ "files" \in DOMAIN o
  BY <1>3, ValidatedFacts
<1>5. ASSUME NEW s \in DOMAIN cli \ Prepare!Deprecated
      PROVE  \/ prepOptions[s] = cli[s]
             \/ s = "disableBail" /\ Prepare!Has(o, "jest.enableBail")
             \/ s = "ignorePatterns" /\ Prepare!Has(o, "files") /\ Prepare!IsSuffix(cli[s], prepOptions[s])
  <2>1. s \in DOMAIN o \ Prepare!Deprecated /\ o[s] = cli[s]
    BY <1>1, <1>2
  <2>2. CASE prepOptions[s] = o[s] \/ (s = "disableBail" /\ "jest.enableBail" \in DOMAIN o)
    BY <2>1, <2>2 DEF Prepare!Has
  <2>3. CASE s = "ignorePatterns" /\ "files" \in DOMAIN o /\ prepOptions[s] = <<"**", "!src">> \o o[s]
    <3>1. <<"ignorePatterns", cli["ignorePatterns"]>> \in Prepare!Values
      BY <2>3 DEF PrepareInv, AreSettings
    <3>2. cli["ignorePatterns"] = <<"dist">>
      BY <3>1 DEF Prepare!Values
    <3>3. prepOptions[s] = <<"**", "!src">> \o <<"dist">> /\ cli[s] = <<"dist">>
      BY <2>1, <2>3, <3>2
    <3>4. Prepare!IsSuffix(cli[s], prepOptions[s])
      <4>1. <<"**", "!src">> \in Seq({"**", "!src", "dist"})
        OBVIOUS
      <4>2. <<"dist">> \in Seq({"**", "!src", "dist"})
        OBVIOUS
      <4> QED BY <3>3, <4>1, <4>2, EndIsSuffix
    <3> QED BY <2>3, <3>4 DEF Prepare!Has
  <2> QED BY <1>4, <2>1, <2>2, <2>3
<1>6. \A s \in DOMAIN Prepare!Defaults \ DOMAIN o :
        prepOptions[s] = Prepare!Defaults[s] \/ (s = "disableBail" /\ Prepare!Has(o, "jest.enableBail"))
                                 \/ (s = "ignorePatterns" /\ Prepare!Has(o, "files"))
  BY <1>4, DefaultFacts DEF Prepare!Has
<1> QED BY <1>2, <1>5, <1>6

LEMMA ErrorsAreShown == PrepareInv => Prepare!AnErrorIsShown
<1> SUFFICES ASSUME PrepareInv PROVE Prepare!AnErrorIsShown
  OBVIOUS
<1>1. prepPhase = "failed" => shown # {}
  BY DEF PrepareInv
<1>2. ASSUME prepPhase \in {"loading", "loaded", "frozen"} PROVE \A e \in errors : e.keyword = "anyOf"
  <2>1. PICK all : all = errors
    OBVIOUS
  <2>2. all \in SUBSET Prepare!SchemaErrors /\ Prepare!RelevantErrors(all) = {}
    BY <1>2, <2>1 DEF PrepareInv
  <2> QED BY <2>1, <2>2, SomethingIsRelevant
<1> QED BY <1>1, <1>2 DEF Prepare!AnErrorIsShown

LEMMA FirstPluginWins == PrepareInv => Prepare!FirstDescriptorWins
<1> DEFINE giving == {i \in DOMAIN Prepare!PluginModules : Prepare!GivesPlugins(Prepare!PluginModules[i])}
           first  == CHOOSE i \in giving : \A j \in giving : i <= j
<1> SUFFICES ASSUME PrepareInv, prepPhase \in {"loaded", "frozen"}
             PROVE  Prepare!FoundIn(modules) = IF giving = {} THEN "error" ELSE Prepare!PluginModules[first]
  BY DEF Prepare!FirstDescriptorWins
<1>1. PICK list : list = Prepare!PluginModules
  OBVIOUS
<1>2. list \in Seq(Words)
  BY <1>1, ModulesAreListed DEF PrepareInv
<1>3. Supplied = {m \in Prepare!Range(list) : Prepare!GivesPlugins(m)}
  BY <1>1 DEF Supplied
<1>4. giving = {i \in DOMAIN list : list[i] \in Supplied}
  <2>1. \A i \in DOMAIN list : list[i] \in Prepare!Range(list)
    BY DEF Prepare!Range
  <2> QED BY <1>1, <1>3, <2>1
<1>5. modules = Prepare!Filter(list, Supplied)
  BY <1>1 DEF PrepareInv
<1>6. /\ giving = {} => modules = << >>
      /\ \A p \in giving : (\A i \in giving : p <= i) => modules # << >> /\ Head(modules) = list[p]
  BY <1>2, <1>4, <1>5, FilterFacts
<1>7. giving # {} => first \in giving /\ \A j \in giving : first <= j
  <2>1. giving \subseteq Nat
    BY <1>2, <1>4
  <2> HIDE DEF giving
  <2>2. giving # {} => \E i \in giving : \A j \in giving : i <= j
    BY <2>1, LeastNatural
  <2> QED BY <2>2 DEF first
<1> HIDE DEF giving, first
<1> QED BY <1>1, <1>6, <1>7 DEF Prepare!FoundIn

-----------------------------------------------------------------------------
(* Files of a sandbox: paths *)

LEMMA PrefixFacts ==
  ASSUME NEW S, NEW a \in Seq(S), NEW b \in Seq(S)
  PROVE  Sandbox!IsPrefix(a, b) <=> Len(a) <= Len(b) /\ \A i \in 1..Len(a) : a[i] = b[i]
<1>1. Len(a) \in Nat /\ Len(b) \in Nat
  BY LenProperties
<1>2. CASE Len(a) <= Len(b)
  <2>1. ASSUME \A i \in 1..Len(a) : a[i] = b[i] PROVE SubSeq(a, 1, Len(a)) = SubSeq(b, 1, Len(a))
    BY <1>1, <1>2, <2>1, SameStart
  <2>2. ASSUME SubSeq(a, 1, Len(a)) = SubSeq(b, 1, Len(a)) PROVE \A i \in 1..Len(a) : a[i] = b[i]
    <3>1. Len(a) \in 0..Len(b)
      BY <1>1, <1>2
    <3>2. \A i \in 1..Len(a) : SubSeq(b, 1, Len(a))[i] = b[i]
      BY <3>1, FirstElements
    <3> QED BY <2>2, <3>2, WholeSequence
  <2> QED BY <1>2, <2>1, <2>2 DEF Sandbox!IsPrefix
<1>3. CASE ~(Len(a) <= Len(b))
  BY <1>3 DEF Sandbox!IsPrefix
<1> QED BY <1>2, <1>3

\* A sequence is the start of what it is put in front of.
LEMMA StartOfJoined ==
  ASSUME NEW S, NEW a \in Seq(S), NEW b \in Seq(S), NEW n \in 0..Len(a)
  PROVE  SubSeq(a \o b, 1, n) = SubSeq(a, 1, n) /\ Sandbox!IsPrefix(a, a \o b)
<1>0. PICK t : t = a \o b
  OBVIOUS
<1>1. /\ t \in Seq(S) /\ t = a \o b /\ Len(t) = Len(a) + Len(b)
      /\ \A i \in 1..(Len(a) + Len(b)) : t[i] = IF i <= Len(a) THEN a[i] ELSE b[i - Len(a)]
  BY <1>0, ConcatProperties
<1>2. PICK k \in Nat, m \in Nat : k = Len(a) /\ m = Len(b)
  BY LenProperties
<1>3. Len(t) = k + m /\ \A i \in 1..k : t[i] = a[i]
  <2>1. \A i \in 1..k : i \in 1..(k + m) /\ i <= k
    OBVIOUS
  <2> QED BY <1>1, <1>2, <2>1
<1>4. n \in Nat /\ n <= k /\ n <= k + m /\ k <= k + m
  BY <1>2
<1>5. \A i \in 1..n : i \in 1..k
  BY <1>4
<1>6. SubSeq(t, 1, n) = SubSeq(a, 1, n)
  BY <1>2, <1>3, <1>4, <1>5, SameStart
<1>7. Sandbox!IsPrefix(a, t)
  <2>1. Len(a) <= Len(t) /\ \A i \in 1..Len(a) : a[i] = t[i]
    BY <1>2, <1>3, <1>4
  <2>2. t \in Seq(S)
    BY <1>1
  <2> QED BY <2>1, <2>2, PrefixFacts
<1> QED BY <1>1, <1>6, <1>7

LEMMA RestOfJoined ==
  ASSUME NEW S, NEW a \in Seq(S), NEW b \in Seq(S)
  PROVE  SubSeq(a \o b, Len(a) + 1, Len(a \o b)) = b
<1>0. PICK t : t = a \o b
  OBVIOUS
<1>1. /\ t \in Seq(S) /\ t = a \o b /\ Len(t) = Len(a) + Len(b)
      /\ \A i \in 1..(Len(a) + Len(b)) : t[i] = IF i <= Len(a) THEN a[i] ELSE b[i - Len(a)]
  BY <1>0, ConcatProperties
<1>2. PICK k \in Nat, m \in Nat : k = Len(a) /\ m = Len(b)
  BY LenProperties
<1>3. Len(t) = k + m /\ \A i \in 1..m : (k + 1) + i - 1 \in 1..(k + m) /\ t[(k + 1) + i - 1] = b[i]
  <2>1. \A i \in 1..m : (k + 1) + i - 1 \in 1..(k + m) /\ ~((k + 1) + i - 1 <= k) /\ ((k + 1) + i - 1) - k = i
    OBVIOUS
  <2> QED BY <1>1, <1>2, <2>1
<1>4. \A i \in (k + 1)..(k + m) : t[i] \in S
  <2>1. t \in [1..(k + m) -> S]
    BY <1>1, <1>3, LenProperties
  <2>2. \A i \in (k + 1)..(k + m) : i \in 1..(k + m)
    OBVIOUS
  <2> QED BY <2>1, <2>2
<1>5. /\ SubSeq(t, k + 1, k + m) \in Seq(S)
      /\ Len(SubSeq(t, k + 1, k + m)) = IF k + 1 <= k + m THEN (k + m) - (k + 1) + 1 ELSE 0
      /\ \A i \in 1..((k + m) - (k + 1) + 1) : SubSeq(t, k + 1, k + m)[i] = t[(k + 1) + i - 1]
  <2>1. k + 1 \in Int /\ k + m \in Int
    OBVIOUS
  <2> QED BY <1>4, <2>1, SubSeqProperties
<1>6. (k + m) - (k + 1) + 1 = m /\ (IF k + 1 <= k + m THEN (k + m) - (k + 1) + 1 ELSE 0) = m
  OBVIOUS
<1>7. PICK x \in Seq(S) : x = SubSeq(t, k + 1, k + m) /\ Len(x) = m /\ \A i \in 1..m : x[i] = t[(k + 1) + i - 1]
  BY <1>5, <1>6
<1>8. x = b
  BY <1>2, <1>3, <1>7, SeqEqual
<1> QED BY <1>1, <1>2, <1>3, <1>7, <1>8

\* The elements of a finite set, one after the other.
LEMMA ListOfSet ==
  ASSUME NEW S, IsFiniteSet(S)
  PROVE  Sandbox!SetToSeq(S) \in Seq(S) /\ \A x \in S : \E i \in 1..Len(Sandbox!SetToSeq(S)) : Sandbox!SetToSeq(S)[i] = x
<1>0. Sandbox!Cardinality(S) = Cardinality(S)
  BY DEF Sandbox!Cardinality, Cardinality
<1>1. PICK n \in Nat : n = Cardinality(S)
  BY FS_CardinalityType
<1>2. \E f \in [1..n -> S] : Sandbox!IsInjective(f)
  <2>1. ExistsBijection(1..n, S)
    BY <1>1, FS_CardinalityType
  <2>2. PICK f : f \in Bijection(1..n, S)
    BY <2>1 DEF ExistsBijection
  <2>3. f \in [1..n -> S] /\ \A a, b \in 1..n : f[a] = f[b] => a = b
    BY <2>2 DEF Bijection, Injection, IsInjective
  <2> QED BY <2>3 DEF Sandbox!IsInjective
<1> DEFINE f == CHOOSE g \in [1..n -> S] : Sandbox!IsInjective(g)
<1>3. Sandbox!SetToSeq(S) = f
  BY <1>0, <1>1 DEF Sandbox!SetToSeq
<1>4. f \in [1..n -> S] /\ Sandbox!IsInjective(f)
  BY <1>2
<1> HIDE DEF f
<1>5. f \in Injection(1..n, S)
  BY <1>4 DEF Injection, IsInjective, Sandbox!IsInjective
<1>6. IsFiniteSet(1..n) /\ Cardinality(1..n) = n
  BY FS_Interval
<1>7. f \in Surjection(1..n, S)
  BY <1>1, <1>5, <1>6, FS_Injection
<1>8. \A x \in S : \E i \in 1..n : f[i] = x
  BY <1>7 DEF Surjection
<1>9. f \in Seq(S) /\ Len(f) = n
  BY <1>4
<1> QED BY <1>3, <1>8, <1>9

-----------------------------------------------------------------------------
(* Files of a sandbox: their contents *)

FileContents == {Sandbox!Undefined, {}, {"mutants"}, {"no type checks"}, {"mutants", "no type checks"}}

\* What was read has an original.
IsProjectFile(p) ==
  /\ p \in [current : FileContents, original : {Sandbox!Undefined, {}}]
  /\ p.current = Sandbox!Undefined <=> p.original = Sandbox!Undefined

Unchecked == {{"no type checks"}, {"mutants", "no type checks"}}

ContentsInv ==
  /\ matched \in [Sandbox!Names -> {"no", "parses", "does not parse"}]
  /\ DOMAIN projectFiles = Sandbox!Names /\ \A f \in Sandbox!Names : IsProjectFile(projectFiles[f])
  /\ fileStage \in {"mutate", "disable", "write", "done", "tsconfig", "link"}
  /\ fileStage = "mutate" => \A f \in Sandbox!Names : projectFiles[f].current = Sandbox!Undefined
  /\ fileStage = "disable" => \A f \in Sandbox!Names : projectFiles[f].current \notin Unchecked
  /\ fileStage \in {"write", "done"} =>
       \A f \in Sandbox!Names : projectFiles[f].current \in Unchecked <=> matched[f] = "parses"
  /\ fileStage = "done" =>
       \A f \in Sandbox!Names :
         /\ written[f] = Sandbox!Content(projectFiles[f])
         /\ backups[f] = IF inPlace /\ Sandbox!HasChanges(projectFiles[f]) THEN {} ELSE Sandbox!Undefined

\* Two values for what a set of words holds.
LEMMA ContentsDiffer ==
  /\ Sandbox!Undefined = {"undefined"}
  /\ \A x \in FileContents : x \in Unchecked <=> "no type checks" \in x
  /\ \A x \in FileContents : x = Sandbox!Undefined <=> "undefined" \in x
  /\ Sandbox!Undefined # {}
<1>1. Sandbox!Undefined = {"undefined"}
  BY DEF Sandbox!Undefined
<1>2. \A x \in FileContents : x \in Unchecked <=> "no type checks" \in x
  BY <1>1 DEF FileContents, Unchecked
<1>3. \A x \in FileContents : x = Sandbox!Undefined <=> "undefined" \in x
  BY <1>1 DEF FileContents
<1> QED BY <1>1, <1>2, <1>3

\* readContent and readOriginal.
LEMMA ReadFacts ==
  ASSUME NEW p, IsProjectFile(p)
  PROVE  LET r == Sandbox!Read(p)
         IN  /\ IsProjectFile(r) /\ r.original = {} /\ r.current # Sandbox!Undefined
             /\ r.current = IF p.current = Sandbox!Undefined THEN {} ELSE p.current
<1> DEFINE first == IF p.original = Sandbox!Undefined /\ p.current = Sandbox!Undefined THEN {} ELSE p.original
           now   == IF p.current = Sandbox!Undefined THEN first ELSE p.current
           r     == [original |-> first, current |-> now]
<1>1. Sandbox!Read(p) = r
  BY DEF Sandbox!Read
<1>2. p.current \in FileContents /\ p.original \in {Sandbox!Undefined, {}}
      /\ (p.current = Sandbox!Undefined <=> p.original = Sandbox!Undefined)
  BY DEF IsProjectFile
<1>3. first = {}
  BY <1>2
<1>4. now = IF p.current = Sandbox!Undefined THEN {} ELSE p.current
  BY <1>3
<1>5. now \in FileContents /\ now # Sandbox!Undefined
  BY <1>2, <1>4, ContentsDiffer DEF FileContents
<1> HIDE DEF first, now
<1>6. r.original = {} /\ r.current = now /\ r \in [current : FileContents, original : {Sandbox!Undefined, {}}]
  BY <1>3, <1>5
<1>7. IsProjectFile(r)
  BY <1>5, <1>6, ContentsDiffer DEF IsProjectFile
<1> HIDE DEF r
<1> QED BY <1>1, <1>4, <1>5, <1>6, <1>7

\* A file is read and its content is set.
LEMMA ChangedFacts ==
  ASSUME NEW p, IsProjectFile(p), NEW change \in {"mutants", "no type checks"}
  PROVE  LET q == Sandbox!Changed(p, change)
         IN  /\ IsProjectFile(q) /\ change \in q.current
             /\ "no type checks" \in q.current <=> change = "no type checks" \/ p.current \in Unchecked
<1> DEFINE r == Sandbox!Read(p)
           content == r.current \cup {change}
           q == Sandbox!Changed(p, change)
<1>1. /\ IsProjectFile(r) /\ r.original = {} /\ r.current # Sandbox!Undefined
      /\ r.current = IF p.current = Sandbox!Undefined THEN {} ELSE p.current
  BY ReadFacts
<1>2. q = [r EXCEPT !.current = content]
  BY DEF Sandbox!Changed, Sandbox!SetContent
<1> HIDE DEF r, q
<1>3. r \in [current : FileContents, original : {Sandbox!Undefined, {}}]
  BY <1>1 DEF IsProjectFile
<1>4. content \in FileContents /\ content # Sandbox!Undefined
  <2>1. PICK c \in FileContents : c = r.current
    BY <1>3
  <2>2. c \in {{}, {"mutants"}, {"no type checks"}, {"mutants", "no type checks"}}
    BY <1>1, <2>1 DEF FileContents
  <2>3. c \cup {change} \in {{"mutants"}, {"no type checks"}, {"mutants", "no type checks"}}
    BY <2>2
  <2> QED BY <2>1, <2>3, ContentsDiffer DEF FileContents
<1>5. "no type checks" \in r.current <=> p.current \in Unchecked
  <2>1. p.current \in FileContents
    BY DEF IsProjectFile
  <2>2. "no type checks" \notin Sandbox!Undefined
    BY ContentsDiffer
  <2> QED BY <1>1, <2>1, <2>2, ContentsDiffer
<1>6. q.current = content /\ q.original = {} /\ q \in [current : FileContents, original : {Sandbox!Undefined, {}}]
  <2> HIDE DEF content
  <2> QED BY <1>1, <1>2, <1>3, <1>4
<1>7. IsProjectFile(q)
  BY <1>4, <1>6, ContentsDiffer DEF IsProjectFile
<1>8. change \in q.current /\ ("no type checks" \in q.current <=> change = "no type checks" \/ "no type checks" \in r.current)
  BY <1>6
<1> QED BY <1>5, <1>7, <1>8 DEF q

LEMMA ContentsInit == Sandbox!Init => ContentsInv
<1> SUFFICES ASSUME Sandbox!Init PROVE ContentsInv
  OBVIOUS
<1>1. projectFiles = [f \in Sandbox!Names |-> [current |-> Sandbox!Undefined, original |-> Sandbox!Undefined]]
  BY DEF Sandbox!Init
<1>2. fileStage \in {"mutate", "tsconfig", "link"}
  BY DEF Sandbox!Init
<1>3. matched \in [Sandbox!Names -> {"no", "parses", "does not parse"}]
  <2>1. [f \in Sandbox!Names |-> "no"] \in [Sandbox!Names -> {"no", "parses", "does not parse"}]
    OBVIOUS
  <2>2. matched \in Sandbox!Matchings
    BY DEF Sandbox!Init
  <2>3. CASE sandboxStudy = "contents"
    <3>1. Sandbox!Matchings = [Sandbox!Names -> {"no", "parses", "does not parse"}]
      BY <2>3 DEF Sandbox!Matchings
    <3> QED BY <2>2, <3>1
  <2>4. CASE sandboxStudy # "contents"
    <3>1. Sandbox!Matchings = {[f \in Sandbox!Names |-> "no"]}
      BY <2>4 DEF Sandbox!Matchings
    <3> QED BY <2>1, <2>2, <3>1
  <2> QED BY <2>3, <2>4
<1>4. \A f \in Sandbox!Names : IsProjectFile(projectFiles[f]) /\ projectFiles[f].current = Sandbox!Undefined
  BY <1>1 DEF IsProjectFile, FileContents
<1>5. DOMAIN projectFiles = Sandbox!Names
  BY <1>1
<1> QED BY <1>2, <1>3, <1>4, <1>5 DEF ContentsInv

LEMMA MutateKeepsContents == ContentsInv /\ Sandbox!Mutate => ContentsInv'
<1> SUFFICES ASSUME ContentsInv, Sandbox!Mutate PROVE ContentsInv'
  OBVIOUS
<1>1. PICK mutants \in BOOLEAN, differ \in BOOLEAN :
        projectFiles' = [f \in Sandbox!Names |->
          IF f = "mutate.ts" THEN (IF mutants THEN Sandbox!Changed(projectFiles[f], "mutants") ELSE Sandbox!Read(projectFiles[f]))
          ELSE IF differ THEN Sandbox!Read(projectFiles[f]) ELSE projectFiles[f]]
  BY DEF Sandbox!Mutate
<1>2. fileStage = "mutate" /\ fileStage' = "disable" /\ matched' = matched
  BY DEF Sandbox!Mutate
<1>3. ASSUME NEW f \in Sandbox!Names
      PROVE  IsProjectFile(projectFiles'[f]) /\ projectFiles'[f].current \notin Unchecked
  <2>1. PICK p : p = projectFiles[f] /\ IsProjectFile(p) /\ p.current = Sandbox!Undefined
    BY <1>2 DEF ContentsInv
  <2>2. PICK q : q = projectFiles'[f]
    OBVIOUS
  <2>3. q \in {Sandbox!Changed(p, "mutants"), Sandbox!Read(p), p}
    BY <1>1, <2>1, <2>2
  <2>4. p.current \in FileContents /\ p.current \notin Unchecked
    BY <2>1, ContentsDiffer DEF IsProjectFile
  <2>5. CASE q = Sandbox!Changed(p, "mutants")
    <3>1. IsProjectFile(q) /\ "no type checks" \notin q.current
      BY <2>1, <2>4, <2>5, ChangedFacts
    <3> QED BY <2>2, <3>1, ContentsDiffer DEF IsProjectFile
  <2>6. CASE q = Sandbox!Read(p)
    <3>1. IsProjectFile(q) /\ q.current = {}
      BY <2>1, <2>6, ReadFacts
    <3> QED BY <2>2, <3>1 DEF Unchecked
  <2>7. CASE q = p
    BY <2>1, <2>2, <2>4, <2>7
  <2> QED BY <2>3, <2>5, <2>6, <2>7
<1>4. DOMAIN projectFiles' = Sandbox!Names
  BY <1>1
<1> QED BY <1>2, <1>3, <1>4 DEF ContentsInv

LEMMA DisableKeepsContents == ContentsInv /\ Sandbox!DisableTypeChecks => ContentsInv'
<1> SUFFICES ASSUME ContentsInv, Sandbox!DisableTypeChecks PROVE ContentsInv'
  OBVIOUS
<1>1. projectFiles' = [f \in Sandbox!Names |->
        CASE matched[f] = "no" -> projectFiles[f]
          [] matched[f] = "parses" -> Sandbox!Changed(projectFiles[f], "no type checks")
          [] OTHER -> Sandbox!Read(projectFiles[f])]
  BY DEF Sandbox!DisableTypeChecks
<1>2. fileStage = "disable" /\ fileStage' = "write" /\ matched' = matched
  BY DEF Sandbox!DisableTypeChecks
<1>3. ASSUME NEW f \in Sandbox!Names
      PROVE  IsProjectFile(projectFiles'[f]) /\ (projectFiles'[f].current \in Unchecked <=> matched[f] = "parses")
  <2>1. PICK p : p = projectFiles[f] /\ IsProjectFile(p) /\ p.current \notin Unchecked
    BY <1>2 DEF ContentsInv
  <2>2. PICK q : q = projectFiles'[f]
    OBVIOUS
  <2>3. matched[f] \in {"no", "parses", "does not parse"}
    BY DEF ContentsInv
  <2>4. q = CASE matched[f] = "no" -> p
              [] matched[f] = "parses" -> Sandbox!Changed(p, "no type checks")
              [] OTHER -> Sandbox!Read(p)
    BY <1>1, <2>1, <2>2
  <2>5. CASE matched[f] = "no"
    BY <2>1, <2>2, <2>4, <2>5
  <2>6. CASE matched[f] = "parses"
    <3>1. q = Sandbox!Changed(p, "no type checks")
      BY <2>4, <2>6
    <3>2. IsProjectFile(q) /\ "no type checks" \in q.current
      BY <2>1, <3>1, ChangedFacts
    <3> QED BY <2>2, <2>6, <3>2, ContentsDiffer DEF IsProjectFile
  <2>7. CASE matched[f] = "does not parse"
    <3>1. q = Sandbox!Read(p)
      BY <2>4, <2>7
    <3>2. IsProjectFile(q) /\ q.current = IF p.current = Sandbox!Undefined THEN {} ELSE p.current
      BY <2>1, <3>1, ReadFacts
    <3>3. q.current \notin Unchecked
      BY <2>1, <3>2 DEF Unchecked
    <3> QED BY <2>2, <2>7, <3>2, <3>3
  <2> QED BY <2>3, <2>5, <2>6, <2>7
<1>4. DOMAIN projectFiles' = Sandbox!Names
  BY <1>1
<1> QED BY <1>2, <1>3, <1>4 DEF ContentsInv

\* What was never read is copied; so is, in a sandbox, what did not change.
LEMMA SandboxFileKeepsContents == ContentsInv /\ Sandbox!SandboxFile => ContentsInv'
<1> SUFFICES ASSUME ContentsInv, Sandbox!SandboxFile PROVE ContentsInv'
  OBVIOUS
<1>1. /\ written' = [f \in Sandbox!Names |->
           IF ~inPlace THEN Sandbox!Content(projectFiles[f])
           ELSE IF Sandbox!HasChanges(projectFiles[f]) THEN Sandbox!Content(projectFiles[f]) ELSE {}]
      /\ backups' = [f \in Sandbox!Names |->
           IF inPlace /\ Sandbox!HasChanges(projectFiles[f]) THEN Sandbox!Backup(projectFiles[f]) ELSE Sandbox!Undefined]
  BY DEF Sandbox!SandboxFile
<1>2. /\ fileStage = "write" /\ fileStage' = "done" /\ matched' = matched /\ projectFiles' = projectFiles
      /\ inPlace' = inPlace
  BY DEF Sandbox!SandboxFile
<1>3. ASSUME NEW f \in Sandbox!Names
      PROVE  /\ written'[f] = Sandbox!Content(projectFiles[f])
             /\ backups'[f] = IF inPlace /\ Sandbox!HasChanges(projectFiles[f]) THEN {} ELSE Sandbox!Undefined
  <2>1. PICK p : p = projectFiles[f] /\ IsProjectFile(p)
    BY DEF ContentsInv
  <2>2. p.original \in {Sandbox!Undefined, {}} /\ (p.current = Sandbox!Undefined <=> p.original = Sandbox!Undefined)
    BY <2>1 DEF IsProjectFile
  <2>3. ~Sandbox!HasChanges(p) => Sandbox!Content(p) = {}
    BY <2>2 DEF Sandbox!HasChanges, Sandbox!Content
  <2>4. Sandbox!HasChanges(p) => Sandbox!Backup(p) = {}
    BY <2>2 DEF Sandbox!HasChanges, Sandbox!Backup
  <2>5. written'[f] = IF ~inPlace THEN Sandbox!Content(p) ELSE IF Sandbox!HasChanges(p) THEN Sandbox!Content(p) ELSE {}
    BY <1>1, <2>1
  <2>6. backups'[f] = IF inPlace /\ Sandbox!HasChanges(p) THEN Sandbox!Backup(p) ELSE Sandbox!Undefined
    BY <1>1, <2>1
  <2> QED BY <2>1, <2>3, <2>4, <2>5, <2>6
<1>4. \A f \in Sandbox!Names : projectFiles[f].current \in Unchecked <=> matched[f] = "parses"
  BY <1>2 DEF ContentsInv
<1>5. /\ matched \in [Sandbox!Names -> {"no", "parses", "does not parse"}]
      /\ DOMAIN projectFiles = Sandbox!Names /\ \A f \in Sandbox!Names : IsProjectFile(projectFiles[f])
  BY DEF ContentsInv
<1> QED BY <1>2, <1>3, <1>4, <1>5 DEF ContentsInv

LEMMA ContentsSteps == ContentsInv /\ [Sandbox!Next]_sandboxVars => ContentsInv'
<1> SUFFICES ASSUME ContentsInv, [Sandbox!Next]_sandboxVars PROVE ContentsInv'
  OBVIOUS
<1>1. CASE \/ UNCHANGED sandboxVars \/ Sandbox!RewriteTSConfigFile \/ Sandbox!FindNodeModules
  <2>1. /\ matched' = matched /\ projectFiles' = projectFiles /\ fileStage' = fileStage /\ written' = written
        /\ backups' = backups /\ inPlace' = inPlace
    BY <1>1 DEF sandboxVars, Sandbox!RewriteTSConfigFile, Sandbox!FindNodeModules
  <2> QED BY <2>1 DEF ContentsInv
<1>2. CASE Sandbox!Mutate \/ Sandbox!DisableTypeChecks \/ Sandbox!SandboxFile
  BY <1>2, MutateKeepsContents, DisableKeepsContents, SandboxFileKeepsContents
<1> QED BY <1>1, <1>2 DEF Sandbox!Next

LEMMA ContentsImplies == ContentsInv => Sandbox!ContentsAreRight
<1> SUFFICES ASSUME ContentsInv, fileStage = "done", NEW f \in Sandbox!Names
             PROVE  /\ written[f] \ {"mutants"} = IF matched[f] = "parses" THEN {"no type checks"} ELSE {}
                    /\ "mutants" \in projectFiles[f].current \ Sandbox!Undefined <=> "mutants" \in written[f]
                    /\ inPlace /\ written[f] # {} => backups[f] = {}
                    /\ backups[f] = Sandbox!Undefined \/ written[f] # {}
  BY DEF Sandbox!ContentsAreRight
<1>1. PICK p : p = projectFiles[f] /\ IsProjectFile(p)
  BY DEF ContentsInv
<1>2. PICK c \in FileContents : c = p.current
  BY <1>1 DEF IsProjectFile
<1>3. PICK w : w = IF c = Sandbox!Undefined THEN {} ELSE c
  OBVIOUS
<1>4. written[f] = w
  BY <1>1, <1>2, <1>3 DEF ContentsInv, Sandbox!Content
<1>5. c \in Unchecked <=> matched[f] = "parses"
  BY <1>1, <1>2 DEF ContentsInv
<1>6. w \in {{}, {"mutants"}, {"no type checks"}, {"mutants", "no type checks"}} /\ (w \in Unchecked <=> c \in Unchecked)
  BY <1>2, <1>3, ContentsDiffer DEF FileContents, Unchecked
<1>7. w \ {"mutants"} = IF matched[f] = "parses" THEN {"no type checks"} ELSE {}
  <2>1. CASE w \in Unchecked
    BY <1>5, <1>6, <2>1 DEF Unchecked
  <2>2. CASE w \notin Unchecked
    BY <1>5, <1>6, <2>2 DEF Unchecked
  <2> QED BY <2>1, <2>2
<1>8. "mutants" \in c \ Sandbox!Undefined <=> "mutants" \in w
  BY <1>3, ContentsDiffer
<1>9. backups[f] = IF inPlace /\ c # p.original THEN {} ELSE Sandbox!Undefined
  BY <1>1, <1>2 DEF ContentsInv, Sandbox!HasChanges
<1>10. w # {} <=> c # p.original
  <2>1. p.original \in {Sandbox!Undefined, {}} /\ (c = Sandbox!Undefined <=> p.original = Sandbox!Undefined)
    BY <1>1, <1>2 DEF IsProjectFile
  <2> QED BY <1>3, <2>1, ContentsDiffer
<1> QED BY <1>1, <1>2, <1>4, <1>7, <1>8, <1>9, <1>10

-----------------------------------------------------------------------------
(* Files of a sandbox: references *)

PathNames == {"home", "project", "lib", "tsconfig", "missing", "shared", "etc", "tmp", "sandbox", "build"}

\* What is visited is the first file or what another one refers to.
Visits == {Sandbox!RootConfig} \cup {Sandbox!Resolve(Sandbox!Parent(u.in), u.ref) : u \in uses}

Awaiting == {stack[i] : i \in DOMAIN stack}

\* What a visited file refers to is visited or waits; its own references have
\* been rewritten.
ReferencesInv ==
  /\ uses \subseteq Sandbox!Uses /\ IsFiniteSet(uses)
  /\ tempDirName \in {<<"tmp">>, <<"build", "tmp">>}
  /\ stack \in Seq(Visits)
  /\ \A config \in Sandbox!ConfigFiles \cap touched :
       Sandbox!Follows(config) \cap Sandbox!ConfigFiles \subseteq touched \cup Awaiting
  /\ \A u \in uses : u.in \in touched => Sandbox!Rewrite(u) \in rewritten

LEMMA ReferencesInit == Sandbox!Init => ReferencesInv
<1> SUFFICES ASSUME Sandbox!Init PROVE ReferencesInv
  OBVIOUS
<1>1. uses \in {{u, v} : u \in Sandbox!Uses, v \in Sandbox!Uses} \/ uses = {}
  <2>1. uses \in (IF sandboxStudy = "tsconfig" THEN {{u, v} : u \in Sandbox!Uses, v \in Sandbox!Uses} ELSE {{}})
    BY DEF Sandbox!Init
  <2> QED BY <2>1
<1>2. uses \subseteq Sandbox!Uses
  BY <1>1
<1>3. IsFiniteSet(uses)
  <2>1. \A u, v : IsFiniteSet({u, v})
    <3> SUFFICES ASSUME NEW u, NEW v PROVE IsFiniteSet({u, v})
      OBVIOUS
    <3>1. IsFiniteSet({u}) /\ IsFiniteSet({v})
      BY FS_Singleton
    <3>2. IsFiniteSet({u} \cup {v})
      BY <3>1, FS_Union
    <3>3. {u} \cup {v} = {u, v}
      OBVIOUS
    <3> QED BY <3>2, <3>3
  <2> QED BY <1>1, <2>1, FS_EmptySet
<1>4. tempDirName \in {<<"tmp">>, <<"build", "tmp">>}
  <2>1. tempDirName \in (IF sandboxStudy = "contents" THEN {<<"tmp">>} ELSE {<<"tmp">>, <<"build", "tmp">>})
    BY DEF Sandbox!Init
  <2> QED BY <2>1
<1>5. stack = <<Sandbox!RootConfig>> /\ touched = {}
  BY DEF Sandbox!Init
<1>6. stack \in Seq(Visits)
  <2>1. PICK root \in Visits : root = Sandbox!RootConfig
    BY DEF Visits
  <2> HIDE DEF Visits
  <2>2. <<root>> \in Seq(Visits)
    OBVIOUS
  <2> QED BY <1>5, <2>1, <2>2
<1> QED BY <1>2, <1>3, <1>4, <1>5, <1>6 DEF ReferencesInv

\* The configurations are in the project.
LEMMA ConfigsAreInside ==
  /\ Sandbox!Cwd \in Seq(PathNames) /\ Len(Sandbox!Cwd) = 2
  /\ \A config \in Sandbox!ConfigFiles : ~Sandbox!Outside(config)
<1>1. Sandbox!Cwd \in Seq(PathNames)
  <2>1. "home" \in PathNames /\ "project" \in PathNames
    BY DEF PathNames
  <2> HIDE DEF PathNames
  <2> QED BY <2>1 DEF Sandbox!Cwd
<1>2. Len(Sandbox!Cwd) = 2
  BY DEF Sandbox!Cwd
<1>3. <<"tsconfig">> \in Seq(PathNames) /\ <<"lib", "tsconfig">> \in Seq(PathNames)
  <2>1. "tsconfig" \in PathNames /\ "lib" \in PathNames
    BY DEF PathNames
  <2> HIDE DEF PathNames
  <2> QED BY <2>1
<1>4. 2 \in 0..Len(Sandbox!Cwd)
  BY <1>2
<1> HIDE DEF Sandbox!Cwd, PathNames
<1>5. Sandbox!IsPrefix(Sandbox!Cwd, Sandbox!RootConfig) /\ Sandbox!IsPrefix(Sandbox!Cwd, Sandbox!LibConfig)
  BY <1>1, <1>3, <1>4, StartOfJoined DEF Sandbox!RootConfig, Sandbox!LibConfig
<1> QED BY <1>1, <1>2, <1>5 DEF Sandbox!ConfigFiles, Sandbox!Outside

LEMMA UsesAreIn ==
  ASSUME NEW u \in Sandbox!Uses
  PROVE  \E config \in Sandbox!ConfigFiles :
           /\ u = [in |-> config, kind |-> u.kind, ref |-> u.ref] /\ u.in = config
           /\ u.kind \in {"extends", "extends list", "reference", "include"} /\ u.ref \in Sandbox!RefsOf(config)
<1>1. PICK config \in Sandbox!ConfigFiles :
        u \in [in : {config}, kind : {"extends", "extends list", "reference", "include"}, ref : Sandbox!RefsOf(config)]
  BY DEF Sandbox!Uses
<1>2. PICK refs : refs = Sandbox!RefsOf(config)
  OBVIOUS
<1>3. u \in [in : {config}, kind : {"extends", "extends list", "reference", "include"}, ref : refs]
  BY <1>1, <1>2
<1>4. /\ u = [in |-> u.in, kind |-> u.kind, ref |-> u.ref] /\ u.in = config
      /\ u.kind \in {"extends", "extends list", "reference", "include"} /\ u.ref \in refs
  BY <1>3
<1> QED BY <1>2, <1>4

\* The references of one file, two directories up where they must.
LEMMA VisitKeepsReferences ==
  ASSUME ReferencesInv, Sandbox!RewriteTSConfigFile
  PROVE  ReferencesInv'
<1>1. PICK config : config = Head(stack)
  OBVIOUS
<1>2. /\ uses' = uses /\ tempDirName' = tempDirName /\ stack # << >>
      /\ IF config \in touched
         THEN stack' = Tail(stack) /\ touched' = touched /\ rewritten' = rewritten
         ELSE /\ touched' = touched \cup {config}
              /\ IF config \in Sandbox!ConfigFiles
                 THEN /\ stack' = Sandbox!SetToSeq({p \in Sandbox!Follows(config) : ~Sandbox!Outside(p)}) \o Tail(stack)
                      /\ rewritten' = rewritten \cup {Sandbox!Rewrite(u) : u \in {v \in uses : v.in = config}}
                 ELSE stack' = Tail(stack) /\ rewritten' = rewritten
  BY <1>1 DEF Sandbox!RewriteTSConfigFile
<1>3. /\ uses \subseteq Sandbox!Uses /\ IsFiniteSet(uses) /\ stack \in Seq(Visits)
      /\ tempDirName \in {<<"tmp">>, <<"build", "tmp">>}
  BY DEF ReferencesInv
<1>4. Visits' = Visits
  BY <1>2 DEF Visits
<1>5. \A c : Sandbox!Follows(c)' = Sandbox!Follows(c)
  BY <1>2 DEF Sandbox!Follows
<1>6. PICK n \in Nat : n = Len(stack) /\ n > 0 /\ DOMAIN stack = 1..n
  BY <1>2, <1>3
<1>7. PICK rest : rest = Tail(stack)
  OBVIOUS
<1>8. /\ rest \in Seq(Visits) /\ Len(rest) = n - 1 /\ DOMAIN rest = 1..(n - 1)
      /\ \A i \in 1..(n - 1) : rest[i] = stack[i + 1]
  BY <1>2, <1>3, <1>6, <1>7
<1>9. Awaiting \subseteq {config} \cup {rest[i] : i \in DOMAIN rest}
  <2> SUFFICES ASSUME NEW i \in 1..n PROVE stack[i] = config \/ \E j \in 1..(n - 1) : rest[j] = stack[i]
    BY <1>6, <1>8 DEF Awaiting
  <2>1. CASE i = 1
    BY <1>1, <2>1, <1>3, <1>2
  <2>2. CASE i # 1
    <3>1. i - 1 \in 1..(n - 1) /\ (i - 1) + 1 = i
      BY <2>2
    <3> QED BY <1>8, <3>1
  <2> QED BY <2>1, <2>2
<1>10. /\ \A c \in Sandbox!ConfigFiles \cap touched :
            Sandbox!Follows(c) \cap Sandbox!ConfigFiles \subseteq touched \cup Awaiting
       /\ \A u \in uses : u.in \in touched => Sandbox!Rewrite(u) \in rewritten
  BY DEF ReferencesInv
<1>11. \A u \in uses : u.in \in Sandbox!ConfigFiles
  BY <1>3, UsesAreIn
<1>12. CASE config \in touched
  <2>1. stack' = rest /\ touched' = touched /\ rewritten' = rewritten
    BY <1>2, <1>7, <1>12
  <2>2. Awaiting' = {rest[i] : i \in DOMAIN rest}
    BY <2>1 DEF Awaiting
  <2>3. \A c \in Sandbox!ConfigFiles \cap touched' :
          Sandbox!Follows(c)' \cap Sandbox!ConfigFiles \subseteq touched' \cup Awaiting'
    BY <1>5, <1>9, <1>10, <1>12, <2>1, <2>2
  <2> QED BY <1>2, <1>3, <1>4, <1>8, <1>10, <2>1, <2>3 DEF ReferencesInv
<1>13. CASE config \notin touched /\ config \notin Sandbox!ConfigFiles
  <2>1. stack' = rest /\ touched' = touched \cup {config} /\ rewritten' = rewritten
    BY <1>2, <1>7, <1>13
  <2>2. Awaiting' = {rest[i] : i \in DOMAIN rest}
    BY <2>1 DEF Awaiting
  <2>3. \A c \in Sandbox!ConfigFiles \cap touched' :
          Sandbox!Follows(c)' \cap Sandbox!ConfigFiles \subseteq touched' \cup Awaiting'
    BY <1>5, <1>9, <1>10, <1>13, <2>1, <2>2
  <2>4. \A u \in uses' : u.in \in touched' => Sandbox!Rewrite(u) \in rewritten'
    BY <1>2, <1>10, <1>11, <1>13, <2>1
  <2> QED BY <1>2, <1>3, <1>4, <1>8, <2>1, <2>3, <2>4 DEF ReferencesInv
<1>14. CASE config \notin touched /\ config \in Sandbox!ConfigFiles
  <2> DEFINE found == {p \in Sandbox!Follows(config) : ~Sandbox!Outside(p)}
  <2>1. PICK list : list = Sandbox!SetToSeq(found)
    OBVIOUS
  <2>2. /\ stack' = list \o rest /\ touched' = touched \cup {config}
        /\ rewritten' = rewritten \cup {Sandbox!Rewrite(u) : u \in {v \in uses : v.in = config}}
    BY <1>2, <1>7, <1>14, <2>1
  <2>3. found \subseteq Visits
    BY DEF Sandbox!Follows, Visits
  <2>4. IsFiniteSet(found)
    <3> DEFINE D == {v \in uses : v.in = config /\ v.kind \in {"extends", "reference"}}
               g == [u \in D |-> Sandbox!Resolve(Sandbox!Parent(config), u.ref)]
               T == Sandbox!Follows(config)
    <3>1. IsFiniteSet(D)
      BY <1>3, FS_Subset
    <3>2. g \in Surjection(D, T)
      BY DEF Surjection, Sandbox!Follows
    <3> HIDE DEF g, D
    <3>3. IsFiniteSet(T)
      BY <3>1, <3>2, FS_Surjection
    <3> QED BY <3>3, FS_Subset
  <2>5. list \in Seq(found) /\ \A x \in found : \E i \in 1..Len(list) : list[i] = x
    <3> HIDE DEF found
    <3> QED BY <2>1, <2>4, ListOfSet
  <2>6. list \in Seq(Visits)
    BY <2>3, <2>5
  <2>7. PICK t : t = list \o rest
    OBVIOUS
  <2>8. /\ t \in Seq(Visits) /\ Len(t) = Len(list) + Len(rest)
        /\ \A i \in 1..(Len(list) + Len(rest)) : t[i] = IF i <= Len(list) THEN list[i] ELSE rest[i - Len(list)]
    BY <1>8, <2>6, <2>7, ConcatProperties
  <2>9. PICK m \in Nat : m = Len(list)
    BY <2>6, LenProperties
  <2>10. \A i \in 1..m : i \in DOMAIN t /\ t[i] = list[i]
    <3>1. \A i \in 1..m : i \in 1..(m + (n - 1)) /\ i <= m
      BY <1>6
    <3>2. DOMAIN t = 1..(m + (n - 1))
      BY <1>8, <2>8, <2>9, LenProperties
    <3> QED BY <1>8, <2>8, <2>9, <3>1, <3>2
  <2>11. \A i \in 1..(n - 1) : m + i \in DOMAIN t /\ t[m + i] = rest[i]
    <3>1. \A i \in 1..(n - 1) : m + i \in 1..(m + (n - 1)) /\ ~(m + i <= m) /\ (m + i) - m = i
      BY <1>6
    <3>2. DOMAIN t = 1..(m + (n - 1))
      BY <1>8, <2>8, <2>9, LenProperties
    <3> QED BY <1>8, <2>8, <2>9, <3>1, <3>2
  <2>12. found \cup {rest[i] : i \in DOMAIN rest} \subseteq Awaiting'
    <3>1. Awaiting' = {t[i] : i \in DOMAIN t}
      BY <2>2, <2>7 DEF Awaiting
    <3>2. \A x \in found : x \in {t[i] : i \in DOMAIN t}
      BY <2>5, <2>9, <2>10
    <3>3. \A i \in 1..(n - 1) : rest[i] \in {t[j] : j \in DOMAIN t}
      BY <2>11
    <3> QED BY <1>8, <3>1, <3>2, <3>3
  <2>13. Sandbox!Follows(config) \cap Sandbox!ConfigFiles \subseteq found
    BY ConfigsAreInside
  <2> HIDE DEF found
  <2>14. \A c \in Sandbox!ConfigFiles \cap touched' :
          Sandbox!Follows(c)' \cap Sandbox!ConfigFiles \subseteq touched' \cup Awaiting'
    <3>1. \A c \in Sandbox!ConfigFiles \cap touched :
            Sandbox!Follows(c) \cap Sandbox!ConfigFiles \subseteq touched' \cup Awaiting'
      BY <1>9, <1>10, <2>2, <2>12
    <3> QED BY <1>5, <2>2, <2>12, <2>13, <3>1
  <2>15. \A u \in uses' : u.in \in touched' => Sandbox!Rewrite(u) \in rewritten'
    BY <1>2, <1>10, <2>2
  <2>16. stack' \in Seq(Visits)'
    BY <1>4, <2>2, <2>7, <2>8
  <2> QED BY <1>2, <1>3, <2>14, <2>15, <2>16 DEF ReferencesInv
<1> QED BY <1>12, <1>13, <1>14

LEMMA ReferencesSteps == ReferencesInv /\ [Sandbox!Next]_sandboxVars => ReferencesInv'
<1> SUFFICES ASSUME ReferencesInv, [Sandbox!Next]_sandboxVars PROVE ReferencesInv'
  OBVIOUS
<1>1. CASE Sandbox!RewriteTSConfigFile
  BY <1>1, VisitKeepsReferences
<1>2. CASE ~Sandbox!RewriteTSConfigFile
  <2>1. /\ uses' = uses /\ tempDirName' = tempDirName /\ stack' = stack /\ touched' = touched /\ rewritten' = rewritten
    BY <1>2 DEF sandboxVars, Sandbox!Next, Sandbox!Mutate, Sandbox!DisableTypeChecks, Sandbox!SandboxFile, Sandbox!FindNodeModules
  <2>2. Visits' = Visits /\ Awaiting' = Awaiting /\ \A c : Sandbox!Follows(c)' = Sandbox!Follows(c)
    BY <2>1 DEF Visits, Awaiting, Sandbox!Follows
  <2> QED BY <2>1, <2>2 DEF ReferencesInv
<1> QED BY <1>1, <1>2

\* The directory of a file.
LEMMA ParentFacts ==
  ASSUME NEW S, NEW base \in Seq(S), NEW a \in Seq(S), NEW b \in Seq(S)
  PROVE  Len(b) = Len(a) + 1 /\ (\A i \in 1..Len(a) : b[i] = a[i]) => Sandbox!Parent(base \o b) = base \o a
<1>a. SUFFICES ASSUME Len(b) = Len(a) + 1, \A i \in 1..Len(a) : b[i] = a[i] PROVE Sandbox!Parent(base \o b) = base \o a
  OBVIOUS
<1>0. PICK s, t : s = base \o a /\ t = base \o b
  OBVIOUS
<1>1. PICK k \in Nat, m \in Nat : k = Len(base) /\ m = Len(a)
  BY LenProperties
<1>2. /\ s \in Seq(S) /\ Len(s) = k + m
      /\ \A i \in 1..(k + m) : s[i] = IF i <= k THEN base[i] ELSE a[i - k]
  BY <1>0, <1>1, ConcatProperties
<1>3. /\ t \in Seq(S) /\ Len(t) = k + (m + 1)
      /\ \A i \in 1..(k + (m + 1)) : t[i] = IF i <= k THEN base[i] ELSE b[i - k]
  <2>1. Len(b) = m + 1
    BY <1>a, <1>1
  <2>2. /\ t \in Seq(S) /\ Len(t) = Len(base) + Len(b)
        /\ \A i \in 1..(Len(base) + Len(b)) : t[i] = IF i <= Len(base) THEN base[i] ELSE b[i - Len(base)]
    BY <1>0, JoinFacts, Zenon
  <2> QED BY <1>1, <2>1, <2>2
<1>4. \A i \in 1..(k + m) : t[i] = s[i]
  <2> SUFFICES ASSUME NEW i \in 1..(k + m) PROVE t[i] = s[i]
    OBVIOUS
  <2>1. i \in 1..(k + (m + 1)) /\ (i <= k \/ i - k \in 1..m)
    OBVIOUS
  <2> QED BY <1>a, <1>1, <1>2, <1>3, <2>1
<1>5. k + m <= Len(s) /\ k + m <= Len(t) /\ k + m \in Nat /\ Len(t) - 1 = k + m
  BY <1>2, <1>3
<1>6. SubSeq(t, 1, k + m) = SubSeq(s, 1, k + m)
  BY <1>2, <1>3, <1>4, <1>5, SameStart
<1>7. SubSeq(s, 1, k + m) = s
  BY <1>2, WholeSequence
<1> QED BY <1>0, <1>5, <1>6, <1>7 DEF Sandbox!Parent, Sandbox!Front

\* A reference that goes up by all of a path and j more.
LEMMA ResolveFacts ==
  ASSUME NEW S, NEW base \in Seq(S), NEW a \in Seq(S), NEW j \in 0..Len(base), NEW ref,
         ref.absolute = FALSE, ref.up = Len(a) + j
  PROVE  Sandbox!Resolve(base \o a, ref) = SubSeq(base, 1, Len(base) - j) \o ref.down
<1>0. PICK t : t = base \o a
  OBVIOUS
<1>1. PICK k \in Nat, m \in Nat : k = Len(base) /\ m = Len(a)
  BY LenProperties
<1>2. Len(t) = k + m
  BY <1>0, <1>1, ConcatProperties
<1>3. (IF ref.up < Len(t) THEN Len(t) - ref.up ELSE 0) = k - j
  BY <1>1, <1>2
<1>4. k - j \in 0..Len(base)
  BY <1>1
<1>5. SubSeq(t, 1, k - j) = SubSeq(base, 1, k - j)
  BY <1>0, <1>4, StartOfJoined
<1>6. Sandbox!Resolve(t, ref) = SubSeq(t, 1, k - j) \o ref.down
  BY <1>3 DEF Sandbox!Resolve
<1> QED BY <1>0, <1>1, <1>5, <1>6

\* Where the configurations are, below the project and below the sandbox.
Below(config) == IF config = Sandbox!RootConfig THEN << >> ELSE <<"lib">>

LEMMA NamesAreHere ==
  /\ << >> \in Seq(PathNames) /\ <<"lib">> \in Seq(PathNames) /\ <<"shared">> \in Seq(PathNames)
  /\ <<"tsconfig">> \in Seq(PathNames) /\ <<"lib", "tsconfig">> \in Seq(PathNames) /\ <<"missing">> \in Seq(PathNames)
  /\ <<"tmp">> \in Seq(PathNames) /\ <<"sandbox">> \in Seq(PathNames)
<1>1. {"lib", "shared", "tsconfig", "missing", "tmp", "sandbox"} \subseteq PathNames
  BY DEF PathNames
<1> HIDE DEF PathNames
<1>2. << >> \in Seq(PathNames) /\ <<"lib">> \in Seq(PathNames) /\ <<"shared">> \in Seq(PathNames)
  BY <1>1
<1>3. <<"tsconfig">> \in Seq(PathNames) /\ <<"lib", "tsconfig">> \in Seq(PathNames) /\ <<"missing">> \in Seq(PathNames)
  BY <1>1
<1>4. <<"tmp">> \in Seq(PathNames) /\ <<"sandbox">> \in Seq(PathNames)
  BY <1>1
<1> QED BY <1>2, <1>3, <1>4

LEMMA ConfigFacts ==
  ASSUME NEW config \in Sandbox!ConfigFiles, NEW base \in Seq(PathNames)
  PROVE  /\ Below(config) \in Seq(PathNames)
         /\ Len(Below(config)) = IF config = Sandbox!RootConfig THEN 0 ELSE 1
         /\ \E name \in Seq(PathNames) :
              /\ config = Sandbox!Cwd \o name
              /\ Sandbox!Parent(base \o name) = base \o Below(config)
<1>1. CASE config = Sandbox!RootConfig
  <2>1. Below(config) = << >> /\ Len(<< >>) = 0
    BY <1>1 DEF Below
  <2>2. PICK a, b : a = << >> /\ b = <<"tsconfig">>
    OBVIOUS
  <2>3. a \in Seq(PathNames) /\ b \in Seq(PathNames)
    BY <2>2, NamesAreHere
  <2>5. Len(b) = Len(a) + 1 /\ \A i \in 1..Len(a) : b[i] = a[i]
    BY <2>2
  <2>6. Sandbox!Parent(base \o b) = base \o a
    BY <2>3, <2>5, ParentFacts
  <2>4. config = Sandbox!Cwd \o <<"tsconfig">>
    BY <1>1 DEF Sandbox!RootConfig
  <2>7. a = Below(config) /\ config = Sandbox!Cwd \o b
    BY <2>1, <2>2, <2>4
  <2>8. Below(config) \in Seq(PathNames) /\ Len(Below(config)) = 0
    BY <2>1, <2>2, <2>3
  <2>9. b \in Seq(PathNames) /\ config = Sandbox!Cwd \o b /\ Sandbox!Parent(base \o b) = base \o Below(config)
    BY <2>3, <2>6, <2>7
  <2> QED BY <1>1, <2>8, <2>9
<1>2. CASE config # Sandbox!RootConfig
  <2>1. Below(config) = <<"lib">> /\ Len(<<"lib">>) = 1
    BY <1>2 DEF Below
  <2>2. PICK a, b : a = <<"lib">> /\ b = <<"lib", "tsconfig">>
    OBVIOUS
  <2>3. a \in Seq(PathNames) /\ b \in Seq(PathNames)
    BY <2>2, NamesAreHere
  <2>5. Len(b) = Len(a) + 1 /\ \A i \in 1..Len(a) : b[i] = a[i]
    BY <2>2
  <2>6. Sandbox!Parent(base \o b) = base \o a
    BY <2>3, <2>5, ParentFacts
  <2>4. config = Sandbox!Cwd \o <<"lib", "tsconfig">>
    BY <1>2 DEF Sandbox!ConfigFiles, Sandbox!LibConfig
  <2>7. a = Below(config) /\ config = Sandbox!Cwd \o b
    BY <2>1, <2>2, <2>4
  <2> QED BY <1>2, <2>1, <2>3, <2>6, <2>7
<1> QED BY <1>1, <1>2

\* A reference stays in the project, or leads to a file beside or above it.
LEMMA RefFacts ==
  ASSUME NEW config \in Sandbox!ConfigFiles, NEW ref \in Sandbox!RefsOf(config), ref.absolute = FALSE
  PROVE  \E j \in 0..2 : /\ ref = [up |-> ref.up, down |-> ref.down, absolute |-> FALSE]
                         /\ ref.up = Len(Below(config)) + j
                         /\ ref.down \in Seq(PathNames) /\ (j # 0 => ref.down = <<"shared">>)
<1>1. PICK up \in {0, 1} : up = IF config = Sandbox!RootConfig THEN 0 ELSE 1
  OBVIOUS
<1>2. up = Len(Below(config))
  <2>1. Len(<< >>) = 0 /\ Len(<<"lib">>) = 1
    OBVIOUS
  <2> QED BY <1>1, <2>1 DEF Below
<1>3. PICK u \in {up, up + 1, up + 2}, d \in {<<"lib", "tsconfig">>, <<"tsconfig">>, <<"missing">>, <<"shared">>} :
        ref = [up |-> u, down |-> d, absolute |-> FALSE] /\ (u # up => d = <<"shared">>)
  <2>1. ref \in {[up |-> up, down |-> <<"lib", "tsconfig">>, absolute |-> FALSE], [up |-> up, down |-> <<"tsconfig">>, absolute |-> FALSE],
                 [up |-> up, down |-> <<"missing">>, absolute |-> FALSE], [up |-> up + 1, down |-> <<"shared">>, absolute |-> FALSE],
                 [up |-> up + 2, down |-> <<"shared">>, absolute |-> FALSE], [up |-> 0, down |-> <<"etc", "shared">>, absolute |-> TRUE]}
    BY <1>1 DEF Sandbox!RefsOf
  <2>2. ref # [up |-> 0, down |-> <<"etc", "shared">>, absolute |-> TRUE]
    OBVIOUS
  <2> QED BY <2>1, <2>2
<1>4. ref.up = u /\ ref.down = d
  BY <1>3
<1>5. d \in Seq(PathNames)
  BY NamesAreHere
<1>6. u - up \in 0..2 /\ u = up + (u - up) /\ (u - up # 0 => u # up)
  BY <1>3
<1> QED BY <1>2, <1>3, <1>4, <1>5, <1>6

\* The directory of the sandbox is four names deep, the first ones those of
\* the project.
LEMMA SandboxFacts ==
  ASSUME tempDirName = <<"tmp">>
  PROVE  /\ Sandbox!SandboxDir \in Seq(PathNames) /\ Len(Sandbox!SandboxDir) = 4
         /\ \A n \in 0..2 : SubSeq(Sandbox!SandboxDir, 1, n) = SubSeq(Sandbox!Cwd, 1, n)
<1>1. PICK c, t, s : c = Sandbox!Cwd /\ t = <<"tmp">> /\ s = <<"sandbox">>
  OBVIOUS
<1>2. c \in Seq(PathNames) /\ t \in Seq(PathNames) /\ s \in Seq(PathNames) /\ Len(c) = 2 /\ Len(t) = 1 /\ Len(s) = 1
  <2>1. Len(<<"tmp">>) = 1 /\ Len(<<"sandbox">>) = 1
    OBVIOUS
  <2> QED BY <1>1, <2>1, ConfigsAreInside, NamesAreHere
<1>3. PICK d : d = c \o t
  OBVIOUS
<1>4. d \in Seq(PathNames) /\ Len(d) = 3
  <2>1. d \in Seq(PathNames) /\ Len(d) = Len(c) + Len(t)
    BY <1>2, <1>3, JoinFacts, Zenon
  <2> QED BY <1>2, <2>1
<1>5. PICK e : e = d \o s
  OBVIOUS
<1>6. e \in Seq(PathNames) /\ Len(e) = 4
  <2>1. e \in Seq(PathNames) /\ Len(e) = Len(d) + Len(s)
    BY <1>2, <1>4, <1>5, JoinFacts, Zenon
  <2> QED BY <1>2, <1>4, <2>1
<1>7. Sandbox!SandboxDir = e
  BY <1>1, <1>3, <1>5 DEF Sandbox!SandboxDir
<1>8. ASSUME NEW n \in 0..2 PROVE SubSeq(e, 1, n) = SubSeq(c, 1, n)
  <2>1. n \in 0..Len(c) /\ n \in 0..Len(d)
    BY <1>2, <1>4
  <2>2. SubSeq(d, 1, n) = SubSeq(c, 1, n)
    BY <1>2, <1>3, <2>1, StartOfJoined
  <2>3. SubSeq(e, 1, n) = SubSeq(d, 1, n)
    BY <1>2, <1>4, <1>5, <2>1, StartOfJoined
  <2> QED BY <2>2, <2>3
<1> QED BY <1>1, <1>6, <1>7, <1>8

\* What is beside or above the project is not in it.
LEMMA SharedIsOutside ==
  ASSUME NEW j \in {1, 2}
  PROVE  Sandbox!Outside(SubSeq(Sandbox!Cwd, 1, 2 - j) \o <<"shared">>)
<1>1. PICK c \in Seq(PathNames) : c = Sandbox!Cwd /\ Len(c) = 2 /\ c[2] = "project"
  <2>1. Sandbox!Cwd[2] = "project"
    BY DEF Sandbox!Cwd
  <2> QED BY <2>1, ConfigsAreInside
<1>2. PICK n \in 0..1 : n = 2 - j
  OBVIOUS
<1>3. PICK x : x = SubSeq(c, 1, n)
  OBVIOUS
<1>4. x \in Seq(PathNames) /\ Len(x) = n
  <2>1. n \in 0..Len(c)
    BY <1>1
  <2> QED BY <1>3, <2>1, FirstElements
<1>5. PICK s \in Seq(PathNames) : s = <<"shared">>
  BY NamesAreHere
<1>6. Len(s) = 1 /\ s[1] = "shared"
  BY <1>5
<1>7. PICK p : p = x \o s
  OBVIOUS
<1>8. /\ p \in Seq(PathNames) /\ Len(p) = n + 1
      /\ \A i \in 1..(n + 1) : p[i] = IF i <= n THEN x[i] ELSE s[i - n]
  <2>1. /\ p \in Seq(PathNames) /\ Len(p) = Len(x) + Len(s)
        /\ \A i \in 1..(Len(x) + Len(s)) : p[i] = IF i <= Len(x) THEN x[i] ELSE s[i - Len(x)]
    BY <1>4, <1>7, ConcatProperties
  <2> QED BY <1>4, <1>6, <2>1
<1>9. ~(Len(c) <= Len(p) /\ \A i \in 1..Len(c) : c[i] = p[i])
  <2>1. CASE n = 0
    BY <1>1, <1>8, <2>1
  <2>2. CASE n = 1
    <3>1. p[2] = s[1]
      BY <1>8, <2>2
    <3> QED BY <1>1, <1>6, <3>1
  <2> QED BY <2>1, <2>2
<1>10. ~Sandbox!IsPrefix(c, p)
  BY <1>8, <1>9, PrefixFacts
<1> QED BY <1>1, <1>2, <1>3, <1>5, <1>7, <1>10 DEF Sandbox!Outside

\* tryRewriteReference
LEMMA RewrittenLeadsRight ==
  ASSUME NEW u \in Sandbox!Uses
  PROVE  tempDirName = <<"tmp">> /\ u.ref.absolute = FALSE /\ u.kind # "extends list" => Sandbox!LeadsRight(u)
<1>0. SUFFICES ASSUME tempDirName = <<"tmp">>, u.ref.absolute = FALSE, u.kind # "extends list" PROVE Sandbox!LeadsRight(u)
  OBVIOUS
<1>1. PICK config \in Sandbox!ConfigFiles :
        /\ u = [in |-> config, kind |-> u.kind, ref |-> u.ref] /\ u.in = config /\ u.ref \in Sandbox!RefsOf(config)
  BY UsesAreIn
<1>2. PICK ref : ref = u.ref
  OBVIOUS
<1>3. PICK j \in 0..2 : /\ ref = [up |-> ref.up, down |-> ref.down, absolute |-> FALSE]
                        /\ ref.up = Len(Below(config)) + j
                        /\ ref.down \in Seq(PathNames) /\ (j # 0 => ref.down = <<"shared">>)
  BY <1>0, <1>1, <1>2, RefFacts
<1>4. PICK c, s : c = Sandbox!Cwd /\ s = Sandbox!SandboxDir
  OBVIOUS
<1>5. /\ c \in Seq(PathNames) /\ Len(c) = 2 /\ s \in Seq(PathNames) /\ Len(s) = 4
      /\ \A n \in 0..2 : SubSeq(s, 1, n) = SubSeq(c, 1, n)
  BY <1>0, <1>4, ConfigsAreInside, SandboxFacts
<1>6. PICK a : a = Below(config)
  OBVIOUS
<1>7. a \in Seq(PathNames) /\ Len(a) \in {0, 1} /\ ref.up = Len(a) + j
  BY <1>3, <1>5, <1>6, ConfigFacts
<1>8. Sandbox!Parent(config) = c \o a
  <2>1. PICK name \in Seq(PathNames) : config = Sandbox!Cwd \o name /\ Sandbox!Parent(c \o name) = c \o Below(config)
    BY <1>5, ConfigFacts
  <2> QED BY <1>4, <1>6, <2>1
<1>9. Sandbox!Parent(Sandbox!InSandbox(config)) = s \o a
  <2>1. PICK name \in Seq(PathNames) : config = Sandbox!Cwd \o name /\ Sandbox!Parent(s \o name) = s \o Below(config)
    BY <1>5, ConfigFacts
  <2>2. SubSeq(config, Len(c) + 1, Len(config)) = name
    BY <1>4, <1>5, <2>1, RestOfJoined
  <2> QED BY <1>4, <1>6, <2>1, <2>2 DEF Sandbox!InSandbox
<1>16. Len(c) = 2 /\ Len(s) = 4 /\ j \in 0..2
  BY <1>3, <1>5
<1>10. PICK target : target = Sandbox!Resolve(c \o a, ref)
  OBVIOUS
<1>11. target = SubSeq(c, 1, 2 - j) \o ref.down
  <2>1. j \in 0..Len(c) /\ Len(c) - j = 2 - j /\ ref.absolute = FALSE
    BY <1>0, <1>2, <1>16
  <2> QED BY <1>5, <1>7, <1>10, <2>1, ResolveFacts
<1>12. SUFFICES Sandbox!Resolve(s \o a, Sandbox!Rewrite(u).ref) = IF Sandbox!Outside(target) THEN target ELSE Sandbox!InSandbox(target)
  BY <1>1, <1>2, <1>8, <1>9, <1>10 DEF Sandbox!LeadsRight
<1>13. Sandbox!Rewrite(u) = IF Sandbox!Outside(target) THEN [u EXCEPT !.ref.up = @ + 2, !.ref.absolute = FALSE] ELSE u
  BY <1>0, <1>1, <1>2, <1>8, <1>10 DEF Sandbox!Rewrite
<1>14. CASE j = 0
  <2>1. target = c \o ref.down
    <3>1. 2 - j = Len(c)
      BY <1>14, <1>16
    <3>2. SubSeq(c, 1, 2 - j) = c
      BY <1>5, <3>1, WholeSequence
    <3> QED BY <1>11, <3>2
  <2>2. Sandbox!IsPrefix(c, target)
    <3>1. 0 \in 0..Len(c)
      BY <1>16
    <3> QED BY <1>3, <1>5, <2>1, <3>1, StartOfJoined
  <2>3. ~Sandbox!Outside(target)
    BY <1>4, <2>2 DEF Sandbox!Outside
  <2>4. Sandbox!InSandbox(target) = s \o ref.down
    <3>1. SubSeq(target, Len(c) + 1, Len(target)) = ref.down
      BY <1>3, <1>5, <2>1, RestOfJoined
    <3> QED BY <1>4, <3>1 DEF Sandbox!InSandbox
  <2>5. Sandbox!Resolve(s \o a, ref) = SubSeq(s, 1, Len(s) - 0) \o ref.down
    <3>1. 0 \in 0..Len(s) /\ ref.up = Len(a) + 0 /\ ref.absolute = FALSE
      <4>1. ref.absolute = FALSE
        BY <1>0, <1>2
      <4> QED BY <1>7, <1>14, <1>16, <4>1
    <3> QED BY <1>5, <1>7, <3>1, ResolveFacts
  <2>6. SubSeq(s, 1, Len(s) - 0) = s
    <3>1. Len(s) - 0 = Len(s)
      BY <1>16
    <3> QED BY <1>5, <3>1, WholeSequence
  <2>7. Sandbox!Rewrite(u).ref = ref
    BY <1>2, <1>13, <2>3
  <2> QED BY <2>3, <2>4, <2>5, <2>6, <2>7
<1>15. CASE j # 0
  <2>1. j \in {1, 2} /\ ref.down = <<"shared">>
    BY <1>3, <1>15, <1>16
  <2>2. Sandbox!Outside(target)
    BY <1>4, <1>11, <2>1, SharedIsOutside
  <2>3. PICK r : r = Sandbox!Rewrite(u).ref
    OBVIOUS
  <2>4. r.up = ref.up + 2 /\ r.down = ref.down /\ r.absolute = FALSE
    <3>1. PICK kind, up, down : kind = u.kind /\ up = ref.up /\ down = ref.down
      OBVIOUS
    <3>2. u = [in |-> config, kind |-> kind, ref |-> [up |-> up, down |-> down, absolute |-> FALSE]]
      BY <1>1, <1>2, <1>3, <3>1
    <3>3. Sandbox!Rewrite(u) = [u EXCEPT !.ref.up = @ + 2, !.ref.absolute = FALSE]
      BY <1>13, <2>2
    <3>4. Sandbox!Rewrite(u) = [in |-> config, kind |-> kind, ref |-> [up |-> up + 2, down |-> down, absolute |-> FALSE]]
      BY <3>2, <3>3
    <3>5. r = [up |-> up + 2, down |-> down, absolute |-> FALSE]
      BY <2>3, <3>4
    <3> QED BY <3>1, <3>5
  <2>5. Sandbox!Resolve(s \o a, r) = SubSeq(s, 1, Len(s) - (j + 2)) \o r.down
    <3>1. j + 2 \in 0..Len(s) /\ r.up = Len(a) + (j + 2)
      <4>1. Len(a) + j + 2 = Len(a) + (j + 2) /\ j + 2 \in 0..Len(s)
        BY <1>7, <1>16, <2>1
      <4> QED BY <1>7, <2>4, <4>1
    <3> QED BY <1>5, <1>7, <2>4, <3>1, ResolveFacts
  <2>6. SubSeq(s, 1, Len(s) - (j + 2)) = SubSeq(c, 1, 2 - j)
    <3>1. Len(s) - (j + 2) = 2 - j /\ 2 - j \in 0..2
      BY <1>16
    <3> QED BY <1>5, <3>1
  <2> QED BY <1>11, <2>2, <2>3, <2>4, <2>5, <2>6
<1> QED BY <1>14, <1>15

LEMMA ReferencesImplies == ReferencesInv => Sandbox!ReferencesLeadRight
<1> SUFFICES ASSUME ReferencesInv, fileStage = "tsconfig", stack = << >>
             PROVE  /\ \A config \in Sandbox!ConfigFiles \cap touched : Sandbox!Follows(config) \cap Sandbox!ConfigFiles \subseteq touched
                    /\ \A u \in uses : u.in \in touched => Sandbox!Rewrite(u) \in rewritten
                    /\ Len(tempDirName) = 1 => \A u \in uses :
                         u.in \in touched /\ ~u.ref.absolute /\ u.kind # "extends list" => Sandbox!LeadsRight(u)
  BY DEF Sandbox!ReferencesLeadRight
<1>1. Awaiting = {}
  <2>1. DOMAIN stack = {}
    OBVIOUS
  <2> QED BY <2>1 DEF Awaiting
<1>2. ASSUME Len(tempDirName) = 1 PROVE tempDirName = <<"tmp">>
  <2>1. Len(<<"build", "tmp">>) # 1
    OBVIOUS
  <2> QED BY <1>2, <2>1 DEF ReferencesInv
<1>3. ASSUME NEW u \in uses, ~u.ref.absolute PROVE u.ref.absolute = FALSE
  <2>1. PICK config \in Sandbox!ConfigFiles : u.ref \in Sandbox!RefsOf(config)
    BY UsesAreIn DEF ReferencesInv
  <2>2. u.ref.absolute \in BOOLEAN
    <3>1. PICK r, up : r = u.ref /\ up = IF config = Sandbox!RootConfig THEN 0 ELSE 1
      OBVIOUS
    <3>2. r \in {[up |-> up, down |-> <<"lib", "tsconfig">>, absolute |-> FALSE], [up |-> up, down |-> <<"tsconfig">>, absolute |-> FALSE],
                 [up |-> up, down |-> <<"missing">>, absolute |-> FALSE], [up |-> up + 1, down |-> <<"shared">>, absolute |-> FALSE],
                 [up |-> up + 2, down |-> <<"shared">>, absolute |-> FALSE], [up |-> 0, down |-> <<"etc", "shared">>, absolute |-> TRUE]}
      BY <2>1, <3>1 DEF Sandbox!RefsOf
    <3>4. PICK absolute \in BOOLEAN : \E n, d : r = [up |-> n, down |-> d, absolute |-> absolute]
      BY <3>2
    <3>3. r.absolute \in BOOLEAN
      BY <3>4
    <3> QED BY <3>1, <3>3
  <2> QED BY <1>3, <2>2
<1>4. uses \subseteq Sandbox!Uses
  BY DEF ReferencesInv
<1> QED BY <1>1, <1>2, <1>3, <1>4, RewrittenLeadsRight DEF ReferencesInv

-----------------------------------------------------------------------------
(* Files of a sandbox: directories *)

DirNames == {"node_modules", "x", "a", "tmp", "old", "build"}

\* Nothing above a directory is node_modules or the temporary directory.
Clean(d) == \A i \in 1..(Len(d) - 1) : d[i] # "node_modules" /\ d[i] # "tmp"

IsStart(q, d) == Len(q) <= Len(d) /\ \A i \in 1..Len(q) : q[i] = d[i]

Wanted == {d \in dirs : d[Len(d)] = "node_modules" /\ Clean(d)}

\* With each directory the ones it is in.
DirsAreRight ==
  /\ IsFiniteSet(dirs) /\ dirs \subseteq Seq(DirNames)
  /\ \A d \in dirs : Len(d) \in Nat \ {0} /\ \A n \in 1..Len(d) : SubSeq(d, 1, n) \in dirs

\* A wanted directory is in the list, or below one that waits.
WalkIsRight ==
  /\ queue \in Seq({<< >>} \cup dirs)
  /\ \A i \in 1..Len(queue) : Clean(queue[i])
  /\ nodeModulesList \subseteq Wanted
  /\ \A d \in Wanted : d \in nodeModulesList \/ \E i \in 1..Len(queue) : IsStart(queue[i], d)

DirInv == DirsAreRight /\ tempDirName \in {<<"tmp">>, <<"build", "tmp">>} /\ (tempDirName = <<"tmp">> => WalkIsRight)

\* A wanted directory is not below another one that the walk stops at.
LEMMA StartOfWanted ==
  ASSUME NEW q \in Seq(DirNames), NEW d \in Seq(DirNames)
  PROVE  IsStart(q, d) /\ d[Len(d)] = "node_modules" /\ Clean(d) /\ Len(d) \in Nat \ {0} =>
           /\ Len(q) # 0 => q[Len(q)] # "tmp" /\ (q[Len(q)] = "node_modules" => q = d)
           /\ Len(q) = 0 \/ q[Len(q)] # "node_modules" => Len(q) < Len(d)
<1>1. SUFFICES ASSUME IsStart(q, d), d[Len(d)] = "node_modules", Clean(d), Len(d) \in Nat \ {0}
               PROVE  /\ Len(q) # 0 => q[Len(q)] # "tmp" /\ (q[Len(q)] = "node_modules" => q = d)
                      /\ Len(q) = 0 \/ q[Len(q)] # "node_modules" => Len(q) < Len(d)
  OBVIOUS
<1>2. PICK k \in Nat, m \in Nat : k = Len(q) /\ m = Len(d)
  BY LenProperties
<1>3. k <= m /\ m # 0 /\ d[m] = "node_modules"
  BY <1>1, <1>2 DEF IsStart
<1>4. \A i \in 1..k : q[i] = d[i]
  BY <1>1, <1>2 DEF IsStart
<1>5. \A i \in 1..(m - 1) : d[i] # "node_modules" /\ d[i] # "tmp"
  BY <1>1, <1>2 DEF Clean
<1>6. CASE k = m
  <2>1. q = d
    BY <1>2, <1>4, <1>6, SeqEqual
  <2> QED BY <1>2, <1>3, <2>1
<1>7. CASE k < m
  <2>1. ASSUME k # 0 PROVE q[k] # "tmp" /\ q[k] # "node_modules"
    <3>1. k \in 1..k /\ k \in 1..(m - 1)
      BY <1>2, <1>7, <2>1
    <3> QED BY <1>4, <1>5, <3>1
  <2> QED BY <1>2, <1>7, <2>1
<1> QED BY <1>2, <1>3, <1>6, <1>7

\* The directory below q on the way to d.
LEMMA NextOnTheWay ==
  ASSUME NEW q \in Seq(DirNames), NEW d \in dirs, DirsAreRight, IsStart(q, d), Len(q) < Len(d)
  PROVE  \E c \in dirs : Len(c) = Len(q) + 1 /\ IsStart(q, c) /\ IsStart(c, d)
<1>1. PICK k \in Nat, m \in Nat : k = Len(q) /\ m = Len(d)
  BY LenProperties DEF DirsAreRight
<1>2. k + 1 \in 1..Len(d) /\ k + 1 \in 0..Len(d) /\ k + 1 <= Len(d) /\ k <= k + 1
  BY <1>1
<1>3. PICK c \in dirs : c = SubSeq(d, 1, k + 1)
  BY <1>2 DEF DirsAreRight
<1>4. d \in Seq(DirNames)
  BY DEF DirsAreRight
<1>5. Len(c) = k + 1 /\ \A i \in 1..(k + 1) : c[i] = d[i]
  BY <1>2, <1>3, <1>4, FirstElements
<1>6. IsStart(c, d)
  BY <1>2, <1>5 DEF IsStart
<1>7. IsStart(q, c)
  <2>1. \A i \in 1..k : q[i] = d[i]
    BY <1>1 DEF IsStart
  <2>2. \A i \in 1..k : i \in 1..(k + 1)
    BY <1>1
  <2>3. \A i \in 1..k : q[i] = c[i]
    BY <1>5, <2>1, <2>2
  <2> QED BY <1>1, <1>2, <1>5, <2>3 DEF IsStart
<1> QED BY <1>1, <1>5, <1>6, <1>7

\* Where the walk goes on, nothing above is to be left out.
LEMMA ChildIsClean ==
  ASSUME NEW q \in Seq(DirNames), NEW c \in Seq(DirNames)
  PROVE  /\ IsStart(q, c) /\ Len(c) = Len(q) + 1 /\ Clean(q)
         /\ Len(q) # 0 => q[Len(q)] # "tmp" /\ q[Len(q)] # "node_modules"
         => Clean(c)
<1>1. SUFFICES ASSUME IsStart(q, c), Len(c) = Len(q) + 1, Clean(q), Len(q) # 0 => q[Len(q)] # "tmp" /\ q[Len(q)] # "node_modules"
               PROVE  Clean(c)
  OBVIOUS
<1>2. PICK k \in Nat : k = Len(q) /\ Len(c) - 1 = k
  <2>1. PICK k \in Nat : k = Len(q)
    BY LenProperties
  <2>2. Len(c) = k + 1
    BY <1>1, <2>1
  <2> QED BY <2>1, <2>2
<1>3. \A i \in 1..k : q[i] = c[i]
  BY <1>1, <1>2 DEF IsStart
<1>4. \A i \in 1..(k - 1) : q[i] # "node_modules" /\ q[i] # "tmp"
  BY <1>1, <1>2 DEF Clean
<1>5. k # 0 => q[k] # "tmp" /\ q[k] # "node_modules"
  BY <1>1, <1>2
<1>6. ASSUME NEW i \in 1..k PROVE c[i] # "node_modules" /\ c[i] # "tmp"
  <2>1. i \in 1..(k - 1) \/ (i = k /\ k # 0)
    BY <1>2
  <2>2. q[i] # "node_modules" /\ q[i] # "tmp"
    BY <1>4, <1>5, <2>1
  <2> QED BY <1>3, <2>2
<1> QED BY <1>2, <1>6 DEF Clean

\* The children of a directory that is gone through.
LEMMA ChildrenFacts ==
  ASSUME NEW q \in Seq(DirNames), DirsAreRight
  PROVE  /\ IsFiniteSet(Sandbox!ChildDirs(q))
         /\ \A c : c \in Sandbox!ChildDirs(q) <=> c \in dirs /\ Len(c) = Len(q) + 1 /\ IsStart(q, c)
<1>1. Sandbox!ChildDirs(q) \subseteq dirs /\ IsFiniteSet(Sandbox!ChildDirs(q))
  <2>1. Sandbox!ChildDirs(q) \subseteq dirs
    BY DEF Sandbox!ChildDirs
  <2>2. IsFiniteSet(dirs)
    BY DEF DirsAreRight
  <2> QED BY <2>1, <2>2, FS_Subset
<1>2. ASSUME NEW c \in dirs PROVE Sandbox!IsPrefix(q, c) <=> IsStart(q, c)
  <2>1. c \in Seq(DirNames)
    BY DEF DirsAreRight
  <2>2. Sandbox!IsPrefix(q, c) <=> Len(q) <= Len(c) /\ \A i \in 1..Len(q) : q[i] = c[i]
    BY <2>1, PrefixFacts
  <2> QED BY <2>2 DEF IsStart
<1> QED BY <1>1, <1>2 DEF Sandbox!ChildDirs

\* One directory of the walk.
LEMMA WalkStep == DirInv /\ tempDirName = <<"tmp">> /\ Sandbox!FindNodeModules => WalkIsRight'
<1>0. SUFFICES ASSUME DirInv, tempDirName = <<"tmp">>, Sandbox!FindNodeModules PROVE WalkIsRight'
  OBVIOUS
<1>1. DirsAreRight /\ WalkIsRight
  BY <1>0 DEF DirInv
<1>2. dirs' = dirs /\ Wanted' = Wanted
  <2>1. dirs' = dirs
    BY <1>0 DEF Sandbox!FindNodeModules
  <2> QED BY <2>1 DEF Wanted
<1> DEFINE Here == {<< >>} \cup dirs
<1>3. queue \in Seq(Here) /\ queue # << >>
  BY <1>0, <1>1 DEF Sandbox!FindNodeModules, WalkIsRight
<1>4. Here \subseteq Seq(DirNames)
  <2>1. dirs \subseteq Seq(DirNames)
    BY <1>1 DEF DirsAreRight
  <2>2. << >> \in Seq(DirNames)
    OBVIOUS
  <2> QED BY <2>1, <2>2
<1> HIDE DEF Here
<1>5. PICK n \in Nat : n = Len(queue) /\ n # 0
  BY <1>3, EmptySeq, LenProperties
<1>6. PICK q, f : q = queue[n] /\ f = SubSeq(queue, 1, n - 1)
  OBVIOUS
<1>7. q \in Here /\ q \in Seq(DirNames)
  <2>1. n \in 1..Len(queue)
    BY <1>5
  <2>2. queue[n] \in Here
    BY <1>3, <2>1, ElementOfSeq
  <2> QED BY <1>4, <1>6, <2>2
<1>8. Clean(q)
  <2>1. n \in 1..Len(queue)
    BY <1>5
  <2> QED BY <1>1, <1>6, <2>1 DEF WalkIsRight
<1>9. f \in Seq(Here) /\ Len(f) = n - 1 /\ \A i \in 1..(n - 1) : f[i] = queue[i]
  <2>1. n - 1 \in 0..Len(queue)
    BY <1>5
  <2> QED BY <1>3, <1>6, <2>1, FirstElements
<1>10. \A i \in 1..(n - 1) : Clean(f[i])
  <2>1. \A i \in 1..(n - 1) : i \in 1..Len(queue)
    BY <1>5
  <2> QED BY <1>1, <1>9, <2>1 DEF WalkIsRight
<1>11. ASSUME NEW d \in Wanted PROVE d \in nodeModulesList \/ IsStart(q, d) \/ \E i \in 1..(n - 1) : IsStart(f[i], d)
  <2>1. d \in nodeModulesList \/ \E i \in 1..Len(queue) : IsStart(queue[i], d)
    BY <1>1 DEF WalkIsRight
  <2>2. ASSUME NEW i \in 1..Len(queue), IsStart(queue[i], d) PROVE IsStart(q, d) \/ \E k \in 1..(n - 1) : IsStart(f[k], d)
    <3>1. i = n \/ i \in 1..(n - 1)
      BY <1>5
    <3> QED BY <1>6, <1>9, <2>2, <3>1
  <2> QED BY <2>1, <2>2
<1>12. ASSUME NEW d \in Wanted PROVE d \in Seq(DirNames) /\ d \in dirs /\ d[Len(d)] = "node_modules" /\ Clean(d) /\ Len(d) \in Nat \ {0}
  BY <1>1 DEF Wanted, DirsAreRight
<1>13. q # << >> <=> Len(q) # 0
  BY <1>7, EmptySeq
<1>14. tempDirName = <<q[Len(q)]>> <=> q[Len(q)] = "tmp"
  <2>1. PICK name : name = q[Len(q)]
    OBVIOUS
  <2>2. <<name>> = <<"tmp">> <=> name = "tmp"
    OBVIOUS
  <2> QED BY <1>0, <2>1, <2>2
<1>15. CASE Len(q) # 0 /\ q[Len(q)] = "tmp"
  <2>1. queue' = f /\ nodeModulesList' = nodeModulesList
    BY <1>0, <1>5, <1>6, <1>13, <1>14, <1>15 DEF Sandbox!FindNodeModules, Sandbox!Last, Sandbox!Front
  <2>2. \A d \in Wanted : ~IsStart(q, d)
    BY <1>7, <1>12, <1>15, StartOfWanted
  <2>3. queue' \in Seq({<< >>} \cup dirs')
    BY <1>2, <1>9, <2>1 DEF Here
  <2>4. \A i \in 1..Len(queue') : Clean(queue'[i])
    BY <1>9, <1>10, <2>1
  <2>5. \A d \in Wanted : d \in nodeModulesList \/ \E i \in 1..Len(queue') : IsStart(queue'[i], d)
    BY <1>9, <1>11, <2>1, <2>2
  <2>6. nodeModulesList \subseteq Wanted
    BY <1>1 DEF WalkIsRight
  <2> QED BY <1>2, <2>1, <2>3, <2>4, <2>5, <2>6 DEF WalkIsRight
<1>16. CASE Len(q) # 0 /\ q[Len(q)] = "node_modules"
  <2>1. queue' = f /\ nodeModulesList' = nodeModulesList \cup {q}
    BY <1>0, <1>5, <1>6, <1>13, <1>14, <1>16 DEF Sandbox!FindNodeModules, Sandbox!Last, Sandbox!Front
  <2>2. \A d \in Wanted : IsStart(q, d) => q = d
    BY <1>7, <1>12, <1>16, StartOfWanted
  <2>3. queue' \in Seq({<< >>} \cup dirs')
    BY <1>2, <1>9, <2>1 DEF Here
  <2>4. \A i \in 1..Len(queue') : Clean(queue'[i])
    BY <1>9, <1>10, <2>1
  <2>5. \A d \in Wanted : d \in nodeModulesList' \/ \E i \in 1..Len(queue') : IsStart(queue'[i], d)
    BY <1>9, <1>11, <2>1, <2>2
  <2>6. q \in Wanted
    BY <1>7, <1>8, <1>13, <1>16 DEF Wanted, Here
  <2>7. nodeModulesList' \subseteq Wanted
    BY <1>1, <2>1, <2>6 DEF WalkIsRight
  <2> QED BY <1>2, <2>3, <2>4, <2>5, <2>7 DEF WalkIsRight
<1>17. CASE Len(q) = 0 \/ (q[Len(q)] # "tmp" /\ q[Len(q)] # "node_modules")
  <2>0. PICK cs, t : cs = Sandbox!ChildDirs(q) /\ t = Sandbox!SetToSeq(cs)
    OBVIOUS
  <2>1. queue' = f \o t /\ nodeModulesList' = nodeModulesList
    BY <1>0, <1>5, <1>6, <1>13, <1>14, <1>17, <2>0 DEF Sandbox!FindNodeModules, Sandbox!Last, Sandbox!Front
  <2>2. /\ IsFiniteSet(cs)
        /\ \A c : c \in cs <=> c \in dirs /\ Len(c) = Len(q) + 1 /\ IsStart(q, c)
    BY <1>1, <1>7, <2>0, ChildrenFacts
  <2>3. t \in Seq(cs) /\ \A c \in cs : \E i \in 1..Len(t) : t[i] = c
    BY <2>0, <2>2, ListOfSet
  <2>4. t \in Seq(Here)
    <3>1. cs \subseteq Here
      BY <2>2 DEF Here
    <3> QED BY <2>3, <3>1
  <2>5. PICK m \in Nat, l \in Nat : m = n - 1 /\ l = Len(t)
    BY <1>5, <2>4, LenProperties
  <2>6. PICK g : g = f \o t
    OBVIOUS
  <2>7. /\ g \in Seq(Here) /\ Len(g) = m + l
        /\ \A i \in 1..(m + l) : g[i] = IF i <= m THEN f[i] ELSE t[i - m]
    <3>1. /\ g \in Seq(Here) /\ Len(g) = Len(f) + Len(t)
          /\ \A i \in 1..(Len(f) + Len(t)) : g[i] = IF i <= Len(f) THEN f[i] ELSE t[i - Len(f)]
      BY <1>9, <2>4, <2>6, ConcatProperties
    <3> QED BY <1>9, <2>5, <3>1
  <2>8. ASSUME NEW c \in cs PROVE Clean(c)
    <3>1. c \in dirs /\ Len(c) = Len(q) + 1 /\ IsStart(q, c)
      BY <2>2
    <3>2. c \in Seq(DirNames)
      BY <1>1, <3>1 DEF DirsAreRight
    <3> QED BY <1>7, <1>8, <1>17, <3>1, <3>2, ChildIsClean
  <2>9. ASSUME NEW i \in 1..Len(g) PROVE Clean(g[i])
    <3>1. CASE i <= m
      <4>1. i \in 1..(n - 1) /\ g[i] = f[i]
        BY <2>5, <2>7, <3>1
      <4> QED BY <1>10, <4>1
    <3>2. CASE ~(i <= m)
      <4>1. i - m \in 1..Len(t) /\ g[i] = t[i - m]
        BY <2>5, <2>7, <3>2
      <4>2. t[i - m] \in cs
        BY <2>3, <4>1, ElementOfSeq
      <4> QED BY <2>8, <4>1, <4>2
    <3> QED BY <3>1, <3>2
  <2>10. ASSUME NEW i \in 1..(n - 1) PROVE i \in 1..Len(g) /\ g[i] = f[i]
    BY <2>5, <2>7
  <2>11. ASSUME NEW i \in 1..Len(t) PROVE m + i \in 1..Len(g) /\ g[m + i] = t[i]
    BY <2>5, <2>7
  <2>12. ASSUME NEW d \in Wanted, IsStart(q, d) PROVE \E i \in 1..Len(g) : IsStart(g[i], d)
    <3>1. Len(q) < Len(d)
      BY <1>7, <1>12, <1>17, <2>12, StartOfWanted
    <3>2. PICK c \in dirs : Len(c) = Len(q) + 1 /\ IsStart(q, c) /\ IsStart(c, d)
      BY <1>1, <1>7, <1>12, <2>12, <3>1, NextOnTheWay
    <3>3. PICK i \in 1..Len(t) : t[i] = c
      BY <2>2, <2>3, <3>2
    <3> QED BY <2>11, <3>2, <3>3
  <2>13. ASSUME NEW d \in Wanted PROVE d \in nodeModulesList \/ \E i \in 1..Len(g) : IsStart(g[i], d)
    BY <1>11, <2>10, <2>12
  <2>14. g \in Seq({<< >>} \cup dirs')
    BY <1>2, <2>7 DEF Here
  <2>15. nodeModulesList \subseteq Wanted
    BY <1>1 DEF WalkIsRight
  <2>16. queue' = g
    BY <2>1, <2>6
  <2> QED BY <1>2, <2>1, <2>9, <2>13, <2>14, <2>15, <2>16 DEF WalkIsRight
<1> QED BY <1>15, <1>16, <1>17

LEMMA DirSteps == DirInv /\ [Sandbox!Next]_sandboxVars => DirInv'
<1>0. SUFFICES ASSUME DirInv, [Sandbox!Next]_sandboxVars PROVE DirInv'
  OBVIOUS
<1>1. dirs' = dirs /\ tempDirName' = tempDirName
  BY <1>0 DEF sandboxVars, Sandbox!Next, Sandbox!Mutate, Sandbox!DisableTypeChecks, Sandbox!SandboxFile, Sandbox!RewriteTSConfigFile,
              Sandbox!FindNodeModules
<1>2. DirsAreRight'
  BY <1>0, <1>1 DEF DirInv, DirsAreRight
<1>3. ASSUME tempDirName = <<"tmp">> PROVE WalkIsRight'
  <2>1. CASE Sandbox!FindNodeModules
    BY <1>0, <1>3, <2>1, WalkStep
  <2>2. CASE ~Sandbox!FindNodeModules
    <3>1. queue' = queue /\ nodeModulesList' = nodeModulesList
      BY <1>0, <2>2 DEF sandboxVars, Sandbox!Next, Sandbox!Mutate, Sandbox!DisableTypeChecks, Sandbox!SandboxFile, Sandbox!RewriteTSConfigFile
    <3>2. Wanted' = Wanted
      BY <1>1 DEF Wanted
    <3> QED BY <1>0, <1>1, <1>3, <3>1, <3>2 DEF DirInv, WalkIsRight
  <2> QED BY <2>1, <2>2
<1> QED BY <1>0, <1>1, <1>2, <1>3 DEF DirInv

LEMMA DirImplies == DirInv => Sandbox!NodeModulesAreLinked
<1>0. SUFFICES ASSUME DirInv, fileStage = "link", queue = << >>, Len(tempDirName) = 1
      PROVE  nodeModulesList = {d \in dirs : /\ Sandbox!Last(d) = "node_modules"
                                             /\ \A i \in 1..(Len(d) - 1) : d[i] # "node_modules" /\ d[i] # Head(tempDirName)}
  BY DEF Sandbox!NodeModulesAreLinked
<1>1. tempDirName = <<"tmp">>
  <2>1. Len(<<"build", "tmp">>) # 1
    OBVIOUS
  <2> QED BY <1>0, <2>1 DEF DirInv
<1>2. Head(tempDirName) = "tmp"
  BY <1>1
<1>3. nodeModulesList = Wanted
  <2>1. 1..Len(queue) = {}
    BY <1>0
  <2> QED BY <1>0, <1>1, <2>1 DEF DirInv, WalkIsRight
<1> QED BY <1>2, <1>3 DEF Wanted, Clean, Sandbox!Last

LEMMA AllDirsFacts ==
  /\ IsFiniteSet(Sandbox!AllDirs)
  /\ \A d \in Sandbox!AllDirs : d \in Seq(DirNames) /\ Len(d) \in {1, 2, 3}
<1>1. {"node_modules", "x", "a", "tmp", "old", "build"} \subseteq DirNames
  BY DEF DirNames
<1> HIDE DEF DirNames
<1>2. PICK x1, x2, x3, x4, x5, x6 :
        /\ x1 = <<"node_modules">> /\ x2 = <<"node_modules", "x">> /\ x3 = <<"node_modules", "x", "node_modules">>
        /\ x4 = <<"a">> /\ x5 = <<"a", "node_modules">> /\ x6 = <<"tmp">>
  OBVIOUS
<1>3. PICK y1, y2, y3, y4, y5 :
        /\ y1 = <<"tmp", "old">> /\ y2 = <<"tmp", "old", "node_modules">> /\ y3 = <<"build">>
        /\ y4 = <<"build", "tmp">> /\ y5 = <<"build", "tmp", "node_modules">>
  OBVIOUS
<1>4. Sandbox!AllDirs = {x1, x2, x3, x4, x5, x6, y1, y2, y3, y4, y5}
  BY <1>2, <1>3, Zenon DEF Sandbox!AllDirs
<1>5. \A a \in DirNames : <<a>> \in Seq(DirNames) /\ Len(<<a>>) = 1
  OBVIOUS
<1>6. \A a, b \in DirNames : <<a, b>> \in Seq(DirNames) /\ Len(<<a, b>>) = 2
  OBVIOUS
<1>7. \A a, b, c \in DirNames : <<a, b, c>> \in Seq(DirNames) /\ Len(<<a, b, c>>) = 3
  OBVIOUS
<1>8. {x1, x4, x6, y3} \subseteq Seq(DirNames) /\ \A d \in {x1, x4, x6, y3} : Len(d) = 1
  BY <1>1, <1>2, <1>3, <1>5
<1>9. {x2, x5, y1, y4} \subseteq Seq(DirNames) /\ \A d \in {x2, x5, y1, y4} : Len(d) = 2
  BY <1>1, <1>2, <1>3, <1>6
<1>10. {x3, y2, y5} \subseteq Seq(DirNames) /\ \A d \in {x3, y2, y5} : Len(d) = 3
  BY <1>1, <1>2, <1>3, <1>7
<1>11. \A S, a : IsFiniteSet(S) => IsFiniteSet(S \cup {a})
  BY FS_AddElement
<1>12. IsFiniteSet({x1, x2, x3, x4, x5, x6})
  <2>1. IsFiniteSet(((((({} \cup {x1}) \cup {x2}) \cup {x3}) \cup {x4}) \cup {x5}) \cup {x6})
    BY <1>11, FS_EmptySet
  <2>2. {x1, x2, x3, x4, x5, x6} = ((((({} \cup {x1}) \cup {x2}) \cup {x3}) \cup {x4}) \cup {x5}) \cup {x6}
    OBVIOUS
  <2> QED BY <2>1, <2>2
<1>13. IsFiniteSet({y1, y2, y3, y4, y5})
  <2>1. IsFiniteSet((((({} \cup {y1}) \cup {y2}) \cup {y3}) \cup {y4}) \cup {y5})
    BY <1>11, FS_EmptySet
  <2>2. {y1, y2, y3, y4, y5} = (((({} \cup {y1}) \cup {y2}) \cup {y3}) \cup {y4}) \cup {y5}
    OBVIOUS
  <2> QED BY <2>1, <2>2
<1>14. {x1, x2, x3, x4, x5, x6, y1, y2, y3, y4, y5} = {x1, x2, x3, x4, x5, x6} \cup {y1, y2, y3, y4, y5}
  OBVIOUS
<1>15. IsFiniteSet(Sandbox!AllDirs)
  BY <1>4, <1>12, <1>13, <1>14, FS_Union
<1>16. Sandbox!AllDirs = {x1, x4, x6, y3} \cup {x2, x5, y1, y4} \cup {x3, y2, y5}
  BY <1>4
<1> QED BY <1>8, <1>9, <1>10, <1>15, <1>16

LEMMA DirsInit ==
  ASSUME dirs \subseteq Sandbox!AllDirs, \A d \in dirs : Len(d) = 1 \/ Sandbox!Parent(d) \in dirs
  PROVE  DirsAreRight
<1>1. IsFiniteSet(dirs) /\ dirs \subseteq Seq(DirNames)
  BY AllDirsFacts, FS_Subset
<1>2. \A d \in dirs : Len(d) \in {1, 2, 3} /\ d \in Seq(DirNames)
  BY AllDirsFacts
<1>3. \A d \in dirs : Sandbox!Parent(d) = SubSeq(d, 1, Len(d) - 1)
  BY DEF Sandbox!Parent, Sandbox!Front
<1>4. ASSUME NEW d \in dirs, NEW n \in 1..Len(d) PROVE SubSeq(d, 1, n) \in dirs
  <2>1. CASE n = Len(d)
    BY <1>2, <2>1, WholeSequence
  <2>2. CASE n = Len(d) - 1
    <3>1. Len(d) # 1
      BY <1>2, <2>2
    <3> QED BY <1>3, <2>2, <3>1
  <2>3. CASE n # Len(d) /\ n # Len(d) - 1
    <3>1. Len(d) = 3 /\ n = 1
      <4>1. PICK m : m = Len(d)
        OBVIOUS
      <4>2. m \in {1, 2, 3} /\ n \in 1..m
        BY <1>2, <1>4, <4>1
      <4>3. n # m /\ n # m - 1
        BY <2>3, <4>1
      <4>4. m = 3 /\ n = 1
        BY <4>2, <4>3
      <4> QED BY <4>1, <4>4
    <3>2. PICK p : p = SubSeq(d, 1, 2)
      OBVIOUS
    <3>3. p \in dirs
      <4>1. Len(d) # 1 /\ Len(d) - 1 = 2
        BY <3>1
      <4> QED BY <1>3, <3>2, <4>1
    <3>4. d \in Seq(DirNames) /\ p \in Seq(DirNames)
      BY <1>2, <3>3
    <3>5. Len(p) = 2 /\ \A i \in 1..2 : p[i] = d[i]
      <4>1. 2 \in 0..Len(d)
        BY <3>1
      <4> QED BY <3>2, <3>4, <4>1, FirstElements
    <3>6. SubSeq(p, 1, 1) \in dirs
      <4>1. Len(p) # 1 /\ Len(p) - 1 = 1
        BY <3>5
      <4> QED BY <1>3, <3>3, <4>1
    <3>7. SubSeq(p, 1, 1) = SubSeq(d, 1, 1)
      <4>1. 1 \in Nat /\ 1 <= Len(p) /\ 1 <= Len(d) /\ \A i \in 1..1 : p[i] = d[i]
        BY <3>1, <3>5
      <4> QED BY <3>4, <4>1, SameStart
    <3> QED BY <3>1, <3>6, <3>7
  <2> QED BY <2>1, <2>2, <2>3
<1> QED BY <1>1, <1>2, <1>4 DEF DirsAreRight

LEMMA DirInit == Sandbox!Init => DirInv
<1>0. SUFFICES ASSUME Sandbox!Init PROVE DirInv
  OBVIOUS
<1>1. dirs \in (IF sandboxStudy = "dirs"
                THEN {ds \in UNION {Sandbox!kSubset(k, Sandbox!AllDirs) : k \in 0..MaxDirs} : \A d \in ds : Len(d) = 1 \/ Sandbox!Parent(d) \in ds}
                ELSE {{}})
  BY <1>0 DEF Sandbox!Init
<1>2. \A k : Sandbox!kSubset(k, Sandbox!AllDirs) \subseteq SUBSET Sandbox!AllDirs
  BY DEF Sandbox!kSubset
<1>3. dirs \subseteq Sandbox!AllDirs /\ \A d \in dirs : Len(d) = 1 \/ Sandbox!Parent(d) \in dirs
  BY <1>1, <1>2
<1>4. DirsAreRight
  BY <1>3, DirsInit
<1>5. tempDirName \in {<<"tmp">>, <<"build", "tmp">>}
  <2>1. tempDirName \in (IF sandboxStudy = "contents" THEN {<<"tmp">>} ELSE {<<"tmp">>, <<"build", "tmp">>})
    BY <1>0 DEF Sandbox!Init
  <2> QED BY <2>1
<1>6. PICK e : e = << >>
  OBVIOUS
<1>7. e \in Seq(DirNames) /\ Len(e) = 0
  BY <1>6
<1>8. queue = <<e>> /\ nodeModulesList = {}
  BY <1>0, <1>6 DEF Sandbox!Init
<1>9. Len(queue) = 1 /\ queue[1] = e
  BY <1>8
<1>10. queue \in Seq({<< >>} \cup dirs)
  <2>1. \A S : e \in S => <<e>> \in Seq(S)
    OBVIOUS
  <2>2. e \in {<< >>} \cup dirs
    BY <1>6
  <2> QED BY <1>8, <2>1, <2>2
<1>11. Clean(e)
  BY <1>7 DEF Clean
<1>12. \A d \in Wanted : IsStart(e, d)
  BY <1>4, <1>7 DEF IsStart, Wanted, DirsAreRight
<1>13. WalkIsRight
  <2>1. \A i \in 1..Len(queue) : i = 1
    BY <1>9
  <2>2. 1 \in 1..Len(queue)
    BY <1>9
  <2> QED BY <1>8, <1>9, <1>10, <1>11, <1>12, <2>1, <2>2 DEF WalkIsRight
<1> QED BY <1>4, <1>5, <1>13 DEF DirInv

-----------------------------------------------------------------------------
(* The theorems *)

\* A step of the specification is a step of each component or leaves it alone.
LEMMA OnlyComponents ==
  [Next]_vars => /\ [Run!Next]_runVars /\ [Report!Next]_reportingVars
                 /\ [Check!Next]_checkerVars /\ [Assembly!Next]_assemblyVars
                 /\ [Prepare!Next]_prepareVars /\ [Sandbox!Next]_sandboxVars
BY DEF Next, RunStep, ReportStep, CheckStep, PrepareStep, FilesStep, AssemblyStep, vars

\* The inductive invariant of StrykerRun: what each phase finds on the disk.
THEOREM LifecycleRunInvariant == Spec => []Run!RunInv
<1>1. Init => Run!RunInv
  <2> SUFFICES ASSUME Run!Init PROVE Run!RunInv
    BY DEF Init
  <2>1. Run!TypeOK
    BY InitTypes
  <2>2. Run!FilesInv
    BY DEF Run!Init, Run!FilesInv, Run!Untouched, Run!Disposals, Run!Over
  <2>3. Run!TempDirInv
    BY DEF Run!Init, Run!TempDirInv, Run!Disposals
  <2> QED BY <2>1, <2>2, <2>3 DEF Run!RunInv
<1>2. Run!RunInv /\ [Next]_vars => Run!RunInv'
  <2> SUFFICES ASSUME Run!TypeOK, Run!FilesInv, Run!TempDirInv, [Run!Next]_runVars
               PROVE  Run!RunInv'
    BY OnlyComponents DEF Run!RunInv
  <2>1. Run!TypeOK'
    BY TypeStep
  <2>2. Run!FilesInv'
    <3>1. CASE UNCHANGED runVars
      BY <3>1 DEF runVars, Run!FilesInv, Run!Untouched, Run!Filled, Run!Filling, Run!SomeFailed
    <3>2. CASE Run!Next
      BY <3>2, ExecutorsKeepFiles, OperationsKeepFiles, DisposalKeepsFiles, ExitKeepsFiles
         DEF Run!Next, Executes, Operates, Disposes
    <3> QED BY <3>1, <3>2
  <2>3. Run!TempDirInv'
    BY TempDirStep
  <2> QED BY <2>1, <2>2, <2>3 DEF Run!RunInv
<1> QED BY <1>1, <1>2, PTL DEF Spec

\* sandbox.ts and unexpected-exit-handler.ts: unless a file operation fails,
\* the original of every file is on disk or in its backup at every moment,
\* with inPlace too, and is back in place when the run is over, also when the
\* process exits while the sandbox is being filled or disposed.
THEOREM LifecycleKeepsOriginals == Spec => []Run!OriginalsSurvive
<1>1. Run!RunInv => Run!OriginalsSurvive
  <2> SUFFICES ASSUME Run!RunInv, ~Run!SomeFailed PROVE Run!OriginalNeverLost /\ (phase \in Run!Over => \A f \in Files : disk[f] = "original")
    BY DEF Run!OriginalsSurvive
  <2>1. phase \in Run!Over => \A f \in Files : disk[f] = "original"
    BY DEF Run!RunInv, Run!FilesInv
  <2>2. \/ Run!Untouched \/ (\A f \in Files : Run!Filled(f) \/ Run!Filling(f))
        \/ \A f \in Files : disk[f] = "original"
    BY DEF Run!RunInv, Run!FilesInv, Run!TypeOK, Run!Executors, Run!Disposals
  <2>3. Run!OriginalNeverLost
    BY <2>2 DEF Run!OriginalNeverLost, Run!Untouched, Run!Filled, Run!Filling
  <2> QED BY <2>1, <2>3
<1> QED BY <1>1, LifecycleRunInvariant, PTL

\* 3-dry-run-executor.ts and 4-mutation-test-executor.ts start on a sandbox
\* that is complete: every file is there with its mutants, and a file that
\* was overwritten has its backup, whatever failed before.
THEOREM LifecycleTestsSeeTheirFiles == Spec => []Run!TestsSeeTheirFiles
<1>1. Run!RunInv => Run!TestsSeeTheirFiles
  <2> SUFFICES ASSUME Run!RunInv, phase \in {"dryRun", "mutationTest"}
               PROVE  IF options.inPlace
                      THEN \A f \in changed : disk[f] = "mutated" /\ f \in stored
                      ELSE stored = Files
    BY DEF Run!TestsSeeTheirFiles
  <2>1. /\ \A f \in Files : Run!Filled(f)
        /\ changed \subseteq Files /\ stored \subseteq Files
    BY DEF Run!RunInv, Run!FilesInv, Run!TypeOK
  <2> QED BY <2>1 DEF Run!Filled
<1> QED BY <1>1, LifecycleRunInvariant, PTL

\* temporary-directory.ts: what is left of a finished run is what cleanTempDir
\* asks to keep, unless a file operation failed while others went on.
THEOREM LifecycleCleansTempDir == Spec => []Run!TempDirPolicy
<1>1. Run!RunInv => Run!TempDirPolicy
  <2> SUFFICES ASSUME Run!RunInv, phase = "ended", tempDir, ~Run!SomeFailed
               PROVE  options.cleanTempDir = "never" \/ (options.cleanTempDir = "onSuccess" /\ failed)
    BY DEF Run!TempDirPolicy
  <2>1. ~remove /\ options.cleanTempDir \in {"never", "onSuccess", "always"}
    BY DEF Run!RunInv, Run!TempDirInv, Run!TypeOK
  <2>2. ~(options.cleanTempDir # "never" /\ (failed => options.cleanTempDir = "always"))
    BY <2>1 DEF Run!RunInv, Run!TempDirInv
  <2> QED BY <2>1, <2>2
<1> QED BY <1>1, LifecycleRunInvariant, PTL

\* The invariant of the reporters and of the report: what every stage says of
\* the writers, the files of the recorder, the timer, the exit code and of what
\* has been counted; and what the coverage and the results say of the report.
THEOREM LifecycleReportingInvariant == Spec => [](OutcomeInv /\ ProgressInv /\ AssemblyInv)
<1>1. Init => OutcomeInv /\ ProgressInv /\ AssemblyInv
  BY OutcomeInit, ProgressInit, AssemblyInit DEF Init
<1>2. OutcomeInv /\ ProgressInv /\ AssemblyInv /\ [Next]_vars => (OutcomeInv /\ ProgressInv /\ AssemblyInv)'
  BY OnlyComponents, OutcomeSteps, ProgressSteps, AssemblySteps DEF OutcomeInv
<1> QED BY <1>1, <1>2, PTL DEF Spec

\* broadcast-reporter.ts, event-recorder-reporter.ts, html-reporter.ts and
\* json-reporter.ts: whatever fails and whenever, wrapUp() leaves no report
\* open and no event out of order, the exit code is right, and a failure ends
\* the process only where nobody awaits it.  progress-keeper.ts: in whatever
\* order results come, the mutants that are run are counted once each, and the
\* ticks reach their total with the last one.  mutation-test-report-helper.ts:
\* every test has one definition in the report, at its place in its own file,
\* and every result is there once, with the tests that cover it under the ids
\* that those definitions have.
THEOREM LifecycleReportingIsRight == Spec => []ReportingIsRight
<1>1. OutcomeInv /\ ProgressInv /\ AssemblyInv => ReportingIsRight
  BY OutcomeImplies, ProgressImplies, TestsInTheReport, ResultsInTheReport DEF ReportingIsRight, OutcomeIsRight
<1> QED BY <1>1, LifecycleReportingInvariant, PTL

\* checker-facade.ts, checker-retry-decorator.ts and checker-worker.ts: what
\* check() and group() resolve with names every mutant that was asked for and
\* no other, whatever the plugin answers; and a call fails with a crash only
\* after a second one, on a process in which every checker was initialised.
THEOREM LifecycleCheckersAreSound == Spec => []CheckersAreSound
<1>1. Init => AttemptsInv /\ Check!AnswersAreComplete
  BY CheckerInit DEF Init
<1>2. AttemptsInv /\ Check!AnswersAreComplete /\ [Next]_vars => (AttemptsInv /\ Check!AnswersAreComplete)'
  BY OnlyComponents, CheckerSteps
<1>3. AttemptsInv /\ Check!AnswersAreComplete => CheckersAreSound
  BY DEF AttemptsInv, CheckersAreSound, Check!OneCrashIsSurvived
<1> QED BY <1>1, <1>2, <1>3, PTL DEF Spec

\* options-validator.ts, config-reader.ts, plugin-loader.ts and
\* plugin-creator.ts: options that are used are valid, with no deprecated
\* setting left; the command line has the last word but for the deprecated
\* settings; whatever the schema complains of, the user is shown an error;
\* which plugin a name finds does not depend on which import ends first; and
\* validating a second time changes nothing.
THEOREM LifecycleOptionsAreSound == Spec => OptionsAreSound
<1>1. Init => PrepareInv
  BY PrepareInit DEF Init
<1>2. PrepareInv /\ [Next]_vars => PrepareInv'
  BY OnlyComponents, PrepareKeeps
<1>3. PrepareInv => (part = "prepare" => /\ Prepare!FrozenOptionsAreValid /\ Prepare!CommandLineWins
                                         /\ Prepare!AnErrorIsShown /\ Prepare!FirstDescriptorWins)
  BY OptionsAreValid, CommandLineHasTheLastWord, ErrorsAreShown, FirstPluginWins
<1>4. PrepareInv /\ [Next]_vars => [Prepare!Revalidate => prepOptions' = prepOptions]_Prepare!vars
  BY RevalidateChangesNothing
<1> QED BY <1>1, <1>2, <1>3, <1>4, PTL DEF Spec, OptionsAreSound, Prepare!SecondValidationChangesNothing

\* What the invariant of SandboxFiles says of a file, of a tsconfig file and
\* of a directory.
THEOREM LifecycleSandboxInvariant == Spec => [](ContentsInv /\ ReferencesInv /\ DirInv)
<1>1. Init => ContentsInv /\ ReferencesInv /\ DirInv
  BY ContentsInit, ReferencesInit, DirInit DEF Init
<1>2. ContentsInv /\ ReferencesInv /\ DirInv /\ [Next]_vars => (ContentsInv /\ ReferencesInv /\ DirInv)'
  BY OnlyComponents, ContentsSteps, ReferencesSteps, DirSteps
<1> QED BY <1>1, <1>2, PTL DEF Spec

\* sandbox.ts, project-file.ts, disable-type-checks-preprocessor.ts,
\* ts-config-preprocessor.ts and file-utils.ts: what the user wrote survives a
\* run, tests run on complete sandboxes, and cleanTempDir is obeyed; a file in
\* the working directory has the changes of everybody who made one, and a file
\* that was overwritten has a backup; relative references of tsconfig files
\* lead where they led before, however far the walk goes; and the node_modules
\* directories outside of each other are linked, and no other directory.
THEOREM LifecycleRunIsSafe == Spec => []RunIsSafe
<1>1. Run!RunInv => Run!TypeOK
  BY DEF Run!RunInv
<1>2. ContentsInv /\ ReferencesInv /\ DirInv =>
        Sandbox!ContentsAreRight /\ Sandbox!ReferencesLeadRight /\ Sandbox!NodeModulesAreLinked
  BY ContentsImplies, ReferencesImplies, DirImplies
<1>3. Run!TypeOK /\ Run!OriginalsSurvive /\ Run!TestsSeeTheirFiles /\ Run!TempDirPolicy
      /\ Sandbox!ContentsAreRight /\ Sandbox!ReferencesLeadRight /\ Sandbox!NodeModulesAreLinked => RunIsSafe
  BY DEF RunIsSafe
<1> QED BY <1>1, <1>2, <1>3, LifecycleRunInvariant, LifecycleKeepsOriginals, LifecycleTestsSeeTheirFiles, LifecycleCleansTempDir,
           LifecycleSandboxInvariant, PTL
=============================================================================
