------------------------------ MODULE Reporting ------------------------------
(***************************************************************************)
(* How the outcome of a run reaches the user: MutationTestReportHelper     *)
(* broadcasts the events of the run, BroadcastReporter hands each to every *)
(* reporter, the progress reporters count, the html, json, dashboard and   *)
(* event recorder reporters work in the background until wrapUp() awaits   *)
(* them.  A promise that rejects before anyone awaits it ends the process: *)
(* the main process has no handler for unhandled rejections.               *)
(***************************************************************************)
EXTENDS Naturals, Sequences, FiniteSets, FiniteSetsExt

CONSTANTS Mutants,
          Times,       \* net time of a mutant, in milliseconds
          Overhead,    \* RunTiming.overhead
          Break,       \* thresholds.break
          Statuses,    \* what the mutants may get
          ReporterSets      \* sets of reporters to choose from (options.reporters)

VARIABLES
  stage,      \* what the run is at, or how it ended
  settings,   \* the reporters, reloadEnvironment of the test runner, options.incremental
  plan,       \* the plan of every mutant
  reported,   \* the mutants reported so far with their status
  progress,   \* ProgressKeeper.progress
  interval,   \* the timer of ProgressAppendOnlyReporter is running
  work,       \* for each reporter that works in the background, its promise
  recorded,   \* the events that EventRecorderReporter was told
  files,      \* the numbered files it has begun to write, how many are open, did one fail
  exitCode

reportingVars == <<stage, settings, plan, reported, progress, interval, work, recorded, files, exitCode>>

Detected   == {"Killed", "Timeout"}
Undetected == {"Survived", "NoCoverage"}

Writers == {"html", "json", "dashboard"}

Over == {"done", "rejected", "crashed"}

Has(reporter) == reporter \in settings.reporters

NoProgress == [survived |-> 0, timedOut |-> 0, tested |-> 0, mutants |-> 0, total |-> 0, ticks |-> 0]

Init ==
  /\ stage = "start" /\ plan = << >> /\ reported = << >>
  /\ settings = [reporters |-> {}, reloads |-> FALSE, incremental |-> FALSE]
  /\ progress = NoProgress /\ interval = FALSE
  /\ work = [w \in Writers \cup {"baseFolder"} |-> "none"]
  /\ recorded = << >> /\ files = [begun |-> << >>, open |-> 0, failed |-> FALSE]
  /\ exitCode = 0

(* Without a terminal `progress' becomes `progress-append-only'.            *)
CreateReporters ==
  /\ stage = "start" /\ stage' = "dryRun"
  /\ \E configured \in ReporterSets, isTTY, reloads, incremental \in BOOLEAN :
       /\ settings' = [reporters |-> {IF r = "progress" /\ ~isTTY THEN "progress-append-only" ELSE r : r \in configured},
                       reloads |-> reloads, incremental |-> incremental]
       /\ work' = [work EXCEPT !["baseFolder"] = IF "recorder" \in configured THEN "busy" ELSE "none"]
  /\ UNCHANGED <<plan, reported, progress, interval, recorded, files, exitCode>>
--------------------------------------------------------------------------------
(* EventRecorderReporter: an event waits for the base folder, then it gets  *)
(* the next number; the folder lets the events go in the order they came.   *)
Record(event) ==
  IF Has("recorder")
  THEN /\ recorded' = Append(recorded, event)
       /\ files' = IF work["baseFolder"] = "done"
                   THEN [files EXCEPT !.begun = Append(@, event), !.open = @ + 1]
                   ELSE files
  ELSE UNCHANGED <<recorded, files>>

(* cleanFolder; nobody looks at a failure before wrapUp().                  *)
BaseFolderCleaned ==
  /\ work["baseFolder"] = "busy" /\ stage \notin Over
  /\ work' = [work EXCEPT !["baseFolder"] = "done"]
  /\ files' = [files EXCEPT !.begun = recorded, !.open = Len(recorded)]
  /\ UNCHANGED <<stage, settings, plan, reported, progress, interval, recorded, exitCode>>

FileWritten ==
  /\ files.open > 0 /\ stage \notin Over
  /\ files' = [files EXCEPT !.open = @ - 1]
  /\ UNCHANGED <<stage, settings, plan, reported, progress, interval, work, recorded, exitCode>>

(* wrapUp() awaits the folder first: when that fails the rest has no one.   *)
BaseFolderFails ==
  /\ work["baseFolder"] = "busy" /\ stage \notin Over
  /\ stage' = "crashed"
  /\ UNCHANGED <<settings, plan, reported, progress, interval, work, recorded, files, exitCode>>

FileFails ==
  /\ files.open > 0 /\ stage \notin Over
  /\ stage' = IF stage = "wrapUp" THEN stage ELSE "crashed"
  /\ files' = [files EXCEPT !.failed = TRUE]
  /\ UNCHANGED <<settings, plan, reported, progress, interval, work, recorded, exitCode>>
--------------------------------------------------------------------------------
DryRunCompleted ==
  /\ stage = "dryRun" /\ stage' = "planning"
  /\ Record("onDryRunCompleted")
  /\ UNCHANGED <<settings, plan, reported, progress, interval, work, exitCode>>

\* Mutant of Ticks: a planned reload of the environment costs nothing until it is done.
TicksOfEveryRunner(p) == IF stage = "planning" THEN p.netTime ELSE p.netTime + IF p.reloadEnvironment THEN Overhead ELSE 0

(* The ticks of a mutant that is run; a mutant with an early result has none. *)
Ticks(p) == p.netTime + IF ~settings.reloads /\ p.reloadEnvironment THEN Overhead ELSE 0

PlanReady ==
  /\ stage = "planning" /\ stage' = "testing"
  /\ plan' \in [Mutants -> [run : BOOLEAN, netTime : Times, reloadEnvironment : BOOLEAN]]
  /\ LET runs == {m \in Mutants : plan'[m].run}
     IN  progress' = [progress EXCEPT !.mutants = Cardinality(runs), !.total = MapThenSumSet(LAMBDA m : Ticks(plan'[m]), runs)]
  /\ interval' = (Has("progress-append-only") /\ Mutants # {})
  /\ Record("onMutationTestingPlanReady")
  /\ UNCHANGED <<settings, reported, work, exitCode>>

Bit(b) == IF b THEN 1 ELSE 0

(* reportOne, and ProgressKeeper.onMutantTested.                            *)
MutantTested(m, status) ==
  /\ stage = "testing" /\ m \notin DOMAIN reported
  /\ reported' = [r \in DOMAIN reported \cup {m} |-> IF r = m THEN status ELSE reported[r]]
  /\ progress' = IF plan[m].run
                 THEN [progress EXCEPT !.tested = @ + 1, !.ticks = @ + Ticks(plan[m]),
                         !.survived = @ + Bit(status = "Survived"), !.timedOut = @ + Bit(status = "Timeout")]
                 ELSE progress
  /\ Record("onMutantTested")
  /\ UNCHANGED <<stage, settings, plan, interval, work, exitCode>>

(* determineExitCode: a score of NaN, without valid mutants, breaks nothing. *)
ScoreIsBelow(threshold) ==
  LET count(statuses) == Cardinality({m \in DOMAIN reported : reported[m] \in statuses})
  IN  100 * count(Detected) < threshold * count(Detected \cup Undetected)

DetermineExitCode == exitCode' = IF ScoreIsBelow(Break) THEN 1 ELSE exitCode

(* reportAll, up to the incremental file.  The dashboard is only told when  *)
(* project and version are known; a CI variable that is missing rejects at  *)
(* once, which is noticed when the next macrotask comes before wrapUp().    *)
ReportReady ==
  /\ stage = "testing" /\ DOMAIN reported = Mutants
  /\ interval' = FALSE
  /\ \E context \in {"complete", "unknown", "missing"} :
       LET rejects == Has("dashboard") /\ context = "missing"
       IN  /\ work' = [w \in DOMAIN work |->
                         CASE w = "baseFolder" \/ ~Has(w) -> work[w]
                           [] w = "dashboard" /\ Has(w) /\ context # "complete" ->
                                IF context = "missing" THEN "failed" ELSE "done"
                           [] OTHER -> "busy"]
           /\ stage' = CASE ~settings.incremental -> "wrapUp"
                         [] settings.incremental /\ rejects -> "crashed"
                         [] OTHER -> "saving"
  /\ IF settings.incremental THEN UNCHANGED exitCode ELSE DetermineExitCode
  /\ Record("onMutationTestReportReady")
  /\ UNCHANGED <<settings, plan, reported, progress>>

IncrementalFileSaved ==
  /\ stage = "saving" /\ stage' = "wrapUp"
  /\ DetermineExitCode
  /\ UNCHANGED <<settings, plan, reported, progress, interval, work, recorded, files>>

(* A job of a pool rejects, or the incremental file cannot be written.      *)
RunRejects ==
  /\ stage \in {"dryRun", "planning", "testing", "saving"} /\ stage' = "rejected"
  /\ exitCode' = 1
  /\ UNCHANGED <<settings, plan, reported, progress, interval, work, recorded, files>>

WriterEnds(w) ==
  /\ w \in Writers /\ work[w] = "busy" /\ stage \notin Over
  /\ work' = [work EXCEPT ![w] = "done"]
  /\ UNCHANGED <<stage, settings, plan, reported, progress, interval, recorded, files, exitCode>>

(* The dashboard reporter catches and logs a failed upload; the others      *)
(* leave their failure to wrapUp().                                         *)
WriterFails(w) ==
  /\ w \in Writers /\ work[w] = "busy" /\ stage \notin Over
  /\ work' = [work EXCEPT ![w] = "failed"]
  /\ stage' = IF w # "dashboard" /\ stage = "saving" THEN "crashed" ELSE stage
  /\ UNCHANGED <<settings, plan, reported, progress, interval, recorded, files, exitCode>>

(* wrapUp() resolves: broadcast has caught what rejected.                   *)
WrappedUp ==
  /\ stage = "wrapUp" /\ stage' = "done"
  /\ \A w \in DOMAIN work : work[w] # "busy"
  /\ files.open = 0 \/ files.failed
  /\ UNCHANGED <<settings, plan, reported, progress, interval, work, recorded, files, exitCode>>

Next ==
  \/ CreateReporters \/ DryRunCompleted \/ PlanReady
  \/ \E m \in Mutants, status \in Statuses : MutantTested(m, status)
  \/ ReportReady \/ IncrementalFileSaved \/ RunRejects \/ WrappedUp
  \/ \E w \in Writers : WriterEnds(w) \/ WriterFails(w)
  \/ BaseFolderCleaned \/ BaseFolderFails \/ FileWritten \/ FileFails

Spec == Init /\ [][Next]_reportingVars
--------------------------------------------------------------------------------
TestedRuns == {m \in DOMAIN reported : plan[m].run}

(***************************************************************************)
(* Progress counts the mutants that are run, once each, and reaches 100%   *)
(* when the last one has been reported, in whatever order results come.    *)
(***************************************************************************)
ProgressAddsUp ==
  stage \in {"testing", "saving", "wrapUp", "done"} =>
    /\ progress.tested = Cardinality(TestedRuns)
    /\ progress.ticks <= progress.total /\ progress.tested <= progress.mutants
    /\ progress.survived + progress.timedOut <= progress.tested
    /\ DOMAIN reported = Mutants => progress.ticks = progress.total /\ progress.tested = progress.mutants

(***************************************************************************)
(* When wrapUp() is over every report is written or has failed, the events *)
(* are in numbered files in the order in which they happened, and nothing  *)
(* that would keep the process alive is left.                              *)
(***************************************************************************)
NothingLeftBehind ==
  stage = "done" =>
    /\ \A w \in DOMAIN work : work[w] # "busy"
    /\ files.begun = recorded /\ (files.open = 0 \/ files.failed)
    /\ ~interval

(***************************************************************************)
(* The exit code tells that the run was rejected or the score is too low,  *)
(* and a mutant that was not valid counts for neither.                     *)
(***************************************************************************)
ExitCodeIsRight ==
  stage \in {"rejected", "done"} =>
    (exitCode = 1) = (stage = "rejected" \/ ScoreIsBelow(Break))

(***************************************************************************)
(* A reporter that fails while it writes does not end the run, except      *)
(* while the incremental file is written and for the event recorder.       *)
(***************************************************************************)
FailuresAreContained ==
  stage = "crashed" =>
    \/ settings.incremental /\ \E w \in Writers : work[w] = "failed"
    \/ files.failed \/ work["baseFolder"] = "busy"

(***************************************************************************)
(* A reporter that fails never ends the run.                               *)
(***************************************************************************)
FaultyReporterIsHarmless == stage # "crashed"

(***************************************************************************)
(* When a run is over, however it ended, the process can end: no timer is  *)
(* left running.                                                           *)
(***************************************************************************)
NoTimerLeft == stage \in Over => ~interval
================================================================================
