----------------------------- MODULE MCLifecycle -----------------------------
(***************************************************************************)
(* A run around the pools, for TLC: Preparation (options and plugins),     *)
(* StrykerRun (the executors, the user's files, disposal), SandboxFiles    *)
(* (what the files contain), Reporting (the reporters and the exit code),  *)
(* ReportAssembly (tests and results in a report) and CheckerStack (one    *)
(* resource of the checker pool), side by side.                            *)
(* `part' chooses which of them moves, so the state spaces add up.         *)
(***************************************************************************)
EXTENDS Naturals, Sequences, FiniteSets

CONSTANTS Files, Mutants, Times, Overhead, Break, Statuses, ReporterSets, Checkers, Checked, Stranger,
          MaxSettings, MaxErrors, Cpus, MaxDirs, MaxTests, MaxResults

ASSUME LifecycleAssumption ==
  /\ Times \subseteq Nat /\ {Overhead, Break} \subseteq Nat /\ IsFiniteSet(Mutants)
  /\ Stranger \notin Checked

\* Values for the configuration.
TwoCheckers  == <<"tsc", "lint">>
SomeStatuses == {"Killed", "Timeout", "Survived", "RuntimeError"}
SomeReporters == {{"progress", "html"}, {"recorder"}, {"html", "dashboard"}}

VARIABLES part,
          options, changed, phase, failed, io, disk, stored, tempDir, remove, listening, fsOpen,  \* StrykerRun
          stage, settings, plan, reported, progress, interval, work, recorded, files, exitCode,   \* Reporting
          call, tries, worker, started, crashes, reply,                                           \* CheckerStack
          study, prepPhase, cli, file, fileKind, prepOptions, errors, shown, descriptors, gives, loads, modules, schemas, \* Preparation
          sandboxStudy, tempDirName, inPlace, fileStage, projectFiles, matched, written, backups, uses, rewritten,
          touched, stack, dirs, queue, nodeModulesList,                                            \* SandboxFiles
          nocheck, ran, testsById, results, report                                                 \* ReportAssembly

Run    == INSTANCE StrykerRun
Report == INSTANCE Reporting
Check  == INSTANCE CheckerStack
Prepare == INSTANCE Preparation WITH phase <- prepPhase, options <- prepOptions
Sandbox == INSTANCE SandboxFiles
Assembly == INSTANCE ReportAssembly

runVars       == <<options, changed, phase, failed, io, disk, stored, tempDir, remove, listening, fsOpen>>
reportingVars == <<stage, settings, plan, reported, progress, interval, work, recorded, files, exitCode>>
checkerVars   == <<call, tries, worker, started, crashes, reply>>
prepareVars   == <<study, prepPhase, cli, file, fileKind, prepOptions, errors, shown, descriptors, gives, loads, modules, schemas>>
sandboxVars   == <<sandboxStudy, tempDirName, inPlace, fileStage, projectFiles, matched, written, backups, uses, rewritten,
                   touched, stack, dirs, queue, nodeModulesList>>
assemblyVars  == <<nocheck, ran, testsById, results, report>>

vars == <<part, runVars, reportingVars, checkerVars, prepareVars, sandboxVars, assemblyVars>>

Init ==
  /\ part \in {"run", "report", "check", "prepare", "files", "assembly"}
  /\ (part # "files" => sandboxStudy = "contents" /\ inPlace = FALSE /\ matched = [f \in Sandbox!Names |-> "no"])
  /\ Sandbox!Init
  /\ (part # "assembly" => nocheck = [f \in Assembly!TestFiles \ {Assembly!NoFile} |-> "no"]) /\ Assembly!Init
  /\ Run!Init /\ (part # "run" => changed = {} /\ ~options.inPlace /\ options.cleanTempDir = "never")
  /\ Report!Init /\ Check!Init
  /\ (part # "prepare" => study = "options" /\ fileKind = "none" /\ gives = [m \in Prepare!Modules |-> "both"])
  /\ Prepare!Init

RunStep    == part = "run" /\ Run!Next /\ UNCHANGED <<part, reportingVars, checkerVars, prepareVars, sandboxVars, assemblyVars>>
ReportStep == part = "report" /\ Report!Next /\ UNCHANGED <<part, runVars, checkerVars, prepareVars, sandboxVars, assemblyVars>>
CheckStep  == part = "check" /\ Check!Next /\ UNCHANGED <<part, runVars, reportingVars, prepareVars, sandboxVars, assemblyVars>>
PrepareStep == part = "prepare" /\ Prepare!Next /\ UNCHANGED <<part, runVars, reportingVars, checkerVars, sandboxVars, assemblyVars>>
FilesStep  == part = "files" /\ Sandbox!Next /\ UNCHANGED <<part, runVars, reportingVars, checkerVars, prepareVars, assemblyVars>>
AssemblyStep == part = "assembly" /\ Assembly!Next
                /\ UNCHANGED <<part, runVars, reportingVars, checkerVars, prepareVars, sandboxVars>>

Next == RunStep \/ ReportStep \/ CheckStep \/ PrepareStep \/ FilesStep \/ AssemblyStep

Fairness == (part = "run" => Run!Fairness) /\ (part = "check" => Check!Fairness)

Spec == Init /\ [][Next]_vars /\ Fairness

(* StrykerRun: the user's files survive a run without I/O failures, tests   *)
(* run on complete sandboxes, and cleanTempDir is obeyed.  SandboxFiles:    *)
(* what is in a sandbox are the changes of all preprocessors, references    *)
(* that lead where they led before, and the node_modules directories.       *)
RunIsSafe ==
  /\ part = "run" => Run!TypeOK /\ Run!OriginalsSurvive /\ Run!TestsSeeTheirFiles /\ Run!TempDirPolicy
  /\ part = "files" => Sandbox!ContentsAreRight /\ Sandbox!ReferencesLeadRight /\ Sandbox!NodeModulesAreLinked

(* Reporting: progress adds up, wrapUp leaves nothing behind, the exit code *)
(* is right, and which failures of a reporter can end the process.          *)
(* ReportAssembly: every test and every result is in the report once, in    *)
(* its own file, and the new ids name the tests that the old ones named.    *)
ReportingIsRight ==
  /\ Report!ProgressAddsUp /\ Report!NothingLeftBehind /\ Report!ExitCodeIsRight /\ Report!FailuresAreContained
  /\ part = "assembly" => Assembly!TestsAreReported /\ Assembly!ResultsAreReported

(* CheckerStack: answers are complete, and one crash per call is survived.  *)
CheckersAreSound == Check!AnswersAreComplete /\ Check!OneCrashIsSurvived

(* Preparation: options that are used are valid and the command line has    *)
(* the last word; a schema's errors stop the run; the plugin that is found  *)
(* does not depend on the order of imports; validating twice is harmless.   *)
OptionsAreSound ==
  /\ [](part = "prepare" => /\ Prepare!FrozenOptionsAreValid /\ Prepare!CommandLineWins
                            /\ Prepare!AnErrorIsShown /\ Prepare!FirstDescriptorWins)
  /\ Prepare!SecondValidationChangesNothing

(* StrykerRun, CheckerStack: a run ends and a call settles.                 *)
EverythingSettles == (part = "run" => Run!RunEnds) /\ Check!CallsSettle
================================================================================
