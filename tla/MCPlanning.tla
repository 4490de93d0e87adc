------------------------------ MODULE MCPlanning ------------------------------
(***************************************************************************)
(* What happens between reading the project and running its mutants, for   *)
(* TLC: ProjectReader, the instrumenter (Instrumenter, MutationLevels and  *)
(* EmbeddedScripts), FileDiff, IncrementalDiffer and MutantTestPlanner,    *)
(* side by side.  `part' chooses which of them moves; the others stay in   *)
(* their initial states, so the state spaces add up.                       *)
(***************************************************************************)
EXTENDS Integers, Sequences, FiniteSets

CONSTANTS MaxText, MaxAdded, MaxChanges, Mutants, Tests, MaxEdits,
          Ranges, Depth, MaxPatterns, Planned, DryRunTests, OtherTests, Times,
          Groups, MaxShaped, MaxJudged, MaxLine, MaxSpecial, MaxEntries, MaxPieces

ASSUME BoundsAssumption ==
  /\ {MaxText, MaxAdded, MaxChanges, Depth, MaxLine, MaxPieces} \subseteq Nat \ {0}
  /\ {MaxEdits, MaxPatterns, MaxShaped, MaxJudged, MaxSpecial, MaxEntries} \cup Times \subseteq Nat
  /\ Groups # {}

\* What comes from a project is finite, and a range, which is written with the
\* name of its file, is not called like the two answers for a whole file.
ASSUME InputAssumption ==
  /\ IsFiniteSet(Planned) /\ IsFiniteSet(DryRunTests) /\ IsFiniteSet(OtherTests)
  /\ {"true", "false"} \cap Ranges = {}

VARIABLES part,
          oldText, item, newText, places, script, state, tests,   \* FileDiff
          code, touched, edits, report, last,           \* IncrementalDiffer
          rules, included, patterns, mutate,            \* ProjectReader
          dryRun, plans,                                \* MutantTestPlanner
          study, wanted, excluded, tree, open, ignoreRules, ignoring, mutants, placements, placed,  \* Instrumenter
          includedMutations, excludedMutations, node,   \* MutationLevels
          format, pieces, scripts, output               \* EmbeddedScripts

File    == INSTANCE FileDiff
Differ  == INSTANCE IncrementalDiffer
Reader  == INSTANCE ProjectReader
Planner == INSTANCE MutantTestPlanner
Walk    == INSTANCE Instrumenter
Levels  == INSTANCE MutationLevels
Embed   == INSTANCE EmbeddedScripts

fileVars    == <<oldText, item, newText, places, script, state, tests>>
differVars  == <<code, touched, edits, report, last>>
readerVars  == <<rules, included, patterns, mutate>>
plannerVars == <<dryRun, plans>>
walkVars    == <<study, wanted, excluded, tree, open, ignoreRules, ignoring, mutants, placements, placed>>
levelVars   == <<includedMutations, excludedMutations, node>>
embedVars   == <<format, pieces, scripts, output>>

vars == <<part, fileVars, differVars, readerVars, plannerVars, walkVars, levelVars, embedVars>>

Init ==
  /\ part \in {"file", "differ", "reader", "planner", "walk", "levels", "embed"}
  /\ File!Init /\ Reader!Init /\ Planner!Init
  /\ Differ!Init /\ (part # "differ" => code.static = {})
  /\ Walk!Init /\ (part # "walk" => study = "placement")
  /\ Levels!Init /\ (part # "levels" => includedMutations = Levels!NotSet)
  /\ Embed!Init /\ (part # "embed" => format = "script")

planningVars   == <<fileVars, differVars, readerVars, plannerVars>>
instrumentVars == <<walkVars, levelVars, embedVars>>

FileStep    == part = "file" /\ File!Next /\ UNCHANGED <<part, differVars, readerVars, plannerVars, instrumentVars>>
DifferStep  == part = "differ" /\ Differ!Next /\ UNCHANGED <<part, fileVars, readerVars, plannerVars, instrumentVars>>
ReaderStep  == part = "reader" /\ Reader!Next /\ UNCHANGED <<part, fileVars, differVars, plannerVars, instrumentVars>>
PlannerStep == part = "planner" /\ Planner!Next /\ UNCHANGED <<part, fileVars, differVars, readerVars, instrumentVars>>
WalkStep    == part = "walk" /\ Walk!Next /\ UNCHANGED <<part, planningVars, levelVars, embedVars>>
LevelStep   == part = "levels" /\ Levels!Next /\ UNCHANGED <<part, planningVars, walkVars, embedVars>>
EmbedStep   == part = "embed" /\ Embed!Next /\ UNCHANGED <<part, planningVars, walkVars, levelVars>>

Next == FileStep \/ DifferStep \/ ReaderStep \/ PlannerStep \/ WalkStep \/ LevelStep \/ EmbedStep

Spec == Init /\ [][Next]_vars

(* FileDiff: a kept item has the location of its code, and a test of the    *)
(* old report ends where the next one starts.                              *)
DiffIsRight == part = "file" => File!KeptFollowsItsCode /\ File!TestsReachTheNext

(* ProjectReader: the last rule that matches decides what is ignored, and   *)
(* what is selected after the last exclusion is what is mutated.            *)
SelectionIsRight == part = "reader" => Reader!TypeOK /\ Reader!LastRuleWins /\ Reader!MutatesTheSelection

(* IncrementalDiffer: a reused verdict is the one a new run would give, and *)
(* the tests that results refer to are in the report.                       *)
ReportIsSound == part = "differ" => Differ!TypeOK /\ Differ!VerdictsAreSound /\ Differ!ReferencesResolve

(* IncrementalDiffer: the report covers the whole project, and a project    *)
(* that did not change is not tested again.                                 *)
ReportIsComplete == Differ!NothingForgotten /\ Differ!SecondRunReusesAll

(* MutantTestPlanner: every test that can kill a mutant is run, limits      *)
(* leave room for the overhead, and the warning is about static mutants.    *)
PlansAreRight == part = "planner" => Planner!PlanMissesNoKill /\ Planner!LimitsLeaveRoom /\ Planner!WarningIsAboutStatics

(* Instrumenter: with a mutant active the program runs its replacement and  *)
(* otherwise the original code, and what is mutated and what is ignored is  *)
(* what ranges, directives and ignorers say.                                *)
InstrumentationIsRight ==
  part = "walk" =>
    Walk!TypeOK /\ Walk!SwitchingSelectsOne /\ Walk!LastDirectiveDecides /\ Walk!IgnorersCoverTheirNode /\ Walk!MutantsAreWanted

(* MutationLevels: which operators run, and what the mutators make.         *)
LevelsAreRight ==
  part = "levels" =>
    /\ excludedMutations = Levels!NotSet => Levels!LevelsAreMadeOfOperators
    /\ Levels!RunLevelIsAsAsked /\ Levels!MutantsAreDifferent

(* EmbeddedScripts: scripts are found, mutated and printed where they are.  *)
ScriptsAreRight ==
  part = "embed" =>
    /\ Embed!RangesAreRight /\ Embed!MutantsAreWhereTheyAre
    /\ Embed!ScriptsStayInPlace /\ Embed!TypeChecksAreDisabled
================================================================================
