--------------------------- MODULE TestRunnerPlugins ---------------------------
(***************************************************************************)
(* The test runner plugins between the test framework and the instrumented *)
(* code.  Both share one object, the namespace `__stryker__' with the      *)
(* active mutant, the current test, the hit count and the coverage.  A     *)
(* plugin sets it around a dry run, and then around one mutant run after   *)
(* another in the same process; the plan of a run follows from the         *)
(* coverage that the dry run has found.                                    *)
(*                                                                         *)
(* A test t has a place where its file is loaded, its suite's setup and    *)
(* its body.  A mutant is at some of these places, and when it is active   *)
(* there, it breaks the test, leaves it alone, or never stops being hit.   *)
(***************************************************************************)
EXTENDS Naturals, Sequences, FiniteSets, SequencesExt

CONSTANTS Tests,       \* a sequence
          Plugins,
          Shapes       \* the programs: for each mutant its places and what it does

VARIABLES
  world,      \* plugin, coverageAnalysis, ignoreStatic, the mutants
  run,        \* the run that is busy: mutant, filter, activation, limited, bail
  todo,       \* the places that it still has to execute
  ns,         \* currentTestId, and over: hitCount is above hitLimit
  loaded,     \* the plugin has loaded the files in this process
  grep,       \* the filter that mocha was given last, or "all"
  broken,     \* the tests whose loaded files are broken, whose setup or body is
  failed,     \* the tests that the run has reported as failed
  coverage,   \* what has been covered: pairs of a mutant and a test or "static"
  staticRun,  \* the last run in this process had a static mutant
  outcome     \* for each mutant its verdict

pluginVars == <<world, run, todo, ns, loaded, grep, broken, failed, coverage, staticRun, outcome>>

TestSet == Range(Tests)
None == [of |-> "none"]
Idle == [of |-> "idle"]     \* after the dry run, between two runs
Load(t)  == <<"load", t>>
Setup(t) == <<"setup", t>>
Body(t)  == <<"body", t>>

NoNamespace == [currentTestId |-> "none", over |-> FALSE]
NotBroken   == [load |-> {}, now |-> {}]

Mutated == DOMAIN world.mutants
Places(m) == world.mutants[m].places
Kind(m)   == world.mutants[m].kind

Init ==
  /\ world = None /\ run = None /\ todo = << >> /\ ns = NoNamespace /\ loaded = FALSE /\ grep = {}
  /\ broken = NotBroken /\ failed = {} /\ coverage = {} /\ staticRun = FALSE /\ outcome = << >>
--------------------------------------------------------------------------------
(* What a plugin can: reload its files for every run, and from where on it  *)
(* makes the mutant of a run active.                                        *)
Jest     == [reloads |-> TRUE, activates |-> "load"]

(* Mutated: mocha activates every mutant before it loads the files.         *)
MochaActivatesEarly(activation) == [reloads |-> FALSE, activates |-> "load"]

Mocha(activation) ==
  [reloads |-> FALSE, activates |-> IF activation = "static" THEN "load" ELSE "run"]
Jasmine(activation) ==
  [reloads |-> FALSE, activates |-> IF activation = "static" THEN "load" ELSE "run"]
Vitest(activation) ==
  [reloads |-> TRUE, activates |-> IF activation = "static" THEN "load" ELSE "test"]
Karma    == [reloads |-> TRUE, activates |-> "load"]
Cucumber == [reloads |-> FALSE, activates |-> "load"]
Tap      == [reloads |-> TRUE, activates |-> "load"]

Plugin(activation) ==
  CASE world.plugin \in {"jest", "jest-jasmine2"} -> Jest
    [] world.plugin = "mocha"    -> Mocha(activation)
    [] world.plugin = "jasmine"  -> Jasmine(activation)
    [] world.plugin = "vitest"   -> Vitest(activation)
    [] world.plugin = "karma"    -> Karma
    [] world.plugin = "cucumber" -> Cucumber
    [] world.plugin = "tap"      -> Tap

(* When a test starts its id is the current one, if coverage per test is    *)
(* asked for; vitest always does that.  What is left when it is over:       *)
(* jest-circus, vitest and cucumber forget it.                              *)
JestTracks     == [starts |-> world.analysis = "perTest", forgets |-> TRUE]
Jasmine2Tracks == [starts |-> world.analysis = "perTest", forgets |-> FALSE]
MochaTracks    == [starts |-> world.analysis = "perTest", forgets |-> FALSE]
JasmineTracks  == [starts |-> world.analysis = "perTest", forgets |-> FALSE]
VitestTracks   == [starts |-> TRUE, forgets |-> TRUE]
KarmaTracks    == [starts |-> world.analysis = "perTest", forgets |-> FALSE]
CucumberTracks == [starts |-> world.analysis = "perTest", forgets |-> TRUE]
TapTracks      == [starts |-> FALSE, forgets |-> TRUE]

Tracking ==
  CASE world.plugin = "jest"          -> JestTracks
    [] world.plugin = "jest-jasmine2" -> Jasmine2Tracks
    [] world.plugin = "mocha"         -> MochaTracks
    [] world.plugin = "jasmine"       -> JasmineTracks
    [] world.plugin = "vitest"        -> VitestTracks
    [] world.plugin = "karma"         -> KarmaTracks
    [] world.plugin = "cucumber"      -> CucumberTracks
    [] world.plugin = "tap"           -> TapTracks
--------------------------------------------------------------------------------
(* The places of a run in the order in which they are executed.  Jest loads *)
(* every test file and skips tests by name; vitest and tap load the files   *)
(* of the filter; the others load all files, once per process or page.      *)
Flat(f(_)) == FlattenSeq([i \in 1..Len(Tests) |-> f(Tests[i])])

RunTest(t, filter) == IF t \in filter THEN <<Setup(t), Body(t)>> ELSE << >>

JestSteps(filter) == Flat(LAMBDA t : <<Load(t)>> \o RunTest(t, filter))

FileSteps(filter) == Flat(LAMBDA t : IF t \in filter THEN <<Load(t)>> \o RunTest(t, filter) ELSE << >>)

SuiteSteps(filter) ==
  (IF loaded /\ ~Plugin("none").reloads THEN << >> ELSE Flat(LAMBDA t : <<Load(t)>>))
  \o Flat(LAMBDA t : RunTest(t, filter))

Steps(filter) ==
  CASE world.plugin \in {"jest", "jest-jasmine2"} -> JestSteps(filter)
    [] world.plugin \in {"vitest", "tap"}         -> FileSteps(filter)
    [] OTHER                                      -> SuiteSteps(filter)

(* A run without a filter gets the original grep, if there is one; mocha    *)
(* keeps the grep of an earlier run when there is none.                     *)
MochaFilter(filter) == IF filter = {} THEN (IF grep = {} THEN TestSet ELSE grep) ELSE filter

Filtered(filter) ==
  IF world.plugin = "mocha" THEN MochaFilter(filter) ELSE IF filter = {} THEN TestSet ELSE filter

Configure ==
  /\ world = None
  /\ world' \in [of : {"world"}, plugin : Plugins, analysis : {"perTest", "all", "off"}, ignoreStatic : BOOLEAN, mutants : Shapes]
  /\ world'.ignoreStatic => world'.analysis = "perTest"
  /\ outcome' = [m \in DOMAIN world'.mutants |-> "none"]
  /\ UNCHANGED <<run, todo, ns, loaded, grep, broken, failed, coverage, staticRun>>

DryRun ==
  /\ world # None /\ run = None
  /\ run' = [of |-> "dryRun", filter |-> {}, activation |-> "runtime", limited |-> FALSE, bail |-> FALSE]
  /\ todo' = Steps(TestSet) /\ loaded' = TRUE
  /\ UNCHANGED <<world, ns, grep, broken, failed, coverage, staticRun, outcome>>

(* Whether the dry run comes with coverage: vitest and tap always report    *)
(* it, for the others ChildProcessTestRunnerWorker takes what is in the     *)
(* global namespace, unless coverage analysis is off.                       *)
ReportsCoverage == world.plugin \in {"vitest", "tap"}

Reported == ReportsCoverage \/ world.analysis # "off"

(* TestCoverage and MutantTestPlanner on what the dry run reported.         *)
HasStatic(m) == <<m, "static">> \in coverage
CoveredBy(m) == {t \in TestSet : <<m, t>> \in coverage}

Plan(m) ==
  CASE ~Reported \/ (HasStatic(m) /\ ~world.ignoreStatic) ->
         [run |-> TRUE, filter |-> {}, activation |-> "static"]
    [] Reported /\ CoveredBy(m) # {} /\ (world.ignoreStatic \/ ~HasStatic(m)) ->
         [run |-> TRUE, filter |-> CoveredBy(m), activation |-> "runtime"]
    [] OTHER -> [run |-> FALSE, early |-> IF HasStatic(m) THEN "Ignored" ELSE "NoCoverage"]

(* Mutated: what a static mutant left behind stays loaded.                  *)
NeedsNewProcessForStatic(activation) == ~Plugin("none").reloads /\ loaded /\ activation = "static"

(* ReloadEnvironmentDecorator: a static mutant needs its files loaded anew, *)
(* and what follows it needs the originals back.                            *)
NeedsNewProcess(activation) == ~Plugin("none").reloads /\ loaded /\ (activation = "static" \/ staticRun)

MutantRun(m, bail) ==
  /\ run = Idle /\ outcome[m] = "none" /\ Plan(m).run
  /\ ~NeedsNewProcess(Plan(m).activation)
  /\ LET filter == Plan(m).filter
     IN  /\ run' = [of |-> m, filter |-> filter, activation |-> Plan(m).activation, limited |-> Reported, bail |-> bail]
         /\ grep' = IF world.plugin = "mocha" /\ filter # {} THEN filter ELSE grep
         /\ todo' = Steps(Filtered(filter))
         /\ staticRun' = (Plan(m).activation = "static")
  /\ ns' = NoNamespace
  /\ broken' = IF Plugin("none").reloads THEN NotBroken ELSE [broken EXCEPT !.now = {}]
  /\ failed' = {} /\ loaded' = TRUE
  /\ UNCHANGED <<world, coverage, outcome>>

EarlyResult(m) ==
  /\ run = Idle /\ outcome[m] = "none" /\ ~Plan(m).run
  /\ outcome' = [outcome EXCEPT ![m] = Plan(m).early]
  /\ UNCHANGED <<world, run, todo, ns, loaded, grep, broken, failed, coverage, staticRun>>

Fresh ==
  /\ ns' = NoNamespace /\ loaded' = FALSE /\ grep' = {} /\ broken' = NotBroken /\ staticRun' = FALSE
  /\ failed' = {} /\ todo' = << >> /\ run' = Idle

(* A new process: because the decorator asks for it, after a crash, or      *)
(* because another worker of the pool is next.                              *)
NewProcess ==
  /\ run = Idle /\ loaded /\ Fresh
  /\ UNCHANGED <<world, coverage, outcome>>
--------------------------------------------------------------------------------
Busy == run \notin {None, Idle}

(* isActive in the instrumented code.                                       *)
Acts(place) ==
  /\ run.of \in Mutated /\ place \in Places(run.of)
  /\ CASE Plugin(run.activation).activates = "load" -> TRUE
       [] Plugin(run.activation).activates = "run"  -> place[1] # "load"
       [] Plugin(run.activation).activates = "test" -> place[1] = "body"

(* Hits count against the limit; the setup file of vitest counts from the   *)
(* first beforeAll on.                                                      *)
Counted(place) == run.limited /\ (world.plugin = "vitest" => place[1] # "load")

(* cover in the instrumented code, and what tap makes of it.                *)
Attributed(place) ==
  CASE world.plugin = "tap" -> place[2]
    [] world.plugin # "tap" /\ place[1] = "body" /\ Tracking.starts -> place[2]
    [] OTHER -> IF ns.currentTestId = "none" THEN "static" ELSE ns.currentTestId

Covered(place) ==
  IF run.of = "dryRun" /\ Reported
  THEN {<<m, Attributed(place)>> : m \in {x \in Mutated : place \in Places(x)}}
  ELSE {}

Hangs == Busy /\ todo # << >> /\ Acts(Head(todo)) /\ Kind(run.of) = "runaway" /\ ~Counted(Head(todo))

Execute ==
  /\ Busy /\ todo # << >> /\ ~Hangs
  /\ LET place == Head(todo)
         t     == place[2]
         breaks == Acts(place) /\ Kind(run.of) # "harmless"
     IN  /\ broken' = IF ~breaks THEN broken
                      ELSE IF place[1] = "load" THEN [broken EXCEPT !.load = @ \cup {t}]
                      ELSE [broken EXCEPT !.now = @ \cup {t}]
         /\ failed' = IF place[1] = "body" /\ t \in broken'.load \cup broken'.now THEN failed \cup {t} ELSE failed
         /\ todo' = IF run.bail /\ t \in failed' THEN << >> ELSE Tail(todo)
         /\ coverage' = coverage \cup Covered(place)
         /\ ns' = [over |-> ns.over \/ (Acts(place) /\ Kind(run.of) = "runaway"),
                   currentTestId |-> IF place[1] = "body" /\ Tracking.starts
                                     THEN IF Tracking.forgets THEN "none" ELSE t
                                     ELSE ns.currentTestId]
  /\ UNCHANGED <<world, run, loaded, grep, staticRun, outcome>>

(* determineHitLimitReached and toMutantRunResult.                          *)
Verdict == IF ns.over THEN "Timeout" ELSE IF failed # {} THEN "Killed" ELSE "Survived"

Finish ==
  /\ Busy /\ todo = << >> /\ run' = Idle
  /\ outcome' = [m \in Mutated |-> IF m = run.of THEN Verdict ELSE outcome[m]]
  /\ UNCHANGED <<world, todo, ns, loaded, grep, broken, failed, coverage, staticRun>>

(* TimeoutDecorator: the answer is a timeout and the process a new one.     *)
TimerFires ==
  /\ Hangs /\ Fresh
  /\ outcome' = [outcome EXCEPT ![run.of] = "Timeout"]
  /\ UNCHANGED <<world, coverage>>

Next ==
  \/ Configure \/ DryRun \/ NewProcess \/ Execute \/ Finish \/ TimerFires
  \/ \E m \in DOMAIN outcome : EarlyResult(m) \/ \E bail \in BOOLEAN : MutantRun(m, bail)

Spec == Init /\ [][Next]_pluginVars
--------------------------------------------------------------------------------
(* The hits that are attributed to the wrong test: in the setup of a suite, *)
(* while the test before it still is the current one.                       *)
Misattributed(m) ==
  /\ Tracking.starts /\ ~Tracking.forgets
  /\ \E t \in TestSet : Setup(t) \in Places(m) \/ (world.plugin = "jest-jasmine2" /\ Load(t) \in Places(m))

(* Cucumber ignores mutantActivation: with ignoreStatic a mutant may be in  *)
(* the files that the process has loaded.                                   *)
MayPoison == world.plugin = "cucumber" /\ world.ignoreStatic

Deserved(m) ==
  CASE Places(m) = {}        -> IF Reported THEN {"NoCoverage"} ELSE {"Survived"}
    [] Places(m) # {} /\ Kind(m) = "lethal"   -> {"Killed"}
    [] Places(m) # {} /\ Kind(m) = "harmless" -> {"Survived"}
    [] OTHER                                  -> {"Timeout"}

(***************************************************************************)
(* Whatever ran before in the process, every mutant gets the verdict that  *)
(* it deserves: the coverage of the dry run leads to the tests it breaks,  *)
(* its static code is loaded with it, and no other mutant is left behind.  *)
(***************************************************************************)
EveryVerdictIsDeserved ==
  \A m \in DOMAIN outcome :
    outcome[m] # "none" /\ ~world.ignoreStatic /\ ~Misattributed(m) => outcome[m] \in Deserved(m)

(***************************************************************************)
(* With ignoreStatic what breaks no test is never killed, and a mutant is  *)
(* ignored only if it is nowhere but in static code.                       *)
(***************************************************************************)
NoFalseKills ==
  \A m \in DOMAIN outcome :
    /\ outcome[m] \in {"Killed", "Timeout"} /\ ~MayPoison => Kind(m) # "harmless"
    /\ outcome[m] = "Ignored" => world.ignoreStatic /\ \A t \in TestSet : Body(t) \notin Places(m)

(***************************************************************************)
(* The same without exceptions: no hit is attributed to the wrong test.    *)
(***************************************************************************)
SetupIsCovered ==
  \A m \in DOMAIN outcome : outcome[m] # "none" /\ ~world.ignoreStatic => outcome[m] \in Deserved(m)
================================================================================
