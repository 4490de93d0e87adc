-------------------------- MODULE MutantTestPlanner --------------------------
(***************************************************************************)
(* Which tests a mutant is run with: TestCoverage.from turns the dry run   *)
(* into coverage per mutant, MutantTestPlanner makes a plan for every      *)
(* mutant from it.  An optional value is a set of at most one element.     *)
(* A dry run is [tests, time, coverage]: time gives the milliseconds of    *)
(* every test, coverage is {} (coverage analysis off, or the runner does   *)
(* not report) or {[static, perTest]} with hits per mutant; perTest may    *)
(* name tests that the dry run does not know.                              *)
(***************************************************************************)
EXTENDS Naturals, FiniteSets, FiniteSetsExt

CONSTANTS Planned,      \* the mutants
          DryRunTests,  \* the ids of the tests of the dry run
          OtherTests,   \* ids that the coverage names and the dry run does not
          Times         \* the milliseconds a test may take

VARIABLES
  dryRun,   \* {} or the result of the dry run
  plans     \* {} or the options and the plan of each mutant

plannerVars == <<dryRun, plans>>

HIT_LIMIT_FACTOR == 100

CalculateTotalTime(time, tests) == MapThenSumSet(LAMBDA t : time[t], tests)

(* testCoverageFrom: unknown tests count for the hits, not for the coverage. *)
TestsByMutant(run, m) ==
  {t \in run.tests : \E c \in run.coverage : t \in DOMAIN c.perTest /\ c.perTest[t][m] > 0}

HitsByMutant(run, m) ==
  {n \in {MapThenSumSet(LAMBDA t : c.perTest[t][m], DOMAIN c.perTest) + c.static[m] : c \in run.coverage} : n > 0}

HasCoverage(run) == run.coverage # {}

HasStaticCoverage(run, m) == \E c \in run.coverage : c.static[m] > 0

\* Mutant of RunPlan: known coverage is taken for a test filter.
RunPlanRuntime(run, options, m, netTime, testFilter, coveredBy) ==
  [plan |-> "Run", netTime |-> netTime, static |-> HasStaticCoverage(run, m), coveredBy |-> coveredBy,
   activation |-> IF coveredBy = {} THEN "static" ELSE "runtime",
   timeout |-> options.timeoutFactor * netTime + options.timeoutMS + options.timeOverheadMS,
   testFilter |-> testFilter, hitLimit |-> {n * HIT_LIMIT_FACTOR : n \in HitsByMutant(run, m)},
   reloadEnvironment |-> testFilter = {}]

(* createMutantRunPlan *)
RunPlan(run, options, m, netTime, testFilter, coveredBy) ==
  [plan       |-> "Run",
   netTime    |-> netTime,
   static     |-> HasStaticCoverage(run, m),
   coveredBy  |-> coveredBy,
   activation |-> IF testFilter = {} THEN "static" ELSE "runtime",
   timeout    |-> options.timeoutFactor * netTime + options.timeoutMS + options.timeOverheadMS,
   testFilter |-> testFilter,
   hitLimit   |-> {n * HIT_LIMIT_FACTOR : n \in HitsByMutant(run, m)},
   reloadEnvironment |-> testFilter = {}]

EarlyResult(status, coveredBy) == [plan |-> "EarlyResult", status |-> status, coveredBy |-> coveredBy]

\* Mutant of PlanMutant: the time of a static mutant is that of its covering tests.
PlanMutantShort(run, options, m, status) ==
  LET tests == TestsByMutant(run, m)
  IN  CASE status # {} -> EarlyResult(CHOOSE s \in status : TRUE, {})
        [] status = {} /\ ~HasStaticCoverage(run, m) ->
             RunPlan(run, options, m, CalculateTotalTime(run.time, tests), {tests}, {tests})
        [] OTHER -> RunPlan(run, options, m, CalculateTotalTime(run.time, tests), {}, {tests})

(* planMutant, for a mutant whose status is known already (ignored by a     *)
(* comment, reused from an earlier run) or not ({}).                        *)
PlanMutant(run, options, m, status) ==
  LET tests    == TestsByMutant(run, m)
      static   == HasStaticCoverage(run, m)
      allTests == CalculateTotalTime(run.time, run.tests)
  IN  CASE status # {} -> EarlyResult(CHOOSE s \in status : TRUE, {})
        [] status = {} /\ ~HasCoverage(run) -> RunPlan(run, options, m, allTests, {}, {})
        [] status = {} /\ HasCoverage(run) /\ (~static \/ (options.ignoreStatic /\ tests # {})) ->
             RunPlan(run, options, m, CalculateTotalTime(run.time, tests), {tests}, {tests})
        [] status = {} /\ HasCoverage(run) /\ static /\ options.ignoreStatic /\ tests = {} ->
             EarlyResult("Ignored", {tests})
        [] status = {} /\ HasCoverage(run) /\ static /\ ~options.ignoreStatic ->
             RunPlan(run, options, m, allTests, {}, {tests})

(* The tests a run plan executes. *)
Executed(run, plan) == IF plan.testFilter = {} THEN run.tests ELSE UNION plan.testFilter

(***************************************************************************)
(* warnAboutSlow: 40% of the time goes to static mutants, and one of them  *)
(* takes on average twice the time of another one.  Without static (or     *)
(* other) mutants the average is 0, without any time nothing holds (NaN).  *)
(***************************************************************************)
TotalNetTime(made, ms) == MapThenSumSet(LAMBDA m : made[m].netTime, ms)

\* Mutant of WarnsAboutSlow: only the averages are compared.
WarnsOnAverage(made, options) ==
  LET runs    == {m \in DOMAIN made : made[m].plan = "Run"}
      statics == {m \in runs : made[m].static}
      others  == runs \ statics
  IN  /\ ~options.ignoreStatic /\ options.warnSlow
      /\ TotalNetTime(made, statics) * Cardinality(others) >= 2 * TotalNetTime(made, others) * Cardinality(statics)

WarnsAboutSlow(made, options) ==
  LET runs    == {m \in DOMAIN made : made[m].plan = "Run"}
      statics == {m \in runs : made[m].static}
      others  == runs \ statics
      forStatic == TotalNetTime(made, statics)
      forOthers == TotalNetTime(made, others)
  IN  /\ ~options.ignoreStatic /\ options.warnSlow
      /\ forStatic + forOthers > 0
      /\ 10 * forStatic >= 4 * (forStatic + forOthers)
      /\ \/ others = {}
         \/ statics = {} /\ 0 >= 2 * forOthers
         \/ statics # {} /\ others # {} /\ forStatic * Cardinality(others) >= 2 * forOthers * Cardinality(statics)
--------------------------------------------------------------------------------
(***************************************************************************)
(* The dry run ends, then the plans are made: makePlan.                    *)
(***************************************************************************)
Coverages ==
  {[static |-> static, perTest |-> perTest] :
     static \in [Planned -> {0, 1}],
     perTest \in UNION {[tests -> [Planned -> {0, 1}]] : tests \in SUBSET (DryRunTests \cup OtherTests)}}

Options == [ignoreStatic : BOOLEAN, warnSlow : BOOLEAN,
            timeoutFactor : {2}, timeoutMS : {5}, timeOverheadMS : {1}]

Init == dryRun = {} /\ plans = {}

DryRunCompletes ==
  /\ dryRun = {}
  /\ \E tests \in SUBSET DryRunTests : \E time \in [tests -> Times] :
       \E coverage \in {{}} \cup {{c} : c \in Coverages} :
         dryRun' = {[tests |-> tests, time |-> time, coverage |-> coverage]}
  /\ UNCHANGED plans

(* Some mutants have a result already: ignored, or reused.                  *)
MakePlan ==
  /\ plans = {}
  /\ \E run \in dryRun, options \in Options, early \in SUBSET Planned :
       plans' = {[options |-> options,
                  plan |-> [m \in Planned |-> PlanMutant(run, options, m, IF m \in early THEN {"Killed"} ELSE {})]]}
  /\ UNCHANGED dryRun

Next == DryRunCompletes \/ MakePlan

Spec == Init /\ [][Next]_plannerVars
--------------------------------------------------------------------------------
(* The tests that execute a mutant when it is active: those that hit it,    *)
(* and all of them when it is hit while the files are loaded.               *)
Reaching(run, m) ==
  IF HasStaticCoverage(run, m) THEN run.tests ELSE TestsByMutant(run, m)

(***************************************************************************)
(* The plan leaves out no test that could kill the mutant, unless the user *)
(* ignores static mutants; a mutant that is only executed while files are  *)
(* loaded is activated before that, in a fresh environment.                *)
(***************************************************************************)
PlanMissesNoKill ==
  \A p \in plans, run \in dryRun, m \in Planned :
    p.plan[m].plan = "Run" =>
      /\ TestsByMutant(run, m) \subseteq Executed(run, p.plan[m])
      /\ p.options.ignoreStatic \/ Reaching(run, m) \subseteq Executed(run, p.plan[m])
      /\ HasStaticCoverage(run, m) /\ ~p.options.ignoreStatic =>
           p.plan[m].activation = "static" /\ p.plan[m].reloadEnvironment

(***************************************************************************)
(* The limits of a run leave room for what the dry run did: the time of    *)
(* every test it executes and every hit it can make.                       *)
(***************************************************************************)
LimitsLeaveRoom ==
  \A p \in plans, run \in dryRun, m \in Planned :
    p.plan[m].plan = "Run" =>
      /\ p.plan[m].timeout >= p.options.timeOverheadMS + p.options.timeoutMS
                              + CalculateTotalTime(run.time, Executed(run, p.plan[m]))
      /\ \A limit \in p.plan[m].hitLimit, c \in run.coverage :
           limit > MapThenSumSet(LAMBDA t : c.perTest[t][m], Executed(run, p.plan[m]) \cap DOMAIN c.perTest)
                     + c.static[m]

(***************************************************************************)
(* The advice to ignore static mutants is only given when there are some,  *)
(* and following it would save two fifths of the time.                     *)
(***************************************************************************)
WarningIsAboutStatics ==
  \A p \in plans, run \in dryRun :
    WarnsAboutSlow(p.plan, p.options) =>
      LET saved == {m \in Planned : p.plan[m].plan = "Run" /\ p.plan[m].static}
      IN  /\ saved # {}
          /\ 5 * TotalNetTime(p.plan, saved)
               >= 2 * TotalNetTime(p.plan, {m \in Planned : p.plan[m].plan = "Run"})
================================================================================
