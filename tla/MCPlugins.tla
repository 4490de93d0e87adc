------------------------------- MODULE MCPlugins -------------------------------
(***************************************************************************)
(* How plugins are set up and what they do in the worker processes, for    *)
(* TLC: Initializer (stryker init, which chooses and installs plugins),    *)
(* RunnerConfigs (the configuration of the tools that they adapt),         *)
(* TestRunnerPlugins (the plugins of the test frameworks), KarmaRunner,    *)
(* CommandTestRunner and TypescriptChecker, side by side.  `part' chooses  *)
(* which of them moves.  TypescriptChecker, whose property is a property   *)
(* of this module too, is extended; the others are instances.              *)
(***************************************************************************)
EXTENDS TypescriptChecker

CONSTANTS Plugins, Tests, Shapes, Runs, MaxRuns, MaxLosses, MaxSessions, MaxLines, TsOptions

\* Values for the configuration: two tests, and a pair of mutants of which
\* the first is anywhere and the second in the body of a test.
TwoTests == <<"t1", "t2">>

Anywhere == {"load", "setup", "body"} \X {"t1", "t2"}

AnyKind == {"lethal", "harmless", "runaway"}

PairsOfMutants ==
  {[m1 |-> [places |-> {p, q}, kind |-> k], m2 |-> [places |-> r, kind |-> l]] :
     p \in Anywhere, q \in Anywhere, k \in AnyKind,
     r \in {{}, {<<"body", "t1">>}, {<<"body", "t2">>, <<"load", "t2">>}}, l \in {"lethal", "harmless"}}

\* Three mutants, and two graphs of imports.
ThreeMutants == <<"m1", "m2", "m3">>

TwoGraphs == {{<<"a", "b">>}, {<<"a", "b">>, <<"b", "c">>}}

VARIABLES part,
          world, run, todo, ns, loaded, grep, broken, failed, coverage, staticRun, outcome,  \* TestRunnerPlugins
          job, attempts, procs, handler, kill, verdict, shut,                               \* CommandTestRunner
          user, config, init, disposal, server, browsersReady, reporter, hooks, scheduled,
          browser, page, fates, answers, losses, idleLoss, stray,                           \* KarmaRunner
          command, step, answered, dir, installed, told, code, sessions,                     \* Initializer
          study, given, read                                                                 \* RunnerConfigs

Plugin  == INSTANCE TestRunnerPlugins
Command == INSTANCE CommandTestRunner WITH verdicts <- verdict
Karma   == INSTANCE KarmaRunner
Setup   == INSTANCE Initializer WITH answers <- answered
Configs == INSTANCE RunnerConfigs WITH loaded <- read

pluginVars  == <<world, run, todo, ns, loaded, grep, broken, failed, coverage, staticRun, outcome>>
commandVars == <<job, attempts, procs, handler, kill, verdict, shut>>
karmaVars   == <<user, config, init, disposal, server, browsersReady, reporter, hooks, scheduled,
                 browser, page, fates, answers, losses, idleLoss, stray>>
setupVars   == <<command, step, answered, dir, installed, told, code, sessions>>
configVars  == <<study, given, read>>

\* No mutant is called like the absence of one, or like what a run is that
\* has none; no test like the coverage of no test.  A mutant is in the code
\* of tests, and of one of three kinds.
ASSUME PluginsAssumption ==
  /\ InputIsSound /\ "none" \notin Runs
  /\ Plugins \subseteq {"jest", "jest-jasmine2", "mocha", "jasmine", "vitest", "karma", "cucumber", "tap"}
  /\ Tests \in Seq(Range(Tests)) /\ "static" \notin Range(Tests)
  /\ \A s \in Shapes :
       /\ {"none", "idle", "dryRun"} \cap DOMAIN s = {}
       /\ \A m \in DOMAIN s : /\ s[m].places \subseteq {"load", "setup", "body"} \X Range(Tests)
                             /\ s[m].kind \in {"lethal", "harmless", "runaway"}

vars == <<part, pluginVars, commandVars, tsVars, karmaVars, setupVars, configVars>>

Init ==
  /\ part \in {"plugin", "command", "checker", "karma", "init", "config"}
  /\ (part # "config" => study = "react" /\ given = [reactScripts |-> TRUE, env |-> "test"]) /\ Configs!Init
  /\ (part # "init" => dir = [configs |-> <<>>, gitignore |-> 0, karmaConf |-> FALSE, angular |-> "15.0"]) /\ Setup!Init
  /\ Plugin!Init /\ Command!Init /\ TsInit
  /\ Karma!Init /\ (part # "karma" => user.file = "none" /\ ~user.disableBail)

PluginStep  == part = "plugin" /\ Plugin!Next /\ UNCHANGED <<part, commandVars, tsVars, karmaVars, setupVars, configVars>>
CommandStep == part = "command" /\ Command!Next /\ UNCHANGED <<part, pluginVars, tsVars, karmaVars, setupVars, configVars>>
CheckerStep == part = "checker" /\ TsNext /\ UNCHANGED <<part, pluginVars, commandVars, karmaVars, setupVars, configVars>>
KarmaStep   == part = "karma" /\ Karma!Next /\ UNCHANGED <<part, pluginVars, commandVars, tsVars, setupVars, configVars>>
SetupStep   == part = "init" /\ Setup!Next /\ UNCHANGED <<part, pluginVars, commandVars, tsVars, karmaVars, configVars>>
ConfigStep  == part = "config" /\ Configs!Next /\ UNCHANGED <<part, pluginVars, commandVars, tsVars, karmaVars, setupVars>>

Next == PluginStep \/ CommandStep \/ CheckerStep \/ KarmaStep \/ SetupStep \/ ConfigStep

Spec == Init /\ [][Next]_vars

(* Initializer: what init leaves behind can be used, a failure blocks no    *)
(* second try, and nothing that was there is destroyed.  RunnerConfigs:     *)
(* the configuration of mocha, jest and the TypeScript compiler is that of  *)
(* the right file, in the right order, and stays acceptable.                *)
SetupIsUsable ==
  /\ [](part = "init" => Setup!ConfigIsUsable /\ Setup!CoverageFitsTheRunner /\ Setup!FailureBlocksNothing)
  /\ Setup!ExistingFilesSurvive
  /\ [](part = "config" => Configs!MochaPrecedence /\ Configs!JestConfigIsTheOne /\ Configs!TsOptionsAreRight)

(* TestRunnerPlugins: every mutant gets the verdict that it deserves, and   *)
(* with ignoreStatic no mutant is killed or ignored that should not be.     *)
VerdictsAreDeserved == Plugin!EveryVerdictIsDeserved /\ Plugin!NoFalseKills

(* CommandTestRunner, KarmaRunner: a result is that of its own run, and the *)
(* timeout reaches the process that is running; to dispose karma while it   *)
(* starts is no crash.                                                      *)
RunsAreSeparate ==
  /\ [](part = "command" => Command!OwnVerdict /\ Command!TimeoutReachesTheProcess)
  /\ [](part = "karma" => Karma!RightUntilIdleLoss /\ Karma!PageIsOfTheRun)
  /\ Karma!DisposalIsNoCrash
================================================================================
