----------------------------- MODULE Preparation -----------------------------
(***************************************************************************)
(* From the command line to the frozen options (packages/core: the first   *)
(* half of process/1-prepare-executor.ts, config/, di/plugin-loader.ts,    *)
(* di/plugin-creator.ts).  The configuration file is found, read and       *)
(* overridden by the command line; the options are validated against the   *)
(* schema of the core; plugins are loaded, all at once; the options are    *)
(* validated again, against the schema with what the plugins add to it.    *)
(*                                                                         *)
(* Options are a function from the settings that are set to their values;  *)
(* `a.b' is a setting of its own.  `study' is what a run is about: the     *)
(* values of settings, the errors a schema reports, or the plugins.        *)
(***************************************************************************)
EXTENDS Integers, Sequences, FiniteSets, SequencesExt

CONSTANTS MaxSettings,  \* settings in the file and on the command line together
          MaxErrors,    \* errors that the schema reports at once
          Cpus          \* processors of the machine

VARIABLES study, phase,
          cli,        \* the settings on the command line
          file,       \* those in the configuration file
          fileKind,   \* what is found where the configuration file should be
          options,    \* the options object
          errors,     \* what the schema of the core reports for the options
          shown,      \* the errors that are shown to the user
          descriptors, gives,   \* the plugins to load, and what each module exports
          loads,      \* the modules whose import has ended
          modules, schemas      \* pluginModulePaths and schemaContributions

vars == <<study, phase, cli, file, fileKind, options, errors, shown, descriptors, gives, loads, modules, schemas>>

None == <<>>
MaxSafeInteger == 1000

(* The values that settings are given here. *)
Values ==
  {<<"thresholds", "ok">>, <<"thresholds", "inverted">>, <<"concurrency", 2>>,
   <<"maxConcurrentTestRunners", 1>>, <<"maxConcurrentTestRunners", Cpus>>,
   <<"ignoreStatic", TRUE>>, <<"coverageAnalysis", "perTest">>, <<"coverageAnalysis", "off">>,
   <<"mutate", "range">>, <<"mutate", "range from line 0">>, <<"mutate", "reversed range">>, <<"mutate", "range and glob">>,
   <<"mutator", "a string">>, <<"testFramework", "any">>, <<"transpilers", "any">>,
   <<"files", "src">>, <<"ignorePatterns", <<"dist">>>>,
   <<"jest.enableBail", TRUE>>, <<"jest.enableBail", FALSE>>, <<"disableBail", TRUE>>, <<"disableBail", FALSE>>,
   <<"htmlReporter.baseDir", "dir">>, <<"htmlReporter.fileName", "name">>,
   <<"runner.option", "right">>, <<"runner.option", "wrong">>}

Deprecated == {"mutator", "testFramework", "transpilers", "files", "jest.enableBail", "htmlReporter.baseDir"}

(* useDefaults: what the schema gives a setting that is not set.            *)
Defaults ==
  [thresholds |-> "ok", maxConcurrentTestRunners |-> MaxSafeInteger, ignoreStatic |-> FALSE,
   coverageAnalysis |-> "perTest", mutate |-> "globs", ignorePatterns |-> <<>>, disableBail |-> FALSE]

Has(o, setting) == setting \in DOMAIN o
Without(o, settings) == [s \in DOMAIN o \ settings |-> o[s]]

(* One setting, and the settings of one object over those of another one.   *)
One(setting, value) == [s \in {setting} |-> value]
Over(upper, lower) == [s \in DOMAIN upper \cup DOMAIN lower |-> IF s \in DOMAIN upper THEN upper[s] ELSE lower[s]]

-------------------------------------------------------------------------------
(* OptionsValidator *)

(* removeDeprecatedOptions: what replaces a deprecated setting, and the     *)
(* deprecated settings go.                                                  *)
RemoveDeprecatedOptions(o) ==
  LET patterns == IF Has(o, "files")
                  THEN One("ignorePatterns", <<"**", "!src">> \o IF Has(o, "ignorePatterns") THEN o["ignorePatterns"] ELSE <<>>)
                  ELSE None
      bail     == IF Has(o, "jest.enableBail") THEN One("disableBail", ~o["jest.enableBail"]) ELSE None
      report   == IF Has(o, "htmlReporter.baseDir") /\ ~Has(o, "htmlReporter.fileName")
                  THEN One("htmlReporter.fileName", "dir/index.html") ELSE None
  IN  Without(Over(patterns, Over(bail, Over(report, o))), Deprecated)

(* A mutant: the deprecated limit overrides the new setting. *)
UseDeprecatedLimitAnyway(o) ==
  IF o["maxConcurrentTestRunners"] # MaxSafeInteger /\ o["maxConcurrentTestRunners"] < Cpus - 1
  THEN Over(One("concurrency", o["maxConcurrentTestRunners"]), o) ELSE o

(* customValidation: a deprecated limit counts if there is no other and it  *)
(* is lower than what is used anyway.                                       *)
UseDeprecatedLimit(o) ==
  IF o["maxConcurrentTestRunners"] # MaxSafeInteger /\ ~Has(o, "concurrency") /\ o["maxConcurrentTestRunners"] < Cpus - 1
  THEN Over(One("concurrency", o["maxConcurrentTestRunners"]), o) ELSE o

CustomErrors(o) ==
  (IF o["thresholds"] = "inverted" THEN {"thresholds"} ELSE {}) \cup
  (IF o["ignoreStatic"] /\ o["coverageAnalysis"] # "perTest" THEN {"ignoreStatic"} ELSE {}) \cup
  (IF o["mutate"] \in {"range from line 0", "reversed range", "range and glob"} THEN {"mutate"} ELSE {})

(* An error of the schema: where it is, and the keyword that is violated.   *)
Paths == {<<"a">>, <<"a", "b">>, <<"c">>}
SchemaErrors == [path : Paths, keyword : {"type", "enum", "anyOf"}]

IsUnder(path, above) == IsPrefix(above, path)

(* filterRelevantErrors: combining keywords are not shown; under one of     *)
(* them only the deepest errors are; a type error is not shown next to      *)
(* another error at its place, and those of one place are one.              *)
RelevantErrors(all) ==
  LET meta == {e \in all : e.keyword = "anyOf"}
      single == all \ meta
      kept == {e \in single :
                 (\E m \in meta : IsUnder(e.path, m.path)) =>
                   ~\E d \in single : IsUnder(d.path, e.path) /\ Len(d.path) > Len(e.path)}
      types == {e \in kept : e.keyword = "type"}
  IN  (kept \ types) \cup {t \in types : ~\E e \in kept \ types : e.path = t.path}

(* validate: the options that come out of it, and the errors that stop it.  *)
Validated(o) == UseDeprecatedLimit(Over(RemoveDeprecatedOptions(o), Defaults))
ErrorsOf(o, fromSchema) ==
  IF RelevantErrors(fromSchema) # {} THEN RelevantErrors(fromSchema) ELSE CustomErrors(Validated(o))

-------------------------------------------------------------------------------
(* Plugins *)

Modules == {"a", "b", "reporters"}

(* globPluginModules: the installed packages, without those of Stryker.     *)
Installed == <<"a", "b", "core">>
IgnoredPackages == {"core", "api", "util", "instrumenter"}

(* Those elements of a list that are wanted, pushed one after the other.    *)
Filter(list, wanted) ==
  LET pushed[i \in 0..Len(list)] ==
        IF i = 0 THEN <<>> ELSE IF list[i] \in wanted THEN Append(pushed[i - 1], list[i]) ELSE pushed[i - 1]
  IN  pushed[Len(list)]

Resolve(expression) ==
  IF expression = "*" THEN Filter(Installed, Range(Installed) \ IgnoredPackages) ELSE <<expression>>

PluginModules == FlattenSeq([i \in DOMAIN descriptors |-> Resolve(descriptors[i])])

(* loadPlugin: a module with plugins, with a schema, with both; one that    *)
(* exports neither or cannot be imported gives a warning and nothing else.  *)
GivesPlugins(m) == gives[m] \in {"plugins", "both"}
GivesSchema(m)  == gives[m] \in {"schema", "both"}

(* PluginCreator.create: the first plugin of that kind and name.  Here all  *)
(* modules have one of the same name, in different cases.                   *)
FoundIn(ms) == IF ms = <<>> THEN "error" ELSE Head(ms)

-------------------------------------------------------------------------------
Init ==
  /\ study \in {"options", "errors", "plugins"}
  /\ phase = "configure" /\ cli = None /\ file = None /\ options = None /\ shown = {}
  /\ fileKind \in (IF study = "options" THEN {"none", "missing", "invalid", "no default export", "no object", "object"} ELSE {"object"})
  /\ errors \in (IF study = "errors" THEN UNION {kSubset(k, SchemaErrors) : k \in 1..MaxErrors} ELSE {{}})
  /\ descriptors \in (IF study = "plugins" THEN {<<"*", "reporters">>, <<"b", "reporters", "a">>, <<"b", "*", "reporters">>}
                      ELSE {<<"a", "reporters">>})
  /\ gives \in (IF study = "plugins" THEN [Modules -> {"plugins", "schema", "both", "nothing"}]
                ELSE {[m \in Modules |-> "both"], [m \in Modules |-> "nothing"]})
  /\ loads = {} /\ modules = <<>> /\ schemas = {}

(* One more setting, on the command line or in the file.                    *)
Configure ==
  /\ phase = "configure" /\ study = "options"
  /\ Cardinality(DOMAIN cli) + Cardinality(DOMAIN file) < MaxSettings
  /\ \E pair \in Values :
       \/ ~Has(cli, pair[1]) /\ cli' = Over(One(pair[1], pair[2]), cli) /\ UNCHANGED file
       \/ ~Has(file, pair[1]) /\ fileKind = "object" /\ file' = Over(One(pair[1], pair[2]), file) /\ UNCHANGED cli
  /\ UNCHANGED <<study, phase, fileKind, options, errors, shown, descriptors, gives, loads, modules, schemas>>

(* readConfig: the file, the command line over it, and the validation.  No  *)
(* file is no problem unless the command line names it.                     *)
ReadConfig ==
  /\ phase = "configure"
  /\ LET merged == Over(cli, file)
         wrong  == ErrorsOf(merged, errors)
     IN  IF fileKind \notin {"none", "object"}
         THEN phase' = "failed" /\ shown' = {fileKind} /\ UNCHANGED options
         ELSE /\ options' = Validated(merged)
              /\ shown' = wrong
              /\ phase' = IF wrong = {} THEN "loading" ELSE "failed"
  /\ UNCHANGED <<study, cli, file, fileKind, errors, descriptors, gives, loads, modules, schemas>>

(* The import of a module ends, in whatever order.                          *)
Imported ==
  /\ phase = "loading"
  /\ \E m \in Range(PluginModules) \ loads : loads' = loads \cup {m}
  /\ UNCHANGED <<study, phase, cli, file, fileKind, options, errors, shown, descriptors, gives, modules, schemas>>

(* All are in: they are listed in the order of the descriptors.             *)
Load ==
  /\ phase = "loading" /\ loads = Range(PluginModules)
  /\ modules' = Filter(PluginModules, {m \in loads : GivesPlugins(m)})
  /\ schemas' = {m \in loads : GivesSchema(m)}
  /\ phase' = "loaded"
  /\ UNCHANGED <<study, cli, file, fileKind, options, errors, shown, descriptors, gives, loads>>

(* The second validation: the schema of module "a" has the runner's option. *)
Revalidate ==
  /\ phase = "loaded"
  /\ LET wrong == IF "a" \in schemas /\ Has(options, "runner.option") /\ options["runner.option"] = "wrong"
                  THEN {[path |-> <<"runner.option">>, keyword |-> "type"]} ELSE {}
         stop  == ErrorsOf(options, wrong)
     IN  /\ options' = Validated(options)
         /\ shown' = stop
         /\ phase' = IF stop = {} THEN "frozen" ELSE "failed"
  /\ UNCHANGED <<study, cli, file, fileKind, errors, descriptors, gives, loads, modules, schemas>>

Next == Configure \/ ReadConfig \/ Imported \/ Load \/ Revalidate

Spec == Init /\ [][Next]_vars

-------------------------------------------------------------------------------
(* Options that are used have no deprecated setting left, a value for every *)
(* default, and none of the combinations that are refused; an option of a   *)
(* plugin is right if the plugin could be loaded.                           *)
FrozenOptionsAreValid ==
  phase = "frozen" =>
    /\ DOMAIN options \cap Deprecated = {} /\ DOMAIN Defaults \subseteq DOMAIN options
    /\ CustomErrors(options) = {}
    /\ "a" \in schemas /\ Has(options, "runner.option") => options["runner.option"] = "right"

(* The command line has the last word, except where the deprecated setting  *)
(* jest.enableBail decides about disableBail, and a setting that is set     *)
(* nowhere has its default.                                                 *)
CommandLineWins ==
  phase \in {"loading", "loaded", "frozen"} =>
    /\ \A s \in DOMAIN cli \ Deprecated :
         \/ options[s] = cli[s]
         \/ s = "disableBail" /\ Has(Over(cli, file), "jest.enableBail")
         \/ s = "ignorePatterns" /\ Has(Over(cli, file), "files") /\ IsSuffix(cli[s], options[s])
    /\ \A s \in DOMAIN Defaults \ DOMAIN (Over(cli, file)) :
         options[s] = Defaults[s] \/ (s = "disableBail" /\ Has(Over(cli, file), "jest.enableBail"))
                                  \/ (s = "ignorePatterns" /\ Has(Over(cli, file), "files"))

(* Without an exception for deprecated settings, which the code refutes.    *)
CommandLineAlwaysWins ==
  phase = "frozen" => \A s \in DOMAIN cli \ Deprecated : options[s] = cli[s] \/ s = "ignorePatterns"

(* The options are validated twice; the second time changes nothing.        *)
SecondValidationChangesNothing == [][Revalidate => options' = options]_vars

(* Whatever a schema complains about, unless all that fails is a combining  *)
(* keyword on its own, the user is shown an error, and nothing else is used *)
(* to stop the run.                                                         *)
AnErrorIsShown ==
  /\ phase = "failed" => shown # {}
  /\ phase \in {"loading", "loaded", "frozen"} => \A e \in errors : e.keyword = "anyOf"

(* Which plugin has a name does not depend on which import ends first: it   *)
(* is that of the first descriptor that gives one, in this process and in a *)
(* child process, which loads exactly the modules that gave a plugin.       *)
FirstDescriptorWins ==
  phase \in {"loaded", "frozen"} =>
    LET giving == {i \in DOMAIN PluginModules : GivesPlugins(PluginModules[i])}
    IN  FoundIn(modules) = IF giving = {} THEN "error"
                           ELSE PluginModules[CHOOSE i \in giving : \A j \in giving : i <= j]
================================================================================
