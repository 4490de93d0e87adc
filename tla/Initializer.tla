------------------------------ MODULE Initializer ------------------------------
(***************************************************************************)
(* `stryker init' and the commands of the CLI (stryker-cli.ts, core's      *)
(* initializer/).  A session asks, writes a config file, installs plugins  *)
(* and extends .gitignore; the npm registry and the package manager can    *)
(* fail, and the user can stop at each question, remove the config file    *)
(* and try again.  Option values that nothing depends on are left out.     *)
(***************************************************************************)
EXTENDS Naturals, FiniteSets, Sequences, SequencesExt

CONSTANTS MaxSessions

VARIABLES command,      \* of the session: "none" between sessions
          step,         \* what the initializer does next
          answers,      \* of the user, and what the registry says
          dir,          \* config files with their content, entries in .gitignore, karma.conf.js, version of Angular
          installed,    \* plugins in node_modules
          told,         \* what was printed for the user to do
          code,         \* exit code of the session
          sessions

vars == <<command, step, answers, dir, installed, told, code, sessions>>

None == "none"
NoGitignore == 99
Told(what, packages) == [what |-> what, packages |-> packages]

(* SUPPORTED_CONFIG_FILE_NAMES, of which two are DEFAULT_CONFIG_FILE_NAMES. *)
SupportedConfigFileNames == {"stryker.config.json", "stryker.config.mjs", ".stryker.conf.js"}
ConfigFileName(json) == IF json THEN "stryker.config.json" ELSE "stryker.config.mjs"

(* Packages in the registry (runners without vitest, which only presets     *)
(* name here); getName gives two of them one name.                          *)
Runners == <<"@stryker-mutator/jest-runner", "stryker-jest-runner", "@stryker-mutator/karma-runner">>
ReporterPlugins == <<"stryker-slack-reporter">>
GetName == ("@stryker-mutator/jest-runner" :> "jest") @@ ("stryker-jest-runner" :> "jest")
           @@ ("@stryker-mutator/karma-runner" :> "karma") @@ ("stryker-slack-reporter" :> "slack")
           @@ ("@stryker-mutator/vitest-runner" :> "vitest")

(* initStrykerConfig of their package.json.                                 *)
InitStrykerConfig(pkg) ==
  CASE pkg = "@stryker-mutator/jest-runner"  -> [coverageAnalysis |-> "perTest"]
    [] pkg = "@stryker-mutator/karma-runner" -> [karma |-> "karma.conf.js"]
    [] OTHER -> <<>>

(* search: an error is logged and the result is empty.                      *)
Search(packages) == {packages, <<>>}

(* mapSearchResultToPromptOption *)
PromptOptions(packages) == [i \in DOMAIN packages |-> [name |-> GetName[packages[i]], pkg |-> packages[i]]]
BuiltIn(name) == [name |-> name, pkg |-> None]

-------------------------------------------------------------------------------
(* The presets, but for options that nothing here depends on.               *)
Angular == {[preset |-> "angular-cli", testRunner |-> "karma", pkg |-> "@stryker-mutator/karma-runner"]}
React   == {[preset |-> "create-react-app", testRunner |-> "jest", pkg |-> "@stryker-mutator/jest-runner"]}
Vue     == {[preset |-> "vue", testRunner |-> "vitest", pkg |-> "@stryker-mutator/vitest-runner"]}
Svelte  == {[preset |-> "svelte", testRunner |-> runner[1], pkg |-> runner[2]] : runner \in
              {<<"jest", "@stryker-mutator/jest-runner">>, <<"vitest", "@stryker-mutator/vitest-runner">>}}
NoPreset == [preset |-> None, testRunner |-> None, pkg |-> None]

(* The answers that each question can have.  Of two test runners with one   *)
(* name the first is taken; without options nothing is asked.               *)
PromptPresets == Angular \cup React \cup Vue \cup Svelte \cup {NoPreset}

PromptTestRunners(options) ==
  {options[i] : i \in {k \in DOMAIN options : \A l \in 1 .. k - 1 : options[l].name # options[k].name}}
  \cup {BuiltIn("command")}

PromptBuildCommand(skip) == {""} \cup IF skip THEN {} ELSE {"npm run build"}

PromptReporters(options) ==
  {SelectSeq(options, LAMBDA o : o.name \in names) : names \in {{}, {"html"}, {options[i].name : i \in DOMAIN options}}}

PromptPackageManager == {"npm", "pnpm"}
PromptJsonConfigType == BOOLEAN

Fresh == [preset |-> NoPreset, testRunner |-> BuiltIn(None), buildCommand |-> "", reporters |-> <<>>, packageManager |-> None,
          json |-> FALSE, additional |-> {}]

-------------------------------------------------------------------------------
Init ==
  /\ command = None /\ step = "idle" /\ answers = Fresh
  /\ dir \in [configs : {<<>>, ".stryker.conf.js" :> [by |-> "user"]}, gitignore : {NoGitignore, 0},
              karmaConf : BOOLEAN, angular : {"unknown", "15.0", "15.1"}]
  /\ dir.karmaConf => dir.angular = "15.1"
  /\ dir.angular # "unknown" => dir.gitignore = 0 /\ dir.configs = <<>>
  /\ installed = {} /\ told = {} /\ code = 0 /\ sessions = 0

-------------------------------------------------------------------------------
(* Mutant: the guard looks for a JSON file only.                            *)
HasJsonConfig == "stryker.config.json" \in DOMAIN dir.configs

(* StrykerCli.run: the command; the initializer's promise decides on the    *)
(* exit code, and guardForExistingConfig rejects it first.                  *)
HasConfig == SupportedConfigFileNames \cap DOMAIN dir.configs # {}

Run ==
  /\ command = None /\ sessions < MaxSessions
  /\ sessions' = sessions + 1
  /\ \/ command' = "init" /\ ~HasConfig /\ step' = "preset" /\ code' = 0
     \/ command' = "init" /\ HasConfig /\ step' = "rejected" /\ code' = 1
     \/ command' = "unknown" /\ step' = "done" /\ code' = 0
  /\ UNCHANGED <<answers, dir, installed, told>>

Asked(now, next, given) ==
  /\ step = now /\ step' = next /\ answers' = given
  /\ UNCHANGED <<command, dir, installed, code, sessions>>

SelectCustomInitializer ==
  /\ \E preset \in PromptPresets :
       Asked("preset", IF preset = NoPreset THEN "testRunner" ELSE "createConfig", [answers EXCEPT !.preset = preset])
  /\ UNCHANGED told

(* AngularInitializer.createConfig: karma.conf.js is generated from 15.1    *)
(* on; that command may fail, and then the session does.                    *)
CreateConfig ==
  /\ step = "createConfig"
  /\ LET generates == answers.preset \in Angular /\ ~dir.karmaConf /\ dir.angular = "15.1"
     IN  \/ dir' = [dir EXCEPT !.karmaConf = @ \/ generates] /\ step' = "configType" /\ UNCHANGED code
         \/ generates /\ step' = "rejected" /\ code' = 1 /\ UNCHANGED dir
  /\ UNCHANGED <<command, answers, installed, told, sessions>>

SelectTestRunner ==
  \E found \in Search(Runners) :
    /\ \E option \in PromptTestRunners(PromptOptions(found)) :
         Asked("testRunner", "buildCommand", [answers EXCEPT !.testRunner = option])
    /\ told' = told \cup {Told("registry", {}) : f \in {found} \cap {<<>>}}

GetBuildCommand ==
  /\ \E built \in PromptBuildCommand(answers.testRunner.name = "jest") :
       Asked("buildCommand", "reporters", [answers EXCEPT !.buildCommand = built])
  /\ UNCHANGED told

SelectReporters ==
  \E found \in Search(ReporterPlugins) :
    /\ \E options \in PromptReporters(PromptOptions(found) \o <<BuiltIn("html"), BuiltIn("progress")>>) :
         Asked("reporters", "packageManager", [answers EXCEPT !.reporters = options])
    /\ told' = told \cup {Told("registry", {}) : f \in {found} \cap {<<>>}}

(* selectPackageManager: before the config file is written, and with a      *)
(* preset after it.                                                         *)
SelectPackageManager ==
  /\ \E name \in PromptPackageManager :
       Asked("packageManager", IF answers.preset = NoPreset THEN "configType" ELSE "install",
             [answers EXCEPT !.packageManager = name])
  /\ UNCHANGED told

SelectJsonConfigType ==
  /\ \E json \in PromptJsonConfigType :
       Asked("configType", IF answers.preset = NoPreset THEN "fetch" ELSE "write", [answers EXCEPT !.json = json])
  /\ UNCHANGED told

(* getSelectedNpmDependencies, or the dependencies of the preset.           *)
Dependencies ==
  IF answers.preset # NoPreset THEN <<answers.preset.pkg>>
  ELSE LET selected == SelectSeq(<<answers.testRunner>> \o answers.reporters, LAMBDA o : o.pkg # None)
       IN  [i \in DOMAIN selected |-> selected[i].pkg]

(* getAdditionalConfig: what cannot be fetched is told.                     *)
GetAdditionalConfig(packages, fetched) == {Told("configure", {pkg}) : pkg \in packages \ fetched}

FetchAdditionalConfig ==
  \E fetched \in SUBSET Range(Dependencies) :
    /\ Asked("fetch", "write", [answers EXCEPT !.additional = fetched])
    /\ told' = told \cup GetAdditionalConfig(Range(Dependencies), fetched)

-------------------------------------------------------------------------------
(* StrykerConfigWriter.write: the settings of plugins come last, those of a *)
(* later plugin over those of an earlier one.                               *)
CustomConfig ==
  LET base == ("by" :> "init") @@ ("packageManager" :> answers.packageManager) @@ ("testRunner" :> answers.testRunner.name)
              @@ ("reporters" :> [i \in DOMAIN answers.reporters |-> answers.reporters[i].name])
              @@ ("coverageAnalysis" :> IF answers.testRunner.name = "command" THEN "off" ELSE "perTest")
              @@ (IF answers.buildCommand # "" THEN "buildCommand" :> answers.buildCommand ELSE <<>>)
              @@ (IF answers.packageManager = "pnpm" THEN "plugins" :> Dependencies ELSE <<>>)
      pieces == SelectSeq(Dependencies, LAMBDA pkg : pkg \in answers.additional)
  IN  FoldLeft(LAMBDA config, pkg : InitStrykerConfig(pkg) @@ config, base, pieces)

(* writeCustomInitializer *)
PresetConfig == ("by" :> "init") @@ ("testRunner" :> answers.preset.testRunner)
                @@ (IF answers.preset \in Angular THEN "karma" :> "karma.conf.js" ELSE <<>>)

(* writeStrykerConfig *)
WriteConfig ==
  /\ step = "write"
  /\ dir' = [dir EXCEPT !.configs =
               (ConfigFileName(answers.json) :> IF answers.preset = NoPreset THEN CustomConfig ELSE PresetConfig) @@ @]
  /\ step' = IF ~answers.json THEN "format" ELSE IF answers.preset = NoPreset THEN "install" ELSE "packageManager"
  /\ UNCHANGED <<command, answers, installed, told, code, sessions>>

(* writeJsConfig: that the file cannot be formatted is told.                *)
Format ==
  /\ \E failure \in {{}, {Told("format", {})}} : told' = told \cup failure
  /\ Asked("format", IF answers.preset = NoPreset THEN "install" ELSE "packageManager", answers)

(* installNpmDependencies: one command for all; when it fails, the user is  *)
(* asked to run it.                                                         *)
InstallNpmDependencies ==
  /\ step = "install" /\ step' = "gitignore"
  /\ \/ installed' = installed \cup Range(Dependencies) /\ UNCHANGED told
     \/ Dependencies # <<>> /\ told' = told \cup {Told("install", Range(Dependencies))} /\ UNCHANGED installed
  /\ UNCHANGED <<command, answers, dir, code, sessions>>

(* addStrykerTempFolder: once, if there is a .gitignore.                    *)
AddStrykerTempFolder ==
  /\ step = "gitignore" /\ step' = "done"
  /\ dir' = [dir EXCEPT !.gitignore = IF @ = 0 THEN 1 ELSE @]
  /\ told' = told \cup {Told("gitignore", {}) : n \in {dir.gitignore} \cap {NoGitignore}}
  /\ UNCHANGED <<command, answers, installed, code, sessions>>

-------------------------------------------------------------------------------
(* The process ends, or the user stops it.                                  *)
Exit ==
  /\ command # None /\ command' = None /\ step' = "idle" /\ answers' = Fresh /\ told' = {}
  /\ UNCHANGED <<dir, installed, code, sessions>>

(* "Please remove it and try again." *)
RemoveConfig ==
  /\ command = None /\ HasConfig
  /\ dir' = [dir EXCEPT !.configs = <<>>]
  /\ UNCHANGED <<command, step, answers, installed, told, code, sessions>>

Next == \/ Run \/ SelectCustomInitializer \/ CreateConfig \/ SelectTestRunner \/ GetBuildCommand \/ SelectReporters
        \/ SelectPackageManager \/ SelectJsonConfigType \/ FetchAdditionalConfig \/ WriteConfig \/ Format
        \/ InstallNpmDependencies \/ AddStrykerTempFolder \/ Exit \/ RemoveConfig

Spec == Init /\ [][Next]_vars

-------------------------------------------------------------------------------
Configured == command = "init" /\ step = "done"
Config == dir.configs[ConfigFileName(answers.json)]
Named  == {Config.testRunner} \cup IF "reporters" \in DOMAIN Config THEN Range(Config.reporters) ELSE {}

(* When init is done, each plugin that the config file names is installed   *)
(* and configured, or the user has been told to do that; with a preset for  *)
(* Angular 15.1 the file of karma is there; and the entry in .gitignore.    *)
ConfigIsUsable ==
  Configured =>
    /\ \A name \in Named \cap Range(GetName) : \E pkg \in {p \in DOMAIN GetName : GetName[p] = name} :
         /\ pkg \in installed \/ \E t \in told : t.what = "install" /\ pkg \in t.packages
         /\ \/ \E t \in told : t.what = "configure" /\ pkg \in t.packages
            \/ DOMAIN InitStrykerConfig(pkg) \subseteq DOMAIN Config
            \/ answers.preset # NoPreset
    /\ answers.preset \in Angular /\ dir.angular = "15.1" => dir.karmaConf
    /\ dir.gitignore = 1 \/ \E t \in told : t.what = "gitignore"

(* The command test runner cannot measure coverage.                         *)
CoverageFitsTheRunner == Configured => (Config.testRunner = "command" => Config.coverageAnalysis = "off")

(* A session that fails after questions leaves no config file behind, which *)
(* would keep the next one from trying again.                               *)
FailureBlocksNothing == step = "rejected" /\ HasConfig => answers = Fresh

(* No session changes a config file that is there, and what .gitignore says *)
(* is said once, however often init is stopped and repeated.                *)
ExistingFilesSurvive ==
  [][/\ \A name \in DOMAIN dir.configs \cap DOMAIN dir'.configs : dir'.configs[name] = dir.configs[name]
     /\ dir.gitignore # 0 => dir'.gitignore = dir.gitignore]_vars

(* With pnpm the config file lists the plugins: refuted with a preset, for  *)
(* which the package manager is asked after the config file is written.     *)
PnpmFindsPlugins == Configured /\ answers.packageManager = "pnpm" => "plugins" \in DOMAIN Config

(* A session that was stopped can be repeated: refuted between the writing  *)
(* of the config file and the installation.                                 *)
StoppedCanBeRepeated ==
  [][command = "init" /\ command' = None /\ HasConfig => step \in {"done", "rejected"}]_vars
================================================================================
