---------------------------- MODULE RunnerConfigs ----------------------------
(***************************************************************************)
(* How plugins read the configuration of the tool that they adapt: mocha   *)
(* (mocha-options-loader.ts), jest (config-loaders/) and the TypeScript    *)
(* compiler (tsconfig-helpers.ts).  Each is a function of the settings and *)
(* of the files that are there; `study' says which one is read.            *)
(***************************************************************************)
EXTENDS Naturals, Sequences, FiniteSets, SequencesExt

CONSTANTS MaxLines, TsOptions

VARIABLES study, given, loaded

vars == <<study, given, loaded>>

None == "none"
Unloaded == [done |-> FALSE]

-------------------------------------------------------------------------------
(* Mocha.  The value of an option is a sequence of words.                   *)
DefaultMochaOptions == [require |-> <<>>, ui |-> <<"bdd">>, spec |-> <<"test">>]

(* Lines of a mocha.opts file, as words.                                    *)
Lines == {<<"-r", "a">>, <<"--require", "b", "c">>, <<"--ui", "tdd">>, <<"--grep", "/x/">>, <<"--grep">>,
          <<"--async-only">>, <<"--timeout", "1">>, <<"src/*.spec.js">>}

(* parseNextString, and what is made of it for grep.                        *)
ParseNextString(words, otherwise) == IF Len(words) > 1 THEN <<words[2]>> ELSE otherwise
WithoutSlashes(grep) == IF grep = <<"/x/">> THEN <<"x">> ELSE grep

(* Mutant: a second --require replaces the first.                           *)
ParseLineReplacing(options, words) ==
  CASE words[1] \in {"-r", "--require"} -> ("require" :> Tail(words)) @@ options
    [] words[1] = "--ui"   -> ("ui" :> ParseNextString(words, <<"bdd">>)) @@ options
    [] words[1] = "--grep" -> ("grep" :> WithoutSlashes(ParseNextString(words, <<"undefined">>))) @@ options
    [] OTHER -> options

(* parseOptsFile: one line after the other; require collects, of the others *)
(* the last one counts, and what is not supported is left out.              *)
ParseLine(options, words) ==
  CASE words[1] \in {"-r", "--require"} ->
         ("require" :> ((IF "require" \in DOMAIN options THEN options["require"] ELSE <<>>) \o Tail(words))) @@ options
    [] words[1] = "--ui"   -> ("ui" :> ParseNextString(words, <<"bdd">>)) @@ options
    [] words[1] = "--grep" -> ("grep" :> WithoutSlashes(ParseNextString(words, <<"undefined">>))) @@ options
    [] words[1] = "--async-only" -> ("async-only" :> <<"true">>) @@ options
    [] OTHER -> options

ParseOptsFile(lines) == FoldLeft(ParseLine, <<>>, lines)

(* loadLegacyMochaOptsFile: with no-opts the settings themselves.           *)
LoadLegacyMochaOptsFile ==
  IF given.noOpts THEN given.mochaOptions
  ELSE IF given.exists THEN ParseOptsFile(given.lines) ELSE <<>>

(* loadMocha6Options: mocha reads the same file, unless it must not; words  *)
(* that are no option are added to spec.                                    *)
Positional == SelectSeq(given.lines, LAMBDA words : words[1] = "src/*.spec.js")
FilterConfig ==
  ParseOptsFile(given.lines) @@ IF Positional = <<>> THEN <<>> ELSE "spec" :> [i \in DOMAIN Positional |-> Positional[i][1]]

LoadMocha6Options == IF given.noOpts \/ ~given.exists THEN <<>> ELSE FilterConfig

(* load: what Stryker's options say is over the file, which is over the     *)
(* defaults.                                                                *)
LoadMocha == given.mochaOptions @@ (IF given.modern THEN LoadMocha6Options ELSE LoadLegacyMochaOptsFile) @@ DefaultMochaOptions

-------------------------------------------------------------------------------
(* Jest.  Files are [dir, name].                                            *)
File(dir, name) == [dir |-> dir, name |-> name]
JestConfigJs == File("root", "jest.config.js")
JestConfigTs == File("root", "jest.config.ts")
PackageJson  == File("root", "package.json")
NoFile == File(None, None)
Config(from, rootDir) == [done |-> TRUE, from |-> from, rootDir |-> rootDir]

(* The file that is named, or the default one if it exists.                 *)
ResolveJestConfigFilePath ==
  LET candidate == IF given.configFile # NoFile THEN given.configFile ELSE JestConfigJs
  IN  IF candidate.name # "package.json" /\ (given.configFile # NoFile \/ candidate \in given.files) THEN candidate ELSE NoFile

ResolvePackageJsonFilePath ==
  LET candidate == IF given.configFile # NoFile THEN given.configFile ELSE PackageJson
  IN  IF candidate.name = "package.json" /\ (given.configFile # NoFile \/ candidate \in given.files) THEN candidate ELSE NoFile

(* setRootDir: relative to the directory of the file.                       *)
SetRootDir(from) == IF given.rootDir = None THEN from.dir ELSE from.dir \o "/" \o given.rootDir

Read(path) == Config(path, SetRootDir(path))
Failed == Config(NoFile, "error")
NoConfig == Config(NoFile, None)

(* readConfigFromJestConfigFile: by require, which cannot read TypeScript.  *)
ReadConfigFromJestConfigFile ==
  IF ResolveJestConfigFilePath \in given.files \ {JestConfigTs} THEN Read(ResolveJestConfigFilePath) ELSE Failed

ReadConfigFromPackageJson ==
  IF ResolvePackageJsonFilePath \in given.files THEN Read(ResolvePackageJsonFilePath) ELSE Failed

ReadConfigManually ==
  IF ResolveJestConfigFilePath # NoFile THEN ReadConfigFromJestConfigFile
  ELSE IF ResolvePackageJsonFilePath # NoFile THEN ReadConfigFromPackageJson
  ELSE NoConfig

(* readConfigNative: jest from 29.3 on, which looks for other names too and *)
(* throws for a file that is not there.                                     *)
ReadConfigNative ==
  LET found == IF given.configFile # NoFile THEN SelectSeq(<<given.configFile>>, LAMBDA f : f \in given.files)
               ELSE SelectSeq(<<JestConfigJs, JestConfigTs, PackageJson>>, LAMBDA f : f \in given.files)
  IN  IF found # <<>> THEN Read(found[1]) ELSE IF given.configFile # NoFile THEN Failed ELSE NoConfig

(* loadConfig: whatever is thrown, the file is read again manually.         *)
LoadConfig == IF given.native /\ ReadConfigNative # Failed THEN ReadConfigNative ELSE ReadConfigManually

(* ReactScriptsJestConfigLoader: NODE_ENV is set if it is not; an           *)
(* environment file that cannot be read is told, react-scripts must exist.  *)
SetEnv(env) == IF env = None THEN "test" ELSE env
LoadReactConfig == [done |-> TRUE, error |-> ~given.reactScripts, env |-> IF given.reactScripts THEN SetEnv(given.env) ELSE given.env]

-------------------------------------------------------------------------------
(* TypeScript: the compiler options that are on, or given.                  *)
CompilerOptionsOverrides(options) == (options \cup {"allowUnreachableCode"}) \ {"noUnusedLocals", "noUnusedParameters"}
NoEmitOptionsForSingleProject(options) == (options \cup {"noEmit"}) \ {"incremental", "tsBuildInfoFile", "composite"}
LowEmitOptionsForProjectReferences(options) ==
  (options \cup {"emitDeclarationOnly", "declarationMap", "declaration"}) \ {"noEmit"}

(* Mutant: declarationDir stays although composite is taken away.           *)
OverrideOptionsButDirs(options, useBuildMode) ==
  IF useBuildMode
  THEN LowEmitOptionsForProjectReferences(CompilerOptionsOverrides(options))
       \ {"inlineSourceMap", "inlineSources", "mapRoute", "sourceRoot", "outFile"}
  ELSE NoEmitOptionsForSingleProject(CompilerOptionsOverrides(options))

(* overrideOptions, with the misspelt mapRoute.                             *)
OverrideOptions(options, useBuildMode) ==
  IF useBuildMode
  THEN LowEmitOptionsForProjectReferences(CompilerOptionsOverrides(options))
       \ {"inlineSourceMap", "inlineSources", "mapRoute", "sourceRoot", "outFile"}
  ELSE NoEmitOptionsForSingleProject(CompilerOptionsOverrides(options)) \ {"declarationDir"}

(* determineBuildModeEnabled, retrieveReferencedProjects *)
DetermineBuildModeEnabled == given.references # None
RetrieveReferencedProjects == IF given.references = "array" THEN {"lib"} ELSE {}

-------------------------------------------------------------------------------
(* What the compiler says of the options alone (TS5069).                    *)
NeedDeclarations == {"declarationDir", "declarationMap", "emitDeclarationOnly"}
Accepted(options) == options \cap NeedDeclarations # {} => options \cap {"declaration", "composite"} # {}

Init ==
  /\ loaded = Unloaded
  /\ \/ /\ study = "mocha"
        /\ given \in [modern : BOOLEAN, noOpts : BOOLEAN, exists : BOOLEAN, lines : BoundedSeq(Lines, MaxLines),
                      mochaOptions : {<<>>, "grep" :> <<"y">>, ("require" :> <<"d">>) @@ ("ui" :> <<"qunit">>)}]
     \/ /\ study = "jest"
        /\ given \in [configFile : {NoFile, JestConfigJs, JestConfigTs, File("sub", "package.json")},
                      files : SUBSET {JestConfigJs, JestConfigTs, PackageJson, File("sub", "package.json")},
                      native : BOOLEAN, rootDir : {None, "src"}]
     \/ /\ study = "react" /\ given \in [reactScripts : BOOLEAN, env : {None, "test", "development"}]
     \/ /\ study = "tsconfig" /\ given \in [options : {o \in SUBSET TsOptions : Accepted(o)}, references : {None, "array", "other"}]

Load ==
  /\ ~loaded.done
  /\ loaded' = CASE study = "mocha" -> [done |-> TRUE, options |-> LoadMocha]
                 [] study = "jest"  -> LoadConfig
                 [] study = "react" -> LoadReactConfig
                 [] study = "tsconfig" -> [done |-> TRUE, options |-> OverrideOptions(given.options, DetermineBuildModeEnabled),
                                           projects |-> RetrieveReferencedProjects]
  /\ UNCHANGED <<study, given>>

Next == Load

Spec == Init /\ [][Next]_vars

-------------------------------------------------------------------------------
Done(what) == loaded.done /\ study = what

(* Mocha: an option of Stryker wins; otherwise, if a file is read, all that *)
(* its lines require, in their order, and the last ui; otherwise the        *)
(* default.                                                                 *)
MochaPrecedence ==
  Done("mocha") =>
    LET lines == IF given.exists /\ ~given.noOpts THEN given.lines ELSE <<>>
        required == SelectSeq(lines, LAMBDA words : words[1] \in {"-r", "--require"})
        uis == SelectSeq(lines, LAMBDA words : words[1] = "--ui")
    IN  /\ \A key \in DOMAIN given.mochaOptions : loaded.options[key] = given.mochaOptions[key]
        /\ "require" \notin DOMAIN given.mochaOptions =>
             /\ loaded.options["require"] = FlattenSeq([i \in DOMAIN required |-> Tail(required[i])])
             /\ loaded.options["ui"] = IF uis = <<>> THEN <<"bdd">> ELSE <<"tdd">>

(* Jest: a file that is named is read, or loading fails; otherwise a        *)
(* jest.config.js is read before package.json; rootDir is resolved from the *)
(* directory of the file.                                                   *)
JestConfigIsTheOne ==
  Done("jest") =>
    /\ given.configFile # NoFile => loaded.from = given.configFile \/ loaded.rootDir = "error"
    /\ given.configFile = NoFile =>
         /\ loaded.rootDir # "error"
         /\ JestConfigJs \in given.files => loaded.from = JestConfigJs
         /\ PackageJson \in given.files => loaded.from # NoFile
    /\ loaded.from # NoFile =>
         loaded.rootDir = IF given.rootDir = None THEN loaded.from.dir ELSE loaded.from.dir \o "/src"

(* Typescript: without references nothing can be written, with references   *)
(* declarations are; and unless they ask for declarations by another option *)
(* than declaration, options that the compiler accepts stay acceptable.     *)
TsOptionsAreRight ==
  Done("tsconfig") =>
    /\ IF given.references = None THEN "noEmit" \in loaded.options /\ "composite" \notin loaded.options
       ELSE "noEmit" \notin loaded.options /\ {"emitDeclarationOnly", "declaration"} \subseteq loaded.options
    /\ \/ given.options \cap {"declarationMap", "emitDeclarationOnly"} # {} /\ "declaration" \notin given.options /\ given.references = None
       \/ Accepted(loaded.options)

(* The same for all options: refuted for composite with declarationMap,     *)
(* since composite is taken away and declarationMap is not.                 *)
AcceptedStaysAccepted == Done("tsconfig") => Accepted(loaded.options)

(* Source maps are where the checker looks for them: refuted, mapRoot stays.*)
MapsAreBesideDeclarations == Done("tsconfig") /\ given.references # None => "mapRoot" \notin loaded.options

(* A jest.config.ts is read: refuted where jest cannot do it.               *)
JestConfigIsNeverMissed == Done("jest") /\ given.configFile = NoFile /\ JestConfigTs \in given.files => loaded.from # NoFile

(* Old versions of mocha run the specs that the file names: refuted.        *)
SpecIsRead == Done("mocha") /\ given.exists /\ ~given.noOpts /\ Positional # <<>> => loaded.options["spec"] # <<"test">>
================================================================================
