----------------------------- MODULE SandboxFiles -----------------------------
(***************************************************************************)
(* What the files of a sandbox contain (packages/core: fs/project-file.ts, *)
(* the preprocessors in sandbox/, Sandbox.sandboxFile and the symlinks to  *)
(* node_modules).  A project file keeps its original and its current       *)
(* content; the instrumenter and two preprocessors change it, one after    *)
(* the other; a file without changes is copied, or stays as it is.         *)
(*                                                                         *)
(* The tsconfig preprocessor follows the references between tsconfig files *)
(* and rewrites those that lead out of the project, since the sandbox is   *)
(* two directories deeper.  A path is the sequence of its names.           *)
(***************************************************************************)
EXTENDS Integers, Sequences, FiniteSets, SequencesExt

CONSTANT MaxDirs   \* directories of the project

VARIABLES sandboxStudy,     \* what varies: contents, tsconfig files or directories
          tempDirName, inPlace,
          fileStage,            \* mutate, disable, tsconfig, write, link, done
          projectFiles,     \* per file [current, original], Undefined or the changes in it
          matched,          \* files that disableTypeChecks names, and those it can parse
          written, backups, \* per file what is in the working directory, and in the backup
          uses, rewritten,  \* the references in tsconfig files, as given and as written
          touched, stack,   \* the tsconfig files that have been visited, and those to visit
          dirs, queue, nodeModulesList

vars == <<sandboxStudy, tempDirName, inPlace, fileStage, projectFiles, matched, written, backups, uses, rewritten,
          touched, stack, dirs, queue, nodeModulesList>>

Undefined == {"undefined"}
Names == {"mutate.ts", "other.ts"}

-------------------------------------------------------------------------------
(* ProjectFile.  Its content is the set of changes that were made to it.    *)

(* readContent and readOriginal *)
Read(file) ==
  LET original == IF file.original = Undefined /\ file.current = Undefined THEN {} ELSE file.original
  IN  [original |-> original, current |-> IF file.current = Undefined THEN original ELSE file.current]

SetContent(file, content) == [file EXCEPT !.current = content]

HasChanges(file) == file.current # file.original

(* writeToSandbox, backupTo, writeInPlace: copy what was never read.        *)
Content(file) == IF file.current = Undefined THEN {} ELSE file.current
Backup(file)  == IF file.original = Undefined THEN {} ELSE file.original

(* The instrumenter and disableTypeChecks read a file and set its content.  *)
Changed(file, change) == LET read == Read(file) IN SetContent(read, read.current \cup {change})

-------------------------------------------------------------------------------
(* Paths *)

Cwd == <<"home", "project">>
SandboxDir == Cwd \o tempDirName \o <<"sandbox">>

Parent(path) == Front(path)
Outside(path) == ~IsPrefix(Cwd, path)
InSandbox(path) == SandboxDir \o SubSeq(path, Len(Cwd) + 1, Len(path))

(* path.resolve of a reference, from a directory.                           *)
Resolve(dir, ref) ==
  IF ref.absolute THEN ref.down
  ELSE SubSeq(dir, 1, IF ref.up < Len(dir) THEN Len(dir) - ref.up ELSE 0) \o ref.down

RootConfig == Cwd \o <<"tsconfig">>
LibConfig  == Cwd \o <<"lib", "tsconfig">>
ConfigFiles == {RootConfig, LibConfig}

(* References between them, to a file that is not there, and out of the     *)
(* project.  TypeScript also takes a list of configurations to extend.      *)
RefsOf(config) ==
  LET up == IF config = RootConfig THEN 0 ELSE 1
      To(u, down, absolute) == [up |-> u, down |-> down, absolute |-> absolute]
  IN  {To(up, <<"lib", "tsconfig">>, FALSE), To(up, <<"tsconfig">>, FALSE), To(up, <<"missing">>, FALSE),
       To(up + 1, <<"shared">>, FALSE), To(up + 2, <<"shared">>, FALSE), To(0, <<"etc", "shared">>, TRUE)}

Uses == UNION {[in : {config}, kind : {"extends", "extends list", "reference", "include"}, ref : RefsOf(config)] : config \in ConfigFiles}

-------------------------------------------------------------------------------
(* TSConfigPreprocessor *)

(* A mutant: one directory up is not enough. *)
RewriteOneUp(use) ==
  IF Outside(Resolve(Parent(use.in), use.ref)) /\ use.kind # "extends list"
  THEN [use EXCEPT !.ref.up = @ + 1, !.ref.absolute = FALSE] ELSE use

(* tryRewriteReference: two directories up, in front of the reference.      *)
Rewrite(use) ==
  IF Outside(Resolve(Parent(use.in), use.ref)) /\ use.kind # "extends list"
  THEN [use EXCEPT !.ref.up = @ + 2, !.ref.absolute = FALSE] ELSE use

(* rewriteTSConfigFile goes on with what this file extends and refers to.   *)
Follows(config) ==
  {Resolve(Parent(config), u.ref) : u \in {v \in uses : v.in = config /\ v.kind \in {"extends", "reference"}}}

-------------------------------------------------------------------------------
(* fileUtils.findNodeModulesList *)

AllDirs == {<<"node_modules">>, <<"node_modules", "x">>, <<"node_modules", "x", "node_modules">>, <<"a">>, <<"a", "node_modules">>,
            <<"tmp">>, <<"tmp", "old">>, <<"tmp", "old", "node_modules">>, <<"build">>, <<"build", "tmp">>,
            <<"build", "tmp", "node_modules">>}

ChildDirs(dir) == {d \in dirs : Len(d) = Len(dir) + 1 /\ IsPrefix(dir, d)}

-------------------------------------------------------------------------------
(* Whether disableTypeChecks names a file, and whether it can be parsed.    *)
Matchings == IF sandboxStudy = "contents" THEN [Names -> {"no", "parses", "does not parse"}] ELSE {[f \in Names |-> "no"]}

Init ==
  /\ sandboxStudy \in {"contents", "tsconfig", "dirs"}
  /\ tempDirName \in (IF sandboxStudy = "contents" THEN {<<"tmp">>} ELSE {<<"tmp">>, <<"build", "tmp">>})
  /\ inPlace \in (IF sandboxStudy = "dirs" THEN {FALSE} ELSE BOOLEAN)
  /\ fileStage = (IF sandboxStudy = "contents" THEN "mutate" ELSE IF sandboxStudy = "tsconfig" THEN "tsconfig" ELSE "link")
  /\ projectFiles = [f \in Names |-> [current |-> Undefined, original |-> Undefined]]
  /\ matched \in Matchings
  /\ written = [f \in Names |-> Undefined] /\ backups = written
  /\ uses \in (IF sandboxStudy = "tsconfig" THEN {{u, v} : u \in Uses, v \in Uses} ELSE {{}})
  /\ rewritten = {} /\ touched = {} /\ stack = <<RootConfig>>
  /\ dirs \in (IF sandboxStudy = "dirs"
               THEN {ds \in UNION {kSubset(k, AllDirs) : k \in 0..MaxDirs} : \A d \in ds : Len(d) = 1 \/ Parent(d) \in ds}
               ELSE {{}})
  /\ queue = << <<>> >> /\ nodeModulesList = {}

(* The file to mutate is read, and gets its mutants if it has any; another  *)
(* file may be read for its original content, by the incremental differ.    *)
Mutate ==
  /\ fileStage = "mutate" /\ fileStage' = "disable"
  /\ \E mutants, differ \in BOOLEAN :
       projectFiles' = [f \in Names |->
         IF f = "mutate.ts" THEN (IF mutants THEN Changed(projectFiles[f], "mutants") ELSE Read(projectFiles[f]))
         ELSE IF differ THEN Read(projectFiles[f]) ELSE projectFiles[f]]
  /\ UNCHANGED <<sandboxStudy, tempDirName, inPlace, matched, written, backups, uses, rewritten, touched, stack, dirs, queue, nodeModulesList>>

(* DisableTypeChecksPreprocessor: a file that cannot be parsed stays.       *)
DisableTypeChecks ==
  /\ fileStage = "disable" /\ fileStage' = "write"
  /\ projectFiles' = [f \in Names |->
       CASE matched[f] = "no" -> projectFiles[f]
         [] matched[f] = "parses" -> Changed(projectFiles[f], "no type checks")
         [] OTHER -> Read(projectFiles[f])]
  /\ UNCHANGED <<sandboxStudy, tempDirName, inPlace, matched, written, backups, uses, rewritten, touched, stack, dirs, queue, nodeModulesList>>

(* Sandbox.sandboxFile, for all files.                                      *)
SandboxFile ==
  /\ fileStage = "write" /\ fileStage' = "done"
  /\ written' = [f \in Names |->
       IF ~inPlace THEN Content(projectFiles[f])
       ELSE IF HasChanges(projectFiles[f]) THEN Content(projectFiles[f]) ELSE {}]
  /\ backups' = [f \in Names |->
       IF inPlace /\ HasChanges(projectFiles[f]) THEN Backup(projectFiles[f]) ELSE Undefined]
  /\ UNCHANGED <<sandboxStudy, tempDirName, inPlace, projectFiles, matched, uses, rewritten, touched, stack, dirs, queue, nodeModulesList>>

(* rewriteTSConfigFile: one file of the walk, which visits none twice.      *)
RewriteTSConfigFile ==
  /\ fileStage = "tsconfig" /\ ~inPlace /\ stack # <<>>
  /\ LET config == Head(stack)
     IN  IF config \in touched
         THEN stack' = Tail(stack) /\ UNCHANGED <<touched, rewritten>>
         ELSE /\ touched' = touched \cup {config}
              /\ IF config \in ConfigFiles
                 THEN /\ stack' = SetToSeq({p \in Follows(config) : ~Outside(p)}) \o Tail(stack)
                      /\ rewritten' = rewritten \cup {Rewrite(u) : u \in {v \in uses : v.in = config}}
                 ELSE stack' = Tail(stack) /\ UNCHANGED rewritten
  /\ UNCHANGED <<sandboxStudy, tempDirName, inPlace, fileStage, projectFiles, matched, written, backups, uses, dirs, queue, nodeModulesList>>

(* findNodeModulesList: one directory of the walk.                          *)
FindNodeModules ==
  /\ fileStage = "link" /\ queue # <<>>
  /\ LET dir == Last(queue)
     IN  IF dir # <<>> /\ tempDirName = <<Last(dir)>>
         THEN queue' = Front(queue) /\ UNCHANGED nodeModulesList
         ELSE IF dir # <<>> /\ Last(dir) = "node_modules"
         THEN queue' = Front(queue) /\ nodeModulesList' = nodeModulesList \cup {dir}
         ELSE queue' = Front(queue) \o SetToSeq(ChildDirs(dir)) /\ UNCHANGED nodeModulesList
  /\ UNCHANGED <<sandboxStudy, tempDirName, inPlace, fileStage, projectFiles, matched, written, backups, uses, rewritten, touched, stack, dirs>>

Next == Mutate \/ DisableTypeChecks \/ SandboxFile \/ RewriteTSConfigFile \/ FindNodeModules

Spec == Init /\ [][Next]_vars

-------------------------------------------------------------------------------
(* A file in the working directory has its mutants and, if that is asked    *)
(* for and possible, no type checks, whoever read it before; and with       *)
(* inPlace a file that was overwritten has a backup without changes.        *)
ContentsAreRight ==
  fileStage = "done" => \A f \in Names :
    /\ written[f] \ {"mutants"} = IF matched[f] = "parses" THEN {"no type checks"} ELSE {}
    /\ "mutants" \in projectFiles[f].current \ Undefined <=> "mutants" \in written[f]
    /\ inPlace /\ written[f] # {} => backups[f] = {}
    /\ backups[f] = Undefined \/ written[f] # {}

(* A reference that leads out of the project still leads to the same file   *)
(* when it is read in the sandbox, and one within the project leads to the  *)
(* copy in the sandbox, in all tsconfig files that can be reached.          *)
LeadsRight(use) ==
  LET target == Resolve(Parent(use.in), use.ref)
  IN  Resolve(Parent(InSandbox(use.in)), Rewrite(use).ref) = IF Outside(target) THEN target ELSE InSandbox(target)

(* Right for relative references that TSConfigPreprocessor looks at, when   *)
(* the temporary directory is directly in the project.                      *)
ReferencesLeadRight ==
  fileStage = "tsconfig" /\ stack = <<>> =>
    /\ \A config \in ConfigFiles \cap touched : Follows(config) \cap ConfigFiles \subseteq touched
    /\ \A u \in uses : u.in \in touched => Rewrite(u) \in rewritten
    /\ Len(tempDirName) = 1 => \A u \in uses :
         u.in \in touched /\ ~u.ref.absolute /\ u.kind # "extends list" => LeadsRight(u)

(* All references: refuted for an absolute path, for a list of files to     *)
(* extend, and for a temporary directory that is deeper.                    *)
AllReferencesLeadRight == fileStage = "tsconfig" /\ ~inPlace /\ stack = <<>> =>
  \A u \in uses : u.in \in touched => LeadsRight(u)

(* Every node_modules directory that is in no other one and not in the      *)
(* temporary directory is linked into the sandbox, and no other directory.  *)
NodeModulesAreLinked ==
  fileStage = "link" /\ queue = <<>> /\ Len(tempDirName) = 1 =>
    nodeModulesList = {d \in dirs : /\ Last(d) = "node_modules"
                                    /\ \A i \in 1..(Len(d) - 1) : d[i] # "node_modules" /\ d[i] # Head(tempDirName)}
================================================================================
