--------------------------- MODULE TypescriptChecker ---------------------------
(***************************************************************************)
(* The TypeScript checker plugin: which mutants are type checked together, *)
(* which of them is blamed for an error, and the files in memory that the  *)
(* compiler watches.  Files are nodes, `imports' are the dependencies that *)
(* the compiler reports, and each mutant by itself causes errors in a set  *)
(* of files.                                                               *)
(***************************************************************************)
EXTENDS Naturals, Sequences, FiniteSets, SequencesExt, Relation

CONSTANTS TsMutants,      \* the mutants, in the order in which they are asked for
          TsFiles,        \* the source files of the project
          OtherFile,      \* a file that is not part of the project
          ImportSets      \* the graphs to choose from, as sets of pairs

VARIABLES
  project,    \* imports, the file of each mutant, its errors, and the option
  tsStage,      \* "init", "group", "check", "done" or "rejected"
  ungrouped,  \* mutantsToGroup
  groups,     \* the groups that still have to be checked
  alone,      \* mutantsThatCouldNotBeTestedInGroups
  content,    \* of each file: the mutant in it, or "original"
  compiled,   \* the contents that the compiler has seen last
  verdicts

(* No mutant is called like a file without one, and some are asked for.     *)
InputIsSound ==
  /\ TsMutants \in Seq(Range(TsMutants)) /\ TsMutants # << >>
  /\ "original" \notin Range(TsMutants) /\ OtherFile \notin TsFiles

tsVars == <<project, tsStage, ungrouped, groups, alone, content, compiled, verdicts>>

Order     == TsMutants
MutantSet == Range(TsMutants)
Original  == [f \in TsFiles |-> "original"]

Home(m) == project.home[m]
InProject(m) == Home(m) \in TsFiles

(* getAllParentReferencesIncludingSelf: whoever depends on the file.        *)
Parents(f) ==
  LET imports == TransitiveClosure([g, h \in TsFiles |-> <<g, h>> \in project.imports], TsFiles)
  IN  {f} \cup {g \in TsFiles : imports[g, f]}

(* getMutantsWithReferenceToChildrenOrSelf.                                 *)
RelatedTo(f, ms) == {m \in ms : InProject(m) /\ f \in Parents(Home(m))}

TsInit ==
  /\ project = [imports |-> {}, home |-> [m \in MutantSet |-> OtherFile],
                errors |-> [m \in MutantSet |-> {}], fast |-> FALSE]
  /\ tsStage = "init" /\ ungrouped = << >> /\ groups = << >> /\ alone = << >>
  /\ content = Original /\ compiled = Original
  /\ verdicts = [m \in MutantSet |-> "none"]

(* The dry run of the compiler: an error in it rejects init().              *)
InitCompiler ==
  /\ tsStage = "init"
  /\ project' \in [imports : ImportSets, home : [MutantSet -> TsFiles \cup {OtherFile}],
                   errors : [MutantSet -> {{}} \cup {{f} : f \in TsFiles \cup {OtherFile}}], fast : BOOLEAN]
  /\ \A m \in MutantSet : project'.home[m] = OtherFile => project'.errors[m] = {}
  /\ tsStage' \in {"group", "rejected"}
  /\ ungrouped' = Order
  /\ UNCHANGED <<groups, alone, content, compiled, verdicts>>

\* Mutant of NextGroup: only the dependencies of what is in the group count.
NextGroupOneWay(ms) ==
  LET Fits(m, group) == \A g \in Range(group) : Home(m) \notin Parents(Home(g))
  IN  FoldLeft(LAMBDA group, m : IF Fits(m, group) THEN Append(group, m) ELSE group, << >>, ms)

(* One round of createGroups: the first mutants that fit together, where    *)
(* two files fit when neither depends on the other.                         *)
NextGroup(ms) ==
  LET Fits(m, group) == \A g \in Range(group) :
                          Home(m) \notin Parents(Home(g)) /\ Home(g) \notin Parents(Home(m))
  IN  FoldLeft(LAMBDA group, m : IF Fits(m, group) THEN Append(group, m) ELSE group, << >>, ms)

(* Those of a sequence of mutants that are not in a set, in their order.    *)
Without(mutants, ms) ==
  FoldLeft(LAMBDA rest, m : IF m \in ms THEN rest ELSE Append(rest, m), << >>, mutants)

(* group(): without prioritizePerformanceOverAccuracy each by itself;       *)
(* otherwise what is not in the project comes first.                        *)
Group ==
  /\ tsStage = "group"
  /\ LET others == Without(ungrouped, {m \in MutantSet : InProject(m)})
         next   == CASE ~project.fast -> <<Head(ungrouped)>>
                     [] project.fast /\ others # << >> -> others
                     [] OTHER -> NextGroup(ungrouped)
     IN  /\ groups' = Append(groups, next)
         /\ ungrouped' = Without(ungrouped, Range(next))
  /\ tsStage' = IF ungrouped' = << >> THEN "check" ELSE "group"
  /\ UNCHANGED <<project, alone, content, compiled, verdicts>>

(* TypescriptCompiler.check: the last mutants are reset, these are put in,  *)
(* each by replacing the whole content.                                     *)
WithMutants(ms) ==
  [f \in TsFiles |-> IF \E m \in ms : Home(m) = f THEN CHOOSE m \in ms : Home(m) = f ELSE "original"]

(* What the watching compiler reports after that: the errors of a mutant    *)
(* that was there the last time too go unnoticed.                           *)
Report(before, after) ==
  UNION {project.errors[after[f]] : f \in {g \in TsFiles : after[g] \notin {"original", before[g]}}}

Verdict(ms, status) ==
  verdicts' = [m \in MutantSet |-> IF m \in ms /\ verdicts[m] # "CompileError" THEN status ELSE verdicts[m]]

(* check() of a group, up to the mutants that have to be tried alone; for   *)
(* these the files are reset first.                                         *)
Check ==
  /\ tsStage = "check" /\ alone = << >> /\ groups # << >>
  /\ LET group   == Head(groups)
         ms      == Range(group)
         after   == WithMutants(ms)
         errors  == Report(compiled, after)
         Blamed(e) == RelatedTo(e, ms)
         suspects == UNION {IF Blamed(e) = {} THEN ms ELSE IF Cardinality(Blamed(e)) = 1 THEN {} ELSE Blamed(e) : e \in errors}
         guilty   == UNION {Blamed(e) : e \in {d \in errors : Cardinality(Blamed(d)) = 1}}
     IN  CASE ~InProject(Head(group)) ->
                Verdict(ms, "Passed") /\ UNCHANGED <<tsStage, alone, content, compiled>>
           [] InProject(Head(group)) /\ Len(group) = 1 ->
                /\ content' = after /\ compiled' = after
                /\ Verdict(ms, IF errors = {} THEN "Passed" ELSE "CompileError")
                /\ UNCHANGED <<tsStage, alone>>
           [] InProject(Head(group)) /\ Len(group) > 1 /\ OtherFile \in errors ->
                tsStage' = "rejected" /\ UNCHANGED <<alone, content, compiled, verdicts>>
           [] OTHER ->
                /\ content' = IF suspects = {} THEN after ELSE Original
                /\ compiled' = content'
                /\ alone' = Without(group, (ms \ suspects) \cup guilty)
                /\ verdicts' = [m \in MutantSet |-> CASE m \in guilty -> "CompileError"
                                                      [] m \in ms \ guilty -> "Passed"
                                                      [] OTHER -> verdicts[m]]
                /\ UNCHANGED tsStage
  /\ groups' = Tail(groups)
  /\ UNCHANGED <<project, ungrouped>>

CheckAlone ==
  /\ tsStage = "check" /\ alone # << >>
  /\ LET after == WithMutants({Head(alone)})
     IN  /\ content' = after /\ compiled' = after
         /\ Verdict({Head(alone)}, IF Report(compiled, after) = {} THEN "Passed" ELSE "CompileError")
  /\ alone' = Tail(alone)
  /\ UNCHANGED <<project, tsStage, ungrouped, groups>>

AllChecked ==
  /\ tsStage = "check" /\ groups = << >> /\ alone = << >> /\ tsStage' = "done"
  /\ UNCHANGED <<project, ungrouped, groups, alone, content, compiled, verdicts>>

TsNext == InitCompiler \/ Group \/ Check \/ CheckAlone \/ AllChecked

TsSpec == TsInit /\ [][TsNext]_tsVars
--------------------------------------------------------------------------------
(***************************************************************************)
(* A mutant is a compile error exactly if it does not compile by itself:   *)
(* always when mutants are checked one by one, and in groups as long as    *)
(* errors only show in files that depend on the mutated one.               *)
(***************************************************************************)
VerdictsAreRight ==
  LET local == \A m \in MutantSet : InProject(m) => project.errors[m] \subseteq Parents(Home(m))
  IN  tsStage = "done" /\ (~project.fast \/ local) =>
        \A m \in MutantSet : (verdicts[m] = "CompileError") = (project.errors[m] # {})

(***************************************************************************)
(* The groups are a partition of the mutants and no file of a group        *)
(* depends on another one, nor has it two mutants.                         *)
(***************************************************************************)
GroupsAreIndependent ==
  \A i, j \in 1..Len(groups) : \A m \in Range(groups[i]), n \in Range(groups[j]) :
    /\ m = n => i = j
    /\ i = j /\ m # n /\ InProject(m) /\ InProject(n) => Home(m) \notin Parents(Home(n))

(* Both, of any project.                                                    *)
TypesAreChecked == VerdictsAreRight /\ GroupsAreIndependent
================================================================================
