---------------------------- MODULE ReportAssembly ----------------------------
(***************************************************************************)
(* From the tests of the dry run and the results of the mutants to the     *)
(* report (process/3-dry-run-executor.ts: what happens with its result;    *)
(* reporters/mutation-test-report-helper.ts).  Tests are found in the      *)
(* sandbox, where a file may have one line more than the original; the     *)
(* report gives tests new ids, counts lines from 1, and has relative file  *)
(* names.  Tests and results are added one at a time before the report is  *)
(* made.                                                                   *)
(***************************************************************************)
EXTENDS Integers, Sequences, FiniteSets, SequencesExt

CONSTANTS MaxTests, MaxResults

VARIABLES nocheck,     \* per file: no type checks were asked for, and a line was added for it
          ran,         \* the tests as they ran: id, file, line in the original file
          testsById,   \* the tests in the coverage, in the order of the map
          results,     \* the results of mutants
          report       \* made, and then files and testFiles

vars == <<nocheck, ran, testsById, results, report>>

Unmade == [made |-> FALSE]
SourceFile == "source.js"
NoFile == ""
TestFiles == {"a.spec.js", "b.spec.js", NoFile}

(* Ids are given by test runners: a number, or a title, which can be one.   *)
(* The string of the digits of a number is known by that number.            *)
Digits(n) == [number |-> n]
Ids == {Digits(0), Digits(1), [title |-> "adds"]}

-------------------------------------------------------------------------------
(* remapSandboxFilesToOriginalFiles: the line that disableTypeChecks may    *)
(* have added is taken off again, if it was asked for.                      *)
InTheSandbox(test) ==
  [test EXCEPT !.line = @ + IF test.file # NoFile /\ nocheck[test.file] = "added" THEN 1 ELSE 0]

RemapSandboxFilesToOriginalFiles(test) ==
  [test EXCEPT !.line = @ - IF test.file # NoFile /\ nocheck[test.file] # "no" THEN 1 ELSE 0]

(* TestCoverage: a map from ids to tests; an id that is there keeps its     *)
(* place.                                                                   *)
AddTest(tests, test) ==
  IF \E i \in DOMAIN tests : tests[i].id = test.id
  THEN [i \in DOMAIN tests |-> IF tests[i].id = test.id THEN test ELSE tests[i]]
  ELSE Append(tests, test)

-------------------------------------------------------------------------------
(* Mutant: ids are counted per file, so that two files share them.          *)
RemapTestIdOfTheFile(id) ==
  LET places == {i \in DOMAIN testsById : testsById[i].id = id}
      file == testsById[CHOOSE i \in places : TRUE].file
  IN  IF places = {} THEN id
      ELSE Digits(Cardinality({i \in DOMAIN testsById : testsById[i].file = file /\ \E j \in places : i < j}))

(* testIdMap and remapTestId: ids become the places in the map; an id that  *)
(* is not in the map stays.                                                 *)
RemapTestId(id) ==
  LET places == {i \in DOMAIN testsById : testsById[i].id = id}
  IN  IF places = {} THEN id ELSE Digits((CHOOSE i \in places : TRUE) - 1)

ToPosition(line) == line + 1

ToTestDefinition(test) == [id |-> RemapTestId(test.id), line |-> ToPosition(test.line)]

(* A step of reduce(): an entry is pushed to the list of its file.          *)
Push(acc, entry) ==
  [f \in DOMAIN acc \cup {entry.file} |->
     LET list == IF f \in DOMAIN acc THEN acc[f] ELSE << >>
     IN  IF f = entry.file THEN Append(list, entry.item) ELSE list]

ByFile(entries) ==
  LET reduce[n \in 0..Len(entries)] == IF n = 0 THEN [f \in {} |-> << >>] ELSE Push(reduce[n - 1], entries[n])
  IN  reduce[Len(entries)]

(* toTestFiles: tests under the name of their file, those without under "". *)
ToTestFiles ==
  ByFile([i \in 1..Len(testsById) |-> [file |-> testsById[i].file, item |-> ToTestDefinition(testsById[i])]])

(* toMutantResult *)
ToMutantResult(result) ==
  [mutant |-> result.mutant, line |-> ToPosition(result.line),
   killedBy |-> {RemapTestId(id) : id \in result.killedBy}, coveredBy |-> {RemapTestId(id) : id \in result.coveredBy}]

(* toFileResults: the mutants of a file in the order of the results.        *)
ToFileResults ==
  ByFile([i \in 1..Len(results) |-> [file |-> results[i].file, item |-> ToMutantResult(results[i])]])

-------------------------------------------------------------------------------
Init ==
  /\ nocheck \in [TestFiles \ {NoFile} -> {"no", "added", "asked for"}]
  /\ ran = <<>> /\ testsById = <<>> /\ results = <<>> /\ report = Unmade

(* A test of the dry run.                                                   *)
TestRan ==
  /\ ~report.made /\ results = <<>> /\ Len(ran) < MaxTests
  /\ \E id \in Ids, file \in TestFiles :
       LET test == [id |-> id, file |-> file, line |-> 0]
       IN  /\ ran' = Append(ran, test)
           /\ testsById' = AddTest(testsById, RemapSandboxFilesToOriginalFiles(InTheSandbox(test)))
  /\ UNCHANGED <<nocheck, results, report>>

(* reportMutantRunResult and reportMutantStatus *)
MutantTested ==
  /\ ~report.made /\ Len(results) < MaxResults
  /\ \E file \in {SourceFile, "a.spec.js"}, coveredBy \in {{}, {ran[i].id : i \in DOMAIN ran}} :
     \E killedBy \in IF coveredBy = {} THEN {{}} ELSE {{id} : id \in Ids} :
       results' = Append(results, [mutant |-> Len(results) + 1, file |-> file, line |-> 0, killedBy |-> killedBy, coveredBy |-> coveredBy])
  /\ UNCHANGED <<nocheck, ran, testsById, report>>

(* reportAll *)
ReportAll ==
  /\ ~report.made /\ report' = [made |-> TRUE, files |-> ToFileResults, testFiles |-> ToTestFiles]
  /\ UNCHANGED <<nocheck, ran, testsById, results>>

Next == TestRan \/ MutantTested \/ ReportAll

Spec == Init /\ [][Next]_vars

-------------------------------------------------------------------------------
Made == report.made

(* The tests of the report that a test of the dry run stands for.           *)
Definitions(id) ==
  {pair \in UNION {{f} \X Range(report.testFiles[f]) : f \in DOMAIN report.testFiles} : pair[2].id = id}

Known(id) == \E i \in DOMAIN ran : ran[i].id = id

(* The test that ran last under an id has one definition in the report, in  *)
(* its own file; and two ids do not share one.                              *)
TestsAreReported ==
  Made => \A i \in DOMAIN ran :
    (\A j \in DOMAIN ran : j > i => ran[j].id # ran[i].id) =>
      /\ Cardinality(Definitions(RemapTestId(ran[i].id))) = 1
      /\ \A pair \in Definitions(RemapTestId(ran[i].id)) :
           /\ pair[1] = ran[i].file
           /\ \/ ran[i].file # NoFile /\ nocheck[ran[i].file] = "asked for"
              \/ pair[2].line = ran[i].line + 1
      /\ \A j \in DOMAIN ran : RemapTestId(ran[i].id) = RemapTestId(ran[j].id) => ran[i].id = ran[j].id

(* Every result is reported once, in its file, with the tests that it names.*)
ResultsAreReported ==
  Made => \A i \in DOMAIN results :
    LET r == results[i]
        here == {m \in Range(report.files[r.file]) : m.mutant = r.mutant}
    IN  /\ \A f \in DOMAIN report.files \ {r.file} : \A m \in Range(report.files[f]) : m.mutant # r.mutant
        /\ \E m \in here : here = {m} /\ m.line = r.line + 1
                           /\ \A id \in {k \in Ids : Known(k)} :
                                /\ id \in r.coveredBy <=> RemapTestId(id) \in m.coveredBy
                                /\ r.killedBy \subseteq {k \in Ids : Known(k)} =>
                                     (id \in r.killedBy <=> RemapTestId(id) \in m.killedBy)

(* Without the condition on known ids: refuted, since a test that was not   *)
(* in the dry run keeps its id, which may be the new id of another test.    *)
KillersAreReported ==
  Made => \A i \in DOMAIN results : \A m \in Range(report.files[results[i].file]) :
    m.mutant = results[i].mutant /\ (\A k \in results[i].killedBy : ~Known(k)) =>
      \A id \in m.killedBy : Definitions(id) = {}

(* The position of a test is that in the original file: refuted for a file  *)
(* that disableTypeChecks names and cannot parse.                           *)
PositionsAreRight ==
  Made => \A f \in DOMAIN report.testFiles : \A t \in Range(report.testFiles[f]) : t.line > 0
================================================================================
