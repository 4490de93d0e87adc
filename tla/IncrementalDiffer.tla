-------------------------- MODULE IncrementalDiffer --------------------------
(***************************************************************************)
(* A history of incremental runs (incremental-differ.ts): the project is   *)
(* edited, StrykerJS runs on some or all of its files, and what it reports *)
(* is the incremental report of the next run.  A mutant stands for its     *)
(* identifying key (file, location, mutator, replacement), a test for its  *)
(* key; module FileDiff shows when keys follow the code.  Whether a test   *)
(* would kill a mutant that it executes only changes when the test or the  *)
(* mutant does; which mutants it executes may change at any time.          *)
(***************************************************************************)
EXTENDS Naturals, FiniteSets, Functions

CONSTANTS Mutants, Tests,
          MaxEdits         \* bound: edits between two runs

VARIABLES
  code,      \* the project: its mutants and tests, what the tests cover and kill, and
             \* the static mutants, which are executed while files are loaded
  touched,   \* the mutants and tests whose code changed since the last run
  edits,     \* edits since the last run
  report,    \* the incremental report: a result per mutant, the known tests
  last       \* ghost: the last run, {} when the code was edited after it

diffVars == <<code, touched, edits, report, last>>

Statuses == {"Killed", "Survived", "NoCoverage", "Ignored"}

TypeOK ==
  /\ code \in [mutants : SUBSET Mutants, static : SUBSET Mutants, tests : SUBSET Tests,
               covers : [Tests -> SUBSET Mutants], kills : [Tests -> SUBSET Mutants]]
  /\ touched \subseteq Mutants \cup Tests /\ edits \in 0..MaxEdits
  /\ DOMAIN report.results \subseteq Mutants /\ report.tests \subseteq Tests
  /\ \A m \in DOMAIN report.results :
       report.results[m] \in [status : Statuses, coveredBy : SUBSET Tests, killedBy : SUBSET Tests]

Init ==
  /\ code \in [mutants : {Mutants}, static : SUBSET Mutants, tests : {Tests}, covers : {[t \in Tests |-> {}]},
               kills : {[t \in Tests |-> {}]}]
  /\ touched = {} /\ edits = 0
  /\ report = [results |-> << >>, tests |-> {}]
  /\ last = {}
--------------------------------------------------------------------------------
(* Edits of the project. *)
Edit(new, what) ==
  /\ edits < MaxEdits
  /\ code' = new /\ touched' = touched \cup what
  /\ edits' = edits + 1 /\ last' = {}
  /\ UNCHANGED report

EditTest(t) == \E covers, kills \in SUBSET Mutants :
  Edit([code EXCEPT !.tests = @ \cup {t}, !.covers[t] = covers, !.kills[t] = kills], {t})

RemoveTest(t) == Edit([code EXCEPT !.tests = @ \ {t}], {t})

EditMutant(m) == \E kills \in SUBSET Tests :
  Edit([code EXCEPT !.mutants = @ \cup {m},
                    !.kills = [t \in Tests |-> IF t \in kills THEN @[t] \cup {m} ELSE @[t] \ {m}]], {m})

RemoveMutant(m) == Edit([code EXCEPT !.mutants = @ \ {m}], {m})

(* Other code changes: a test takes another path. *)
EditPath(t) == \E covers \in SUBSET Mutants : Edit([code EXCEPT !.covers[t] = covers], {})
--------------------------------------------------------------------------------
(***************************************************************************)
(* diff(): what survives the diff of the files, and with which tests.      *)
(***************************************************************************)
OldTests   == report.tests \ touched
OldMutants == DOMAIN report.results \ touched

OldKilledBy(m)  == report.results[m].killedBy \cap OldTests
\* Mutant of OldCoveredBy: tests that changed are kept.
OldCoveredByAll(m) == report.results[m].coveredBy

OldCoveredBy(m) == (report.results[m].coveredBy \cap OldTests) \cup OldKilledBy(m)

(* A run: the mutants of the files in scope, the tests that it executed,    *)
(* whether there is coverage, the mutants that a comment ignores, --force.  *)
Runs == [scope : SUBSET Mutants, ran : SUBSET code.tests, hasCoverage : BOOLEAN,
         ignored : SUBSET Mutants, force : BOOLEAN]

CoveringTests(run, m) == IF run.hasCoverage THEN {t \in run.ran : m \in code.covers[t]} ELSE {}

\* Mutant of SameTests: static mutants have no coverage to compare.
SameTestsCoveringOnly(run, m) == CoveringTests(run, m) \cap OldCoveredBy(m)

(* diffTestCoverage *)
SameTests(run, m) ==
  (CoveringTests(run, m) \cap OldCoveredBy(m))
    \cup (IF m \in code.static THEN OldCoveredBy(m) \cap run.ran ELSE {})
\* Mutant of AddedTests: new tests are not looked for.
AddedTestsUnseen(run, m) == {}

AddedTests(run, m) == CoveringTests(run, m) \ OldCoveredBy(m)

MutantCanBeReused(run, m) ==
  LET old == report.results[m]
  IN  \/ ~run.hasCoverage
      \/ old.status = "Killed" /\ OldKilledBy(m) \cap SameTests(run, m) # {}
      \/ old.status \notin {"Killed", "Ignored"} /\ AddedTests(run, m) = {}

CurrentMutants(run) == code.mutants \cap run.scope

Reused(run) ==
  {m \in (CurrentMutants(run) \ run.ignored) \cap OldMutants : ~run.force /\ MutantCanBeReused(run, m)}

\* Mutant of Remembered: only the mutants of this run are reported.
RememberedNone(run) == {}

(* Mutants that are not part of this run are not forgotten. *)
Remembered(run) == (OldMutants \ CurrentMutants(run)) \ run.scope

Result(status, coveredBy, killedBy) == [status |-> status, coveredBy |-> coveredBy, killedBy |-> killedBy]

(* What running the mutant gives; with bail only the first test is known.   *)
Killers(run, m) ==
  {t \in run.ran : m \in code.kills[t] /\ (m \in code.covers[t] \/ m \in code.static)}

Tested(run, m) ==
  LET covering == CoveringTests(run, m)
  IN  IF Killers(run, m) # {}
      THEN {Result("Killed", covering, killedBy) : killedBy \in (SUBSET Killers(run, m)) \ {{}}}
      ELSE {Result(IF run.hasCoverage /\ covering = {} /\ m \notin code.static
                   THEN "NoCoverage" ELSE "Survived", covering, {})}

Outcomes(run, m) ==
  CASE m \in Remembered(run) -> {[report.results[m] EXCEPT !.coveredBy = OldCoveredBy(m), !.killedBy = OldKilledBy(m)]}
    [] m \in Reused(run) -> {Result(report.results[m].status, CoveringTests(run, m), OldKilledBy(m))}
    [] m \in CurrentMutants(run) \cap run.ignored -> {Result("Ignored", {}, {})}
    [] OTHER -> Tested(run, m)

RunIncrementally ==
  \E run \in Runs :
    LET reported == CurrentMutants(run) \cup Remembered(run)
    IN  \E results \in [reported -> UNION {Outcomes(run, m) : m \in reported}] :
          /\ \A m \in reported : results[m] \in Outcomes(run, m)
          /\ report' = [results |-> results, tests |-> run.ran \cup OldTests]
          /\ last' = {[run |-> run, reused |-> Reused(run)]}
          /\ touched' = {} /\ edits' = 0
          /\ UNCHANGED code

Next ==
  \/ \E t \in Tests : EditTest(t) \/ RemoveTest(t) \/ EditPath(t)
  \/ \E m \in Mutants : EditMutant(m) \/ RemoveMutant(m)
  \/ RunIncrementally

Spec == Init /\ [][Next]_diffVars
--------------------------------------------------------------------------------
(***************************************************************************)
(* After a run with coverage every mutant in scope has the verdict that    *)
(* running it again would give, over any history of edits and partial      *)
(* runs.  Static mutants that were not killed are the exception the        *)
(* documentation names: new tests are not seen for them.                   *)
(***************************************************************************)
VerdictsAreSound ==
  \A l \in last : l.run.hasCoverage =>
    \A m \in CurrentMutants(l.run) \ l.run.ignored :
      LET status == report.results[m].status
      IN  /\ status = "Killed" => Killers(l.run, m) # {}
          /\ status = "Survived" /\ m \notin code.static => Killers(l.run, m) = {}
          /\ status = "NoCoverage" => CoveringTests(l.run, m) = {}

(***************************************************************************)
(* The tests a result refers to are in the report.                         *)
(***************************************************************************)
ReferencesResolve ==
  \A m \in DOMAIN report.results :
    report.results[m].killedBy \cup report.results[m].coveredBy \subseteq report.tests

(***************************************************************************)
(* A mutant that is ignored no longer gets a real verdict.                 *)
(***************************************************************************)
IgnoredNoMore ==
  \A l \in last : \A m \in CurrentMutants(l.run) \ l.run.ignored : report.results[m].status # "Ignored"

(***************************************************************************)
(* The report always covers the whole project: a run keeps the results of  *)
(* unchanged mutants it does not look at, has one for each mutant it does  *)
(* look at, and loses those that are no longer made.                       *)
(***************************************************************************)
NothingForgotten ==
  [][last' # last /\ last' # {} =>
       \A l \in last' :
         /\ CurrentMutants(l.run) \subseteq DOMAIN report'.results
         /\ (DOMAIN report.results \ touched) \ l.run.scope \subseteq DOMAIN report'.results
         /\ DOMAIN report'.results \cap l.run.scope \subseteq code.mutants]_diffVars

(***************************************************************************)
(* Incremental mode is worth it: a second run of the same tests on an      *)
(* unchanged project runs no mutant again.                                 *)
(***************************************************************************)
SecondRunReusesAll ==
  [][\A l \in last : \A n \in last' :
       /\ n # l /\ ~n.run.force /\ n.run.ran = l.run.ran /\ n.run.hasCoverage = l.run.hasCoverage
       => CurrentMutants(n.run) \cap CurrentMutants(l.run) \subseteq
            n.reused \cup l.run.ignored \cup n.run.ignored]_diffVars
================================================================================
