--------------------------- MODULE PlanningProofs ----------------------------
(***************************************************************************)
(* Proofs about MCPlanning: the incremental differ (IncrementalDiffer),    *)
(* which files are read and which ranges are mutated (ProjectReader), the  *)
(* plans for the mutants (MutantTestPlanner), and how locations are        *)
(* carried over from an old text to a new one (FileDiff), for any project, *)
(* history of edits and runs, rules, patterns, dry run, options and texts. *)
(***************************************************************************)
EXTENDS MCPlanning, CollectionTheorems, TLAPS

\* A step of the specification is a step of each component or leaves it alone.
LEMMA OnlyParts ==
  [Next]_vars => /\ [Differ!Next]_differVars /\ [Reader!Next]_readerVars /\ [Planner!Next]_plannerVars
                 /\ [File!Next]_fileVars
BY DEF Next, vars, FileStep, DifferStep, ReaderStep, PlannerStep, WalkStep, LevelStep, EmbedStep,
       planningVars, instrumentVars, fileVars, differVars, readerVars, plannerVars, walkVars, levelVars, embedVars

-----------------------------------------------------------------------------
(* IncrementalDiffer *)

\* What a result of the report still says of the project: about a mutant and
\* tests whose code did not change since, the tests that killed it still would,
\* and those that covered it while it survived would not.
ResultsHold ==
  \A m \in DOMAIN report.results :
    LET old == report.results[m]
    IN  /\ old.status # "Killed" => old.killedBy = {}
        /\ old.status = "NoCoverage" => old.coveredBy = {}
        /\ m \notin touched => \A t \in old.killedBy \ touched : m \in code.kills[t]
        /\ m \notin touched /\ old.status \in {"Survived", "NoCoverage"} =>
             \A t \in old.coveredBy \ touched : m \notin code.kills[t]

\* What the report says of the run it was made by, as long as nothing changes.
LastRunHolds ==
  \A l \in last :
    /\ last = {l} /\ touched = {} /\ Differ!CurrentMutants(l.run) \subseteq DOMAIN report.results
    /\ l.run.hasCoverage => \A m \in Differ!CurrentMutants(l.run) \ l.run.ignored :
         LET now == report.results[m]
         IN  /\ now.status # "Ignored"
             /\ now.status = "Killed" =>
                  \E t \in now.killedBy \cap l.run.ran : m \in code.covers[t] \/ m \in code.static
             /\ now.status # "Killed" => Differ!CoveringTests(l.run, m) \subseteq now.coveredBy

DifferInv == Differ!TypeOK /\ ResultsHold /\ Differ!ReferencesResolve /\ LastRunHolds

\* The project, field by field.
Projects == [mutants : SUBSET Mutants, static : SUBSET Mutants, tests : SUBSET Tests,
             covers : [Tests -> SUBSET Mutants], kills : [Tests -> SUBSET Mutants]]

Results == [status : Differ!Statuses, coveredBy : SUBSET Tests, killedBy : SUBSET Tests]

LEMMA DifferInit == Differ!Init => DifferInv
<1> SUFFICES ASSUME Differ!Init PROVE DifferInv
  OBVIOUS
<1>1. DOMAIN report.results = {} /\ report.tests = {} /\ last = {} /\ touched = {} /\ edits = 0
  BY DEF Differ!Init
<1>2. code \in Projects
  BY DEF Differ!Init, Projects
<1>3. edits \in 0..MaxEdits
  BY <1>1, BoundsAssumption
<1> QED BY <1>1, <1>2, <1>3 DEF DifferInv, Differ!TypeOK, ResultsHold, Differ!ReferencesResolve, LastRunHolds, Projects

\* An edit touches what it changes, so that what is untouched stays known.
LEMMA EditKeeps ==
  ASSUME DifferInv, NEW new \in Projects, NEW what, what \subseteq Mutants \cup Tests, Differ!Edit(new, what),
         \A m \in Mutants \ what : \A t \in Tests \ what : m \in new.kills[t] <=> m \in code.kills[t]
  PROVE  DifferInv'
<1>1. /\ code' = new /\ touched' = touched \cup what /\ edits' = edits + 1 /\ edits < MaxEdits
      /\ last' = {} /\ report' = report
  BY DEF Differ!Edit
<1>2. Differ!TypeOK'
  BY <1>1, BoundsAssumption DEF DifferInv, Differ!TypeOK, Projects, Differ!Statuses
<1>3. ResultsHold'
  <2>1. ASSUME NEW m \in DOMAIN report.results
        PROVE  LET old == report.results[m]
               IN  /\ old.status # "Killed" => old.killedBy = {}
                   /\ old.status = "NoCoverage" => old.coveredBy = {}
                   /\ m \notin touched' => \A t \in old.killedBy \ touched' : m \in new.kills[t]
                   /\ m \notin touched' /\ old.status \in {"Survived", "NoCoverage"} =>
                        \A t \in old.coveredBy \ touched' : m \notin new.kills[t]
    <3>1. m \in Mutants /\ report.results[m] \in Results
      BY DEF DifferInv, Differ!TypeOK, Results
    <3> QED BY <1>1, <3>1 DEF DifferInv, ResultsHold, Results
  <2> QED BY <1>1, <2>1 DEF ResultsHold
<1> QED BY <1>1, <1>2, <1>3 DEF DifferInv, Differ!ReferencesResolve, LastRunHolds

LEMMA EditsKeep ==
  ASSUME DifferInv,
         \/ \E t \in Tests : Differ!EditTest(t) \/ Differ!RemoveTest(t) \/ Differ!EditPath(t)
         \/ \E m \in Mutants : Differ!EditMutant(m) \/ Differ!RemoveMutant(m)
  PROVE  DifferInv'
<1>0. code \in Projects
  BY DEF DifferInv, Differ!TypeOK, Projects
<1>1. CASE \E t \in Tests : Differ!EditTest(t)
  <2>1. PICK t \in Tests, covers \in SUBSET Mutants, kills \in SUBSET Mutants :
          Differ!Edit([code EXCEPT !.tests = @ \cup {t}, !.covers[t] = covers, !.kills[t] = kills], {t})
    BY <1>1 DEF Differ!EditTest
  <2> DEFINE new == [code EXCEPT !.tests = @ \cup {t}, !.covers[t] = covers, !.kills[t] = kills]
  <2>2. new \in Projects /\ new.kills = [code.kills EXCEPT ![t] = kills]
    BY <1>0 DEF Projects
  <2>3. \A m \in Mutants \ {t} : \A s \in Tests \ {t} : m \in new.kills[s] <=> m \in code.kills[s]
    BY <1>0, <2>2 DEF Projects
  <2> HIDE DEF new
  <2>4. Differ!Edit(new, {t})
    BY <2>1 DEF new
  <2> QED BY <2>2, <2>3, <2>4, EditKeeps
<1>2. CASE \E t \in Tests : Differ!RemoveTest(t)
  <2>1. PICK t \in Tests : Differ!Edit([code EXCEPT !.tests = @ \ {t}], {t})
    BY <1>2 DEF Differ!RemoveTest
  <2> DEFINE new == [code EXCEPT !.tests = @ \ {t}]
  <2>2. new \in Projects /\ new.kills = code.kills
    BY <1>0 DEF Projects
  <2> HIDE DEF new
  <2>3. Differ!Edit(new, {t})
    BY <2>1 DEF new
  <2> QED BY <2>2, <2>3, EditKeeps
<1>3. CASE \E t \in Tests : Differ!EditPath(t)
  <2>1. PICK t \in Tests, covers \in SUBSET Mutants : Differ!Edit([code EXCEPT !.covers[t] = covers], {})
    BY <1>3 DEF Differ!EditPath
  <2> DEFINE new == [code EXCEPT !.covers[t] = covers]
  <2>2. new \in Projects /\ new.kills = code.kills
    BY <1>0 DEF Projects
  <2> HIDE DEF new
  <2>3. Differ!Edit(new, {})
    BY <2>1 DEF new
  <2> QED BY <2>2, <2>3, EditKeeps
<1>4. CASE \E m \in Mutants : Differ!EditMutant(m)
  <2>1. PICK m \in Mutants, kills \in SUBSET Tests :
          Differ!Edit([code EXCEPT !.mutants = @ \cup {m},
                         !.kills = [t \in Tests |-> IF t \in kills THEN @[t] \cup {m} ELSE @[t] \ {m}]], {m})
    BY <1>4 DEF Differ!EditMutant
  <2> DEFINE killing == [t \in Tests |-> IF t \in kills THEN code.kills[t] \cup {m} ELSE code.kills[t] \ {m}]
             new == [code EXCEPT !.mutants = @ \cup {m}, !.kills = killing]
  <2>2. killing \in [Tests -> SUBSET Mutants]
    BY <1>0 DEF Projects
  <2>3. \A n \in Mutants \ {m} : \A t \in Tests \ {m} : n \in killing[t] <=> n \in code.kills[t]
    OBVIOUS
  <2>4. Differ!Edit(new, {m})
    BY <2>1
  <2> HIDE DEF killing
  <2>5. new \in Projects /\ new.kills = killing
    BY <1>0, <2>2 DEF Projects
  <2> HIDE DEF new
  <2> QED BY <2>3, <2>4, <2>5, EditKeeps
<1>5. CASE \E m \in Mutants : Differ!RemoveMutant(m)
  <2>1. PICK m \in Mutants : Differ!Edit([code EXCEPT !.mutants = @ \ {m}], {m})
    BY <1>5 DEF Differ!RemoveMutant
  <2> DEFINE new == [code EXCEPT !.mutants = @ \ {m}]
  <2>2. new \in Projects /\ new.kills = code.kills
    BY <1>0 DEF Projects
  <2> HIDE DEF new
  <2>3. Differ!Edit(new, {m})
    BY <2>1 DEF new
  <2> QED BY <2>2, <2>3, EditKeeps
<1> QED BY <1>1, <1>2, <1>3, <1>4, <1>5

\* What a run makes of one mutant: a result that holds, refers to tests of the
\* new report, and says of a mutant in scope what running it would say.
HoldsFor(run, m, now) ==
  /\ now \in Results
  /\ now.killedBy \cup now.coveredBy \subseteq run.ran \cup Differ!OldTests
  /\ now.status # "Killed" => now.killedBy = {}
  /\ now.status = "NoCoverage" => now.coveredBy = {}
  /\ \A t \in now.killedBy : m \in code.kills[t]
  /\ now.status \in {"Survived", "NoCoverage"} => \A t \in now.coveredBy : m \notin code.kills[t]
  /\ run.hasCoverage /\ m \in Differ!CurrentMutants(run) \ run.ignored =>
       /\ now.status # "Ignored"
       /\ now.status = "Killed" =>
            \E t \in now.killedBy \cap run.ran : m \in code.covers[t] \/ m \in code.static
       /\ now.status # "Killed" => Differ!CoveringTests(run, m) \subseteq now.coveredBy

LEMMA OutcomeHolds ==
  ASSUME DifferInv, NEW run \in Differ!Runs,
         NEW m \in Differ!CurrentMutants(run) \cup Differ!Remembered(run), NEW now \in Differ!Outcomes(run, m)
  PROVE  HoldsFor(run, m, now)
<1>0. /\ code \in Projects /\ m \in Mutants /\ run.scope \subseteq Mutants /\ run.ran \subseteq code.tests
      /\ run.ran \subseteq Tests /\ run.hasCoverage \in BOOLEAN
  BY DEF DifferInv, Differ!TypeOK, Projects, Differ!Runs, Differ!CurrentMutants, Differ!Remembered, Differ!OldMutants
<1>1. Differ!CoveringTests(run, m) \subseteq run.ran
  BY DEF Differ!CoveringTests
<1> DEFINE old == report.results[m]
<1>2. ASSUME m \in DOMAIN report.results, m \notin touched
      PROVE  /\ old \in Results
             /\ old.status # "Killed" => old.killedBy = {}
             /\ old.status = "NoCoverage" => old.coveredBy = {}
             /\ \A t \in Differ!OldKilledBy(m) : m \in code.kills[t] /\ t \in Differ!OldTests /\ t \in old.killedBy
             /\ old.status \in {"Survived", "NoCoverage"} =>
                  \A t \in Differ!OldCoveredBy(m) : m \notin code.kills[t] /\ t \in old.coveredBy
             /\ Differ!OldCoveredBy(m) \subseteq Differ!OldTests /\ Differ!OldTests \subseteq Tests
             /\ Differ!OldKilledBy(m) \subseteq Differ!OldCoveredBy(m)
  <2>1. old \in Results /\ report.tests \subseteq Tests
    BY <1>2 DEF DifferInv, Differ!TypeOK, Results
  <2>2. /\ old.status # "Killed" => old.killedBy = {}
        /\ old.status = "NoCoverage" => old.coveredBy = {}
        /\ \A t \in old.killedBy \ touched : m \in code.kills[t]
        /\ old.status \in {"Survived", "NoCoverage"} => \A t \in old.coveredBy \ touched : m \notin code.kills[t]
    BY <1>2 DEF DifferInv, ResultsHold
  <2> QED BY <2>1, <2>2 DEF Differ!OldKilledBy, Differ!OldCoveredBy, Differ!OldTests
<1>3. CASE m \in Differ!Remembered(run)
  <2>1. m \in DOMAIN report.results /\ m \notin touched /\ m \notin Differ!CurrentMutants(run)
    BY <1>3 DEF Differ!Remembered, Differ!OldMutants
  <2>2. now = [old EXCEPT !.coveredBy = Differ!OldCoveredBy(m), !.killedBy = Differ!OldKilledBy(m)]
    <3>1. m \notin Differ!Reused(run) /\ m \notin Differ!CurrentMutants(run) \cap run.ignored
      BY <2>1 DEF Differ!Reused
    <3> QED BY <1>3, <3>1 DEF Differ!Outcomes
  <2> DEFINE covered == Differ!OldCoveredBy(m)
             killed == Differ!OldKilledBy(m)
  <2> HIDE DEF old, covered, killed
  <2>3. now = [status |-> old.status, coveredBy |-> covered, killedBy |-> killed] /\ old \in Results
    BY <1>2, <2>1, <2>2 DEF Results, covered, killed, old
  <2>4. now.status = old.status /\ now.coveredBy = covered /\ now.killedBy = killed
    BY <2>3
  <2> QED BY <1>2, <2>1, <2>3, <2>4 DEF HoldsFor, covered, killed, Results
<1>4. CASE m \in Differ!Reused(run) /\ m \notin Differ!Remembered(run)
  <2>1. m \in DOMAIN report.results /\ m \notin touched /\ Differ!MutantCanBeReused(run, m)
    BY <1>4 DEF Differ!Reused, Differ!OldMutants
  <2>2. now = Differ!Result(old.status, Differ!CoveringTests(run, m), Differ!OldKilledBy(m))
    <3>1. m \notin Differ!CurrentMutants(run) \cap run.ignored
      BY <1>4 DEF Differ!Reused
    <3> QED BY <1>4, <3>1 DEF Differ!Outcomes
  <2> DEFINE covering == Differ!CoveringTests(run, m)
             killed == Differ!OldKilledBy(m)
  <2>3. now.status = old.status /\ now.coveredBy = covering /\ now.killedBy = killed
        /\ now = [status |-> old.status, coveredBy |-> covering, killedBy |-> killed]
    BY <2>2 DEF Differ!Result
  <2>4. now \in Results /\ now.killedBy \cup now.coveredBy \subseteq run.ran \cup Differ!OldTests
    BY <1>0, <1>1, <1>2, <2>1, <2>3 DEF Results
  <2>5. /\ now.status # "Killed" => now.killedBy = {}
        /\ \A t \in now.killedBy : m \in code.kills[t]
    BY <1>2, <2>1, <2>3 DEF Differ!OldKilledBy
  <2>6. CASE ~run.hasCoverage
    <3>1. covering = {}
      BY <2>6 DEF Differ!CoveringTests
    <3> QED BY <2>3, <2>4, <2>5, <2>6, <3>1 DEF HoldsFor
  <2>7. CASE old.status = "Killed" /\ Differ!OldKilledBy(m) \cap Differ!SameTests(run, m) # {}
    <3>1. PICK t \in killed : t \in Differ!SameTests(run, m)
      BY <2>7
    <3>2. t \in run.ran /\ (m \in code.covers[t] \/ m \in code.static)
      BY <3>1 DEF Differ!SameTests, Differ!CoveringTests
    <3> QED BY <2>3, <2>4, <2>5, <2>7, <3>1, <3>2 DEF HoldsFor
  <2>8. CASE old.status \notin {"Killed", "Ignored"} /\ Differ!AddedTests(run, m) = {} /\ run.hasCoverage
    <3>1. covering \subseteq Differ!OldCoveredBy(m)
      BY <2>8 DEF Differ!AddedTests
    <3>2. old.status \in {"Survived", "NoCoverage"}
      BY <1>2, <2>1, <2>8 DEF Results, Differ!Statuses
    <3>3. \A t \in covering : m \notin code.kills[t] /\ t \in old.coveredBy
      BY <1>2, <2>1, <3>1, <3>2
    <3>4. now.status = "NoCoverage" => now.coveredBy = {}
      BY <1>2, <2>1, <2>3, <3>3
    <3> QED BY <2>3, <2>4, <2>5, <2>8, <3>2, <3>3, <3>4 DEF HoldsFor
  <2> QED BY <1>0, <2>1, <2>6, <2>7, <2>8 DEF Differ!MutantCanBeReused
<1>5. CASE m \in Differ!CurrentMutants(run) \cap run.ignored /\ m \notin Differ!Remembered(run) /\ m \notin Differ!Reused(run)
  <2>1. now = Differ!Result("Ignored", {}, {})
    BY <1>5 DEF Differ!Outcomes
  <2>2. now = [status |-> "Ignored", coveredBy |-> {}, killedBy |-> {}]
    BY <2>1 DEF Differ!Result
  <2> QED BY <1>5, <2>2 DEF HoldsFor, Results, Differ!Statuses
<1>6. CASE m \notin Differ!Remembered(run) /\ m \notin Differ!Reused(run) /\ m \notin Differ!CurrentMutants(run) \cap run.ignored
  <2>1. now \in Differ!Tested(run, m)
    BY <1>6 DEF Differ!Outcomes
  <2> DEFINE covering == Differ!CoveringTests(run, m)
             killers == Differ!Killers(run, m)
  <2>2. killers \subseteq run.ran /\ \A t \in killers : m \in code.kills[t] /\ (m \in code.covers[t] \/ m \in code.static)
    BY DEF Differ!Killers
  <2>3. CASE killers # {}
    <3>1. PICK killedBy \in (SUBSET killers) \ {{}} : now = Differ!Result("Killed", covering, killedBy)
      BY <2>1, <2>3 DEF Differ!Tested
    <3>2. now = [status |-> "Killed", coveredBy |-> covering, killedBy |-> killedBy]
      BY <3>1 DEF Differ!Result
    <3>3. PICK t \in killedBy : t \in run.ran
      BY <2>2, <3>1
    <3> HIDE DEF covering, killers
    <3>4. /\ now.status = "Killed" /\ now.coveredBy = covering /\ now.killedBy = killedBy
          /\ killedBy \subseteq run.ran /\ covering \subseteq run.ran /\ t \in killers
      BY <1>1, <2>2, <3>1, <3>2, <3>3 DEF covering
    <3>5. now \in Results
      BY <1>0, <3>2, <3>4 DEF Results, Differ!Statuses
    <3> QED BY <2>2, <3>1, <3>3, <3>4, <3>5 DEF HoldsFor
  <2>4. CASE killers = {}
    <3> DEFINE status == IF run.hasCoverage /\ covering = {} /\ m \notin code.static THEN "NoCoverage" ELSE "Survived"
    <3>1. now = Differ!Result(status, covering, {})
      BY <2>1, <2>4 DEF Differ!Tested
    <3>2. now = [status |-> status, coveredBy |-> covering, killedBy |-> {}]
      BY <3>1 DEF Differ!Result
    <3>3. status \in {"NoCoverage", "Survived"} /\ (status = "NoCoverage" => covering = {})
      OBVIOUS
    <3>4. \A t \in covering : m \notin code.kills[t]
      BY <2>4 DEF Differ!Killers, Differ!CoveringTests
    <3> HIDE DEF covering, status
    <3>5. now.status = status /\ now.coveredBy = covering /\ now.killedBy = {} /\ covering \subseteq run.ran
      BY <1>1, <3>2 DEF covering
    <3>6. now \in Results
      BY <1>0, <3>2, <3>3, <3>5 DEF Results, Differ!Statuses
    <3> QED BY <3>3, <3>4, <3>5, <3>6 DEF HoldsFor, covering
  <2> QED BY <2>3, <2>4
<1> QED BY <1>3, <1>4, <1>5, <1>6

LEMMA RunKeeps ==
  ASSUME DifferInv, Differ!RunIncrementally
  PROVE  DifferInv'
<1>1. PICK run \in Differ!Runs :
        LET reported == Differ!CurrentMutants(run) \cup Differ!Remembered(run)
        IN  \E results \in [reported -> UNION {Differ!Outcomes(run, m) : m \in reported}] :
              /\ \A m \in reported : results[m] \in Differ!Outcomes(run, m)
              /\ report' = [results |-> results, tests |-> run.ran \cup Differ!OldTests]
              /\ last' = {[run |-> run, reused |-> Differ!Reused(run)]}
              /\ touched' = {} /\ edits' = 0
              /\ UNCHANGED code
  BY DEF Differ!RunIncrementally
<1> DEFINE reported == Differ!CurrentMutants(run) \cup Differ!Remembered(run)
<1>2. PICK results \in [reported -> UNION {Differ!Outcomes(run, m) : m \in reported}] :
        /\ \A m \in reported : results[m] \in Differ!Outcomes(run, m)
        /\ report' = [results |-> results, tests |-> run.ran \cup Differ!OldTests]
        /\ last' = {[run |-> run, reused |-> Differ!Reused(run)]}
        /\ touched' = {} /\ edits' = 0
        /\ UNCHANGED code
  BY <1>1
<1>3. \A m \in reported : HoldsFor(run, m, results[m])
  BY <1>2, OutcomeHolds
<1>4. /\ reported \subseteq Mutants /\ run.ran \subseteq Tests /\ Differ!OldTests \subseteq Tests
      /\ code \in Projects
  BY DEF DifferInv, Differ!TypeOK, Projects, Differ!Runs, Differ!CurrentMutants, Differ!Remembered,
         Differ!OldMutants, Differ!OldTests
<1>5. report'.results = results /\ report'.tests = run.ran \cup Differ!OldTests /\ DOMAIN results = reported
  BY <1>2
<1> HIDE DEF reported
<1>6. Differ!TypeOK'
  <2>1. \A m \in reported : results[m] \in [status : Differ!Statuses, coveredBy : SUBSET Tests, killedBy : SUBSET Tests]
    BY <1>3 DEF HoldsFor, Results
  <2>2. 0 \in 0..MaxEdits
    BY BoundsAssumption
  <2> QED BY <1>2, <1>4, <1>5, <2>1, <2>2 DEF Differ!TypeOK, Differ!Statuses, Projects
<1>7. ResultsHold'
  <2>1. ASSUME NEW m \in reported
        PROVE  LET old == results[m]
               IN  /\ old.status # "Killed" => old.killedBy = {}
                   /\ old.status = "NoCoverage" => old.coveredBy = {}
                   /\ \A t \in old.killedBy : m \in code.kills[t]
                   /\ old.status \in {"Survived", "NoCoverage"} => \A t \in old.coveredBy : m \notin code.kills[t]
    BY <1>3 DEF HoldsFor
  <2> QED BY <1>2, <1>5, <2>1 DEF ResultsHold
<1>8. Differ!ReferencesResolve'
  <2>1. \A m \in reported : results[m].killedBy \cup results[m].coveredBy \subseteq run.ran \cup Differ!OldTests
    BY <1>3 DEF HoldsFor
  <2> QED BY <1>5, <2>1 DEF Differ!ReferencesResolve
<1>9. LastRunHolds'
  <2>1. ASSUME NEW l \in last'
        PROVE  /\ l.run = run /\ Differ!CurrentMutants(run)' = Differ!CurrentMutants(run)
               /\ \A m : Differ!CoveringTests(run, m)' = Differ!CoveringTests(run, m)
    BY <1>2 DEF Differ!CurrentMutants, Differ!CoveringTests
  <2>2. ASSUME run.hasCoverage, NEW m \in Differ!CurrentMutants(run) \ run.ignored
        PROVE  LET now == results[m]
               IN  /\ now.status # "Ignored"
                   /\ now.status = "Killed" =>
                        \E t \in now.killedBy \cap run.ran : m \in code.covers[t] \/ m \in code.static
                   /\ now.status # "Killed" => Differ!CoveringTests(run, m) \subseteq now.coveredBy
    <3>1. m \in reported
      BY DEF reported
    <3> QED BY <1>3, <2>2, <3>1 DEF HoldsFor
  <2>3. Differ!CurrentMutants(run) \subseteq reported
    BY DEF reported
  <2>4. code' = code /\ touched' = {} /\ report'.results = results /\ DOMAIN results = reported
        /\ last' = {[run |-> run, reused |-> Differ!Reused(run)]}
    BY <1>2, <1>5
  <2>5. Differ!CurrentMutants(run)' = Differ!CurrentMutants(run)
        /\ \A m : Differ!CoveringTests(run, m)' = Differ!CoveringTests(run, m)
    BY <2>4 DEF Differ!CurrentMutants, Differ!CoveringTests
  <2> SUFFICES ASSUME NEW l \in last'
               PROVE (/\ last = {l} /\ touched = {} /\ Differ!CurrentMutants(l.run) \subseteq DOMAIN report.results
                      /\ l.run.hasCoverage => \A m \in Differ!CurrentMutants(l.run) \ l.run.ignored :
                           LET now == report.results[m]
                           IN  /\ now.status # "Ignored"
                               /\ now.status = "Killed" =>
                                    \E t \in now.killedBy \cap l.run.ran : m \in code.covers[t] \/ m \in code.static
                               /\ now.status # "Killed" => Differ!CoveringTests(l.run, m) \subseteq now.coveredBy)'
    BY DEF LastRunHolds
  <2>6. l.run = run
    BY <2>4
  <2>7. Differ!CurrentMutants(l.run)' = Differ!CurrentMutants(run)
        /\ \A m : Differ!CoveringTests(l.run, m)' = Differ!CoveringTests(run, m)
    BY <2>4, <2>6 DEF Differ!CurrentMutants, Differ!CoveringTests
  <2> QED BY <2>2, <2>3, <2>4, <2>6, <2>7
<1> QED BY <1>6, <1>7, <1>8, <1>9 DEF DifferInv

LEMMA DifferInvStep == ASSUME DifferInv, [Differ!Next]_differVars PROVE DifferInv'
<1>1. CASE UNCHANGED differVars
  BY <1>1 DEF differVars, DifferInv, Differ!TypeOK, ResultsHold, Differ!ReferencesResolve, LastRunHolds,
              Differ!CurrentMutants, Differ!CoveringTests
<1>2. CASE Differ!RunIncrementally
  BY <1>2, RunKeeps
<1>3. CASE \/ \E t \in Tests : Differ!EditTest(t) \/ Differ!RemoveTest(t) \/ Differ!EditPath(t)
           \/ \E m \in Mutants : Differ!EditMutant(m) \/ Differ!RemoveMutant(m)
  BY <1>3, EditsKeep
<1> QED BY <1>1, <1>2, <1>3 DEF Differ!Next

\* What follows for the verdicts of the last run.
LEMMA VerdictsFollow == DifferInv => Differ!VerdictsAreSound
<1> SUFFICES ASSUME DifferInv, NEW l \in last, l.run.hasCoverage,
                    NEW m \in Differ!CurrentMutants(l.run) \ l.run.ignored
             PROVE  LET status == report.results[m].status
                    IN  /\ status = "Killed" => Differ!Killers(l.run, m) # {}
                        /\ status = "Survived" /\ m \notin code.static => Differ!Killers(l.run, m) = {}
                        /\ status = "NoCoverage" => Differ!CoveringTests(l.run, m) = {}
  BY DEF Differ!VerdictsAreSound
<1> DEFINE now == report.results[m]
<1>1. /\ touched = {} /\ m \in DOMAIN report.results
      /\ now.status = "Killed" =>
           \E t \in now.killedBy \cap l.run.ran : m \in code.covers[t] \/ m \in code.static
      /\ now.status # "Killed" => Differ!CoveringTests(l.run, m) \subseteq now.coveredBy
  BY DEF DifferInv, LastRunHolds
<1>2. /\ now.status = "NoCoverage" => now.coveredBy = {}
      /\ \A t \in now.killedBy : m \in code.kills[t]
      /\ now.status \in {"Survived", "NoCoverage"} => \A t \in now.coveredBy : m \notin code.kills[t]
  BY <1>1 DEF DifferInv, ResultsHold
<1>3. now.status = "Killed" => Differ!Killers(l.run, m) # {}
  BY <1>1, <1>2 DEF Differ!Killers
<1>4. now.status = "Survived" /\ m \notin code.static => Differ!Killers(l.run, m) = {}
  BY <1>1, <1>2 DEF Differ!Killers, Differ!CoveringTests
<1> QED BY <1>1, <1>2, <1>3, <1>4

\* incremental-differ.ts, over any history of edits and incremental runs: what
\* is reused in a run with coverage is what running the mutant again would
\* give, and the tests that the results of a report name are in the report.
THEOREM PlanningReportIsSound == Spec => []ReportIsSound
<1>1. Init => DifferInv
  BY DifferInit DEF Init
<1>2. DifferInv /\ [Next]_vars => DifferInv'
  BY OnlyParts, DifferInvStep
<1>3. DifferInv => ReportIsSound
  BY VerdictsFollow DEF ReportIsSound, DifferInv
<1> QED BY <1>1, <1>2, <1>3, PTL DEF Spec

\* What happens in one step to the report: a run forgets no mutant that it
\* does not look at, and reports all that it does.
LEMMA RunForgetsNothing ==
  ASSUME [Differ!Next]_differVars, last' # last, last' # {}, NEW l \in last'
  PROVE  /\ Differ!CurrentMutants(l.run) \subseteq DOMAIN report'.results
         /\ (DOMAIN report.results \ touched) \ l.run.scope \subseteq DOMAIN report'.results
         /\ DOMAIN report'.results \cap l.run.scope \subseteq code.mutants
<1>1. Differ!RunIncrementally
  BY DEF Differ!Next, differVars, Differ!Edit, Differ!EditTest, Differ!RemoveTest, Differ!EditPath,
         Differ!EditMutant, Differ!RemoveMutant
<1>2. PICK run \in Differ!Runs :
        LET reported == Differ!CurrentMutants(run) \cup Differ!Remembered(run)
        IN  \E results \in [reported -> UNION {Differ!Outcomes(run, m) : m \in reported}] :
              /\ report' = [results |-> results, tests |-> run.ran \cup Differ!OldTests]
              /\ last' = {[run |-> run, reused |-> Differ!Reused(run)]}
  BY <1>1 DEF Differ!RunIncrementally
<1>3. DOMAIN report'.results = Differ!CurrentMutants(run) \cup Differ!Remembered(run) /\ l.run = run
  BY <1>2
<1> QED BY <1>3 DEF Differ!CurrentMutants, Differ!Remembered, Differ!OldMutants

\* The second of two runs with nothing between them finds all it needs to reuse
\* what the first one reported.
LEMMA SecondRunReuses ==
  ASSUME DifferInv, [Differ!Next]_differVars, NEW l \in last, NEW n \in last',
         n # l, ~n.run.force, n.run.ran = l.run.ran, n.run.hasCoverage = l.run.hasCoverage,
         NEW m \in Differ!CurrentMutants(n.run) \cap Differ!CurrentMutants(l.run),
         m \notin l.run.ignored, m \notin n.run.ignored
  PROVE  m \in n.reused
<1>1. Differ!RunIncrementally
  BY DEF Differ!Next, differVars, Differ!Edit, Differ!EditTest, Differ!RemoveTest, Differ!EditPath,
         Differ!EditMutant, Differ!RemoveMutant, DifferInv, LastRunHolds
<1>2. PICK run \in Differ!Runs : last' = {[run |-> run, reused |-> Differ!Reused(run)]}
  BY <1>1 DEF Differ!RunIncrementally
<1>3. n.run = run /\ n.reused = Differ!Reused(run)
  BY <1>2
<1> DEFINE now == report.results[m]
<1>4. touched = {} /\ m \in DOMAIN report.results
  BY DEF DifferInv, LastRunHolds
<1>5. m \in Differ!OldMutants
  BY <1>4 DEF Differ!OldMutants
<1>6. CASE ~run.hasCoverage
  <2>1. Differ!MutantCanBeReused(run, m)
    BY <1>6 DEF Differ!MutantCanBeReused
  <2> QED BY <1>3, <1>5, <2>1 DEF Differ!Reused
<1>7. CASE run.hasCoverage
  <2>1. /\ now.status # "Ignored"
        /\ now.status = "Killed" =>
             \E t \in now.killedBy \cap run.ran : m \in code.covers[t] \/ m \in code.static
        /\ now.status # "Killed" => Differ!CoveringTests(run, m) \subseteq now.coveredBy
    BY <1>3, <1>7 DEF DifferInv, LastRunHolds, Differ!CoveringTests
  <2>2. now.killedBy \cup now.coveredBy \subseteq Differ!OldTests
    BY <1>4 DEF DifferInv, Differ!ReferencesResolve, Differ!OldTests
  <2>3. CASE now.status = "Killed"
    <3>1. PICK t \in now.killedBy \cap run.ran : m \in code.covers[t] \/ m \in code.static
      BY <2>1, <2>3
    <3>2. t \in Differ!OldKilledBy(m) /\ t \in Differ!OldCoveredBy(m)
      BY <2>2, <3>1 DEF Differ!OldKilledBy, Differ!OldCoveredBy
    <3>3. t \in Differ!SameTests(run, m)
      BY <1>7, <3>1, <3>2 DEF Differ!SameTests, Differ!CoveringTests
    <3>4. Differ!MutantCanBeReused(run, m)
      BY <2>3, <3>2, <3>3 DEF Differ!MutantCanBeReused
    <3> QED BY <1>3, <1>5, <3>4 DEF Differ!Reused
  <2>4. CASE now.status # "Killed"
    <3>1. Differ!AddedTests(run, m) = {}
      BY <2>1, <2>2, <2>4 DEF Differ!AddedTests, Differ!OldCoveredBy
    <3>2. Differ!MutantCanBeReused(run, m)
      BY <2>1, <2>4, <3>1 DEF Differ!MutantCanBeReused
    <3> QED BY <1>3, <1>5, <3>2 DEF Differ!Reused
  <2> QED BY <2>3, <2>4
<1> QED BY <1>3, <1>6, <1>7 DEF Differ!Runs

\* incremental-differ.ts: the report covers the whole project after every run,
\* and a run that repeats the one before it tests nothing again.
THEOREM PlanningReportIsComplete == Spec => ReportIsComplete
<1>1. Init => DifferInv
  BY DifferInit DEF Init
<1>2. DifferInv /\ [Next]_vars => DifferInv'
  BY OnlyParts, DifferInvStep
<1>3. [Next]_vars => [last' # last /\ last' # {} =>
        \A l \in last' :
          /\ Differ!CurrentMutants(l.run) \subseteq DOMAIN report'.results
          /\ (DOMAIN report.results \ touched) \ l.run.scope \subseteq DOMAIN report'.results
          /\ DOMAIN report'.results \cap l.run.scope \subseteq code.mutants]_(Differ!diffVars)
  BY OnlyParts, RunForgetsNothing DEF differVars, Differ!diffVars
<1>4. DifferInv /\ [Next]_vars => [\A l \in last : \A n \in last' :
        /\ n # l /\ ~n.run.force /\ n.run.ran = l.run.ran /\ n.run.hasCoverage = l.run.hasCoverage
        => Differ!CurrentMutants(n.run) \cap Differ!CurrentMutants(l.run) \subseteq
             n.reused \cup l.run.ignored \cup n.run.ignored]_(Differ!diffVars)
  BY OnlyParts, SecondRunReuses DEF differVars, Differ!diffVars
<1> QED BY <1>1, <1>2, <1>3, <1>4, PTL DEF Spec, ReportIsComplete, Differ!NothingForgotten, Differ!SecondRunReusesAll

-----------------------------------------------------------------------------
(* ProjectReader *)

Rules    == [negate : BOOLEAN, matches : SUBSET (1..Depth)]
Patterns == [negated : BOOLEAN, range : {{"true"}} \cup {{r} : r \in Ranges}]

\* Where a rule for a name, and where an exclusion, was last given: 0 if never.
LastOf(numbers)       == IF numbers # {} THEN CHOOSE x \in numbers : \A y \in numbers : x >= y ELSE 0
RulesFor(list, n)     == {i \in 1..Len(list) : n \in list[i].matches}
Exclusions(list)      == {i \in 1..Len(list) : list[i].negated}
Selection(list)       == SubSeq(list, LastOf(Exclusions(list)) + 1, Len(list))
SelectedRanges(list)  == {Selection(list)[i].range : i \in 1..Len(Selection(list))}

RulesDecide(list, answers) ==
  \A n \in 1..Depth :
    answers[n] = (LastOf(RulesFor(list, n)) = 0 \/ list[LastOf(RulesFor(list, n))].negate)

SelectionCounts(list, ranges) ==
  Len(Selection(list)) <= 1 \/ {"true"} \notin SelectedRanges(list) =>
    ranges = IF SelectedRanges(list) = {} THEN {"false"} ELSE UNION SelectedRanges(list)

ReaderInv ==
  /\ rules \in Seq(Rules) /\ patterns \in Seq(Patterns) /\ Reader!TypeOK
  /\ RulesDecide(rules, included) /\ SelectionCounts(patterns, mutate)

\* The last place of a list that has one is in it.
LEMMA LastIsPlace ==
  ASSUME NEW length \in Nat, NEW numbers, numbers \subseteq 1..length
  PROVE  /\ LastOf(numbers) \in 0..length
         /\ numbers = {} <=> LastOf(numbers) = 0
         /\ numbers # {} => LastOf(numbers) \in numbers
         /\ \A y \in numbers : LastOf(numbers) >= y
<1>1. CASE numbers = {}
  BY <1>1 DEF LastOf
<1>2. CASE numbers # {}
  <2>1. numbers \subseteq 0..length
    OBVIOUS
  <2>2. /\ (CHOOSE x \in numbers : \A y \in numbers : x >= y) \in numbers
        /\ \A y \in numbers : (CHOOSE x \in numbers : \A z \in numbers : x >= z) >= y
    BY <1>2, <2>1, GreatestNatural
  <2>3. LastOf(numbers) \in numbers /\ \A y \in numbers : LastOf(numbers) >= y
    BY <1>2, <2>2 DEF LastOf
  <2>4. LastOf(numbers) \in 1..length
    BY <2>3
  <2>5. LastOf(numbers) \in 0..length /\ LastOf(numbers) # 0
    BY <2>4
  <2> QED BY <1>2, <2>3, <2>5
<1> QED BY <1>1, <1>2

\* What is appended is the last place, if it is one, and otherwise nothing moves.
LEMMA LastOfLonger ==
  ASSUME NEW length \in Nat, NEW numbers, numbers \subseteq 1..length,
         NEW longer, longer \subseteq 1..(length + 1), longer \ {length + 1} = numbers
  PROVE  /\ length + 1 \in longer => LastOf(longer) = length + 1
         /\ length + 1 \notin longer => LastOf(longer) = LastOf(numbers)
<1>1. ASSUME length + 1 \in longer PROVE LastOf(longer) = length + 1
  <2>1. LastOf(longer) \in 0..(length + 1) /\ LastOf(longer) >= length + 1
    <3>1. length + 1 \in Nat
      OBVIOUS
    <3> QED BY <1>1, <3>1, LastIsPlace
  <2> QED BY <2>1
<1>2. ASSUME length + 1 \notin longer PROVE LastOf(longer) = LastOf(numbers)
  <2>1. longer = numbers
    BY <1>2
  <2> QED BY <2>1
<1> QED BY <1>1, <1>2

\* A rule decides for what it matches and leaves the rest to the ones before it.
LEMMA RuleAppended ==
  ASSUME NEW list \in Seq(Rules), NEW rule \in Rules,
         NEW answers \in [1..Depth -> BOOLEAN], RulesDecide(list, answers)
  PROVE  RulesDecide(Append(list, rule),
           [n \in 1..Depth |-> IF rule.negate # answers[n] /\ n \in rule.matches THEN rule.negate ELSE answers[n]])
<1> DEFINE longer == Append(list, rule)
           now == [n \in 1..Depth |-> IF rule.negate # answers[n] /\ n \in rule.matches THEN rule.negate ELSE answers[n]]
<1>0. /\ longer \in Seq(Rules) /\ Len(list) \in Nat /\ Len(longer) = Len(list) + 1
      /\ longer[Len(list) + 1] = rule /\ \A i \in 1..Len(list) : longer[i] = list[i]
  OBVIOUS
<1> SUFFICES ASSUME NEW n \in 1..Depth
             PROVE  now[n] = (LastOf(RulesFor(longer, n)) = 0 \/ longer[LastOf(RulesFor(longer, n))].negate)
  BY DEF RulesDecide
<1>1. answers[n] \in BOOLEAN /\ rule.negate \in BOOLEAN
  BY DEF Rules
<1>2. answers[n] = (LastOf(RulesFor(list, n)) = 0 \/ list[LastOf(RulesFor(list, n))].negate)
  BY DEF RulesDecide
<1>3. RulesFor(list, n) \subseteq 1..Len(list) /\ RulesFor(longer, n) \subseteq 1..(Len(list) + 1)
  BY <1>0 DEF RulesFor
<1>4. RulesFor(longer, n) \ {Len(list) + 1} = RulesFor(list, n)
  BY <1>0 DEF RulesFor
<1>5. Len(list) + 1 \in RulesFor(longer, n) <=> n \in rule.matches
  BY <1>0 DEF RulesFor
<1>6. CASE n \in rule.matches
  <2>1. LastOf(RulesFor(longer, n)) = Len(list) + 1
    BY <1>0, <1>3, <1>4, <1>5, <1>6, LastOfLonger
  <2>2. now[n] = rule.negate
    BY <1>1, <1>6
  <2>3. Len(list) + 1 # 0
    BY <1>0
  <2> QED BY <1>0, <1>1, <2>1, <2>2, <2>3
<1>7. CASE n \notin rule.matches
  <2>1. LastOf(RulesFor(longer, n)) = LastOf(RulesFor(list, n))
    BY <1>0, <1>3, <1>4, <1>5, <1>7, LastOfLonger
  <2>2. now[n] = answers[n]
    BY <1>7
  <2>3. LastOf(RulesFor(list, n)) \in 0..Len(list)
    BY <1>0, <1>3, LastIsPlace
  <2>4. LastOf(RulesFor(list, n)) # 0 => longer[LastOf(RulesFor(list, n))] = list[LastOf(RulesFor(list, n))]
    BY <1>0, <2>3
  <2> QED BY <1>2, <2>1, <2>2, <2>4
<1> QED BY <1>6, <1>7

\* An exclusion empties the selection, and any other pattern adds its range.
LEMMA PatternAppended ==
  ASSUME NEW list \in Seq(Patterns), NEW pattern \in Patterns
  PROVE  /\ pattern.negated => Selection(Append(list, pattern)) = << >>
         /\ ~pattern.negated => Selection(Append(list, pattern)) = Append(Selection(list), pattern)
<1> DEFINE longer == Append(list, pattern)
           length == Len(list)
           from   == LastOf(Exclusions(list)) + 1
<1>0. /\ longer \in Seq(Patterns) /\ length \in Nat /\ Len(longer) = length + 1
      /\ longer[length + 1] = pattern /\ \A i \in 1..length : longer[i] = list[i]
  OBVIOUS
<1>1. Exclusions(list) \subseteq 1..length /\ Exclusions(longer) \subseteq 1..(length + 1)
  BY <1>0 DEF Exclusions
<1>2. Exclusions(longer) \ {length + 1} = Exclusions(list)
  BY <1>0 DEF Exclusions
<1>3. length + 1 \in Exclusions(longer) <=> pattern.negated
  BY <1>0 DEF Exclusions
<1>4. ASSUME pattern.negated PROVE Selection(longer) = << >>
  <2>1. LastOf(Exclusions(longer)) = length + 1
    <3>1. length + 1 \in Exclusions(longer)
      BY <1>3, <1>4
    <3> HIDE DEF longer, length
    <3> QED BY <1>0, <1>1, <1>2, <3>1, LastOfLonger
  <2>2. Selection(longer) = SubSeq(longer, length + 1 + 1, length + 1)
    BY <1>0, <2>1 DEF Selection
  <2> QED BY <1>0, <2>2
<1>5. ASSUME ~pattern.negated PROVE Selection(longer) = Append(Selection(list), pattern)
  <2>1. LastOf(Exclusions(longer)) = LastOf(Exclusions(list))
    BY <1>0, <1>1, <1>2, <1>3, <1>5, LastOfLonger
  <2>2. LastOf(Exclusions(list)) \in 0..length
    BY <1>0, <1>1, LastIsPlace
  <2>3. from \in 1..(length + 1)
    BY <1>0, <2>2
  <2>4. Selection(longer) = SubSeq(longer, from, length + 1) /\ Selection(list) = SubSeq(list, from, length)
    BY <1>0, <2>1 DEF Selection
  <2>5. SubSeq(longer, from, length + 1) = Append(SubSeq(list, from, length), pattern)
    <3> HIDE DEF from
    <3> QED BY <1>0, <2>3
  <2> QED BY <2>4, <2>5
<1> QED BY <1>4, <1>5

\* What the invariant says of rules and patterns is what the model says of them.
LEMMA ReaderSays ==
  /\ Reader!LastRuleWins <=> RulesDecide(rules, included)
  /\ Reader!MutatesTheSelection <=> SelectionCounts(patterns, mutate)
<1>1. Reader!LastRuleWins <=> RulesDecide(rules, included)
  BY DEF Reader!LastRuleWins, RulesDecide, RulesFor, LastOf, Reader!SelectLastInSeq, Reader!Max
<1>2. Reader!Selecting = Selection(patterns)
  BY DEF Reader!Selecting, Selection, Exclusions, LastOf, Reader!SelectLastInSeq, Reader!Max
<1>3. Reader!MutatesTheSelection <=> SelectionCounts(patterns, mutate)
  BY <1>2 DEF Reader!MutatesTheSelection, SelectionCounts, SelectedRanges
<1> QED BY <1>1, <1>3

\* A pattern that selects adds its range to what is mutated.
LEMMA RangeMerged ==
  ASSUME NEW list \in Seq(Patterns), NEW range \in {{"true"}} \cup {{r} : r \in Ranges},
         NEW ranges, SelectionCounts(list, ranges),
         ranges \in {{"false"}, {"true"}} \cup ((SUBSET Ranges) \ {{}})
  PROVE  SelectionCounts(Append(list, [negated |-> FALSE, range |-> range]),
                         Reader!MergeFileDescriptions(range, ranges))
<1> DEFINE pattern == [negated |-> FALSE, range |-> range]
           before  == Selection(list)
           after   == Selection(Append(list, pattern))
           merged  == Reader!MergeFileDescriptions(range, ranges)
<1>1. pattern \in Patterns
  BY DEF Patterns
<1>2. after = Append(before, pattern)
  BY <1>1, PatternAppended
<1>3. before \in Seq(Patterns)
  <2>1. LastOf(Exclusions(list)) \in 0..Len(list)
    <3>1. Exclusions(list) \subseteq 1..Len(list) /\ Len(list) \in Nat
      BY DEF Exclusions
    <3> QED BY <3>1, LastIsPlace
  <2>2. LastOf(Exclusions(list)) + 1 \in 1..(Len(list) + 1)
    BY <2>1
  <2> HIDE DEF before
  <2>3. before = SubSeq(list, LastOf(Exclusions(list)) + 1, Len(list))
    BY DEF before, Selection
  <2> QED BY <2>2, <2>3
<1>4. SelectedRanges(Append(list, pattern)) = SelectedRanges(list) \cup {range}
  <2> HIDE DEF before, after, pattern
  <2>1. SelectedRanges(list) = {before[i].range : i \in 1..Len(before)}
        /\ SelectedRanges(Append(list, pattern)) = {after[i].range : i \in 1..Len(after)}
    BY DEF SelectedRanges, before, after
  <2>2. /\ Len(after) = Len(before) + 1 /\ Len(before) \in Nat /\ after[Len(before) + 1] = pattern
        /\ \A i \in 1..Len(before) : after[i] = before[i]
    BY <1>1, <1>2, <1>3
  <2>3. pattern.range = range
    BY DEF pattern
  <2> QED BY <2>1, <2>2, <2>3
<1>5. SelectedRanges(list) \subseteq {{"true"}} \cup {{r} : r \in Ranges}
  <2>1. SelectedRanges(list) = {before[i].range : i \in 1..Len(before)}
    BY DEF SelectedRanges
  <2> HIDE DEF before
  <2>2. \A i \in 1..Len(before) : before[i] \in Patterns
    BY <1>3
  <2>3. \A p \in Patterns : p.range \in {{"true"}} \cup {{r} : r \in Ranges}
    BY DEF Patterns
  <2> QED BY <2>1, <2>2, <2>3
<1>6. Len(after) = Len(before) + 1 /\ Len(before) \in Nat /\ (Len(before) = 0 => SelectedRanges(list) = {})
  BY <1>1, <1>2, <1>3 DEF SelectedRanges
<1>7. "true" \notin Ranges /\ "false" \notin Ranges
  BY InputAssumption
<1> SUFFICES ASSUME Len(after) <= 1 \/ {"true"} \notin SelectedRanges(list) \cup {range}
             PROVE  merged = UNION (SelectedRanges(list) \cup {range})
  BY <1>4 DEF SelectionCounts
<1>8. CASE SelectedRanges(list) = {}
  <2>1. ranges = {"false"}
    BY <1>8 DEF SelectionCounts
  <2>2. merged = range
    BY <1>7, <2>1 DEF Reader!MergeFileDescriptions
  <2> QED BY <1>8, <2>2
<1>9. CASE SelectedRanges(list) # {}
  <2>1. {"true"} \notin SelectedRanges(list) /\ range # {"true"}
    BY <1>6, <1>9
  <2>2. ranges = UNION SelectedRanges(list)
    BY <1>9, <2>1 DEF SelectionCounts
  <2>3. UNION SelectedRanges(list) \subseteq Ranges
    <3>1. \A s \in SelectedRanges(list) : s \subseteq Ranges
      BY <1>5, <2>1
    <3> QED BY <3>1
  <2>4. range \subseteq Ranges
    BY <2>1
  <2>5. merged = ranges \cup range
    <3>1. ranges \subseteq Ranges
      BY <2>2, <2>3
    <3>2. ranges # {"false"}
      BY <1>7, <3>1
    <3>3. range \subseteq Ranges /\ ranges \subseteq Ranges
      BY <2>4, <3>1
    <3> HIDE DEF before, after, pattern
    <3> QED BY <3>2, <3>3 DEF Reader!MergeFileDescriptions
  <2> QED BY <2>2, <2>5
<1> QED BY <1>8, <1>9

LEMMA ReaderInit == Reader!Init => ReaderInv
<1> SUFFICES ASSUME Reader!Init PROVE ReaderInv
  OBVIOUS
<1>1. rules = << >> /\ patterns = << >> /\ mutate = {"false"} /\ included = [n \in 1..Depth |-> TRUE]
  BY DEF Reader!Init
<1>2. RulesDecide(rules, included)
  <2>1. ASSUME NEW n \in 1..Depth PROVE LastOf(RulesFor(rules, n)) = 0
    <3>1. RulesFor(rules, n) = {}
      BY <1>1 DEF RulesFor
    <3> QED BY <3>1 DEF LastOf
  <2> QED BY <1>1, <2>1 DEF RulesDecide
<1>3. Selection(patterns) = << >>
  BY <1>1 DEF Selection, Exclusions, LastOf
<1>4. SelectionCounts(patterns, mutate)
  BY <1>1, <1>3 DEF SelectionCounts, SelectedRanges
<1> QED BY <1>1, <1>2, <1>4 DEF ReaderInv, Reader!TypeOK

LEMMA ReaderInvStep == ReaderInv /\ [Reader!Next]_readerVars => ReaderInv'
<1> SUFFICES ASSUME ReaderInv, [Reader!Next]_readerVars PROVE ReaderInv'
  OBVIOUS
<1> USE DEF ReaderInv
<1>1. CASE Reader!IgnoreRule
  <2>1. PICK negate \in BOOLEAN, matches \in SUBSET (1..Depth) :
          /\ rules' = Append(rules, [negate |-> negate, matches |-> matches])
          /\ included' = [n \in 1..Depth |-> IF negate # included[n] /\ n \in matches THEN negate ELSE included[n]]
    BY <1>1 DEF Reader!IgnoreRule
  <2> DEFINE rule == [negate |-> negate, matches |-> matches]
  <2>2. rule \in Rules /\ rule.negate = negate /\ rule.matches = matches
    BY DEF Rules
  <2>3. included \in [1..Depth -> BOOLEAN]
    BY DEF Reader!TypeOK
  <2>4. included' = [n \in 1..Depth |-> IF rule.negate # included[n] /\ n \in rule.matches THEN rule.negate ELSE included[n]]
        /\ rules' = Append(rules, rule)
    BY <2>1, <2>2
  <2> HIDE DEF rule
  <2>5. RulesDecide(rules, included)'
    BY <2>2, <2>3, <2>4, RuleAppended
  <2>6. rules' \in Seq(Rules) /\ included' \in [1..Depth -> BOOLEAN]
    BY <2>2, <2>3, <2>4 DEF Rules
  <2>7. UNCHANGED <<patterns, mutate>>
    BY <1>1 DEF Reader!IgnoreRule
  <2>8. SelectionCounts(patterns, mutate)'
    BY <2>7
  <2> QED BY <2>5, <2>6, <2>7, <2>8 DEF Reader!TypeOK
<1>2. CASE Reader!MutatePattern
  <2>1. PICK range \in {{"true"}} \cup {{r} : r \in Ranges} :
          /\ patterns' = Append(patterns, [negated |-> FALSE, range |-> range])
          /\ mutate' = Reader!MergeFileDescriptions(range, mutate)
    BY <1>2 DEF Reader!MutatePattern
  <2>2. SelectionCounts(patterns, mutate)'
    BY <2>1, RangeMerged DEF Reader!TypeOK
  <2>3. patterns' \in Seq(Patterns)
    BY <2>1 DEF Patterns
  <2>4. mutate' \in {{"false"}, {"true"}} \cup ((SUBSET Ranges) \ {{}})
    BY <2>1 DEF Reader!MergeFileDescriptions, Reader!TypeOK
  <2>5. UNCHANGED <<rules, included>>
    BY <1>2 DEF Reader!MutatePattern
  <2>6. RulesDecide(rules, included)'
    BY <2>5
  <2> QED BY <2>2, <2>3, <2>4, <2>5, <2>6 DEF Reader!TypeOK
<1>3. CASE Reader!NegatedPattern
  <2>1. PICK range \in {{"true"}} \cup {{r} : r \in Ranges} :
          patterns' = Append(patterns, [negated |-> TRUE, range |-> range])
    BY <1>3 DEF Reader!NegatedPattern
  <2>2. [negated |-> TRUE, range |-> range] \in Patterns
    BY DEF Patterns
  <2>3. Selection(patterns') = << >>
    BY <2>1, <2>2, PatternAppended
  <2>4. mutate' = {"false"} /\ UNCHANGED <<rules, included>>
    BY <1>3 DEF Reader!NegatedPattern
  <2>5. SelectionCounts(patterns', mutate')
    BY <2>3, <2>4 DEF SelectionCounts, SelectedRanges
  <2>6. SelectionCounts(patterns, mutate)'
    BY <2>5 DEF SelectionCounts, SelectedRanges, Selection, Exclusions, LastOf
  <2>7. RulesDecide(rules, included)'
    BY <2>4
  <2> QED BY <2>1, <2>2, <2>4, <2>6, <2>7 DEF Reader!TypeOK
<1>4. CASE UNCHANGED readerVars
  <2>1. UNCHANGED <<rules, included, patterns, mutate>>
    BY <1>4 DEF readerVars
  <2>2. RulesDecide(rules, included)' /\ SelectionCounts(patterns, mutate)'
    BY <2>1
  <2> QED BY <2>1, <2>2 DEF Reader!TypeOK
<1> QED BY <1>1, <1>2, <1>3, <1>4 DEF Reader!Next

\* file-matcher.ts and project-reader.ts: whatever rules and patterns are given
\* and in what order, the last ignore rule that matches a name decides, and
\* what is mutated is the ranges that were selected after the last exclusion.
THEOREM PlanningSelectionIsRight == Spec => []SelectionIsRight
<1>1. Init => ReaderInv
  BY ReaderInit DEF Init
<1>2. ReaderInv /\ [Next]_vars => ReaderInv'
  BY ReaderInvStep, OnlyParts
<1>3. ReaderInv => SelectionIsRight
  BY ReaderSays DEF ReaderInv, SelectionIsRight
<1> QED BY <1>1, <1>2, <1>3, PTL DEF Spec

-----------------------------------------------------------------------------
(* MutantTestPlanner *)

\* A dry run, as the planner gets it.
IsDryRun(run) ==
  /\ run.tests \in SUBSET DryRunTests /\ run.time \in [run.tests -> Times]
  /\ run.coverage = {} \/ \E c \in Planner!Coverages : run.coverage = {c}

\* The planner's lists are made of the one dry run.
PlannerInv ==
  /\ \A run \in dryRun : dryRun = {run} /\ IsDryRun(run)
  /\ \A p \in plans : \E run \in dryRun : \E early \in SUBSET Planned :
       /\ p.options \in Planner!Options
       /\ p.plan = [m \in Planned |-> Planner!PlanMutant(run, p.options, m, IF m \in early THEN {"Killed"} ELSE {})]

LEMMA PlannerInit == Planner!Init => PlannerInv
BY DEF Planner!Init, PlannerInv

LEMMA PlannerInvStep == PlannerInv /\ [Planner!Next]_plannerVars => PlannerInv'
<1> SUFFICES ASSUME PlannerInv, [Planner!Next]_plannerVars PROVE PlannerInv'
  OBVIOUS
<1>1. CASE Planner!DryRunCompletes
  <2>1. PICK known \in SUBSET DryRunTests : \E time \in [known -> Times] :
          \E coverage \in {{}} \cup {{c} : c \in Planner!Coverages} :
            dryRun' = {[tests |-> known, time |-> time, coverage |-> coverage]}
    BY <1>1 DEF Planner!DryRunCompletes
  <2>2. PICK time \in [known -> Times], coverage \in {{}} \cup {{c} : c \in Planner!Coverages} :
          dryRun' = {[tests |-> known, time |-> time, coverage |-> coverage]}
    BY <2>1
  <2> DEFINE run == [tests |-> known, time |-> time, coverage |-> coverage]
  <2>3. IsDryRun(run)
    <3>1. run.tests = known /\ run.time = time /\ run.coverage = coverage
      OBVIOUS
    <3> HIDE DEF run
    <3> QED BY <3>1 DEF IsDryRun
  <2>4. dryRun = {} /\ plans' = plans
    BY <1>1 DEF Planner!DryRunCompletes
  <2>5. plans = {}
    BY <2>4 DEF PlannerInv
  <2> HIDE DEF run
  <2>6. dryRun' = {run}
    BY <2>2 DEF run
  <2> QED BY <2>3, <2>4, <2>5, <2>6 DEF PlannerInv
<1>2. CASE Planner!MakePlan
  <2>1. PICK run \in dryRun, options \in Planner!Options, early \in SUBSET Planned :
          plans' = {[options |-> options,
                     plan |-> [m \in Planned |-> Planner!PlanMutant(run, options, m, IF m \in early THEN {"Killed"} ELSE {})]]}
    BY <1>2 DEF Planner!MakePlan
  <2> DEFINE made == [m \in Planned |-> Planner!PlanMutant(run, options, m, IF m \in early THEN {"Killed"} ELSE {})]
             p == [options |-> options, plan |-> made]
  <2>2. plans' = {p} /\ p.options = options /\ p.plan = made
    BY <2>1
  <2>3. dryRun' = dryRun
    BY <1>2 DEF Planner!MakePlan
  <2> HIDE DEF p
  <2> QED BY <2>1, <2>2, <2>3 DEF PlannerInv
<1>3. CASE UNCHANGED plannerVars
  BY <1>3 DEF plannerVars, PlannerInv
<1> QED BY <1>1, <1>2, <1>3 DEF Planner!Next

\* What a plan to run a mutant is made of: the hitBy that cover it as a filter,
\* or no filter and the time of all of them.
RunsCovering(run, m, plan) ==
  /\ plan.testFilter = {Planner!TestsByMutant(run, m)}
  /\ plan.netTime = Planner!CalculateTotalTime(run.time, Planner!TestsByMutant(run, m))

RunsAll(run, m, plan) ==
  /\ plan.testFilter = {} /\ plan.netTime = Planner!CalculateTotalTime(run.time, run.tests)
  /\ plan.activation = "static" /\ plan.reloadEnvironment

IsRunPlan(run, options, m, plan) ==
  /\ plan.timeout = options.timeoutFactor * plan.netTime + options.timeoutMS + options.timeOverheadMS
  /\ plan.static = Planner!HasStaticCoverage(run, m)
  /\ plan.hitLimit = {n * 100 : n \in Planner!HitsByMutant(run, m)}
  /\ \/ RunsCovering(run, m, plan) /\ (Planner!HasStaticCoverage(run, m) => options.ignoreStatic)
     \/ RunsAll(run, m, plan)

LEMMA RunPlanIs ==
  ASSUME NEW run, NEW options, NEW m, NEW netTime, NEW testFilter, NEW coveredBy, NEW plan,
         plan = Planner!RunPlan(run, options, m, netTime, testFilter, coveredBy)
  PROVE  /\ plan.plan = "Run" /\ plan.netTime = netTime /\ plan.testFilter = testFilter
         /\ plan.timeout = options.timeoutFactor * netTime + options.timeoutMS + options.timeOverheadMS
         /\ plan.static = Planner!HasStaticCoverage(run, m)
         /\ plan.hitLimit = {n * 100 : n \in Planner!HitsByMutant(run, m)}
         /\ testFilter = {} => plan.activation = "static" /\ plan.reloadEnvironment
BY DEF Planner!RunPlan, Planner!HIT_LIMIT_FACTOR

LEMMA PlanIsRun ==
  ASSUME NEW run, IsDryRun(run), NEW options \in Planner!Options, NEW m, NEW status, NEW plan,
         plan = Planner!PlanMutant(run, options, m, status), plan.plan = "Run"
  PROVE  IsRunPlan(run, options, m, plan)
<1> DEFINE hitBy    == Planner!TestsByMutant(run, m)
           static   == Planner!HasStaticCoverage(run, m)
           allTests == Planner!CalculateTotalTime(run.time, run.tests)
           covering == Planner!CalculateTotalTime(run.time, hitBy)
           has      == Planner!HasCoverage(run)
           made(t, f, c) == Planner!RunPlan(run, options, m, t, f, c)
           early(s, c) == Planner!EarlyResult(s, c)
<1>1. options.ignoreStatic \in BOOLEAN /\ static \in BOOLEAN /\ has \in BOOLEAN /\ (static => has)
  BY DEF Planner!Options, Planner!HasStaticCoverage, Planner!HasCoverage
<1>2. plan = CASE status # {} -> early(CHOOSE s \in status : TRUE, {})
               [] status = {} /\ ~has -> made(allTests, {}, {})
               [] status = {} /\ has /\ (~static \/ (options.ignoreStatic /\ hitBy # {})) -> made(covering, {hitBy}, {hitBy})
               [] status = {} /\ has /\ static /\ options.ignoreStatic /\ hitBy = {} -> early("Ignored", {hitBy})
               [] status = {} /\ has /\ static /\ ~options.ignoreStatic -> made(allTests, {}, {hitBy})
  BY DEF Planner!PlanMutant
<1>3. \A s, c : early(s, c).plan = "EarlyResult"
  BY DEF Planner!EarlyResult
<1> HIDE DEF made, early, has, static, hitBy, allTests, covering
<1>4. status = {}
  BY <1>2, <1>3
<1>5. CASE ~has
  <2>1. plan = made(allTests, {}, {})
    BY <1>2, <1>4, <1>5
  <2> QED BY <1>1, <1>5, <2>1, RunPlanIs DEF made, allTests, static, IsRunPlan, RunsAll
<1>6. CASE has /\ (~static \/ (options.ignoreStatic /\ hitBy # {}))
  <2>1. plan = made(covering, {hitBy}, {hitBy})
    BY <1>2, <1>4, <1>6
  <2> QED BY <1>1, <1>6, <2>1, RunPlanIs DEF made, covering, hitBy, static, IsRunPlan, RunsCovering
<1>7. CASE has /\ static /\ ~options.ignoreStatic
  <2>1. plan = made(allTests, {}, {hitBy})
    BY <1>2, <1>4, <1>7
  <2>2. /\ plan.netTime = allTests /\ plan.testFilter = {} /\ plan.activation = "static" /\ plan.reloadEnvironment
        /\ plan.timeout = options.timeoutFactor * allTests + options.timeoutMS + options.timeOverheadMS
        /\ plan.static = Planner!HasStaticCoverage(run, m)
        /\ plan.hitLimit = {n * 100 : n \in Planner!HitsByMutant(run, m)}
    BY <2>1, RunPlanIs DEF made
  <2>3. RunsAll(run, m, plan)
    BY <2>2 DEF RunsAll, allTests
  <2> QED BY <2>2, <2>3 DEF IsRunPlan
<1>8. ~(has /\ static /\ options.ignoreStatic /\ hitBy = {})
  <2>1. SUFFICES ASSUME has, static, options.ignoreStatic, hitBy = {} PROVE FALSE
    OBVIOUS
  <2>2. plan = early("Ignored", {hitBy})
    BY <1>2, <1>4, <2>1
  <2> QED BY <1>3, <2>2
<1> QED BY <1>1, <1>5, <1>6, <1>7, <1>8

\* The plans that are made, with their dry run.
LEMMA PlansAreOfTheRun ==
  ASSUME PlannerInv, NEW p \in plans, NEW run \in dryRun
  PROVE  /\ IsDryRun(run) /\ p.options \in Planner!Options /\ DOMAIN p.plan = Planned
         /\ \A m \in Planned : p.plan[m].plan = "Run" => IsRunPlan(run, p.options, m, p.plan[m])
<1>1. PICK other \in dryRun, early \in SUBSET Planned :
        /\ p.options \in Planner!Options
        /\ p.plan = [m \in Planned |-> Planner!PlanMutant(other, p.options, m, IF m \in early THEN {"Killed"} ELSE {})]
  BY DEF PlannerInv
<1>2. other = run /\ IsDryRun(run)
  BY DEF PlannerInv
<1>3. ASSUME NEW m \in Planned, p.plan[m].plan = "Run" PROVE IsRunPlan(run, p.options, m, p.plan[m])
  <2>1. p.plan[m] = Planner!PlanMutant(run, p.options, m, IF m \in early THEN {"Killed"} ELSE {})
    BY <1>1, <1>2
  <2> QED BY <1>1, <1>2, <1>3, <2>1, PlanIsRun
<1> QED BY <1>1, <1>2, <1>3

LEMMA NoKillIsMissed == PlannerInv => Planner!PlanMissesNoKill
<1> SUFFICES ASSUME PlannerInv, NEW p \in plans, NEW run \in dryRun, NEW m \in Planned, p.plan[m].plan = "Run"
             PROVE  /\ Planner!TestsByMutant(run, m) \subseteq Planner!Executed(run, p.plan[m])
                    /\ p.options.ignoreStatic \/ Planner!Reaching(run, m) \subseteq Planner!Executed(run, p.plan[m])
                    /\ Planner!HasStaticCoverage(run, m) /\ ~p.options.ignoreStatic =>
                         p.plan[m].activation = "static" /\ p.plan[m].reloadEnvironment
  BY DEF Planner!PlanMissesNoKill
<1>1. IsRunPlan(run, p.options, m, p.plan[m])
  BY PlansAreOfTheRun
<1>2. Planner!TestsByMutant(run, m) \subseteq run.tests
  BY DEF Planner!TestsByMutant
<1>3. CASE RunsCovering(run, m, p.plan[m]) /\ (Planner!HasStaticCoverage(run, m) => p.options.ignoreStatic)
  <2>1. Planner!Executed(run, p.plan[m]) = Planner!TestsByMutant(run, m)
    BY <1>3 DEF RunsCovering, Planner!Executed
  <2> QED BY <1>3, <2>1 DEF Planner!Reaching
<1>4. CASE RunsAll(run, m, p.plan[m])
  <2>1. Planner!Executed(run, p.plan[m]) = run.tests
    BY <1>4 DEF RunsAll, Planner!Executed
  <2> QED BY <1>2, <1>4, <2>1 DEF Planner!Reaching, RunsAll
<1> QED BY <1>1, <1>3, <1>4 DEF IsRunPlan

\* The hits that a set of tests makes on a mutant, as a total.
HitSum(c, m, S) == Planner!MapThenSumSet(LAMBDA t : c.perTest[t][m], S)

LEMMA HitSumIsTotal ==
  ASSUME NEW c, NEW m, NEW S, IsFiniteSet(S), NEW f, \A t \in S : f[t] = c.perTest[t][m] /\ f[t] \in Nat
  PROVE  HitSum(c, m, S) = Total(f, S)
<1> DEFINE Sums(i) == i = [s \in SUBSET S |-> IF s = {} THEN 0
                             ELSE c.perTest[CHOOSE x \in s : TRUE][m] + i[s \ {CHOOSE x \in s : TRUE}]]
           h == CHOOSE i : Sums(i)
<1>1. HitSum(c, m, S) = h[S]
  BY DEF HitSum, Planner!MapThenSumSet, Planner!MapThenFoldSet
<1>2. \A s \in SUBSET S : s # {} => f[CHOOSE x \in s : TRUE] = c.perTest[CHOOSE x \in s : TRUE][m]
  OBVIOUS
<1>3. \A i : Sums(i) <=> Folds(i, f, S)
  BY <1>2 DEF Folds
<1>4. \E i : Folds(i, f, S)
  <2>1. PICK g : IsSum(g, f, S)
    BY SumsExist
  <2> QED BY <2>1, SumFolds
<1> HIDE DEF Sums
<1>5. Folds(h, f, S)
  BY <1>3, <1>4
<1> HIDE DEF h
<1> QED BY <1>1, <1>5, FoldIsTotal

\* The time of a set of tests and that of a set of plans, as totals.
LEMMA TimeIsTotal ==
  ASSUME NEW time, NEW S PROVE Planner!CalculateTotalTime(time, S) = Total(time, S)
BY DEF Planner!CalculateTotalTime, Planner!MapThenSumSet, Planner!MapThenFoldSet, Total, Folds

LEMMA NetTimeIsTotal ==
  ASSUME NEW made, NEW S, IsFiniteSet(S), NEW f, \A m \in S : f[m] = made[m].netTime /\ f[m] \in Nat
  PROVE  Planner!TotalNetTime(made, S) = Total(f, S)
<1> DEFINE Sums(i) == i = [s \in SUBSET S |-> IF s = {} THEN 0
                             ELSE made[CHOOSE x \in s : TRUE].netTime + i[s \ {CHOOSE x \in s : TRUE}]]
           h == CHOOSE i : Sums(i)
<1>1. Planner!TotalNetTime(made, S) = h[S]
  BY DEF Planner!TotalNetTime, Planner!MapThenSumSet, Planner!MapThenFoldSet
<1>2. \A s \in SUBSET S : s # {} => f[CHOOSE x \in s : TRUE] = made[CHOOSE x \in s : TRUE].netTime
  OBVIOUS
<1>3. \A i : Sums(i) <=> Folds(i, f, S)
  BY <1>2 DEF Folds
<1>4. \E i : Folds(i, f, S)
  <2>1. PICK g : IsSum(g, f, S)
    BY SumsExist
  <2> QED BY <2>1, SumFolds
<1> HIDE DEF Sums
<1>5. Folds(h, f, S)
  BY <1>3, <1>4
<1> HIDE DEF h
<1> QED BY <1>1, <1>5, FoldIsTotal

\* The tests of a dry run are finitely many and take some time.
LEMMA DryRunTimes ==
  ASSUME NEW run, IsDryRun(run), NEW S \in SUBSET run.tests
  PROVE  IsFiniteSet(S) /\ Planner!CalculateTotalTime(run.time, S) \in Nat
<1>1. IsFiniteSet(S)
  <2>1. S \subseteq DryRunTests
    BY DEF IsDryRun
  <2> QED BY <2>1, InputAssumption, FS_Subset
<1>2. \A t \in S : run.time[t] \in Nat
  <2>1. Times \subseteq Nat
    BY BoundsAssumption
  <2> QED BY <2>1 DEF IsDryRun
<1>3. Total(run.time, S) \in Nat
  <2>1. S \in SUBSET S
    OBVIOUS
  <2> QED BY <1>1, <1>2, <2>1, TotalSplits
<1> QED BY <1>1, <1>3, TimeIsTotal

LEMMA LimitsHaveRoom == PlannerInv => Planner!LimitsLeaveRoom
<1> SUFFICES ASSUME PlannerInv, NEW p \in plans, NEW run \in dryRun, NEW m \in Planned, p.plan[m].plan = "Run"
             PROVE  /\ p.plan[m].timeout >= p.options.timeOverheadMS + p.options.timeoutMS
                                            + Planner!CalculateTotalTime(run.time, Planner!Executed(run, p.plan[m]))
                    /\ \A limit \in p.plan[m].hitLimit, c \in run.coverage :
                         limit > HitSum(c, m, Planner!Executed(run, p.plan[m]) \cap DOMAIN c.perTest) + c.static[m]
  BY DEF Planner!LimitsLeaveRoom, HitSum, Planner!MapThenSumSet, Planner!MapThenFoldSet
<1> DEFINE plan == p.plan[m]
           executed == Planner!Executed(run, p.plan[m])
           time == Planner!CalculateTotalTime(run.time, executed)
<1>1. IsDryRun(run) /\ IsRunPlan(run, p.options, m, plan) /\ p.options \in Planner!Options
  BY PlansAreOfTheRun
<1>2. executed \in SUBSET run.tests /\ plan.netTime = time
  <2>1. Planner!TestsByMutant(run, m) \subseteq run.tests
    BY DEF Planner!TestsByMutant
  <2>2. CASE RunsCovering(run, m, plan)
    <3>1. executed = Planner!TestsByMutant(run, m)
      BY <2>2 DEF RunsCovering, Planner!Executed
    <3> QED BY <2>1, <2>2, <3>1 DEF RunsCovering
  <2>3. CASE RunsAll(run, m, plan)
    <3>1. executed = run.tests
      BY <2>3 DEF RunsAll, Planner!Executed
    <3> QED BY <2>3, <3>1 DEF RunsAll
  <2> QED BY <1>1, <2>2, <2>3 DEF IsRunPlan
<1>3. time \in Nat
  BY <1>1, <1>2, DryRunTimes
<1>4. p.options.timeoutFactor = 2 /\ p.options.timeoutMS = 5 /\ p.options.timeOverheadMS = 1
  BY <1>1 DEF Planner!Options
<1>5. plan.timeout = 2 * time + 5 + 1
  BY <1>1, <1>2, <1>4 DEF IsRunPlan
<1>6. ASSUME NEW limit \in plan.hitLimit, NEW c \in run.coverage
      PROVE  limit > HitSum(c, m, executed \cap DOMAIN c.perTest) + c.static[m]
  <2> DEFINE D == DOMAIN c.perTest
             f == [t \in D |-> c.perTest[t][m]]
             E == executed \cap D
  <2>1. run.coverage = {c} /\ c \in Planner!Coverages
    BY <1>1 DEF IsDryRun
  <2>2. PICK hits \in UNION {[known -> [Planned -> {0, 1}]] : known \in SUBSET (DryRunTests \cup OtherTests)},
             static \in [Planned -> {0, 1}] : c = [static |-> static, perTest |-> hits]
    BY <2>1 DEF Planner!Coverages
  <2>3. PICK known \in SUBSET (DryRunTests \cup OtherTests) : hits \in [known -> [Planned -> {0, 1}]]
    BY <2>2
  <2>4. D = known /\ c.static[m] \in {0, 1} /\ \A t \in D : f[t] = c.perTest[t][m] /\ f[t] \in Nat
    BY <2>2, <2>3
  <2>5. IsFiniteSet(D)
    <3>1. IsFiniteSet(DryRunTests \cup OtherTests)
      BY InputAssumption, FS_Union
    <3> QED BY <2>4, <3>1, FS_Subset
  <2>6. E \in SUBSET D /\ IsFiniteSet(E)
    BY <2>5, FS_Subset
  <2> HIDE DEF D, f, E
  <2>7. PICK n \in Planner!HitsByMutant(run, m) : limit = n * 100
    BY <1>1 DEF IsRunPlan
  <2>8. n = HitSum(c, m, D) + c.static[m] /\ n > 0
    <3>1. Planner!HitsByMutant(run, m) = {k \in {HitSum(b, m, DOMAIN b.perTest) + b.static[m] : b \in run.coverage} : k > 0}
      BY DEF Planner!HitsByMutant, HitSum, Planner!MapThenSumSet, Planner!MapThenFoldSet
    <3>2. {HitSum(b, m, DOMAIN b.perTest) + b.static[m] : b \in run.coverage} = {HitSum(c, m, D) + c.static[m]}
      BY <2>1 DEF D
    <3> HIDE DEF HitSum
    <3> QED BY <2>7, <3>1, <3>2
  <2>9. HitSum(c, m, D) = Total(f, D) /\ HitSum(c, m, E) = Total(f, E)
    <3>1. HitSum(c, m, D) = Total(f, D)
      BY <2>4, <2>5, HitSumIsTotal
    <3>2. HitSum(c, m, E) = Total(f, E)
      BY <2>4, <2>6, HitSumIsTotal
    <3> QED BY <3>1, <3>2
  <2>10. Total(f, D) \in Nat /\ Total(f, E) \in Nat /\ Total(f, D \ E) \in Nat /\ Total(f, D) = Total(f, E) + Total(f, D \ E)
    <3>1. \A t \in D : f[t] \in Nat
      BY <2>4
    <3> QED BY <2>5, <2>6, <3>1, TotalSplits
  <2> DEFINE all == Total(f, D)  some == Total(f, E)  rest == Total(f, D \ E)  loaded == c.static[m]
  <2>11. limit = (all + loaded) * 100 /\ all + loaded > 0 /\ all = some + rest
         /\ all \in Nat /\ some \in Nat /\ rest \in Nat /\ loaded \in {0, 1}
    BY <2>4, <2>7, <2>8, <2>9, <2>10
  <2> HIDE DEF all, some, rest, loaded
  <2>12. limit > some + loaded
    BY <2>11
  <2> QED BY <2>9, <2>12 DEF some, loaded, E, D
<1> HIDE DEF time
<1>7. plan.timeout >= p.options.timeOverheadMS + p.options.timeoutMS + time
  BY <1>3, <1>4, <1>5
<1> QED BY <1>6, <1>7 DEF time

LEMMA WarningSaves == PlannerInv => Planner!WarningIsAboutStatics
<1> SUFFICES ASSUME PlannerInv, NEW p \in plans, NEW run \in dryRun, Planner!WarnsAboutSlow(p.plan, p.options)
             PROVE  LET saved == {m \in Planned : p.plan[m].plan = "Run" /\ p.plan[m].static}
                    IN  /\ saved # {}
                        /\ 5 * Planner!TotalNetTime(p.plan, saved)
                             >= 2 * Planner!TotalNetTime(p.plan, {m \in Planned : p.plan[m].plan = "Run"})
  BY DEF Planner!WarningIsAboutStatics
<1> DEFINE runs    == {m \in Planned : p.plan[m].plan = "Run"}
           statics == {m \in runs : p.plan[m].static}
           f       == [m \in runs |-> p.plan[m].netTime]
<1>1. /\ IsDryRun(run) /\ DOMAIN p.plan = Planned
      /\ \A m \in runs : IsRunPlan(run, p.options, m, p.plan[m])
  BY PlansAreOfTheRun
<1>2. \A m \in runs : f[m] = p.plan[m].netTime /\ f[m] \in Nat
  <2> SUFFICES ASSUME NEW m \in runs PROVE p.plan[m].netTime \in Nat
    OBVIOUS
  <2>1. Planner!TestsByMutant(run, m) \in SUBSET run.tests /\ run.tests \in SUBSET run.tests
    BY DEF Planner!TestsByMutant
  <2>2. /\ Planner!CalculateTotalTime(run.time, Planner!TestsByMutant(run, m)) \in Nat
        /\ Planner!CalculateTotalTime(run.time, run.tests) \in Nat
    BY <1>1, <2>1, DryRunTimes
  <2> QED BY <1>1, <2>2 DEF IsRunPlan, RunsCovering, RunsAll
<1>3. IsFiniteSet(runs) /\ statics \in SUBSET runs
  BY InputAssumption, FS_Subset
<1>4. IsFiniteSet(statics) /\ IsFiniteSet(runs \ statics)
  BY <1>3, FS_Subset
<1> HIDE DEF f
<1>5. /\ Planner!TotalNetTime(p.plan, runs) = Total(f, runs)
      /\ Planner!TotalNetTime(p.plan, statics) = Total(f, statics)
      /\ Planner!TotalNetTime(p.plan, runs \ statics) = Total(f, runs \ statics)
  <2> HIDE DEF runs
  <2>1. Planner!TotalNetTime(p.plan, runs) = Total(f, runs)
    BY <1>2, <1>3, NetTimeIsTotal
  <2>2. Planner!TotalNetTime(p.plan, statics) = Total(f, statics)
    BY <1>2, <1>4, NetTimeIsTotal
  <2>3. Planner!TotalNetTime(p.plan, runs \ statics) = Total(f, runs \ statics)
    BY <1>2, <1>4, NetTimeIsTotal
  <2> QED BY <2>1, <2>2, <2>3
<1> DEFINE all == Total(f, runs)  forStatic == Total(f, statics)  forOthers == Total(f, runs \ statics)
<1>6. all = forStatic + forOthers /\ forStatic \in Nat /\ forOthers \in Nat
  BY <1>2, <1>3, TotalSplits
<1>7. /\ forStatic + forOthers > 0 /\ 10 * forStatic >= 4 * (forStatic + forOthers)
  BY <1>1, <1>5 DEF Planner!WarnsAboutSlow
<1>8. statics = {} => forStatic = 0
  BY EmptyTotal
<1> HIDE DEF all, forStatic, forOthers, runs, statics
<1>9. statics # {} /\ 5 * forStatic >= 2 * all
  BY <1>6, <1>7, <1>8
<1>10. /\ statics = {m \in Planned : p.plan[m].plan = "Run" /\ p.plan[m].static}
       /\ 5 * Planner!TotalNetTime(p.plan, statics) >= 2 * Planner!TotalNetTime(p.plan, runs)
  BY <1>5, <1>9 DEF all, forStatic, runs, statics
<1> QED BY <1>9, <1>10 DEF runs

\* mutant-test-planner.ts: a test that can kill a mutant is among those that are
\* run for it or all are, the limits on time and on hits leave room for what
\* the dry run measured, and the warning about slow mutants is given only when
\* the static ones are there and take two fifths of the time or more.
THEOREM PlanningPlansAreRight == Spec => []PlansAreRight
<1>1. Init => PlannerInv
  BY PlannerInit DEF Init
<1>2. PlannerInv /\ [Next]_vars => PlannerInv'
  BY PlannerInvStep, OnlyParts
<1>3. PlannerInv => PlansAreRight
  BY NoKillIsMissed, LimitsHaveRoom, WarningSaves DEF PlansAreRight
<1> QED BY <1>1, <1>2, <1>3, PTL DEF Spec

-----------------------------------------------------------------------------
(* FileDiff: positions in a text *)

Characters == {"c", "nl"}
Positions  == [line : Nat, column : Nat]
Start      == File!Pos(0, 0)

\* h[k] is the position after the first k characters of a text.
WalksOver(h, text) ==
  /\ h \in [0..Len(text) -> Positions] /\ h[0] = Start /\ h[Len(text)] = File!CalculateOffset(text)
  /\ \A k \in 0..(Len(text) - 1) : h[k + 1] = File!NextPosition(h[k], text[k + 1])

LEMMA NextIsPosition ==
  ASSUME NEW p \in Positions, NEW ch PROVE File!NextPosition(p, ch) \in Positions
BY DEF File!NextPosition, File!Pos, Positions

LEMMA NextFacts ==
  ASSUME NEW p \in Positions, NEW ch
  PROVE  LET q == File!NextPosition(p, ch)
         IN  /\ q # Start
             /\ ch = "nl" => q.line > 0 /\ q.column = 0
             /\ ch # "nl" => q.line = p.line
<1>1. p.line \in Nat /\ p.column \in Nat
  BY DEF Positions
<1>2. CASE ch = "nl"
  <2>1. File!NextPosition(p, ch).line = p.line + 1 /\ File!NextPosition(p, ch).column = 0
    BY <1>2 DEF File!NextPosition, File!Pos
  <2>2. Start.line = 0 /\ p.line + 1 > 0 /\ p.line + 1 # 0
    BY <1>1 DEF Start, File!Pos
  <2> QED BY <1>2, <2>1, <2>2
<1>3. CASE ch # "nl"
  <2>1. File!NextPosition(p, ch).line = p.line /\ File!NextPosition(p, ch).column = p.column + 1
    BY <1>3 DEF File!NextPosition, File!Pos
  <2>2. Start.column = 0 /\ p.column + 1 # 0
    BY <1>1 DEF Start, File!Pos
  <2> QED BY <1>3, <2>1, <2>2
<1> QED BY <1>2, <1>3

LEMMA OffsetSteps ==
  ASSUME NEW text \in Seq(Characters)
  PROVE  \E h : WalksOver(h, text)
<1> PICK n \in Nat : n = Len(text) /\ text \in [1..n -> Characters] /\ DOMAIN text = 1..n
  BY LenProperties
<1> DEFINE op == [p \in Positions \X Characters |-> File!NextPosition(p[1], p[2])]
           F(i, t) == IF t = {} THEN Start ELSE File!NextPosition(i[t \ {Greatest(t)}], text[Greatest(t)])
           iter == CHOOSE i : i = [t \in SUBSET (1..n) |-> F(i, t)]
           h == [k \in 0..n |-> iter[1..k]]
<1>1. Start \in Positions
  BY DEF Start, File!Pos, Positions
<1>2. File!CalculateOffset(text) = iter[1..n]
  BY DEF File!CalculateOffset, File!FoldLeft, File!MapThenFoldSet, File!Max, Greatest, Start
<1>3. \E i : i = [t \in SUBSET (1..n) |-> F(i, t)] /\ i \in [SUBSET (1..n) -> Positions]
  <2>1. op \in [Positions \X Characters -> Positions]
    BY NextIsPosition
  <2>2. \A a \in Positions, b \in Characters : op[<<a, b>>] = File!NextPosition(a, b)
    OBVIOUS
  <2> HIDE DEF op
  <2>3. PICK g : FoldsTo(g, n, text, op, Start, Positions)
    BY <1>1, <2>1, FoldExists
  <2>4. g \in [SUBSET (1..n) -> Positions] /\ g[{}] = Start
    BY <2>3 DEF FoldsTo
  <2>5. ASSUME NEW t \in SUBSET (1..n), t # {} PROVE g[t] = F(g, t)
    <3>1. g[t] = op[<<g[t \ {Greatest(t)}], text[Greatest(t)]>>]
      BY <2>3, <2>5 DEF FoldsTo
    <3>2. Greatest(t) \in 1..n /\ t \ {Greatest(t)} \in SUBSET (1..n)
      BY <2>5, GreatestIndex
    <3>3. g[t \ {Greatest(t)}] \in Positions /\ text[Greatest(t)] \in Characters
      BY <2>4, <3>2
    <3> QED BY <2>2, <2>5, <3>1, <3>3
  <2>6. \A t \in SUBSET (1..n) : g[t] = F(g, t)
    BY <2>4, <2>5
  <2>7. g = [t \in SUBSET (1..n) |-> F(g, t)]
    BY <2>4, <2>6
  <2> QED BY <2>4, <2>7
<1>4. iter = [t \in SUBSET (1..n) |-> F(iter, t)]
  BY <1>3
<1> HIDE DEF iter
<1>5. h[0] = Start /\ h[n] = File!CalculateOffset(text)
  <2>1. 1..0 = {} /\ 1..0 \in SUBSET (1..n) /\ 0 \in 0..n /\ n \in 0..n
    OBVIOUS
  <2>2. iter[1..0] = Start
    BY <1>4, <2>1
  <2> QED BY <1>2, <2>1, <2>2
<1>6. ASSUME NEW k \in 0..(n - 1) PROVE h[k + 1] = File!NextPosition(h[k], text[k + 1])
  <2>1. /\ 1..(k + 1) \in SUBSET (1..n) /\ 1..(k + 1) # {}
        /\ Greatest(1..(k + 1)) = k + 1 /\ (1..(k + 1)) \ {k + 1} = 1..k
    BY FirstIndices
  <2>2. iter[1..(k + 1)] = File!NextPosition(iter[1..k], text[k + 1])
    <3>1. iter[1..(k + 1)] = F(iter, 1..(k + 1))
      BY <1>4, <2>1
    <3> QED BY <2>1, <3>1
  <2>3. k \in 0..n /\ k + 1 \in 0..n
    OBVIOUS
  <2> QED BY <2>2, <2>3
<1>7. \A k \in 0..n : h[k] \in Positions
  <2> DEFINE T == {k \in 0..n : h[k] \in Positions}
  <2> HIDE DEF h
  <2>1. 0 \in T
    BY <1>1, <1>5
  <2>2. \A k \in 0..(n - 1) : k \in T => k + 1 \in T
    BY <1>6, NextIsPosition
  <2>3. \A k \in 0..n : k \in T
    <3> HIDE DEF T
    <3> QED BY <2>1, <2>2, BoundedInduction
  <2> QED BY <2>3
<1>8. h \in [0..n -> Positions]
  BY <1>7
<1> HIDE DEF h
<1> QED BY <1>5, <1>6, <1>8 DEF WalksOver

LEMMA MoveIsPosition ==
  ASSUME NEW p \in Positions, NEW d \in Positions
  PROVE  /\ File!PositionMove(p, d) \in Positions
         /\ File!PositionMove(p, Start) = p /\ File!PositionMove(Start, p) = p
BY DEF File!PositionMove, File!Pos, Positions, Start

LEMMA MoveNext ==
  ASSUME NEW p \in Positions, NEW d \in Positions, NEW ch
  PROVE  File!NextPosition(File!PositionMove(p, d), ch) = File!PositionMove(p, File!NextPosition(d, ch))
BY DEF File!PositionMove, File!NextPosition, File!Pos, Positions

\* The offset of two texts one after the other.
LEMMA OffsetOfBoth ==
  ASSUME NEW a \in Seq(Characters), NEW b \in Seq(Characters)
  PROVE  File!CalculateOffset(a \o b) = File!PositionMove(File!CalculateOffset(a), File!CalculateOffset(b))
<1> PICK both : both = a \o b
  OBVIOUS
<1> PICK m \in Nat, n \in Nat : m = Len(a) /\ n = Len(b)
  BY LenProperties
<1>1. both \in Seq(Characters) /\ Len(both) = m + n
      /\ \A i \in 1..(m + n) : both[i] = IF i <= m THEN a[i] ELSE b[i - m]
  BY JoinFacts
<1>2. PICK f, g, h : WalksOver(f, a) /\ WalksOver(g, b) /\ WalksOver(h, both)
  BY <1>1, OffsetSteps
<1>3. \A k \in 0..m : h[k] = f[k]
  <2> DEFINE T == {k \in 0..m : h[k] = f[k]}
  <2>1. 0 \in T
    BY <1>2 DEF WalksOver
  <2>2. \A k \in 0..(m - 1) : k \in T => k + 1 \in T
    <3> SUFFICES ASSUME NEW k \in 0..(m - 1), k \in T PROVE k + 1 \in T
      OBVIOUS
    <3>1. k \in 0..(m + n - 1) /\ k + 1 \in 1..(m + n) /\ k + 1 <= m /\ k + 1 \in 0..m
      OBVIOUS
    <3>2. both[k + 1] = a[k + 1]
      BY <1>1, <3>1
    <3>3. h[k + 1] = File!NextPosition(h[k], both[k + 1]) /\ f[k + 1] = File!NextPosition(f[k], a[k + 1])
      BY <1>1, <1>2, <3>1 DEF WalksOver
    <3> QED BY <3>1, <3>2, <3>3
  <2>3. \A k \in 0..m : k \in T
    <3> HIDE DEF T
    <3> QED BY <2>1, <2>2, BoundedInduction
  <2> QED BY <2>3
<1>4. f[m] \in Positions /\ \A k \in 0..n : g[k] \in Positions
  BY <1>2 DEF WalksOver
<1>5. \A k \in 0..n : h[m + k] = File!PositionMove(f[m], g[k])
  <2> DEFINE T == {k \in 0..n : h[m + k] = File!PositionMove(f[m], g[k])}
  <2>1. 0 \in T
    <3>1. h[m] = f[m] /\ g[0] = Start /\ m + 0 = m
      BY <1>2, <1>3 DEF WalksOver
    <3> QED BY <1>4, <3>1, MoveIsPosition
  <2>2. \A k \in 0..(n - 1) : k \in T => k + 1 \in T
    <3> SUFFICES ASSUME NEW k \in 0..(n - 1), k \in T PROVE k + 1 \in T
      OBVIOUS
    <3>1. /\ m + k \in 0..(m + n - 1) /\ m + k + 1 \in 1..(m + n) /\ ~(m + k + 1 <= m) /\ k + 1 \in 0..n /\ k \in 0..n
          /\ m + k + 1 - m = k + 1 /\ m + (k + 1) = m + k + 1
      OBVIOUS
    <3>2. both[m + k + 1] = b[k + 1]
      BY <1>1, <3>1
    <3>3. h[m + k + 1] = File!NextPosition(h[m + k], b[k + 1]) /\ g[k + 1] = File!NextPosition(g[k], b[k + 1])
      BY <1>1, <1>2, <3>1, <3>2 DEF WalksOver
    <3>4. h[m + k + 1] = File!PositionMove(f[m], g[k + 1])
      <4>1. f[m] \in Positions /\ g[k] \in Positions /\ h[m + k] = File!PositionMove(f[m], g[k])
        BY <1>4, <3>1
      <4>2. File!NextPosition(File!PositionMove(f[m], g[k]), b[k + 1])
              = File!PositionMove(f[m], File!NextPosition(g[k], b[k + 1]))
        BY <4>1, MoveNext
      <4> QED BY <3>3, <4>1, <4>2
    <3> QED BY <3>1, <3>4
  <2>3. \A k \in 0..n : k \in T
    <3> HIDE DEF T
    <3> QED BY <2>1, <2>2, BoundedInduction
  <2> QED BY <2>3
<1>6. h[m + n] = File!PositionMove(f[m], g[n])
  BY <1>5
<1> QED BY <1>1, <1>2, <1>6 DEF WalksOver

\* What the offset of a text says of it.
LEMMA OffsetFacts ==
  ASSUME NEW text \in Seq(Characters)
  PROVE  /\ File!CalculateOffset(text) \in Positions
         /\ text = << >> => File!CalculateOffset(text) = Start
         /\ text # << >> => File!CalculateOffset(text) # Start
         /\ text # << >> /\ text[Len(text)] = "nl" =>
              File!CalculateOffset(text).line > 0 /\ File!CalculateOffset(text).column = 0
         /\ (\A i \in 1..Len(text) : text[i] # "nl") => File!CalculateOffset(text).line = 0
<1> PICK n \in Nat : n = Len(text) /\ (text = << >> <=> n = 0)
  BY LenProperties, EmptySeq
<1>1. PICK h : WalksOver(h, text)
  BY OffsetSteps
<1>2. h[n] = File!CalculateOffset(text) /\ h[0] = Start /\ \A k \in 0..n : h[k] \in Positions
  BY <1>1 DEF WalksOver
<1>3. \A k \in 0..(n - 1) : h[k + 1] = File!NextPosition(h[k], text[k + 1])
  BY <1>1 DEF WalksOver
<1>4. \A k \in 0..(n - 1) : /\ h[k + 1] # Start
                            /\ text[k + 1] = "nl" => h[k + 1].line > 0 /\ h[k + 1].column = 0
                            /\ text[k + 1] # "nl" => h[k + 1].line = h[k].line
  <2> SUFFICES ASSUME NEW k \in 0..(n - 1)
               PROVE  /\ h[k + 1] # Start
                      /\ text[k + 1] = "nl" => h[k + 1].line > 0 /\ h[k + 1].column = 0
                      /\ text[k + 1] # "nl" => h[k + 1].line = h[k].line
    OBVIOUS
  <2>1. k \in 0..n
    OBVIOUS
  <2>2. h[k] \in Positions /\ h[k + 1] = File!NextPosition(h[k], text[k + 1])
    BY <1>2, <1>3, <2>1
  <2> QED BY <2>2, NextFacts
<1>5. n # 0 => n - 1 \in 0..(n - 1) /\ (n - 1) + 1 = n
  OBVIOUS
<1>6. ASSUME \A i \in 1..n : text[i] # "nl" PROVE h[n].line = 0
  <2> DEFINE T == {k \in 0..n : h[k].line = 0}
  <2>1. 0 \in T
    BY <1>2 DEF Start, File!Pos
  <2>2. \A k \in 0..(n - 1) : k \in T => k + 1 \in T
    BY <1>4, <1>6
  <2>3. \A k \in 0..n : k \in T
    <3> HIDE DEF T
    <3> QED BY <2>1, <2>2, BoundedInduction
  <2> QED BY <2>3
<1>7. n \in 0..n
  OBVIOUS
<1> QED BY <1>2, <1>4, <1>5, <1>6, <1>7

-----------------------------------------------------------------------------
(* FileDiff: positions that move *)

LEMMA GteFacts ==
  /\ \A a, b \in Positions : File!Gte(a, b) \/ File!Gte(b, a)
  /\ \A a, b \in Positions : File!Gte(a, b) /\ File!Gte(b, a) => a = b
  /\ \A a, b, c \in Positions : File!Gte(a, b) /\ File!Gte(b, c) => File!Gte(a, c)
<1>1. ASSUME NEW a \in Positions, NEW b \in Positions, File!Gte(a, b), File!Gte(b, a) PROVE a = b
  <2>1. a.line = b.line /\ a.column = b.column
    BY <1>1 DEF File!Gte, Positions
  <2> QED BY <2>1 DEF Positions
<1>2. ASSUME NEW a \in Positions, NEW b \in Positions PROVE File!Gte(a, b) \/ File!Gte(b, a)
  BY DEF File!Gte, Positions
<1>3. ASSUME NEW a \in Positions, NEW b \in Positions, NEW c \in Positions, File!Gte(a, b), File!Gte(b, c)
      PROVE  File!Gte(a, c)
  BY <1>3 DEF File!Gte, Positions
<1> QED BY <1>1, <1>2, <1>3

LEMMA MoveAssociates ==
  ASSUME NEW a \in Positions, NEW b \in Positions, NEW c \in Positions
  PROVE  File!PositionMove(File!PositionMove(a, b), c) = File!PositionMove(a, File!PositionMove(b, c))
BY DEF File!PositionMove, File!Pos, Positions

LEMMA MoveIsLater ==
  ASSUME NEW p \in Positions, NEW d \in Positions
  PROVE  /\ File!Gte(File!PositionMove(p, d), p)
         /\ d # Start => ~File!Gte(p, File!PositionMove(p, d))
<1>1. d.line \in Nat /\ d.column \in Nat /\ p.line \in Nat /\ p.column \in Nat /\ d = [line |-> d.line, column |-> d.column]
  BY DEF Positions
<1>2. d # Start => d.line # 0 \/ d.column # 0
  BY <1>1 DEF Start, File!Pos
<1>3. /\ File!PositionMove(p, d).line = p.line + d.line
      /\ File!PositionMove(p, d).column = IF d.line = 0 THEN p.column + d.column ELSE d.column
  BY DEF File!PositionMove, File!Pos
<1> QED BY <1>1, <1>2, <1>3 DEF File!Gte

\* An item that starts gap behind the change at `at' and is body long, when text
\* of the offset d is added there.
Between(at, gap, body) ==
  [start |-> File!PositionMove(at, gap), end |-> File!PositionMove(at, File!PositionMove(gap, body))]

\* Either all is within lines, or whole lines come and go.
Aligned(at, d, body) == (d.line = 0 /\ body.line = 0) \/ (at.column = 0 /\ d.column = 0 /\ d.line > 0)

LEMMA AddedMoves ==
  ASSUME NEW at \in Positions, NEW gap \in Positions, NEW body \in Positions, NEW d \in Positions, Aligned(at, d, body)
  PROVE  File!LocationAdd(Between(at, gap, body), d, at.line = Between(at, gap, body).start.line)
           = Between(File!PositionMove(at, d), gap, body)
<1> PICK al \in Nat, ac \in Nat, gl \in Nat, gc \in Nat, bl \in Nat, bc \in Nat, dl \in Nat, dc \in Nat :
      at = File!Pos(al, ac) /\ gap = File!Pos(gl, gc) /\ body = File!Pos(bl, bc) /\ d = File!Pos(dl, dc)
  BY DEF Positions, File!Pos
<1>1. (dl = 0 /\ bl = 0) \/ (ac = 0 /\ dc = 0 /\ dl > 0)
  BY DEF Aligned, File!Pos
<1>2. /\ Between(at, gap, body).start = File!PositionMove(at, gap)
      /\ Between(at, gap, body).end = File!PositionMove(at, File!PositionMove(gap, body))
  BY DEF Between
<1>3. File!PositionMove(at, gap) = File!Pos(al + gl, IF gl = 0 THEN ac + gc ELSE gc)
  BY DEF File!PositionMove, File!Pos
<1>4. File!PositionMove(gap, body) = File!Pos(gl + bl, IF bl = 0 THEN gc + bc ELSE bc)
  BY DEF File!PositionMove, File!Pos
<1>5. File!PositionMove(at, File!PositionMove(gap, body))
        = File!Pos(al + (gl + bl), IF gl + bl = 0 THEN ac + (IF bl = 0 THEN gc + bc ELSE bc) ELSE (IF bl = 0 THEN gc + bc ELSE bc))
  BY <1>4 DEF File!PositionMove, File!Pos
<1>6. File!PositionMove(at, d) = File!Pos(al + dl, IF dl = 0 THEN ac + dc ELSE dc)
  BY DEF File!PositionMove, File!Pos
<1>7. Between(File!PositionMove(at, d), gap, body)
        = [start |-> File!Pos(al + dl + gl, IF gl = 0 THEN (IF dl = 0 THEN ac + dc ELSE dc) + gc ELSE gc),
           end |-> File!Pos(al + dl + (gl + bl),
                            IF gl + bl = 0 THEN (IF dl = 0 THEN ac + dc ELSE dc) + (IF bl = 0 THEN gc + bc ELSE bc)
                            ELSE (IF bl = 0 THEN gc + bc ELSE bc))]
  BY <1>4, <1>6 DEF Between, File!PositionMove, File!Pos
<1>8. File!LocationAdd(Between(at, gap, body), d, at.line = Between(at, gap, body).start.line)
        = [start |-> File!Pos(al + gl + dl, (IF gl = 0 THEN ac + gc ELSE gc) + IF al = al + gl THEN dc ELSE 0),
           end |-> File!Pos(al + (gl + bl) + dl,
                            (IF gl + bl = 0 THEN ac + (IF bl = 0 THEN gc + bc ELSE bc) ELSE (IF bl = 0 THEN gc + bc ELSE bc))
                            + IF dl = 0 /\ al = al + gl THEN dc ELSE 0)]
  BY <1>2, <1>3, <1>5 DEF File!LocationAdd, File!Pos
<1>9. al + gl + dl = al + dl + gl /\ al + (gl + bl) + dl = al + dl + (gl + bl)
  OBVIOUS
<1>10. (IF gl = 0 THEN ac + gc ELSE gc) + (IF al = al + gl THEN dc ELSE 0)
         = (IF gl = 0 THEN (IF dl = 0 THEN ac + dc ELSE dc) + gc ELSE gc)
  BY <1>1
<1>11. (IF gl + bl = 0 THEN ac + (IF bl = 0 THEN gc + bc ELSE bc) ELSE (IF bl = 0 THEN gc + bc ELSE bc))
         + (IF dl = 0 /\ al = al + gl THEN dc ELSE 0)
         = IF gl + bl = 0 THEN (IF dl = 0 THEN ac + dc ELSE dc) + (IF bl = 0 THEN gc + bc ELSE bc)
           ELSE (IF bl = 0 THEN gc + bc ELSE bc)
  BY <1>1
<1> QED BY <1>7, <1>8, <1>9, <1>10, <1>11

\* The same when what is in front of the rest of the gap is removed.
LEMMA RemovedMoves ==
  ASSUME NEW at \in Positions, NEW rest \in Positions, NEW body \in Positions, NEW d \in Positions, Aligned(at, d, body)
  PROVE  LET loc == Between(at, File!PositionMove(d, rest), body)
         IN  File!LocationAdd(loc, File!Negate(d), at.line = loc.start.line) = Between(at, rest, body)
<1> DEFINE gap == File!PositionMove(d, rest)
<1> PICK al \in Nat, ac \in Nat, rl \in Nat, rc \in Nat, bl \in Nat, bc \in Nat, dl \in Nat, dc \in Nat :
      at = File!Pos(al, ac) /\ rest = File!Pos(rl, rc) /\ body = File!Pos(bl, bc) /\ d = File!Pos(dl, dc)
  BY DEF Positions, File!Pos
<1>1. (dl = 0 /\ bl = 0) \/ (ac = 0 /\ dc = 0 /\ dl > 0)
  BY DEF Aligned, File!Pos
<1> PICK gl \in Nat, gc \in Nat : gl = dl + rl /\ gc = IF rl = 0 THEN dc + rc ELSE rc
  OBVIOUS
<1>0. gap = File!Pos(gl, gc)
  BY DEF File!PositionMove, File!Pos
<1> HIDE DEF gap
<1>2. /\ Between(at, gap, body).start = File!PositionMove(at, gap)
      /\ Between(at, gap, body).end = File!PositionMove(at, File!PositionMove(gap, body))
  BY DEF Between
<1>3. File!PositionMove(at, gap) = File!Pos(al + gl, IF gl = 0 THEN ac + gc ELSE gc)
  BY <1>0 DEF File!PositionMove, File!Pos
<1>4. File!PositionMove(gap, body) = File!Pos(gl + bl, IF bl = 0 THEN gc + bc ELSE bc)
  BY <1>0 DEF File!PositionMove, File!Pos
<1>5. File!PositionMove(at, File!PositionMove(gap, body))
        = File!Pos(al + (gl + bl), IF gl + bl = 0 THEN ac + (IF bl = 0 THEN gc + bc ELSE bc) ELSE (IF bl = 0 THEN gc + bc ELSE bc))
  BY <1>4 DEF File!PositionMove, File!Pos
<1>6. File!PositionMove(rest, body) = File!Pos(rl + bl, IF bl = 0 THEN rc + bc ELSE bc)
  BY DEF File!PositionMove, File!Pos
<1>7. Between(at, rest, body)
        = [start |-> File!Pos(al + rl, IF rl = 0 THEN ac + rc ELSE rc),
           end |-> File!Pos(al + (rl + bl), IF rl + bl = 0 THEN ac + (IF bl = 0 THEN rc + bc ELSE bc)
                                             ELSE (IF bl = 0 THEN rc + bc ELSE bc))]
  BY <1>6 DEF Between, File!PositionMove, File!Pos
<1>8. File!LocationAdd(Between(at, gap, body), File!Negate(d), at.line = Between(at, gap, body).start.line)
        = [start |-> File!Pos(al + gl + (-dl), (IF gl = 0 THEN ac + gc ELSE gc) + IF al = al + gl THEN -dc ELSE 0),
           end |-> File!Pos(al + (gl + bl) + (-dl),
                            (IF gl + bl = 0 THEN ac + (IF bl = 0 THEN gc + bc ELSE bc) ELSE (IF bl = 0 THEN gc + bc ELSE bc))
                            + IF -dl = 0 /\ al = al + gl THEN -dc ELSE 0)]
  BY <1>2, <1>3, <1>5 DEF File!LocationAdd, File!Pos, File!Negate
<1>9. al + gl + (-dl) = al + rl /\ al + (gl + bl) + (-dl) = al + (rl + bl)
  OBVIOUS
<1>10. (IF gl = 0 THEN ac + gc ELSE gc) + (IF al = al + gl THEN -dc ELSE 0) = IF rl = 0 THEN ac + rc ELSE rc
  BY <1>1
<1>11. (IF gl + bl = 0 THEN ac + (IF bl = 0 THEN gc + bc ELSE bc) ELSE (IF bl = 0 THEN gc + bc ELSE bc))
         + (IF -dl = 0 /\ al = al + gl THEN -dc ELSE 0)
         = IF rl + bl = 0 THEN ac + (IF bl = 0 THEN rc + bc ELSE bc) ELSE (IF bl = 0 THEN rc + bc ELSE bc)
  BY <1>1
<1>12. File!LocationAdd(Between(at, gap, body), File!Negate(d), at.line = Between(at, gap, body).start.line) = Between(at, rest, body)
  BY <1>7, <1>8, <1>9, <1>10, <1>11
<1> QED BY <1>12 DEF gap

-----------------------------------------------------------------------------
(* FileDiff: parts of a text *)

\* The characters from i + 1 to j, and what they add to a position.
Part(text, i, j)     == SubSeq(text, i + 1, j)
Distance(text, i, j) == File!CalculateOffset(Part(text, i, j))

LEMMA PartFacts ==
  ASSUME NEW S, NEW text \in Seq(S), NEW i \in Nat, NEW j \in Nat, i <= j, j <= Len(text)
  PROVE  /\ Part(text, i, j) \in Seq(S) /\ Len(Part(text, i, j)) = j - i
         /\ \A k \in 1..(j - i) : Part(text, i, j)[k] = text[i + k]
<1> PICK n \in Nat : n = Len(text) /\ \A k \in 1..n : text[k] \in S
  BY LenProperties
<1>1. i + 1 \in Int /\ j \in Int /\ \A k \in (i + 1)..j : text[k] \in S
  <2>1. \A k \in (i + 1)..j : k \in 1..n
    OBVIOUS
  <2> QED BY <2>1
<1>2. /\ SubSeq(text, i + 1, j) \in Seq(S)
      /\ Len(SubSeq(text, i + 1, j)) = IF i + 1 <= j THEN j - (i + 1) + 1 ELSE 0
      /\ \A k \in 1..(j - (i + 1) + 1) : SubSeq(text, i + 1, j)[k] = text[i + 1 + k - 1]
  BY <1>1, SubSeqProperties
<1>3. j - (i + 1) + 1 = j - i /\ (IF i + 1 <= j THEN j - (i + 1) + 1 ELSE 0) = j - i
  OBVIOUS
<1>4. \A k \in 1..(j - i) : i + 1 + k - 1 = i + k
  OBVIOUS
<1> QED BY <1>2, <1>3, <1>4 DEF Part

LEMMA PartOfText ==
  ASSUME NEW text \in Seq(Characters), NEW i \in Nat, NEW j \in Nat, i <= j, j <= Len(text)
  PROVE  /\ Part(text, i, j) \in Seq(Characters) /\ Len(Part(text, i, j)) = j - i
         /\ \A k \in 1..(j - i) : Part(text, i, j)[k] = text[i + k]
BY PartFacts, Zenon

LEMMA PartsJoin ==
  ASSUME NEW S, NEW text \in Seq(S), NEW i \in Nat, NEW j \in Nat, NEW k \in Nat, i <= j, j <= k, k <= Len(text)
  PROVE  Part(text, i, k) = Part(text, i, j) \o Part(text, j, k)
<1> PICK n \in Nat : n = Len(text)
  BY LenProperties
<1> PICK a, b, c : a = Part(text, i, j) /\ b = Part(text, j, k) /\ c = Part(text, i, k)
  OBVIOUS
<1>1. a \in Seq(S) /\ Len(a) = j - i /\ \A x \in 1..(j - i) : a[x] = text[i + x]
  <2>1. j <= Len(text)
    OBVIOUS
  <2>2. /\ Part(text, i, j) \in Seq(S) /\ Len(Part(text, i, j)) = j - i
        /\ \A x \in 1..(j - i) : Part(text, i, j)[x] = text[i + x]
    BY <2>1, PartFacts, Zenon
  <2> QED BY <2>2
<1>2. b \in Seq(S) /\ Len(b) = k - j /\ \A x \in 1..(k - j) : b[x] = text[j + x]
  <2>1. /\ Part(text, j, k) \in Seq(S) /\ Len(Part(text, j, k)) = k - j
        /\ \A x \in 1..(k - j) : Part(text, j, k)[x] = text[j + x]
    BY PartFacts, Zenon
  <2> QED BY <2>1
<1>3. c \in Seq(S) /\ Len(c) = k - i /\ \A x \in 1..(k - i) : c[x] = text[i + x]
  <2>1. i <= k
    OBVIOUS
  <2>2. /\ Part(text, i, k) \in Seq(S) /\ Len(Part(text, i, k)) = k - i
        /\ \A x \in 1..(k - i) : Part(text, i, k)[x] = text[i + x]
    BY <2>1, PartFacts, Zenon
  <2> QED BY <2>2
<1>4. PICK d : d = a \o b
  OBVIOUS
<1>5. /\ d \in Seq(S) /\ Len(d) = (j - i) + (k - j)
      /\ \A x \in 1..((j - i) + (k - j)) : d[x] = IF x <= j - i THEN a[x] ELSE b[x - (j - i)]
  <2>1. /\ a \o b \in Seq(S) /\ Len(a \o b) = Len(a) + Len(b)
        /\ \A x \in 1..(Len(a) + Len(b)) : (a \o b)[x] = IF x <= Len(a) THEN a[x] ELSE b[x - Len(a)]
    BY <1>1, <1>2, JoinFacts
  <2> QED BY <1>1, <1>2, <1>4, <2>1
<1>6. (j - i) + (k - j) = k - i
  OBVIOUS
<1>7. \A x \in 1..(k - i) : c[x] = d[x]
  <2> SUFFICES ASSUME NEW x \in 1..(k - i) PROVE c[x] = d[x]
    OBVIOUS
  <2>1. CASE x <= j - i
    <3>1. x \in 1..(j - i)
      BY <2>1
    <3> QED BY <1>1, <1>3, <1>5, <1>6, <2>1, <3>1
  <2>2. CASE ~(x <= j - i)
    <3>1. x - (j - i) \in 1..(k - j) /\ j + (x - (j - i)) = i + x
      BY <2>2
    <3>2. b[x - (j - i)] = text[i + x]
      BY <1>2, <3>1
    <3> QED BY <1>3, <1>5, <1>6, <2>2, <3>2
  <2> QED BY <2>1, <2>2
<1>8. c = d
  BY <1>3, <1>5, <1>6, <1>7, SeqEqual
<1> QED BY <1>4, <1>8

\* What is left of a text from c on, when it is consumed up to d.
LEMMA PartsOfRest ==
  ASSUME NEW S, NEW text \in Seq(S), NEW c \in Nat, NEW d \in Nat, c <= d, d <= Len(text)
  PROVE  LET rest == Part(text, c, Len(text))
         IN  /\ SubSeq(rest, 1, d - c) = Part(text, c, d)
             /\ SubSeq(rest, d - c + 1, Len(rest)) = Part(text, d, Len(text))
<1>0. PICK m \in Nat : m = Len(text) /\ d <= m
  BY LenProperties
<1>n. PICK n \in Nat : n = d - c
  OBVIOUS
<1>r. PICK rest : rest = Part(text, c, m)
  OBVIOUS
<1>1. rest \in Seq(S) /\ Len(rest) = m - c /\ \A k \in 1..(m - c) : rest[k] = text[c + k]
  <2>1. m \in Nat /\ c <= m /\ m <= Len(text)
    BY <1>0
  <2>2. /\ Part(text, c, m) \in Seq(S) /\ Len(Part(text, c, m)) = m - c
        /\ \A x \in 1..(m - c) : Part(text, c, m)[x] = text[c + x]
    BY <2>1, PartFacts, Zenon
  <2> QED BY <1>r, <2>2
<1>2. PICK a : a = SubSeq(rest, 1, n)
  OBVIOUS
<1>3. a \in Seq(S) /\ Len(a) = n /\ \A k \in 1..n : a[k] = rest[k]
  <2>1. n \in 0..Len(rest)
    BY <1>0, <1>n, <1>1
  <2>2. /\ SubSeq(rest, 1, n) \in Seq(S) /\ Len(SubSeq(rest, 1, n)) = n
        /\ \A i \in 1..n : SubSeq(rest, 1, n)[i] = rest[i]
    BY <1>1, <2>1, FirstElements, Zenon
  <2> QED BY <1>2, <2>2
<1>4. PICK size \in Nat : size = Len(rest) /\ size = m - c
  <2>1. m - c \in Nat
    BY <1>0
  <2> QED BY <1>1, <2>1
<1>b. PICK b : b = Part(rest, n, size)
  OBVIOUS
<1>5. b \in Seq(S) /\ Len(b) = size - n /\ \A k \in 1..(size - n) : b[k] = rest[n + k]
  <2>1. n \in Nat /\ size \in Nat /\ n <= size /\ size <= Len(rest)
    BY <1>0, <1>n, <1>4
  <2>2. /\ Part(rest, n, size) \in Seq(S) /\ Len(Part(rest, n, size)) = size - n
        /\ \A x \in 1..(size - n) : Part(rest, n, size)[x] = rest[n + x]
    <3>1. rest \in Seq(S)
      BY <1>1
    <3> QED BY <2>1, <3>1, PartFacts, Zenon
  <2> QED BY <1>b, <2>2
<1>6. PICK x, y : x = Part(text, c, d) /\ y = Part(text, d, m)
  OBVIOUS
<1>7. x \in Seq(S) /\ Len(x) = n /\ \A k \in 1..n : x[k] = text[c + k]
  <2>1. /\ Part(text, c, d) \in Seq(S) /\ Len(Part(text, c, d)) = d - c
        /\ \A k \in 1..(d - c) : Part(text, c, d)[k] = text[c + k]
    BY PartFacts, Zenon
  <2> QED BY <1>n, <1>6, <2>1
<1>8. y \in Seq(S) /\ Len(y) = m - d /\ \A k \in 1..(m - d) : y[k] = text[d + k]
  <2>1. m \in Nat /\ d <= m /\ m <= Len(text)
    BY <1>0
  <2>2. /\ Part(text, d, m) \in Seq(S) /\ Len(Part(text, d, m)) = m - d
        /\ \A k \in 1..(m - d) : Part(text, d, m)[k] = text[d + k]
    BY <2>1, PartFacts, Zenon
  <2> QED BY <1>6, <2>2
<1>9. a = x
  <2>1. \A k \in 1..n : a[k] = x[k]
    <3> SUFFICES ASSUME NEW k \in 1..n PROVE a[k] = x[k]
      OBVIOUS
    <3>1. k \in 1..(m - c)
      BY <1>0, <1>n
    <3> QED BY <1>1, <1>3, <1>7, <3>1
  <2> QED BY <1>3, <1>7, <2>1, SeqEqual
<1>10. b = y
  <2>1. size - n = m - d
    BY <1>0, <1>n, <1>4
  <2>2. \A k \in 1..(m - d) : b[k] = y[k]
    <3> SUFFICES ASSUME NEW k \in 1..(m - d) PROVE b[k] = y[k]
      OBVIOUS
    <3>1. n + k \in 1..(m - c) /\ c + (n + k) = d + k
      BY <1>0, <1>n
    <3>2. b[k] = text[d + k]
      BY <1>1, <1>5, <2>1, <3>1
    <3> QED BY <1>8, <3>2
  <2> QED BY <1>5, <1>8, <2>1, <2>2, SeqEqual
<1>11. b = SubSeq(rest, n + 1, Len(rest))
  BY <1>4, <1>b DEF Part
<1> QED BY <1>0, <1>n, <1>r, <1>2, <1>6, <1>9, <1>10, <1>11

\* The start of a text to which another one is added.
LEMMA StartOfBoth ==
  ASSUME NEW S, NEW a \in Seq(S), NEW b \in Seq(S)
  PROVE  /\ \A k \in 0..Len(a) : SubSeq(a \o b, 1, k) = SubSeq(a, 1, k)
         /\ \A k \in 0..Len(b) : SubSeq(a \o b, 1, Len(a) + k) = a \o SubSeq(b, 1, k)
<1> PICK both : both = a \o b
  OBVIOUS
<1> PICK m \in Nat, n \in Nat : m = Len(a) /\ n = Len(b)
  BY LenProperties
<1>1. both \in Seq(S) /\ Len(both) = m + n /\ \A i \in 1..(m + n) : both[i] = IF i <= m THEN a[i] ELSE b[i - m]
  BY JoinFacts
<1>2. ASSUME NEW k \in 0..m PROVE SubSeq(both, 1, k) = SubSeq(a, 1, k)
  <2>1. k \in Nat /\ k <= Len(both) /\ k <= Len(a)
    BY <1>1
  <2>2. \A i \in 1..k : both[i] = a[i]
    BY <1>1
  <2> QED BY <1>1, <2>1, <2>2, SameStart
<1>3. ASSUME NEW k \in 0..n PROVE SubSeq(both, 1, m + k) = a \o SubSeq(b, 1, k)
  <2>1. PICK x, y, z : x = SubSeq(both, 1, m + k) /\ y = SubSeq(b, 1, k) /\ z = a \o y
    OBVIOUS
  <2>2. x \in Seq(S) /\ Len(x) = m + k /\ \A i \in 1..(m + k) : x[i] = both[i]
    <3>1. m + k \in 0..Len(both)
      BY <1>1
    <3> QED BY <1>1, <2>1, <3>1, FirstElements
  <2>3. y \in Seq(S) /\ Len(y) = k /\ \A i \in 1..k : y[i] = b[i]
    BY <2>1, FirstElements
  <2>4. z \in Seq(S) /\ Len(z) = m + k /\ \A i \in 1..(m + k) : z[i] = IF i <= m THEN a[i] ELSE y[i - m]
    BY <2>1, <2>3, JoinFacts
  <2>5. \A i \in 1..(m + k) : x[i] = z[i]
    <3> SUFFICES ASSUME NEW i \in 1..(m + k) PROVE x[i] = z[i]
      OBVIOUS
    <3>1. i \in 1..(m + n) /\ (i <= m \/ i - m \in 1..k)
      OBVIOUS
    <3> QED BY <1>1, <2>2, <2>3, <2>4, <3>1
  <2> QED BY <2>1, <2>2, <2>4, <2>5, SeqEqual
<1> QED BY <1>2, <1>3

LEMMA DistanceFacts ==
  ASSUME NEW text \in Seq(Characters), NEW i \in Nat, NEW j \in Nat, i <= j, j <= Len(text)
  PROVE  /\ Distance(text, i, j) \in Positions
         /\ i = j => Distance(text, i, j) = Start
         /\ i < j => Distance(text, i, j) # Start
<1>1. PICK p : p = Part(text, i, j)
  OBVIOUS
<1>2. p \in Seq(Characters) /\ Len(p) = j - i
  BY <1>1, PartFacts
<1>3. p = << >> <=> i = j
  <2>1. p = << >> <=> Len(p) = 0
    BY <1>2, EmptySeq
  <2> QED BY <1>2, <2>1
<1> QED BY <1>1, <1>2, <1>3, OffsetFacts DEF Distance

LEMMA DistancesAdd ==
  ASSUME NEW text \in Seq(Characters), NEW i \in Nat, NEW j \in Nat, NEW k \in Nat, i <= j, j <= k, k <= Len(text)
  PROVE  Distance(text, i, k) = File!PositionMove(Distance(text, i, j), Distance(text, j, k))
<1>1. Len(text) \in Nat /\ j <= Len(text)
  BY LenProperties
<1>2. Part(text, i, j) \in Seq(Characters) /\ Part(text, j, k) \in Seq(Characters)
  BY <1>1, PartFacts
<1>3. Part(text, i, k) = Part(text, i, j) \o Part(text, j, k)
  BY PartsJoin
<1> QED BY <1>2, <1>3, OffsetOfBoth DEF Distance

\* What is further away is later.
LEMMA FurtherIsLater ==
  ASSUME NEW text \in Seq(Characters), NEW c \in Nat, NEW i \in Nat, NEW j \in Nat, c <= i, c <= j,
         i <= Len(text), j <= Len(text), NEW at \in Positions
  PROVE  File!Gte(File!PositionMove(at, Distance(text, c, i)), File!PositionMove(at, Distance(text, c, j))) <=> i >= j
<1> DEFINE Near(k) == File!PositionMove(at, Distance(text, c, k))
<1>0. Len(text) \in Nat
  BY LenProperties
<1>1. ASSUME NEW a \in Nat, NEW b \in Nat, c <= a, a <= b, b <= Len(text)
      PROVE  File!Gte(Near(b), Near(a)) /\ (a < b => ~File!Gte(Near(a), Near(b)))
  <2>0. a <= Len(text)
    BY <1>0, <1>1
  <2>1. /\ Distance(text, c, a) \in Positions /\ Distance(text, a, b) \in Positions
        /\ a < b => Distance(text, a, b) # Start
    BY <1>1, <2>0, DistanceFacts
  <2>2. Distance(text, c, b) = File!PositionMove(Distance(text, c, a), Distance(text, a, b))
    BY <1>1, DistancesAdd
  <2>3. Near(b) = File!PositionMove(Near(a), Distance(text, a, b)) /\ Near(a) \in Positions
    BY <2>1, <2>2, MoveAssociates, MoveIsPosition
  <2> HIDE DEF Near
  <2> QED BY <2>1, <2>3, MoveIsLater
<1>2. CASE i >= j
  BY <1>1, <1>2
<1>3. CASE i < j
  BY <1>1, <1>3
<1> QED BY <1>2, <1>3

-----------------------------------------------------------------------------
(* FileDiff: items keep up with their code *)

Changes == [kind : {"added", "removed", "equal"}, text : Seq(Characters) \ {<< >>}]

\* The one item is waiting or done, or has been dropped.
IsDiffState(s) ==
  /\ s = [toDo |-> s.toDo, done |-> s.done, at |-> s.at]
  /\ DOMAIN s.toDo \subseteq {"item"} /\ DOMAIN s.done \subseteq {"item"}
  /\ "item" \in DOMAIN s.toDo => DOMAIN s.done = {}

IsItem(x) ==
  /\ x.text \in Seq(Characters) /\ x.from \in Nat /\ x.upto \in Nat
  /\ x.from < x.upto /\ x.upto <= Len(x.text)

Consumed == Len(places)
Body     == Distance(item.text, item.from, item.upto)
Waiting  == "item" \in DOMAIN state.toDo
Done     == "item" \in DOMAIN state.done

DiffTypes ==
  /\ IsItem(item) /\ IsDiffState(state)
  /\ places \in Seq(Nat) /\ Consumed <= Len(item.text) /\ oldText = Part(item.text, Consumed, Len(item.text))
  /\ newText \in Seq(Characters) /\ script \in Seq(Changes)
  /\ script = << >> => newText = << >>
  /\ Waiting => state.at = File!CalculateOffset(newText)

\* The last change is whole, too, when the next one begins.
Complete == script # << >> => File!Last(script).kind = "equal" \/ File!Last(File!Last(script).text) = "nl"
Sound    == File!WithinLines \/ (File!WholeLines /\ Complete)

\* What goes is in whole lines, so that it goes where a line starts.
LinesStart ==
  File!WholeLines /\ script # << >> /\ (File!Last(script).kind = "removed" \/ File!Last(File!Last(script).text) = "nl") =>
    File!CalculateOffset(newText).column = 0

\* The location of an item that is waiting is its distance from where the
\* comparison is, ...
NotBegun ==
  /\ Consumed <= item.from
  /\ state.toDo["item"] = Between(state.at, Distance(item.text, Consumed, item.from), Body)

\* ... and a change that comes when part of it was passed hits it.
Begun ==
  /\ item.from < Consumed /\ Consumed < item.upto
  /\ script # << >> /\ File!Last(script).kind = "equal"
  /\ state.toDo["item"].start \in Positions /\ File!Gte(state.at, state.toDo["item"].start)
  /\ state.toDo["item"].end = File!PositionMove(state.at, Distance(item.text, Consumed, item.upto))

WaitingInPlace ==
  /\ Sound /\ Waiting => NotBegun \/ Begun
  /\ File!WholeLines /\ Waiting => Consumed < item.upto

DoneInPlace ==
  (File!WholeLines \/ File!WithinLines) /\ Done =>
    /\ item.upto <= Consumed /\ File!Untouched
    /\ places[item.from + 1] - 1 + item.upto - item.from <= Len(newText)
    /\ state.done["item"] = File!TrueLocation

NothingBegun ==
  /\ item = << >> /\ oldText = << >> /\ newText = << >> /\ places = << >> /\ script = << >>
  /\ state = [toDo |-> << >>, done |-> << >>, at |-> Start]

Walking == item # << >> /\ tests = << >> /\ DiffTypes /\ LinesStart /\ WaitingInPlace /\ DoneInPlace

\* The script with one more change.
LEMMA ScriptGrows ==
  ASSUME script \in Seq(Changes), NEW kind \in {"added", "removed", "equal"}, NEW text \in Seq(Characters) \ {<< >>},
         script' = Append(script, [kind |-> kind, text |-> text]), item' = item
  PROVE  /\ script' \in Seq(Changes) /\ script' # << >> /\ File!Last(script') = [kind |-> kind, text |-> text]
         /\ File!WithinLines' => File!WithinLines /\ (kind # "equal" => \A i \in 1..Len(text) : text[i] # "nl")
         /\ File!WholeLines' => /\ File!WholeLines /\ Complete
                                /\ kind # "equal" /\ script # << >> => File!Last(File!Last(script).text) = "nl"
         /\ Complete' => kind = "equal" \/ text[Len(text)] = "nl"
<1> PICK change : change = [kind |-> kind, text |-> text]
  OBVIOUS
<1> PICK n \in Nat : n = Len(script) /\ (script = << >> <=> n = 0)
  BY LenProperties, EmptySeq
<1>1. change \in Changes /\ change.kind = kind /\ change.text = text
  BY DEF Changes
<1> PICK new : new = Append(script, change)
  OBVIOUS
<1>2. /\ new \in Seq(Changes) /\ Len(new) = n + 1 /\ new # << >> /\ new[n + 1] = change
      /\ \A k \in 1..n : new[k] = script[k]
  BY <1>1, AppendProperties
<1>3. script' = new
  OBVIOUS
<1>4. File!Last(script') = change
  BY <1>2, <1>3 DEF File!Last
<1>5. ASSUME File!WithinLines'
      PROVE  File!WithinLines /\ (kind # "equal" => \A i \in 1..Len(text) : text[i] # "nl")
  <2>1. \A k \in 1..(n + 1) : new[k].kind # "equal" => "nl" \notin File!ToSet(new[k].text)
    BY <1>2, <1>3, <1>5 DEF File!WithinLines
  <2>2. \A x \in (item.from + 1)..item.upto : item.text[x] # "nl"
    BY <1>5 DEF File!WithinLines
  <2>3. \A k \in 1..n : script[k].kind # "equal" => "nl" \notin File!ToSet(script[k].text)
    <3> SUFFICES ASSUME NEW k \in 1..n PROVE script[k].kind # "equal" => "nl" \notin File!ToSet(script[k].text)
      OBVIOUS
    <3>1. k \in 1..(n + 1) /\ new[k] = script[k]
      BY <1>2
    <3> QED BY <2>1, <3>1
  <2>4. kind # "equal" => "nl" \notin File!ToSet(text)
    <3>1. n + 1 \in 1..(n + 1)
      OBVIOUS
    <3> QED BY <1>1, <1>2, <2>1, <3>1
  <2>5. kind # "equal" => \A i \in 1..Len(text) : text[i] # "nl"
    <3>1. DOMAIN text = 1..Len(text)
      BY LenProperties
    <3> QED BY <2>4, <3>1 DEF File!ToSet
  <2> QED BY <2>2, <2>3, <2>5 DEF File!WithinLines
<1>6. ASSUME File!WholeLines'
      PROVE  /\ File!WholeLines /\ Complete
             /\ kind # "equal" /\ script # << >> => File!Last(File!Last(script).text) = "nl"
  <2>1. \A k \in 1..(n + 1) : new[k].kind # "equal" =>
          /\ k = 1 \/ File!Last(new[k - 1].text) = "nl"
          /\ k = n + 1 \/ File!Last(new[k].text) = "nl"
    BY <1>2, <1>3, <1>6 DEF File!WholeLines
  <2>2. \A k \in 1..n : script[k].kind # "equal" =>
          (k = 1 \/ File!Last(script[k - 1].text) = "nl") /\ File!Last(script[k].text) = "nl"
    <3> SUFFICES ASSUME NEW k \in 1..n, script[k].kind # "equal"
                 PROVE  (k = 1 \/ File!Last(script[k - 1].text) = "nl") /\ File!Last(script[k].text) = "nl"
      OBVIOUS
    <3>1. k \in 1..(n + 1) /\ k # n + 1 /\ new[k] = script[k] /\ (k = 1 \/ k - 1 \in 1..n)
      BY <1>2
    <3>2. k # 1 => new[k - 1] = script[k - 1]
      BY <1>2, <3>1
    <3> QED BY <2>1, <3>1, <3>2
  <2>3. File!WholeLines
    BY <2>2 DEF File!WholeLines
  <2>4. Complete
    <3>1. script # << >> => n \in 1..n
      OBVIOUS
    <3> QED BY <2>2, <3>1 DEF Complete, File!Last
  <2>5. ASSUME kind # "equal", script # << >> PROVE File!Last(File!Last(script).text) = "nl"
    <3>1. n + 1 \in 1..(n + 1) /\ n + 1 # 1 /\ (n + 1) - 1 = n /\ n \in 1..n
      BY <2>5
    <3>2. new[n] = script[n] /\ new[n + 1].kind # "equal"
      BY <1>1, <1>2, <2>5, <3>1
    <3>3. File!Last(new[(n + 1) - 1].text) = "nl"
      BY <2>1, <3>1, <3>2
    <3> QED BY <3>1, <3>2, <3>3 DEF File!Last
  <2> QED BY <2>3, <2>4, <2>5
<1>7. Complete' => kind = "equal" \/ text[Len(text)] = "nl"
  <2>1. Complete' => File!Last(script').kind = "equal" \/ File!Last(File!Last(script').text) = "nl"
    BY <1>2, <1>3 DEF Complete
  <2> QED BY <1>1, <1>4, <2>1 DEF File!Last
<1> QED BY <1>2, <1>3, <1>4, <1>5, <1>6, <1>7

LEMMA LinesStartKeeps ==
  ASSUME DiffTypes, LinesStart, NEW kind \in {"added", "removed", "equal"}, NEW text \in Seq(Characters) \ {<< >>},
         script' = Append(script, [kind |-> kind, text |-> text]), item' = item,
         newText' = IF kind = "removed" THEN newText ELSE newText \o text
  PROVE  /\ LinesStart'
         /\ File!WholeLines' /\ kind # "equal" => File!CalculateOffset(newText).column = 0
<1>1. /\ newText \in Seq(Characters) /\ script \in Seq(Changes) /\ (script = << >> => newText = << >>)
  BY DEF DiffTypes
<1>2. /\ script' # << >> /\ File!Last(script') = [kind |-> kind, text |-> text]
      /\ File!WholeLines' => /\ File!WholeLines /\ Complete
                             /\ kind # "equal" /\ script # << >> => File!Last(File!Last(script).text) = "nl"
  BY <1>1, ScriptGrows
<1>3. File!WholeLines' /\ kind # "equal" => File!CalculateOffset(newText).column = 0
  <2>1. CASE script = << >>
    <3>1. File!CalculateOffset(newText) = Start
      BY <1>1, <2>1, OffsetFacts
    <3> QED BY <3>1 DEF Start, File!Pos
  <2>2. CASE script # << >>
    BY <1>2, <2>2 DEF LinesStart
  <2> QED BY <2>1, <2>2
<1>4. ASSUME File!WholeLines', kind = "removed" PROVE File!CalculateOffset(newText').column = 0
  <2>1. newText' = newText
    BY <1>4
  <2>2. kind # "equal"
    BY <1>4
  <2>3. File!CalculateOffset(newText).column = 0
    BY <1>3, <1>4, <2>2
  <2> QED BY <2>1, <2>3
<1>5. ASSUME kind # "removed", text[Len(text)] = "nl" PROVE File!CalculateOffset(newText').column = 0
  <2>1. newText' = newText \o text
    BY <1>5
  <2>2. File!CalculateOffset(newText \o text) = File!PositionMove(File!CalculateOffset(newText), File!CalculateOffset(text))
    BY <1>1, OffsetOfBoth
  <2>3. /\ File!CalculateOffset(text) \in Positions
        /\ File!CalculateOffset(text).line > 0 /\ File!CalculateOffset(text).column = 0
    BY <1>5, OffsetFacts
  <2>4. File!PositionMove(File!CalculateOffset(newText), File!CalculateOffset(text)).column = 0
    BY <2>3 DEF File!PositionMove, File!Pos, Positions
  <2> QED BY <2>1, <2>2, <2>4
<1>6. LinesStart'
  <2> SUFFICES ASSUME File!WholeLines', File!Last(script').kind = "removed" \/ File!Last(File!Last(script').text) = "nl"
               PROVE  File!CalculateOffset(newText').column = 0
    BY DEF LinesStart
  <2>1. kind = "removed" \/ text[Len(text)] = "nl"
    BY <1>2 DEF File!Last
  <2> QED BY <1>4, <1>5, <2>1
<1> QED BY <1>3, <1>6

\* What comes and goes is aligned with the item.
LEMMA ChangesAreAligned ==
  ASSUME DiffTypes, LinesStart, NEW kind \in {"added", "removed"}, NEW text \in Seq(Characters) \ {<< >>},
         script' = Append(script, [kind |-> kind, text |-> text]), item' = item,
         newText' = IF kind = "removed" THEN newText ELSE newText \o text,
         Sound'
  PROVE  Aligned(File!CalculateOffset(newText), File!CalculateOffset(text), Body)
<1>0. kind \in {"added", "removed", "equal"} /\ kind # "equal"
  OBVIOUS
<1>1. script \in Seq(Changes)
  BY DEF DiffTypes
<1>2. /\ File!WithinLines' => File!WithinLines /\ \A i \in 1..Len(text) : text[i] # "nl"
      /\ Complete' => text[Len(text)] = "nl"
  BY <1>0, <1>1, ScriptGrows
<1>3. File!WholeLines' => File!CalculateOffset(newText).column = 0
  BY <1>0, LinesStartKeeps
<1>4. CASE File!WithinLines'
  <2>1. File!CalculateOffset(text).line = 0
    BY <1>2, <1>4, OffsetFacts
  <2>2. Body.line = 0
    <3>1. PICK b : b = Part(item.text, item.from, item.upto)
      OBVIOUS
    <3>x. PICK x \in Seq(Characters) : x = item.text
      BY DEF DiffTypes, IsItem
    <3>2. PICK f \in Nat, u \in Nat : f = item.from /\ u = item.upto /\ f <= u /\ u <= Len(x)
      BY <3>x DEF DiffTypes, IsItem
    <3>3. b \in Seq(Characters) /\ Len(b) = u - f /\ \A k \in 1..(u - f) : b[k] = x[f + k]
      <4>1. /\ Part(x, f, u) \in Seq(Characters) /\ Len(Part(x, f, u)) = u - f
            /\ \A k \in 1..(u - f) : Part(x, f, u)[k] = x[f + k]
        BY <3>2, PartOfText
      <4> QED BY <3>x, <3>1, <3>2, <4>1
    <3>4. \A k \in 1..Len(b) : b[k] # "nl"
      <4> SUFFICES ASSUME NEW k \in 1..(u - f) PROVE b[k] # "nl"
        BY <3>3
      <4>1. f + k \in (f + 1)..u
        BY <3>2
      <4>2. x[f + k] # "nl"
        BY <1>2, <1>4, <3>x, <3>2, <4>1 DEF File!WithinLines
      <4> QED BY <3>3, <4>2
    <3> QED BY <3>1, <3>3, <3>4, OffsetFacts DEF Body, Distance
  <2> QED BY <2>1, <2>2 DEF Aligned
<1>5. CASE File!WholeLines' /\ Complete'
  <2>1. text[Len(text)] = "nl" /\ File!CalculateOffset(newText).column = 0
    BY <1>2, <1>3, <1>5
  <2>2. File!CalculateOffset(text).line > 0 /\ File!CalculateOffset(text).column = 0
    BY <2>1, OffsetFacts
  <2> QED BY <2>1, <2>2 DEF Aligned
<1> QED BY <1>4, <1>5 DEF Sound

LEMMA SoundBefore ==
  ASSUME DiffTypes, NEW kind \in {"added", "removed", "equal"}, NEW text \in Seq(Characters) \ {<< >>},
         script' = Append(script, [kind |-> kind, text |-> text]), item' = item,
         (File!WholeLines \/ File!WithinLines)'
  PROVE  Sound /\ (File!WholeLines' => File!WholeLines)
<1>1. script \in Seq(Changes)
  BY DEF DiffTypes
<1> QED BY <1>1, ScriptGrows DEF Sound

\* What one round of the loop leaves waiting, and what is done then.
LEMMA AddedLeaves ==
  ASSUME IsDiffState(state), Waiting, NEW d, NEW s, s = File!AfterAdded(state, d)
  PROVE  /\ IsDiffState(s) /\ s.at = File!PositionMove(state.at, d) /\ DOMAIN s.done = {}
         /\ "item" \in DOMAIN s.toDo =>
              LET loc == state.toDo["item"]
              IN  /\ ~(File!Gte(state.at, loc.start) /\ File!Gte(loc.end, state.at))
                  /\ s.toDo["item"] = File!LocationAdd(loc, d, state.at.line = loc.start.line)
<1> DEFINE loc == state.toDo["item"]
           hit == {i \in DOMAIN state.toDo : File!Gte(state.at, state.toDo[i].start) /\ File!Gte(state.toDo[i].end, state.at)}
<1>1. /\ state = [toDo |-> state.toDo, done |-> state.done, at |-> state.at]
      /\ DOMAIN state.toDo = {"item"} /\ DOMAIN state.done = {}
  BY DEF IsDiffState, Waiting
<1>2. PICK moved : moved = File!Moved(state, d)
  OBVIOUS
<1>3. DOMAIN moved = {"item"} /\ moved["item"] = File!LocationAdd(loc, d, state.at.line = loc.start.line)
  BY <1>1, <1>2 DEF File!Moved
<1>4. PICK rest : rest = File!Without(moved, hit)
  OBVIOUS
<1>5. DOMAIN rest = {"item"} \ hit /\ \A i \in {"item"} \ hit : rest[i] = moved[i]
  BY <1>3, <1>4 DEF File!Without
<1>6. s = [toDo |-> rest, done |-> state.done, at |-> File!PositionMove(state.at, d)]
  <2>1. s = [state EXCEPT !.toDo = rest, !.at = File!PositionMove(state.at, d)]
    BY <1>2, <1>4 DEF File!AfterAdded
  <2> QED BY <1>1, <2>1
<1>7. "item" \in hit <=> File!Gte(state.at, loc.start) /\ File!Gte(loc.end, state.at)
  BY <1>1
<1> HIDE DEF hit, loc
<1>8. s.toDo = rest /\ s.done = state.done /\ s.at = File!PositionMove(state.at, d) /\ s = [toDo |-> s.toDo, done |-> s.done, at |-> s.at]
  BY <1>6
<1>9. IsDiffState(s)
  BY <1>1, <1>5, <1>8 DEF IsDiffState
<1> QED BY <1>1, <1>3, <1>5, <1>7, <1>8, <1>9 DEF loc

LEMMA RemovedLeaves ==
  ASSUME IsDiffState(state), Waiting, NEW d, NEW s, s = File!AfterRemoved(state, d)
  PROVE  /\ IsDiffState(s) /\ s.at = state.at /\ DOMAIN s.done = {}
         /\ "item" \in DOMAIN s.toDo =>
              LET loc == state.toDo["item"]
              IN  /\ ~File!Gte(File!PositionMove(state.at, d), loc.start)
                  /\ s.toDo["item"] = File!LocationAdd(loc, File!Negate(d), state.at.line = loc.start.line)
<1> DEFINE loc == state.toDo["item"]
           hit == {i \in DOMAIN state.toDo : File!Gte(File!PositionMove(state.at, d), state.toDo[i].start)}
<1>1. /\ state = [toDo |-> state.toDo, done |-> state.done, at |-> state.at]
      /\ DOMAIN state.toDo = {"item"} /\ DOMAIN state.done = {}
  BY DEF IsDiffState, Waiting
<1>2. PICK moved : moved = File!Moved(state, File!Negate(d))
  OBVIOUS
<1>3. DOMAIN moved = {"item"} /\ moved["item"] = File!LocationAdd(loc, File!Negate(d), state.at.line = loc.start.line)
  BY <1>1, <1>2 DEF File!Moved
<1>4. PICK rest : rest = File!Without(moved, hit)
  OBVIOUS
<1>5. DOMAIN rest = {"item"} \ hit /\ \A i \in {"item"} \ hit : rest[i] = moved[i]
  BY <1>3, <1>4 DEF File!Without
<1>6. s = [toDo |-> rest, done |-> state.done, at |-> state.at]
  <2>1. s = [state EXCEPT !.toDo = rest]
    BY <1>2, <1>4 DEF File!AfterRemoved
  <2> QED BY <1>1, <2>1
<1>7. "item" \in hit <=> File!Gte(File!PositionMove(state.at, d), loc.start)
  BY <1>1
<1> HIDE DEF hit, loc
<1>8. s.toDo = rest /\ s.done = state.done /\ s.at = state.at /\ s = [toDo |-> s.toDo, done |-> s.done, at |-> s.at]
  BY <1>6
<1>9. IsDiffState(s)
  BY <1>1, <1>5, <1>8 DEF IsDiffState
<1> QED BY <1>1, <1>3, <1>5, <1>7, <1>8, <1>9 DEF loc

LEMMA EqualLeaves ==
  ASSUME IsDiffState(state), Waiting, NEW d, NEW s, s = File!AfterEqual(state, d)
  PROVE  /\ IsDiffState(s) /\ s.at = File!PositionMove(state.at, d)
         /\ "item" \in DOMAIN s.toDo => ~File!Gte(s.at, state.toDo["item"].end) /\ s.toDo["item"] = state.toDo["item"]
         /\ "item" \in DOMAIN s.done => File!Gte(s.at, state.toDo["item"].end) /\ s.done["item"] = state.toDo["item"]
<1> DEFINE loc == state.toDo["item"]
           now == File!PositionMove(state.at, d)
           over == {i \in DOMAIN state.toDo : File!Gte(now, state.toDo[i].end)}
<1>1. /\ state = [toDo |-> state.toDo, done |-> state.done, at |-> state.at]
      /\ DOMAIN state.toDo = {"item"} /\ DOMAIN state.done = {}
  BY DEF IsDiffState, Waiting
<1>2. PICK rest : rest = File!Without(state.toDo, over)
  OBVIOUS
<1>3. DOMAIN rest = {"item"} \ over /\ \A i \in {"item"} \ over : rest[i] = state.toDo[i]
  BY <1>1, <1>2 DEF File!Without
<1>4. PICK did : did = [i \in DOMAIN state.done \cup over |-> IF i \in over THEN state.toDo[i] ELSE state.done[i]]
  OBVIOUS
<1>5. s = [toDo |-> rest, done |-> did, at |-> now]
  BY <1>2, <1>4 DEF File!AfterEqual
<1>6. DOMAIN did = over /\ over \subseteq {"item"} /\ \A i \in over : did[i] = state.toDo[i]
  BY <1>1, <1>4
<1>7. "item" \in over <=> File!Gte(now, loc.end)
  BY <1>1
<1> HIDE DEF over, loc, now
<1>8. s.toDo = rest /\ s.done = did /\ s.at = now /\ s = [toDo |-> s.toDo, done |-> s.done, at |-> s.at]
  BY <1>5
<1>9. IsDiffState(s)
  BY <1>3, <1>6, <1>8 DEF IsDiffState
<1> QED BY <1>3, <1>6, <1>7, <1>8, <1>9 DEF loc, now

\* What happens when nothing is waiting any more.
LEMMA DoneStays ==
  ASSUME DiffTypes,
         DoneInPlace, Done, File!WholeLines \/ File!WithinLines,
         NEW more \in Seq(Characters), NEW further \in Seq(Nat),
         newText' = newText \o more, places' = places \o further, item' = item, state'.done = state.done
  PROVE  /\ item.upto <= Consumed' /\ File!Untouched'
         /\ places'[item.from + 1] - 1 + item.upto - item.from <= Len(newText')
         /\ state'.done["item"] = File!TrueLocation'
<1>1. /\ item.upto <= Consumed /\ File!Untouched
      /\ places[item.from + 1] - 1 + item.upto - item.from <= Len(newText)
      /\ state.done["item"] = File!TrueLocation
  BY DEF DoneInPlace
<1>2. /\ newText \in Seq(Characters) /\ places \in Seq(Nat)
      /\ item.from \in Nat /\ item.upto \in Nat /\ item.from < item.upto
  BY DEF DiffTypes, IsItem
<1>f. PICK f \in Nat, u \in Nat : f = item.from /\ u = item.upto
  BY <1>2
<1>3. PICK c \in Nat, m \in Nat : c = Len(places) /\ m = Len(newText)
  BY <1>2, LenProperties
<1>4. PICK both : both = newText \o more
  OBVIOUS
<1>5. PICK size \in Nat : size = Len(more)
  BY LenProperties
<1>6. Len(both) = m + size
  BY <1>2, <1>3, <1>4, <1>5, JoinFacts
<1>7. PICK all : all = places \o further
  OBVIOUS
<1>8. PICK add \in Nat : add = Len(further)
  BY LenProperties
<1>9. Len(all) = c + add /\ \A k \in 1..c : all[k] = places[k]
  <2>1. /\ places \o further \in Seq(Nat) /\ Len(places \o further) = Len(places) + Len(further)
        /\ \A k \in 1..(Len(places) + Len(further)) :
             (places \o further)[k] = IF k <= Len(places) THEN places[k] ELSE further[k - Len(places)]
    BY <1>2, JoinFacts
  <2> QED BY <1>3, <1>7, <1>8, <2>1
<1>10. f < u /\ u <= c
  BY <1>f, <1>1, <1>2, <1>3 DEF Consumed
<1>11. \A k \in (f + 1)..u : all[k] = places[k]
  <2>1. \A k \in (f + 1)..u : k \in 1..c
    BY <1>f, <1>10
  <2> QED BY <1>f, <1>9, <2>1
<1>12. f + 1 \in (f + 1)..u /\ all[f + 1] = places[f + 1]
  <2>1. f + 1 \in (f + 1)..u
    BY <1>f, <1>10
  <2> QED BY <1>11, <2>1
<1>13. Consumed' = c + add /\ item.upto <= Consumed'
  BY <1>f, <1>7, <1>9, <1>10 DEF Consumed
<1>14. File!Untouched'
  <2>1. \A k \in (f + 1)..u : places[k] # 0 /\ places[k] = places[f + 1] + k - (f + 1)
    BY <1>f, <1>1 DEF File!Untouched
  <2>2. \A k \in (f + 1)..u : all[k] # 0 /\ all[k] = all[f + 1] + k - (f + 1)
    BY <1>f, <1>11, <1>12, <2>1
  <2> QED BY <1>f, <1>7, <2>2 DEF File!Untouched
<1>15. PICK p \in Nat : p = places[f + 1] /\ p # 0
  <2>1. f + 1 \in 1..c
    BY <1>f, <1>10
  <2>2. places[f + 1] \in Nat
    BY <1>2, <1>3, <2>1, LenProperties
  <2>3. places[f + 1] # 0
    BY <1>f, <1>1, <1>12 DEF File!Untouched
  <2> QED BY <2>2, <2>3
<1>16. p - 1 + u - f <= m /\ p - 1 + u - f <= m + size
  <2>1. places[f + 1] - 1 + u - f <= Len(newText)
    BY <1>f, <1>1
  <2>2. p - 1 + u - f <= m
    BY <1>3, <1>15, <2>1
  <2> QED BY <2>2
<1>17. p - 1 \in 0..m /\ p - 1 + u - f \in 0..m
  <2>1. p # 0 /\ f < u
    BY <1>10, <1>15
  <2> QED BY <1>16, <2>1
<1>18. /\ SubSeq(both, 1, p - 1) = SubSeq(newText, 1, p - 1)
       /\ SubSeq(both, 1, p - 1 + u - f) = SubSeq(newText, 1, p - 1 + u - f)
  <2>1. \A k \in 0..Len(newText) : SubSeq(newText \o more, 1, k) = SubSeq(newText, 1, k)
    BY <1>2, StartOfBoth
  <2>2. \A k \in 0..m : SubSeq(both, 1, k) = SubSeq(newText, 1, k)
    BY <1>3, <1>4, <2>1
  <2> QED BY <1>17, <2>2
<1>19. File!TrueLocation' = File!TrueLocation
  <2>1. File!TrueLocation = [start |-> File!CalculateOffset(SubSeq(newText, 1, p - 1)),
                             end |-> File!CalculateOffset(SubSeq(newText, 1, p - 1 + u - f))]
    BY <1>f, <1>15 DEF File!TrueLocation, File!LocationIn
  <2>2. File!TrueLocation' = [start |-> File!CalculateOffset(SubSeq(both, 1, p - 1)),
                              end |-> File!CalculateOffset(SubSeq(both, 1, p - 1 + u - f))]
    BY <1>f, <1>4, <1>7, <1>12, <1>15 DEF File!TrueLocation, File!LocationIn
  <2> QED BY <1>18, <2>1, <2>2
<1>20. places'[item.from + 1] - 1 + item.upto - item.from <= Len(newText')
  BY <1>f, <1>4, <1>6, <1>7, <1>12, <1>15, <1>16
<1> QED BY <1>1, <1>13, <1>14, <1>19, <1>20

\* The facts about a change that hold whatever its kind.
LEMMA ChangeFacts ==
  ASSUME Walking, NEW kind \in {"added", "removed", "equal"}, NEW text \in Seq(Characters) \ {<< >>}, File!Change(kind, text)
  PROVE  /\ script' = Append(script, [kind |-> kind, text |-> text]) /\ script' \in Seq(Changes) /\ script' # << >>
         /\ File!Last(script').kind = kind
         /\ newText' = IF kind = "removed" THEN newText ELSE newText \o text
         /\ newText' \in Seq(Characters)
         /\ item' = item /\ tests' = tests
         /\ script # << >> => File!Last(script).kind # kind
         /\ LinesStart'
         /\ (File!WholeLines \/ File!WithinLines)' => Sound /\ (File!WholeLines \/ File!WithinLines)
         /\ File!WholeLines' => File!WholeLines
         /\ Sound' => (File!WholeLines \/ File!WithinLines)'
         /\ ~Waiting => state' = state
         /\ Waiting /\ kind = "added" => state' = File!AfterAdded(state, File!CalculateOffset(text))
         /\ Waiting /\ kind = "removed" => state' = File!AfterRemoved(state, File!CalculateOffset(text))
         /\ Waiting /\ kind = "equal" => state' = File!AfterEqual(state, File!CalculateOffset(text))
<1>1. DiffTypes /\ LinesStart /\ newText \in Seq(Characters) /\ script \in Seq(Changes) /\ IsDiffState(state)
  BY DEF Walking, DiffTypes
<1>2. /\ script' = Append(script, [kind |-> kind, text |-> text])
      /\ newText' = IF kind = "removed" THEN newText ELSE newText \o text
      /\ item' = item /\ tests' = tests
      /\ script # << >> => File!Last(script).kind # kind
      /\ state' = File!AfterChange(state, [kind |-> kind, text |-> text])
  BY DEF File!Change, File!MayFollow
<1>3. script' \in Seq(Changes) /\ script' # << >> /\ File!Last(script') = [kind |-> kind, text |-> text]
  BY <1>1, <1>2, ScriptGrows
<1>4. File!Last(script').kind = kind
  BY <1>3
<1>5. newText' \in Seq(Characters)
  <2>1. newText \o text \in Seq(Characters)
    BY <1>1, JoinFacts
  <2> QED BY <1>1, <1>2, <2>1
<1>6. LinesStart'
  BY <1>1, <1>2, LinesStartKeeps
<1>7. /\ (File!WholeLines \/ File!WithinLines)' => Sound /\ (File!WholeLines \/ File!WithinLines)
      /\ File!WholeLines' => File!WholeLines
  BY <1>1, <1>2, SoundBefore DEF Sound
<1>8. Sound' => (File!WholeLines \/ File!WithinLines)'
  BY DEF Sound
<1>9. Waiting <=> DOMAIN state.toDo # {}
  BY <1>1 DEF IsDiffState, Waiting
<1> PICK change : change = [kind |-> kind, text |-> text]
  OBVIOUS
<1>10. change.kind = kind /\ change.text = text /\ state' = File!AfterChange(state, change)
  BY <1>2
<1>11. ~Waiting => state' = state
  BY <1>9, <1>10 DEF File!AfterChange
<1>12. Waiting /\ kind = "added" => state' = File!AfterAdded(state, File!CalculateOffset(text))
  BY <1>9, <1>10 DEF File!AfterChange
<1>13. Waiting /\ kind = "removed" => state' = File!AfterRemoved(state, File!CalculateOffset(text))
  BY <1>9, <1>10 DEF File!AfterChange
<1>14. Waiting /\ kind = "equal" => state' = File!AfterEqual(state, File!CalculateOffset(text))
  BY <1>9, <1>10 DEF File!AfterChange
<1> QED BY <1>2, <1>3, <1>4, <1>5, <1>6, <1>7, <1>8, <1>11, <1>12, <1>13, <1>14

\* What is consumed of the old text.
LEMMA ConsumeFacts ==
  ASSUME DiffTypes, NEW kind \in {"removed", "equal"}, NEW n \in 1..Len(oldText), File!Consume(kind, n)
  PROVE  \E text \in Seq(Characters) \ {<< >>} : \E further \in Seq(Nat) :
           /\ Consumed' = Consumed + n /\ Consumed' <= Len(item.text)
           /\ text = Part(item.text, Consumed, Consumed') /\ File!Change(kind, text)
           /\ oldText' = Part(item.text, Consumed', Len(item.text))
           /\ places' = places \o further /\ places' \in Seq(Nat)
           /\ \A k \in 1..n : places'[Consumed + k] = IF kind = "equal" THEN Len(newText) + k ELSE 0
<1>x. PICK x \in Seq(Characters) : x = item.text
  BY DEF DiffTypes, IsItem
<1>1. PICK size \in Nat : size = Len(x)
  BY <1>x, LenProperties
<1>2. PICK c \in Nat : c = Len(places) /\ c <= size /\ oldText = Part(x, c, size)
  <2>1. places \in Seq(Nat) /\ Consumed <= size /\ oldText = Part(x, Consumed, size)
    BY <1>x, <1>1 DEF DiffTypes
  <2> QED BY <2>1, LenProperties DEF Consumed
<1>3. Len(oldText) = size - c
  <2>1. size <= Len(x)
    BY <1>1
  <2>2. Len(Part(x, c, size)) = size - c
    BY <1>2, <1>1, <2>1, PartOfText
  <2> QED BY <1>2, <2>2
<1>4. PICK e \in Nat : e = c + n
  BY <1>2, <1>3
<1>5. c < e /\ e <= size /\ e - c = n
  BY <1>1, <1>2, <1>3, <1>4
<1>6. /\ SubSeq(oldText, 1, n) = Part(x, c, e)
      /\ SubSeq(oldText, n + 1, Len(oldText)) = Part(x, e, size)
  <2>1. c <= e /\ e <= Len(x)
    BY <1>1, <1>5, <1>2, <1>4
  <2>2. LET rest == Part(x, c, Len(x))
        IN  /\ SubSeq(rest, 1, e - c) = Part(x, c, e)
            /\ SubSeq(rest, e - c + 1, Len(rest)) = Part(x, e, Len(x))
    BY <1>x, <1>2, <1>4, <2>1, PartsOfRest
  <2> QED BY <1>1, <1>2, <1>5, <2>2
<1>7. PICK text : text = Part(x, c, e)
  OBVIOUS
<1>8. text \in Seq(Characters) \ {<< >>}
  <2>1. c <= e /\ e <= Len(x)
    BY <1>1, <1>5, <1>2, <1>4
  <2>2. text \in Seq(Characters) /\ Len(text) = e - c
    BY <1>7, <2>1, PartOfText
  <2>3. Len(text) # 0
    BY <1>5, <2>2, <1>2, <1>4
  <2> QED BY <2>2, <2>3, EmptySeq
<1>9. File!Change(kind, text) /\ oldText' = Part(x, e, size)
      /\ places' = places \o [k \in 1..n |-> IF kind = "equal" THEN Len(newText) + k ELSE 0]
  BY <1>6, <1>7 DEF File!Consume
<1>10. PICK m \in Nat : m = Len(newText)
  BY LenProperties DEF DiffTypes
<1>11. n \in Nat
  BY <1>3, <1>2, <1>1
<1>12. PICK further : further = [k \in 1..n |-> IF kind = "equal" THEN m + k ELSE 0]
  OBVIOUS
<1>13. further \in Seq(Nat) /\ Len(further) = n /\ \A k \in 1..n : further[k] = IF kind = "equal" THEN m + k ELSE 0
  <2>1. \A k \in 1..n : (IF kind = "equal" THEN m + k ELSE 0) \in Nat
    BY <1>10, <1>11
  <2>2. further \in [1..n -> Nat]
    BY <1>12, <2>1
  <2> QED BY <1>11, <1>12, <2>2
<1>14. PICK all : all = places \o further
  OBVIOUS
<1>15. /\ all \in Seq(Nat) /\ Len(all) = e
       /\ \A k \in 1..n : all[c + k] = IF kind = "equal" THEN m + k ELSE 0
  <2>1. places \in Seq(Nat)
    BY DEF DiffTypes
  <2>2. /\ places \o further \in Seq(Nat) /\ Len(places \o further) = Len(places) + Len(further)
        /\ \A k \in 1..(Len(places) + Len(further)) :
             (places \o further)[k] = IF k <= Len(places) THEN places[k] ELSE further[k - Len(places)]
    BY <1>13, <2>1, JoinFacts
  <2>3. all \in Seq(Nat) /\ Len(all) = c + n
        /\ \A k \in 1..(c + n) : all[k] = IF k <= c THEN places[k] ELSE further[k - c]
    BY <1>2, <1>13, <1>14, <2>2
  <2>4. \A k \in 1..n : all[c + k] = further[k]
    <3> SUFFICES ASSUME NEW k \in 1..n PROVE all[c + k] = further[k]
      OBVIOUS
    <3>1. c + k \in 1..(c + n) /\ ~(c + k <= c) /\ (c + k) - c = k
      BY <1>2, <1>11
    <3> QED BY <2>3, <3>1
  <2> QED BY <1>4, <1>13, <2>3, <2>4
<1>16. places' = all
  BY <1>9, <1>10, <1>12, <1>14
<1>17. Consumed' = e /\ Consumed = c
  BY <1>2, <1>15, <1>16 DEF Consumed
<1>18. /\ Consumed' = Consumed + n /\ Consumed' <= Len(item.text)
       /\ text = Part(item.text, Consumed, Consumed') /\ File!Change(kind, text)
       /\ oldText' = Part(item.text, Consumed', Len(item.text))
       /\ places' = places \o further /\ places' \in Seq(Nat)
       /\ \A k \in 1..n : places'[Consumed + k] = IF kind = "equal" THEN Len(newText) + k ELSE 0
  BY <1>x, <1>1, <1>4, <1>5, <1>7, <1>9, <1>10, <1>14, <1>15, <1>16, <1>17
<1> QED BY <1>8, <1>13, <1>18

\* The parts of the invariant about an item that is not waiting.
LEMMA NothingWaiting ==
  ASSUME Walking, ~Waiting, NEW kind \in {"added", "removed", "equal"}, NEW text \in Seq(Characters) \ {<< >>},
         File!Change(kind, text), NEW further \in Seq(Nat), places' = places \o further
  PROVE  WaitingInPlace' /\ DoneInPlace' /\ IsDiffState(state')
<1>1. /\ newText' = IF kind = "removed" THEN newText ELSE newText \o text
      /\ item' = item /\ state' = state
      /\ (File!WholeLines \/ File!WithinLines)' => File!WholeLines \/ File!WithinLines
  BY ChangeFacts
<1>2. DiffTypes /\ DoneInPlace /\ IsDiffState(state) /\ newText \in Seq(Characters)
  BY DEF Walking, DiffTypes
<1>3. PICK more \in Seq(Characters) : newText' = newText \o more
  <2>1. CASE kind = "removed"
    <3>1. << >> \in Seq(Characters) /\ newText \o << >> = newText
      BY <1>2, ConcatEmptySeq, EmptySeq
    <3>2. newText' = newText
      BY <1>1, <2>1
    <3> QED BY <3>1, <3>2
  <2>2. CASE kind # "removed"
    BY <1>1, <2>2
  <2> QED BY <2>1, <2>2
<1>4. WaitingInPlace'
  BY <1>1 DEF WaitingInPlace, Waiting
<1>5. DoneInPlace'
  <2> SUFFICES ASSUME (File!WholeLines \/ File!WithinLines)', Done'
               PROVE  /\ item.upto <= Consumed' /\ File!Untouched'
                      /\ places'[item.from + 1] - 1 + item.upto - item.from <= Len(newText')
                      /\ state'.done["item"] = File!TrueLocation'
    BY <1>1 DEF DoneInPlace
  <2>1. Done /\ state'.done = state.done
    BY <1>1 DEF Done
  <2> QED BY <1>1, <1>2, <1>3, <2>1, DoneStays
<1> QED BY <1>1, <1>2, <1>4, <1>5

LEMMA TextFacts ==
  ASSUME NEW n, NEW text \in File!Texts(n) PROVE text \in Seq(Characters) \ {<< >>}
BY DEF File!Texts, File!BoundedSeq, File!SeqOf, Characters

\* Where a waiting item is, as far as that is known.
LEMMA PlacesOfItem ==
  ASSUME DiffTypes
  PROVE  /\ item.text \in Seq(Characters) /\ item.from \in Nat /\ item.upto \in Nat /\ Consumed \in Nat
         /\ item.from < item.upto /\ item.upto <= Len(item.text) /\ Consumed <= Len(item.text) /\ Len(item.text) \in Nat
         /\ newText \in Seq(Characters) /\ File!CalculateOffset(newText) \in Positions
         /\ Body \in Positions
         /\ Consumed <= item.from => Distance(item.text, Consumed, item.from) \in Positions
         /\ Consumed <= item.upto => Distance(item.text, Consumed, item.upto) \in Positions
<1>1. /\ item.text \in Seq(Characters) /\ item.from \in Nat /\ item.upto \in Nat
      /\ item.from < item.upto /\ item.upto <= Len(item.text) /\ Consumed <= Len(item.text) /\ newText \in Seq(Characters)
  BY DEF DiffTypes, IsItem
<1>2. Consumed \in Nat /\ Len(item.text) \in Nat
  <2>1. places \in Seq(Nat)
    BY DEF DiffTypes
  <2> QED BY <1>1, <2>1, LenProperties DEF Consumed
<1>3. File!CalculateOffset(newText) \in Positions
  BY <1>1, OffsetFacts
<1>x. PICK x \in Seq(Characters) : x = item.text
  BY <1>1
<1>f. PICK f \in Nat, u \in Nat, c \in Nat : f = item.from /\ u = item.upto /\ c = Consumed
  BY <1>1, <1>2
<1>4. f <= u /\ u <= Len(x) /\ f <= Len(x)
  BY <1>x, <1>f, <1>1, <1>2
<1>5. Distance(x, f, u) \in Positions
  BY <1>x, <1>f, <1>4, DistanceFacts
<1>6. c <= f => Distance(x, c, f) \in Positions
  BY <1>x, <1>f, <1>4, DistanceFacts
<1>7. c <= u => Distance(x, c, u) \in Positions
  BY <1>x, <1>f, <1>4, DistanceFacts
<1> QED BY <1>x, <1>f, <1>1, <1>2, <1>3, <1>5, <1>6, <1>7 DEF Body

LEMMA AddedKeeps ==
  ASSUME Walking, File!Added PROVE Walking'
<1>1. PICK text \in File!Texts(MaxAdded) : File!Change("added", text) /\ oldText' = oldText /\ places' = places
  BY DEF File!Added
<1>2. text \in Seq(Characters) \ {<< >>}
  BY <1>1, TextFacts
<1> DEFINE d == File!CalculateOffset(text)
           at == File!CalculateOffset(newText)
<1>3. /\ script' = Append(script, [kind |-> "added", text |-> text]) /\ script' \in Seq(Changes) /\ script' # << >>
      /\ newText' = newText \o text /\ newText' \in Seq(Characters)
      /\ item' = item /\ tests' = tests /\ LinesStart'
      /\ (File!WholeLines \/ File!WithinLines)' => Sound
      /\ File!WholeLines' => File!WholeLines
      /\ Sound' => (File!WholeLines \/ File!WithinLines)'
      /\ ~Waiting => state' = state
      /\ Waiting => state' = File!AfterAdded(state, d)
  BY <1>1, <1>2, ChangeFacts
<1>4. DiffTypes /\ LinesStart /\ WaitingInPlace /\ DoneInPlace /\ item # << >> /\ tests = << >>
  BY DEF Walking
<1>5. places \in Seq(Nat) /\ places \o << >> = places /\ << >> \in Seq(Nat)
  BY <1>4, ConcatEmptySeq, EmptySeq DEF DiffTypes
<1>6. d \in Positions /\ at \in Positions /\ File!CalculateOffset(newText') = File!PositionMove(at, d)
  <2>1. newText \in Seq(Characters)
    BY <1>4 DEF DiffTypes
  <2> QED BY <1>2, <1>3, <2>1, OffsetFacts, OffsetOfBoth
<1> HIDE DEF d, at
<1>7. CASE ~Waiting
  <2>1. WaitingInPlace' /\ DoneInPlace' /\ IsDiffState(state')
    BY <1>1, <1>2, <1>5, <1>7, NothingWaiting
  <2>2. ~Waiting'
    BY <1>3, <1>7 DEF Waiting
  <2>3. DiffTypes'
    BY <1>1, <1>3, <1>4, <2>1, <2>2 DEF DiffTypes, IsItem, Consumed
  <2> QED BY <1>3, <1>4, <2>1, <2>3 DEF Walking
<1>8. CASE Waiting
  <2> DEFINE loc == state.toDo["item"]
  <2>1. state.at = at /\ IsDiffState(state)
    BY <1>4, <1>8 DEF DiffTypes, at
  <2>2. /\ IsDiffState(state') /\ state'.at = File!PositionMove(at, d) /\ DOMAIN state'.done = {}
        /\ Waiting' => /\ ~(File!Gte(at, loc.start) /\ File!Gte(loc.end, at))
                       /\ state'.toDo["item"] = File!LocationAdd(loc, d, at.line = loc.start.line)
    <3>1. PICK s : s = state'
      OBVIOUS
    <3>2. /\ IsDiffState(s) /\ s.at = File!PositionMove(state.at, d) /\ DOMAIN s.done = {}
          /\ "item" \in DOMAIN s.toDo =>
               /\ ~(File!Gte(state.at, loc.start) /\ File!Gte(loc.end, state.at))
               /\ s.toDo["item"] = File!LocationAdd(loc, d, state.at.line = loc.start.line)
      BY <1>3, <1>8, <2>1, <3>1, AddedLeaves
    <3> QED BY <2>1, <3>1, <3>2 DEF Waiting
  <2> HIDE DEF loc
  <2>3. DiffTypes'
    BY <1>1, <1>3, <1>4, <1>6, <2>2 DEF DiffTypes, IsItem, Consumed
  <2>4. DoneInPlace'
    BY <2>2 DEF DoneInPlace, Done
  <2>5. Consumed' = Consumed /\ Body' = Body
    BY <1>1, <1>3 DEF Consumed, Body, Distance, Part
  <2>6. File!WholeLines' /\ Waiting' => Consumed' < item'.upto
    BY <1>3, <1>4, <1>8, <2>5 DEF WaitingInPlace
  <2>7. ASSUME Sound', Waiting' PROVE NotBegun'
    <3>1. NotBegun \/ Begun
      BY <1>3, <1>4, <1>8, <2>7 DEF WaitingInPlace
    <3>2. CASE Begun
      <4>1. /\ Consumed < item.upto /\ File!Gte(at, loc.start)
            /\ loc.end = File!PositionMove(at, Distance(item.text, Consumed, item.upto))
        BY <2>1, <3>2 DEF Begun, loc
      <4>2. Distance(item.text, Consumed, item.upto) \in Positions
        BY <1>4, <4>1, PlacesOfItem
      <4>3. File!Gte(loc.end, at)
        BY <1>6, <4>1, <4>2, MoveIsLater
      <4> QED BY <2>2, <2>7, <4>1, <4>3
    <3>3. CASE NotBegun
      <4> DEFINE gap == Distance(item.text, Consumed, item.from)
      <4>1. Consumed <= item.from /\ loc = Between(at, gap, Body)
        BY <2>1, <3>3 DEF NotBegun, loc
      <4>2. gap \in Positions /\ Body \in Positions
        BY <1>4, <4>1, PlacesOfItem
      <4>3. Aligned(at, d, Body)
        <5>1. /\ "added" \in {"added", "removed"}
              /\ newText' = IF "added" = "removed" THEN newText ELSE newText \o text
          BY <1>3
        <5> QED BY <1>2, <1>3, <1>4, <2>7, <5>1, ChangesAreAligned DEF at, d
      <4> HIDE DEF gap
      <4>4. File!LocationAdd(loc, d, at.line = loc.start.line) = Between(File!PositionMove(at, d), gap, Body)
        BY <1>6, <4>1, <4>2, <4>3, AddedMoves
      <4>5. state'.toDo["item"] = Between(state'.at, gap, Body')
        BY <2>2, <2>5, <2>7, <4>4
      <4>6. gap = Distance(item'.text, Consumed', item'.from)
        BY <1>3, <2>5 DEF gap
      <4>7. Consumed' <= item'.from
        BY <1>3, <2>5, <4>1
      <4> QED BY <4>5, <4>6, <4>7 DEF NotBegun
    <3> QED BY <3>1, <3>2, <3>3
  <2>8. WaitingInPlace'
    BY <2>6, <2>7 DEF WaitingInPlace
  <2> QED BY <1>3, <1>4, <2>3, <2>4, <2>8 DEF Walking
<1> QED BY <1>7, <1>8

LEMMA RemovedKeeps ==
  ASSUME Walking, File!Removed PROVE Walking'
<1>1. PICK n \in 1..Len(oldText) : File!Consume("removed", n)
  BY DEF File!Removed
<1>4. DiffTypes /\ LinesStart /\ WaitingInPlace /\ DoneInPlace /\ item # << >> /\ tests = << >>
  BY DEF Walking
<1>a. PICK text \in Seq(Characters) \ {<< >>} : \E further \in Seq(Nat) :
        /\ Consumed' = Consumed + n /\ Consumed' <= Len(item.text)
        /\ text = Part(item.text, Consumed, Consumed') /\ File!Change("removed", text)
        /\ oldText' = Part(item.text, Consumed', Len(item.text))
        /\ places' = places \o further /\ places' \in Seq(Nat)
  BY <1>1, <1>4, ConsumeFacts
<1>b. PICK further \in Seq(Nat) :
        /\ Consumed' = Consumed + n /\ Consumed' <= Len(item.text)
        /\ text = Part(item.text, Consumed, Consumed') /\ File!Change("removed", text)
        /\ oldText' = Part(item.text, Consumed', Len(item.text))
        /\ places' = places \o further /\ places' \in Seq(Nat)
  BY <1>a
<1>2. text \in Seq(Characters) \ {<< >>}
  BY <1>a
<1> DEFINE d == File!CalculateOffset(text)
           at == File!CalculateOffset(newText)
<1>3. /\ script' = Append(script, [kind |-> "removed", text |-> text]) /\ script' \in Seq(Changes) /\ script' # << >>
      /\ newText' = newText /\ newText' \in Seq(Characters)
      /\ item' = item /\ tests' = tests /\ LinesStart'
      /\ (File!WholeLines \/ File!WithinLines)' => Sound
      /\ File!WholeLines' => File!WholeLines
      /\ Sound' => (File!WholeLines \/ File!WithinLines)'
      /\ ~Waiting => state' = state
      /\ Waiting => state' = File!AfterRemoved(state, d)
  BY <1>b, <1>2, ChangeFacts
<1>6. d \in Positions /\ at \in Positions /\ d = Distance(item.text, Consumed, Consumed')
  <2>1. newText \in Seq(Characters)
    BY <1>4 DEF DiffTypes
  <2>2. d = Distance(item.text, Consumed, Consumed')
    BY <1>b DEF Distance
  <2> QED BY <1>2, <2>1, <2>2, OffsetFacts
<1> HIDE DEF d, at
<1>7. CASE ~Waiting
  <2>1. WaitingInPlace' /\ DoneInPlace' /\ IsDiffState(state')
    BY <1>b, <1>2, <1>7, NothingWaiting
  <2>2. ~Waiting'
    BY <1>3, <1>7 DEF Waiting
  <2>3. DiffTypes'
    BY <1>b, <1>3, <1>4, <2>1, <2>2 DEF DiffTypes, IsItem
  <2> QED BY <1>3, <1>4, <2>1, <2>3 DEF Walking
<1>8. CASE Waiting
  <2> DEFINE loc == state.toDo["item"]
  <2>1. state.at = at /\ IsDiffState(state)
    BY <1>4, <1>8 DEF DiffTypes, at
  <2>2. /\ IsDiffState(state') /\ state'.at = at /\ DOMAIN state'.done = {}
        /\ Waiting' => /\ ~File!Gte(File!PositionMove(at, d), loc.start)
                       /\ state'.toDo["item"] = File!LocationAdd(loc, File!Negate(d), at.line = loc.start.line)
    <3>1. PICK s : s = state'
      OBVIOUS
    <3>2. /\ IsDiffState(s) /\ s.at = state.at /\ DOMAIN s.done = {}
          /\ "item" \in DOMAIN s.toDo =>
               /\ ~File!Gte(File!PositionMove(state.at, d), loc.start)
               /\ s.toDo["item"] = File!LocationAdd(loc, File!Negate(d), state.at.line = loc.start.line)
      BY <1>3, <1>8, <2>1, <3>1, RemovedLeaves
    <3> QED BY <2>1, <3>1, <3>2 DEF Waiting
  <2> HIDE DEF loc
  <2>3. DiffTypes'
    BY <1>b, <1>3, <1>4, <2>1, <2>2 DEF DiffTypes, IsItem, at
  <2>4. DoneInPlace'
    BY <2>2 DEF DoneInPlace, Done
  <2>5. Body' = Body
    BY <1>3 DEF Body, Distance, Part
  <2>x. PICK x \in Seq(Characters) : x = item.text
    BY <1>4, PlacesOfItem
  <2>f. PICK f \in Nat, u \in Nat, c \in Nat, e \in Nat :
          /\ f = item.from /\ u = item.upto /\ c = Consumed /\ e = Consumed'
          /\ f < u /\ u <= Len(x) /\ c < e /\ e <= Len(x)
    <3>1. n \in Nat /\ n >= 1
      OBVIOUS
    <3> QED BY <1>b, <1>4, <2>x, <3>1, PlacesOfItem
  <2>7. ASSUME (File!WholeLines \/ File!WithinLines)', Waiting' PROVE NotBegun /\ e < f
    <3>1. NotBegun \/ Begun
      BY <1>3, <1>4, <1>8, <2>7 DEF WaitingInPlace
    <3>2. CASE Begun
      <4>1. File!Gte(at, loc.start)
        BY <2>1, <3>2 DEF Begun, loc
      <4>2. File!Gte(File!PositionMove(at, d), at)
        BY <1>6, MoveIsLater
      <4>3. loc.start \in Positions /\ File!PositionMove(at, d) \in Positions
        BY <1>6, <3>2, MoveIsPosition DEF Begun, loc
      <4>4. File!Gte(File!PositionMove(at, d), loc.start)
        BY <1>6, <4>1, <4>2, <4>3, GteFacts
      <4> QED BY <2>2, <2>7, <4>4
    <3>3. CASE NotBegun
      <4>1. c <= f /\ loc.start = File!PositionMove(at, Distance(x, c, f))
        BY <2>x, <2>f, <2>1, <3>3 DEF NotBegun, loc, Between
      <4>2. ~File!Gte(File!PositionMove(at, Distance(x, c, e)), File!PositionMove(at, Distance(x, c, f)))
        BY <1>6, <2>2, <2>7, <2>x, <2>f, <4>1
      <4>3. c <= e /\ f <= Len(x)
        BY <2>x, <2>f, LenProperties
      <4>4. ~(e >= f)
        BY <1>6, <2>x, <2>f, <4>1, <4>2, <4>3, FurtherIsLater
      <4> QED BY <2>f, <3>3, <4>4
    <3> QED BY <3>1, <3>2, <3>3
  <2>6. File!WholeLines' /\ Waiting' => Consumed' < item'.upto
    BY <1>3, <2>f, <2>7
  <2>8. ASSUME Sound', Waiting' PROVE NotBegun'
    <3> DEFINE gap == Distance(x, c, f)  less == Distance(x, e, f)
    <3>1. NotBegun /\ e < f
      BY <1>3, <2>7, <2>8
    <3>2. c <= f /\ loc = Between(at, gap, Body)
      BY <2>x, <2>f, <2>1, <3>1 DEF NotBegun, loc
    <3>3. c <= e /\ e <= f /\ f <= Len(x)
      BY <2>x, <2>f, <3>1, LenProperties
    <3>4. gap = File!PositionMove(d, less)
      BY <1>6, <2>x, <2>f, <3>3, DistancesAdd
    <3>5. less \in Positions /\ Body \in Positions
      BY <1>4, <2>x, <2>f, <3>3, DistanceFacts, PlacesOfItem
    <3>6. Aligned(at, d, Body)
      <4>1. /\ "removed" \in {"added", "removed"}
            /\ newText' = IF "removed" = "removed" THEN newText ELSE newText \o text
        BY <1>3
      <4> QED BY <1>2, <1>3, <1>4, <2>8, <4>1, ChangesAreAligned DEF at, d
    <3> HIDE DEF gap, less
    <3>7. File!LocationAdd(loc, File!Negate(d), at.line = loc.start.line) = Between(at, less, Body)
      BY <1>6, <3>2, <3>4, <3>5, <3>6, RemovedMoves
    <3>8. state'.toDo["item"] = Between(state'.at, less, Body')
      BY <2>2, <2>5, <2>8, <3>7
    <3>9. less = Distance(item'.text, Consumed', item'.from) /\ Consumed' <= item'.from
      BY <1>3, <2>x, <2>f, <3>1 DEF less
    <3> QED BY <3>8, <3>9 DEF NotBegun
  <2>9. WaitingInPlace'
    BY <2>6, <2>8 DEF WaitingInPlace
  <2> QED BY <1>3, <1>4, <2>3, <2>4, <2>9 DEF Walking
<1> QED BY <1>7, <1>8

\* What the new text has where equal text is put.
LEMMA PlaceOfEqual ==
  ASSUME NEW text \in Seq(Characters), NEW new \in Seq(Characters), NEW c \in Nat, NEW e \in Nat, NEW j \in Nat,
         c <= j, j <= e, e <= Len(text)
  PROVE  File!CalculateOffset(SubSeq(new \o Part(text, c, e), 1, Len(new) + (j - c)))
           = File!PositionMove(File!CalculateOffset(new), Distance(text, c, j))
<1>0. Len(text) \in Nat /\ j <= Len(text) /\ c <= e /\ c <= Len(text)
  BY LenProperties
<1>1. PICK a, b : a = Part(text, c, j) /\ b = Part(text, j, e)
  OBVIOUS
<1>2. a \in Seq(Characters) /\ b \in Seq(Characters) /\ Len(a) = j - c
  BY <1>0, <1>1, PartFacts
<1>3. Part(text, c, e) = a \o b
  BY <1>1, PartsJoin
<1>4. SubSeq(a \o b, 1, j - c) = a
  <2>1. Len(a) \in 0..Len(a)
    BY <1>2, LenProperties
  <2>2. SubSeq(a \o b, 1, Len(a)) = SubSeq(a, 1, Len(a))
    BY <1>2, <2>1, StartOfBoth
  <2>3. SubSeq(a, 1, Len(a)) = a
    BY <1>2, WholeSequence
  <2> QED BY <1>2, <2>2, <2>3
<1>5. PICK both : both = a \o b
  OBVIOUS
<1>6. both \in Seq(Characters) /\ j - c \in 0..Len(both)
  <2>1. a \o b \in Seq(Characters) /\ Len(a \o b) = Len(a) + Len(b)
    BY <1>2, JoinFacts
  <2>2. Len(b) \in Nat
    BY <1>2, LenProperties
  <2> QED BY <1>2, <1>5, <2>1, <2>2
<1>7. SubSeq(new \o both, 1, Len(new) + (j - c)) = new \o SubSeq(both, 1, j - c)
  <2>1. \A k \in 0..Len(both) : SubSeq(new \o both, 1, Len(new) + k) = new \o SubSeq(both, 1, k)
    <3>1. both \in Seq(Characters)
      BY <1>6
    <3> QED BY <3>1, StartOfBoth
  <2> QED BY <1>6, <2>1
<1>8. File!CalculateOffset(new \o a) = File!PositionMove(File!CalculateOffset(new), File!CalculateOffset(a))
  BY <1>2, OffsetOfBoth
<1> QED BY <1>1, <1>3, <1>4, <1>5, <1>7, <1>8 DEF Distance

\* An item that is not reached yet, when all in front of it is nearer.
LEMMA NearerItem ==
  ASSUME NEW at \in Positions, NEW d \in Positions, NEW less \in Positions, NEW body \in Positions
  PROVE  Between(at, File!PositionMove(d, less), body) = Between(File!PositionMove(at, d), less, body)
<1>1. File!PositionMove(less, body) \in Positions
  BY MoveIsPosition
<1>2. File!PositionMove(at, File!PositionMove(d, less)) = File!PositionMove(File!PositionMove(at, d), less)
  BY MoveAssociates
<1>3. File!PositionMove(File!PositionMove(d, less), body) = File!PositionMove(d, File!PositionMove(less, body))
  BY MoveAssociates
<1>4. File!PositionMove(at, File!PositionMove(d, File!PositionMove(less, body)))
        = File!PositionMove(File!PositionMove(at, d), File!PositionMove(less, body))
  BY <1>1, MoveAssociates
<1> QED BY <1>2, <1>3, <1>4 DEF Between

LEMMA EqualKeeps ==
  ASSUME Walking, File!Equal PROVE Walking'
<1>1. PICK n \in 1..Len(oldText) : File!Consume("equal", n)
  BY DEF File!Equal
<1>4. DiffTypes /\ LinesStart /\ WaitingInPlace /\ DoneInPlace /\ item # << >> /\ tests = << >>
  BY DEF Walking
<1>a. PICK text \in Seq(Characters) \ {<< >>} : \E further \in Seq(Nat) :
        /\ Consumed' = Consumed + n /\ Consumed' <= Len(item.text)
        /\ text = Part(item.text, Consumed, Consumed') /\ File!Change("equal", text)
        /\ oldText' = Part(item.text, Consumed', Len(item.text))
        /\ places' = places \o further /\ places' \in Seq(Nat)
        /\ \A k \in 1..n : places'[Consumed + k] = Len(newText) + k
  BY <1>1, <1>4, ConsumeFacts
<1>b. PICK further \in Seq(Nat) :
        /\ Consumed' = Consumed + n /\ Consumed' <= Len(item.text)
        /\ text = Part(item.text, Consumed, Consumed') /\ File!Change("equal", text)
        /\ oldText' = Part(item.text, Consumed', Len(item.text))
        /\ places' = places \o further /\ places' \in Seq(Nat)
        /\ \A k \in 1..n : places'[Consumed + k] = Len(newText) + k
  BY <1>a
<1>2. text \in Seq(Characters) \ {<< >>}
  BY <1>a
<1> DEFINE d == File!CalculateOffset(text)
           at == File!CalculateOffset(newText)
<1>3. /\ script' = Append(script, [kind |-> "equal", text |-> text]) /\ script' \in Seq(Changes) /\ script' # << >>
      /\ File!Last(script').kind = "equal" /\ (script # << >> => File!Last(script).kind # "equal")
      /\ newText' = newText \o text /\ newText' \in Seq(Characters)
      /\ item' = item /\ tests' = tests /\ LinesStart'
      /\ (File!WholeLines \/ File!WithinLines)' => Sound
      /\ Sound' => (File!WholeLines \/ File!WithinLines)'
      /\ ~Waiting => state' = state
      /\ Waiting => state' = File!AfterEqual(state, d)
  BY <1>b, <1>2, ChangeFacts
<1>5. newText \in Seq(Characters)
  BY <1>4 DEF DiffTypes
<1>6. /\ d \in Positions /\ at \in Positions /\ d = Distance(item.text, Consumed, Consumed')
      /\ File!CalculateOffset(newText') = File!PositionMove(at, d)
  <2>1. d = Distance(item.text, Consumed, Consumed')
    BY <1>b DEF Distance
  <2> QED BY <1>2, <1>3, <1>5, <2>1, OffsetFacts, OffsetOfBoth
<1> HIDE DEF d, at
<1>7. CASE ~Waiting
  <2>1. WaitingInPlace' /\ DoneInPlace' /\ IsDiffState(state')
    BY <1>b, <1>2, <1>7, NothingWaiting
  <2>2. ~Waiting'
    BY <1>3, <1>7 DEF Waiting
  <2>3. DiffTypes'
    BY <1>b, <1>3, <1>4, <2>1, <2>2 DEF DiffTypes, IsItem
  <2> QED BY <1>3, <1>4, <2>1, <2>3 DEF Walking
<1>8. CASE Waiting
  <2> DEFINE loc == state.toDo["item"]
  <2>1. state.at = at /\ IsDiffState(state)
    BY <1>4, <1>8 DEF DiffTypes, at
  <2>2. /\ IsDiffState(state') /\ state'.at = File!PositionMove(at, d)
        /\ Waiting' => ~File!Gte(File!PositionMove(at, d), loc.end) /\ state'.toDo["item"] = loc
        /\ Done' => File!Gte(File!PositionMove(at, d), loc.end) /\ state'.done["item"] = loc
    <3>1. PICK s : s = state'
      OBVIOUS
    <3>2. /\ IsDiffState(s) /\ s.at = File!PositionMove(state.at, d)
          /\ "item" \in DOMAIN s.toDo => ~File!Gte(s.at, state.toDo["item"].end) /\ s.toDo["item"] = state.toDo["item"]
          /\ "item" \in DOMAIN s.done => File!Gte(s.at, state.toDo["item"].end) /\ s.done["item"] = state.toDo["item"]
      BY <1>3, <1>8, <2>1, <3>1, EqualLeaves
    <3> QED BY <2>1, <3>1, <3>2 DEF Waiting, Done
  <2> HIDE DEF loc
  <2>3. DiffTypes'
    BY <1>b, <1>3, <1>4, <1>6, <2>2 DEF DiffTypes, IsItem
  <2>5. Body' = Body
    BY <1>3 DEF Body, Distance, Part
  <2>x. PICK x \in Seq(Characters) : x = item.text
    BY <1>4, PlacesOfItem
  <2>f. PICK f \in Nat, u \in Nat, c \in Nat, e \in Nat :
          /\ f = item.from /\ u = item.upto /\ c = Consumed /\ e = Consumed' /\ e = c + n
          /\ f < u /\ u <= Len(x) /\ f <= Len(x) /\ c < e /\ e <= Len(x) /\ c <= e /\ f <= u
    <3>1. n \in Nat /\ n >= 1
      OBVIOUS
    <3>2. PICK size \in Nat : size = Len(x)
      BY <2>x, LenProperties
    <3>3. /\ item.from \in Nat /\ item.upto \in Nat /\ Consumed \in Nat
          /\ item.from < item.upto /\ item.upto <= size
      BY <1>4, <2>x, <3>2, PlacesOfItem
    <3>4. Consumed' = Consumed + n /\ Consumed' <= size
      BY <1>b, <2>x, <3>2
    <3> QED BY <3>1, <3>2, <3>3, <3>4
  <2>n. f < u /\ c < e /\ e = c + n
    BY <2>f
  <2>m. PICK m \in Nat : m = Len(newText)
    BY <1>5, LenProperties
  <2>6. Body \in Positions /\ Body = Distance(x, f, u) /\ d = Distance(x, c, e)
    BY <1>4, <1>6, <2>x, <2>f, PlacesOfItem DEF Body
  <2>7. ASSUME (File!WholeLines \/ File!WithinLines)'
        PROVE  /\ c <= f /\ loc = Between(at, Distance(x, c, f), Body)
               /\ loc.start = File!PositionMove(at, Distance(x, c, f))
               /\ loc.end = File!PositionMove(at, Distance(x, c, u))
               /\ File!Gte(File!PositionMove(at, d), loc.end) <=> e >= u
    <3>1. NotBegun \/ Begun
      BY <1>3, <1>4, <1>8, <2>7 DEF WaitingInPlace
    <3>2. ~Begun
      BY <1>3 DEF Begun
    <3>3. c <= f /\ loc = Between(at, Distance(x, c, f), Body)
      BY <2>1, <2>x, <2>f, <3>1, <3>2 DEF NotBegun, loc
    <3>4. Distance(x, c, u) = File!PositionMove(Distance(x, c, f), Body)
      BY <2>x, <2>f, <2>6, <3>3, DistancesAdd
    <3>5. loc.start = File!PositionMove(at, Distance(x, c, f)) /\ loc.end = File!PositionMove(at, Distance(x, c, u))
      BY <3>3, <3>4 DEF Between
    <3>6. c <= u
      BY <2>f, <3>3
    <3>7. File!Gte(File!PositionMove(at, Distance(x, c, e)), File!PositionMove(at, Distance(x, c, u))) <=> e >= u
      BY <1>6, <2>x, <2>f, <3>6, FurtherIsLater
    <3> QED BY <2>6, <3>3, <3>5, <3>7
  <2>8. ASSUME (File!WholeLines \/ File!WithinLines)', Waiting' PROVE NotBegun' \/ Begun'
    <3>0. c <= f /\ ~(e >= u) /\ c <= u
      BY <2>2, <2>7, <2>8, <2>f
    <3>1. CASE e <= f
      <4> DEFINE less == Distance(x, e, f)
      <4>1. Distance(x, c, f) = File!PositionMove(d, less)
        BY <2>x, <2>f, <2>6, <3>1, DistancesAdd
      <4>2. less \in Positions
        BY <2>x, <2>f, <3>1, DistanceFacts
      <4> HIDE DEF less
      <4>3. loc = Between(File!PositionMove(at, d), less, Body)
        BY <1>6, <2>6, <2>7, <2>8, <4>1, <4>2, NearerItem
      <4>4. state'.toDo["item"] = Between(state'.at, less, Body')
        BY <2>2, <2>5, <2>8, <4>3
      <4>5. less = Distance(item'.text, Consumed', item'.from) /\ Consumed' <= item'.from
        BY <1>3, <2>x, <2>f, <3>1 DEF less
      <4> QED BY <4>4, <4>5 DEF NotBegun
    <3>2. CASE ~(e <= f)
      <4>1. item'.from < Consumed' /\ Consumed' < item'.upto
        <5>1. f < e /\ e < u
          BY <3>0, <3>2
        <5> QED BY <1>3, <2>f, <5>1
      <4>2. File!Gte(File!PositionMove(at, d), loc.start)
        <5>1. e >= f
          BY <2>f, <3>2
        <5>2. File!Gte(File!PositionMove(at, Distance(x, c, e)), File!PositionMove(at, Distance(x, c, f))) <=> e >= f
          BY <1>6, <2>x, <2>f, <3>0, FurtherIsLater
        <5> QED BY <2>6, <2>7, <2>8, <5>1, <5>2
      <4>3. loc.end = File!PositionMove(File!PositionMove(at, d), Distance(x, e, u))
        <5>1. e <= u
          BY <2>f, <3>0
        <5>2. Distance(x, c, u) = File!PositionMove(d, Distance(x, e, u))
          BY <2>x, <2>f, <2>6, <5>1, DistancesAdd
        <5>3. Distance(x, e, u) \in Positions
          BY <2>x, <2>f, <5>1, DistanceFacts
        <5>4. File!PositionMove(File!PositionMove(at, d), Distance(x, e, u))
                = File!PositionMove(at, File!PositionMove(d, Distance(x, e, u)))
          BY <1>6, <5>3, MoveAssociates
        <5> QED BY <2>7, <2>8, <5>2, <5>4
      <4>4. loc.start \in Positions
        <5>1. Distance(x, c, f) \in Positions
          BY <2>f, <3>0, DistanceFacts
        <5> QED BY <1>6, <2>7, <2>8, <5>1, MoveIsPosition
      <4>5. /\ state'.toDo["item"].start \in Positions /\ File!Gte(state'.at, state'.toDo["item"].start)
            /\ state'.toDo["item"].end = File!PositionMove(state'.at, Distance(item'.text, Consumed', item'.upto))
        BY <1>3, <2>2, <2>8, <2>x, <2>f, <4>2, <4>3, <4>4
      <4> QED BY <1>3, <4>1, <4>5 DEF Begun
    <3> QED BY <3>1, <3>2
  <2>9. WaitingInPlace'
    <3>1. Sound' /\ Waiting' => NotBegun' \/ Begun'
      BY <1>3, <2>8
    <3>2. File!WholeLines' /\ Waiting' => Consumed' < item'.upto
      BY <1>3, <2>2, <2>7, <2>f
    <3> QED BY <3>1, <3>2 DEF WaitingInPlace
  <2>10. ASSUME (File!WholeLines \/ File!WithinLines)', Done'
         PROVE  /\ item'.upto <= Consumed' /\ File!Untouched'
                /\ places'[item'.from + 1] - 1 + item'.upto - item'.from <= Len(newText')
                /\ state'.done["item"] = File!TrueLocation'
    <3>0. c <= f /\ u <= e /\ c <= u
      BY <2>2, <2>7, <2>10, <2>f
    <3>1. PICK now : now = places'
      OBVIOUS
    <3>2. \A k \in (f + 1)..u : now[k] = m + (k - c)
      <4> SUFFICES ASSUME NEW k \in (f + 1)..u PROVE now[k] = m + (k - c)
        OBVIOUS
      <4>1. k - c \in 1..n /\ c + (k - c) = k
        BY <2>f, <3>0
      <4>2. now[c + (k - c)] = m + (k - c)
        BY <1>b, <2>f, <2>m, <3>1, <4>1
      <4> QED BY <4>1, <4>2
    <3>3. now[f + 1] = m + (f + 1 - c)
      <4>1. f + 1 \in (f + 1)..u
        BY <2>f
      <4> QED BY <3>2, <4>1
    <3>4. File!Untouched'
      <4>1. \A k \in (f + 1)..u : now[k] # 0 /\ now[k] = now[f + 1] + k - (f + 1)
        <5> SUFFICES ASSUME NEW k \in (f + 1)..u PROVE now[k] # 0 /\ now[k] = now[f + 1] + k - (f + 1)
          OBVIOUS
        <5>1. now[k] = m + (k - c)
          BY <3>2
        <5>2. m + (k - c) # 0 /\ m + (k - c) = m + (f + 1 - c) + k - (f + 1)
          <6>1. k \in Nat /\ c < k
            BY <3>0
          <6> QED BY <6>1
        <5> QED BY <3>3, <5>1, <5>2
      <4> QED BY <1>3, <2>f, <3>1, <4>1 DEF File!Untouched
    <3>5. now[f + 1] - 1 = m + (f - c) /\ m + (f - c) + u - f = m + (u - c)
      <4>1. (m + (f + 1 - c)) - 1 = m + (f - c) /\ m + (f - c) + u - f = m + (u - c)
        OBVIOUS
      <4> QED BY <3>3, <4>1
    <3>6. PICK new : new = newText \o Part(x, c, e)
      OBVIOUS
    <3>7. newText' = new
      BY <1>b, <1>3, <2>x, <2>f, <3>6
    <3>8. m + (u - c) <= Len(new)
      <4>1. Part(x, c, e) \in Seq(Characters) /\ Len(Part(x, c, e)) = e - c
        <5>1. c <= e /\ e <= Len(x)
          BY <2>f
        <5> QED BY <5>1, PartOfText
      <4>2. Len(newText \o Part(x, c, e)) = Len(newText) + Len(Part(x, c, e))
        BY <1>5, <4>1, JoinFacts
      <4>3. Len(new) = m + (e - c)
        BY <2>m, <3>6, <4>1, <4>2
      <4>4. m + (u - c) <= m + (e - c)
        BY <2>f, <2>m, <3>0
      <4> QED BY <4>3, <4>4
    <3>9. /\ File!CalculateOffset(SubSeq(new, 1, m + (f - c))) = File!PositionMove(at, Distance(x, c, f))
          /\ File!CalculateOffset(SubSeq(new, 1, m + (u - c))) = File!PositionMove(at, Distance(x, c, u))
      <4>1. f <= e
        BY <2>f, <3>0
      <4>2. /\ File!CalculateOffset(SubSeq(newText \o Part(x, c, e), 1, Len(newText) + (f - c)))
                 = File!PositionMove(File!CalculateOffset(newText), Distance(x, c, f))
            /\ File!CalculateOffset(SubSeq(newText \o Part(x, c, e), 1, Len(newText) + (u - c)))
                 = File!PositionMove(File!CalculateOffset(newText), Distance(x, c, u))
        <5>1. e <= Len(x)
          BY <2>f
        <5> QED BY <1>5, <3>0, <4>1, <5>1, PlaceOfEqual
      <4> QED BY <2>m, <3>6, <4>2 DEF at
    <3>10. File!TrueLocation' = loc
      <4>1. File!TrueLocation' = [start |-> File!CalculateOffset(SubSeq(new, 1, m + (f - c))),
                                  end |-> File!CalculateOffset(SubSeq(new, 1, m + (u - c)))]
        BY <1>3, <2>f, <3>1, <3>5, <3>7 DEF File!TrueLocation, File!LocationIn
      <4>2. loc = [start |-> loc.start, end |-> loc.end]
        BY <2>7, <2>10 DEF Between
      <4> QED BY <2>7, <2>10, <3>9, <4>1, <4>2
    <3>11. places'[item'.from + 1] - 1 + item'.upto - item'.from <= Len(newText')
      BY <1>3, <2>f, <3>1, <3>5, <3>7, <3>8
    <3>12. item'.upto <= Consumed'
      BY <1>3, <2>f, <3>0
    <3> QED BY <2>2, <2>10, <3>4, <3>10, <3>11, <3>12
  <2>11. DoneInPlace'
    BY <2>10 DEF DoneInPlace
  <2> QED BY <1>3, <1>4, <2>3, <2>9, <2>11 DEF Walking
<1> QED BY <1>7, <1>8

LEMMA WalkBegins ==
  ASSUME NothingBegun, File!Begin PROVE Walking'
<1>1. PICK text \in File!Texts(MaxText) : \E from \in 0..(Len(text) - 1) : \E upto \in (from + 1)..Len(text) :
        /\ oldText' = text /\ item' = [from |-> from, upto |-> upto, text |-> text]
        /\ state' = [state EXCEPT !.toDo = [i \in {"item"} |-> File!LocationIn(text, from, upto)]]
  BY DEF File!Begin
<1>2. PICK from \in 0..(Len(text) - 1) : \E upto \in (from + 1)..Len(text) :
        /\ oldText' = text /\ item' = [from |-> from, upto |-> upto, text |-> text]
        /\ state' = [state EXCEPT !.toDo = [i \in {"item"} |-> File!LocationIn(text, from, upto)]]
  BY <1>1
<1>3. PICK upto \in (from + 1)..Len(text) :
        /\ oldText' = text /\ item' = [from |-> from, upto |-> upto, text |-> text]
        /\ state' = [state EXCEPT !.toDo = [i \in {"item"} |-> File!LocationIn(text, from, upto)]]
  BY <1>2
<1>4. newText' = << >> /\ places' = << >> /\ script' = << >> /\ tests' = << >>
  BY DEF NothingBegun, File!Begin
<1>5. text \in Seq(Characters)
  BY <1>1, TextFacts
<1>6. PICK n \in Nat : n = Len(text)
  BY <1>5, LenProperties
<1>f. PICK f \in Nat, u \in Nat : f = from /\ u = upto /\ f < u /\ u <= n /\ f <= n /\ f <= u
  <2>1. from \in 0..(n - 1)
    BY <1>2, <1>6
  <2>2. upto \in (from + 1)..n
    BY <1>3, <1>6
  <2> QED BY <1>6, <2>1, <2>2
<1>7. PICK loc : loc = File!LocationIn(text, f, u)
  OBVIOUS
<1>8. PICK toDo : toDo = [i \in {"item"} |-> loc]
  OBVIOUS
<1>9. DOMAIN toDo = {"item"} /\ toDo["item"] = loc
  BY <1>8
<1>10. state' = [toDo |-> toDo, done |-> << >>, at |-> Start]
  <2>1. state = [toDo |-> << >>, done |-> << >>, at |-> Start]
    BY DEF NothingBegun
  <2>2. state' = [state EXCEPT !.toDo = toDo]
    BY <1>3, <1>f, <1>7, <1>8
  <2> QED BY <2>1, <2>2
<1>11. state'.toDo = toDo /\ state'.done = << >> /\ state'.at = Start /\ DOMAIN state'.done = {}
  <2>1. DOMAIN << >> = {}
    OBVIOUS
  <2> QED BY <1>10, <2>1
<1>12. item'.from = f /\ item'.upto = u /\ item'.text = text /\ item' # << >>
  BY <1>3, <1>f
<1>13. << >> \in Seq(Nat) /\ << >> \in Seq(Characters) /\ << >> \in Seq(Changes) /\ Len(<< >>) = 0
  BY EmptySeq
<1>14. Consumed' = 0
  BY <1>4, <1>13 DEF Consumed
<1>15. Waiting' /\ ~Done'
  BY <1>9, <1>11 DEF Waiting, Done
<1>16. File!CalculateOffset(<< >>) = Start
  BY <1>13, OffsetFacts
<1>17. Part(text, 0, n) = text
  <2>1. SubSeq(text, 1, n) = text
    BY <1>5, <1>6, WholeSequence
  <2> QED BY <2>1 DEF Part
<1>18. DiffTypes'
  <2>1. IsItem(item')
    BY <1>5, <1>6, <1>f, <1>12 DEF IsItem
  <2>2. IsDiffState(state')
    BY <1>9, <1>10, <1>11 DEF IsDiffState
  <2>3. oldText' = Part(item'.text, Consumed', Len(item'.text)) /\ Consumed' <= Len(item'.text)
    BY <1>3, <1>6, <1>12, <1>14, <1>17
  <2> QED BY <1>4, <1>11, <1>13, <1>16, <2>1, <2>2, <2>3 DEF DiffTypes
<1>19. LinesStart'
  BY <1>4 DEF LinesStart
<1>20. NotBegun'
  <2> DEFINE gap == Distance(text, 0, f)  body == Distance(text, f, u)
  <2>1. f <= Len(text) /\ u <= Len(text) /\ 0 <= f
    BY <1>6, <1>f
  <2>2. gap \in Positions /\ body \in Positions
    BY <1>5, <1>f, <2>1, DistanceFacts
  <2>3. Distance(text, 0, u) = File!PositionMove(gap, body)
    BY <1>5, <1>f, <2>1, DistancesAdd
  <2>4. /\ File!CalculateOffset(SubSeq(text, 1, f)) = gap
        /\ File!CalculateOffset(SubSeq(text, 1, u)) = File!PositionMove(gap, body)
    BY <2>3 DEF Distance, Part
  <2> HIDE DEF gap, body
  <2>5. loc = [start |-> gap, end |-> File!PositionMove(gap, body)]
    BY <1>7, <2>4 DEF File!LocationIn
  <2>6. Between(Start, gap, body) = loc
    <3>1. File!PositionMove(gap, body) \in Positions
      BY <2>2, MoveIsPosition
    <3>2. Start \in Positions
      BY DEF Start, File!Pos, Positions
    <3>3. File!PositionMove(Start, gap) = gap /\ File!PositionMove(Start, File!PositionMove(gap, body)) = File!PositionMove(gap, body)
      BY <2>2, <3>1, <3>2, MoveIsPosition
    <3> QED BY <2>5, <3>3 DEF Between
  <2>7. Body' = body
    BY <1>12 DEF Body, Distance, Part, body
  <2>8. state'.toDo["item"] = Between(state'.at, Distance(item'.text, Consumed', item'.from), Body')
    BY <1>9, <1>11, <1>12, <1>14, <2>6, <2>7 DEF gap
  <2>9. Consumed' <= item'.from
    BY <1>f, <1>12, <1>14
  <2> QED BY <2>8, <2>9 DEF NotBegun
<1>21. WaitingInPlace'
  <2>1. Consumed' < item'.upto
    BY <1>f, <1>12, <1>14
  <2> QED BY <1>20, <2>1 DEF WaitingInPlace
<1>22. DoneInPlace'
  BY <1>15 DEF DoneInPlace
<1> QED BY <1>4, <1>12, <1>18, <1>19, <1>21, <1>22 DEF Walking

\* The tests of a file are in order on each line.
InOrder(starts) ==
  /\ starts \in Seq(Positions)
  /\ \A i, j \in 1..Len(starts) : i < j /\ starts[i].line = starts[j].line => File!Gte(starts[j], starts[i])

TestsMade == tests # << >> => InOrder(tests.starts) /\ tests.closed = File!CloseLocations(tests.starts)

FileInv == (NothingBegun \/ Walking) /\ TestsMade

LEMMA FileInit == File!Init => FileInv
BY DEF File!Init, FileInv, NothingBegun, TestsMade, Start

LEMMA TestsAreMade ==
  ASSUME File!Close PROVE TestsMade'
<1>1. PICK starts \in File!BoundedSeq(File!TestPositions, 3) :
        /\ \A i, j \in 1..Len(starts) :
             i < j /\ starts[i].line = starts[j].line => File!Gte(starts[j], starts[i])
        /\ tests' = [starts |-> starts, closed |-> File!CloseLocations(starts)]
  BY DEF File!Close
<1>2. File!TestPositions \subseteq Positions
  BY DEF File!TestPositions, File!Pos, Positions
<1>3. starts \in Seq(File!TestPositions)
  BY <1>1 DEF File!BoundedSeq, File!SeqOf
<1>4. PICK n \in Nat : starts \in [1..n -> File!TestPositions]
  BY <1>3, LenProperties
<1>5. starts \in [1..n -> Positions]
  BY <1>2, <1>4
<1>6. starts \in Seq(Positions)
  BY <1>5
<1>7. InOrder(starts)
  BY <1>1, <1>6 DEF InOrder
<1>8. tests'.starts = starts /\ tests'.closed = File!CloseLocations(starts)
  BY <1>1
<1> QED BY <1>7, <1>8 DEF TestsMade

LEMMA FileInvStep == FileInv /\ [File!Next]_fileVars => FileInv'
<1> SUFFICES ASSUME FileInv, [File!Next]_fileVars PROVE FileInv'
  OBVIOUS
<1>1. CASE File!Begin
  <2>1. NothingBegun
    BY <1>1 DEF FileInv, File!Begin, Walking
  <2>2. tests' = tests /\ tests = << >>
    BY <1>1 DEF File!Begin
  <2> QED BY <1>1, <2>1, <2>2, WalkBegins DEF FileInv, TestsMade
<1>2. CASE File!Added \/ File!Removed \/ File!Equal
  <2>1. item # << >> /\ tests' = tests
    BY <1>2 DEF File!Added, File!Removed, File!Equal, File!Consume, File!Change, File!MayFollow
  <2>2. Walking
    BY <2>1 DEF FileInv, NothingBegun
  <2>3. tests = << >>
    BY <2>2 DEF Walking
  <2> QED BY <1>2, <2>1, <2>2, <2>3, AddedKeeps, RemovedKeeps, EqualKeeps DEF FileInv, TestsMade
<1>3. CASE File!Close
  <2>1. NothingBegun
    BY <1>3 DEF FileInv, File!Close, Walking
  <2>2. NothingBegun'
    BY <1>3, <2>1 DEF NothingBegun, File!Close
  <2> QED BY <1>3, <2>2, TestsAreMade DEF FileInv
<1>4. CASE UNCHANGED fileVars
  <2>1. /\ oldText' = oldText /\ item' = item /\ newText' = newText /\ places' = places /\ script' = script
        /\ state' = state /\ tests' = tests
    BY <1>4 DEF fileVars
  <2>2. TestsMade'
    BY <2>1 DEF FileInv, TestsMade
  <2>3. CASE NothingBegun
    BY <2>1, <2>2, <2>3 DEF FileInv, NothingBegun
  <2>4. CASE Walking
    <3>1. Waiting' = Waiting /\ Done' = Done /\ Consumed' = Consumed /\ Body' = Body
      BY <2>1 DEF Waiting, Done, Consumed, Body
    <3>2. /\ File!WholeLines' = File!WholeLines /\ File!WithinLines' = File!WithinLines
          /\ File!Untouched' = File!Untouched /\ File!TrueLocation' = File!TrueLocation
      BY <2>1 DEF File!WholeLines, File!WithinLines, File!Untouched, File!TrueLocation
    <3>3. NotBegun' = NotBegun /\ Begun' = Begun /\ Complete' = Complete
      BY <2>1, <3>1 DEF NotBegun, Begun, Complete
    <3>4. Sound' = Sound
      BY <3>2, <3>3 DEF Sound
    <3>5. DiffTypes' /\ LinesStart'
      BY <2>1, <2>4, <3>1, <3>2 DEF Walking, DiffTypes, LinesStart
    <3>6. WaitingInPlace' /\ DoneInPlace'
      BY <2>1, <2>4, <3>1, <3>2, <3>3, <3>4 DEF Walking, WaitingInPlace, DoneInPlace
    <3> QED BY <2>1, <2>2, <2>4, <3>5, <3>6 DEF FileInv, Walking
  <2> QED BY <2>2, <2>3, <2>4 DEF FileInv
<1> QED BY <1>1, <1>2, <1>3, <1>4 DEF File!Next, fileVars, File!fileVars

\* At the end of the walk nothing that was compared is waiting.
LEMMA KeptFollows == FileInv => File!KeptFollowsItsCode
<1> SUFFICES ASSUME FileInv, File!Walked, File!Kept # {}, File!WholeLines \/ File!WithinLines
             PROVE  File!Untouched /\ File!NewLocation = File!TrueLocation
  BY DEF File!KeptFollowsItsCode
<1>1. Walking
  BY DEF FileInv, NothingBegun, File!Walked
<1>2. DiffTypes /\ WaitingInPlace /\ DoneInPlace /\ IsDiffState(state)
  BY <1>1 DEF Walking, DiffTypes
<1>3. PICK x \in Seq(Characters), c \in Nat, n \in Nat : x = item.text /\ c = Consumed /\ n = Len(x) /\ c <= n
  BY <1>2, PlacesOfItem
<1>4. c = n
  <2>1. oldText = Part(x, c, n) /\ oldText = << >>
    BY <1>2, <1>3 DEF DiffTypes, File!Walked
  <2>2. n <= Len(x)
    BY <1>3
  <2>3. Part(x, c, n) \in Seq(Characters) /\ Len(Part(x, c, n)) = n - c
    BY <1>3, <2>2, PartOfText
  <2>4. Len(<< >>) = 0
    OBVIOUS
  <2>5. n - c = 0
    BY <2>1, <2>3, <2>4
  <2> QED BY <1>3, <2>5
<1>5. item.upto <= n /\ item.upto \in Nat /\ item.from \in Nat /\ item.from < item.upto
  BY <1>2, <1>3, PlacesOfItem
<1>6. ~Waiting
  <2> SUFFICES ASSUME Waiting PROVE FALSE
    OBVIOUS
  <2>1. CASE File!WholeLines
    BY <1>2, <1>3, <1>4, <1>5, <2>1 DEF WaitingInPlace
  <2>2. CASE File!WithinLines
    <3>1. NotBegun \/ Begun
      BY <1>2, <2>2 DEF WaitingInPlace, Sound
    <3> QED BY <1>3, <1>4, <1>5, <3>1 DEF NotBegun, Begun
  <2> QED BY <2>1, <2>2
<1>7. Done
  BY <1>2, <1>6 DEF IsDiffState, Waiting, Done, File!Kept
<1>8. File!NewLocation = state.done["item"]
  BY <1>6 DEF File!NewLocation, Waiting
<1> QED BY <1>2, <1>7, <1>8 DEF DoneInPlace

-----------------------------------------------------------------------------
(* FileDiff: the tests of a file *)

\* Different numbers below n for 1 to n are all the numbers below n.
LEMMA AllRanks ==
  ASSUME NEW n \in Nat, NEW r \in [1..n -> 0..(n - 1)], \A i, j \in 1..n : r[i] = r[j] => i = j
  PROVE  \A k \in 0..(n - 1) : \E i \in 1..n : r[i] = k
<1>1. IsFiniteSet(1..n) /\ Cardinality(1..n) = n
  <2>1. IsFiniteSet(1..n) /\ Cardinality(1..n) = IF 1 > n THEN 0 ELSE n - 1 + 1
    BY FS_Interval
  <2> QED BY <2>1
<1>2. IsFiniteSet(0..(n - 1)) /\ Cardinality(0..(n - 1)) = n
  <2>1. IsFiniteSet(0..(n - 1)) /\ Cardinality(0..(n - 1)) = IF 0 > n - 1 THEN 0 ELSE (n - 1) - 0 + 1
    BY FS_Interval
  <2> QED BY <2>1
<1>3. r \in Injection(1..n, 0..(n - 1))
  BY DEF Injection, IsInjective
<1>4. r \in Surjection(1..n, 0..(n - 1))
  BY <1>1, <1>2, <1>3, FS_Injection
<1> QED BY <1>4 DEF Surjection

\* The tests that come before another one.
Comes(starts, j, i) == starts[j].line < starts[i].line \/ (starts[j].line = starts[i].line /\ j < i)

\* Each test has a place of its own, and where it is, is where it has to be.
LEMMA SortedFacts ==
  ASSUME NEW starts, InOrder(starts), NEW n \in Nat, n = Len(starts)
  PROVE  /\ File!SortedByLine(starts) \in [1..n -> Positions]
         /\ \A k \in 1..n : \E i \in 1..n : File!SortedByLine(starts)[k] = starts[i]
         /\ \A i \in 1..n : \E k \in 1..n : File!SortedByLine(starts)[k] = starts[i]
         /\ \A i, j \in 1..n : i <= j => File!Gte(File!SortedByLine(starts)[j], File!SortedByLine(starts)[i])
<1>1. /\ starts \in [1..n -> Positions] /\ DOMAIN starts = 1..n
      /\ \A i, j \in 1..n : i < j /\ starts[i].line = starts[j].line => File!Gte(starts[j], starts[i])
  <2>1. starts \in Seq(Positions)
    BY DEF InOrder
  <2> QED BY <2>1, LenProperties DEF InOrder
<1> DEFINE before(i) == {j \in 1..n : Comes(starts, j, i)}
           rank == [i \in 1..n |-> Cardinality(before(i))]
           index(k) == CHOOSE i \in 1..n : rank[i] = k - 1
<1>0. \A i \in 1..n : starts[i].line \in Nat
  BY <1>1 DEF Positions
<1>2. ASSUME NEW i \in 1..n
      PROVE  IsFiniteSet(before(i)) /\ before(i) \subseteq (1..n) \ {i} /\ rank[i] \in 0..(n - 1)
  <2>1. before(i) \subseteq (1..n) \ {i}
    BY <1>0 DEF Comes
  <2>2. IsFiniteSet(1..n) /\ Cardinality(1..n) = n
    <3>1. IsFiniteSet(1..n) /\ Cardinality(1..n) = IF 1 > n THEN 0 ELSE n - 1 + 1
      BY FS_Interval
    <3> QED BY <3>1
  <2>3. IsFiniteSet((1..n) \ {i}) /\ Cardinality((1..n) \ {i}) = n - 1
    BY <2>2, FS_RemoveElement
  <2>4. IsFiniteSet(before(i)) /\ Cardinality(before(i)) <= Cardinality((1..n) \ {i})
    BY <2>1, <2>3, FS_Subset
  <2>5. Cardinality(before(i)) \in Nat
    BY <2>4, FS_CardinalityType
  <2> QED BY <2>1, <2>3, <2>4, <2>5
<1>3. ASSUME NEW i \in 1..n, NEW j \in 1..n, Comes(starts, j, i) PROVE rank[j] < rank[i]
  <2>1. before(j) \cup {j} \subseteq before(i) /\ j \notin before(j)
    BY <1>0, <1>3 DEF Comes
  <2>2. IsFiniteSet(before(j)) /\ IsFiniteSet(before(i)) /\ rank[j] \in Nat /\ rank[i] \in Nat
    BY <1>2
  <2>3. Cardinality(before(j) \cup {j}) = Cardinality(before(j)) + 1
    BY <2>1, <2>2, FS_AddElement
  <2>4. Cardinality(before(j) \cup {j}) <= Cardinality(before(i))
    BY <2>1, <2>2, FS_Subset
  <2>5. rank[j] = Cardinality(before(j)) /\ rank[i] = Cardinality(before(i))
    OBVIOUS
  <2> HIDE DEF before, rank
  <2> QED BY <2>2, <2>3, <2>4, <2>5
<1>4. \A i, j \in 1..n : i # j => Comes(starts, i, j) \/ Comes(starts, j, i)
  BY <1>0 DEF Comes
<1>5. rank \in [1..n -> 0..(n - 1)]
  BY <1>2
<1>6. \A i, j \in 1..n : rank[i] = rank[j] => i = j
  <2> HIDE DEF rank
  <2> SUFFICES ASSUME NEW i \in 1..n, NEW j \in 1..n, i # j PROVE rank[i] # rank[j]
    OBVIOUS
  <2>1. rank[i] < rank[j] \/ rank[j] < rank[i]
    BY <1>3, <1>4
  <2>2. rank[i] \in 0..(n - 1) /\ rank[j] \in 0..(n - 1)
    BY <1>5
  <2> QED BY <2>1, <2>2
<1> PICK sorted : sorted = File!SortedByLine(starts)
  OBVIOUS
<1>7. sorted = [k \in 1..n |-> starts[index(k)]]
  <2>1. \A S : File!Cardinality(S) = Cardinality(S)
    BY DEF File!Cardinality, Cardinality
  <2>2. \A i \in 1..n : {j \in 1..n : starts[j].line < starts[i].line \/ (starts[j].line = starts[i].line /\ j < i)} = before(i)
    BY DEF Comes
  <2>3. sorted = [k \in 1..n |-> starts[CHOOSE i \in 1..n : File!Cardinality(
                   {j \in 1..n : starts[j].line < starts[i].line \/ (starts[j].line = starts[i].line /\ j < i)}) = k - 1]]
    BY <1>1 DEF File!SortedByLine
  <2>4. \A k \in 1..n :
          (CHOOSE i \in 1..n : File!Cardinality(
             {j \in 1..n : starts[j].line < starts[i].line \/ (starts[j].line = starts[i].line /\ j < i)}) = k - 1) = index(k)
    <3>1. \A i \in 1..n : File!Cardinality(
             {j \in 1..n : starts[j].line < starts[i].line \/ (starts[j].line = starts[i].line /\ j < i)}) = rank[i]
      BY <2>1, <2>2
    <3> HIDE DEF rank
    <3> QED BY <3>1
  <2> HIDE DEF index
  <2> QED BY <2>3, <2>4
<1>8. \A k \in 1..n : index(k) \in 1..n /\ rank[index(k)] = k - 1
  <2> HIDE DEF rank
  <2>1. \A k \in 0..(n - 1) : \E i \in 1..n : rank[i] = k
    BY <1>5, <1>6, AllRanks
  <2>2. \A k \in 1..n : k - 1 \in 0..(n - 1)
    OBVIOUS
  <2>3. \A k \in 1..n : \E i \in 1..n : rank[i] = k - 1
    BY <2>1, <2>2
  <2> QED BY <2>3
<1> HIDE DEF index, before
<1>9. \A k \in 1..n : sorted[k] = starts[index(k)]
  BY <1>7
<1>10. sorted \in [1..n -> Positions]
  BY <1>1, <1>7, <1>8
<1>11. ASSUME NEW i \in 1..n PROVE \E k \in 1..n : sorted[k] = starts[i]
  <2> DEFINE k == rank[i] + 1
  <2>0. rank[i] \in 0..(n - 1)
    BY <1>5
  <2> HIDE DEF rank
  <2>1. k \in 1..n /\ k - 1 = rank[i]
    BY <2>0
  <2>2. rank[index(k)] = rank[i] /\ index(k) \in 1..n
    BY <1>8, <2>1
  <2>3. index(k) = i
    BY <1>6, <2>2
  <2> QED BY <1>9, <2>1, <2>3
<1> HIDE DEF rank
<1>12. ASSUME NEW i \in 1..n, NEW j \in 1..n, i <= j PROVE File!Gte(sorted[j], sorted[i])
  <2>1. CASE i = j
    <3>1. sorted[i] \in Positions
      BY <1>10
    <3> QED BY <2>1, <3>1, GteFacts
  <2>2. CASE i < j
    <3>1. rank[index(i)] = i - 1 /\ rank[index(j)] = j - 1 /\ index(i) \in 1..n /\ index(j) \in 1..n
      BY <1>8
    <3>2. ~(rank[index(j)] < rank[index(i)]) /\ index(i) # index(j)
      BY <2>2, <3>1
    <3>3. Comes(starts, index(i), index(j))
      BY <1>3, <1>4, <3>1, <3>2
    <3>4. CASE starts[index(i)].line < starts[index(j)].line
      <4>1. starts[index(j)].line > starts[index(i)].line
        BY <1>0, <3>1, <3>4
      <4> QED BY <1>9, <4>1 DEF File!Gte
    <3>5. CASE starts[index(i)].line = starts[index(j)].line /\ index(i) < index(j)
      <4>1. File!Gte(starts[index(j)], starts[index(i)])
        BY <1>1, <3>1, <3>5
      <4> QED BY <1>9, <4>1
    <3> QED BY <3>3, <3>4, <3>5 DEF Comes
  <2>3. i = j \/ i < j
    BY <1>12
  <2> QED BY <2>1, <2>2, <2>3
<1> QED BY <1>8, <1>9, <1>10, <1>11, <1>12

\* The positions so far, each once.
LEMMA AddIsSequence ==
  ASSUME NEW acc \in Seq(Positions), NEW p \in Positions PROVE File!AddPosition(acc, p) \in Seq(Positions)
<1>1. Append(acc, p) \in Seq(Positions)
  BY AppendProperties
<1> QED BY <1>1 DEF File!AddPosition

LEMMA UniqueSteps ==
  ASSUME NEW n \in Nat, NEW sorted \in [1..n -> Positions]
  PROVE  \E h : /\ h \in [0..n -> Seq(Positions)] /\ h[0] = << >> /\ h[n] = File!UniqueStartPositions(sorted)
                /\ \A k \in 0..(n - 1) : h[k + 1] = File!AddPosition(h[k], sorted[k + 1])
<1> DEFINE op == [p \in Seq(Positions) \X Positions |-> File!AddPosition(p[1], p[2])]
           F(i, t) == IF t = {} THEN << >> ELSE File!AddPosition(i[t \ {Greatest(t)}], sorted[Greatest(t)])
           iter == CHOOSE i : i = [t \in SUBSET (1..n) |-> F(i, t)]
           h == [k \in 0..n |-> iter[1..k]]
<1>0. DOMAIN sorted = 1..n
  OBVIOUS
<1>1. << >> \in Seq(Positions)
  BY EmptySeq
<1>2. File!UniqueStartPositions(sorted) = iter[1..n]
  BY <1>0 DEF File!UniqueStartPositions, File!FoldLeft, File!MapThenFoldSet, File!Max, Greatest
<1>3. \E i : i = [t \in SUBSET (1..n) |-> F(i, t)] /\ i \in [SUBSET (1..n) -> Seq(Positions)]
  <2>1. op \in [Seq(Positions) \X Positions -> Seq(Positions)]
    BY AddIsSequence
  <2>2. \A a \in Seq(Positions), b \in Positions : op[<<a, b>>] = File!AddPosition(a, b)
    OBVIOUS
  <2> HIDE DEF op
  <2>3. PICK g : FoldsTo(g, n, sorted, op, << >>, Seq(Positions))
    BY <1>1, <2>1, FoldExists
  <2>4. g \in [SUBSET (1..n) -> Seq(Positions)] /\ g[{}] = << >>
    BY <2>3 DEF FoldsTo
  <2>5. ASSUME NEW t \in SUBSET (1..n), t # {} PROVE g[t] = F(g, t)
    <3>1. g[t] = op[<<g[t \ {Greatest(t)}], sorted[Greatest(t)]>>]
      BY <2>3, <2>5 DEF FoldsTo
    <3>2. Greatest(t) \in 1..n /\ t \ {Greatest(t)} \in SUBSET (1..n)
      BY <2>5, GreatestIndex
    <3>3. g[t \ {Greatest(t)}] \in Seq(Positions) /\ sorted[Greatest(t)] \in Positions
      BY <2>4, <3>2
    <3> QED BY <2>2, <2>5, <3>1, <3>3
  <2>6. \A t \in SUBSET (1..n) : g[t] = F(g, t)
    BY <2>4, <2>5
  <2>7. g = [t \in SUBSET (1..n) |-> F(g, t)]
    BY <2>4, <2>6
  <2> QED BY <2>4, <2>7
<1>4. iter = [t \in SUBSET (1..n) |-> F(iter, t)]
  BY <1>3
<1> HIDE DEF iter
<1>5. h[0] = << >> /\ h[n] = File!UniqueStartPositions(sorted)
  <2>1. 1..0 = {} /\ 1..0 \in SUBSET (1..n) /\ 0 \in 0..n /\ n \in 0..n
    OBVIOUS
  <2>2. iter[1..0] = << >>
    BY <1>4, <2>1
  <2> QED BY <1>2, <2>1, <2>2
<1>6. ASSUME NEW k \in 0..(n - 1) PROVE h[k + 1] = File!AddPosition(h[k], sorted[k + 1])
  <2>1. /\ 1..(k + 1) \in SUBSET (1..n) /\ 1..(k + 1) # {}
        /\ Greatest(1..(k + 1)) = k + 1 /\ (1..(k + 1)) \ {k + 1} = 1..k
    BY FirstIndices
  <2>2. iter[1..(k + 1)] = File!AddPosition(iter[1..k], sorted[k + 1])
    <3>1. iter[1..(k + 1)] = F(iter, 1..(k + 1))
      BY <1>4, <2>1
    <3> QED BY <2>1, <3>1
  <2>3. k \in 0..n /\ k + 1 \in 0..n
    OBVIOUS
  <2> QED BY <2>2, <2>3
<1>7. \A k \in 0..n : h[k] \in Seq(Positions)
  <2> DEFINE T == {k \in 0..n : h[k] \in Seq(Positions)}
  <2> HIDE DEF h
  <2>1. 0 \in T
    <3>1. 0 \in 0..n
      OBVIOUS
    <3>2. h[0] \in Seq(Positions)
      BY <1>1, <1>5, Zenon
    <3> QED BY <3>1, <3>2, Zenon
  <2>2. \A k \in 0..(n - 1) : k \in T => k + 1 \in T
    <3> SUFFICES ASSUME NEW k \in 0..(n - 1), k \in T PROVE k + 1 \in T
      OBVIOUS
    <3>1. k + 1 \in 1..n /\ k + 1 \in 0..n /\ h[k] \in Seq(Positions)
      OBVIOUS
    <3>2. sorted[k + 1] \in Positions
      BY <3>1
    <3> QED BY <1>6, <3>1, <3>2, AddIsSequence
  <2>3. \A k \in 0..n : k \in T
    <3> HIDE DEF T
    <3> QED BY <2>1, <2>2, BoundedInduction
  <2> QED BY <2>3
<1>8. h \in [0..n -> Seq(Positions)]
  BY <1>7
<1> HIDE DEF h
<1> QED BY <1>5, <1>6, <1>8

\* u has the first k of the positions that are sorted, each once and in order.
HasFirst(u, k, sorted) ==
  /\ u \in Seq(Positions)
  /\ \A i, j \in 1..Len(u) : i < j => ~File!Gte(u[i], u[j])
  /\ \A i \in 1..Len(u) : \E j \in 1..k : u[i] = sorted[j]
  /\ \A j \in 1..k : \E i \in 1..Len(u) : u[i] = sorted[j]
  /\ u # << >> => k > 0 /\ File!Last(u) = sorted[k]

LEMMA AddKeepsOrder ==
  ASSUME NEW n \in Nat, NEW sorted \in [1..n -> Positions], \A i, j \in 1..n : i <= j => File!Gte(sorted[j], sorted[i]),
         NEW k \in 0..(n - 1), NEW u, HasFirst(u, k, sorted)
  PROVE  HasFirst(File!AddPosition(u, sorted[k + 1]), k + 1, sorted)
<1>p. PICK p \in Positions : p = sorted[k + 1]
  OBVIOUS
<1>1. u \in Seq(Positions) /\ Len(u) \in Nat
  BY LenProperties DEF HasFirst
<1>m. PICK m \in Nat : m = Len(u) /\ (u = << >> <=> m = 0)
  BY <1>1, EmptySeq
<1>2. /\ \A i, j \in 1..m : i < j => ~File!Gte(u[i], u[j])
      /\ \A i \in 1..m : \E j \in 1..k : u[i] = sorted[j]
      /\ \A j \in 1..k : \E i \in 1..m : u[i] = sorted[j]
      /\ u # << >> => k > 0 /\ u[m] = sorted[k]
  BY <1>m DEF HasFirst, File!Last
<1>3. CASE u # << >> /\ File!Last(u) = p
  <2>1. File!AddPosition(u, p) = u
    BY <1>3 DEF File!AddPosition
  <2>2. \A i \in 1..m : \E j \in 1..(k + 1) : u[i] = sorted[j]
    <3>1. \A j \in 1..k : j \in 1..(k + 1)
      OBVIOUS
    <3> QED BY <1>2, <3>1
  <2>3. \A j \in 1..(k + 1) : \E i \in 1..m : u[i] = sorted[j]
    <3> SUFFICES ASSUME NEW j \in 1..(k + 1) PROVE \E i \in 1..m : u[i] = sorted[j]
      OBVIOUS
    <3>1. CASE j \in 1..k
      BY <1>2, <3>1
    <3>2. CASE j = k + 1
      <4>1. m \in 1..m /\ u[m] = p
        BY <1>3, <1>m DEF File!Last
      <4> QED BY <1>p, <3>2, <4>1
    <3> QED BY <3>1, <3>2
  <2>4. k + 1 > 0
    OBVIOUS
  <2> QED BY <1>p, <1>m, <1>1, <1>2, <1>3, <2>1, <2>2, <2>3, <2>4 DEF HasFirst
<1>4. CASE ~(u # << >> /\ File!Last(u) = p)
  <2>a. PICK v : v = Append(u, p)
    OBVIOUS
  <2>1. v \in Seq(Positions) /\ Len(v) = m + 1 /\ v # << >> /\ v[m + 1] = p /\ \A i \in 1..m : v[i] = u[i]
    BY <1>p, <1>m, <1>1, <2>a, AppendProperties
  <2>2. File!AddPosition(u, p) = v
    BY <1>4, <2>a DEF File!AddPosition
  <2>3. \A i \in 1..m : u[i] \in Positions
    BY <1>1, <1>m, LenProperties
  <2>4. ASSUME NEW i \in 1..m PROVE ~File!Gte(u[i], p)
    <3>0. u # << >> /\ m \in 1..m /\ k \in 1..n /\ k + 1 \in 1..n /\ k > 0
      BY <1>2, <1>m
    <3>1. u[m] = sorted[k] /\ u[m] # p
      BY <1>2, <1>4, <1>m, <3>0 DEF File!Last
    <3>2. File!Gte(p, u[m])
      <4>1. k <= k + 1
        BY <3>0
      <4> QED BY <1>p, <3>0, <3>1, <4>1
    <3>3. ~File!Gte(u[m], p)
      BY <2>3, <3>0, <3>1, <3>2, GteFacts
    <3>4. CASE i = m
      BY <3>3, <3>4
    <3>5. CASE i < m
      <4>1. ~File!Gte(u[i], u[m])
        BY <1>2, <3>0, <3>5
      <4>2. u[i] \in Positions /\ u[m] \in Positions
        BY <2>3, <3>0
      <4> QED BY <3>2, <4>1, <4>2, GteFacts
    <3> QED BY <3>4, <3>5
  <2>5. ASSUME NEW i \in 1..(m + 1), NEW j \in 1..(m + 1), i < j PROVE ~File!Gte(v[i], v[j])
    <3>1. i \in 1..m
      BY <2>5
    <3>2. CASE j \in 1..m
      BY <1>2, <2>1, <2>5, <3>1, <3>2
    <3>3. CASE j = m + 1
      BY <2>1, <2>4, <3>1, <3>3
    <3> QED BY <3>2, <3>3
  <2>6. ASSUME NEW i \in 1..(m + 1) PROVE \E j \in 1..(k + 1) : v[i] = sorted[j]
    <3>1. CASE i \in 1..m
      <4>1. PICK j \in 1..k : u[i] = sorted[j]
        BY <1>2, <3>1
      <4>2. j \in 1..(k + 1)
        BY <4>1
      <4> QED BY <2>1, <3>1, <4>1, <4>2
    <3>2. CASE i = m + 1
      <4>1. k + 1 \in 1..(k + 1)
        OBVIOUS
      <4> QED BY <1>p, <2>1, <3>2, <4>1
    <3> QED BY <3>1, <3>2
  <2>7. ASSUME NEW j \in 1..(k + 1) PROVE \E i \in 1..(m + 1) : v[i] = sorted[j]
    <3>1. CASE j \in 1..k
      <4>1. PICK i \in 1..m : u[i] = sorted[j]
        BY <1>2, <3>1
      <4>2. i \in 1..(m + 1)
        BY <4>1
      <4> QED BY <2>1, <4>1, <4>2
    <3>2. CASE j = k + 1
      <4>1. m + 1 \in 1..(m + 1)
        OBVIOUS
      <4> QED BY <1>p, <2>1, <3>2, <4>1
    <3> QED BY <3>1, <3>2
  <2>8. k + 1 > 0 /\ File!Last(v) = sorted[k + 1]
    BY <1>p, <2>1 DEF File!Last
  <2>9. HasFirst(v, k + 1, sorted)
    BY <2>1, <2>5, <2>6, <2>7, <2>8 DEF HasFirst
  <2> QED BY <1>p, <2>2, <2>9
<1> QED BY <1>3, <1>4

LEMMA UniqueFacts ==
  ASSUME NEW n \in Nat, NEW sorted \in [1..n -> Positions], \A i, j \in 1..n : i <= j => File!Gte(sorted[j], sorted[i])
  PROVE  HasFirst(File!UniqueStartPositions(sorted), n, sorted)
<1>1. PICK h : /\ h \in [0..n -> Seq(Positions)] /\ h[0] = << >> /\ h[n] = File!UniqueStartPositions(sorted)
               /\ \A k \in 0..(n - 1) : h[k + 1] = File!AddPosition(h[k], sorted[k + 1])
  BY UniqueSteps
<1> DEFINE T == {k \in 0..n : HasFirst(h[k], k, sorted)}
<1>2. 0 \in T
  <2>1. << >> \in Seq(Positions) /\ Len(<< >>) = 0 /\ 1..0 = {}
    BY EmptySeq
  <2>2. HasFirst(<< >>, 0, sorted)
    BY <2>1 DEF HasFirst
  <2> QED BY <1>1, <2>2
<1>3. \A k \in 0..(n - 1) : k \in T => k + 1 \in T
  <2> SUFFICES ASSUME NEW k \in 0..(n - 1), k \in T PROVE k + 1 \in T
    OBVIOUS
  <2>1. HasFirst(File!AddPosition(h[k], sorted[k + 1]), k + 1, sorted)
    <3>1. HasFirst(h[k], k, sorted)
      OBVIOUS
    <3> HIDE DEF T
    <3> QED BY <3>1, AddKeepsOrder
  <2>2. k + 1 \in 0..n
    OBVIOUS
  <2> QED BY <1>1, <2>1, <2>2
<1>4. \A k \in 0..n : k \in T
  <2> HIDE DEF T
  <2> QED BY <1>2, <1>3, BoundedInduction
<1>5. n \in 0..n
  OBVIOUS
<1> QED BY <1>1, <1>4, <1>5

Locations == [start : Positions, end : Positions]
Closings  == [index : Nat \ {0}, closed : Seq(Locations)]

\* What closes the test at the r-th position.
Reach(u, r) == IF r < Len(u) THEN u[r + 1] ELSE File!FarAway

LEMMA CloseIsClosing ==
  ASSUME NEW u \in Seq(Positions), NEW acc \in Closings, NEW p \in Positions
  PROVE  File!CloseNext(u, acc, p) \in Closings
<1> DEFINE next == IF acc.index <= Len(u) /\ u[acc.index] = p THEN acc.index + 1 ELSE acc.index
           end  == IF next <= Len(u) THEN u[next] ELSE File!FarAway
<1>1. acc.index \in Nat \ {0} /\ acc.closed \in Seq(Locations)
  BY DEF Closings
<1>2. next \in Nat \ {0}
  BY <1>1
<1>3. File!CloseNext(u, acc, p) = [index |-> next, closed |-> Append(acc.closed, [start |-> p, end |-> end])]
  BY DEF File!CloseNext
<1> HIDE DEF next
<1>4. File!FarAway \in Positions
  BY DEF File!FarAway, File!Pos, Positions
<1>5. end \in Positions
  <2>1. CASE next <= Len(u)
    <3>1. next \in 1..Len(u)
      BY <1>2, <2>1, LenProperties
    <3> QED BY <2>1, <3>1, LenProperties
  <2>2. CASE ~(next <= Len(u))
    BY <1>4, <2>2
  <2> QED BY <2>1, <2>2
<1> HIDE DEF end
<1>6. [start |-> p, end |-> end] \in Locations
  BY <1>5 DEF Locations
<1>7. Append(acc.closed, [start |-> p, end |-> end]) \in Seq(Locations)
  BY <1>1, <1>6, AppendProperties
<1> QED BY <1>2, <1>3, <1>7 DEF Closings

LEMMA CloseSteps ==
  ASSUME NEW starts, NEW n \in Nat, File!SortedByLine(starts) \in [1..n -> Positions],
         File!UniqueStartPositions(File!SortedByLine(starts)) \in Seq(Positions)
  PROVE  LET sorted == File!SortedByLine(starts)
             u      == File!UniqueStartPositions(sorted)
         IN  \E h : /\ h \in [0..n -> Closings] /\ h[0] = [index |-> 1, closed |-> << >>]
                    /\ h[n].closed = File!CloseLocations(starts)
                    /\ \A k \in 0..(n - 1) : h[k + 1] = File!CloseNext(u, h[k], sorted[k + 1])
<1>s. PICK sorted \in [1..n -> Positions] : sorted = File!SortedByLine(starts)
  OBVIOUS
<1>u. PICK u \in Seq(Positions) : u = File!UniqueStartPositions(sorted)
  BY <1>s
<1> PICK none : none = [index |-> 1, closed |-> << >>]
  OBVIOUS
<1> DEFINE op == [p \in Closings \X Positions |-> File!CloseNext(u, p[1], p[2])]
           F(i, t) == IF t = {} THEN none ELSE File!CloseNext(u, i[t \ {Greatest(t)}], sorted[Greatest(t)])
           iter == CHOOSE i : i = [t \in SUBSET (1..n) |-> F(i, t)]
           h == [k \in 0..n |-> iter[1..k]]
<1>0. DOMAIN sorted = 1..n
  BY <1>s
<1>1. none \in Closings
  <2>1. << >> \in Seq(Locations)
    BY EmptySeq
  <2> QED BY <2>1 DEF Closings
<1>2. File!CloseLocations(starts) = iter[1..n].closed
  BY <1>0, <1>s, <1>u DEF File!CloseLocations, File!FoldLeft, File!MapThenFoldSet, File!Max, Greatest
<1>3. \E i : i = [t \in SUBSET (1..n) |-> F(i, t)] /\ i \in [SUBSET (1..n) -> Closings]
  <2>1. op \in [Closings \X Positions -> Closings]
    BY <1>u, CloseIsClosing
  <2>2. \A a \in Closings, b \in Positions : op[<<a, b>>] = File!CloseNext(u, a, b)
    OBVIOUS
  <2> HIDE DEF op
  <2>3. PICK g : FoldsTo(g, n, sorted, op, none, Closings)
    BY <1>s, <1>1, <2>1, FoldExists
  <2>4. g \in [SUBSET (1..n) -> Closings] /\ g[{}] = none
    BY <2>3 DEF FoldsTo
  <2>5. ASSUME NEW t \in SUBSET (1..n), t # {} PROVE g[t] = F(g, t)
    <3>1. g[t] = op[<<g[t \ {Greatest(t)}], sorted[Greatest(t)]>>]
      BY <2>3, <2>5 DEF FoldsTo
    <3>2. Greatest(t) \in 1..n /\ t \ {Greatest(t)} \in SUBSET (1..n)
      BY <2>5, GreatestIndex
    <3>3. g[t \ {Greatest(t)}] \in Closings /\ sorted[Greatest(t)] \in Positions
      BY <1>s, <2>4, <3>2
    <3> QED BY <2>2, <2>5, <3>1, <3>3
  <2>6. \A t \in SUBSET (1..n) : g[t] = F(g, t)
    BY <2>4, <2>5
  <2>7. g = [t \in SUBSET (1..n) |-> F(g, t)]
    BY <2>4, <2>6
  <2> QED BY <2>4, <2>7
<1>4. iter = [t \in SUBSET (1..n) |-> F(iter, t)]
  BY <1>3
<1> HIDE DEF iter
<1>5. h[0] = none /\ h[n].closed = File!CloseLocations(starts)
  <2>1. 1..0 = {} /\ 1..0 \in SUBSET (1..n) /\ 0 \in 0..n /\ n \in 0..n
    OBVIOUS
  <2>2. iter[1..0] = none
    BY <1>4, <2>1
  <2> QED BY <1>2, <2>1, <2>2
<1>6. ASSUME NEW k \in 0..(n - 1) PROVE h[k + 1] = File!CloseNext(u, h[k], sorted[k + 1])
  <2>1. /\ 1..(k + 1) \in SUBSET (1..n) /\ 1..(k + 1) # {}
        /\ Greatest(1..(k + 1)) = k + 1 /\ (1..(k + 1)) \ {k + 1} = 1..k
    BY FirstIndices
  <2>2. iter[1..(k + 1)] = File!CloseNext(u, iter[1..k], sorted[k + 1])
    <3>1. iter[1..(k + 1)] = F(iter, 1..(k + 1))
      BY <1>4, <2>1
    <3> QED BY <2>1, <3>1
  <2>3. k \in 0..n /\ k + 1 \in 0..n
    OBVIOUS
  <2> QED BY <2>2, <2>3
<1>7. \A k \in 0..n : h[k] \in Closings
  <2> DEFINE T == {k \in 0..n : h[k] \in Closings}
  <2> HIDE DEF h
  <2>1. 0 \in T
    BY <1>1, <1>5
  <2>2. \A k \in 0..(n - 1) : k \in T => k + 1 \in T
    <3> SUFFICES ASSUME NEW k \in 0..(n - 1), k \in T PROVE k + 1 \in T
      OBVIOUS
    <3>1. k + 1 \in 1..n /\ k + 1 \in 0..n /\ h[k] \in Closings
      OBVIOUS
    <3>2. sorted[k + 1] \in Positions
      BY <1>s, <3>1
    <3> QED BY <1>u, <1>6, <3>1, <3>2, CloseIsClosing
  <2>3. \A k \in 0..n : k \in T
    <3> HIDE DEF T
    <3> QED BY <2>1, <2>2, BoundedInduction
  <2> QED BY <2>3
<1>8. h \in [0..n -> Closings]
  BY <1>7
<1> HIDE DEF h
<1> QED BY <1>s, <1>u, <1>5, <1>6, <1>8

\* The first k tests reach to the next position.
ClosedUpTo(acc, k, u, sorted) ==
  /\ acc \in Closings /\ acc.index <= Len(u) + 1 /\ Len(acc.closed) = k
  /\ k = 0 => acc.index = 1
  /\ k > 0 => acc.index > 1 /\ u[acc.index - 1] = sorted[k]
  /\ \A j \in 1..k : \E r \in 1..Len(u) :
       u[r] = sorted[j] /\ acc.closed[j] = [start |-> sorted[j], end |-> Reach(u, r)]

LEMMA CloseKeeps ==
  ASSUME NEW n \in Nat, NEW sorted \in [1..n -> Positions], \A i, j \in 1..n : i <= j => File!Gte(sorted[j], sorted[i]),
         NEW u, HasFirst(u, n, sorted), NEW k \in 0..(n - 1), NEW acc, ClosedUpTo(acc, k, u, sorted)
  PROVE  ClosedUpTo(File!CloseNext(u, acc, sorted[k + 1]), k + 1, u, sorted)
<1>p. PICK p \in Positions : p = sorted[k + 1]
  OBVIOUS
<1>1. u \in Seq(Positions)
  BY DEF HasFirst
<1>m. PICK m \in Nat : m = Len(u) /\ \A i \in 1..m : u[i] \in Positions
  BY <1>1, LenProperties
<1>2. /\ \A i, j \in 1..m : i < j => ~File!Gte(u[i], u[j])
      /\ \A i \in 1..m : \E j \in 1..n : u[i] = sorted[j]
      /\ \A j \in 1..n : \E i \in 1..m : u[i] = sorted[j]
  BY <1>m DEF HasFirst
<1>x. PICK x \in Nat : x = acc.index /\ x > 0 /\ x <= m + 1
  BY <1>m DEF ClosedUpTo, Closings
<1>3. /\ acc \in Closings /\ acc.closed \in Seq(Locations) /\ Len(acc.closed) = k
      /\ k = 0 => x = 1
      /\ k > 0 => x > 1 /\ u[x - 1] = sorted[k]
      /\ \A j \in 1..k : \E r \in 1..m : u[r] = sorted[j] /\ acc.closed[j] = [start |-> sorted[j], end |-> Reach(u, r)]
  BY <1>m, <1>x DEF ClosedUpTo, Closings
<1>k. k + 1 \in 1..n /\ k + 1 > 0 /\ k + 1 # 0 /\ k \in Nat
  OBVIOUS
<1>r. PICK r \in 1..m : u[r] = p
  BY <1>p, <1>2, <1>k
\* The position is the last one or the next one.
<1>4. r = x \/ (k > 0 /\ r = x - 1)
  <2>1. r >= x - 1
    <3> SUFFICES ASSUME r < x - 1 PROVE FALSE
      BY <1>x, <1>r
    <3>1. k > 0 /\ k \in 1..n /\ x - 1 \in 1..m
      BY <1>3, <1>x, <1>r
    <3>2. ~File!Gte(u[r], u[x - 1])
      BY <1>2, <1>r, <3>1
    <3>3. File!Gte(p, sorted[k])
      BY <1>p, <1>k, <3>1
    <3> QED BY <1>3, <1>r, <3>1, <3>2, <3>3
  <2>2. ~(r > x)
    <3> SUFFICES ASSUME r > x PROVE FALSE
      OBVIOUS
    <3>1. x \in 1..m
      BY <1>x, <1>r
    <3>2. ~File!Gte(u[x], p)
      BY <1>2, <1>r, <3>1
    <3>3. PICK i \in 1..n : u[x] = sorted[i]
      BY <1>2, <3>1
    <3>4. ~(i >= k + 1)
      BY <1>p, <1>k, <3>2, <3>3
    <3>5. i <= k /\ k > 0 /\ k \in 1..n
      BY <1>k, <3>3, <3>4
    <3>6. File!Gte(u[x - 1], u[x]) /\ x - 1 \in 1..m /\ x - 1 < x
      BY <1>3, <1>x, <3>1, <3>3, <3>5
    <3> QED BY <1>2, <3>1, <3>6
  <2>3. r = x \/ r = x - 1
    BY <1>x, <1>r, <2>1, <2>2
  <2>4. r = x - 1 => k > 0
    BY <1>3, <1>k, <1>r
  <2> QED BY <2>3, <2>4
<1> DEFINE next == IF acc.index <= Len(u) /\ u[acc.index] = p THEN acc.index + 1 ELSE acc.index
<1>5. next = r + 1
  <2>1. CASE r = x
    BY <1>x, <1>m, <1>r, <2>1
  <2>2. CASE k > 0 /\ r = x - 1
    <3>1. ~(x <= m /\ u[x] = p)
      <4> SUFFICES ASSUME x <= m, u[x] = p PROVE FALSE
        OBVIOUS
      <4>1. x \in 1..m /\ r < x
        BY <1>x, <2>2
      <4>2. ~File!Gte(u[r], u[x]) /\ u[r] = u[x] /\ u[r] \in Positions
        BY <1>2, <1>m, <1>r, <4>1
      <4> QED BY <4>2, GteFacts
    <3> QED BY <1>x, <1>m, <2>2, <3>1
  <2> QED BY <1>4, <2>1, <2>2
<1>6. File!CloseNext(u, acc, p)
        = [index |-> next, closed |-> Append(acc.closed, [start |-> p, end |-> IF next <= Len(u) THEN u[next] ELSE File!FarAway])]
  BY DEF File!CloseNext
<1> HIDE DEF next
<1>7. (IF next <= Len(u) THEN u[next] ELSE File!FarAway) = Reach(u, r)
  BY <1>m, <1>r, <1>5 DEF Reach
<1>l. PICK loc : loc = [start |-> p, end |-> Reach(u, r)]
  OBVIOUS
<1>8. PICK now : now = File!CloseNext(u, acc, p)
  OBVIOUS
<1>9. now \in Closings
  BY <1>1, <1>3, <1>p, <1>8, CloseIsClosing
<1>10. now = [index |-> r + 1, closed |-> Append(acc.closed, loc)]
  BY <1>5, <1>6, <1>7, <1>8, <1>l
<1>11. loc \in Locations
  <2>1. Append(acc.closed, loc) \in Seq(Locations)
    BY <1>9, <1>10 DEF Closings
  <2>2. Reach(u, r) \in Positions
    <3>1. File!FarAway \in Positions
      BY DEF File!FarAway, File!Pos, Positions
    <3>2. r < m => r + 1 \in 1..m
      BY <1>r
    <3> QED BY <1>m, <3>1, <3>2 DEF Reach
  <2> QED BY <1>p, <1>l, <2>2 DEF Locations
<1>c. PICK closed : closed = Append(acc.closed, loc)
  OBVIOUS
<1>12. Len(closed) = k + 1 /\ closed[k + 1] = loc /\ \A j \in 1..k : closed[j] = acc.closed[j]
  BY <1>3, <1>11, <1>c, AppendProperties
<1>13. ASSUME NEW j \in 1..(k + 1)
       PROVE  \E q \in 1..m : u[q] = sorted[j] /\ closed[j] = [start |-> sorted[j], end |-> Reach(u, q)]
  <2>1. CASE j \in 1..k
    BY <1>3, <1>12, <2>1
  <2>2. CASE j = k + 1
    <3>1. u[r] = sorted[j] /\ p = sorted[j]
      BY <1>p, <1>r, <2>2
    <3>2. closed[j] = loc
      BY <1>12, <2>2
    <3>3. closed[j] = [start |-> sorted[j], end |-> Reach(u, r)]
      BY <1>l, <3>1, <3>2
    <3> WITNESS r \in 1..m
    <3> QED BY <3>1, <3>3
  <2>3. j \in 1..k \/ j = k + 1
    OBVIOUS
  <2> QED BY <2>1, <2>2, <2>3
<1>14. now.index = r + 1 /\ now.closed = closed
  BY <1>10, <1>c
<1>15. r + 1 <= m + 1 /\ r + 1 > 1 /\ (r + 1) - 1 = r
  BY <1>r
<1>16. ClosedUpTo(now, k + 1, u, sorted)
  BY <1>p, <1>m, <1>k, <1>r, <1>9, <1>12, <1>13, <1>14, <1>15 DEF ClosedUpTo
<1> QED BY <1>p, <1>8, <1>16

\* Where a test that starts at p has to end.
NextOf(P, p) ==
  LET later == {q \in P : ~File!Gte(p, q)}
  IN  IF later = {} THEN File!FarAway ELSE CHOOSE q \in later : \A o \in later : File!Gte(o, q)

\* What is after a position of the list, and which is the next.
LEMMA ReachIsNext ==
  ASSUME NEW u \in Seq(Positions), \A i, j \in 1..Len(u) : i < j => ~File!Gte(u[i], u[j]),
         NEW r \in 1..Len(u)
  PROVE  Reach(u, r) = NextOf({u[i] : i \in 1..Len(u)}, u[r])
<1>m. PICK m \in Nat : m = Len(u) /\ \A i \in 1..m : u[i] \in Positions
  BY LenProperties
<1>2. \A i, j \in 1..m : i < j => ~File!Gte(u[i], u[j])
  BY <1>m
<1>p. PICK P : P = {u[i] : i \in 1..Len(u)}
  OBVIOUS
<1>3. P = {u[i] : i \in 1..m}
  BY <1>m, <1>p
<1>4. \A i, j \in 1..m : File!Gte(u[i], u[j]) <=> i >= j
  <2>1. ASSUME NEW i \in 1..m, NEW j \in 1..m, i >= j PROVE File!Gte(u[i], u[j])
    <3>1. i = j \/ ~File!Gte(u[j], u[i])
      <4>1. i = j \/ j < i
        BY <2>1
      <4> QED BY <1>2, <4>1
    <3> QED BY <1>m, <3>1, GteFacts
  <2>2. ASSUME NEW i \in 1..m, NEW j \in 1..m, ~(i >= j) PROVE ~File!Gte(u[i], u[j])
    BY <1>2, <2>2
  <2> QED BY <2>1, <2>2
<1>r. r \in 1..m
  BY <1>m
<1> DEFINE later == {p \in P : ~File!Gte(u[r], p)}
<1>5. later = {u[i] : i \in (r + 1)..m}
  <2>1. \A i \in (r + 1)..m : i \in 1..m /\ ~(r >= i)
    BY <1>r
  <2>2. \A i \in 1..m : ~(r >= i) => i \in (r + 1)..m
    BY <1>r
  <2> QED BY <1>3, <1>4, <1>r, <2>1, <2>2
<1> HIDE DEF later
<1>6. CASE r = m
  <2>1. (r + 1)..m = {}
    BY <1>6
  <2>2. later = {} /\ ~(r < Len(u))
    BY <1>5, <1>6, <1>m, <2>1
  <2> QED BY <1>p, <2>2 DEF later, Reach, NextOf
<1>7. CASE r < m
  <2>1. r + 1 \in (r + 1)..m /\ r + 1 \in 1..m /\ \A i \in (r + 1)..m : i \in 1..m /\ i >= r + 1
    BY <1>r, <1>7
  <2>2. u[r + 1] \in later
    BY <1>5, <2>1
  <2>3. \A q \in later : File!Gte(q, u[r + 1])
    BY <1>4, <1>5, <2>1
  <2>4. \A p \in later : p \in Positions
    BY <1>5, <1>m, <2>1
  <2>5. ASSUME NEW p \in later, \A q \in later : File!Gte(q, p) PROVE p = u[r + 1]
    BY <2>2, <2>3, <2>4, <2>5, GteFacts
  <2>6. (CHOOSE p \in later : \A q \in later : File!Gte(q, p)) = u[r + 1]
    BY <2>2, <2>3, <2>5
  <2>7. Reach(u, r) = u[r + 1]
    BY <1>m, <1>7 DEF Reach
  <2>8. Reach(u, r) = IF later = {} THEN File!FarAway ELSE CHOOSE p \in later : \A q \in later : File!Gte(q, p)
    BY <2>2, <2>6, <2>7
  <2> QED BY <1>p, <2>8 DEF later, NextOf
<1> QED BY <1>r, <1>6, <1>7

LEMMA TestsReach == FileInv => File!TestsReachTheNext
<1> SUFFICES ASSUME FileInv, tests # << >> PROVE File!TestsReachTheNext
  BY DEF File!TestsReachTheNext
<1>1. InOrder(tests.starts) /\ tests.closed = File!CloseLocations(tests.starts)
  BY DEF FileInv, TestsMade
<1>s. PICK starts : starts = tests.starts
  OBVIOUS
<1>2. PICK n \in Nat : n = Len(starts) /\ DOMAIN starts = 1..n
  <2>1. starts \in Seq(Positions)
    BY <1>1, <1>s DEF InOrder
  <2> QED BY <2>1, LenProperties
<1>3. PICK sorted \in [1..n -> Positions] :
        /\ sorted = File!SortedByLine(starts)
        /\ \A k \in 1..n : \E i \in 1..n : sorted[k] = starts[i]
        /\ \A i \in 1..n : \E k \in 1..n : sorted[k] = starts[i]
        /\ \A i, j \in 1..n : i <= j => File!Gte(sorted[j], sorted[i])
  <2>1. InOrder(starts) /\ n = Len(starts)
    BY <1>1, <1>s, <1>2
  <2>2. /\ File!SortedByLine(starts) \in [1..n -> Positions]
        /\ \A k \in 1..n : \E i \in 1..n : File!SortedByLine(starts)[k] = starts[i]
        /\ \A i \in 1..n : \E k \in 1..n : File!SortedByLine(starts)[k] = starts[i]
        /\ \A i, j \in 1..n : i <= j => File!Gte(File!SortedByLine(starts)[j], File!SortedByLine(starts)[i])
    BY <2>1, SortedFacts, Zenon
  <2> QED BY <2>2, Zenon
<1>4. PICK u : u = File!UniqueStartPositions(sorted) /\ HasFirst(u, n, sorted)
  BY <1>3, UniqueFacts
<1>5. u \in Seq(Positions)
  BY <1>4 DEF HasFirst
<1>6. PICK h : /\ h \in [0..n -> Closings] /\ h[0] = [index |-> 1, closed |-> << >>]
               /\ h[n].closed = File!CloseLocations(starts)
               /\ \A k \in 0..(n - 1) : h[k + 1] = File!CloseNext(u, h[k], sorted[k + 1])
  <2>1. /\ sorted = File!SortedByLine(starts) /\ u = File!UniqueStartPositions(File!SortedByLine(starts))
        /\ File!SortedByLine(starts) \in [1..n -> Positions]
        /\ File!UniqueStartPositions(File!SortedByLine(starts)) \in Seq(Positions)
    BY <1>3, <1>4, <1>5, Zenon
  <2> QED BY <2>1, CloseSteps, Zenon
<1> DEFINE T == {k \in 0..n : ClosedUpTo(h[k], k, u, sorted)}
<1>7. 0 \in T
  <2>1. h[0] \in Closings /\ h[0].index = 1 /\ h[0].closed = << >> /\ Len(<< >>) = 0
    BY <1>6
  <2>2. 1 <= Len(u) + 1
    <3>1. Len(u) \in Nat
      BY <1>5, LenProperties
    <3> QED BY <3>1
  <2>3. ClosedUpTo(h[0], 0, u, sorted)
    BY <2>1, <2>2 DEF ClosedUpTo
  <2> QED BY <2>3
<1>8. \A k \in 0..(n - 1) : k \in T => k + 1 \in T
  <2> SUFFICES ASSUME NEW k \in 0..(n - 1), k \in T PROVE k + 1 \in T
    OBVIOUS
  <2>1. ClosedUpTo(File!CloseNext(u, h[k], sorted[k + 1]), k + 1, u, sorted)
    <3>1. ClosedUpTo(h[k], k, u, sorted)
      OBVIOUS
    <3> HIDE DEF T
    <3> QED BY <1>3, <1>4, <3>1, CloseKeeps
  <2>2. k + 1 \in 0..n
    OBVIOUS
  <2> QED BY <1>6, <2>1, <2>2
<1>9. n \in T
  <2> HIDE DEF T
  <2>1. \A k \in 0..n : k \in T
    BY <1>7, <1>8, BoundedInduction
  <2>2. n \in 0..n
    OBVIOUS
  <2> QED BY <2>1, <2>2
<1>c. PICK closed : closed = tests.closed
  OBVIOUS
<1>10. /\ closed \in Seq(Locations) /\ Len(closed) = n
       /\ \A j \in 1..n : \E r \in 1..Len(u) :
            u[r] = sorted[j] /\ closed[j] = [start |-> sorted[j], end |-> Reach(u, r)]
  <2>1. ClosedUpTo(h[n], n, u, sorted) /\ h[n].closed = closed
    BY <1>1, <1>s, <1>c, <1>6, <1>9
  <2> QED BY <2>1 DEF ClosedUpTo, Closings
<1>d. DOMAIN closed = 1..n
  BY <1>10, LenProperties
<1>p. PICK P : P = {sorted[j] : j \in 1..n}
  OBVIOUS
<1>11. File!ToSet(starts) = P
  <2>1. File!ToSet(starts) = {starts[i] : i \in 1..n}
    BY <1>2 DEF File!ToSet
  <2>2. ASSUME NEW p \in P PROVE \E i \in 1..n : p = starts[i]
    <3>1. PICK j \in 1..n : p = sorted[j]
      BY <1>p
    <3> QED BY <1>3, <3>1
  <2>3. ASSUME NEW i \in 1..n PROVE starts[i] \in P
    <3>1. PICK k \in 1..n : sorted[k] = starts[i]
      BY <1>3
    <3> QED BY <1>p, <3>1
  <2> QED BY <2>1, <2>2, <2>3
<1>q. P = {u[i] : i \in 1..Len(u)} /\ \A i, j \in 1..Len(u) : i < j => ~File!Gte(u[i], u[j])
  <2>1. /\ \A i, j \in 1..Len(u) : i < j => ~File!Gte(u[i], u[j])
        /\ \A i \in 1..Len(u) : \E j \in 1..n : u[i] = sorted[j]
        /\ \A j \in 1..n : \E i \in 1..Len(u) : u[i] = sorted[j]
    BY <1>4 DEF HasFirst
  <2>2. ASSUME NEW q \in P PROVE \E i \in 1..Len(u) : q = u[i]
    <3>1. PICK j \in 1..n : q = sorted[j]
      BY <1>p
    <3> QED BY <2>1, <3>1
  <2>3. ASSUME NEW i \in 1..Len(u) PROVE u[i] \in P
    <3>1. PICK j \in 1..n : u[i] = sorted[j]
      BY <2>1
    <3> QED BY <1>p, <3>1
  <2> QED BY <2>1, <2>2, <2>3
<1>12. ASSUME NEW j \in 1..n
       PROVE  closed[j].start = sorted[j] /\ closed[j].end = NextOf(P, closed[j].start)
  <2>1. PICK r \in 1..Len(u) : u[r] = sorted[j] /\ closed[j] = [start |-> sorted[j], end |-> Reach(u, r)]
    BY <1>10
  <2>2. Reach(u, r) = NextOf(P, u[r])
    BY <1>5, <1>q, ReachIsNext
  <2>3. closed[j].start = u[r] /\ closed[j].end = Reach(u, r)
    BY <2>1
  <2> QED BY <2>1, <2>2, <2>3
<1>13. File!ToSet(closed) = {closed[j] : j \in 1..n}
  BY <1>d DEF File!ToSet
<1>14. Len(closed) = Len(starts)
  BY <1>2, <1>10
<1>15. P = {loc.start : loc \in File!ToSet(closed)}
  <2>1. \A j \in 1..n : closed[j].start = sorted[j]
    BY <1>12, Zenon
  <2>2. ASSUME NEW p \in P PROVE \E loc \in File!ToSet(closed) : p = loc.start
    <3>1. PICK j \in 1..n : p = sorted[j]
      BY <1>p
    <3>2. closed[j] \in File!ToSet(closed)
      BY <1>13
    <3> QED BY <2>1, <3>1, <3>2
  <2>3. ASSUME NEW loc \in File!ToSet(closed) PROVE loc.start \in P
    <3>1. PICK j \in 1..n : loc = closed[j]
      BY <1>13
    <3> QED BY <1>p, <2>1, <3>1
  <2> QED BY <2>2, <2>3
<1>16. \A loc \in File!ToSet(closed) : loc.end = NextOf(P, loc.start)
  BY <1>12, <1>13
<1> QED BY <1>s, <1>c, <1>11, <1>14, <1>15, <1>16 DEF File!TestsReachTheNext, NextOf

\* performFileDiff: an item that waits is as far from currentPosition as it is in
\* the old text, one that is partly passed is hit by the next change, and one that
\* is done has the location of its code.
THEOREM PlanningFileInvariant == Spec => []FileInv
<1>1. Init => FileInv
  BY FileInit DEF Init
<1>2. FileInv /\ [Next]_vars => FileInv'
  BY FileInvStep, OnlyParts
<1> QED BY <1>1, <1>2, PTL DEF Spec

\* incremental-differ.ts: what is kept of an old report when whole lines come and
\* go, or text within the lines of a one-line item, is at the place of the same
\* code in the new text; and a test without an end reaches to the start of the
\* next one of its file.
THEOREM PlanningDiffIsRight == Spec => []DiffIsRight
<1>1. FileInv => DiffIsRight
  BY KeptFollows, TestsReach DEF DiffIsRight
<1> QED BY <1>1, PlanningFileInvariant, PTL
=============================================================================
