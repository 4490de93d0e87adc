------------------------- MODULE MCTestRunnerStack -------------------------
(***************************************************************************)
(* Instances of TestRunnerStack for TLC.  Two static and two runtime       *)
(* mutants give every order in which one follows the other; each is run    *)
(* once, as by the executor.                                               *)
(***************************************************************************)
EXTENDS TestRunnerStack, TLC

Symmetry == Permutations(StaticMutants) \cup Permutations(RuntimeMutants)
=============================================================================
