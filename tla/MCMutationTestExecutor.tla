----------------------- MODULE MCMutationTestExecutor -----------------------
(***************************************************************************)
(* Instances of MutationTestExecutor for TLC.  The mutants are             *)
(* interchangeable: what the planner decides for each is a variable.       *)
(***************************************************************************)
EXTENDS MutationTestExecutor

Symmetry == Permutations(Mutants)
=============================================================================
