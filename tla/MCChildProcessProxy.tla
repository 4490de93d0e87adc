------------------------ MODULE MCChildProcessProxy ------------------------
(***************************************************************************)
(* Instances of ChildProcessProxy for TLC: two or three calls, which is    *)
(* what it takes for one call to be answered, one to be on its way and one *)
(* to be made after the others.                                            *)
(***************************************************************************)
EXTENDS ChildProcessProxy
=============================================================================
