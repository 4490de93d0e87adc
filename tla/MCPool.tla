------------------------------- MODULE MCPool -------------------------------
(***************************************************************************)
(* Instances of Pool for TLC.  Three tokens: two creations in flight and  *)
(* one token buffered behind them.                                        *)
(***************************************************************************)
EXTENDS Pool
=============================================================================
