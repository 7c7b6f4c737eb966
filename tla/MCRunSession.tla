---------------------------- MODULE MCRunSession ----------------------------
(***************************************************************************)
(* TLC harness for RunSession.                                             *)
(***************************************************************************)
EXTENDS RunSession, TLC

CONSTANTS r1, r2

RunSymmetry == Permutations(Runs)
=============================================================================
