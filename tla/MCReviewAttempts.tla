-------------------------- MODULE MCReviewAttempts --------------------------
(***************************************************************************)
(* TLC harness for ReviewAttempts.                                         *)
(***************************************************************************)
EXTENDS ReviewAttempts

CONSTANTS h1, h2, b1, b2, d1, d2
=============================================================================
