----------------------------- MODULE MCPrFacts -----------------------------
(***************************************************************************)
(* TLC harness for PrFacts.                                                *)
(***************************************************************************)
EXTENDS PrFacts
=============================================================================
