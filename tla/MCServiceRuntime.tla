-------------------------- MODULE MCServiceRuntime --------------------------
(***************************************************************************)
(* TLC harness for ServiceRuntime.                                         *)
(***************************************************************************)
EXTENDS ServiceRuntime

CONSTANTS a, b, c
=============================================================================
