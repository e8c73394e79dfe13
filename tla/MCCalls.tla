------------------------------- MODULE MCCalls -------------------------------
(* Calls with a depth limit small enough to be reached and passed. *)
EXTENDS Calls
=============================================================================
