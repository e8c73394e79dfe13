----------------------------- MODULE MCScopes -----------------------------
(* Scopes with one name beside _ENV and one table that _ENV may be set to. *)
EXTENDS Scopes
=============================================================================
