---------------------------- MODULE MCFreshness -----------------------------
(* Freshness on one path: its second event is a storm. *)
EXTENDS Freshness
CONSTANTS a
=============================================================================
