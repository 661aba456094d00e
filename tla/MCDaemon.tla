------------------------------ MODULE MCDaemon ------------------------------
(* Daemon for two commands at a time, two launches, and one crash. *)
EXTENDS Daemon

CONSTANTS c1, c2
=============================================================================
