---------------------------- MODULE MCFileLock ------------------------------
(* FileLock for two processes, two crashes and three lock files. *)
EXTENDS FileLock
CONSTANTS p, q
=============================================================================
