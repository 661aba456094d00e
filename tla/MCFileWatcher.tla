---------------------------- MODULE MCFileWatcher ---------------------------
(* FileWatcher on two paths.  The third event of a batch is a storm, and the
   fourth arrives under the marker. *)
EXTENDS FileWatcher, TLC

CONSTANTS a, b

Symmetry == Permutations(Paths)
=============================================================================
