---------------------------- MODULE MCWatchTree -----------------------------
(* WatchTree on root/d/e and root/g, with a file in d and one in e. *)
EXTENDS WatchTree, TLC

CONSTANTS r, d, e, g, x, y

MCParent == (Root :> Root) @@ (d :> Root) @@ (e :> d) @@ (g :> Root)
MCBelow  == (Root :> {Root, d, e, g}) @@ (d :> {d, e}) @@ (e :> {e}) @@ (g :> {g})
MCDirOf  == (x :> d) @@ (y :> e)
=============================================================================
