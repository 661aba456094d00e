-------------------------- MODULE MCGraphTraversal --------------------------
(* GraphTraversal with four symbols and every graph of a few edges of the  *)
(* kinds that matter to the walk.                                          *)
EXTENDS GraphTraversal, FiniteSetsExt

CONSTANTS n1, n2, n3, n4, MaxLinks

Joining(kinds, containers) ==
  {e \in [from : Nodes, to : Nodes, kind : kinds, place : {1}, row : {1}] :
     e.from # e.to /\ (e.kind = "contains" => e.from \in containers)}
Drawn(k, edges) == UNION {kSubset(i, edges) : i \in 0..k}

(* Graphs with one edge twice: at another place, or the same row again.    *)
Again(graphs) ==
  UNION {{g \cup {[e EXCEPT !.place = 2]}, g \cup {[e EXCEPT !.row = 2]}} : <<g, e>> \in
           {p \in graphs \X UNION graphs : p[2] \in p[1]}}

Bounds(depths, nodes, edges, wanted, kinds, directions) ==
  [depth : depths, nodes : nodes, edges : edges, wanted : wanted, kinds : kinds, direction : directions]

MCGraphs ==
  [o \in Ops |->
    CASE o = "impact" -> Drawn(MaxLinks, Joining({"contains", "calls"}, Containers))
      [] o = "hierarchy" -> Drawn(MaxLinks, Joining({"extends"}, {}))
      [] o = "subgraph" -> Drawn(MaxLinks - 1, Joining({"contains", "calls"}, Containers))
      [] OTHER -> Drawn(MaxLinks + 1, Joining({"calls"}, {}))
                  \cup Again(Drawn(MaxLinks, Joining({"calls"}, {})))]
MCLimits ==
  [o \in Ops |->
    CASE o = "impact" -> Bounds({0, 1, 2}, {1}, {1}, {{}}, {{}}, {"both"})
      [] o = "hierarchy" -> Bounds({1}, {1}, {1}, {{}}, {{}}, {"both"})
      [] o = "subgraph" -> Bounds({0, 1, 2}, {0, 2, 5}, {1}, {{}, {n2, n3}}, {{}, {"calls"}}, {"outgoing", "both"})
      [] o = "neighbourhood" -> Bounds({1, 2}, {3, 4}, {1, 2, 5}, {{}}, {{}}, {"incoming", "both"})
      [] OTHER -> Bounds({0, 2, 3}, {2, 4}, {2, 3, 5}, {{}}, {{}}, {"outgoing"})]
=============================================================================
