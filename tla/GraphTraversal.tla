--------------------------- MODULE GraphTraversal ---------------------------
(***************************************************************************)
(* The walks over the graph that answer queries: the impact of a symbol    *)
(* and its type hierarchy (mcp/backend.go, and query/query.go, which has   *)
(* the same walk for the command line), the breadth-first subgraph of an   *)
(* agent's context (mcp/backend.go), the neighbourhood shown in a browser  *)
(* (browserapi/graph.go) and the call path between two symbols             *)
(* (internal/cli/path.go).  All of them are bounded, each in a way of its  *)
(* own, and the graph may have cycles.                                     *)
(*                                                                         *)
(* The graph does not change during a walk (module BrowserApi is about     *)
(* walks while it does) and is one store; every edge has both its ends.    *)
(* The edges are the rows of a table without a unique constraint: two rows *)
(* may differ in their row id only.  The order in which they come out of   *)
(* the store is left open.                                                 *)
(***************************************************************************)
EXTENDS Integers, Sequences, FiniteSets

CONSTANTS
  Nodes, Kinds,     \* symbols; kinds of edges
  Places, RowIds,   \* what else an edge tells (line, column, provenance, metadata); rows
  Containers,       \* symbols of a container kind (class, interface, module, ...)
  Ops, Graphs,      \* the walks, and the graphs each of them is asked about
  Roots, Goals,     \* where a walk begins; where a call path may end
  Limits            \* bounds a caller may give, with the symbols of the wanted kinds

Edge == [from : Nodes, to : Nodes, kind : Kinds, place : Places, row : RowIds]
Limit == [depth : Nat, nodes : Nat, edges : Nat \ {0}, wanted : SUBSET Nodes, kinds : SUBSET Kinds,
          direction : {"outgoing", "incoming", "both"}]

ASSUME GraphBounds ==
  /\ {"contains", "calls", "extends"} \subseteq Kinds
  /\ IsFiniteSet(Nodes) /\ IsFiniteSet(Kinds) /\ IsFiniteSet(Places) /\ IsFiniteSet(RowIds)
  /\ Ops \subseteq {"impact", "hierarchy", "subgraph", "neighbourhood", "path"}
  /\ \A o \in Ops : Graphs[o] \subseteq SUBSET Edge
  /\ \A o \in Ops : Limits[o] \subseteq Limit
  /\ \A o \in Ops \ {"subgraph"} : \A l \in Limits[o] : l.nodes > 0 /\ l.kinds = {}
  /\ "neighbourhood" \in Ops => \A l \in Limits["neighbourhood"] : l.depth > 0
  /\ Roots \subseteq Nodes /\ Goals \subseteq Nodes
  /\ Containers \subseteq Nodes

VARIABLES
  op, graph, root, goal, limit,  \* the question; it does not change
  phase,      \* how far the walk is
  found,      \* symbols of the answer
  links,      \* edges of the answer
  visited,    \* symbols that were expanded
  stack,      \* impact, hierarchy: the calls that have not returned
  queue,      \* subgraph, path: steps to take; neighbourhood: the frontier, as a set
  next,       \* neighbourhood: the frontier of the next level
  here,       \* the symbol being expanded, and how far from the root it is
  pending,    \* its edges that have not been looked at
  trail,      \* path: from where, and in how many hops, each symbol was reached
  inspected,  \* path: number of edges read
  truncated   \* the answer says that something was left out

question == <<op, graph, root, goal, limit>>
vars == <<question, phase, found, links, visited, stack, queue, next, here, pending,
          trail, inspected, truncated>>

Outgoing(n) == {e \in graph : e.from = n}
Incoming(n) == {e \in graph : e.to = n}
Followed == {e \in graph : limit.kinds # {} => e.kind \in limit.kinds}
OtherEnd(e, n) == IF e.from = n THEN e.to ELSE e.from
Smaller(i, j) == IF i < j THEN i ELSE j

(* No symbol is as far as this from another one. *)
Far == Cardinality(Nodes)

-----------------------------------------------------------------------------
(* Impact: a container's members at the depth of the container, and then   *)
(* whatever refers to the symbol, one deeper.                              *)

(* Mutant of ImpactCall: a member affects its container.                   *)
ImpactCallOfContainers(n, d) ==
  [node |-> n, depth |-> d,
   kids |-> {e \in Outgoing(n) : e.kind = "contains" /\ n \in Containers},
   rest |-> Incoming(n)]

ImpactCall(n, d) ==
  [node |-> n, depth |-> d,
   kids |-> {e \in Outgoing(n) : e.kind = "contains" /\ n \in Containers},
   rest |-> {e \in Incoming(n) : e.kind # "contains"}]

Top == stack[Len(stack)]
Below == SubSeq(stack, 1, Len(stack) - 1)

(* The recursive call: it returns at once at the depth limit, and from a   *)
(* symbol that was expanded before.                                        *)
ImpactRecursive(calls, n, d) ==
  IF d < limit.depth /\ n \notin visited
    THEN stack' = Append(calls, ImpactCall(n, d)) /\ visited' = visited \cup {n}
    ELSE stack' = calls /\ UNCHANGED visited

ImpactChild(e) ==
  /\ op = "impact" /\ stack # <<>> /\ e \in Top.kids
  /\ LET calls == Append(Below, [Top EXCEPT !.kids = @ \ {e}]) IN
     IF e.to \in visited
       THEN stack' = calls /\ UNCHANGED <<found, links, visited>>
       ELSE /\ found' = found \cup {e.to} /\ links' = links \cup {e}
            /\ ImpactRecursive(calls, e.to, Top.depth)
  /\ UNCHANGED <<question, phase, queue, next, here, pending, trail, inspected, truncated>>

ImpactDependent(e) ==
  /\ op = "impact" /\ stack # <<>> /\ Top.kids = {} /\ e \in Top.rest
  /\ LET calls == Append(Below, [Top EXCEPT !.rest = @ \ {e}]) IN
     IF e.from \in found
       THEN stack' = calls /\ UNCHANGED <<found, links, visited>>
       ELSE /\ found' = found \cup {e.from} /\ links' = links \cup {e}
            /\ ImpactRecursive(calls, e.from, Top.depth + 1)
  /\ UNCHANGED <<question, phase, queue, next, here, pending, trail, inspected, truncated>>

(* Hierarchy: ancestors first, and then, with a new set of visited types,  *)
(* descendants.                                                            *)
HierarchyCall(n, up) ==
  [node |-> n, depth |-> 0, kids |-> {},
   rest |-> {e \in IF up THEN Outgoing(n) ELSE Incoming(n) : e.kind = "extends"}]

HierarchyEdge(e) ==
  /\ op = "hierarchy" /\ stack # <<>> /\ e \in Top.rest
  /\ LET calls == Append(Below, [Top EXCEPT !.rest = @ \ {e}])
         other == IF phase = "up" THEN e.to ELSE e.from IN
     IF other \in found
       THEN stack' = calls /\ UNCHANGED <<found, links, visited>>
       ELSE /\ found' = found \cup {other} /\ links' = links \cup {e}
            /\ IF other \in visited
                 THEN stack' = calls /\ UNCHANGED visited
                 ELSE /\ stack' = Append(calls, HierarchyCall(other, phase = "up"))
                      /\ visited' = visited \cup {other}
  /\ UNCHANGED <<question, phase, queue, next, here, pending, trail, inspected, truncated>>

(* A call returns; the last one ends the walk, or its first half. *)
Return ==
  /\ stack # <<>> /\ Top.kids = {} /\ Top.rest = {}
  /\ IF Len(stack) = 1 /\ phase = "up"
       THEN /\ stack' = <<HierarchyCall(root, FALSE)>>
            /\ visited' = {root} /\ phase' = "down"
       ELSE /\ stack' = Below
            /\ phase' = IF Len(stack) = 1 THEN "done" ELSE phase
            /\ UNCHANGED visited
  /\ UNCHANGED <<question, found, links, queue, next, here, pending, trail, inspected, truncated>>

-----------------------------------------------------------------------------
(* Subgraph: TraverseBFS.  The limit is looked at between two symbols.  A  *)
(* depth of 0 is none, and a limit of 0 is 1000.                           *)

MaxDepth == IF limit.depth = 0 THEN Far ELSE limit.depth
MaxNodes == IF limit.nodes = 0 THEN 1000 ELSE limit.nodes

Adjacent(n) ==
  {e \in Followed : \/ limit.direction # "incoming" /\ e.from = n
                    \/ limit.direction # "outgoing" /\ e.to = n}

Priority(e) == CASE e.kind = "contains" -> 0 [] e.kind = "calls" -> 1 [] OTHER -> 2

SubgraphVisit ==
  /\ op = "subgraph" /\ phase = "walk" /\ pending = {}
  /\ queue # <<>> /\ Cardinality(found) < MaxNodes
  /\ LET s == Head(queue) IN
     /\ queue' = Tail(queue)
     /\ IF s.node \in visited
          THEN UNCHANGED <<visited, links, here, pending>>
          ELSE /\ visited' = visited \cup {s.node}
               /\ links' = links \cup s.by
               /\ here' = [node |-> s.node, depth |-> s.depth]
               /\ pending' = IF s.depth < MaxDepth THEN Adjacent(s.node) ELSE {}
  /\ UNCHANGED <<question, phase, found, stack, next, trail, inspected, truncated>>

SubgraphEdge(e) ==
  /\ op = "subgraph" /\ e \in pending
  /\ \A f \in pending : Priority(e) <= Priority(f)
  /\ pending' = pending \ {e}
  /\ LET n == OtherEnd(e, here.node) IN
     IF n \in visited \/ (limit.wanted # {} /\ n \notin limit.wanted)
       THEN UNCHANGED <<found, queue>>
       ELSE /\ found' = found \cup {n}
            /\ queue' = Append(queue, [node |-> n, by |-> {e}, depth |-> here.depth + 1])
  /\ UNCHANGED <<question, phase, links, visited, stack, next, here, trail, inspected, truncated>>

SubgraphEnd ==
  /\ op = "subgraph" /\ phase = "walk" /\ pending = {}
  /\ queue = <<>> \/ Cardinality(found) >= MaxNodes
  /\ phase' = "done"
  /\ UNCHANGED <<question, found, links, visited, stack, queue, next, here, pending, trail, inspected, truncated>>

-----------------------------------------------------------------------------
(* Neighbourhood: level by level, every row of the frontier's symbols      *)
(* until a limit is reached; the query itself returns one row more than    *)
(* the limit on edges at most.  Rows that tell the same are one edge.      *)

Rows(edges, most) ==
  {s \in SUBSET edges : Cardinality(s) = Smaller(Cardinality(edges), most)}

Shown(e) == <<e.from, e.to, e.kind, e.place>>
Shows(rows) == {Shown(e) : e \in rows}

(* Mutant of MostRows: no row is left to tell that there are more.         *)
NoSentinel == limit.edges

MostRows == limit.edges + 1

ExpandFrontier(n) ==
  /\ op = "neighbourhood" /\ phase = "walk" /\ pending = {}
  /\ here.depth < limit.depth /\ n \in queue
  /\ queue' = queue \ {n} /\ here' = [here EXCEPT !.node = n]
  /\ \E out \in Rows(IF limit.direction = "incoming" THEN {} ELSE Outgoing(n), MostRows),
        in \in Rows(IF limit.direction = "outgoing" THEN {} ELSE Incoming(n), MostRows) :
       pending' = out \cup in
  /\ UNCHANGED <<question, phase, found, links, visited, stack, next, trail, inspected, truncated>>

NeighbourEdge(e) ==
  /\ op = "neighbourhood" /\ e \in pending
  /\ pending' = pending \ {e}
  /\ LET new == {e.from, e.to} \ found IN
     CASE Shown(e) \in Shows(links) -> UNCHANGED <<found, links, next, truncated>>
       [] Shown(e) \notin Shows(links) /\ \/ Cardinality(links) >= limit.edges
                                          \/ Cardinality(found \cup new) > limit.nodes ->
            truncated' = TRUE /\ UNCHANGED <<found, links, next>>
       [] OTHER -> /\ links' = links \cup {e} /\ found' = found \cup new
                   /\ next' = next \cup new /\ UNCHANGED truncated
  /\ UNCHANGED <<question, phase, visited, stack, queue, here, trail, inspected>>

NextLevel ==
  /\ op = "neighbourhood" /\ phase = "walk" /\ pending = {}
  /\ queue = {} \/ here.depth >= limit.depth
  /\ IF next # {} /\ here.depth + 1 < limit.depth
       THEN /\ queue' = next /\ next' = {}
            /\ here' = [here EXCEPT !.depth = @ + 1] /\ UNCHANGED phase
       ELSE phase' = "done" /\ UNCHANGED <<queue, next, here>>
  /\ UNCHANGED <<question, found, links, visited, stack, pending, trail, inspected, truncated>>

-----------------------------------------------------------------------------
(* Path: findCallPathWithLimits.                                           *)

CallsOf(n) == {e \in Outgoing(n) : e.kind = "calls"}

(* Mutant of Remaining: every symbol has the whole allowance.              *)
WholeAllowance == limit.edges

Remaining == limit.edges - inspected

(* Mutant of LeavesOut: the hop limit leaves nothing out.                  *)
LeavesNothingOut(rows) == FALSE

(* A symbol at the hop limit may have a call that leads on. *)
LeavesOut(rows) == \E e \in rows : e.to \notin found

(* boundedCallEdges: the rows the allowance still permits. *)
PathExpand ==
  /\ op = "path" /\ phase = "walk" /\ pending = {} /\ queue # <<>>
  /\ LET n == Head(queue)
         more == Cardinality(CallsOf(n)) > Remaining IN
     \E rows \in Rows(CallsOf(n), Remaining) :
       /\ queue' = Tail(queue) /\ inspected' = inspected + Cardinality(rows)
       /\ here' = [node |-> n, depth |-> trail[n].hops]
       /\ IF trail[n].hops >= limit.depth
            THEN /\ pending' = {}
                 /\ truncated' = (truncated \/ more \/ LeavesOut(rows))
            ELSE pending' = rows /\ truncated' = (truncated \/ more)
  /\ UNCHANGED <<question, phase, found, links, visited, stack, next, trail>>

PathEdge(e) ==
  /\ op = "path" /\ e \in pending
  /\ CASE e.to \in found ->
            pending' = pending \ {e} /\ UNCHANGED <<phase, found, queue, trail, truncated>>
       [] e.to \notin found /\ Cardinality(found) >= limit.nodes ->
            /\ pending' = pending \ {e} /\ truncated' = TRUE
            /\ UNCHANGED <<phase, found, queue, trail>>
       [] OTHER ->
            /\ found' = found \cup {e.to}
            /\ trail' = [trail EXCEPT ![e.to] = [from |-> here.node, hops |-> here.depth + 1]]
            /\ IF e.to = goal
                 THEN phase' = "done" /\ pending' = {} /\ UNCHANGED queue
                 ELSE /\ queue' = Append(queue, e.to) /\ pending' = pending \ {e}
                      /\ UNCHANGED phase
            /\ UNCHANGED truncated
  /\ UNCHANGED <<question, links, visited, stack, next, here, inspected>>

PathEnd ==
  /\ op = "path" /\ phase = "walk" /\ pending = {} /\ queue = <<>>
  /\ phase' = "done"
  /\ UNCHANGED <<question, found, links, visited, stack, queue, next, here, pending, trail, inspected, truncated>>

-----------------------------------------------------------------------------
(* How each walk begins.  A walk of impact with depth 0, and a path from a *)
(* symbol to itself, are over at once.                                     *)
Init ==
  /\ op \in Ops /\ graph \in Graphs[op] /\ limit \in Limits[op]
  /\ root \in Roots /\ goal \in IF op = "path" THEN Goals ELSE {root}
  /\ found = {root} /\ links = {} /\ next = {} /\ pending = {}
  /\ here = [node |-> root, depth |-> 0]
  /\ trail = [n \in Nodes |-> [from |-> root, hops |-> 0]]
  /\ inspected = 0 /\ truncated = FALSE
  /\ queue = CASE op = "subgraph" -> <<[node |-> root, by |-> {}, depth |-> 0]>>
               [] op = "neighbourhood" -> {root}
               [] op = "path" -> <<root>>
               [] OTHER -> <<>>
  /\ stack = CASE op = "impact" /\ limit.depth > 0 -> <<ImpactCall(root, 0)>>
               [] op = "hierarchy" -> <<HierarchyCall(root, TRUE)>>
               [] OTHER -> <<>>
  /\ visited = IF stack # <<>> THEN {root} ELSE {}
  /\ phase = CASE op = "hierarchy" -> "up"
               [] op = "impact" /\ limit.depth = 0 -> "done"
               [] op = "path" /\ root = goal -> "done"
               [] OTHER -> "walk"

Next ==
  \/ \E e \in graph : \/ ImpactChild(e) \/ ImpactDependent(e) \/ HierarchyEdge(e)
                      \/ SubgraphEdge(e) \/ NeighbourEdge(e) \/ PathEdge(e)
  \/ Return
  \/ SubgraphVisit \/ SubgraphEnd
  \/ \E n \in Nodes : ExpandFrontier(n)
  \/ NextLevel
  \/ PathExpand \/ PathEnd

Spec == Init /\ [][Next]_vars

-----------------------------------------------------------------------------
(* The reference: which symbols are within k steps of the root.            *)

(* The pairs of symbols that edges join, along the edges and against them. *)
Along(edges) == {<<e.from, e.to>> : e \in edges}
Against(edges) == {<<e.to, e.from>> : e \in edges}
OfKind(k) == {e \in graph : e.kind = k}

Calls == Along(OfKind("calls"))
Contains == Along({e \in OfKind("contains") : e.from \in Containers})

(* A step of a neighbourhood or a subgraph, by the direction and the kinds *)
(* of the question; those of a subgraph lead to symbols of wanted kinds.   *)
Joined == (IF limit.direction # "incoming" THEN Along(Followed) ELSE {})
          \cup (IF limit.direction # "outgoing" THEN Against(Followed) ELSE {})
Wanted == {p \in Joined : limit.wanted # {} => p[2] \in limit.wanted}

Onward(S, R) == S \cup {n \in Nodes : \E m \in S : <<m, n>> \in R}

(* What can be reached from S in k steps of R at most. *)
Reached(S, R, k) ==
  LET within[i \in Nat] == IF i = 0 THEN S ELSE Onward(within[i - 1], R)
  IN within[k]

Members(S) == Reached(S, Contains, Far)
Dependents(S) == {e.from : e \in {f \in graph : f.kind # "contains" /\ f.to \in S}}

(* What has to be looked at when the root changes, d references away. *)
Affected(d) ==
  LET within[i \in Nat] ==
        IF i = 0 THEN Members({root})
        ELSE Members(within[i - 1] \cup Dependents(within[i - 1]))
  IN within[d]

Inherited(n) == Reached({n}, Along(OfKind("extends")), Far)
Inheriting(n) == Reached({n}, Against(OfKind("extends")), Far)

-----------------------------------------------------------------------------
(* Everything is of its type. *)
TypeOK ==
  /\ graph \subseteq Edge /\ limit \in Limit /\ {root, goal} \subseteq Nodes
  /\ phase \in {"walk", "up", "down", "done"}
  /\ found \subseteq Nodes /\ links \subseteq graph /\ visited \subseteq Nodes
  /\ pending \subseteq graph /\ next \subseteq Nodes
  /\ trail \in [Nodes -> [from : Nodes, hops : Nat]]
  /\ inspected \in Nat /\ truncated \in BOOLEAN

(* An answer has no symbol that is not related to the root in the way and  *)
(* within the distance the question asks for, whatever the cycles of the   *)
(* graph, and no edge without its ends (Subgraph, GraphResponse).          *)
AnswerIsSound ==
  /\ \A e \in links : {e.from, e.to} \subseteq found
  /\ found \subseteq
       CASE op = "impact" -> Affected(limit.depth)
         [] op = "hierarchy" -> Inherited(root) \cup Inheriting(root)
         [] op = "subgraph" -> Reached({root}, Wanted, MaxDepth)
         [] op = "neighbourhood" -> Reached({root}, Joined, limit.depth)
         [] OTHER -> Reached({root}, Calls, limit.depth)

(* A neighbourhood that is whole: every symbol, and every edge of those    *)
(* that were expanded.                                                     *)
NothingLeftOut ==
  /\ found = Reached({root}, Joined, limit.depth)
  /\ \A n \in Reached({root}, Joined, limit.depth - 1) : Shows(Adjacent(n)) \subseteq Shows(links)

(* The query of a symbol does not return all its rows, and among those are *)
(* two that tell the same.                                                 *)
Crowded(n) ==
  \E rows \in {Outgoing(n), Incoming(n)} :
    /\ Cardinality(rows) > MostRows
    /\ \E e, f \in rows : e # f /\ Shown(e) = Shown(f)

(* What a finished walk may not have missed.  Impact: the members of the   *)
(* root, and whatever refers to one of them.  It need not reach everything *)
(* within its depth: a symbol first met at the limit is not expanded when  *)
(* a shorter way leads to it later.  Hierarchy: everything, unless the     *)
(* root inherits from itself.  Subgraph: everything wanted, unless the     *)
(* limit has stopped it.  Neighbourhood: everything, with every edge,      *)
(* unless the answer says that it is truncated, or the rows of a symbol    *)
(* were too many for its query and some of them told the same (then see    *)
(* TruncationIsTold).                                                      *)
AnswerIsComplete ==
  phase = "done" =>
    CASE op = "impact" -> limit.depth > 0 => Affected(0) \cup Dependents(Affected(0)) \subseteq found
      [] op = "hierarchy" -> Inherited(root) \cap Inheriting(root) = {root}
                               => found = Inherited(root) \cup Inheriting(root)
      [] op = "subgraph" -> Cardinality(found) < MaxNodes
                               => found = Reached({root}, Wanted, MaxDepth)
      [] op = "neighbourhood" ->
           ~truncated /\ (\A n \in Reached({root}, Joined, limit.depth - 1) : ~Crowded(n))
             => NothingLeftOut
      [] OTHER -> TRUE

(* The graph of a browser says so when something is left out, whatever the *)
(* rows are: DTOs contain effective limits and truthful truncation         *)
(* (spec/features/live-daemon-api/README.md:210).  It does not, when rows  *)
(* that tell the same use up the limit of the query.                       *)
TruncationIsTold == op = "neighbourhood" /\ phase = "done" /\ ~truncated => NothingLeftOut

(* A call path is made of calls and is a shortest one; and when the answer *)
(* is that no calls connect the two symbols, and not that the limits were  *)
(* too small, then none do (findCallPathWithLimits).                       *)
PathIsTrue ==
  op = "path" /\ phase = "done" =>
    /\ goal \in found /\ goal # root =>
         /\ goal \notin Reached({root}, Calls, trail[goal].hops - 1)
         /\ LET back[i \in Nat] == IF i = 0 THEN goal ELSE trail[back[i - 1]].from
            IN /\ back[trail[goal].hops] = root
               /\ \A i \in 1..trail[goal].hops : <<back[i], back[i - 1]>> \in Calls
    /\ goal \notin found /\ ~truncated => goal \notin Reached({root}, Calls, Far)

(* What is kept in memory and returned stays within the limits the caller  *)
(* gave.                                                                   *)
LimitsHold ==
  /\ op \in {"neighbourhood", "path"} => Cardinality(found) <= limit.nodes
  /\ op = "neighbourhood" => Cardinality(links) <= limit.edges
  /\ op = "path" => inspected <= limit.edges
=============================================================================
