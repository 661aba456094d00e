------------------------- MODULE GraphTraversalProofs -----------------------
(***************************************************************************)
(* Proofs about the walks over the graph, for every graph, question and    *)
(* limit.                                                                  *)
(*                                                                         *)
(* First what no walk does: the limits are kept, an edge of an answer has  *)
(* both its ends in it, and the trail of a path search is made of calls    *)
(* and leads back to the root.  What a walk still has to do stems from the *)
(* symbols it has found: a call on the stack holds edges at a found        *)
(* symbol, a queue holds found symbols and the edges that led to them, and *)
(* the edges that have not been looked at are those of a found symbol.     *)
(*                                                                         *)
(* Then what the answers are: sound, complete as far as they claim to be,  *)
(* and, of a path, a shortest one.  Each walk has an invariant that splits *)
(* what the reference reaches into what is found and what still waits.  A  *)
(* set that has the root, and the next step of whatever it has, has all    *)
(* that can be reached: this and the rest about the reference needs        *)
(* induction, which is proved here from the order of the natural numbers.  *)
(***************************************************************************)
EXTENDS GraphTraversal, FiniteSetTheorems, SequenceTheorems, WellFoundedInduction, TLAPS

EdgesHaveEnds == \A e \in links : e.from \in found /\ e.to \in found

(* The question, and the parts of the answer. *)
Question ==
  /\ op \in {"impact", "hierarchy", "subgraph", "neighbourhood", "path"}
  /\ graph \subseteq Edge /\ limit \in Limit /\ root \in Nodes /\ goal \in Nodes
  /\ op # "subgraph" => limit.nodes > 0 /\ limit.kinds = {}
Answer ==
  /\ phase \in {"walk", "up", "down", "done"}
  /\ found \subseteq Nodes /\ root \in found /\ links \subseteq graph /\ EdgesHaveEnds
  /\ visited \subseteq Nodes /\ pending \subseteq graph /\ next \subseteq Nodes
Trails == [Nodes -> [from : Nodes, hops : Nat]]

(* Impact and hierarchy: a call has edges of a symbol that was found, in the
   direction of the walk. *)
Frames ==
  {c \in [node : found, depth : Nat, kids : SUBSET graph, rest : SUBSET graph] :
     IF op = "impact"
       THEN c.kids \subseteq Outgoing(c.node) /\ c.rest \subseteq Incoming(c.node)
       ELSE /\ c.kids = {}
            /\ c.rest \subseteq IF phase = "up" THEN Outgoing(c.node) ELSE Incoming(c.node)}
Recursion ==
  /\ stack \in Seq(Frames) /\ (stack # <<>> => op \in {"impact", "hierarchy"})
  /\ phase = "up" => op = "hierarchy"

(* Subgraph: a step leads to a found symbol, along an edge of another. *)
Steps ==
  {s \in [node : found, by : SUBSET graph, depth : Nat] :
     \A e \in s.by : e.from \in found /\ e.to \in found}
Breadth ==
  op = "subgraph" =>
    queue \in Seq(Steps) /\ here \in [node : found, depth : Nat]
    /\ \A e \in pending : e.from = here.node \/ e.to = here.node

(* Path: the trail is made of calls, one hop each. *)
TrailLeadsBack ==
  op = "path" => \A n \in found \ {root} :
    /\ trail[n].from \in found /\ <<trail[n].from, n>> \in Calls
    /\ trail[n].hops = trail[trail[n].from].hops + 1
    /\ trail[n].hops <= limit.depth
Search ==
  op = "path" =>
    /\ queue \in Seq(found) /\ here \in [node : found, depth : Nat]
    /\ here.depth = trail[here.node].hops
    /\ \A e \in pending : e.from = here.node /\ e.kind = "calls" /\ here.depth < limit.depth

WalkInv ==
  /\ Question /\ Answer /\ Recursion /\ Breadth /\ Search /\ TrailLeadsBack
  /\ trail \in Trails /\ inspected \in Nat /\ LimitsHold

-----------------------------------------------------------------------------
(* Sequences as stacks. *)
LEMMA StackOps ==
  ASSUME NEW S, NEW s \in Seq(S), s # <<>>
  PROVE  /\ s[Len(s)] \in S /\ SubSeq(s, 1, Len(s) - 1) \in Seq(S)
         /\ Len(s) = 1 => SubSeq(s, 1, Len(s) - 1) = <<>>
<1>1. Len(s) \in Nat /\ Len(s) >= 1 /\ \A i \in 1..Len(s) : s[i] \in S
  OBVIOUS
<1>2. SubSeq(s, 1, Len(s) - 1) \in Seq(S)
  BY <1>1, SubSeqProperties
<1>3. Len(s) = 1 => SubSeq(s, 1, Len(s) - 1) = <<>>
  BY <1>1, SubSeqEmpty
<1>4. QED
  BY <1>1, <1>2, <1>3

LEMMA OneFrame == ASSUME NEW S, NEW c \in S PROVE <<c>> \in Seq(S)
  OBVIOUS

LEMMA FiniteGraph == IsFiniteSet(Edge)
<1> DEFINE Pairs == Nodes \X Nodes
           Tags == Places \X RowIds
           Ends == (Pairs \X Kinds) \X Tags
           Link == [t \in Ends |-> [from |-> t[1][1][1], to |-> t[1][1][2], kind |-> t[1][2],
                                    place |-> t[2][1], row |-> t[2][2]]]
<1>1. IsFiniteSet(Ends)
  <2>1. IsFiniteSet(Pairs) /\ IsFiniteSet(Tags) /\ IsFiniteSet(Kinds)
    BY GraphBounds, FS_Product
  <2> HIDE DEF Pairs, Tags
  <2>2. IsFiniteSet(Pairs \X Kinds)
    BY <2>1, FS_Product
  <2>3. QED
    BY <2>1, <2>2, FS_Product
<1>2. Link \in [Ends -> Edge]
  BY DEF Edge
<1>3. ASSUME NEW e \in Edge PROVE \E t \in Ends : Link[t] = e
  <2> DEFINE t == <<<<<<e.from, e.to>>, e.kind>>, <<e.place, e.row>>>>
  <2>1. t \in Ends
    BY DEF Edge
  <2>2. Link[t] = e
    BY <2>1 DEF Edge
  <2>3. QED
    BY <2>1, <2>2
<1>4. Link \in Surjection(Ends, Edge)
  BY <1>2, <1>3 DEF Surjection
<1>5. QED
  BY <1>1, <1>4, FS_Surjection

(* One more element is one more at most. *)
LEMMA OneMore ==
  ASSUME NEW S, NEW x, IsFiniteSet(S)
  PROVE  Cardinality(S \cup {x}) <= Cardinality(S) + 1 /\ Cardinality(S) \in Nat
<1>1. Cardinality(S) \in Nat
  BY FS_CardinalityType
<1>2. Cardinality(S \cup {x}) = IF x \in S THEN Cardinality(S) ELSE Cardinality(S) + 1
  BY FS_AddElement
<1>3. QED
  BY <1>1, <1>2

LEMMA FoundIsFinite ==
  ASSUME WalkInv PROVE IsFiniteSet(found) /\ IsFiniteSet(links) /\ IsFiniteSet(graph)
<1>1. found \in SUBSET Nodes /\ links \in SUBSET Edge /\ graph \in SUBSET Edge
  BY DEF WalkInv, Question, Answer
<1>2. QED
  BY <1>1, GraphBounds, FiniteGraph, FS_Subset

LEMMA HierarchyFrame ==
  ASSUME NEW n \in found, NEW up \in BOOLEAN, op = "hierarchy", up <=> phase = "up"
  PROVE  HierarchyCall(n, up) \in Frames
<1> DEFINE E == {e \in IF up THEN Outgoing(n) ELSE Incoming(n) : e.kind = "extends"}
<1>1. E \subseteq graph /\ E \subseteq IF phase = "up" THEN Outgoing(n) ELSE Incoming(n)
  BY DEF Outgoing, Incoming
<1>2. HierarchyCall(n, up) = [node |-> n, depth |-> 0, kids |-> {}, rest |-> E]
  BY DEF HierarchyCall
<1> HIDE DEF E
<1>3. QED
  BY <1>1, <1>2 DEF Frames

LEMMA WalkInit == Init => WalkInv
<1> SUFFICES ASSUME Init PROVE WalkInv
  OBVIOUS
<1>1. Question
  BY GraphBounds DEF Init, Question
<1>2. Answer
  BY <1>1 DEF Init, Answer, EdgesHaveEnds, Question
<1>3. /\ limit.depth \in Nat /\ limit.nodes \in Nat /\ limit.edges \in Nat \ {0}
      /\ op # "subgraph" => limit.nodes > 0
  BY <1>1 DEF Question, Limit
<1>4. Recursion
  <2>1. CASE op = "impact" /\ limit.depth > 0
    <3>1. ImpactCall(root, 0) \in Frames
      BY <2>1 DEF Init, ImpactCall, Frames, Outgoing, Incoming
    <3>2. stack = <<ImpactCall(root, 0)>>
      BY <2>1 DEF Init
    <3>3. QED
      BY <2>1, <3>1, <3>2 DEF Recursion, Init
  <2>2. CASE op = "hierarchy"
    <3>1. phase = "up" /\ stack = <<HierarchyCall(root, TRUE)>>
      BY <2>2 DEF Init
    <3>2. HierarchyCall(root, TRUE) \in Frames
      BY <2>2, <3>1, HierarchyFrame DEF Init
    <3>3. stack \in Seq(Frames)
      BY <3>1, <3>2, OneFrame, Zenon
    <3>4. QED
      BY <2>2, <3>3 DEF Recursion
  <2>3. CASE ~(op = "impact" /\ limit.depth > 0) /\ op # "hierarchy"
    <3>1. stack = <<>>
      BY <2>3 DEF Init
    <3>2. QED
      BY <2>3, <3>1 DEF Recursion, Init
  <2>4. QED
    BY <2>1, <2>2, <2>3
<1>5. Breadth
  <2> SUFFICES ASSUME op = "subgraph" PROVE Breadth
    BY DEF Breadth
  <2>1. queue = <<[node |-> root, by |-> {}, depth |-> 0]>>
    BY DEF Init
  <2>2. [node |-> root, by |-> {}, depth |-> 0] \in Steps
    BY DEF Init, Steps
  <2>3. QED
    BY <2>1, <2>2 DEF Init, Breadth
<1>6. Search /\ TrailLeadsBack
  <2>1. found = {root} /\ pending = {} /\ here = [node |-> root, depth |-> 0]
    BY DEF Init
  <2>2. trail[root].hops = 0
    BY <1>1 DEF Init, Question
  <2>3. op = "path" => queue = <<root>>
    BY DEF Init
  <2>4. QED
    <3>1. Search
      BY <2>1, <2>2, <2>3 DEF Search
    <3>2. TrailLeadsBack
      BY <2>1 DEF TrailLeadsBack
    <3>3. QED
      BY <3>1, <3>2
<1>7. trail \in Trails /\ inspected \in Nat
  BY <1>1 DEF Init, Trails, Question
<1>8. LimitsHold
  <2>1. Cardinality(found) = 1 /\ Cardinality(links) = 0
    BY FS_Singleton, FS_EmptySet DEF Init
  <2>2. QED
    BY <1>3, <2>1 DEF Init, LimitsHold
<1>9. QED
  BY <1>1, <1>2, <1>4, <1>5, <1>6, <1>7, <1>8 DEF WalkInv

-----------------------------------------------------------------------------
(* Impact and hierarchy. *)

(* A step of one of these two walks leaves what the others use alone. *)
LEMMA RecursionStep ==
  ASSUME WalkInv, op \in {"impact", "hierarchy"}, Answer', Recursion',
         UNCHANGED <<question, trail, inspected>>
  PROVE  WalkInv'
<1>1. op' = op /\ graph' = graph /\ limit' = limit /\ root' = root /\ goal' = goal
  BY DEF question
<1>2. Question'
  BY <1>1 DEF WalkInv, Question
<1>3. Breadth' /\ Search' /\ TrailLeadsBack' /\ LimitsHold'
  BY <1>1 DEF Breadth, Search, TrailLeadsBack, LimitsHold
<1>4. QED
  BY <1>2, <1>3 DEF WalkInv, Trails

(* More is found, and the walk goes on in the same direction. *)
LEMMA FramesGrow ==
  ASSUME UNCHANGED question, found \subseteq found', op = "impact" \/ phase' = phase
  PROVE  Frames \subseteq Frames'
  BY DEF question, Frames, Outgoing, Incoming

LEMMA TopIsAFrame ==
  ASSUME Recursion, stack # <<>>
  PROVE  Top \in Frames /\ Below \in Seq(Frames)
  BY StackOps DEF Recursion, Top, Below

LEMMA ImpactStep ==
  ASSUME WalkInv, NEW e \in graph, ImpactChild(e) \/ ImpactDependent(e)
  PROVE  WalkInv'
<1> DEFINE n == IF e \in Top.kids THEN e.to ELSE e.from
           d == IF e \in Top.kids THEN Top.depth ELSE Top.depth + 1
           call == IF Top.kids = {} THEN [Top EXCEPT !.rest = @ \ {e}] ELSE [Top EXCEPT !.kids = @ \ {e}]
           calls == Append(Below, call)
<1>1. /\ op = "impact" /\ stack # <<>> /\ UNCHANGED <<question, phase, pending, next, trail, inspected>>
      /\ e \in Top.kids \/ (Top.kids = {} /\ e \in Top.rest)
  BY DEF ImpactChild, ImpactDependent
<1>2. Top \in Frames /\ Below \in Seq(Frames)
  BY <1>1, TopIsAFrame DEF WalkInv
<1>3. \/ stack' = calls /\ UNCHANGED <<found, links, visited>>
      \/ /\ found' = found \cup {n} /\ links' = links \cup {e}
         /\ ImpactRecursive(calls, n, d)
  BY <1>1 DEF ImpactChild, ImpactDependent
<1>4. e.from \in Nodes /\ e.to \in Nodes /\ e \in Edge /\ n \in Nodes /\ d \in Nat
  BY <1>1, <1>2 DEF WalkInv, Question, Edge, Frames
<1>5. Top.node \in found /\ e.from \in {Top.node, n} /\ e.to \in {Top.node, n}
  BY <1>1, <1>2 DEF Frames, Outgoing, Incoming
<1>6. found \subseteq found' /\ visited' \subseteq visited \cup {n}
  BY <1>3 DEF ImpactRecursive
<1>7. Answer'
  <2>1. found' \subseteq Nodes /\ visited' \subseteq Nodes /\ links' \subseteq graph' /\ root' \in found'
    BY <1>1, <1>3, <1>4, <1>6 DEF WalkInv, Answer, question
  <2>2. EdgesHaveEnds'
    BY <1>3, <1>5, <1>6 DEF WalkInv, Answer, EdgesHaveEnds
  <2>3. QED
    BY <1>1, <2>1, <2>2 DEF WalkInv, Answer, question
<1>8. Recursion'
  <2>1. Frames \subseteq Frames'
    BY <1>1, <1>6, FramesGrow
  <2>2. call \in Frames
    BY <1>1, <1>2 DEF Frames
  <2>3. calls \in Seq(Frames')
    BY <1>2, <2>1, <2>2, AppendProperties, SeqMonotonic
  <2>4. ASSUME found' = found \cup {n} PROVE ImpactCall(n, d) \in Frames'
    BY <1>1, <1>4, <2>4 DEF Frames, ImpactCall, Outgoing, Incoming, question
  <2> HIDE DEF n, d, calls
  <2>5. stack' = calls \/ (found' = found \cup {n} /\ stack' = Append(calls, ImpactCall(n, d)))
    BY <1>3 DEF ImpactRecursive
  <2>6. stack' \in Seq(Frames')
    BY <2>3, <2>4, <2>5, AppendProperties
  <2>7. QED
    BY <1>1, <2>6 DEF WalkInv, Recursion, question
<1>9. QED
  BY <1>1, <1>7, <1>8, RecursionStep

LEMMA HierarchyStep ==
  ASSUME WalkInv, NEW e \in graph, HierarchyEdge(e) PROVE WalkInv'
<1> DEFINE n == IF phase = "up" THEN e.to ELSE e.from
           call == [Top EXCEPT !.rest = @ \ {e}]
           calls == Append(Below, call)
<1>1. /\ op = "hierarchy" /\ stack # <<>> /\ UNCHANGED <<question, phase, pending, next, trail, inspected>>
      /\ e \in Top.rest
  BY DEF HierarchyEdge
<1>2. Top \in Frames /\ Below \in Seq(Frames)
  BY <1>1, TopIsAFrame DEF WalkInv
<1>3. \/ stack' = calls /\ UNCHANGED <<found, links, visited>>
      \/ /\ found' = found \cup {n} /\ links' = links \cup {e}
         /\ \/ stack' = calls /\ UNCHANGED visited
            \/ stack' = Append(calls, HierarchyCall(n, phase = "up")) /\ visited' = visited \cup {n}
  BY DEF HierarchyEdge
<1>4. e.from \in Nodes /\ e.to \in Nodes /\ n \in Nodes
  BY DEF WalkInv, Question, Edge
<1>5. Top.node \in found /\ e.from \in {Top.node, n} /\ e.to \in {Top.node, n}
  BY <1>1, <1>2 DEF Frames, Outgoing, Incoming
<1>6. found \subseteq found' /\ visited' \subseteq visited \cup {n}
  BY <1>3
<1>7. Answer'
  <2>1. found' \subseteq Nodes /\ visited' \subseteq Nodes /\ links' \subseteq graph' /\ root' \in found'
    BY <1>1, <1>3, <1>4, <1>6 DEF WalkInv, Answer, question
  <2>2. EdgesHaveEnds'
    BY <1>3, <1>5, <1>6 DEF WalkInv, Answer, EdgesHaveEnds
  <2>3. QED
    BY <1>1, <2>1, <2>2 DEF WalkInv, Answer, question
<1>8. Recursion'
  <2>1. Frames \subseteq Frames'
    BY <1>1, <1>6, FramesGrow
  <2>2. call \in Frames
    BY <1>1, <1>2 DEF Frames
  <2>3. calls \in Seq(Frames')
    BY <1>2, <2>1, <2>2, AppendProperties, SeqMonotonic
  <2>4. ASSUME found' = found \cup {n} PROVE HierarchyCall(n, phase = "up") \in Frames'
    <3>1. Frames' = {c \in [node : found', depth : Nat, kids : SUBSET graph, rest : SUBSET graph] :
                       /\ c.kids = {}
                       /\ c.rest \subseteq IF phase = "up" THEN Outgoing(c.node) ELSE Incoming(c.node)}
      BY <1>1 DEF Frames, Outgoing, Incoming, question
    <3>2. QED
      BY <2>4, <3>1 DEF HierarchyCall, Outgoing, Incoming
  <2> HIDE DEF n, calls
  <2>5. stack' = calls
        \/ (found' = found \cup {n} /\ stack' = Append(calls, HierarchyCall(n, phase = "up")))
    BY <1>3
  <2>6. stack' \in Seq(Frames')
    BY <2>3, <2>4, <2>5, AppendProperties
  <2>7. QED
    BY <1>1, <2>6 DEF WalkInv, Recursion, question
<1>9. QED
  BY <1>1, <1>7, <1>8, RecursionStep

LEMMA ReturnStep == ASSUME WalkInv, Return PROVE WalkInv'
<1>1. /\ stack # <<>> /\ op \in {"impact", "hierarchy"} /\ stack \in Seq(Frames)
      /\ UNCHANGED <<question, found, links, pending, next, trail, inspected>>
  BY DEF WalkInv, Recursion, Return
<1>2. Below \in Seq(Frames) /\ (Len(stack) = 1 => Below = <<>>)
  BY <1>1, StackOps DEF Below
<1>3. /\ phase' \in {"walk", "up", "down", "done"} /\ visited' \subseteq Nodes
      /\ op' = op /\ graph' = graph /\ root' = root
  BY <1>1 DEF WalkInv, Question, Answer, Return, question
<1>4. Answer'
  BY <1>1, <1>3 DEF WalkInv, Answer, EdgesHaveEnds
<1>5. Recursion'
  <2>1. CASE Len(stack) = 1 /\ phase = "up"
    <3>1. stack' = <<HierarchyCall(root, FALSE)>> /\ phase' = "down"
      BY <2>1 DEF Return
    <3>2. HierarchyCall(root, FALSE)' \in Frames'
      <4>1. op' = "hierarchy" /\ root' \in found' /\ ~(phase' = "up")
        BY <1>1, <1>3, <2>1, <3>1 DEF WalkInv, Recursion, Answer
      <4>2. HierarchyCall(root, FALSE)' \in Frames'
        BY <4>1 DEF HierarchyCall, Frames, Outgoing, Incoming
      <4>3. QED
        BY <4>2
    <3>3. HierarchyCall(root, FALSE)' = HierarchyCall(root, FALSE)
      BY <1>3 DEF HierarchyCall, Outgoing, Incoming
    <3>4. QED
      <4>1. stack' \in Seq(Frames')
        BY <3>1, <3>2, <3>3, OneFrame, Zenon
      <4>2. QED
        BY <1>1, <1>3, <3>1, <4>1 DEF Recursion
  <2>2. CASE Len(stack) = 1 /\ phase # "up"
    <3>1. stack' = <<>> /\ phase' = "done"
      BY <1>2, <2>2 DEF Return
    <3>2. QED
      BY <3>1 DEF Recursion
  <2>3. CASE Len(stack) # 1
    <3>1. stack' = Below /\ phase' = phase
      BY <2>3 DEF Return
    <3>2. Frames' = Frames
      BY <1>1, <1>3, <3>1 DEF Frames, Outgoing, Incoming
    <3>3. QED
      BY <1>1, <1>2, <1>3, <3>1, <3>2 DEF WalkInv, Recursion
  <2>4. QED
    BY <2>1, <2>2, <2>3
<1>6. QED
  BY <1>1, <1>4, <1>5, RecursionStep

-----------------------------------------------------------------------------
(* Subgraph. *)

(* These walks have no stack. *)
LEMMA NoRecursion ==
  ASSUME WalkInv, op \in {"subgraph", "neighbourhood", "path"},
         UNCHANGED <<question, stack>>, phase' = phase \/ phase' = "done"
  PROVE  Question' /\ Recursion'
<1>1. op' = op /\ graph' = graph /\ limit' = limit /\ root' = root /\ goal' = goal
  BY DEF question
<1>2. stack = <<>> /\ phase' # "up"
  BY DEF WalkInv, Recursion
<1>3. Question'
  BY <1>1 DEF WalkInv, Question
<1>4. QED
  BY <1>2, <1>3 DEF Recursion

LEMMA BreadthStep ==
  ASSUME WalkInv, op = "subgraph", UNCHANGED <<question, stack, next, trail, inspected>>,
         phase' = phase \/ phase' = "done", Answer',
         queue' \in Seq(Steps'), here' \in [node : found', depth : Nat],
         \A e \in pending' : e.from = here'.node \/ e.to = here'.node
  PROVE  WalkInv'
<1>1. op' = op
  BY DEF question
<1>2. Question' /\ Recursion'
  BY NoRecursion
<1>3. Breadth' /\ Search' /\ TrailLeadsBack' /\ LimitsHold'
  BY <1>1 DEF Breadth, Search, TrailLeadsBack, LimitsHold
<1>4. QED
  BY <1>2, <1>3 DEF WalkInv, Trails

LEMMA AdjacentIsIncident ==
  ASSUME NEW n PROVE \A e \in Adjacent(n) : e \in graph /\ (e.from = n \/ e.to = n)
  BY DEF Adjacent, Followed

LEMMA SubgraphVisitStep == ASSUME WalkInv, SubgraphVisit PROVE WalkInv'
<1> DEFINE s == Head(queue)
<1>1. /\ op = "subgraph" /\ queue \in Seq(Steps) /\ queue # <<>> /\ queue' = Tail(queue) /\ pending = {}
      /\ UNCHANGED <<question, phase, found, stack, next, trail, inspected>> /\ graph' = graph
  BY DEF WalkInv, Breadth, SubgraphVisit, question
<1>2. s \in Steps /\ queue' \in Seq(Steps) /\ Steps' = Steps
  BY <1>1, HeadTailProperties DEF Steps
<1>3. /\ s.node \in found /\ s.depth \in Nat /\ s.by \subseteq graph
      /\ \A e \in s.by : e.from \in found /\ e.to \in found
  BY <1>2 DEF Steps
<1>4. CASE s.node \in visited
  <2>1. UNCHANGED <<visited, links, here, pending>>
    BY <1>4 DEF SubgraphVisit
  <2>2. Answer'
    BY <1>1, <2>1 DEF WalkInv, Answer, EdgesHaveEnds, question
  <2>3. QED
    BY <1>1, <1>2, <2>1, <2>2, BreadthStep DEF WalkInv, Breadth
<1>5. CASE s.node \notin visited
  <2>1. /\ visited' = visited \cup {s.node} /\ links' = links \cup s.by
        /\ here' = [node |-> s.node, depth |-> s.depth]
        /\ pending' \subseteq Adjacent(s.node)
    BY <1>5 DEF SubgraphVisit
  <2>2. \A e \in pending' : e \in graph /\ (e.from = s.node \/ e.to = s.node)
    BY <2>1, AdjacentIsIncident
  <2>3. Answer'
    BY <1>1, <1>3, <2>1, <2>2 DEF WalkInv, Answer, EdgesHaveEnds, question
  <2>4. here' \in [node : found', depth : Nat] /\ here'.node = s.node
    BY <1>1, <1>3, <2>1
  <2>5. QED
    BY <1>1, <1>2, <2>2, <2>3, <2>4, BreadthStep
<1>6. QED
  BY <1>4, <1>5

LEMMA SubgraphEdgeStep ==
  ASSUME WalkInv, NEW e \in graph, SubgraphEdge(e) PROVE WalkInv'
<1> DEFINE n == OtherEnd(e, here.node)
           step == [node |-> n, by |-> {e}, depth |-> here.depth + 1]
<1>1. /\ op = "subgraph" /\ queue \in Seq(Steps) /\ here \in [node : found, depth : Nat]
      /\ e.from = here.node \/ e.to = here.node
      /\ UNCHANGED <<question, phase, links, visited, stack, next, here, trail, inspected>>
      /\ graph' = graph /\ pending' \subseteq pending
  BY DEF WalkInv, Breadth, SubgraphEdge, question
<1>2. e.from \in Nodes /\ e.to \in Nodes /\ e.from \in {here.node, n} /\ e.to \in {here.node, n}
      /\ n \in Nodes
  BY <1>1 DEF WalkInv, Question, Edge, OtherEnd
<1>3. \/ UNCHANGED <<found, queue>>
      \/ found' = found \cup {n} /\ queue' = Append(queue, step)
  BY DEF SubgraphEdge
<1>4. found \subseteq found' /\ found' \subseteq Nodes
  BY <1>2, <1>3 DEF WalkInv, Answer
<1>5. Answer'
  BY <1>1, <1>4 DEF WalkInv, Answer, EdgesHaveEnds, question
<1>6. Steps \subseteq Steps'
  BY <1>1, <1>4 DEF Steps
<1>7. ASSUME found' = found \cup {n} PROVE step \in Steps'
  BY <1>1, <1>2, <1>7 DEF Steps
<1>8. queue' \in Seq(Steps')
  <2> HIDE DEF n, step
  <2>1. queue \in Seq(Steps')
    BY <1>1, <1>6, SeqMonotonic
  <2>2. QED
    BY <1>3, <1>7, <2>1, AppendProperties
<1>9. here' \in [node : found', depth : Nat]
  BY <1>1, <1>4
<1>10. \A f \in pending' : f.from = here'.node \/ f.to = here'.node
  BY <1>1 DEF WalkInv, Breadth
<1>11. QED
  BY <1>1, <1>5, <1>8, <1>9, <1>10, BreadthStep

LEMMA SubgraphEndStep == ASSUME WalkInv, SubgraphEnd PROVE WalkInv'
<1>1. /\ op = "subgraph" /\ phase' = "done" /\ graph' = graph
      /\ UNCHANGED <<question, found, links, visited, stack, queue, next, here, pending, trail, inspected>>
  BY DEF SubgraphEnd, question
<1>2. Answer' /\ Steps' = Steps
  BY <1>1 DEF WalkInv, Answer, EdgesHaveEnds, Steps, question
<1>3. queue' \in Seq(Steps') /\ here' \in [node : found', depth : Nat]
      /\ \A e \in pending' : e.from = here'.node \/ e.to = here'.node
  BY <1>1, <1>2 DEF WalkInv, Breadth
<1>4. QED
  BY <1>1, <1>2, <1>3, BreadthStep

-----------------------------------------------------------------------------
(* Neighbourhood. *)
LEMMA NeighbourhoodStep ==
  ASSUME WalkInv, op = "neighbourhood", UNCHANGED <<question, stack, trail, inspected>>,
         phase' = phase \/ phase' = "done", Answer', LimitsHold'
  PROVE  WalkInv'
<1>1. op' = op
  BY DEF question
<1>2. Question' /\ Recursion'
  BY NoRecursion
<1>3. Breadth' /\ Search' /\ TrailLeadsBack'
  BY <1>1 DEF Breadth, Search, TrailLeadsBack
<1>4. QED
  BY <1>2, <1>3 DEF WalkInv, Trails

LEMMA ExpandFrontierStep ==
  ASSUME WalkInv, NEW n \in Nodes, ExpandFrontier(n) PROVE WalkInv'
<1>1. /\ op = "neighbourhood" /\ op' = op /\ limit' = limit /\ graph' = graph
      /\ UNCHANGED <<question, phase, found, links, visited, stack, next, trail, inspected>>
  BY DEF ExpandFrontier, question
<1>2. pending' \subseteq graph
  BY DEF ExpandFrontier, Rows, Outgoing, Incoming
<1>3. Answer'
  BY <1>1, <1>2 DEF WalkInv, Answer, EdgesHaveEnds, question
<1>4. LimitsHold'
  BY <1>1 DEF WalkInv, LimitsHold
<1>5. QED
  BY <1>1, <1>3, <1>4, NeighbourhoodStep

LEMMA NeighbourEdgeStep ==
  ASSUME WalkInv, NEW e \in graph, NeighbourEdge(e) PROVE WalkInv'
<1> DEFINE new == {e.from, e.to} \ found
<1>1. /\ op = "neighbourhood" /\ op' = op /\ limit' = limit /\ graph' = graph
      /\ UNCHANGED <<question, phase, visited, stack, trail, inspected>>
      /\ pending' \subseteq pending
  BY DEF NeighbourEdge, question
<1>2. e.from \in Nodes /\ e.to \in Nodes
  BY DEF WalkInv, Question, Edge
<1>3. \/ UNCHANGED <<found, links, next>>
      \/ /\ links' = links \cup {e} /\ found' = found \cup new /\ next' = next \cup new
         /\ ~(Cardinality(links) >= limit.edges) /\ ~(Cardinality(found \cup new) > limit.nodes)
  BY DEF NeighbourEdge
<1>4. Answer'
  BY <1>1, <1>2, <1>3 DEF WalkInv, Answer, EdgesHaveEnds, question
<1>5. LimitsHold'
  <2>1. CASE UNCHANGED <<found, links, next>>
    BY <1>1, <2>1 DEF WalkInv, LimitsHold
  <2>2. CASE ~ UNCHANGED <<found, links, next>>
    <3>1. limit.edges \in Nat /\ limit.nodes \in Nat
      BY DEF WalkInv, Question, Limit
    <3>2. /\ Cardinality(links') <= Cardinality(links) + 1 /\ Cardinality(links) \in Nat
          /\ Cardinality(links') \in Nat
      <4>1. IsFiniteSet(links) /\ IsFiniteSet(links \cup {e})
        BY FoundIsFinite, FS_AddElement
      <4>2. QED
        BY <1>3, <2>2, <4>1, OneMore, FS_CardinalityType
    <3>3. Cardinality(found') \in Nat
      <4>1. found' \in SUBSET Nodes
        BY <1>4 DEF Answer
      <4>2. QED
        BY <4>1, GraphBounds, FS_Subset, FS_CardinalityType
    <3>4. Cardinality(found') <= limit.nodes /\ Cardinality(links') <= limit.edges
      <4> HIDE DEF new
      <4>1. /\ found' = found \cup new
            /\ ~(Cardinality(links) >= limit.edges) /\ ~(Cardinality(found \cup new) > limit.nodes)
        BY <1>3, <2>2
      <4>2. ~(Cardinality(found') > limit.nodes)
        BY <4>1
      <4>3. QED
        BY <3>1, <3>2, <3>3, <4>1, <4>2
    <3>5. QED
      BY <1>1, <3>4 DEF LimitsHold
  <2>3. QED
    BY <2>1, <2>2
<1>6. QED
  BY <1>1, <1>4, <1>5, NeighbourhoodStep

LEMMA NextLevelStep == ASSUME WalkInv, NextLevel PROVE WalkInv'
<1>1. /\ op = "neighbourhood" /\ op' = op /\ limit' = limit /\ graph' = graph
      /\ UNCHANGED <<question, found, links, visited, stack, pending, trail, inspected>>
      /\ next' \subseteq next /\ (phase' = phase \/ phase' = "done")
  BY DEF NextLevel, question
<1>2. Answer'
  BY <1>1 DEF WalkInv, Answer, EdgesHaveEnds, question
<1>3. LimitsHold'
  BY <1>1 DEF WalkInv, LimitsHold
<1>4. QED
  BY <1>1, <1>2, <1>3, NeighbourhoodStep

-----------------------------------------------------------------------------
(* Path. *)
LEMMA SearchStep ==
  ASSUME WalkInv, op = "path", UNCHANGED <<question, stack>>, phase' = phase \/ phase' = "done",
         Answer', Search', TrailLeadsBack', trail' \in Trails, inspected' \in Nat,
         Cardinality(found') <= limit.nodes, inspected' <= limit.edges
  PROVE  WalkInv'
<1>1. op' = op /\ limit' = limit
  BY DEF question
<1>2. Question' /\ Recursion'
  BY NoRecursion
<1>3. Breadth' /\ LimitsHold'
  BY <1>1 DEF Breadth, LimitsHold
<1>4. QED
  BY <1>2, <1>3 DEF WalkInv, Trails

LEMMA PathExpandStep == ASSUME WalkInv, PathExpand PROVE WalkInv'
<1> DEFINE n == Head(queue)
<1>1. /\ op = "path" /\ op' = op /\ limit' = limit /\ graph' = graph /\ root' = root
      /\ queue \in Seq(found) /\ queue # <<>> /\ queue' = Tail(queue)
      /\ UNCHANGED <<question, phase, found, links, visited, stack, next, trail>>
      /\ here' = [node |-> n, depth |-> trail[n].hops]
  BY DEF WalkInv, Search, PathExpand, question
<1>2. n \in found /\ queue' \in Seq(found) /\ trail[n].hops \in Nat /\ n \in Nodes
  <2>1. n \in found /\ queue' \in Seq(found)
    BY <1>1, HeadTailProperties
  <2>2. QED
    BY <2>1 DEF WalkInv, Answer, Trails
<1>3. PICK rows \in Rows(CallsOf(n), Remaining) :
        /\ inspected' = inspected + Cardinality(rows)
        /\ pending' = {} \/ (pending' = rows /\ ~(trail[n].hops >= limit.depth))
  BY DEF PathExpand
<1>4. rows \subseteq CallsOf(n)
  BY DEF Rows
<1>5. limit.depth \in Nat /\ limit.edges \in Nat /\ inspected \in Nat /\ inspected <= limit.edges
  BY <1>1 DEF WalkInv, Question, Limit, LimitsHold
<1>6. inspected' \in Nat /\ inspected' <= limit.edges
  <2>1. Cardinality(CallsOf(n)) \in Nat
    <3>1. CallsOf(n) \in SUBSET graph
      BY DEF CallsOf, Outgoing
    <3>2. IsFiniteSet(CallsOf(n))
      BY <3>1, FoundIsFinite, FS_Subset
    <3>3. QED
      BY <3>2, FS_CardinalityType
  <2>2. Cardinality(rows) = Smaller(Cardinality(CallsOf(n)), limit.edges - inspected)
    BY DEF Rows, Remaining
  <2>3. QED
    BY <1>3, <1>5, <2>1, <2>2 DEF Smaller
<1>7. \A e \in pending' : e \in graph /\ e.from = n /\ e.kind = "calls" /\ trail[n].hops < limit.depth
  BY <1>2, <1>3, <1>4, <1>5 DEF CallsOf, Outgoing
<1>8. Answer'
  BY <1>1, <1>7 DEF WalkInv, Answer, EdgesHaveEnds
<1>9. Search'
  BY <1>1, <1>2, <1>7 DEF Search
<1>10. TrailLeadsBack' /\ trail' \in Trails /\ Cardinality(found') <= limit.nodes
  BY <1>1 DEF WalkInv, TrailLeadsBack, Calls, Along, OfKind, LimitsHold
<1>11. QED
  BY <1>1, <1>6, <1>8, <1>9, <1>10, SearchStep

LEMMA PathEdgeStep ==
  ASSUME WalkInv, NEW e \in graph, PathEdge(e) PROVE WalkInv'
<1>1. /\ op = "path" /\ op' = op /\ limit' = limit /\ graph' = graph /\ root' = root
      /\ UNCHANGED <<question, links, visited, stack, next, here, inspected>>
      /\ pending' \subseteq pending /\ e \in pending /\ (phase' = phase \/ phase' = "done")
  BY DEF PathEdge, question
<1>2. /\ queue \in Seq(found) /\ here \in [node : found, depth : Nat]
      /\ here.depth = trail[here.node].hops
      /\ \A f \in pending : f.from = here.node /\ f.kind = "calls" /\ here.depth < limit.depth
  BY <1>1 DEF WalkInv, Search
<1>3. inspected \in Nat /\ inspected <= limit.edges /\ limit.nodes \in Nat /\ limit.depth \in Nat
  BY <1>1 DEF WalkInv, LimitsHold, Question, Limit
<1>4. e.from \in Nodes /\ e.to \in Nodes /\ root \in found /\ found \subseteq Nodes
  BY DEF WalkInv, Question, Answer, Edge
<1>5. CASE UNCHANGED <<found, queue, trail>>
  <2>1. Answer'
    BY <1>1, <1>5 DEF WalkInv, Answer, EdgesHaveEnds
  <2>2. Search' /\ TrailLeadsBack'
    BY <1>1, <1>5 DEF WalkInv, Search, TrailLeadsBack, Calls, Along, OfKind
  <2>3. QED
    BY <1>1, <1>3, <1>5, <2>1, <2>2, SearchStep DEF WalkInv, LimitsHold
<1>6. CASE /\ e.to \notin found /\ ~(Cardinality(found) >= limit.nodes)
           /\ found' = found \cup {e.to}
           /\ trail' = [trail EXCEPT ![e.to] = [from |-> here.node, hops |-> here.depth + 1]]
           /\ queue' = queue \/ queue' = Append(queue, e.to)
  <2>1. Answer'
    BY <1>1, <1>4, <1>6 DEF WalkInv, Answer, EdgesHaveEnds
  <2>2. here.node \in Nodes /\ here.node # e.to
    BY <1>2, <1>4, <1>6
  <2>3. /\ trail' \in Trails
        /\ trail'[e.to] = [from |-> here.node, hops |-> here.depth + 1]
        /\ \A n \in Nodes : n # e.to => trail'[n] = trail[n]
    BY <1>2, <1>4, <1>6, <2>2 DEF WalkInv, Trails
  <2>4. queue' \in Seq(found')
    <3>1. queue \in Seq(found') /\ e.to \in found'
      BY <1>2, <1>6, SeqMonotonic
    <3>2. QED
      BY <1>6, <3>1, AppendProperties
  <2>5. Search'
    BY <1>1, <1>2, <1>6, <2>2, <2>3, <2>4 DEF Search
  <2>6. TrailLeadsBack'
    <3> SUFFICES ASSUME NEW n \in found' \ {root}
                 PROVE  /\ trail'[n].from \in found' /\ <<trail'[n].from, n>> \in Calls
                        /\ trail'[n].hops = trail'[trail'[n].from].hops + 1
                        /\ trail'[n].hops <= limit.depth
      BY <1>1 DEF TrailLeadsBack, Calls, Along, OfKind
    <3>1. CASE n = e.to
      <4>1. /\ trail'[n].from = here.node /\ trail'[n].hops = here.depth + 1
            /\ here.node \in found /\ here.depth \in Nat /\ here.depth < limit.depth
            /\ e.from = here.node /\ e.kind = "calls"
        BY <1>1, <1>2, <2>3, <3>1
      <4>2. <<here.node, n>> \in Calls
        BY <3>1, <4>1 DEF Calls, Along, OfKind
      <4>3. trail'[here.node].hops = here.depth
        BY <1>2, <2>2, <2>3
      <4>4. QED
        BY <1>3, <1>6, <4>1, <4>2, <4>3
    <3>2. CASE n # e.to
      <4>1. n \in found \ {root} /\ trail'[n] = trail[n]
        BY <1>4, <1>6, <2>3, <3>2
      <4>2. /\ trail[n].from \in found /\ <<trail[n].from, n>> \in Calls
            /\ trail[n].hops = trail[trail[n].from].hops + 1
            /\ trail[n].hops <= limit.depth
        BY <1>1, <4>1 DEF WalkInv, TrailLeadsBack
      <4>3. trail'[trail[n].from] = trail[trail[n].from]
        BY <1>4, <1>6, <2>3, <4>2
      <4>4. QED
        BY <1>6, <4>1, <4>2, <4>3
    <3>3. QED
      BY <3>1, <3>2
  <2>7. Cardinality(found') <= limit.nodes
    <3>1. IsFiniteSet(found) /\ IsFiniteSet(found \cup {e.to})
      BY FoundIsFinite, FS_AddElement
    <3>2. /\ Cardinality(found \cup {e.to}) <= Cardinality(found) + 1
          /\ Cardinality(found) \in Nat /\ Cardinality(found \cup {e.to}) \in Nat
      BY <3>1, OneMore, FS_CardinalityType
    <3>3. QED
      BY <1>3, <1>6, <3>2
  <2>8. QED
    BY <1>1, <1>3, <2>1, <2>3, <2>5, <2>6, <2>7, SearchStep
<1>7. QED
  <2>1. \/ UNCHANGED <<found, queue, trail>>
        \/ /\ e.to \notin found /\ ~(Cardinality(found) >= limit.nodes)
           /\ found' = found \cup {e.to}
           /\ trail' = [trail EXCEPT ![e.to] = [from |-> here.node, hops |-> here.depth + 1]]
           /\ queue' = queue \/ queue' = Append(queue, e.to)
    BY DEF PathEdge
  <2>2. QED
    BY <1>5, <1>6, <2>1

LEMMA PathEndStep == ASSUME WalkInv, PathEnd PROVE WalkInv'
<1>1. /\ op = "path" /\ op' = op /\ limit' = limit /\ graph' = graph /\ root' = root /\ phase' = "done"
      /\ UNCHANGED <<question, found, links, visited, stack, queue, next, here, pending, trail, inspected>>
  BY DEF PathEnd, question
<1>2. Answer'
  BY <1>1 DEF WalkInv, Answer, EdgesHaveEnds
<1>3. Search' /\ TrailLeadsBack'
  BY <1>1 DEF WalkInv, Search, TrailLeadsBack, Calls, Along, OfKind
<1>4. QED
  BY <1>1, <1>2, <1>3, SearchStep DEF WalkInv, LimitsHold

-----------------------------------------------------------------------------
LEMMA WalkStutters == ASSUME WalkInv, UNCHANGED vars PROVE WalkInv'
<1>1. UNCHANGED <<op, graph, root, goal, limit>>
  BY DEF vars, question
<1>2. UNCHANGED <<phase, found, links, visited, stack, queue, next, here, pending, trail, inspected>>
  BY DEF vars
<1>3. Question' /\ Answer'
  BY <1>1, <1>2 DEF WalkInv, Question, Answer, EdgesHaveEnds
<1>4. Frames' = Frames /\ Steps' = Steps
  BY <1>1, <1>2 DEF Frames, Steps, Outgoing, Incoming
<1>5. Recursion' /\ Breadth'
  BY <1>1, <1>2, <1>4 DEF WalkInv, Recursion, Breadth
<1>6. Search' /\ TrailLeadsBack' /\ LimitsHold'
  BY <1>1, <1>2 DEF WalkInv, Search, TrailLeadsBack, LimitsHold, Calls, Along, OfKind
<1>7. QED
  BY <1>2, <1>3, <1>5, <1>6 DEF WalkInv, Trails

(* A step of any walk. *)
LEMMA WalkStep == ASSUME WalkInv, [Next]_vars PROVE WalkInv'
<1>1. ASSUME NEW e \in graph,
             \/ ImpactChild(e) \/ ImpactDependent(e) \/ HierarchyEdge(e)
             \/ SubgraphEdge(e) \/ NeighbourEdge(e) \/ PathEdge(e)
      PROVE  WalkInv'
  BY <1>1, ImpactStep, HierarchyStep, SubgraphEdgeStep, NeighbourEdgeStep, PathEdgeStep
<1>2. ASSUME NEW n \in Nodes, ExpandFrontier(n) PROVE WalkInv'
  BY <1>2, ExpandFrontierStep
<1>3. ASSUME Return \/ SubgraphVisit \/ SubgraphEnd \/ NextLevel \/ PathExpand \/ PathEnd PROVE WalkInv'
  BY <1>3, ReturnStep, SubgraphVisitStep, SubgraphEndStep, NextLevelStep, PathExpandStep,
     PathEndStep
<1>4. QED
  BY <1>1, <1>2, <1>3, WalkStutters DEF Next

LEMMA WalkInvariant == Spec => []WalkInv
  BY WalkInit, WalkStep, PTL DEF Spec

-----------------------------------------------------------------------------
(* Induction over the natural numbers, for sets of numbers. *)

(* A set of numbers that is not empty has a least one. *)
LEMMA LeastNumber ==
  ASSUME NEW T, T \subseteq Nat, T # {}
  PROVE  \E n \in T : \A m \in T : n <= m
<1> DEFINE R == OpToRel(<, Nat)
<1>1. IsWellFoundedOn(R, Nat)
  BY NatLessThanWellFounded, Zenon
<1>2. R = {p \in Nat \X Nat : p[1] < p[2]}
  BY Zenon DEF OpToRel
<1> HIDE DEF R
<1>3. PICK n \in T : \A m \in T : ~(<<m, n>> \in R)
  BY <1>1, WFMin
<1>4. \A m \in T : ~(m < n)
  BY <1>2, <1>3
<1>5. QED
  BY <1>4

(* A set that has 0, and n + 1 with every n, has all of them. *)
LEMMA Induction ==
  ASSUME NEW T, 0 \in T, \A n \in Nat : n \in T => n + 1 \in T
  PROVE  Nat \subseteq T
<1> SUFFICES ASSUME Nat \ T # {} PROVE FALSE
  OBVIOUS
<1>1. PICK n \in Nat \ T : \A m \in Nat \ T : n <= m
  BY LeastNumber
<1>2. n - 1 \in Nat /\ n = (n - 1) + 1 /\ ~(n <= n - 1)
  OBVIOUS
<1>3. n - 1 \in T
  BY <1>1, <1>2
<1>4. QED
  BY <1>2, <1>3

(* A recursive definition over the numbers, each value made of the one before,
   has a solution. *)
LEMMA Iteration ==
  ASSUME NEW A, NEW a \in A, NEW F \in [A -> A]
  PROVE  \E f \in [Nat -> A] : f = [i \in Nat |-> IF i = 0 THEN a ELSE F[f[i - 1]]]
<1> DEFINE Upto(n, g) == g \in [0..n -> A] /\ g[0] = a /\ \A i \in 1..n : g[i] = F[g[i - 1]]
           T == {n \in Nat : \E g : Upto(n, g)}
<1>1. 0 \in T
  <2>1. Upto(0, [i \in 0..0 |-> a])
    OBVIOUS
  <2>2. QED
    BY <2>1
<1>2. ASSUME NEW n \in Nat, n \in T PROVE n + 1 \in T
  <2>1. PICK g : Upto(n, g)
    BY <1>2
  <2> DEFINE h == [i \in 0..(n + 1) |-> IF i = n + 1 THEN F[g[n]] ELSE g[i]]
  <2>2. h \in [0..(n + 1) -> A] /\ h[0] = a
    BY <2>1
  <2>3. ASSUME NEW i \in 1..(n + 1) PROVE h[i] = F[h[i - 1]]
    <3>1. CASE i = n + 1
      <4>1. i - 1 = n /\ n \in 0..(n + 1) /\ n # n + 1
        BY <3>1
      <4>2. QED
        BY <3>1, <4>1
    <3>2. CASE i \in 1..n
      <4>1. i - 1 \in 0..(n + 1) /\ i \in 0..(n + 1) /\ i - 1 # n + 1 /\ i # n + 1
        BY <3>2
      <4>2. h[i] = g[i] /\ h[i - 1] = g[i - 1]
        BY <4>1
      <4>3. QED
        BY <2>1, <3>2, <4>2
    <3>3. QED
      BY <3>1, <3>2
  <2>4. Upto(n + 1, h)
    BY <2>2, <2>3
  <2> HIDE DEF h
  <2>5. QED
    BY <2>4
<1>3. Nat \subseteq T
  BY <1>1, <1>2, Induction
<1> DEFINE S(n) == CHOOSE g : Upto(n, g)
<1>4. \A n \in Nat : Upto(n, S(n))
  BY <1>3, Zenon
<1> HIDE DEF S, T
<1>5. ASSUME NEW n \in Nat PROVE \A m \in Nat : m >= n => S(m)[n] = S(n)[n]
  <2> DEFINE U == {k \in Nat : \A m \in Nat : m >= k => S(m)[k] = S(k)[k]}
  <2>1. 0 \in U
    BY <1>4
  <2>2. ASSUME NEW k \in Nat, k \in U PROVE k + 1 \in U
    <3> SUFFICES ASSUME NEW m \in Nat, m >= k + 1 PROVE S(m)[k + 1] = S(k + 1)[k + 1]
      OBVIOUS
    <3>1. S(m)[k] = S(k)[k] /\ S(k + 1)[k] = S(k)[k]
      BY <2>2
    <3>2. S(m)[k + 1] = F[S(m)[k]]
      BY <1>4
    <3>3. S(k + 1)[k + 1] = F[S(k + 1)[k]]
      BY <1>4
    <3>4. QED
      BY <3>1, <3>2, <3>3
  <2>3. Nat \subseteq U
    BY <2>1, <2>2, Induction
  <2>4. QED
    BY <2>3
<1> DEFINE f == [n \in Nat |-> S(n)[n]]
<1>6. f \in [Nat -> A]
  BY <1>4
<1>7. ASSUME NEW i \in Nat PROVE f[i] = IF i = 0 THEN a ELSE F[f[i - 1]]
  <2>1. CASE i = 0
    BY <1>4, <2>1
  <2>2. CASE i # 0
    <3>1. i - 1 \in Nat /\ i >= i - 1
      BY <2>2
    <3>2. S(i)[i] = F[S(i)[i - 1]]
      BY <1>4, <2>2
    <3>3. S(i)[i - 1] = S(i - 1)[i - 1]
      BY <1>5, <3>1
    <3>4. QED
      BY <2>2, <3>1, <3>2, <3>3
  <2>3. QED
    BY <2>1, <2>2
<1>8. f = [i \in Nat |-> IF i = 0 THEN a ELSE F[f[i - 1]]]
  BY <1>7
<1>9. QED
  BY <1>6, <1>8

-----------------------------------------------------------------------------
(* What can be reached, step by step. *)
LEMMA ReachedSteps ==
  ASSUME NEW S \in SUBSET Nodes, NEW R
  PROVE  /\ Reached(S, R, 0) = S
         /\ \A k \in Nat : /\ Reached(S, R, k) \in SUBSET Nodes
                           /\ Reached(S, R, k + 1) = Onward(Reached(S, R, k), R)
<1> DEFINE F == [T \in SUBSET Nodes |-> Onward(T, R)]
           Is(f) == f = [i \in Nat |-> IF i = 0 THEN S ELSE Onward(f[i - 1], R)]
           w == CHOOSE f : Is(f)
<1>1. F \in [SUBSET Nodes -> SUBSET Nodes]
  <2>1. \A T \in SUBSET Nodes : Onward(T, R) \in SUBSET Nodes
    BY DEF Onward
  <2>2. QED
    BY <2>1
<1> HIDE DEF F
<1>2. PICK g \in [Nat -> SUBSET Nodes] : g = [i \in Nat |-> IF i = 0 THEN S ELSE F[g[i - 1]]]
  <2> DEFINE A == SUBSET Nodes
  <2>1. S \in A /\ F \in [A -> A]
    BY <1>1
  <2> HIDE DEF A
  <2>2. \E g \in [Nat -> A] : g = [i \in Nat |-> IF i = 0 THEN S ELSE F[g[i - 1]]]
    BY <2>1, Iteration
  <2>3. QED
    BY <2>2 DEF A
<1>3. ASSUME NEW i \in Nat PROVE g[i] = IF i = 0 THEN S ELSE Onward(g[i - 1], R)
  <2>1. g[i] = IF i = 0 THEN S ELSE F[g[i - 1]]
    BY <1>2
  <2>2. i # 0 => g[i - 1] \in SUBSET Nodes
    BY <1>2
  <2>3. QED
    BY <2>1, <2>2 DEF F
<1>4. Is(g)
  BY <1>2, <1>3
<1>5. Is(w)
  BY <1>4, Zenon
<1>6. \A k : Reached(S, R, k) = w[k]
  BY DEF Reached
<1> HIDE DEF w
<1>7. w[0] = S /\ \A k \in Nat : w[k + 1] = Onward(w[k], R)
  BY <1>5
<1>8. \A k \in Nat : w[k] \in SUBSET Nodes
  <2> DEFINE T == {k \in Nat : w[k] \in SUBSET Nodes}
  <2>1. 0 \in T /\ \A k \in Nat : k \in T => k + 1 \in T
    BY <1>7 DEF Onward
  <2>2. QED
    BY <2>1, Induction
<1>9. QED
  BY <1>6, <1>7, <1>8

(* With more steps no less is reached. *)
LEMMA ReachedGrows ==
  ASSUME NEW S \in SUBSET Nodes, NEW R, NEW j \in Nat, NEW k \in Nat, j <= k
  PROVE  Reached(S, R, j) \subseteq Reached(S, R, k)
<1> DEFINE T == {i \in Nat : Reached(S, R, j) \subseteq Reached(S, R, j + i)}
<1>1. 0 \in T
  OBVIOUS
<1>2. ASSUME NEW i \in Nat, i \in T PROVE i + 1 \in T
  <2>1. Reached(S, R, (j + i) + 1) = Onward(Reached(S, R, j + i), R)
    <3>1. j + i \in Nat
      OBVIOUS
    <3>2. QED
      BY <3>1, ReachedSteps
  <2>2. (j + i) + 1 = j + (i + 1)
    OBVIOUS
  <2>3. Reached(S, R, j + i) \subseteq Reached(S, R, j + (i + 1))
    BY <2>1, <2>2 DEF Onward
  <2>4. QED
    BY <1>2, <2>3
<1>3. k - j \in T
  <2>1. k - j \in Nat
    OBVIOUS
  <2> HIDE DEF T
  <2>2. QED
    BY <1>1, <1>2, <2>1, Induction
<1>4. j + (k - j) = k
  OBVIOUS
<1>5. QED
  BY <1>3, <1>4

(* From a symbol within k steps to one within k + 1. *)
LEMMA OneStepOn ==
  ASSUME NEW S \in SUBSET Nodes, NEW R, NEW k \in Nat,
         NEW m \in Reached(S, R, k), NEW n \in Nodes, <<m, n>> \in R
  PROVE  n \in Reached(S, R, k + 1)
  BY ReachedSteps DEF Onward

(* And back. *)
LEMMA OneStepBack ==
  ASSUME NEW S \in SUBSET Nodes, NEW R, NEW k \in Nat,
         NEW n \in Reached(S, R, k + 1), n \notin Reached(S, R, k)
  PROVE  \E m \in Reached(S, R, k) : <<m, n>> \in R
<1>1. n \in Onward(Reached(S, R, k), R)
  BY ReachedSteps
<1>2. QED
  BY <1>1 DEF Onward

(* What has S and is closed under R has all that can be reached. *)
LEMMA ClosedHasAll ==
  ASSUME NEW S \in SUBSET Nodes, NEW R, NEW C, S \subseteq C,
         \A m \in C : \A n \in Nodes : <<m, n>> \in R => n \in C,
         NEW k \in Nat
  PROVE  Reached(S, R, k) \subseteq C
<1> DEFINE T == {i \in Nat : Reached(S, R, i) \subseteq C}
<1>1. 0 \in T
  BY ReachedSteps
<1>2. ASSUME NEW i \in Nat, i \in T PROVE i + 1 \in T
  <2>1. Reached(S, R, i + 1) = Onward(Reached(S, R, i), R)
    BY ReachedSteps
  <2>2. Onward(Reached(S, R, i), R) \subseteq C
    BY <1>2 DEF Onward
  <2>3. QED
    BY <2>1, <2>2
<1>3. QED
  BY <1>1, <1>2, Induction

(* The same of what can be reached from the root. *)
LEMMA RootSteps ==
  ASSUME root \in Nodes, NEW R
  PROVE  /\ Reached({root}, R, 0) = {root}
         /\ \A k \in Nat : Reached({root}, R, k) \subseteq Nodes /\ root \in Reached({root}, R, k)
         /\ \A j, k \in Nat : j <= k => Reached({root}, R, j) \subseteq Reached({root}, R, k)
         /\ \A k \in Nat, m \in Nodes, n \in Nodes :
              m \in Reached({root}, R, k) /\ <<m, n>> \in R => n \in Reached({root}, R, k + 1)
         /\ \A k \in Nat, n \in Nodes :
              n \in Reached({root}, R, k + 1) =>
                n \in Reached({root}, R, k) \/ \E m \in Reached({root}, R, k) : <<m, n>> \in R
<1>1. {root} \in SUBSET Nodes
  OBVIOUS
<1>2. Reached({root}, R, 0) = {root}
  BY <1>1, ReachedSteps
<1>3. ASSUME NEW j \in Nat, NEW k \in Nat, j <= k
      PROVE  Reached({root}, R, j) \subseteq Reached({root}, R, k)
  BY <1>1, <1>3, ReachedGrows
<1>4. ASSUME NEW k \in Nat PROVE Reached({root}, R, k) \subseteq Nodes /\ root \in Reached({root}, R, k)
  <2>1. Reached({root}, R, k) \subseteq Nodes
    BY <1>1, ReachedSteps
  <2>2. Reached({root}, R, 0) \subseteq Reached({root}, R, k)
    BY <1>3
  <2>3. QED
    BY <1>2, <2>1, <2>2
<1>5. ASSUME NEW k \in Nat, NEW m \in Nodes, NEW n \in Nodes, m \in Reached({root}, R, k), <<m, n>> \in R
      PROVE  n \in Reached({root}, R, k + 1)
  BY <1>1, <1>5, OneStepOn
<1>6. ASSUME NEW k \in Nat, NEW n \in Nodes, n \in Reached({root}, R, k + 1), n \notin Reached({root}, R, k)
      PROVE  \E m \in Reached({root}, R, k) : <<m, n>> \in R
  BY <1>1, <1>6, OneStepBack
<1>7. QED
  BY <1>2, <1>3, <1>4, <1>5, <1>6

LEMMA FarIsNat == Far \in Nat
  BY GraphBounds, FS_CardinalityType DEF Far

(* As far as Far nothing new is reached: each step before added a symbol. *)
LEMMA FarIsClosed ==
  ASSUME NEW S \in SUBSET Nodes, NEW R,
         NEW m \in Reached(S, R, Far), NEW n \in Nodes, <<m, n>> \in R
  PROVE  n \in Reached(S, R, Far)
<1> DEFINE W(k) == Reached(S, R, k)
           Still(k) == W(k + 1) = W(k)
           T == {k \in Nat : Still(k) \/ Cardinality(W(k)) >= k}
<1>1. \A k \in Nat : W(k) \in SUBSET Nodes /\ W(k + 1) = Onward(W(k), R)
  BY ReachedSteps
<1> HIDE DEF W
<1>2. \A k \in Nat : IsFiniteSet(W(k)) /\ Cardinality(W(k)) \in Nat
  BY <1>1, GraphBounds, FS_Subset, FS_CardinalityType
<1>3. 0 \in T
  BY <1>2
<1>4. ASSUME NEW k \in Nat, k \in T PROVE k + 1 \in T
  <2>1. CASE Still(k)
    <3>1. W(k + 1 + 1) = Onward(W(k + 1), R) /\ W(k + 1) = Onward(W(k), R)
      BY <1>1
    <3>2. Still(k + 1)
      BY <2>1, <3>1
    <3>3. QED
      BY <3>2
  <2>2. CASE ~Still(k)
    <3>1. W(k) \subseteq W(k + 1) /\ W(k) # W(k + 1)
      BY <1>1, <2>2 DEF Onward
    <3>2. IsFiniteSet(W(k + 1)) /\ Cardinality(W(k + 1)) \in Nat /\ Cardinality(W(k)) \in Nat
      BY <1>2
    <3>3. Cardinality(W(k)) < Cardinality(W(k + 1))
      BY <3>1, <3>2, FS_Subset
    <3>4. Cardinality(W(k)) >= k
      BY <1>4, <2>2
    <3>5. Cardinality(W(k + 1)) >= k + 1
      BY <3>2, <3>3, <3>4
    <3>6. QED
      BY <3>5
  <2>3. QED
    BY <2>1, <2>2
<1>5. Still(Far) \/ Cardinality(W(Far)) >= Far
  BY <1>3, <1>4, FarIsNat, Induction
<1>6. m \in W(Far)
  BY DEF W
<1>7. n \in W(Far + 1)
  BY <1>1, <1>6, FarIsNat DEF Onward
<1>8. CASE Still(Far)
  <2>1. n \in W(Far)
    BY <1>7, <1>8
  <2>2. QED
    BY <2>1 DEF W
<1>9. CASE Cardinality(W(Far)) >= Far
  <2>1. W(Far) \subseteq Nodes /\ Cardinality(W(Far)) \in Nat
    BY <1>1, <1>2, FarIsNat
  <2>2. Cardinality(W(Far)) <= Cardinality(Nodes)
    BY <2>1, GraphBounds, FS_Subset
  <2>3. Cardinality(W(Far)) = Cardinality(Nodes)
    BY <1>9, <2>1, <2>2, FarIsNat DEF Far
  <2>4. W(Far) = Nodes
    BY <2>1, <2>3, GraphBounds, FS_Subset
  <2>5. QED
    BY <2>4 DEF W
<1>10. QED
  BY <1>5, <1>8, <1>9

(* Members, and what is affected. *)
LEMMA MembersAreClosed ==
  ASSUME NEW S \in SUBSET Nodes
  PROVE  /\ S \subseteq Members(S) /\ Members(S) \in SUBSET Nodes
         /\ \A m \in Members(S) : \A n \in Nodes : <<m, n>> \in Contains => n \in Members(S)
<1>1. S \subseteq Members(S)
  <2>1. Reached(S, Contains, 0) \subseteq Reached(S, Contains, Far)
    BY ReachedGrows, FarIsNat
  <2>2. QED
    BY <2>1, ReachedSteps DEF Members
<1>2. Members(S) \in SUBSET Nodes
  BY ReachedSteps, FarIsNat DEF Members
<1>3. QED
  BY <1>1, <1>2, FarIsClosed DEF Members

(* Affected, level by level. *)
LEMMA AffectedSteps ==
  ASSUME graph \subseteq Edge, root \in Nodes
  PROVE  /\ Affected(0) = Members({root})
         /\ \A d \in Nat : /\ Affected(d) \in SUBSET Nodes
                           /\ Affected(d + 1) = Members(Affected(d) \cup Dependents(Affected(d)))
<1> DEFINE N(T) == Members(T \cup Dependents(T))
           F == [T \in SUBSET Nodes |-> N(T)]
           Is(f) == f = [i \in Nat |-> IF i = 0 THEN Members({root}) ELSE N(f[i - 1])]
           w == CHOOSE f : Is(f)
<1>1. Members({root}) \in SUBSET Nodes /\ \A T \in SUBSET Nodes : N(T) \in SUBSET Nodes
  <2>1. \A T : Dependents(T) \subseteq Nodes
    BY DEF Dependents, Edge
  <2>2. QED
    BY <2>1, MembersAreClosed
<1>2. F \in [SUBSET Nodes -> SUBSET Nodes]
  <2> HIDE DEF N
  <2>1. QED
    BY <1>1
<1> HIDE DEF F
<1>3. PICK g \in [Nat -> SUBSET Nodes] :
        g = [i \in Nat |-> IF i = 0 THEN Members({root}) ELSE F[g[i - 1]]]
  <2> DEFINE A == SUBSET Nodes
             a == Members({root})
  <2>1. a \in A /\ F \in [A -> A]
    BY <1>1, <1>2
  <2> HIDE DEF A, a
  <2>2. \E g \in [Nat -> A] : g = [i \in Nat |-> IF i = 0 THEN a ELSE F[g[i - 1]]]
    BY <2>1, Iteration
  <2>3. QED
    BY <2>2 DEF A, a
<1>4. ASSUME NEW i \in Nat PROVE g[i] = IF i = 0 THEN Members({root}) ELSE N(g[i - 1])
  <2>1. g[i] = IF i = 0 THEN Members({root}) ELSE F[g[i - 1]]
    BY <1>3
  <2>2. i # 0 => g[i - 1] \in SUBSET Nodes
    <3>1. i # 0 => i - 1 \in Nat
      OBVIOUS
    <3>2. QED
      BY ONLY <1>3, <3>1, g \in [Nat -> SUBSET Nodes]
  <2> HIDE DEF N
  <2>3. QED
    BY <2>1, <2>2 DEF F
<1>5. Is(g)
  <2> HIDE DEF N
  <2>1. QED
    BY <1>3, <1>4
<1>6. Is(w)
  BY <1>5, Zenon
<1>7. \A k : Affected(k) = w[k]
  BY DEF Affected
<1> HIDE DEF w
<1>8. w[0] = Members({root}) /\ \A k \in Nat : w[k + 1] = N(w[k])
  <2> HIDE DEF N
  <2>1. \A i \in Nat : w[i] = IF i = 0 THEN Members({root}) ELSE N(w[i - 1])
    BY <1>6
  <2>2. \A k \in Nat : k + 1 \in Nat /\ (k + 1) - 1 = k /\ k + 1 # 0
    OBVIOUS
  <2>3. QED
    BY ONLY <2>1, <2>2
<1>9. \A k \in Nat : w[k] \in SUBSET Nodes
  <2> DEFINE T == {k \in Nat : w[k] \in SUBSET Nodes}
  <2> HIDE DEF N
  <2>1. 0 \in T /\ \A k \in Nat : k \in T => k + 1 \in T
    BY <1>1, <1>8
  <2>2. QED
    BY <2>1, Induction
<1>10. QED
  BY <1>7, <1>8, <1>9

-----------------------------------------------------------------------------
(* The invariant of each walk. *)

(* The edges that a stack of calls has still to look at. *)
Unread(calls) == UNION {calls[i].kids \cup calls[i].rest : i \in DOMAIN calls}

(* Impact.  A call is about a symbol that is affected at its depth, below
   the limit; and what an expanded symbol holds is expanded as well, what
   refers to it is found, unless the edge still waits on the stack. *)
AffectedFrames ==
  {c \in Frames :
     /\ c.depth < limit.depth /\ c.node \in Affected(c.depth)
     /\ \A e \in c.kids : e.kind = "contains" /\ c.node \in Containers
     /\ \A e \in c.rest : e.kind # "contains"}
ImpactInv ==
  op = "impact" =>
    /\ stack \in Seq(AffectedFrames) /\ (phase = "done" => stack = <<>>)
    /\ found \subseteq Affected(limit.depth) /\ visited \subseteq found
    /\ limit.depth > 0 => root \in visited
    /\ \A e \in graph \ Unread(stack) :
         /\ e.kind = "contains" /\ e.from \in visited \cap Containers => e.to \in visited
         /\ e.kind # "contains" /\ e.to \in visited => e.from \in found

(* Hierarchy.  Ancestors first: all that is found is expanded; descendants
   then, to which the ancestors do not belong. *)
Lineage == IF phase = "up" THEN Inherited(root) ELSE Inheriting(root)
LineageFrames ==
  {c \in Frames : c.node \in Lineage /\ \A e \in c.rest : e.kind = "extends"}
HierarchyInv ==
  op = "hierarchy" =>
    /\ phase \in {"up", "down", "done"}
    /\ stack \in Seq(LineageFrames) /\ (phase = "done" => stack = <<>>)
    /\ root \in visited /\ visited \subseteq Lineage
    /\ found = IF phase = "up" THEN visited ELSE Inherited(root) \cup visited
    /\ \A e \in graph \ Unread(stack) :
         e.kind = "extends" =>
           IF phase = "up" THEN e.from \in visited => e.to \in found
                           ELSE e.to \in visited => e.from \in found

(* Subgraph.  The queue is sorted by depth, and holds what of the present
   level, and of the next one, is not visited. *)
Distant(k) == Reached({root}, Wanted, k)
Queued(k) == {n \in Nodes : \E i \in DOMAIN queue : queue[i].node = n /\ queue[i].depth <= k}
SubgraphInv ==
  op = "subgraph" =>
    /\ here.depth <= MaxDepth /\ here.node \in Distant(here.depth)
    /\ pending \subseteq Adjacent(here.node) /\ (pending # {} => here.depth < MaxDepth)
    /\ \A i \in DOMAIN queue :
         /\ here.depth <= queue[i].depth /\ queue[i].depth <= here.depth + 1
         /\ queue[i].depth <= MaxDepth /\ queue[i].node \in Distant(queue[i].depth)
    /\ \A i, j \in DOMAIN queue : i < j => queue[i].depth <= queue[j].depth
    /\ visited \subseteq found /\ found \subseteq Distant(MaxDepth)
    /\ Distant(here.depth) \subseteq visited \cup Queued(here.depth)
    /\ here.depth < MaxDepth =>
         \A m \in visited, n \in Nodes : <<m, n>> \in Wanted =>
           \/ n \in visited \cup Queued(MaxDepth)
           \/ m = here.node /\ \E e \in pending : OtherEnd(e, m) = n
    /\ phase = "done" => pending = {} /\ (queue = <<>> \/ Cardinality(found) >= MaxNodes)

(* Neighbourhood.  Unless something was left out, or may have been without a
   word, the symbols found are those of the levels done and the next one, and
   every edge of a symbol that has left the frontier is in the answer or
   pending; or these tell of too many. *)
Near(k) == Reached({root}, Joined, k)
TooCrowded == \E n \in Near(limit.depth - 1) : Crowded(n)
Excused == truncated \/ TooCrowded
NeighbourInv ==
  op = "neighbourhood" =>
    /\ here \in [node : Nodes, depth : Nat] /\ here.depth < limit.depth
    /\ here.node \in Near(here.depth)
    /\ queue \subseteq Near(here.depth) /\ found \subseteq Near(here.depth + 1)
    /\ pending \subseteq Adjacent(here.node) /\ next \subseteq found
    /\ ~Excused =>
         /\ found = Near(here.depth) \cup next
         /\ \/ Cardinality(Shows(links \cup pending)) > limit.edges
            \/ \A n \in Near(here.depth) \ queue : Shows(Adjacent(n)) \subseteq Shows(links \cup pending)
    /\ phase = "done" =>
         /\ pending = {}
         /\ ~Excused => /\ found = Near(limit.depth)
                          /\ \A n \in Near(limit.depth - 1) : Shows(Adjacent(n)) \subseteq Shows(links)

(* Path.  The hops of the trail are distances from the root; the queue is
   sorted by them; unless the limits forbid that anything more is found, all
   that is nearer than the symbol being expanded is found; and unless
   something was left out, so are the calls of whatever has left the queue. *)
Within(k) == Reached({root}, Calls, k)
Waiting == {queue[i] : i \in DOMAIN queue}
Spent == inspected >= limit.edges \/ here.depth >= limit.depth
PathInv ==
  op = "path" =>
    /\ trail[root].hops = 0 /\ (phase = "walk" => goal \notin found)
    /\ \A n \in found : /\ n \in Within(trail[n].hops)
                        /\ \A k \in Nat : n \in Within(k) => trail[n].hops <= k
    /\ \A i \in DOMAIN queue :
         here.depth <= trail[queue[i]].hops /\ trail[queue[i]].hops <= here.depth + 1
    /\ \A i, j \in DOMAIN queue : i < j => trail[queue[i]].hops <= trail[queue[j]].hops
    /\ Within(here.depth) \subseteq found \/ Cardinality(found) >= limit.nodes \/ (pending = {} /\ Spent)
    /\ truncated => Cardinality(found) >= limit.nodes \/ Spent
    /\ ~truncated /\ goal \notin found =>
         \A e \in OfKind("calls") \ pending : e.from \in found \ Waiting => e.to \in found
    /\ phase = "done" /\ goal \notin found => pending = {} /\ queue = <<>>

-----------------------------------------------------------------------------
(* The question stands, and with it what can be reached. *)
LEMMA RelationsStand ==
  ASSUME UNCHANGED question
  PROVE  /\ Calls' = Calls /\ Joined' = Joined /\ Wanted' = Wanted
         /\ \A k : OfKind(k)' = OfKind(k)
         /\ \A n : Adjacent(n)' = Adjacent(n)
         /\ MaxDepth' = MaxDepth /\ MaxNodes' = MaxNodes
<1>1. graph' = graph /\ limit' = limit
  BY DEF question
<1>2. Joined' = Joined
  BY <1>1 DEF Joined, Along, Against, Followed
<1>3. Calls' = Calls
  BY <1>1 DEF Calls, Along, OfKind
<1>4. Wanted' = Wanted
  BY <1>1, <1>2 DEF Wanted
<1>5. ASSUME NEW k PROVE OfKind(k)' = OfKind(k)
  BY <1>1 DEF OfKind
<1>6. ASSUME NEW n PROVE Adjacent(n)' = Adjacent(n)
  BY <1>1 DEF Adjacent, Followed
<1>7. MaxDepth' = MaxDepth /\ MaxNodes' = MaxNodes
  BY <1>1 DEF MaxDepth, MaxNodes, Far
<1>8. QED
  BY <1>2, <1>3, <1>4, <1>5, <1>6, <1>7

LEMMA AffectedStands == ASSUME UNCHANGED question, NEW d PROVE Affected(d)' = Affected(d)
<1>1. graph' = graph /\ root' = root
  BY DEF question
<1>2. QED
  BY <1>1 DEF Affected, Members, Dependents, Contains, Along, OfKind, Reached, Onward

LEMMA LineageStands ==
  ASSUME UNCHANGED question
  PROVE  Inherited(root)' = Inherited(root) /\ Inheriting(root)' = Inheriting(root)
<1>1. graph' = graph /\ root' = root
  BY DEF question
<1>2. QED
  BY <1>1 DEF Inherited, Inheriting, Along, Against, OfKind, Reached, Onward

-----------------------------------------------------------------------------
(* Impact. *)
LEMMA AffectedGrows ==
  ASSUME graph \subseteq Edge, root \in Nodes, NEW j \in Nat, NEW k \in Nat, j <= k
  PROVE  Affected(j) \subseteq Affected(k)
<1> DEFINE T == {i \in Nat : Affected(j) \subseteq Affected(j + i)}
<1>1. 0 \in T
  OBVIOUS
<1>2. ASSUME NEW i \in Nat, i \in T PROVE i + 1 \in T
  <2>1. j + i \in Nat /\ (j + i) + 1 = j + (i + 1)
    OBVIOUS
  <2>2. Affected(j + (i + 1)) = Members(Affected(j + i) \cup Dependents(Affected(j + i)))
    BY <2>1, AffectedSteps
  <2>3. Affected(j + i) \cup Dependents(Affected(j + i)) \in SUBSET Nodes
    BY <2>1, AffectedSteps DEF Dependents, Edge
  <2>4. Affected(j + i) \subseteq Affected(j + (i + 1))
    BY <2>2, <2>3, MembersAreClosed
  <2>5. QED
    BY <1>2, <2>4
<1>3. k - j \in T
  <2>1. k - j \in Nat
    OBVIOUS
  <2> HIDE DEF T
  <2>2. QED
    BY <1>1, <1>2, <2>1, Induction
<1>4. j + (k - j) = k
  OBVIOUS
<1>5. QED
  BY <1>3, <1>4

LEMMA ContainsPair ==
  ASSUME graph \subseteq Edge, NEW e \in graph, e.kind = "contains", e.from \in Containers
  PROVE  <<e.from, e.to>> \in Contains
  BY DEF Contains, Along, OfKind

(* A member is affected where its container is, and what refers to an
   affected symbol is affected one reference farther. *)
LEMMA AffectedEdges ==
  ASSUME graph \subseteq Edge, root \in Nodes, NEW d \in Nat, NEW e \in graph
  PROVE  /\ e.kind = "contains" /\ e.from \in Affected(d) \cap Containers => e.to \in Affected(d)
         /\ e.kind # "contains" /\ e.to \in Affected(d) => e.from \in Affected(d + 1)
<1>1. e.from \in Nodes /\ e.to \in Nodes
  BY DEF Edge
<1>2. ASSUME e.kind = "contains", e.from \in Affected(d) \cap Containers PROVE e.to \in Affected(d)
  <2>1. <<e.from, e.to>> \in Contains
    BY <1>2, ContainsPair
  <2>2. PICK S \in SUBSET Nodes : Affected(d) = Members(S)
    <3>1. CASE d = 0
      BY <3>1, AffectedSteps
    <3>2. CASE d # 0
      <4>1. d - 1 \in Nat /\ (d - 1) + 1 = d
        BY <3>2
      <4>2. Affected(d) = Members(Affected(d - 1) \cup Dependents(Affected(d - 1)))
        BY <4>1, AffectedSteps
      <4>3. Affected(d - 1) \cup Dependents(Affected(d - 1)) \in SUBSET Nodes
        BY <4>1, AffectedSteps DEF Dependents, Edge
      <4>4. QED
        BY <4>2, <4>3
    <3>3. QED
      BY <3>1, <3>2
  <2>3. QED
    BY <1>1, <1>2, <2>1, <2>2, MembersAreClosed
<1>3. ASSUME e.kind # "contains", e.to \in Affected(d) PROVE e.from \in Affected(d + 1)
  <2>1. e.from \in Dependents(Affected(d))
    BY <1>3 DEF Dependents
  <2>2. Affected(d) \cup Dependents(Affected(d)) \in SUBSET Nodes
    BY AffectedSteps DEF Dependents, Edge
  <2>3. QED
    BY <2>1, <2>2, AffectedSteps, MembersAreClosed
<1>4. QED
  BY <1>2, <1>3

(* What is unread on a stack with one more call on it, and on one without its top. *)
LEMMA UnreadAppend ==
  ASSUME NEW F, NEW s \in Seq(F), NEW c \in F
  PROVE  Unread(Append(s, c)) = Unread(s) \cup (c.kids \cup c.rest)
<1>1. /\ DOMAIN s = 1..Len(s) /\ Len(s) \in Nat /\ DOMAIN Append(s, c) = 1..(Len(s) + 1)
      /\ Append(s, c)[Len(s) + 1] = c /\ \A i \in 1..Len(s) : Append(s, c)[i] = s[i]
  OBVIOUS
<1>2. QED
  BY <1>1 DEF Unread

LEMMA StackIsTopAndBelow ==
  ASSUME NEW F, stack \in Seq(F), stack # <<>>
  PROVE  /\ Top \in F /\ Below \in Seq(F) /\ stack = Append(Below, Top)
         /\ Unread(stack) = Unread(Below) \cup (Top.kids \cup Top.rest)
<1>1. Top \in F /\ Below \in Seq(F)
  BY StackOps DEF Top, Below
<1>2. Len(stack) \in Nat \ {0} /\ Len(Below) = Len(stack) - 1
      /\ \A i \in 1..(Len(stack) - 1) : Below[i] = stack[i]
  <2>1. Len(stack) \in Nat \ {0}
    BY <1>1
  <2>2. \A i \in 1..(Len(stack) - 1) : stack[i] \in F
    BY <2>1
  <2> DEFINE n == Len(stack) - 1
  <2>3. 1 \in Int /\ n \in Int /\ n >= 0 /\ Below = SubSeq(stack, 1, n)
    BY <2>1 DEF Below
  <2> HIDE DEF n
  <2>4. Len(Below) = (IF 1 <= n THEN n - 1 + 1 ELSE 0)
        /\ \A i \in 1..(n - 1 + 1) : Below[i] = stack[1 + i - 1]
    BY <2>2, <2>3, SubSeqProperties DEF n
  <2>5. \A i \in 1..n : i \in 1..(n - 1 + 1) /\ 1 + i - 1 = i
    BY <2>3
  <2>6. Len(Below) = n /\ \A i \in 1..n : Below[i] = stack[i]
    BY <2>3, <2>4, <2>5
  <2>7. QED
    BY <2>1, <2>6 DEF n
<1>3. stack = Append(Below, Top)
  <2>1. Append(Below, Top) \in Seq(F) /\ Len(Append(Below, Top)) = Len(stack)
    BY <1>1, <1>2
  <2>2. ASSUME NEW i \in 1..Len(stack) PROVE Append(Below, Top)[i] = stack[i]
    BY <1>1, <1>2 DEF Top
  <2>3. QED
    BY <2>1, <2>2, SeqEqual
<1>4. QED
  BY <1>1, <1>3, UnreadAppend

LEMMA ImpactInit == ASSUME Init PROVE ImpactInv
<1> SUFFICES ASSUME op = "impact" PROVE ImpactInv
  BY DEF ImpactInv
<1>1. WalkInv /\ graph \subseteq Edge /\ root \in Nodes /\ limit.depth \in Nat
  BY WalkInit DEF WalkInv, Question, Limit
<1>2. found = {root} /\ (phase = "done" => stack = <<>>) /\ visited = (IF stack # <<>> THEN {root} ELSE {})
  BY <1>1 DEF Init
<1>3. root \in Affected(0)
  BY <1>1, AffectedSteps, MembersAreClosed
<1>4. found \subseteq Affected(limit.depth)
  BY <1>1, <1>2, <1>3, AffectedGrows
<1>5. CASE limit.depth = 0
  <2>1. stack = <<>>
    BY <1>5 DEF Init
  <2>2. QED
    BY <1>2, <1>4, <1>5, <2>1 DEF ImpactInv
<1>6. CASE limit.depth # 0
  <2> DEFINE c == ImpactCall(root, 0)
  <2>1. stack = <<c>>
    BY <1>1, <1>6 DEF Init
  <2>2. c \in AffectedFrames
    BY <1>1, <1>2, <1>3, <1>6 DEF ImpactCall, AffectedFrames, Frames, Outgoing, Incoming
  <2>3. Unread(stack) = c.kids \cup c.rest
    <3> HIDE DEF c
    <3>1. DOMAIN stack = {1} /\ stack[1] = c
      BY <2>1
    <3>2. QED
      BY <3>1 DEF Unread
  <2>4. \A e \in graph \ Unread(stack) :
          /\ e.kind = "contains" => ~(e.from = root /\ root \in Containers)
          /\ e.kind # "contains" => e.to # root
    BY <2>3 DEF ImpactCall, Outgoing, Incoming
  <2> HIDE DEF c
  <2>5. stack \in Seq(AffectedFrames) /\ stack # <<>>
    BY <2>1, <2>2
  <2>6. visited = {root} /\ phase # "done"
    BY <1>2, <1>6, <2>5
  <2>7. QED
    BY <1>2, <1>4, <2>4, <2>5, <2>6 DEF ImpactInv
<1>7. QED
  BY <1>5, <1>6

(* A step of the impact walk: an edge is read, and what it leads to is expanded
   or has been. *)
LEMMA ImpactSteps ==
  ASSUME WalkInv, ImpactInv, NEW e \in graph, ImpactChild(e) \/ ImpactDependent(e)
  PROVE  ImpactInv'
<1> DEFINE n == IF e \in Top.kids THEN e.to ELSE e.from
           d == IF e \in Top.kids THEN Top.depth ELSE Top.depth + 1
           call == IF Top.kids = {} THEN [Top EXCEPT !.rest = @ \ {e}] ELSE [Top EXCEPT !.kids = @ \ {e}]
           calls == Append(Below, call)
           new == ImpactCall(n, d)
<1>1. /\ op = "impact" /\ stack # <<>> /\ UNCHANGED <<question, phase>>
      /\ e \in Top.kids \/ (Top.kids = {} /\ e \in Top.rest)
      /\ graph' = graph /\ limit' = limit /\ root' = root /\ op' = op
  BY DEF ImpactChild, ImpactDependent, question
<1>2. /\ stack \in Seq(AffectedFrames) /\ phase # "done"
      /\ found \subseteq Affected(limit.depth) /\ visited \subseteq found
      /\ limit.depth > 0 => root \in visited
      /\ \A f \in graph \ Unread(stack) :
           /\ f.kind = "contains" /\ f.from \in visited \cap Containers => f.to \in visited
           /\ f.kind # "contains" /\ f.to \in visited => f.from \in found
  BY <1>1 DEF ImpactInv
<1>3. Top \in AffectedFrames /\ Below \in Seq(AffectedFrames)
      /\ Unread(stack) = Unread(Below) \cup (Top.kids \cup Top.rest)
  BY <1>1, <1>2, StackIsTopAndBelow
<1>4. \/ e \in Top.kids /\ e.to \in visited /\ stack' = calls /\ UNCHANGED <<found, links, visited>>
      \/ e \notin Top.kids /\ e.from \in found /\ stack' = calls /\ UNCHANGED <<found, links, visited>>
      \/ /\ n \notin visited \/ n \notin found
         /\ found' = found \cup {n} /\ links' = links \cup {e}
         /\ ImpactRecursive(calls, n, d)
  BY <1>1 DEF ImpactChild, ImpactDependent
<1>5. graph \subseteq Edge /\ root \in Nodes /\ limit.depth \in Nat /\ e.from \in Nodes /\ e.to \in Nodes
  BY DEF WalkInv, Question, Edge, Limit
<1>6. /\ Top.depth \in Nat /\ Top.depth < limit.depth /\ Top.node \in Affected(Top.depth)
      /\ e \in Top.kids => e.kind = "contains" /\ e.from = Top.node /\ Top.node \in Containers
      /\ e \notin Top.kids => e.kind # "contains" /\ e.to = Top.node
  BY <1>1, <1>3 DEF AffectedFrames, Frames, Outgoing, Incoming
<1>7. d \in Nat /\ d <= limit.depth /\ n \in Affected(d) /\ n \in Nodes
      /\ (e \in Top.kids => d < limit.depth)
  BY <1>5, <1>6, AffectedEdges
<1>8. n \in Affected(limit.depth)
  BY <1>5, <1>7, AffectedGrows
<1>9. call \in AffectedFrames /\ call.kids \cup call.rest = (Top.kids \cup Top.rest) \ {e}
  BY <1>1, <1>3 DEF AffectedFrames, Frames
<1>10. calls \in Seq(AffectedFrames) /\ Unread(stack) \ {e} \subseteq Unread(calls)
  <2> HIDE DEF call
  <2>1. calls \in Seq(AffectedFrames)
    BY <1>3, <1>9, AppendProperties
  <2>2. Unread(calls) = Unread(Below) \cup (call.kids \cup call.rest)
    BY <1>3, <1>9, UnreadAppend
  <2>3. QED
    BY <1>3, <1>9, <2>1, <2>2
<1> HIDE DEF call, calls
<1>11. AffectedFrames \subseteq AffectedFrames'
  <2>1. found \subseteq found'
    BY <1>4
  <2>2. Frames \subseteq Frames'
    BY <1>1, <2>1, FramesGrow
  <2>3. \A k : Affected(k)' = Affected(k)
    BY <1>1, AffectedStands
  <2>4. QED
    BY <1>1, <2>2, <2>3 DEF AffectedFrames
<1>12. found' \subseteq Affected(limit.depth)'
  <2>1. found' \subseteq Affected(limit.depth)
    BY <1>2, <1>4, <1>8
  <2>2. Affected(limit.depth)' = Affected(limit.depth)
    BY <1>1, AffectedStands
  <2>3. QED
    BY <2>1, <2>2
<1>13. CASE stack' = calls /\ visited' = visited /\ found \subseteq found'
           /\ (e \in Top.kids => e.to \in visited) /\ (e \notin Top.kids => e.from \in found')
  <2>1. stack' \in Seq(AffectedFrames')
    BY <1>10, <1>11, <1>13, SeqMonotonic
  <2>2. \A f \in graph' \ Unread(stack)' :
           /\ f.kind = "contains" /\ f.from \in visited' \cap Containers => f.to \in visited'
           /\ f.kind # "contains" /\ f.to \in visited' => f.from \in found'
    <3> SUFFICES ASSUME NEW f \in graph, f \notin Unread(stack)'
                 PROVE  /\ f.kind = "contains" /\ f.from \in visited \cap Containers => f.to \in visited
                        /\ f.kind # "contains" /\ f.to \in visited => f.from \in found'
      BY <1>1, <1>13
    <3>1. f \notin Unread(stack) \/ f = e
      <4>1. Unread(stack)' = Unread(calls)
        BY <1>13 DEF Unread
      <4>2. QED
        BY <1>10, <4>1
    <3>2. QED
      BY <1>2, <1>6, <1>13, <3>1
  <2>3. visited' \subseteq found' /\ (limit'.depth > 0 => root' \in visited')
    BY <1>1, <1>2, <1>13
  <2>4. QED
    BY <1>1, <1>2, <1>12, <2>1, <2>2, <2>3 DEF ImpactInv
<1>14. CASE stack' = Append(calls, new) /\ visited' = visited \cup {n} /\ found' = found \cup {n}
            /\ d < limit.depth
  <2>1. new \in AffectedFrames'
    <3>1. new \in Frames'
      BY <1>1, <1>7, <1>14 DEF Frames, ImpactCall, Outgoing, Incoming
    <3>2. PICK c : c = new
      OBVIOUS
    <3>3. \A k : Affected(k)' = Affected(k)
      BY <1>1, AffectedStands
    <3>4. c.node \in Affected(c.depth) /\ c.depth < limit.depth
      BY <1>7, <1>14, <3>2 DEF ImpactCall
    <3>5. /\ \A f \in c.kids : f.kind = "contains" /\ c.node \in Containers
          /\ \A f \in c.rest : f.kind # "contains"
      BY <3>2 DEF ImpactCall
    <3> HIDE DEF new
    <3>6. c \in AffectedFrames'
      BY <1>1, <3>1, <3>2, <3>3, <3>4, <3>5 DEF AffectedFrames
    <3>7. QED
      BY <3>2, <3>6
  <2>2. /\ \A f \in graph : f.kind = "contains" /\ f.from = n /\ n \in Containers => f \in new.kids
        /\ \A f \in graph : f.kind # "contains" /\ f.to = n => f \in new.rest
    BY DEF ImpactCall, Outgoing, Incoming
  <2>3. e \in Top.kids => e.to = n
    OBVIOUS
  <2>4. e \notin Top.kids => e.from = n
    OBVIOUS
  <2> HIDE DEF new, n, d
  <2>5. calls \in Seq(AffectedFrames')
    BY <1>10, <1>11, SeqMonotonic
  <2>6. stack' \in Seq(AffectedFrames')
    BY <1>14, <2>1, <2>5, AppendProperties
  <2>7. Unread(stack)' = Unread(calls) \cup (new.kids \cup new.rest)
    <3>1. Unread(Append(calls, new)) = Unread(calls) \cup (new.kids \cup new.rest)
      BY <2>1, <2>5, UnreadAppend
    <3>2. Unread(stack)' = Unread(Append(calls, new))
      BY <1>14 DEF Unread
    <3>3. QED
      BY <3>1, <3>2
  <2>8. \A f \in graph' \ Unread(stack)' :
           /\ f.kind = "contains" /\ f.from \in visited' \cap Containers => f.to \in visited'
           /\ f.kind # "contains" /\ f.to \in visited' => f.from \in found'
    <3> SUFFICES ASSUME NEW f \in graph, f \notin Unread(stack)'
                 PROVE  /\ f.kind = "contains" /\ f.from \in visited' \cap Containers => f.to \in visited'
                        /\ f.kind # "contains" /\ f.to \in visited' => f.from \in found'
      BY <1>1
    <3>1. f \notin Unread(calls) /\ f \notin new.kids /\ f \notin new.rest
      BY <2>7
    <3>2. CASE f = e
      BY <1>6, <1>14, <2>3, <2>4, <3>2
    <3>3. CASE f # e
      <4>1. f \notin Unread(stack)
        BY <1>10, <3>1, <3>3
      <4>2. QED
        BY <1>2, <1>14, <2>2, <3>1, <4>1
    <3>4. QED
      BY <3>2, <3>3
  <2>9. visited' \subseteq found' /\ (limit'.depth > 0 => root' \in visited')
    BY <1>1, <1>2, <1>14
  <2>10. QED
    BY <1>1, <1>2, <1>12, <2>6, <2>8, <2>9 DEF ImpactInv
<1>15. QED
  <2>1. CASE stack' = calls /\ UNCHANGED <<found, links, visited>>
    <3>1. \/ (e \in Top.kids => e.to \in visited) /\ (e \notin Top.kids => e.from \in found)
          \/ (found' = found \cup {n} /\ ImpactRecursive(calls, n, d) /\ (n \notin visited \/ n \notin found))
      BY <1>4
    <3>2. CASE (e \in Top.kids => e.to \in visited) /\ (e \notin Top.kids => e.from \in found)
      BY <1>13, <2>1, <3>2
    <3>3. CASE found' = found \cup {n} /\ ImpactRecursive(calls, n, d) /\ (n \notin visited \/ n \notin found)
      <4>1. n \in found
        BY <2>1, <3>3
      <4>2. CASE e \in Top.kids
        <5>1. d < limit.depth /\ n \notin visited
          BY <1>7, <3>3, <4>1, <4>2
        <5>2. stack' = Append(calls, new) /\ visited' = visited \cup {n}
          BY <3>3, <5>1 DEF ImpactRecursive
        <5>3. QED
          BY <1>14, <3>3, <5>1, <5>2
      <4>3. CASE e \notin Top.kids
        BY <1>13, <2>1, <4>1, <4>3
      <4>4. QED
        BY <4>2, <4>3
    <3>4. QED
      BY <3>1, <3>2, <3>3
  <2>2. CASE found' = found \cup {n} /\ ImpactRecursive(calls, n, d)
    <3>1. CASE d < limit.depth /\ n \notin visited
      <4>1. stack' = Append(calls, new) /\ visited' = visited \cup {n}
        BY <2>2, <3>1 DEF ImpactRecursive
      <4>2. QED
        BY <1>14, <2>2, <3>1, <4>1
    <3>2. CASE ~(d < limit.depth /\ n \notin visited)
      <4>1. stack' = calls /\ visited' = visited
        BY <2>2, <3>2 DEF ImpactRecursive
      <4>2. e \in Top.kids => e.to \in visited
        BY <1>7, <3>2
      <4>3. e \notin Top.kids => e.from \in found'
        BY <2>2
      <4>4. found \subseteq found'
        BY <2>2
      <4>5. QED
        BY <1>13, <4>1, <4>2, <4>3, <4>4
    <3>3. QED
      BY <3>1, <3>2
  <2>3. QED
    BY <1>4, <2>1, <2>2

(* A call of the impact walk returns when it has no more edges to read. *)
LEMMA ImpactReturns ==
  ASSUME WalkInv, ImpactInv, op = "impact", Return
  PROVE  ImpactInv'
<1>1. /\ stack # <<>> /\ UNCHANGED <<question, found, links>> /\ Top.kids = {} /\ Top.rest = {}
      /\ graph' = graph /\ limit' = limit /\ root' = root /\ op' = op
  BY DEF Return, question
<1>2. stack' = Below /\ UNCHANGED visited /\ (phase' = "done" => Len(stack) = 1 \/ phase = "done")
  BY DEF Return, WalkInv, Recursion
<1>3. /\ stack \in Seq(AffectedFrames) /\ phase # "done"
  BY <1>1 DEF ImpactInv
<1>4. Below \in Seq(AffectedFrames) /\ Unread(stack) = Unread(Below)
  BY <1>1, <1>3, StackIsTopAndBelow
<1>5. Len(stack) = 1 => Below = <<>>
  BY <1>1, <1>3, StackOps DEF Below
<1>6. AffectedFrames' = AffectedFrames
  <2>1. Frames' = Frames
    <3>1. op = "impact" /\ op' = "impact"
      BY <1>1
    <3>2. QED
      BY <1>1, <3>1 DEF Frames, Outgoing, Incoming
  <2>2. \A k : Affected(k)' = Affected(k)
    BY <1>1, AffectedStands
  <2>3. QED
    BY <1>1, <2>1, <2>2 DEF AffectedFrames
<1>7. Unread(stack)' = Unread(stack)
  <2>1. Unread(stack)' = Unread(Below)
    BY <1>2 DEF Unread
  <2>2. QED
    BY <1>4, <2>1
<1>8. Affected(limit.depth)' = Affected(limit.depth)
  <2>1. \A k : Affected(k)' = Affected(k)
    BY <1>1, AffectedStands
  <2>2. QED
    BY <1>1, <2>1
<1>9. QED
  BY <1>1, <1>2, <1>3, <1>4, <1>5, <1>6, <1>7, <1>8 DEF ImpactInv

(* What the answer of a finished impact walk has. *)
LEMMA ImpactIsComplete ==
  ASSUME WalkInv, ImpactInv, op = "impact", phase = "done", limit.depth > 0
  PROVE  Affected(0) \cup Dependents(Affected(0)) \subseteq found
<1>1. graph \subseteq Edge /\ root \in Nodes
  BY DEF WalkInv, Question
<1>2. Unread(stack) = {}
  BY DEF ImpactInv, Unread
<1>3. \A e \in graph :
        /\ e.kind = "contains" /\ e.from \in visited \cap Containers => e.to \in visited
        /\ e.kind # "contains" /\ e.to \in visited => e.from \in found
  BY <1>2 DEF ImpactInv
<1>4. Affected(0) \subseteq visited
  <2>1. \A m \in visited : \A n \in Nodes : <<m, n>> \in Contains => n \in visited
    BY <1>3 DEF Contains, Along, OfKind
  <2>2. {root} \subseteq visited /\ {root} \in SUBSET Nodes
    BY <1>1 DEF ImpactInv
  <2>3. Reached({root}, Contains, Far) \subseteq visited
    BY <2>1, <2>2, FarIsNat, ClosedHasAll
  <2>4. QED
    BY <1>1, <2>3, AffectedSteps DEF Members
<1>5. visited \subseteq found
  BY DEF ImpactInv
<1>6. QED
  BY <1>3, <1>4, <1>5 DEF Dependents

-----------------------------------------------------------------------------
(* Hierarchy. *)
LEMMA LineageIsClosed ==
  ASSUME graph \subseteq Edge, root \in Nodes
  PROVE  /\ root \in Inherited(root) /\ root \in Inheriting(root)
         /\ \A e \in OfKind("extends") :
              /\ e.from \in Inherited(root) => e.to \in Inherited(root)
              /\ e.to \in Inheriting(root) => e.from \in Inheriting(root)
<1> DEFINE up == Along(OfKind("extends"))
           down == Against(OfKind("extends"))
<1>1. {root} \in SUBSET Nodes
  OBVIOUS
<1>2. \A R : root \in Reached({root}, R, Far)
  <2>1. \A R : Reached({root}, R, 0) = {root} /\ Reached({root}, R, 0) \subseteq Reached({root}, R, Far)
    BY <1>1, ReachedSteps, ReachedGrows, FarIsNat
  <2>2. QED
    BY <2>1
<1>3. ASSUME NEW e \in OfKind("extends")
      PROVE  /\ e.from \in Nodes /\ e.to \in Nodes
             /\ <<e.from, e.to>> \in up /\ <<e.to, e.from>> \in down
  BY DEF OfKind, Edge, Along, Against
<1> HIDE DEF up, down
<1>4. ASSUME NEW e \in OfKind("extends"), e.from \in Reached({root}, up, Far)
      PROVE  e.to \in Reached({root}, up, Far)
  BY <1>1, <1>3, <1>4, FarIsClosed
<1>5. ASSUME NEW e \in OfKind("extends"), e.to \in Reached({root}, down, Far)
      PROVE  e.from \in Reached({root}, down, Far)
  BY <1>1, <1>3, <1>5, FarIsClosed
<1>6. QED
  BY <1>2, <1>4, <1>5 DEF Inherited, Inheriting, up, down

(* A set of symbols that has the root and is closed has its lineage. *)
LEMMA ClosedHasLineage ==
  ASSUME graph \subseteq Edge, root \in Nodes, NEW C, root \in C
  PROVE  /\ (\A e \in OfKind("extends") : e.from \in C => e.to \in C) => Inherited(root) \subseteq C
         /\ (\A e \in OfKind("extends") : e.to \in C => e.from \in C) => Inheriting(root) \subseteq C
<1>1. {root} \in SUBSET Nodes /\ {root} \subseteq C
  OBVIOUS
<1>2. ASSUME \A e \in OfKind("extends") : e.from \in C => e.to \in C
      PROVE  Inherited(root) \subseteq C
  <2> DEFINE R == Along(OfKind("extends"))
  <2>1. \A m \in C : \A n \in Nodes : <<m, n>> \in R => n \in C
    BY <1>2 DEF Along
  <2> HIDE DEF R
  <2>2. Reached({root}, R, Far) \subseteq C
    BY <1>1, <2>1, FarIsNat, ClosedHasAll
  <2>3. QED
    BY <2>2 DEF Inherited, R
<1>3. ASSUME \A e \in OfKind("extends") : e.to \in C => e.from \in C
      PROVE  Inheriting(root) \subseteq C
  <2> DEFINE R == Against(OfKind("extends"))
  <2>1. \A m \in C : \A n \in Nodes : <<m, n>> \in R => n \in C
    BY <1>3 DEF Against
  <2> HIDE DEF R
  <2>2. Reached({root}, R, Far) \subseteq C
    BY <1>1, <2>1, FarIsNat, ClosedHasAll
  <2>3. QED
    BY <2>2 DEF Inheriting, R
<1>4. QED
  BY <1>2, <1>3

(* The edges a call of the hierarchy starts with. *)
LEMMA HierarchyEdges ==
  ASSUME NEW n
  PROVE  /\ HierarchyCall(n, TRUE).node = n /\ HierarchyCall(n, TRUE).kids = {}
         /\ HierarchyCall(n, TRUE).rest = {e \in graph : e.from = n /\ e.kind = "extends"}
         /\ HierarchyCall(n, FALSE).node = n /\ HierarchyCall(n, FALSE).kids = {}
         /\ HierarchyCall(n, FALSE).rest = {e \in graph : e.to = n /\ e.kind = "extends"}
  BY DEF HierarchyCall, Outgoing, Incoming

LEMMA UnreadOne == ASSUME NEW c PROVE Unread(<<c>>) = c.kids \cup c.rest
<1> DEFINE s == <<c>>
<1>1. DOMAIN s = {1} /\ s[1] = c
  OBVIOUS
<1> HIDE DEF s
<1>2. Unread(s) = c.kids \cup c.rest
  BY <1>1 DEF Unread
<1>3. QED
  BY <1>2 DEF s

LEMMA HierarchyInit == ASSUME Init PROVE HierarchyInv
<1> SUFFICES ASSUME op = "hierarchy" PROVE HierarchyInv
  BY DEF HierarchyInv
<1> DEFINE c == HierarchyCall(root, TRUE)
<1>1. WalkInv /\ graph \subseteq Edge /\ root \in Nodes
  BY WalkInit DEF WalkInv, Question
<1>2. phase = "up" /\ found = {root} /\ stack = <<c>>
  BY DEF Init
<1>3. visited = {root}
  <2> HIDE DEF c
  <2>1. stack # <<>>
    BY <1>2
  <2>2. QED
    BY <2>1 DEF Init
<1>4. c \in LineageFrames
  <2>1. c \in Frames
    BY <1>2, HierarchyFrame
  <2>2. c.node = root /\ c.rest = {e \in graph : e.from = root /\ e.kind = "extends"}
    BY HierarchyEdges
  <2> HIDE DEF c
  <2>3. QED
    BY <1>1, <1>2, <2>1, <2>2, LineageIsClosed DEF LineageFrames, Lineage
<1>5. Unread(stack) = {e \in graph : e.from = root /\ e.kind = "extends"}
  <2>1. c.kids = {} /\ c.rest = {e \in graph : e.from = root /\ e.kind = "extends"}
    BY HierarchyEdges
  <2> HIDE DEF c
  <2>2. QED
    BY <1>2, <2>1, UnreadOne
<1>6. stack \in Seq(LineageFrames)
  <2> HIDE DEF c
  <2>1. QED
    BY <1>2, <1>4, OneFrame
<1>7. root \in Lineage
  BY <1>1, <1>2, LineageIsClosed DEF Lineage
<1>8. QED
  BY <1>2, <1>3, <1>5, <1>6, <1>7 DEF HierarchyInv

(* A step of the hierarchy walk, up or down. *)
LEMMA HierarchySteps ==
  ASSUME WalkInv, HierarchyInv, NEW e \in graph, HierarchyEdge(e)
  PROVE  HierarchyInv'
<1> DEFINE up == phase = "up"
           n == IF up THEN e.to ELSE e.from
           call == [Top EXCEPT !.rest = @ \ {e}]
           calls == Append(Below, call)
           new == HierarchyCall(n, up)
<1>1. /\ op = "hierarchy" /\ stack # <<>> /\ UNCHANGED <<question, phase>> /\ e \in Top.rest
      /\ graph' = graph /\ root' = root /\ op' = op
  BY DEF HierarchyEdge, question
<1>2. /\ phase \in {"up", "down"} /\ stack \in Seq(LineageFrames)
      /\ root \in visited /\ visited \subseteq Lineage
      /\ found = IF up THEN visited ELSE Inherited(root) \cup visited
      /\ \A f \in graph \ Unread(stack) :
           f.kind = "extends" =>
             IF up THEN f.from \in visited => f.to \in found
                   ELSE f.to \in visited => f.from \in found
  BY <1>1 DEF HierarchyInv
<1>3. Top \in LineageFrames /\ Below \in Seq(LineageFrames)
      /\ Unread(stack) = Unread(Below) \cup (Top.kids \cup Top.rest)
  BY <1>1, <1>2, StackIsTopAndBelow
<1>4. \/ n \in found /\ stack' = calls /\ UNCHANGED <<found, links, visited>>
      \/ /\ n \notin found /\ found' = found \cup {n} /\ stack' = Append(calls, new)
         /\ visited' = visited \cup {n}
  <2>1. n \notin found => n \notin visited
    BY <1>2
  <2>2. n = IF phase = "up" THEN e.to ELSE e.from
    OBVIOUS
  <2> HIDE DEF n
  <2>3. QED
    BY <2>1, <2>2 DEF HierarchyEdge
<1>5. graph \subseteq Edge /\ root \in Nodes /\ e.from \in Nodes /\ e.to \in Nodes
  BY DEF WalkInv, Question, Edge
<1>6. /\ Top.node \in Lineage /\ Top.kids = {} /\ e.kind = "extends"
      /\ Top.node = IF up THEN e.from ELSE e.to
  BY <1>1, <1>3 DEF LineageFrames, Frames, Outgoing, Incoming
<1>7. n \in Lineage
  BY <1>5, <1>6, LineageIsClosed DEF Lineage, OfKind
<1>8. call \in LineageFrames /\ call.kids = {} /\ call.rest = Top.rest \ {e}
  BY <1>1, <1>3, <1>6 DEF LineageFrames, Frames
<1>9. calls \in Seq(LineageFrames) /\ Unread(stack) \ {e} \subseteq Unread(calls)
  <2> HIDE DEF call
  <2>1. calls \in Seq(LineageFrames)
    BY <1>3, <1>8, AppendProperties
  <2>2. Unread(calls) = Unread(Below) \cup (call.kids \cup call.rest)
    BY <1>3, <1>8, UnreadAppend
  <2>3. QED
    BY <1>3, <1>6, <1>8, <2>1, <2>2
<1> HIDE DEF call, calls
<1>10. Lineage' = Lineage /\ Inherited(root)' = Inherited(root)
  BY <1>1, LineageStands DEF Lineage
<1>11. LineageFrames \subseteq LineageFrames'
  <2>1. found \subseteq found'
    BY <1>4
  <2>2. Frames \subseteq Frames'
    BY <1>1, <2>1, FramesGrow
  <2>3. QED
    BY <1>10, <2>2 DEF LineageFrames
<1>12. calls \in Seq(LineageFrames')
  BY <1>9, <1>11, SeqMonotonic
<1>13. CASE n \in found /\ stack' = calls /\ UNCHANGED <<found, links, visited>>
  <2>1. \A f \in graph' \ Unread(stack)' :
          f.kind = "extends" =>
             IF phase' = "up" THEN f.from \in visited' => f.to \in found'
                              ELSE f.to \in visited' => f.from \in found'
    <3> SUFFICES ASSUME NEW f \in graph, f \notin Unread(stack)', f.kind = "extends"
                 PROVE  IF up THEN f.from \in visited => f.to \in found
                              ELSE f.to \in visited => f.from \in found
      BY <1>1, <1>13
    <3>1. Unread(stack)' = Unread(calls)
      BY <1>13 DEF Unread
    <3>2. f \notin Unread(stack) \/ f = e
      BY <1>9, <3>1
    <3>3. QED
      BY <1>2, <1>13, <3>2
  <2>2. QED
    BY <1>1, <1>2, <1>10, <1>12, <1>13, <2>1 DEF HierarchyInv
<1>14. CASE /\ n \notin found /\ found' = found \cup {n} /\ stack' = Append(calls, new)
            /\ visited' = visited \cup {n}
  <2>1. new.node = n /\ new.kids = {}
        /\ new.rest = {f \in graph : (IF up THEN f.from ELSE f.to) = n /\ f.kind = "extends"}
    <3>1. CASE up
      <4>1. new = HierarchyCall(n, TRUE)
        BY <3>1 DEF HierarchyCall
      <4> HIDE DEF n, new
      <4>2. new.node = n /\ new.kids = {} /\ new.rest = {f \in graph : f.from = n /\ f.kind = "extends"}
        BY <4>1, HierarchyEdges
      <4>3. QED
        BY <3>1, <4>2
    <3>2. CASE ~up
      <4>1. new = HierarchyCall(n, FALSE)
        BY <3>2 DEF HierarchyCall
      <4> HIDE DEF n, new
      <4>2. new.node = n /\ new.kids = {} /\ new.rest = {f \in graph : f.to = n /\ f.kind = "extends"}
        BY <4>1, HierarchyEdges
      <4>3. QED
        BY <3>2, <4>2
    <3>3. QED
      BY <3>1, <3>2
  <2>2. new \in LineageFrames'
    <3>1. Frames' = {c \in [node : found', depth : Nat, kids : SUBSET graph, rest : SUBSET graph] :
                       /\ c.kids = {}
                       /\ c.rest \subseteq IF phase = "up" THEN Outgoing(c.node) ELSE Incoming(c.node)}
      BY <1>1 DEF Frames, Outgoing, Incoming, question
    <3>2. new \in Frames'
      BY <1>14, <3>1 DEF HierarchyCall, Outgoing, Incoming
    <3>3. PICK c : c = new
      OBVIOUS
    <3> HIDE DEF new, n
    <3>4. c.node \in Lineage' /\ \A f \in c.rest : f.kind = "extends"
      BY <1>7, <1>10, <2>1, <3>3
    <3>5. c \in LineageFrames'
      BY <3>2, <3>3, <3>4 DEF LineageFrames
    <3>6. QED
      BY <3>3, <3>5
  <2> HIDE DEF new
  <2>4. stack' \in Seq(LineageFrames')
    BY <1>12, <1>14, <2>2, AppendProperties
  <2>5. Unread(stack)' = Unread(calls) \cup (new.kids \cup new.rest)
    <3>1. Unread(Append(calls, new)) = Unread(calls) \cup (new.kids \cup new.rest)
      BY <1>12, <2>2, UnreadAppend
    <3>2. Unread(stack)' = Unread(Append(calls, new))
      BY <1>14 DEF Unread
    <3>3. QED
      BY <3>1, <3>2
  <2>6. \A f \in graph' \ Unread(stack)' :
          f.kind = "extends" =>
             IF phase' = "up" THEN f.from \in visited' => f.to \in found'
                              ELSE f.to \in visited' => f.from \in found'
    <3> SUFFICES ASSUME NEW f \in graph, f \notin Unread(stack)', f.kind = "extends"
                 PROVE  IF up THEN f.from \in visited' => f.to \in found'
                              ELSE f.to \in visited' => f.from \in found'
      BY <1>1
    <3>1. f \notin Unread(calls) /\ (IF up THEN f.from ELSE f.to) # n
      BY <2>1, <2>5
    <3>2. CASE f = e
      BY <1>14, <3>2
    <3>3. CASE f # e
      <4>1. f \notin Unread(stack)
        BY <1>9, <3>1, <3>3
      <4>2. IF up THEN f.from \in visited => f.to \in found
                  ELSE f.to \in visited => f.from \in found
        BY <1>2, <4>1
      <4> HIDE DEF n
      <4>3. QED
        BY <1>14, <3>1, <4>2
    <3>4. QED
      BY <3>2, <3>3
  <2>7. /\ found' = IF phase' = "up" THEN visited' ELSE Inherited(root)' \cup visited'
        /\ root' \in visited' /\ visited' \subseteq Lineage' /\ phase' \in {"up", "down"}
    <3> HIDE DEF n
    <3>1. QED
      BY <1>1, <1>2, <1>7, <1>10, <1>14
  <2>8. QED
    BY <1>1, <2>4, <2>6, <2>7 DEF HierarchyInv
<1>15. QED
  BY <1>4, <1>13, <1>14

(* The last call of the ancestors returns: they are all found, and the descendants begin. *)
LEMMA HierarchyReturns ==
  ASSUME WalkInv, HierarchyInv, op = "hierarchy", Return
  PROVE  HierarchyInv'
<1>1. /\ stack # <<>> /\ UNCHANGED <<question, found, links>> /\ Top.kids = {} /\ Top.rest = {}
      /\ graph' = graph /\ root' = root /\ op' = op
  BY DEF Return, question
<1>2. /\ phase \in {"up", "down"} /\ stack \in Seq(LineageFrames)
      /\ root \in visited /\ visited \subseteq Lineage
      /\ found = IF phase = "up" THEN visited ELSE Inherited(root) \cup visited
      /\ \A f \in graph \ Unread(stack) :
           f.kind = "extends" =>
             IF phase = "up" THEN f.from \in visited => f.to \in found
                             ELSE f.to \in visited => f.from \in found
  BY <1>1 DEF HierarchyInv
<1>3. Below \in Seq(LineageFrames) /\ Unread(stack) = Unread(Below)
      /\ (Len(stack) = 1 => Below = <<>>)
  BY <1>1, <1>2, StackIsTopAndBelow, StackOps DEF Below
<1>4. Inherited(root)' = Inherited(root) /\ Inheriting(root)' = Inheriting(root)
  BY <1>1, LineageStands
<1>5. graph \subseteq Edge /\ root \in Nodes
  BY DEF WalkInv, Question
<1>6. CASE Len(stack) = 1 /\ phase = "up"
  <2> DEFINE c == HierarchyCall(root, FALSE)
  <2>1. stack' = <<c>> /\ visited' = {root} /\ phase' = "down"
    BY <1>6 DEF Return
  <2>2. c.node = root /\ c.kids = {} /\ c.rest = {e \in graph : e.to = root /\ e.kind = "extends"}
    BY HierarchyEdges
  <2>3. c \in Frames'
    <3>1. Frames' = {d \in [node : found', depth : Nat, kids : SUBSET graph, rest : SUBSET graph] :
                       d.kids = {} /\ d.rest \subseteq Incoming(d.node)}
      BY <1>1, <2>1 DEF Frames, Outgoing, Incoming
    <3>2. root \in found'
      BY <1>1 DEF WalkInv, Answer
    <3>3. c = [node |-> root, depth |-> 0, kids |-> {}, rest |-> {e \in Incoming(root) : e.kind = "extends"}]
      BY DEF HierarchyCall
    <3> HIDE DEF c
    <3>4. QED
      BY <3>1, <3>2, <3>3 DEF Incoming
  <2>4. c \in LineageFrames'
    <3>1. PICK d : d = c
      OBVIOUS
    <3> HIDE DEF c
    <3>2. d.node \in Lineage' /\ \A e \in d.rest : e.kind = "extends"
      BY <1>4, <1>5, <2>1, <2>2, <3>1, LineageIsClosed DEF Lineage
    <3>3. QED
      BY <2>3, <3>1, <3>2 DEF LineageFrames
  <2> HIDE DEF c
  <2>5. stack' \in Seq(LineageFrames')
    BY <2>1, <2>4, OneFrame
  <2>6. Unread(stack)' = c.kids \cup c.rest
    <3>1. Unread(stack)' = Unread(<<c>>)
      BY <2>1 DEF Unread
    <3>2. QED
      BY <3>1, UnreadOne
  <2>7. found = Inherited(root)
    <3>1. Unread(stack) = {}
      BY <1>3, <1>6 DEF Unread
    <3>2. \A f \in OfKind("extends") : f.from \in found => f.to \in found
      BY <1>2, <1>6, <3>1 DEF OfKind
    <3>3. Inherited(root) \subseteq found
      BY <1>2, <1>5, <1>6, <3>2, ClosedHasLineage
    <3>4. QED
      BY <1>2, <1>6, <3>3 DEF Lineage
  <2>8. root \in Inherited(root) /\ root \in Inheriting(root)
    BY <1>5, LineageIsClosed
  <2>9. found' = Inherited(root)' \cup visited' /\ root' \in visited' /\ visited' \subseteq Lineage'
    BY <1>1, <1>4, <2>1, <2>7, <2>8 DEF Lineage
  <2>10. \A f \in graph' \ Unread(stack)' :
           f.kind = "extends" => (f.to \in visited' => f.from \in found')
    BY <1>1, <2>1, <2>2, <2>6
  <2>11. QED
    BY <2>1, <2>5, <2>9, <2>10 DEF HierarchyInv
<1>7. CASE ~(Len(stack) = 1 /\ phase = "up")
  <2>1. stack' = Below /\ UNCHANGED visited /\ phase' = (IF Len(stack) = 1 THEN "done" ELSE phase)
    BY <1>7 DEF Return
  <2>2. (phase = "up" <=> phase' = "up") /\ phase' \in {"up", "down", "done"}
        /\ (phase' = "done" => stack' = <<>>)
    BY <1>2, <1>3, <1>7, <2>1
  <2>3. Lineage' = Lineage
    BY <1>4, <2>2 DEF Lineage
  <2>4. LineageFrames' = LineageFrames
    <3>1. Frames' = Frames
      <4>1. op = "hierarchy" /\ op' = "hierarchy"
        BY <1>1
      <4>2. QED
        BY <1>1, <2>2, <4>1 DEF Frames, Outgoing, Incoming
    <3>2. QED
      BY <2>3, <3>1 DEF LineageFrames
  <2>5. Unread(stack)' = Unread(stack)
    <3>1. Unread(stack)' = Unread(Below)
      BY <2>1 DEF Unread
    <3>2. QED
      BY <1>3, <3>1
  <2>6. \A f \in graph' \ Unread(stack)' :
          f.kind = "extends" =>
            IF phase' = "up" THEN f.from \in visited' => f.to \in found'
                             ELSE f.to \in visited' => f.from \in found'
    BY <1>1, <1>2, <2>1, <2>2, <2>5
  <2>7. found' = IF phase' = "up" THEN visited' ELSE Inherited(root)' \cup visited'
    BY <1>1, <1>2, <1>4, <2>1, <2>2
  <2>8. stack' \in Seq(LineageFrames') /\ root' \in visited' /\ visited' \subseteq Lineage'
    BY <1>1, <1>2, <1>3, <2>1, <2>3, <2>4
  <2>9. QED
    BY <2>2, <2>6, <2>7, <2>8 DEF HierarchyInv
<1>8. QED
  BY <1>6, <1>7

(* A finished hierarchy has every ancestor, and every descendant too unless
   one of them is an ancestor as well. *)
LEMMA HierarchyIsComplete ==
  ASSUME WalkInv, HierarchyInv, op = "hierarchy", phase = "done",
         Inherited(root) \cap Inheriting(root) = {root}
  PROVE  found = Inherited(root) \cup Inheriting(root)
<1>1. graph \subseteq Edge /\ root \in Nodes
  BY DEF WalkInv, Question
<1>2. Unread(stack) = {}
  BY DEF HierarchyInv, Unread
<1>3. /\ root \in visited /\ visited \subseteq Inheriting(root) /\ found = Inherited(root) \cup visited
      /\ \A e \in OfKind("extends") : e.to \in visited => e.from \in found
  BY <1>2 DEF HierarchyInv, Lineage, OfKind
<1>4. \A e \in OfKind("extends") : e.to \in visited => e.from \in visited
  BY <1>1, <1>3, LineageIsClosed
<1>5. Inheriting(root) \subseteq visited
  BY <1>1, <1>3, <1>4, ClosedHasLineage
<1>6. QED
  BY <1>3, <1>5

-----------------------------------------------------------------------------
(* Subgraph and neighbourhood: an edge of a symbol leads where the question
   allows a step. *)
LEMMA JoinedByAnEdge ==
  ASSUME Question, NEW m \in Nodes
  PROVE  /\ \A e \in Adjacent(m) :
              /\ e \in graph /\ OtherEnd(e, m) \in Nodes /\ <<m, OtherEnd(e, m)>> \in Joined
              /\ {e.from, e.to} = {m, OtherEnd(e, m)}
         /\ \A n : <<m, n>> \in Joined => \E e \in Adjacent(m) : OtherEnd(e, m) = n
<1>1. graph \subseteq Edge /\ limit.direction \in {"outgoing", "incoming", "both"}
  BY DEF Question, Limit
<1>2. /\ Adjacent(m) = {e \in Followed : \/ limit.direction # "incoming" /\ e.from = m
                                         \/ limit.direction # "outgoing" /\ e.to = m}
      /\ Followed \subseteq graph
  BY DEF Adjacent, Followed
<1>3. ASSUME NEW e \in Adjacent(m)
      PROVE  /\ e \in graph /\ OtherEnd(e, m) \in Nodes /\ <<m, OtherEnd(e, m)>> \in Joined
             /\ {e.from, e.to} = {m, OtherEnd(e, m)}
  <2>1. e \in Followed /\ e \in graph /\ e.from \in Nodes /\ e.to \in Nodes
    BY <1>1, <1>2 DEF Edge
  <2>2. CASE e.from = m
    <3>1. OtherEnd(e, m) = e.to
      BY <2>2 DEF OtherEnd
    <3>2. CASE limit.direction # "incoming"
      BY <2>1, <2>2, <3>1, <3>2 DEF Joined, Along
    <3>3. CASE limit.direction = "incoming"
      <4>1. e.to = m /\ limit.direction # "outgoing"
        BY <1>2, <3>3
      <4>2. QED
        BY <2>1, <2>2, <3>1, <4>1 DEF Joined, Against
    <3>4. QED
      BY <3>2, <3>3
  <2>3. CASE e.from # m
    <3>1. OtherEnd(e, m) = e.from /\ e.to = m /\ limit.direction # "outgoing"
      BY <1>2, <2>3 DEF OtherEnd
    <3>2. QED
      BY <2>1, <3>1 DEF Joined, Against
  <2>4. QED
    BY <2>2, <2>3
<1>4. ASSUME NEW n, <<m, n>> \in Joined PROVE \E e \in Adjacent(m) : OtherEnd(e, m) = n
  <2>1. CASE \E e \in Followed : limit.direction # "incoming" /\ e.from = m /\ e.to = n
    BY <1>2, <2>1 DEF OtherEnd
  <2>2. CASE \E e \in Followed : limit.direction # "outgoing" /\ e.to = m /\ e.from = n
    <3>1. PICK e \in Followed : limit.direction # "outgoing" /\ e.to = m /\ e.from = n
      BY <2>2
    <3>2. OtherEnd(e, m) = n
      BY <3>1 DEF OtherEnd
    <3>3. QED
      BY <1>2, <3>1, <3>2
  <2>3. QED
    BY <1>4, <2>1, <2>2 DEF Joined, Along, Against
<1>5. QED
  BY <1>3, <1>4

(* The bounds of a subgraph, for every depth and limit asked for. *)
LEMMA BoundsAreNat == ASSUME Question PROVE MaxDepth \in Nat /\ MaxNodes \in Nat
  BY FarIsNat DEF Question, Limit, MaxDepth, MaxNodes

(* The queue without its head, and with one more step at its end. *)
LEMMA QueueOps ==
  ASSUME NEW F, NEW s \in Seq(F)
  PROVE  /\ DOMAIN s = 1..Len(s) /\ Len(s) \in Nat
         /\ s # <<>> => /\ Head(s) = s[1] /\ Len(s) >= 1 /\ Tail(s) \in Seq(F)
                        /\ DOMAIN Tail(s) = 1..(Len(s) - 1)
                        /\ \A i \in 1..(Len(s) - 1) : Tail(s)[i] = s[i + 1]
         /\ \A x \in F : /\ Append(s, x) \in Seq(F) /\ DOMAIN Append(s, x) = 1..(Len(s) + 1)
                         /\ Append(s, x)[Len(s) + 1] = x
                         /\ \A i \in 1..Len(s) : Append(s, x)[i] = s[i]
  OBVIOUS

LEMMA DistantSteps ==
  ASSUME root \in Nodes
  PROVE  /\ Distant(0) = {root}
         /\ \A k \in Nat : Distant(k) \subseteq Nodes /\ root \in Distant(k)
         /\ \A j, k \in Nat : j <= k => Distant(j) \subseteq Distant(k)
         /\ \A k \in Nat, m \in Nodes, n \in Nodes :
              m \in Distant(k) /\ <<m, n>> \in Wanted => n \in Distant(k + 1)
         /\ \A k \in Nat, n \in Nodes :
              n \in Distant(k + 1) => n \in Distant(k) \/ \E m \in Distant(k) : <<m, n>> \in Wanted
  BY RootSteps DEF Distant

LEMMA SubgraphInit == ASSUME Init PROVE SubgraphInv
<1> SUFFICES ASSUME op = "subgraph" PROVE SubgraphInv
  BY DEF SubgraphInv
<1> DEFINE s == [node |-> root, by |-> {}, depth |-> 0]
<1>1. root \in Nodes /\ MaxDepth \in Nat
  BY WalkInit, BoundsAreNat DEF WalkInv, Question
<1>2. /\ found = {root} /\ pending = {} /\ here = [node |-> root, depth |-> 0] /\ phase = "walk"
      /\ queue = <<s>> /\ stack = <<>>
  BY DEF Init
<1>3. visited = {}
  BY <1>2 DEF Init
<1>4. Distant(0) = {root} /\ root \in Distant(MaxDepth)
  BY <1>1, DistantSteps
<1>5. DOMAIN queue = {1} /\ queue[1].node = root /\ queue[1].depth = 0
  BY <1>2
<1>6. Queued(0) = {root}
  BY <1>1, <1>5 DEF Queued
<1>7. QED
  BY <1>1, <1>2, <1>3, <1>4, <1>5, <1>6 DEF SubgraphInv

(* What stands of a subgraph walk when its queue and the symbol being
   expanded change. *)
LEMMA SubgraphParts ==
  ASSUME op = "subgraph", UNCHANGED question, here.depth \in Nat, here'.depth \in Nat,
         here'.depth <= MaxDepth, here'.node \in Distant(here'.depth),
         pending' \subseteq Adjacent(here'.node), pending' # {} => here'.depth < MaxDepth,
         \A i \in DOMAIN queue' :
           /\ here'.depth <= queue'[i].depth /\ queue'[i].depth <= here'.depth + 1
           /\ queue'[i].depth <= MaxDepth /\ queue'[i].node \in Distant(queue'[i].depth),
         \A i, j \in DOMAIN queue' : i < j => queue'[i].depth <= queue'[j].depth,
         visited' \subseteq found', found' \subseteq Distant(MaxDepth),
         \A n \in Distant(here'.depth) :
           n \in visited' \/ \E i \in DOMAIN queue' : queue'[i].node = n /\ queue'[i].depth <= here'.depth,
         here'.depth < MaxDepth =>
           \A m \in visited', n \in Nodes : <<m, n>> \in Wanted =>
             \/ n \in visited' \/ \E i \in DOMAIN queue' : queue'[i].node = n
             \/ m = here'.node /\ \E e \in pending' : OtherEnd(e, m) = n,
         phase' = "done" => pending' = {} /\ (queue' = <<>> \/ Cardinality(found') >= MaxNodes),
         root \in Nodes
  PROVE  SubgraphInv'
<1>1. /\ root' = root /\ MaxDepth' = MaxDepth /\ MaxNodes' = MaxNodes
      /\ Wanted' = Wanted /\ \A n : Adjacent(n)' = Adjacent(n)
  BY RelationsStand DEF question
<1>2. \A k : Distant(k)' = Distant(k)
  BY <1>1 DEF Distant
<1>3. Distant(here.depth)' = Distant(here'.depth)
  BY <1>1 DEF Distant
<1>4. \A k, n : n \in Queued(k)' <=> n \in Nodes /\ \E i \in DOMAIN queue' : queue'[i].node = n /\ queue'[i].depth <= k
  BY DEF Queued
<1>5. Distant(here.depth)' \subseteq visited' \cup Queued(here.depth)'
  <2>1. Distant(here'.depth) \subseteq Nodes
    BY DistantSteps
  <2>2. \A n : n \in Queued(here.depth)' <=>
          n \in Nodes /\ \E i \in DOMAIN queue' : queue'[i].node = n /\ queue'[i].depth <= here'.depth
    BY DEF Queued
  <2>3. QED
    BY <1>3, <2>1, <2>2
<1>6. here'.depth < MaxDepth' =>
         \A m \in visited', n \in Nodes : <<m, n>> \in Wanted' =>
           \/ n \in visited' \cup Queued(MaxDepth)'
           \/ m = here'.node /\ \E e \in pending' : OtherEnd(e, m) = n
  <2>1. \A n : n \in Queued(MaxDepth)' <=>
          n \in Nodes /\ \E i \in DOMAIN queue' : queue'[i].node = n /\ queue'[i].depth <= MaxDepth
    BY <1>1 DEF Queued
  <2>2. QED
    BY <1>1, <2>1
<1>7. found' \subseteq Distant(MaxDepth)' /\ here'.node \in Distant(here.depth)'
      /\ pending' \subseteq Adjacent(here.node)'
      /\ \A i \in DOMAIN queue' : queue'[i].node \in Distant(queue[i].depth)'
  <2>1. Distant(MaxDepth)' = Distant(MaxDepth)
    BY <1>1 DEF Distant
  <2>2. Adjacent(here.node)' = Adjacent(here'.node)
    <3>1. graph' = graph /\ limit' = limit
      BY DEF question
    <3>2. QED
      BY <3>1 DEF Adjacent, Followed
  <2>3. \A i : Distant(queue[i].depth)' = Distant(queue'[i].depth)
    BY <1>1 DEF Distant
  <2>4. QED
    BY <1>3, <2>1, <2>2, <2>3
<1>8. QED
  BY <1>1, <1>5, <1>6, <1>7 DEF SubgraphInv, OtherEnd

(* The first of the queue is visited.  When it is of the next level, the present
   one is over, and all that is wanted of the next has been found. *)
LEMMA SubgraphVisits ==
  ASSUME WalkInv, SubgraphInv, SubgraphVisit PROVE SubgraphInv'
<1> DEFINE s == Head(queue)
           Item(i, n) == queue[i].node = n
<1>1. /\ op = "subgraph" /\ UNCHANGED <<question, phase, found>> /\ phase = "walk" /\ pending = {}
      /\ queue # <<>> /\ queue' = Tail(queue)
      /\ queue \in Seq(Steps) /\ here \in [node : found, depth : Nat]
  BY DEF SubgraphVisit, WalkInv, Breadth
<1>2. /\ DOMAIN queue = 1..Len(queue) /\ Len(queue) \in Nat /\ Len(queue) >= 1 /\ s = queue[1]
      /\ DOMAIN queue' = 1..(Len(queue) - 1)
      /\ \A i \in 1..(Len(queue) - 1) : queue'[i] = queue[i + 1]
  BY <1>1, QueueOps
<1>3. /\ root \in Nodes /\ MaxDepth \in Nat /\ here.depth \in Nat /\ found \subseteq Nodes
      /\ \A i \in DOMAIN queue : queue[i].depth \in Nat /\ queue[i].node \in found
  BY <1>1, <1>2, BoundsAreNat DEF WalkInv, Question, Answer, Steps
<1>4. /\ here.depth <= MaxDepth /\ here.node \in Distant(here.depth)
      /\ \A i \in DOMAIN queue :
           /\ here.depth <= queue[i].depth /\ queue[i].depth <= here.depth + 1
           /\ queue[i].depth <= MaxDepth /\ queue[i].node \in Distant(queue[i].depth)
      /\ \A i, j \in DOMAIN queue : i < j => queue[i].depth <= queue[j].depth
      /\ visited \subseteq found /\ found \subseteq Distant(MaxDepth)
  BY <1>1 DEF SubgraphInv
<1>5. \A n \in Distant(here.depth) :
         n \in visited \/ \E i \in DOMAIN queue : queue[i].node = n /\ queue[i].depth <= here.depth
  BY <1>1 DEF SubgraphInv, Queued
<1>6. here.depth < MaxDepth =>
         \A m \in visited, n \in Nodes : <<m, n>> \in Wanted =>
           n \in visited \/ \E i \in DOMAIN queue : queue[i].node = n
  BY <1>1 DEF SubgraphInv, Queued
<1>7. ASSUME NEW i \in DOMAIN queue, i # 1
      PROVE  i - 1 \in DOMAIN queue' /\ queue'[i - 1] = queue[i]
  BY <1>2, <1>7
<1>8. \A i \in DOMAIN queue' : i + 1 \in DOMAIN queue /\ queue'[i] = queue[i + 1]
  BY <1>2
<1>9. /\ s.depth \in Nat /\ s.node \in found /\ here.depth <= s.depth /\ s.depth <= here.depth + 1
      /\ s.depth <= MaxDepth /\ s.node \in Distant(s.depth)
      /\ \A i \in DOMAIN queue : s.depth <= queue[i].depth
  <2>1. 1 \in DOMAIN queue
    BY <1>2
  <2>2. \A i \in DOMAIN queue : i = 1 \/ 1 < i
    BY <1>2
  <2>3. QED
    BY <1>2, <1>3, <1>4, <2>1, <2>2
<1>10. \A i, j \in DOMAIN queue' : i < j => queue'[i].depth <= queue'[j].depth
  <2> SUFFICES ASSUME NEW i \in DOMAIN queue', NEW j \in DOMAIN queue', i < j
               PROVE  queue'[i].depth <= queue'[j].depth
    OBVIOUS
  <2>1. i + 1 < j + 1
    BY <1>2
  <2>2. QED
    BY <1>4, <1>8, <2>1
<1> HIDE DEF s
<1>11. CASE s.node \in visited
  <2>1. UNCHANGED <<visited, here, pending>>
    BY <1>11 DEF SubgraphVisit, s
  <2>2. \A n \in Distant(here.depth) :
          n \in visited \/ \E i \in DOMAIN queue' : queue'[i].node = n /\ queue'[i].depth <= here.depth
    <3> SUFFICES ASSUME NEW n \in Distant(here.depth), n \notin visited
                 PROVE  \E i \in DOMAIN queue' : queue'[i].node = n /\ queue'[i].depth <= here.depth
      OBVIOUS
    <3>1. PICK i \in DOMAIN queue : queue[i].node = n /\ queue[i].depth <= here.depth
      BY <1>5
    <3>2. i # 1
      BY <1>2, <1>11, <3>1
    <3>3. QED
      BY <1>7, <3>1, <3>2
  <2>3. here.depth < MaxDepth =>
          \A m \in visited, n \in Nodes : <<m, n>> \in Wanted =>
            n \in visited \/ \E i \in DOMAIN queue' : queue'[i].node = n
    <3> SUFFICES ASSUME here.depth < MaxDepth, NEW m \in visited, NEW n \in Nodes,
                        <<m, n>> \in Wanted, n \notin visited
                 PROVE  \E i \in DOMAIN queue' : queue'[i].node = n
      OBVIOUS
    <3>1. PICK i \in DOMAIN queue : queue[i].node = n
      BY <1>6
    <3>2. i # 1
      BY <1>2, <1>11, <3>1
    <3>3. QED
      BY <1>7, <3>1, <3>2
  <2>4. \A i \in DOMAIN queue' :
           /\ here.depth <= queue'[i].depth /\ queue'[i].depth <= here.depth + 1
           /\ queue'[i].depth <= MaxDepth /\ queue'[i].node \in Distant(queue'[i].depth)
    BY <1>4, <1>8
  <2>5. QED
    BY <1>1, <1>3, <1>4, <1>10, <2>1, <2>2, <2>3, <2>4, SubgraphParts
<1>12. CASE s.node \notin visited
  <2>1. /\ visited' = visited \cup {s.node} /\ here' = [node |-> s.node, depth |-> s.depth]
        /\ pending' = (IF s.depth < MaxDepth THEN Adjacent(s.node) ELSE {})
    BY <1>12 DEF SubgraphVisit, s
  <2>2. here'.node = s.node /\ here'.depth = s.depth
    BY <2>1
  <2>3. \A i \in DOMAIN queue' :
           /\ s.depth <= queue'[i].depth /\ queue'[i].depth <= s.depth + 1
           /\ queue'[i].depth <= MaxDepth /\ queue'[i].node \in Distant(queue'[i].depth)
    <3> SUFFICES ASSUME NEW i \in DOMAIN queue'
                 PROVE  /\ s.depth <= queue'[i].depth /\ queue'[i].depth <= s.depth + 1
                        /\ queue'[i].depth <= MaxDepth /\ queue'[i].node \in Distant(queue'[i].depth)
      OBVIOUS
    <3>1. i + 1 \in DOMAIN queue /\ queue'[i] = queue[i + 1]
      BY <1>8
    <3>2. queue[i + 1].depth \in Nat /\ s.depth <= queue[i + 1].depth /\ queue[i + 1].depth <= here.depth + 1
      BY <1>3, <1>4, <1>9, <3>1
    <3>3. QED
      BY <1>3, <1>4, <1>9, <3>1, <3>2
  <2>4. ASSUME NEW n \in Distant(s.depth), n \notin visited'
        PROVE  \E i \in DOMAIN queue' : queue'[i].node = n /\ queue'[i].depth <= s.depth
    <3>1. \E i \in DOMAIN queue : queue[i].node = n /\ queue[i].depth <= s.depth
      <4>1. CASE s.depth = here.depth
        BY <1>5, <2>1, <2>4, <4>1
      <4>2. CASE s.depth # here.depth
        <5>1. s.depth = here.depth + 1 /\ here.depth < MaxDepth
          BY <1>3, <1>9, <4>2
        <5>2. Distant(here.depth) \subseteq visited
          <6>1. \A i \in DOMAIN queue : ~(queue[i].depth <= here.depth)
            BY <1>3, <1>9, <5>1
          <6>2. QED
            BY <1>5, <6>1
        <5>3. n \in Nodes /\ n \in Distant(here.depth + 1) /\ n \notin Distant(here.depth)
          BY <1>3, <1>9, <2>1, <2>4, <5>1, <5>2, DistantSteps
        <5>4. PICK m \in Distant(here.depth) : <<m, n>> \in Wanted
          BY <1>3, <5>3, DistantSteps
        <5>5. PICK i \in DOMAIN queue : queue[i].node = n
          BY <1>6, <2>1, <2>4, <5>1, <5>2, <5>3, <5>4
        <5>6. queue[i].depth <= s.depth
          BY <1>4, <5>1
        <5>7. QED
          BY <5>5, <5>6
      <4>3. QED
        BY <4>1, <4>2
    <3>2. PICK i \in DOMAIN queue : queue[i].node = n /\ queue[i].depth <= s.depth
      BY <3>1
    <3>3. i # 1
      BY <1>2, <2>1, <2>4, <3>2
    <3>4. QED
      BY <1>7, <3>2, <3>3
  <2>5. ASSUME s.depth < MaxDepth, NEW m \in visited', NEW n \in Nodes, <<m, n>> \in Wanted, n \notin visited'
        PROVE  \/ \E i \in DOMAIN queue' : queue'[i].node = n
               \/ m = s.node /\ \E e \in pending' : OtherEnd(e, m) = n
    <3>1. CASE m \in visited
      <4>1. here.depth < MaxDepth
        BY <1>3, <1>9, <2>5
      <4>2. PICK i \in DOMAIN queue : queue[i].node = n
        BY <1>6, <2>1, <2>5, <3>1, <4>1
      <4>3. i # 1
        BY <1>2, <2>1, <2>5, <4>2
      <4>4. QED
        BY <1>7, <4>2, <4>3
    <3>2. CASE m = s.node
      <4>1. <<m, n>> \in Joined /\ m \in Nodes
        BY <1>3, <1>9, <2>5, <3>2 DEF Wanted
      <4>2. \E e \in Adjacent(m) : OtherEnd(e, m) = n
        BY <4>1, JoinedByAnEdge DEF WalkInv
      <4>3. pending' = Adjacent(m)
        BY <2>1, <2>5, <3>2
      <4>4. QED
        BY <3>2, <4>2, <4>3
    <3>3. QED
      BY <2>1, <3>1, <3>2
  <2>6. pending' \subseteq Adjacent(s.node) /\ (pending' # {} => s.depth < MaxDepth)
    BY <2>1
  <2>7. visited' \subseteq found' /\ found' \subseteq Distant(MaxDepth) /\ phase' # "done"
    BY <1>1, <1>4, <1>9, <2>1
  <2>8. QED
    BY <1>1, <1>3, <1>9, <1>10, <2>2, <2>3, <2>4, <2>5, <2>6, <2>7, SubgraphParts
<1>13. QED
  BY <1>11, <1>12

(* An edge of the symbol being expanded leads to one more step, or to nothing new. *)
LEMMA SubgraphEdges ==
  ASSUME WalkInv, SubgraphInv, NEW e \in graph, SubgraphEdge(e) PROVE SubgraphInv'
<1> DEFINE n == OtherEnd(e, here.node)
           step == [node |-> n, by |-> {e}, depth |-> here.depth + 1]
           Pushed == queue' = Append(queue, step)
<1>1. /\ op = "subgraph" /\ UNCHANGED <<question, phase, visited, here>>
      /\ e \in pending /\ pending' = pending \ {e}
      /\ queue \in Seq(Steps) /\ here \in [node : found, depth : Nat]
  BY DEF SubgraphEdge, WalkInv, Breadth
<1>2. \/ UNCHANGED <<found, queue>> /\ (n \in visited \/ (limit.wanted # {} /\ n \notin limit.wanted))
      \/ /\ found' = found \cup {n} /\ Pushed /\ ~(limit.wanted # {} /\ n \notin limit.wanted)
  BY DEF SubgraphEdge
<1>3. /\ root \in Nodes /\ MaxDepth \in Nat /\ here.depth \in Nat /\ here.node \in Nodes
      /\ \A i \in DOMAIN queue : queue[i].depth \in Nat
      /\ DOMAIN queue = 1..Len(queue) /\ Len(queue) \in Nat
  BY <1>1, QueueOps, BoundsAreNat DEF WalkInv, Question, Answer, Steps
<1>4. /\ here.depth < MaxDepth /\ here.node \in Distant(here.depth) /\ phase # "done"
      /\ pending \subseteq Adjacent(here.node)
      /\ \A i \in DOMAIN queue :
           /\ here.depth <= queue[i].depth /\ queue[i].depth <= here.depth + 1
           /\ queue[i].depth <= MaxDepth /\ queue[i].node \in Distant(queue[i].depth)
      /\ \A i, j \in DOMAIN queue : i < j => queue[i].depth <= queue[j].depth
      /\ visited \subseteq found /\ found \subseteq Distant(MaxDepth)
  BY <1>1 DEF SubgraphInv
<1>5. \A x \in Distant(here.depth) :
         x \in visited \/ \E i \in DOMAIN queue : queue[i].node = x /\ queue[i].depth <= here.depth
  BY <1>1 DEF SubgraphInv, Queued
<1>6. \A m \in visited, x \in Nodes : <<m, x>> \in Wanted =>
         \/ x \in visited \/ \E i \in DOMAIN queue : queue[i].node = x
         \/ m = here.node /\ \E f \in pending : OtherEnd(f, m) = x
  BY <1>1, <1>4 DEF SubgraphInv, Queued
<1>7. n \in Nodes /\ <<here.node, n>> \in Joined /\ e \in graph
  BY <1>1, <1>3, <1>4, JoinedByAnEdge DEF WalkInv
<1>8. here'.node = here.node /\ here'.depth = here.depth /\ pending' \subseteq Adjacent(here.node)
  BY <1>1, <1>4
<1>9. \A x : <<here.node, x>> \in Wanted => ~(limit.wanted # {} /\ x \notin limit.wanted)
  BY DEF Wanted
<1>10. CASE UNCHANGED <<found, queue>> /\ (n \in visited \/ (limit.wanted # {} /\ n \notin limit.wanted))
  <2>1. \A m \in visited, x \in Nodes : <<m, x>> \in Wanted =>
         \/ x \in visited \/ \E i \in DOMAIN queue : queue[i].node = x
         \/ m = here.node /\ \E f \in pending' : OtherEnd(f, m) = x
    <3> SUFFICES ASSUME NEW m \in visited, NEW x \in Nodes, <<m, x>> \in Wanted, x \notin visited,
                        m = here.node, NEW f \in pending, OtherEnd(f, m) = x
                 PROVE  f # e
      BY <1>1, <1>6
    <3>1. QED
      BY <1>9, <1>10
  <2> HIDE DEF n
  <2>2. QED
    BY <1>1, <1>3, <1>4, <1>5, <1>8, <1>10, <2>1, SubgraphParts
<1>11. CASE found' = found \cup {n} /\ Pushed /\ ~(limit.wanted # {} /\ n \notin limit.wanted)
  <2>1. n \in Distant(here.depth + 1) /\ n \in Distant(MaxDepth)
    <3>1. <<here.node, n>> \in Wanted
      BY <1>7, <1>11 DEF Wanted
    <3> HIDE DEF n
    <3>2. n \in Distant(here.depth + 1)
      BY <1>3, <1>4, <1>7, <3>1, DistantSteps
    <3>3. here.depth + 1 \in Nat /\ here.depth + 1 <= MaxDepth
      BY <1>3, <1>4
    <3>4. QED
      BY <1>3, <3>2, <3>3, DistantSteps
  <2>2. step.node = n /\ step.depth = here.depth + 1
    OBVIOUS
  <2>3. \A x : OtherEnd(e, here.node) = x => x = n
    OBVIOUS
  <2>4. step \in [node : Nodes, by : SUBSET graph, depth : Nat]
    BY <1>3, <1>7
  <2>5. queue \in Seq([node : Nodes, by : SUBSET graph, depth : Nat])
    <3>1. Steps \subseteq [node : Nodes, by : SUBSET graph, depth : Nat]
      BY DEF WalkInv, Answer, Steps
    <3>2. QED
      BY <1>1, <3>1, SeqMonotonic
  <2> HIDE DEF step, n
  <2>6. /\ DOMAIN queue' = 1..(Len(queue) + 1) /\ queue'[Len(queue) + 1] = step
        /\ \A i \in 1..Len(queue) : queue'[i] = queue[i]
    BY <1>11, <2>4, <2>5, QueueOps
  <2>7. \A i \in DOMAIN queue : i \in DOMAIN queue' /\ queue'[i] = queue[i]
    BY <1>3, <2>6
  <2>8. \A i \in DOMAIN queue' : (i \in DOMAIN queue /\ queue'[i] = queue[i])
                                  \/ (i = Len(queue) + 1 /\ queue'[i] = step)
    BY <1>3, <2>6
  <2>9. \A i \in DOMAIN queue' :
           /\ here.depth <= queue'[i].depth /\ queue'[i].depth <= here.depth + 1
           /\ queue'[i].depth <= MaxDepth /\ queue'[i].node \in Distant(queue'[i].depth)
    BY <1>3, <1>4, <2>1, <2>2, <2>8
  <2>10. \A i, j \in DOMAIN queue' : i < j => queue'[i].depth <= queue'[j].depth
    BY <1>3, <1>4, <2>2, <2>8, <2>9
  <2>11. \A x \in Distant(here.depth) :
          x \in visited \/ \E i \in DOMAIN queue' : queue'[i].node = x /\ queue'[i].depth <= here.depth
    BY <1>5, <2>7
  <2>12. \A m \in visited, x \in Nodes : <<m, x>> \in Wanted =>
         \/ x \in visited \/ \E i \in DOMAIN queue' : queue'[i].node = x
         \/ m = here.node /\ \E f \in pending' : OtherEnd(f, m) = x
    <3> SUFFICES ASSUME NEW m \in visited, NEW x \in Nodes, <<m, x>> \in Wanted, x \notin visited,
                        ~ \E i \in DOMAIN queue' : queue'[i].node = x
                 PROVE  m = here.node /\ \E f \in pending' : OtherEnd(f, m) = x
      OBVIOUS
    <3>1. ~ \E i \in DOMAIN queue : queue[i].node = x
      BY <2>7
    <3>2. m = here.node /\ \E f \in pending : OtherEnd(f, m) = x
      BY <1>6, <3>1
    <3>3. x # n
      <4>1. Len(queue) + 1 \in DOMAIN queue'
        BY <1>3, <2>6
      <4>2. QED
        BY <2>2, <2>6, <4>1
    <3>4. QED
      BY <1>1, <2>3, <3>2, <3>3
  <2>13. visited' \subseteq found' /\ found' \subseteq Distant(MaxDepth)
    BY <1>1, <1>4, <1>11, <2>1
  <2>14. QED
    BY <1>1, <1>3, <1>4, <1>8, <2>9, <2>10, <2>11, <2>12, <2>13, SubgraphParts
<1>12. QED
  BY <1>2, <1>10, <1>11

LEMMA SubgraphEnds ==
  ASSUME WalkInv, SubgraphInv, SubgraphEnd PROVE SubgraphInv'
<1>1. /\ op = "subgraph" /\ UNCHANGED <<question, found, visited, queue, here, pending>>
      /\ pending = {} /\ (queue = <<>> \/ Cardinality(found) >= MaxNodes)
      /\ here.depth \in Nat /\ root \in Nodes
  BY DEF SubgraphEnd, WalkInv, Breadth, Question
<1>2. \A n \in Distant(here.depth) :
         n \in visited \/ \E i \in DOMAIN queue : queue[i].node = n /\ queue[i].depth <= here.depth
  BY <1>1 DEF SubgraphInv, Queued
<1>3. here.depth < MaxDepth =>
         \A m \in visited, n \in Nodes : <<m, n>> \in Wanted =>
           n \in visited \/ \E i \in DOMAIN queue : queue[i].node = n
  BY <1>1 DEF SubgraphInv, Queued
<1>4. /\ here.depth <= MaxDepth /\ here.node \in Distant(here.depth)
      /\ pending \subseteq Adjacent(here.node)
      /\ \A i \in DOMAIN queue :
           /\ here.depth <= queue[i].depth /\ queue[i].depth <= here.depth + 1
           /\ queue[i].depth <= MaxDepth /\ queue[i].node \in Distant(queue[i].depth)
      /\ \A i, j \in DOMAIN queue : i < j => queue[i].depth <= queue[j].depth
      /\ visited \subseteq found /\ found \subseteq Distant(MaxDepth)
  BY <1>1 DEF SubgraphInv
<1>5. QED
  BY <1>1, <1>2, <1>3, <1>4, SubgraphParts

(* A finished subgraph that the limit did not stop has everything wanted. *)
LEMMA SubgraphIsComplete ==
  ASSUME WalkInv, SubgraphInv, op = "subgraph", phase = "done", Cardinality(found) < MaxNodes
  PROVE  found = Distant(MaxDepth)
<1>1. /\ root \in Nodes /\ MaxDepth \in Nat /\ here.depth \in Nat
      /\ IsFiniteSet(found) /\ MaxNodes \in Nat
  BY FoundIsFinite, BoundsAreNat DEF WalkInv, Question, Breadth
<1>2. queue = <<>> /\ pending = {}
  <2>1. Cardinality(found) \in Nat
    BY <1>1, FS_CardinalityType
  <2>2. QED
    BY <1>1, <2>1 DEF SubgraphInv
<1>3. DOMAIN queue = {}
  BY <1>2
<1>4. /\ here.depth <= MaxDepth /\ visited \subseteq found /\ found \subseteq Distant(MaxDepth)
      /\ Distant(here.depth) \subseteq visited
      /\ here.depth < MaxDepth =>
           \A m \in visited, n \in Nodes : <<m, n>> \in Wanted => n \in visited
  BY <1>2, <1>3 DEF SubgraphInv, Queued
<1>5. Distant(MaxDepth) \subseteq visited
  <2>1. CASE here.depth = MaxDepth
    BY <1>4, <2>1
  <2>2. CASE here.depth < MaxDepth
    <3>1. {root} \in SUBSET Nodes /\ {root} \subseteq visited
      BY <1>1, <1>4, DistantSteps
    <3>2. \A m \in visited : \A n \in Nodes : <<m, n>> \in Wanted => n \in visited
      BY <1>4, <2>2
    <3>3. QED
      BY <1>1, <3>1, <3>2, ClosedHasAll DEF Distant
  <2>3. QED
    BY <1>1, <1>4, <2>1, <2>2
<1>6. QED
  BY <1>4, <1>5

-----------------------------------------------------------------------------
(* Neighbourhood. *)
LEMMA NearSteps ==
  ASSUME root \in Nodes
  PROVE  /\ Near(0) = {root}
         /\ \A k \in Nat : Near(k) \subseteq Nodes
         /\ \A j, k \in Nat : j <= k => Near(j) \subseteq Near(k)
         /\ \A k \in Nat, m \in Nodes, n \in Nodes :
              m \in Near(k) /\ <<m, n>> \in Joined => n \in Near(k + 1)
         /\ \A k \in Nat, n \in Nodes :
              n \in Near(k + 1) => n \in Near(k) \/ \E m \in Near(k) : <<m, n>> \in Joined
  BY RootSteps DEF Near

(* A bounded query returns every row, or as many as the bound. *)
LEMMA RowsOrMost ==
  ASSUME NEW E, IsFiniteSet(E), NEW most \in Nat, NEW s \in Rows(E, most)
  PROVE  /\ s \subseteq E /\ IsFiniteSet(s) /\ Cardinality(s) \in Nat /\ Cardinality(E) \in Nat
         /\ s = E \/ (Cardinality(s) = most /\ Cardinality(E) > most)
         /\ most = 0 => s = {}
<1>1. s \subseteq E /\ Cardinality(s) = Smaller(Cardinality(E), most)
  BY DEF Rows
<1>2. IsFiniteSet(s) /\ Cardinality(E) \in Nat
  BY <1>1, FS_Subset, FS_CardinalityType
<1>3. Cardinality(s) \in Nat
  BY <1>2, FS_CardinalityType
<1>4. Cardinality(s) = Cardinality(E) => s = E
  BY <1>1, <1>2, FS_Subset
<1>5. s = E \/ (Cardinality(s) = most /\ Cardinality(E) > most)
  BY <1>1, <1>2, <1>4 DEF Smaller
<1>6. most = 0 => s = {}
  <2>1. most = 0 => Cardinality(s) = 0
    BY <1>1, <1>2 DEF Smaller
  <2>2. QED
    BY <1>2, <2>1, FS_EmptySet
<1>7. QED
  BY <1>1, <1>2, <1>3, <1>5, <1>6

(* What rows tell: of more rows no less, and as much as there are rows when no
   two of them tell the same. *)
LEMMA ShowsMore ==
  ASSUME NEW T, NEW S \in SUBSET T PROVE Shows(S) \subseteq Shows(T)
  BY DEF Shows

LEMMA ShowsCount ==
  ASSUME NEW S, IsFiniteSet(S)
  PROVE  /\ IsFiniteSet(Shows(S)) /\ Cardinality(Shows(S)) \in Nat /\ Cardinality(S) \in Nat
         /\ Cardinality(Shows(S)) <= Cardinality(S)
         /\ (\A e, f \in S : Shown(e) = Shown(f) => e = f) => Cardinality(Shows(S)) = Cardinality(S)
<1> DEFINE M == [e \in S |-> Shown(e)]
<1>1. M \in Surjection(S, Shows(S))
  BY DEF Surjection, Shows
<1>2. (\A e, f \in S : Shown(e) = Shown(f) => e = f) => M \in Injection(S, Shows(S))
  BY DEF Injection, IsInjective, Shows
<1> HIDE DEF M
<1>3. /\ IsFiniteSet(Shows(S)) /\ Cardinality(Shows(S)) <= Cardinality(S)
      /\ Cardinality(Shows(S)) = Cardinality(S) <=> M \in Injection(S, Shows(S))
  BY <1>1, FS_Surjection
<1>4. Cardinality(Shows(S)) \in Nat /\ Cardinality(S) \in Nat
  BY <1>3, FS_CardinalityType
<1>5. QED
  BY <1>2, <1>3, <1>4

LEMMA CrowdStands == ASSUME UNCHANGED question PROVE TooCrowded' <=> TooCrowded
<1>1. graph' = graph /\ limit' = limit /\ root' = root
  BY DEF question
<1>2. Near(limit.depth - 1)' = Near(limit.depth - 1)
  BY <1>1, RelationsStand DEF Near
<1>3. \A n : Crowded(n)' <=> Crowded(n)
  BY <1>1 DEF Crowded, Outgoing, Incoming, MostRows, Shown
<1>4. QED
  BY <1>2, <1>3 DEF TooCrowded

(* What is in the answer tells no more than it has edges. *)
LEMMA LinksAreFew ==
  ASSUME WalkInv, op = "neighbourhood" PROVE ~(Cardinality(Shows(links)) > limit.edges)
<1>1. Cardinality(links) \in Nat /\ Cardinality(Shows(links)) \in Nat
      /\ Cardinality(Shows(links)) <= Cardinality(links)
  BY FoundIsFinite, ShowsCount
<1>2. limit.edges \in Nat /\ Cardinality(links) <= limit.edges
  BY DEF WalkInv, LimitsHold, Question, Limit
<1>3. QED
  BY <1>1, <1>2

(* What stands of a neighbourhood when the frontier changes. *)
LEMMA NeighbourParts ==
  ASSUME op = "neighbourhood", UNCHANGED question, root \in Nodes,
         here' \in [node : Nodes, depth : Nat], here'.depth < limit.depth,
         here'.node \in Near(here'.depth),
         queue' \subseteq Near(here'.depth), found' \subseteq Near(here'.depth + 1),
         pending' \subseteq Adjacent(here'.node), next' \subseteq found',
         ~Excused' =>
           /\ found' = Near(here'.depth) \cup next'
           /\ \/ Cardinality(Shows(links' \cup pending')) > limit.edges
              \/ \A n \in Near(here'.depth) \ queue' : Shows(Adjacent(n)) \subseteq Shows(links' \cup pending'),
         phase' = "done" =>
           /\ pending' = {}
           /\ ~Excused' => /\ found' = Near(limit.depth)
                             /\ \A n \in Near(limit.depth - 1) : Shows(Adjacent(n)) \subseteq Shows(links')
  PROVE  NeighbourInv'
<1>1. root' = root /\ limit' = limit /\ op' = op /\ Joined' = Joined /\ \A n : Adjacent(n)' = Adjacent(n)
  BY RelationsStand DEF question
<1>2. /\ Near(here.depth)' = Near(here'.depth) /\ Near(here.depth + 1)' = Near(here'.depth + 1)
      /\ Near(limit.depth)' = Near(limit.depth) /\ Near(limit.depth - 1)' = Near(limit.depth - 1)
  BY <1>1 DEF Near
<1>3. Adjacent(here.node)' = Adjacent(here'.node)
  <2>1. graph' = graph /\ limit' = limit
    BY DEF question
  <2>2. QED
    BY <2>1 DEF Adjacent, Followed
<1>4. QED
  BY <1>1, <1>2, <1>3 DEF NeighbourInv

LEMMA NeighbourInit == ASSUME Init PROVE NeighbourInv
<1> SUFFICES ASSUME op = "neighbourhood" PROVE NeighbourInv
  BY DEF NeighbourInv
<1>1. root \in Nodes /\ limit \in Limit
  BY WalkInit DEF WalkInv, Question
<1>2. limit.depth \in Nat /\ limit.depth > 0
  BY <1>1, GraphBounds DEF Init, Limit
<1>3. /\ found = {root} /\ pending = {} /\ here = [node |-> root, depth |-> 0] /\ phase = "walk"
      /\ queue = {root} /\ next = {}
  BY DEF Init
<1>4. Near(0) = {root} /\ root \in Near(1)
  <2>1. Near(0) \subseteq Near(1)
    BY <1>1, NearSteps
  <2>2. QED
    BY <1>1, <2>1, NearSteps
<1>5. here.depth = 0 /\ here.depth + 1 = 1 /\ here.node = root
  BY <1>3
<1>6. QED
  BY <1>1, <1>2, <1>3, <1>4, <1>5 DEF NeighbourInv

(* A symbol leaves the frontier: all its edges are pending, or more than the limit. *)
LEMMA FrontierExpands ==
  ASSUME WalkInv, NeighbourInv, NEW n \in Nodes, ExpandFrontier(n) PROVE NeighbourInv'
<1> DEFINE X == IF limit.direction = "incoming" THEN {} ELSE Outgoing(n)
           Y == IF limit.direction = "outgoing" THEN {} ELSE Incoming(n)
<1>1. /\ op = "neighbourhood" /\ UNCHANGED <<question, phase, found, links, next, truncated>>
      /\ phase = "walk" /\ pending = {} /\ n \in queue /\ queue' = queue \ {n}
      /\ here' = [here EXCEPT !.node = n] /\ root \in Nodes /\ limit.edges \in Nat
  BY DEF ExpandFrontier, WalkInv, Question, Limit
<1>2. PICK out \in Rows(X, MostRows), in \in Rows(Y, MostRows) : pending' = out \cup in
  BY DEF ExpandFrontier
<1>3. Adjacent(n) = X \cup Y
  <2>1. limit.direction \in {"outgoing", "incoming", "both"} /\ Followed = graph
    BY <1>1 DEF WalkInv, Question, Limit, Followed
  <2>2. QED
    BY <2>1 DEF Adjacent, Outgoing, Incoming
<1>4. /\ here \in [node : Nodes, depth : Nat] /\ here.depth < limit.depth
      /\ queue \subseteq Near(here.depth) /\ found \subseteq Near(here.depth + 1) /\ next \subseteq found
      /\ ~Excused =>
           /\ found = Near(here.depth) \cup next
           /\ \/ Cardinality(Shows(links)) > limit.edges
              \/ \A m \in Near(here.depth) \ queue : Shows(Adjacent(m)) \subseteq Shows(links)
  <2>1. links \cup pending = links
    BY <1>1
  <2>2. QED
    BY <1>1, <2>1 DEF NeighbourInv
<1>5. here' \in [node : Nodes, depth : Nat] /\ here'.depth = here.depth /\ here'.node = n
  BY <1>1, <1>4
<1>6. ~(Cardinality(Shows(links)) > limit.edges)
  BY <1>1, LinksAreFew
<1>7. IsFiniteSet(X) /\ IsFiniteSet(Y) /\ X \subseteq graph /\ Y \subseteq graph
  <2>1. X \subseteq graph /\ Y \subseteq graph
    BY DEF Outgoing, Incoming
  <2>2. QED
    BY <2>1, FoundIsFinite, FS_Subset
<1>8. MostRows \in Nat /\ MostRows = limit.edges + 1
  BY <1>1 DEF MostRows
<1> HIDE DEF X, Y
<1>9. pending' \subseteq Adjacent(n)
  BY <1>2, <1>3, <1>7, <1>8, RowsOrMost
<1>10. ASSUME ~Crowded(n)
       PROVE  Cardinality(Shows(links \cup pending')) > limit.edges \/ pending' = Adjacent(n)
  <2>1. /\ out = X \/ (Cardinality(out) = MostRows /\ Cardinality(X) > MostRows)
        /\ in = Y \/ (Cardinality(in) = MostRows /\ Cardinality(Y) > MostRows)
        /\ out \subseteq X /\ in \subseteq Y
    BY <1>7, <1>8, RowsOrMost
  <2>2. CASE out = X /\ in = Y
    BY <1>2, <1>3, <2>2
  <2>3. ASSUME NEW E \in {X, Y}, NEW s \in {out, in}, s \subseteq E, Cardinality(s) = MostRows,
               Cardinality(E) > MostRows
        PROVE  Cardinality(Shows(links \cup pending')) > limit.edges
    <3>1. IsFiniteSet(links \cup pending') /\ s \subseteq links \cup pending'
      <4>1. links \cup pending' \subseteq graph
        BY <1>2, <1>7, <2>1 DEF WalkInv, Answer
      <4>2. QED
        BY <1>2, <4>1, FoundIsFinite, FS_Subset
    <3>2. E \in {Outgoing(n), Incoming(n)}
      <4>1. E # {}
        BY <1>8, <2>3, FS_EmptySet
      <4>2. QED
        BY <4>1 DEF X, Y
    <3>3. \A e, f \in s : Shown(e) = Shown(f) => e = f
      BY <1>10, <2>3, <3>2 DEF Crowded
    <3>4. IsFiniteSet(s)
      BY <3>1, FS_Subset
    <3>5. Cardinality(Shows(s)) = MostRows
      BY <2>3, <3>3, <3>4, ShowsCount
    <3>6. IsFiniteSet(Shows(links \cup pending')) /\ Shows(s) \subseteq Shows(links \cup pending')
      BY <3>1, ShowsCount, ShowsMore
    <3>7. Cardinality(Shows(s)) <= Cardinality(Shows(links \cup pending'))
          /\ Cardinality(Shows(links \cup pending')) \in Nat
      BY <3>6, FS_Subset, FS_CardinalityType
    <3>8. QED
      BY <1>1, <1>8, <3>5, <3>7
  <2>4. QED
    BY <2>1, <2>2, <2>3
<1>11. ~Excused' =>
         /\ found' = Near(here'.depth) \cup next'
         /\ \/ Cardinality(Shows(links' \cup pending')) > limit.edges
            \/ \A m \in Near(here'.depth) \ queue' : Shows(Adjacent(m)) \subseteq Shows(links' \cup pending')
  <2> SUFFICES ASSUME ~Excused'
               PROVE  /\ found' = Near(here'.depth) \cup next'
                      /\ \/ Cardinality(Shows(links' \cup pending')) > limit.edges
                         \/ \A m \in Near(here'.depth) \ queue' :
                              Shows(Adjacent(m)) \subseteq Shows(links' \cup pending')
    OBVIOUS
  <2>1. ~Excused /\ ~TooCrowded /\ links' \cup pending' = links \cup pending'
    BY <1>1, CrowdStands DEF Excused
  <2>2. ~Crowded(n)
    <3>1. here.depth \in Nat /\ limit.depth - 1 \in Nat /\ here.depth <= limit.depth - 1
      BY <1>4 DEF WalkInv, Question, Limit
    <3>2. n \in Near(limit.depth - 1)
      BY <1>1, <1>4, <3>1, NearSteps
    <3>3. QED
      BY <2>1, <3>2 DEF TooCrowded
  <2>3. ASSUME pending' = Adjacent(n), NEW m \in Near(here.depth) \ queue'
        PROVE  Shows(Adjacent(m)) \subseteq Shows(links \cup pending')
    <3>1. Shows(pending') \subseteq Shows(links \cup pending') /\ Shows(links) \subseteq Shows(links \cup pending')
      BY ShowsMore
    <3>2. CASE m = n
      BY <2>3, <3>1, <3>2
    <3>3. CASE m # n
      BY <1>1, <1>4, <1>6, <2>1, <2>3, <3>1, <3>3
    <3>4. QED
      BY <3>2, <3>3
  <2>4. found' = Near(here'.depth) \cup next'
    BY <1>1, <1>4, <1>5, <2>1
  <2>5. QED
    BY <1>5, <1>10, <2>1, <2>2, <2>3, <2>4
<1>12. here'.node \in Near(here'.depth) /\ queue' \subseteq Near(here'.depth)
  BY <1>1, <1>4, <1>5
<1>13. QED
  BY <1>1, <1>4, <1>5, <1>9, <1>11, <1>12, NeighbourParts

(* An edge is taken into the answer, or left out and the answer truncated. *)
LEMMA NeighbourEdges ==
  ASSUME WalkInv, NeighbourInv, NEW e \in graph, NeighbourEdge(e) PROVE NeighbourInv'
<1> DEFINE new == {e.from, e.to} \ found
<1>1. /\ op = "neighbourhood" /\ UNCHANGED <<question, phase, queue, here>>
      /\ e \in pending /\ pending' = pending \ {e} /\ root \in Nodes
  BY DEF NeighbourEdge, WalkInv, Question
<1>2. \/ Shown(e) \in Shows(links) /\ UNCHANGED <<found, links, next, truncated>>
      \/ truncated' = TRUE /\ UNCHANGED <<found, links, next>>
      \/ /\ links' = links \cup {e} /\ found' = found \cup new /\ next' = next \cup new
         /\ UNCHANGED truncated
  BY DEF NeighbourEdge
<1>3. /\ here \in [node : Nodes, depth : Nat] /\ here.depth < limit.depth
      /\ here.node \in Near(here.depth)
      /\ queue \subseteq Near(here.depth) /\ found \subseteq Near(here.depth + 1)
      /\ pending \subseteq Adjacent(here.node) /\ next \subseteq found /\ phase # "done"
      /\ ~Excused =>
           /\ found = Near(here.depth) \cup next
           /\ \/ Cardinality(Shows(links \cup pending)) > limit.edges
              \/ \A n \in Near(here.depth) \ queue : Shows(Adjacent(n)) \subseteq Shows(links \cup pending)
  BY <1>1 DEF NeighbourInv
<1>4. new \subseteq Near(here.depth + 1)
  <2>1. here.node \in Nodes /\ here.depth \in Nat /\ here.depth + 1 \in Nat
    BY <1>3
  <2>2. /\ OtherEnd(e, here.node) \in Nodes /\ <<here.node, OtherEnd(e, here.node)>> \in Joined
        /\ {e.from, e.to} = {here.node, OtherEnd(e, here.node)}
    BY <1>1, <1>3, <2>1, JoinedByAnEdge DEF WalkInv
  <2>3. OtherEnd(e, here.node) \in Near(here.depth + 1)
    BY <1>1, <1>3, <2>1, <2>2, NearSteps
  <2>4. Near(here.depth) \subseteq Near(here.depth + 1)
    BY <1>1, <2>1, NearSteps
  <2>5. QED
    BY <1>3, <2>2, <2>3, <2>4
<1>5. found' \subseteq Near(here.depth + 1) /\ next' \subseteq found'
  <2> HIDE DEF new
  <2>1. QED
    BY <1>2, <1>3, <1>4
<1>6. ~Excused' =>
        /\ found' = Near(here.depth) \cup next'
        /\ \/ Cardinality(Shows(links' \cup pending')) > limit.edges
           \/ \A n \in Near(here.depth) \ queue' : Shows(Adjacent(n)) \subseteq Shows(links' \cup pending')
  <2> HIDE DEF new
  <2> SUFFICES ASSUME ~Excused'
               PROVE  /\ found' = Near(here.depth) \cup next'
                      /\ \/ Cardinality(Shows(links' \cup pending')) > limit.edges
                         \/ \A n \in Near(here.depth) \ queue' : Shows(Adjacent(n)) \subseteq Shows(links' \cup pending')
    OBVIOUS
  <2>1. ~truncated' /\ ~Excused /\ (UNCHANGED truncated)
    BY <1>1, <1>2, CrowdStands DEF Excused
  <2>2. Shows(links' \cup pending') = Shows(links \cup pending)
    <3>1. CASE Shown(e) \in Shows(links) /\ links' = links
      BY <1>1, <3>1 DEF Shows
    <3>2. CASE links' = links \cup {e}
      <4>1. links' \cup pending' = links \cup pending
        BY <1>1, <3>2
      <4>2. QED
        BY <4>1
    <3>3. QED
      BY <1>2, <2>1, <3>1, <3>2
  <2>3. found' = Near(here.depth) \cup next'
    BY <1>2, <1>3, <2>1
  <2>4. QED
    BY <1>1, <1>3, <2>1, <2>2, <2>3
<1>7. here' = here /\ pending' \subseteq Adjacent(here.node) /\ queue' = queue /\ phase' # "done"
  BY <1>1, <1>3
<1>8. QED
  BY <1>1, <1>3, <1>5, <1>6, <1>7, NeighbourParts

(* When a level ends and nothing was left out, the next one is found. *)
LEMMA LevelIsFound ==
  ASSUME WalkInv, NeighbourInv, op = "neighbourhood", pending = {}, queue = {}, ~Excused
  PROVE  /\ found = Near(here.depth + 1)
         /\ \A n \in Near(here.depth) : Shows(Adjacent(n)) \subseteq Shows(links)
<1>1. /\ here.depth \in Nat /\ found \subseteq Near(here.depth + 1)
      /\ found = Near(here.depth) \cup next
      /\ \/ Cardinality(Shows(links)) > limit.edges
         \/ \A n \in Near(here.depth) : Shows(Adjacent(n)) \subseteq Shows(links)
  <2>1. links \cup pending = links /\ \A S : S \ queue = S
    OBVIOUS
  <2>2. QED
    BY <2>1 DEF NeighbourInv
<1>2. \A n \in Near(here.depth) : Shows(Adjacent(n)) \subseteq Shows(links)
  BY <1>1, LinksAreFew
<1>3. ASSUME NEW n \in Near(here.depth + 1) PROVE n \in found
  <2>1. root \in Nodes /\ here.depth + 1 \in Nat
    BY <1>1 DEF WalkInv, Question
  <2>2. n \in Nodes /\ Near(here.depth) \subseteq Nodes
    BY <1>1, <2>1, NearSteps
  <2>3. CASE n \in Near(here.depth)
    BY <1>1, <2>3
  <2>4. ASSUME NEW m \in Near(here.depth), <<m, n>> \in Joined PROVE n \in found
    <3>1. PICK e \in Adjacent(m) : OtherEnd(e, m) = n
      BY <2>2, <2>4, JoinedByAnEdge DEF WalkInv
    <3>2. {e.from, e.to} = {m, n}
      BY <2>2, <3>1, JoinedByAnEdge DEF WalkInv
    <3>3. PICK f \in links : Shown(f) = Shown(e)
      BY <1>2, <3>1 DEF Shows
    <3>4. e.from \in found /\ e.to \in found
      BY <3>3 DEF WalkInv, Answer, EdgesHaveEnds, Shown
    <3>5. QED
      BY <3>2, <3>4
  <2>5. QED
    BY <1>1, <2>1, <2>2, <2>3, <2>4, NearSteps
<1>4. QED
  BY <1>1, <1>2, <1>3

(* The next level begins, or the walk is over. *)
LEMMA LevelEnds == ASSUME WalkInv, NeighbourInv, NextLevel PROVE NeighbourInv'
<1>1. /\ op = "neighbourhood" /\ pending = {} /\ root \in Nodes /\ limit.depth \in Nat
      /\ UNCHANGED <<question, found, links, pending, truncated>>
      /\ links' \cup pending' = links /\ (Excused' <=> Excused)
  BY CrowdStands DEF NextLevel, WalkInv, Question, Limit, Excused
<1>2. /\ here \in [node : Nodes, depth : Nat] /\ here.depth < limit.depth
      /\ here.node \in Near(here.depth) /\ found \subseteq Near(here.depth + 1) /\ next \subseteq found
      /\ phase = "walk" => (~Excused => found = Near(here.depth) \cup next)
  BY <1>1 DEF NeighbourInv
<1>3. queue = {} /\ phase = "walk"
  BY <1>1, <1>2 DEF NextLevel
<1>4. ~Excused => /\ found = Near(here.depth + 1) /\ found = Near(here.depth) \cup next
                    /\ \A n \in Near(here.depth) : Shows(Adjacent(n)) \subseteq Shows(links)
  BY <1>1, <1>2, <1>3, LevelIsFound
<1>5. here.depth + 1 \in Nat
  BY <1>2
<1>6. CASE next # {} /\ here.depth + 1 < limit.depth
  <2>1. /\ queue' = next /\ next' = {} /\ phase' = "walk"
        /\ here' = [here EXCEPT !.depth = here.depth + 1]
    BY <1>3, <1>6 DEF NextLevel
  <2>2. here' \in [node : Nodes, depth : Nat] /\ here'.depth = here.depth + 1 /\ here'.node = here.node
    BY <1>2, <1>5, <2>1
  <2>3. /\ Near(here.depth) \subseteq Near(here.depth + 1)
        /\ Near(here.depth + 1) \subseteq Near((here.depth + 1) + 1)
    BY <1>1, <1>2, <1>5, NearSteps
  <2>4. /\ here'.node \in Near(here'.depth) /\ queue' \subseteq Near(here'.depth)
        /\ found' \subseteq Near(here'.depth + 1)
    BY <1>1, <1>2, <2>1, <2>2, <2>3
  <2>5. ~Excused' =>
          /\ found' = Near(here'.depth) \cup next'
          /\ \A n \in Near(here'.depth) \ queue' : Shows(Adjacent(n)) \subseteq Shows(links' \cup pending')
    BY <1>1, <1>4, <2>1, <2>2
  <2>6. here'.depth < limit.depth /\ pending' \subseteq Adjacent(here'.node)
        /\ next' \subseteq found' /\ phase' # "done"
    BY <1>1, <1>6, <2>1, <2>2
  <2>7. QED
    BY <1>1, <2>2, <2>4, <2>5, <2>6, NeighbourParts
<1>7. CASE ~(next # {} /\ here.depth + 1 < limit.depth)
  <2>1. phase' = "done" /\ here' = here /\ queue' = {} /\ next' = next
    BY <1>3, <1>7 DEF NextLevel
  <2>2. ASSUME ~Excused
        PROVE  /\ found = Near(limit.depth)
               /\ \A n \in Near(limit.depth - 1) : Shows(Adjacent(n)) \subseteq Shows(links)
    <3>1. CASE here.depth + 1 = limit.depth
      <4>1. here.depth = limit.depth - 1
        BY <1>1, <1>2, <3>1
      <4>2. QED
        BY <1>4, <2>2, <3>1, <4>1
    <3>2. CASE next = {}
      <4>1. found = Near(here.depth) /\ found = Near(here.depth + 1)
        BY <1>4, <2>2, <3>2
      <4>2. \A m \in found : \A n \in Nodes : <<m, n>> \in Joined => n \in found
        <5>1. found \subseteq Nodes
          BY DEF WalkInv, Answer
        <5>2. QED
          BY <1>1, <1>2, <4>1, <5>1, NearSteps
      <4>3. \A k \in Nat : Near(k) \subseteq found
        <5>1. {root} \in SUBSET Nodes /\ {root} \subseteq found
          BY <1>1 DEF WalkInv, Answer
        <5>2. QED
          BY <4>2, <5>1, ClosedHasAll DEF Near
      <4>4. Near(here.depth) \subseteq Near(limit.depth)
        <5>1. here.depth <= limit.depth /\ here.depth \in Nat
          BY <1>1, <1>2
        <5>2. QED
          BY <1>1, <5>1, NearSteps
      <4>5. limit.depth - 1 \in Nat
        BY <1>1, <1>2
      <4>6. Near(limit.depth) \subseteq found /\ Near(limit.depth - 1) \subseteq found
        BY <1>1, <4>3, <4>5
      <4>7. QED
        BY <1>4, <2>2, <4>1, <4>4, <4>6
    <3>3. QED
      BY <1>1, <1>2, <1>7, <3>1, <3>2
  <2>3. ~Excused' =>
          /\ found' = Near(here'.depth) \cup next'
          /\ \A n \in Near(here'.depth) \ queue' : Shows(Adjacent(n)) \subseteq Shows(links' \cup pending')
    BY <1>1, <1>4, <2>1
  <2>4. phase' = "done" =>
          /\ pending' = {}
          /\ ~Excused' => /\ found' = Near(limit.depth)
                            /\ \A n \in Near(limit.depth - 1) : Shows(Adjacent(n)) \subseteq Shows(links')
    BY <1>1, <2>2
  <2>5. /\ here' \in [node : Nodes, depth : Nat] /\ here'.depth < limit.depth
        /\ here'.node \in Near(here'.depth) /\ queue' \subseteq Near(here'.depth)
        /\ found' \subseteq Near(here'.depth + 1)
        /\ pending' \subseteq Adjacent(here'.node) /\ next' \subseteq found'
    BY <1>1, <1>2, <2>1
  <2>6. QED
    BY <1>1, <2>3, <2>4, <2>5, NeighbourParts
<1>8. QED
  BY <1>6, <1>7

(* The answer of a finished neighbourhood from which nothing was left out. *)
LEMMA NeighbourIsComplete ==
  ASSUME WalkInv, NeighbourInv, op = "neighbourhood", phase = "done", ~truncated,
         \A n \in Reached({root}, Joined, limit.depth - 1) : ~Crowded(n)
  PROVE  NothingLeftOut
<1>1. ~Excused
  BY DEF Excused, TooCrowded, Near
<1>2. QED
  BY <1>1 DEF NeighbourInv, NothingLeftOut, Near

-----------------------------------------------------------------------------
(* Path. *)
LEMMA WithinSteps ==
  ASSUME root \in Nodes
  PROVE  /\ Within(0) = {root}
         /\ \A j, k \in Nat : j <= k => Within(j) \subseteq Within(k)
         /\ \A k \in Nat, m \in Nodes, n \in Nodes :
              m \in Within(k) /\ <<m, n>> \in Calls => n \in Within(k + 1)
         /\ \A k \in Nat, n \in Nodes :
              n \in Within(k + 1) => n \in Within(k) \/ \E m \in Within(k) : <<m, n>> \in Calls
         /\ \A k \in Nat : Within(k) \subseteq Nodes
  BY RootSteps DEF Within

(* What stands of a path search when its queue and trail change. *)
LEMMA PathParts ==
  ASSUME op = "path", UNCHANGED question,
         trail'[root].hops = 0, phase' = "walk" => goal \notin found',
         \A n \in found' : /\ n \in Within(trail'[n].hops)
                           /\ \A k \in Nat : n \in Within(k) => trail'[n].hops <= k,
         \A i \in DOMAIN queue' :
           here'.depth <= trail'[queue'[i]].hops /\ trail'[queue'[i]].hops <= here'.depth + 1,
         \A i, j \in DOMAIN queue' : i < j => trail'[queue'[i]].hops <= trail'[queue'[j]].hops,
         \/ Within(here'.depth) \subseteq found' \/ Cardinality(found') >= limit.nodes
         \/ pending' = {} /\ (inspected' >= limit.edges \/ here'.depth >= limit.depth),
         truncated' => \/ Cardinality(found') >= limit.nodes
                       \/ inspected' >= limit.edges \/ here'.depth >= limit.depth,
         ~truncated' /\ goal \notin found' =>
           \A e \in OfKind("calls") \ pending' :
             e.from \in found' \ {queue'[i] : i \in DOMAIN queue'} => e.to \in found',
         phase' = "done" /\ goal \notin found' => pending' = {} /\ queue' = <<>>
  PROVE  PathInv'
<1>1. root' = root /\ limit' = limit /\ op' = op /\ goal' = goal /\ Calls' = Calls
      /\ OfKind("calls")' = OfKind("calls")
  BY RelationsStand DEF question
<1>2. /\ Within(here.depth)' = Within(here'.depth)
      /\ \A n : Within(trail[n].hops)' = Within(trail'[n].hops)
      /\ \A k : Within(k)' = Within(k)
  BY <1>1 DEF Within
<1>3. /\ Spent' <=> inspected' >= limit.edges \/ here'.depth >= limit.depth
      /\ Waiting' = {queue'[i] : i \in DOMAIN queue'}
  BY <1>1 DEF Spent, Waiting
<1>4. QED
  BY <1>1, <1>2, <1>3 DEF PathInv

LEMMA PathInit == ASSUME Init PROVE PathInv
<1> SUFFICES ASSUME op = "path" PROVE PathInv
  BY DEF PathInv
<1>1. root \in Nodes
  BY WalkInit DEF WalkInv, Question
<1>2. /\ found = {root} /\ pending = {} /\ here = [node |-> root, depth |-> 0] /\ queue = <<root>>
      /\ trail = [n \in Nodes |-> [from |-> root, hops |-> 0]] /\ truncated = FALSE
      /\ phase = IF root = goal THEN "done" ELSE "walk"
  BY DEF Init
<1>3. Within(0) = {root}
  BY <1>1, WithinSteps
<1>4. trail[root].hops = 0 /\ here.depth = 0 /\ DOMAIN queue = {1} /\ queue[1] = root
  BY <1>1, <1>2
<1>5. Waiting = {root}
  BY <1>4 DEF Waiting
<1>6. \A n \in found : n \in Within(trail[n].hops) /\ \A k \in Nat : n \in Within(k) => trail[n].hops <= k
  BY <1>2, <1>3, <1>4
<1>7. QED
  BY <1>2, <1>3, <1>4, <1>5, <1>6 DEF PathInv

(* What PathInv says while the search goes on, and of what type it is. *)
LEMMA PathFacts ==
  ASSUME WalkInv, PathInv, op = "path"
  PROVE  /\ root \in found /\ found \subseteq Nodes /\ IsFiniteSet(found) /\ Cardinality(found) \in Nat
         /\ limit.nodes \in Nat /\ limit.edges \in Nat /\ limit.depth \in Nat
         /\ inspected \in Nat /\ inspected <= limit.edges
         /\ queue \in Seq(found) /\ here.node \in found /\ here.depth \in Nat
         /\ here.depth = trail[here.node].hops /\ \A n \in Nodes : trail[n].hops \in Nat
         /\ graph \subseteq Edge /\ root \in Nodes
<1>1. IsFiniteSet(found) /\ Cardinality(found) \in Nat
  BY FoundIsFinite, FS_CardinalityType
<1>2. root \in found /\ found \subseteq Nodes /\ \A n \in Nodes : trail[n].hops \in Nat
  BY DEF WalkInv, Answer, Trails
<1>3. QED
  BY <1>1, <1>2 DEF WalkInv, Question, Limit, LimitsHold, Search

(* When the first symbol of the queue is about to be expanded, all that is as
   near as it is found, if anything more can be. *)
LEMMA NearerIsFound ==
  ASSUME WalkInv, PathInv, op = "path", pending = {}, queue # <<>>, goal \notin found,
         Cardinality(found) < limit.nodes, ~Spent,
         here.depth < trail[Head(queue)].hops
  PROVE  Within(trail[Head(queue)].hops) \subseteq found
<1> DEFINE d == here.depth
           h == trail[Head(queue)].hops
<1>1. /\ found \subseteq Nodes /\ d \in Nat /\ queue \in Seq(found) /\ root \in Nodes
      /\ \A n \in Nodes : trail[n].hops \in Nat
      /\ Cardinality(found) \in Nat /\ limit.nodes \in Nat
  BY PathFacts
<1>2. /\ DOMAIN queue = 1..Len(queue) /\ Len(queue) >= 1 /\ Len(queue) \in Nat /\ Head(queue) = queue[1]
      /\ \A i \in DOMAIN queue : queue[i] \in found
  BY <1>1
<1>3. /\ d < h /\ h <= d + 1
      /\ \A i, j \in DOMAIN queue : i < j => trail[queue[i]].hops <= trail[queue[j]].hops
      /\ Within(d) \subseteq found
      /\ \A n \in found : \A k \in Nat : n \in Within(k) => trail[n].hops <= k
      /\ \A e \in OfKind("calls") : e.from \in found \ Waiting => e.to \in found
  <2>1. ~(Cardinality(found) >= limit.nodes) /\ ~truncated
    BY <1>1 DEF PathInv
  <2>2. Within(d) \subseteq found
    BY <2>1 DEF PathInv
  <2>3. d < h /\ h <= d + 1
    BY <1>2 DEF PathInv
  <2>4. \A e \in OfKind("calls") : e.from \in found \ Waiting => e.to \in found
    <3>1. \A S : S \ pending = S
      OBVIOUS
    <3>2. \A e \in OfKind("calls") \ pending : e.from \in found \ Waiting => e.to \in found
      BY <2>1 DEF PathInv
    <3>3. QED
      BY <3>1, <3>2
  <2>5. QED
    BY <2>2, <2>3, <2>4 DEF PathInv
<1>4. h = d + 1
  <2>1. h \in Nat
    BY <1>1, <1>2
  <2>2. QED
    BY <1>1, <1>3, <2>1
<1>5. \A w \in Waiting : trail[w].hops >= d + 1
  <2> SUFFICES ASSUME NEW i \in DOMAIN queue PROVE trail[queue[i]].hops >= d + 1
    BY DEF Waiting
  <2>1. CASE i = 1
    BY <1>1, <1>2, <1>4, <2>1
  <2>2. CASE i # 1
    <3>1. 1 \in DOMAIN queue /\ 1 < i /\ queue[i] \in Nodes /\ queue[1] \in Nodes
      BY <1>1, <1>2, <2>2
    <3>2. trail[queue[1]].hops <= trail[queue[i]].hops
      BY <1>3, <3>1
    <3>3. QED
      BY <1>1, <1>2, <1>4, <3>1, <3>2
  <2>3. QED
    BY <2>1, <2>2
<1>6. ASSUME NEW n \in Within(d + 1) PROVE n \in found
  <2>1. d + 1 \in Nat
    BY <1>1
  <2>2. n \in Nodes
    BY <1>1, <2>1, WithinSteps
  <2>3. CASE n \in Within(d)
    BY <1>3, <2>3
  <2>4. ASSUME NEW m \in Within(d), <<m, n>> \in Calls PROVE n \in found
    <3>1. m \in found /\ trail[m].hops <= d /\ trail[m].hops \in Nat
      BY <1>1, <1>3
    <3>2. m \notin Waiting
      BY <1>1, <1>5, <3>1
    <3>3. PICK e \in OfKind("calls") : e.from = m /\ e.to = n
      BY <2>4 DEF Calls, Along
    <3>4. QED
      BY <1>3, <3>1, <3>2, <3>3
  <2>5. QED
    BY <1>1, <2>2, <2>3, <2>4, WithinSteps
<1>7. QED
  BY <1>4, <1>6

(* The first symbol of the queue is expanded. *)
LEMMA PathExpands == ASSUME WalkInv, PathInv, PathExpand PROVE PathInv'
<1>1. PICK n : n = Head(queue)
  OBVIOUS
<1>2. PICK h : h = trail[n].hops
  OBVIOUS
<1>3. /\ op = "path" /\ phase = "walk" /\ pending = {} /\ queue # <<>> /\ queue' = Tail(queue)
      /\ UNCHANGED <<question, phase, found, trail>> /\ here' = [node |-> n, depth |-> h]
      /\ goal \notin found
  BY <1>1, <1>2 DEF PathExpand, PathInv
<1>4. PICK rows \in Rows(CallsOf(n), Remaining) :
        /\ inspected' = inspected + Cardinality(rows)
        /\ IF h >= limit.depth
             THEN /\ pending' = {}
                  /\ truncated' = (truncated \/ Cardinality(CallsOf(n)) > Remaining \/ LeavesOut(rows))
             ELSE pending' = rows /\ truncated' = (truncated \/ Cardinality(CallsOf(n)) > Remaining)
  BY <1>1, <1>2 DEF PathExpand
<1>5. /\ root \in found /\ found \subseteq Nodes /\ IsFiniteSet(found) /\ Cardinality(found) \in Nat
      /\ limit.nodes \in Nat /\ limit.edges \in Nat /\ limit.depth \in Nat
      /\ inspected \in Nat /\ inspected <= limit.edges
      /\ queue \in Seq(found) /\ here.depth \in Nat
      /\ \A m \in Nodes : trail[m].hops \in Nat
  BY <1>3, PathFacts
<1>6. /\ DOMAIN queue = 1..Len(queue) /\ Len(queue) \in Nat /\ Len(queue) >= 1 /\ n = queue[1]
      /\ DOMAIN queue' = 1..(Len(queue) - 1) /\ \A i \in 1..(Len(queue) - 1) : queue'[i] = queue[i + 1]
  <2>1. Tail(queue) \in Seq(found)
    BY <1>3, <1>5, QueueOps
  <2>2. QED
    BY <1>1, <1>3, <1>5, QueueOps
<1>7. /\ \A i \in DOMAIN queue : queue[i] \in found /\ trail[queue[i]].hops \in Nat
      /\ \A i \in DOMAIN queue : here.depth <= trail[queue[i]].hops /\ trail[queue[i]].hops <= here.depth + 1
      /\ \A i, j \in DOMAIN queue : i < j => trail[queue[i]].hops <= trail[queue[j]].hops
  BY <1>3, <1>5, <1>6 DEF PathInv
<1>8. h \in Nat /\ here.depth <= h /\ h <= here.depth + 1 /\ n \in found
  BY <1>2, <1>6, <1>7
<1>9. \A i \in 1..(Len(queue) - 1) :
        i + 1 \in DOMAIN queue /\ h <= trail[queue[i + 1]].hops /\ trail[queue[i + 1]].hops <= h + 1
  <2> SUFFICES ASSUME NEW i \in 1..(Len(queue) - 1)
               PROVE  i + 1 \in DOMAIN queue /\ h <= trail[queue[i + 1]].hops /\ trail[queue[i + 1]].hops <= h + 1
    OBVIOUS
  <2>1. i + 1 \in DOMAIN queue /\ 1 \in DOMAIN queue /\ 1 < i + 1
    BY <1>6
  <2>2. trail[queue[1]].hops <= trail[queue[i + 1]].hops /\ trail[queue[i + 1]].hops <= here.depth + 1
    BY <1>7, <2>1
  <2>3. trail[queue[i + 1]].hops \in Nat
    BY <1>7, <2>1
  <2>4. trail[queue[1]].hops = h
    BY <1>2, <1>6
  <2>5. QED
    BY <1>5, <1>8, <2>1, <2>2, <2>3, <2>4
<1>10. /\ IsFiniteSet(CallsOf(n)) /\ Remaining \in Nat /\ Remaining = limit.edges - inspected
       /\ CallsOf(n) = {e \in OfKind("calls") : e.from = n}
  <2>1. CallsOf(n) \in SUBSET graph
    BY DEF CallsOf, Outgoing
  <2>2. QED
    BY <1>5, <2>1, FoundIsFinite, FS_Subset DEF Remaining, CallsOf, Outgoing, OfKind
<1>11. /\ rows \subseteq CallsOf(n) /\ Cardinality(rows) \in Nat /\ Cardinality(CallsOf(n)) \in Nat
       /\ rows = CallsOf(n) \/ (Cardinality(rows) = Remaining /\ Cardinality(CallsOf(n)) > Remaining)
       /\ Remaining = 0 => rows = {}
  BY <1>10, RowsOrMost
<1>12. inspected' \in Nat /\ inspected <= inspected'
  BY <1>4, <1>5, <1>11
<1>13. Spent => pending' = {} /\ (inspected' >= limit.edges \/ here'.depth >= limit.depth)
  <2>1. here'.depth = h
    BY <1>3
  <2>2. CASE inspected >= limit.edges
    <3>1. Remaining = 0 /\ inspected' >= limit.edges
      BY <1>5, <1>10, <1>12, <2>2
    <3>2. QED
      BY <1>4, <1>11, <3>1
  <2>3. CASE here.depth >= limit.depth
    BY <1>4, <1>5, <1>8, <2>1, <2>3
  <2>4. QED
    BY <2>2, <2>3 DEF Spent
<1>14. \/ Within(here'.depth) \subseteq found' \/ Cardinality(found') >= limit.nodes
       \/ pending' = {} /\ (inspected' >= limit.edges \/ here'.depth >= limit.depth)
  <2>1. here'.depth = h
    BY <1>3
  <2>2. CASE Spent
    BY <1>13, <2>2
  <2>3. CASE Cardinality(found) >= limit.nodes
    BY <1>3, <2>3
  <2>4. CASE ~Spent /\ Cardinality(found) < limit.nodes /\ here.depth < h
    BY <1>1, <1>2, <1>3, <2>1, <2>4, NearerIsFound
  <2>5. CASE ~Spent /\ ~(Cardinality(found) >= limit.nodes) /\ here.depth = h
    BY <1>3, <2>1, <2>5 DEF PathInv
  <2>6. QED
    BY <1>5, <1>8, <2>2, <2>3, <2>4, <2>5
<1>15. truncated' => \/ Cardinality(found') >= limit.nodes
                     \/ inspected' >= limit.edges \/ here'.depth >= limit.depth
  <2>1. CASE truncated
    <3>1. Cardinality(found) >= limit.nodes \/ Spent
      BY <1>3, <2>1 DEF PathInv
    <3>2. QED
      BY <1>3, <1>13, <3>1
  <2>2. CASE Cardinality(CallsOf(n)) > Remaining
    <3>1. Cardinality(rows) >= Remaining
      <4>1. CASE rows = CallsOf(n)
        BY <1>10, <1>11, <2>2, <4>1
      <4>2. CASE Cardinality(rows) = Remaining
        BY <1>10, <4>2
      <4>3. QED
        BY <1>11, <4>1, <4>2
    <3>2. QED
      BY <1>4, <1>5, <1>10, <1>11, <3>1
  <2>3. CASE h >= limit.depth
    BY <1>3, <2>3
  <2>4. QED
    BY <1>4, <2>1, <2>2, <2>3
<1>16. ~truncated' => \A e \in OfKind("calls") \ pending' :
         e.from \in found' \ {queue'[i] : i \in DOMAIN queue'} => e.to \in found'
  <2> SUFFICES ASSUME ~truncated', NEW e \in OfKind("calls") \ pending',
                      e.from \in found, e.from \notin {queue'[i] : i \in DOMAIN queue'}
               PROVE  e.to \in found
    BY <1>3
  <2>1. ~truncated /\ rows = CallsOf(n) /\ (h >= limit.depth => ~LeavesOut(rows))
    BY <1>4, <1>11
  <2>2. CASE e.from = n
    <3>1. e \in rows
      BY <1>10, <2>1, <2>2
    <3>2. h >= limit.depth
      BY <1>4, <3>1
    <3>3. QED
      BY <2>1, <3>1, <3>2 DEF LeavesOut
  <2>3. CASE e.from # n
    <3>1. e.from \notin Waiting
      <4> SUFFICES ASSUME NEW i \in DOMAIN queue, queue[i] = e.from PROVE FALSE
        BY DEF Waiting
      <4>1. i # 1
        BY <1>6, <2>3
      <4>2. i - 1 \in DOMAIN queue' /\ queue'[i - 1] = queue[(i - 1) + 1] /\ (i - 1) + 1 = i
        BY <1>6, <4>1
      <4>3. QED
        BY <4>2
    <3>2. e \in OfKind("calls") \ pending
      BY <1>3
    <3>3. QED
      BY <1>3, <2>1, <3>1, <3>2 DEF PathInv
  <2>4. QED
    BY <2>2, <2>3
<1>17. /\ \A i \in DOMAIN queue' :
            here'.depth <= trail'[queue'[i]].hops /\ trail'[queue'[i]].hops <= here'.depth + 1
       /\ \A i, j \in DOMAIN queue' : i < j => trail'[queue'[i]].hops <= trail'[queue'[j]].hops
  <2>1. here'.depth = h /\ trail' = trail
    BY <1>3
  <2>2. \A i \in DOMAIN queue' : queue'[i] = queue[i + 1] /\ i \in 1..(Len(queue) - 1)
    BY <1>6
  <2>3. ASSUME NEW i \in DOMAIN queue', NEW j \in DOMAIN queue', i < j
        PROVE  trail[queue'[i]].hops <= trail[queue'[j]].hops
    <3>1. i + 1 \in DOMAIN queue /\ j + 1 \in DOMAIN queue /\ i + 1 < j + 1
      BY <1>6, <2>2, <2>3
    <3>2. QED
      BY <1>7, <2>2, <3>1
  <2>4. QED
    BY <1>9, <2>1, <2>2, <2>3
<1>18. /\ trail'[root].hops = 0
       /\ \A m \in found' : /\ m \in Within(trail'[m].hops)
                            /\ \A k \in Nat : m \in Within(k) => trail'[m].hops <= k
       /\ phase' = "walk" => goal \notin found'
       /\ phase' # "done"
  BY <1>3 DEF PathInv
<1>19. QED
  BY <1>3, <1>14, <1>15, <1>16, <1>17, <1>18, PathParts

(* A call is followed.  The symbol it leads to was not within as many steps as
   that of the caller, so that one more is its distance. *)
LEMMA PathEdges ==
  ASSUME WalkInv, PathInv, NEW e \in graph, PathEdge(e) PROVE PathInv'
<1>1. /\ op = "path" /\ UNCHANGED <<question, here, inspected>> /\ e \in pending
  BY DEF PathEdge
<1>2. /\ root \in found /\ found \subseteq Nodes /\ IsFiniteSet(found) /\ Cardinality(found) \in Nat
      /\ limit.nodes \in Nat /\ limit.edges \in Nat /\ limit.depth \in Nat /\ inspected \in Nat
      /\ queue \in Seq(found) /\ here.node \in found /\ here.depth \in Nat
      /\ here.depth = trail[here.node].hops /\ \A n \in Nodes : trail[n].hops \in Nat
      /\ graph \subseteq Edge /\ root \in Nodes
  BY <1>1, PathFacts
<1>3. e.from = here.node /\ e \in OfKind("calls") /\ e.to \in Nodes
  BY <1>1, <1>2 DEF WalkInv, Search, OfKind, Edge
<1>4. /\ trail[root].hops = 0 /\ (phase = "walk" => goal \notin found)
      /\ \A n \in found : /\ n \in Within(trail[n].hops)
                          /\ \A k \in Nat : n \in Within(k) => trail[n].hops <= k
      /\ \A i \in DOMAIN queue :
           here.depth <= trail[queue[i]].hops /\ trail[queue[i]].hops <= here.depth + 1
      /\ \A i, j \in DOMAIN queue : i < j => trail[queue[i]].hops <= trail[queue[j]].hops
      /\ Within(here.depth) \subseteq found \/ Cardinality(found) >= limit.nodes
      /\ truncated => \/ Cardinality(found) >= limit.nodes
                      \/ inspected >= limit.edges \/ here.depth >= limit.depth
      /\ phase = "done" => goal \in found
  BY <1>1 DEF PathInv, Spent
<1>5. ~truncated /\ goal \notin found =>
        \A f \in OfKind("calls") \ pending : f.from \in found \ Waiting => f.to \in found
  BY <1>1 DEF PathInv
<1>6. CASE /\ pending' = pending \ {e} /\ UNCHANGED <<phase, found, queue, trail>>
           /\ \/ e.to \in found /\ UNCHANGED truncated
              \/ Cardinality(found) >= limit.nodes /\ truncated' = TRUE
  <2>1. ~truncated' /\ goal \notin found' =>
          \A f \in OfKind("calls") \ pending' :
            f.from \in found' \ {queue'[i] : i \in DOMAIN queue'} => f.to \in found'
    BY <1>5, <1>6 DEF Waiting
  <2>2. truncated' => \/ Cardinality(found') >= limit.nodes
                      \/ inspected' >= limit.edges \/ here'.depth >= limit.depth
    BY <1>1, <1>4, <1>6
  <2>3. QED
    BY <1>1, <1>4, <1>6, <2>1, <2>2, PathParts
<1>7. CASE /\ e.to \notin found /\ ~(Cardinality(found) >= limit.nodes) /\ UNCHANGED truncated
           /\ found' = found \cup {e.to}
           /\ trail' = [trail EXCEPT ![e.to] = [from |-> here.node, hops |-> here.depth + 1]]
           /\ IF e.to = goal
                THEN phase' = "done" /\ pending' = {} /\ UNCHANGED queue
                ELSE /\ queue' = Append(queue, e.to) /\ pending' = pending \ {e}
                     /\ UNCHANGED phase
  <2>1. /\ trail'[e.to].hops = here.depth + 1
        /\ \A n \in found : trail'[n] = trail[n]
    <3>1. trail \in [Nodes -> [from : Nodes, hops : Nat]]
      BY DEF WalkInv, Trails
    <3>2. trail'[e.to] = [from |-> here.node, hops |-> here.depth + 1]
      BY <1>3, <1>7, <3>1
    <3>3. \A n \in found : trail'[n] = trail[n]
      BY <1>2, <1>7, <3>1
    <3>4. QED
      BY <3>2, <3>3
  <2>2. Within(here.depth) \subseteq found
    BY <1>4, <1>7
  <2>3. \A n \in found' : /\ n \in Within(trail'[n].hops)
                          /\ \A k \in Nat : n \in Within(k) => trail'[n].hops <= k
    <3>1. e.to \in Within(here.depth + 1)
      <4>1. here.node \in Within(here.depth) /\ here.node \in Nodes
        BY <1>2, <1>4
      <4>2. <<here.node, e.to>> \in Calls
        BY <1>3 DEF Calls, Along
      <4>3. QED
        BY <1>2, <1>3, <4>1, <4>2, WithinSteps
    <3>2. ASSUME NEW k \in Nat, e.to \in Within(k) PROVE here.depth + 1 <= k
      <4>1. k <= here.depth => Within(k) \subseteq Within(here.depth)
        BY <1>2, WithinSteps
      <4>2. QED
        BY <1>2, <1>7, <2>2, <3>2, <4>1
    <3>3. QED
      BY <1>4, <1>7, <2>1, <3>1, <3>2
  <2>4. DOMAIN queue = 1..Len(queue) /\ Len(queue) \in Nat /\ \A i \in DOMAIN queue : queue[i] \in found
    BY <1>2
  <2>5. /\ \A i \in DOMAIN queue' :
             here'.depth <= trail'[queue'[i]].hops /\ trail'[queue'[i]].hops <= here'.depth + 1
        /\ \A i, j \in DOMAIN queue' : i < j => trail'[queue'[i]].hops <= trail'[queue'[j]].hops
    <3>1. CASE queue' = queue
      BY <1>1, <1>4, <2>1, <2>4, <3>1
    <3>2. CASE queue' = Append(queue, e.to)
      <4>1. /\ DOMAIN queue' = 1..(Len(queue) + 1) /\ queue'[Len(queue) + 1] = e.to
            /\ \A i \in 1..Len(queue) : queue'[i] = queue[i]
        <5>1. queue \in Seq(Nodes)
          BY <1>2, SeqMonotonic
        <5>2. QED
          BY <1>3, <3>2, <5>1, QueueOps
      <4>2. here'.depth = here.depth
        BY <1>1
      <4>3. ASSUME NEW i \in DOMAIN queue'
            PROVE  /\ here.depth <= trail'[queue'[i]].hops /\ trail'[queue'[i]].hops <= here.depth + 1
                   /\ i # Len(queue) + 1 => i \in DOMAIN queue /\ trail'[queue'[i]] = trail[queue[i]]
                   /\ i = Len(queue) + 1 => trail'[queue'[i]].hops = here.depth + 1
        <5>1. CASE i = Len(queue) + 1
          BY <1>2, <2>1, <2>4, <4>1, <5>1
        <5>2. CASE i # Len(queue) + 1
          <6>1. i \in DOMAIN queue
            BY <2>4, <4>1, <5>2
          <6>2. QED
            BY <1>4, <2>1, <2>4, <4>1, <5>2, <6>1
        <5>3. QED
          BY <5>1, <5>2
      <4>4. ASSUME NEW i \in DOMAIN queue', NEW j \in DOMAIN queue', i < j
            PROVE  trail'[queue'[i]].hops <= trail'[queue'[j]].hops
        <5>1. i # Len(queue) + 1
          BY <2>4, <4>1, <4>4
        <5>2. CASE j = Len(queue) + 1
          BY <4>3, <5>2
        <5>3. CASE j # Len(queue) + 1
          BY <1>4, <4>3, <4>4, <5>1, <5>3
        <5>4. QED
          BY <5>2, <5>3
      <4>5. QED
        BY <4>2, <4>3, <4>4
    <3>3. QED
      BY <1>7, <3>1, <3>2
  <2>6. truncated' => \/ Cardinality(found') >= limit.nodes
                      \/ inspected' >= limit.edges \/ here'.depth >= limit.depth
    BY <1>1, <1>4, <1>7
  <2>7. ~truncated' /\ goal \notin found' =>
          \A f \in OfKind("calls") \ pending' :
            f.from \in found' \ {queue'[i] : i \in DOMAIN queue'} => f.to \in found'
    <3> SUFFICES ASSUME ~truncated', goal \notin found', NEW f \in OfKind("calls") \ pending',
                        f.from \in found' \ {queue'[i] : i \in DOMAIN queue'}
                 PROVE  f.to \in found'
      OBVIOUS
    <3>1. ~truncated /\ goal \notin found /\ queue' = Append(queue, e.to) /\ pending' = pending \ {e}
      BY <1>7
    <3>2. /\ DOMAIN queue' = 1..(Len(queue) + 1) /\ queue'[Len(queue) + 1] = e.to
          /\ \A i \in 1..Len(queue) : queue'[i] = queue[i]
      <4>1. queue \in Seq(Nodes)
        BY <1>2, SeqMonotonic
      <4>2. QED
        BY <1>3, <3>1, <4>1, QueueOps
    <3>3. f.from # e.to /\ f.from \notin Waiting
      <4>1. Waiting \cup {e.to} \subseteq {queue'[i] : i \in DOMAIN queue'}
        BY <2>4, <3>2 DEF Waiting
      <4>2. QED
        BY <4>1
    <3>4. CASE f = e
      BY <1>7, <3>4
    <3>5. CASE f # e
      BY <1>5, <1>7, <3>1, <3>3, <3>5
    <3>6. QED
      BY <3>4, <3>5
  <2>8. /\ trail'[root].hops = 0
        /\ phase' = "walk" => goal \notin found'
        /\ phase' = "done" => goal \in found'
    BY <1>2, <1>4, <1>7, <2>1
  <2>9. Within(here'.depth) \subseteq found'
    BY <1>1, <1>7, <2>2
  <2>10. QED
    BY <1>1, <2>3, <2>5, <2>6, <2>7, <2>8, <2>9, PathParts
<1>8. QED
  <2>1. CASE e.to \in found
    <3>1. pending' = pending \ {e} /\ UNCHANGED <<phase, found, queue, trail, truncated>>
      BY <2>1 DEF PathEdge
    <3>2. QED
      BY <1>6, <2>1, <3>1
  <2>2. CASE e.to \notin found /\ Cardinality(found) >= limit.nodes
    <3>1. pending' = pending \ {e} /\ truncated' = TRUE /\ UNCHANGED <<phase, found, queue, trail>>
      BY <2>2 DEF PathEdge
    <3>2. QED
      BY <1>6, <2>2, <3>1
  <2>3. CASE e.to \notin found /\ ~(Cardinality(found) >= limit.nodes)
    BY <1>7, <2>3 DEF PathEdge
  <2>4. QED
    BY <2>1, <2>2, <2>3

(* The queue is empty. *)
LEMMA PathEnds == ASSUME WalkInv, PathInv, PathEnd PROVE PathInv'
<1>1. /\ op = "path" /\ phase = "walk" /\ pending = {} /\ queue = <<>> /\ phase' = "done"
      /\ UNCHANGED <<question, found, queue, here, pending, trail, inspected, truncated>>
  BY DEF PathEnd
<1>2. \A n \in found : /\ n \in Within(trail[n].hops)
                       /\ \A k \in Nat : n \in Within(k) => trail[n].hops <= k
  BY <1>1 DEF PathInv
<1>3. /\ trail[root].hops = 0
      /\ \A i \in DOMAIN queue :
           here.depth <= trail[queue[i]].hops /\ trail[queue[i]].hops <= here.depth + 1
      /\ \A i, j \in DOMAIN queue : i < j => trail[queue[i]].hops <= trail[queue[j]].hops
      /\ \/ Within(here.depth) \subseteq found \/ Cardinality(found) >= limit.nodes
         \/ pending = {} /\ (inspected >= limit.edges \/ here.depth >= limit.depth)
      /\ truncated => \/ Cardinality(found) >= limit.nodes
                      \/ inspected >= limit.edges \/ here.depth >= limit.depth
      /\ ~truncated /\ goal \notin found =>
           \A e \in OfKind("calls") \ pending :
             e.from \in found \ {queue[i] : i \in DOMAIN queue} => e.to \in found
  BY <1>1 DEF PathInv, Spent, Waiting
<1>4. QED
  BY <1>1, <1>2, <1>3, PathParts

(* The way back from the goal, one hop after another. *)
LEMMA WayBack ==
  ASSUME WalkInv, PathInv, op = "path", goal \in found
  PROVE  LET back[i \in Nat] == IF i = 0 THEN goal ELSE trail[back[i - 1]].from
         IN  /\ back[trail[goal].hops] = root
             /\ \A i \in 1..trail[goal].hops : <<back[i], back[i - 1]>> \in Calls
<1>1. PICK h : h = trail[goal].hops
  OBVIOUS
<1>2. /\ h \in Nat /\ goal \in Nodes /\ found \subseteq Nodes /\ trail[root].hops = 0
      /\ \A n \in Nodes : trail[n].from \in Nodes /\ trail[n].hops \in Nat
      /\ \A n \in found \ {root} :
           /\ trail[n].from \in found /\ <<trail[n].from, n>> \in Calls
           /\ trail[n].hops = trail[trail[n].from].hops + 1
  BY <1>1 DEF WalkInv, Question, Answer, Trails, TrailLeadsBack, PathInv
<1> DEFINE F == [n \in Nodes |-> trail[n].from]
           Is(f) == f = [i \in Nat |-> IF i = 0 THEN goal ELSE trail[f[i - 1]].from]
           b == CHOOSE f : Is(f)
<1>3. PICK g \in [Nat -> Nodes] : g = [i \in Nat |-> IF i = 0 THEN goal ELSE F[g[i - 1]]]
  <2>1. F \in [Nodes -> Nodes]
    BY <1>2
  <2>2. goal \in Nodes
    BY <1>2
  <2> HIDE DEF F
  <2>3. QED
    BY <2>1, <2>2, Iteration
<1>4. ASSUME NEW i \in Nat PROVE g[i] = IF i = 0 THEN goal ELSE trail[g[i - 1]].from
  <2>1. g[i] = IF i = 0 THEN goal ELSE F[g[i - 1]]
    BY <1>3
  <2>2. i # 0 => g[i - 1] \in Nodes
    <3>1. i # 0 => i - 1 \in Nat
      OBVIOUS
    <3>2. QED
      BY ONLY <3>1, g \in [Nat -> Nodes]
  <2>3. QED
    BY <2>1, <2>2
<1>5. Is(g)
  BY <1>3, <1>4
<1>6. Is(b)
  BY <1>5, Zenon
<1> HIDE DEF b
<1>7. b[0] = goal /\ \A i \in Nat : b[i + 1] = trail[b[i]].from
  BY <1>6
<1> DEFINE T == {i \in Nat : i <= h => b[i] \in found /\ trail[b[i]].hops = h - i}
<1>8. 0 \in T
  BY <1>1, <1>2, <1>7
<1>9. ASSUME NEW i \in Nat, i \in T PROVE i + 1 \in T
  <2> SUFFICES ASSUME i + 1 <= h PROVE b[i + 1] \in found /\ trail[b[i + 1]].hops = h - (i + 1)
    OBVIOUS
  <2>1. b[i] \in found /\ trail[b[i]].hops = h - i /\ h - i > 0
    BY <1>2, <1>9
  <2>2. b[i] \in found \ {root}
    BY <1>2, <2>1
  <2>3. b[i + 1] \in found /\ trail[b[i]].hops = trail[b[i + 1]].hops + 1 /\ trail[b[i + 1]].hops \in Nat
    BY <1>2, <1>7, <2>2
  <2>4. QED
    BY <1>2, <2>1, <2>3
<1>10. \A i \in Nat : i <= h => b[i] \in found /\ trail[b[i]].hops = h - i
  <2> HIDE DEF T
  <2>1. Nat \subseteq T
    BY <1>8, <1>9, Induction
  <2>2. QED
    BY <2>1 DEF T
<1>11. b[h] = root
  <2>1. b[h] \in found /\ trail[b[h]].hops = 0
    BY <1>2, <1>10
  <2>2. b[h] \notin found \ {root}
    <3> SUFFICES ASSUME b[h] \in found \ {root} PROVE FALSE
      OBVIOUS
    <3>1. trail[b[h]].hops = trail[trail[b[h]].from].hops + 1 /\ trail[b[h]].from \in Nodes
      BY <1>2
    <3>2. trail[trail[b[h]].from].hops \in Nat
      BY <1>2, <3>1
    <3>3. QED
      BY <2>1, <3>1, <3>2
  <2>3. QED
    BY <2>1, <2>2
<1>12. ASSUME NEW i \in 1..h PROVE <<b[i], b[i - 1]>> \in Calls
  <2>1. i - 1 \in Nat /\ (i - 1) + 1 = i /\ i - 1 <= h /\ h - (i - 1) > 0
    BY <1>2
  <2>2. b[i - 1] \in found /\ trail[b[i - 1]].hops = h - (i - 1)
    BY <1>10, <2>1
  <2>3. b[i - 1] \in found \ {root}
    BY <1>2, <2>1, <2>2
  <2>4. b[i] = trail[b[i - 1]].from
    BY <1>7, <2>1
  <2>5. QED
    BY <1>2, <2>3, <2>4
<1>13. QED
  BY <1>1, <1>11, <1>12 DEF b

(* The answer of a finished path search. *)
LEMMA PathAnswers == ASSUME WalkInv, PathInv PROVE PathIsTrue
<1> SUFFICES ASSUME op = "path", phase = "done" PROVE PathIsTrue
  BY DEF PathIsTrue
<1>1. /\ root \in found /\ found \subseteq Nodes /\ root \in Nodes
      /\ \A n \in Nodes : trail[n].hops \in Nat
  BY PathFacts
<1>2. ASSUME goal \in found, goal # root
      PROVE  goal \notin Reached({root}, Calls, trail[goal].hops - 1)
  <2>1. goal \in found \ {root}
    BY <1>2
  <2>2. trail[goal].from \in found /\ trail[goal].hops = trail[trail[goal].from].hops + 1
    BY <2>1 DEF WalkInv, TrailLeadsBack
  <2>3. trail[goal].hops \in Nat /\ trail[trail[goal].from].hops \in Nat
    BY <1>1, <1>2, <2>2
  <2>4. trail[goal].hops - 1 \in Nat /\ ~(trail[goal].hops <= trail[goal].hops - 1)
    BY <2>2, <2>3
  <2>5. \A k \in Nat : goal \in Within(k) => trail[goal].hops <= k
    BY <1>2 DEF PathInv
  <2>6. goal \notin Within(trail[goal].hops - 1)
    BY <2>4, <2>5
  <2>7. QED
    BY <2>6 DEF Within
<1>3. ASSUME goal \notin found, ~truncated PROVE goal \notin Reached({root}, Calls, Far)
  <2>1. pending = {} /\ queue = <<>>
    BY <1>3 DEF PathInv
  <2>2. Waiting = {}
    BY <2>1 DEF Waiting
  <2>3. \A e \in OfKind("calls") : e.from \in found => e.to \in found
    <3>1. (\A S : S \ pending = S) /\ (\A S : S \ Waiting = S)
      BY <2>1, <2>2
    <3>2. \A e \in OfKind("calls") \ pending : e.from \in found \ Waiting => e.to \in found
      BY <1>3 DEF PathInv
    <3>3. QED
      BY <3>1, <3>2
  <2>4. \A m \in found : \A n \in Nodes : <<m, n>> \in Calls => n \in found
    BY <2>3 DEF Calls, Along
  <2>5. {root} \in SUBSET Nodes /\ {root} \subseteq found
    BY <1>1
  <2>6. Reached({root}, Calls, Far) \subseteq found
    BY <2>4, <2>5, FarIsNat, ClosedHasAll
  <2>7. QED
    BY <1>3, <2>6
<1>4. QED
  BY <1>2, <1>3, WayBack DEF PathIsTrue

-----------------------------------------------------------------------------
(* The walks together. *)
AnswersInv ==
  WalkInv /\ ImpactInv /\ HierarchyInv /\ SubgraphInv /\ NeighbourInv /\ PathInv

LEMMA AnswersInit == Init => AnswersInv
  BY WalkInit, ImpactInit, HierarchyInit, SubgraphInit, NeighbourInit, PathInit DEF AnswersInv

(* A step is one of the walk the question asks for. *)
LEMMA OtherWalks ==
  ASSUME UNCHANGED question
  PROVE  /\ op # "impact" => ImpactInv'
         /\ op # "hierarchy" => HierarchyInv'
         /\ op # "subgraph" => SubgraphInv'
         /\ op # "neighbourhood" => NeighbourInv'
         /\ op # "path" => PathInv'
  BY DEF question, ImpactInv, HierarchyInv, SubgraphInv, NeighbourInv, PathInv

LEMMA AnswersStutter == ASSUME AnswersInv, UNCHANGED vars PROVE AnswersInv'
<1>1. UNCHANGED <<question, op, graph, root, goal, limit, phase, found, links, visited, stack, queue,
                  next, here, pending, trail, inspected, truncated>>
  BY DEF vars, question
<1>2. /\ \A k : Affected(k)' = Affected(k)
      /\ Inherited(root)' = Inherited(root) /\ Inheriting(root)' = Inheriting(root)
      /\ Wanted' = Wanted /\ Joined' = Joined /\ Calls' = Calls /\ \A k : OfKind(k)' = OfKind(k)
      /\ \A n : Adjacent(n)' = Adjacent(n)
      /\ MaxDepth' = MaxDepth /\ MaxNodes' = MaxNodes /\ (Excused' <=> Excused)
  BY <1>1, AffectedStands, LineageStands, RelationsStand, CrowdStands DEF Excused
<1>3. Frames' = Frames /\ Unread(stack)' = Unread(stack)
  BY <1>1 DEF Frames, Outgoing, Incoming, Unread
<1>4. ImpactInv'
  <2>1. AffectedFrames' = AffectedFrames
    BY <1>1, <1>2, <1>3 DEF AffectedFrames
  <2>2. Affected(limit.depth)' = Affected(limit.depth)
    BY <1>1, <1>2
  <2>3. QED
    BY <1>1, <1>3, <2>1, <2>2 DEF AnswersInv, ImpactInv
<1>5. HierarchyInv'
  <2>1. Lineage' = Lineage
    BY <1>1, <1>2 DEF Lineage
  <2>2. LineageFrames' = LineageFrames
    BY <1>1, <1>3, <2>1 DEF LineageFrames
  <2>3. QED
    BY <1>1, <1>2, <1>3, <2>1, <2>2 DEF AnswersInv, HierarchyInv
<1>6. SubgraphInv'
  <2>1. \A k : Distant(k)' = Distant(k) /\ Queued(k)' = Queued(k)
    BY <1>1, <1>2 DEF Distant, Queued
  <2>2. /\ Distant(here.depth)' = Distant(here.depth) /\ Queued(here.depth)' = Queued(here.depth)
        /\ Distant(MaxDepth)' = Distant(MaxDepth) /\ Queued(MaxDepth)' = Queued(MaxDepth)
        /\ \A i : Distant(queue[i].depth)' = Distant(queue[i].depth)
    BY <1>1, <1>2 DEF Distant, Queued
  <2>3. Adjacent(here.node)' = Adjacent(here.node) /\ \A e, m : OtherEnd(e, m)' = OtherEnd(e, m)
    BY <1>1, <1>2 DEF OtherEnd
  <2>4. QED
    BY <1>1, <1>2, <2>2, <2>3 DEF AnswersInv, SubgraphInv
<1>7. NeighbourInv'
  <2>1. /\ Near(here.depth)' = Near(here.depth) /\ Near(here.depth + 1)' = Near(here.depth + 1)
        /\ Near(limit.depth)' = Near(limit.depth) /\ Near(limit.depth - 1)' = Near(limit.depth - 1)
        /\ Adjacent(here.node)' = Adjacent(here.node)
    BY <1>1, <1>2 DEF Near
  <2>2. QED
    BY <1>1, <1>2, <2>1 DEF AnswersInv, NeighbourInv
<1>8. PathInv'
  <2>1. /\ \A k : Within(k)' = Within(k) /\ Within(here.depth)' = Within(here.depth)
        /\ \A n : Within(trail[n].hops)' = Within(trail[n].hops)
        /\ Waiting' = Waiting /\ (Spent' <=> Spent) /\ OfKind("calls")' = OfKind("calls")
    BY <1>1, <1>2 DEF Within, Waiting, Spent
  <2>2. QED
    BY <1>1, <2>1 DEF AnswersInv, PathInv
<1>9. QED
  BY <1>4, <1>5, <1>6, <1>7, <1>8, WalkStutters DEF AnswersInv

(* The invariants of all walks hold together. *)
LEMMA AnswersInvariant == Spec => []AnswersInv
<1>1. ASSUME AnswersInv, [Next]_vars PROVE AnswersInv'
  <2>1. WalkInv /\ ImpactInv /\ HierarchyInv /\ SubgraphInv /\ NeighbourInv /\ PathInv
    BY <1>1 DEF AnswersInv
  <2>2. WalkInv'
    BY <1>1, <2>1, WalkStep
  <2>3. ASSUME NEW e \in graph, ImpactChild(e) \/ ImpactDependent(e) PROVE AnswersInv'
    <3>1. op = "impact" /\ UNCHANGED question /\ ImpactInv'
      BY <2>1, <2>3, ImpactSteps DEF ImpactChild, ImpactDependent
    <3>2. QED
      BY <2>2, <3>1, OtherWalks DEF AnswersInv
  <2>4. ASSUME NEW e \in graph, HierarchyEdge(e) PROVE AnswersInv'
    <3>1. op = "hierarchy" /\ UNCHANGED question /\ HierarchyInv'
      BY <2>1, <2>4, HierarchySteps DEF HierarchyEdge
    <3>2. QED
      BY <2>2, <3>1, OtherWalks DEF AnswersInv
  <2>5. ASSUME NEW e \in graph, SubgraphEdge(e) PROVE AnswersInv'
    <3>1. op = "subgraph" /\ UNCHANGED question /\ SubgraphInv'
      BY <2>1, <2>5, SubgraphEdges DEF SubgraphEdge
    <3>2. QED
      BY <2>2, <3>1, OtherWalks DEF AnswersInv
  <2>6. ASSUME NEW e \in graph, NeighbourEdge(e) PROVE AnswersInv'
    <3>1. op = "neighbourhood" /\ UNCHANGED question /\ NeighbourInv'
      BY <2>1, <2>6, NeighbourEdges DEF NeighbourEdge
    <3>2. QED
      BY <2>2, <3>1, OtherWalks DEF AnswersInv
  <2>7. ASSUME NEW e \in graph, PathEdge(e) PROVE AnswersInv'
    <3>1. op = "path" /\ UNCHANGED question /\ PathInv'
      BY <2>1, <2>7, PathEdges DEF PathEdge
    <3>2. QED
      BY <2>2, <3>1, OtherWalks DEF AnswersInv
  <2>8. ASSUME Return PROVE AnswersInv'
    <3>1. op \in {"impact", "hierarchy"} /\ UNCHANGED question
      BY <2>1, <2>8 DEF Return, WalkInv, Recursion
    <3>2. (op = "impact" => ImpactInv') /\ (op = "hierarchy" => HierarchyInv')
      BY <2>1, <2>8, ImpactReturns, HierarchyReturns
    <3>3. QED
      BY <2>2, <3>1, <3>2, OtherWalks DEF AnswersInv
  <2>9. ASSUME SubgraphVisit \/ SubgraphEnd PROVE AnswersInv'
    <3>1. op = "subgraph" /\ UNCHANGED question /\ SubgraphInv'
      BY <2>1, <2>9, SubgraphVisits, SubgraphEnds DEF SubgraphVisit, SubgraphEnd
    <3>2. QED
      BY <2>2, <3>1, OtherWalks DEF AnswersInv
  <2>10. ASSUME (\E n \in Nodes : ExpandFrontier(n)) \/ NextLevel PROVE AnswersInv'
    <3>1. op = "neighbourhood" /\ UNCHANGED question
      BY <2>10 DEF ExpandFrontier, NextLevel
    <3>2. NeighbourInv'
      BY <2>1, <2>10, FrontierExpands, LevelEnds
    <3>3. QED
      BY <2>2, <3>1, <3>2, OtherWalks DEF AnswersInv
  <2>11. ASSUME PathExpand \/ PathEnd PROVE AnswersInv'
    <3>1. op = "path" /\ UNCHANGED question
      BY <2>11 DEF PathExpand, PathEnd
    <3>2. PathInv'
      BY <2>1, <2>11, PathExpands, PathEnds
    <3>3. QED
      BY <2>2, <3>1, <3>2, OtherWalks DEF AnswersInv
  <2>12. QED
    BY <1>1, <2>3, <2>4, <2>5, <2>6, <2>7, <2>8, <2>9, <2>10, <2>11, AnswersStutter DEF Next
<1>2. QED
  BY <1>1, AnswersInit, PTL DEF Spec

-----------------------------------------------------------------------------
(* LimitsHold for every graph and every limit: what a neighbourhood
   (browserapi/graph.go) or a path search (internal/cli/path.go) keeps and
   reads stays within what the caller allowed. *)
THEOREM LimitsAreKept == Spec => []LimitsHold
<1>1. WalkInv => LimitsHold
  BY DEF WalkInv
<1>2. QED
  BY <1>1, WalkInvariant, PTL

(* The first half of AnswerIsSound, for every graph: no walk, wherever it is
   stopped by a limit, returns an edge without the symbols it joins. *)
THEOREM EdgesKeepTheirEnds == Spec => []EdgesHaveEnds
<1>1. WalkInv => EdgesHaveEnds
  BY DEF WalkInv, Answer
<1>2. QED
  BY <1>1, WalkInvariant, PTL

(* What PathIsTrue follows from the goal to the root: every symbol a path
   search (findCallPathWithLimits) has reached was reached by a call from a
   symbol one hop nearer to the root, and within the hop limit. *)
THEOREM TrailIsMadeOfCalls == Spec => []TrailLeadsBack
<1>1. WalkInv => TrailLeadsBack
  BY DEF WalkInv
<1>2. QED
  BY <1>1, WalkInvariant, PTL

(* AnswerIsSound for every graph, question and limit: whatever the cycles of
   the graph, an answer (mcp/backend.go, browserapi/graph.go,
   internal/cli/path.go) has no symbol that is not related to the root in the
   way and within the distance asked for, and no edge without its ends. *)
THEOREM AnswersAreSound == Spec => []AnswerIsSound
<1>1. ASSUME AnswersInv PROVE AnswerIsSound
  <2>1. WalkInv /\ ImpactInv /\ HierarchyInv /\ SubgraphInv /\ NeighbourInv /\ PathInv
    BY <1>1 DEF AnswersInv
  <2>2. /\ \A e \in links : {e.from, e.to} \subseteq found
        /\ root \in Nodes /\ limit.depth \in Nat
    BY <2>1 DEF WalkInv, Answer, EdgesHaveEnds, Question, Limit
  <2>3. op = "impact" => found \subseteq Affected(limit.depth)
    BY <2>1 DEF ImpactInv
  <2>4. op = "hierarchy" => found \subseteq Inherited(root) \cup Inheriting(root)
    BY <2>1 DEF HierarchyInv, Lineage
  <2>5. op = "subgraph" => found \subseteq Reached({root}, Wanted, MaxDepth)
    BY <2>1 DEF SubgraphInv, Distant
  <2>6. ASSUME op = "neighbourhood" PROVE found \subseteq Reached({root}, Joined, limit.depth)
    <3>1. found \subseteq Near(here.depth + 1) /\ here.depth \in Nat /\ here.depth < limit.depth
      BY <2>1, <2>6 DEF NeighbourInv
    <3>2. here.depth + 1 \in Nat /\ here.depth + 1 <= limit.depth
      BY <2>2, <3>1
    <3>3. Near(here.depth + 1) \subseteq Near(limit.depth)
      BY <2>2, <3>2, NearSteps
    <3>4. QED
      BY <3>1, <3>3 DEF Near
  <2>7. ASSUME op = "path", NEW n \in found PROVE n \in Reached({root}, Calls, limit.depth)
    <3>1. n \in Within(trail[n].hops) /\ n \in Nodes /\ trail[n].hops \in Nat
      BY <2>1, <2>7, PathFacts DEF PathInv
    <3>2. trail[n].hops <= limit.depth
      <4>1. CASE n = root
        BY <2>1, <2>2, <2>7, <4>1 DEF PathInv
      <4>2. CASE n # root
        BY <2>1, <2>7, <4>2 DEF WalkInv, TrailLeadsBack
      <4>3. QED
        BY <4>1, <4>2
    <3>3. Within(trail[n].hops) \subseteq Within(limit.depth)
      BY <2>2, <3>1, <3>2, WithinSteps
    <3>4. QED
      BY <3>1, <3>3 DEF Within
  <2>8. op \in {"impact", "hierarchy", "subgraph", "neighbourhood", "path"}
    BY <2>1 DEF WalkInv, Question
  <2>9. QED
    BY <2>2, <2>3, <2>4, <2>5, <2>6, <2>7, <2>8 DEF AnswerIsSound
<1>2. QED
  BY <1>1, AnswersInvariant, PTL

(* AnswerIsComplete for every graph, with edges told by several rows, and every
   question and limit: a finished walk has found all it was to find (of impact,
   at the least what the root contains and whatever refers to one of these); a
   limit that stopped a subgraph shows in the number of symbols, and one that
   stopped a neighbourhood is reported, unless a symbol on the way has more rows
   than its query returns and two of them tell the same. *)
THEOREM AnswersAreComplete == Spec => []AnswerIsComplete
<1>1. ASSUME AnswersInv PROVE AnswerIsComplete
  <2> SUFFICES ASSUME phase = "done" PROVE AnswerIsComplete
    BY DEF AnswerIsComplete
  <2>1. WalkInv /\ ImpactInv /\ HierarchyInv /\ SubgraphInv /\ NeighbourInv
    BY <1>1 DEF AnswersInv
  <2>2. op \in {"impact", "hierarchy", "subgraph", "neighbourhood", "path"}
    BY <2>1 DEF WalkInv, Question
  <2>3. op = "impact" => (limit.depth > 0 => Affected(0) \cup Dependents(Affected(0)) \subseteq found)
    BY <2>1, ImpactIsComplete
  <2>4. op = "hierarchy" => (Inherited(root) \cap Inheriting(root) = {root}
                               => found = Inherited(root) \cup Inheriting(root))
    BY <2>1, HierarchyIsComplete
  <2>5. op = "subgraph" => (Cardinality(found) < MaxNodes
                               => found = Reached({root}, Wanted, MaxDepth))
    BY <2>1, SubgraphIsComplete DEF Distant
  <2>6. op = "neighbourhood" =>
          (~truncated /\ (\A n \in Reached({root}, Joined, limit.depth - 1) : ~Crowded(n))
             => NothingLeftOut)
    BY <2>1, NeighbourIsComplete
  <2>7. CASE op = "impact"
    BY <2>3, <2>7 DEF AnswerIsComplete
  <2>8. CASE op = "hierarchy"
    BY <2>4, <2>8 DEF AnswerIsComplete
  <2>9. CASE op = "subgraph"
    BY <2>5, <2>9 DEF AnswerIsComplete
  <2>10. CASE op = "neighbourhood"
    BY <2>6, <2>10 DEF AnswerIsComplete
  <2>11. CASE op = "path"
    BY <2>11 DEF AnswerIsComplete
  <2>12. QED
    BY <2>2, <2>7, <2>8, <2>9, <2>10, <2>11
<1>2. QED
  BY <1>1, AnswersInvariant, PTL

(* PathIsTrue for every graph, question and limit: a call path found by
   findCallPathWithLimits is made of calls and is a shortest one, and when it
   reports that there is none, and not that the limits were too small, there
   is none. *)
THEOREM PathsAreTrue == Spec => []PathIsTrue
<1>1. AnswersInv => PathIsTrue
  BY PathAnswers DEF AnswersInv
<1>2. QED
  BY <1>1, AnswersInvariant, PTL
=============================================================================
