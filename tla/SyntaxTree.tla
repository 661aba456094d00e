----------------------------- MODULE SyntaxTree -----------------------------
(***************************************************************************)
(* The syntax trees that package internal/extract walks, and the steps its *)
(* walkers are made of.                                                    *)
(*                                                                         *)
(* A node has a kind, a text (the sequence of the names in it, empty where *)
(* the walkers do not read it), its place (the path to it from the root),  *)
(* the line it starts on, the field of its parent that holds it, and its   *)
(* named children; Nil stands for a nil pointer.  A walker's handler is    *)
(* the sequence of steps it takes on a node; the steps under a declaration *)
(* are those the handler takes only if the declaration has made a node.    *)
(*                                                                         *)
(* Left out of what is extracted: signatures, docstrings, visibility,      *)
(* modifiers, columns and ends.                                            *)
(***************************************************************************)
EXTENDS Naturals, SequencesExt

CONSTANT Height  \* a bound on the depth of a tree

Nil == [kind |-> "nil", text |-> <<>>, place |-> <<>>, line |-> 0, as |-> "", kids |-> <<>>]

(* What is taken of each of several nodes, in their order. *)
ForEach(ns, Steps(_)) == FlattenSeq([i \in DOMAIN ns |-> Steps(ns[i])])

If(condition, steps) == IF condition THEN steps ELSE <<>>

(* The nodes that pass a test. *)
Those(ns, Test(_)) == ForEach(ns, LAMBDA n : If(Test(n), <<n>>))

First(ns) == IF ns = <<>> THEN Nil ELSE Head(ns)

Rest(ns) == SubSeq(ns, 2, Len(ns))

(* ChildByFieldName *)
Field(n, f) ==
  IF \E i \in DOMAIN n.kids : n.kids[i].as = f
    THEN n.kids[CHOOSE i \in DOMAIN n.kids :
                  n.kids[i].as = f /\ \A j \in 1..(i - 1) : n.kids[j].as # f]
    ELSE Nil

Has(n, f) == Field(n, f) # Nil

(* The last segment of a qualified name. *)
LastName(n) == IF n.text = <<>> THEN <<>> ELSE <<Last(n.text)>>

KidsOf(n, kinds) == Those(n.kids, LAMBDA k : k.kind \in kinds)

(* The first child of a kind, as in the loops that end with a break. *)
Kid(n, kinds) == First(KidsOf(n, kinds))

(* tsparse.Walk: a node and everything below it, in the order of the text.  Round d
   puts the nodes that are d below n after their parents. *)
Walk(n) ==
  LET seen[d \in Nat] ==
        IF d = 0 THEN <<n>>
        ELSE ForEach(seen[d - 1], LAMBDA m : <<m>> \o If(Len(m.place) = Len(n.place) + d - 1, m.kids))
  IN seen[Height]

Within(n, kinds) == Those(Walk(n), LAMBDA k : k.kind \in kinds)

(* The nodes that are left when each is replaced by what is in it, again and again. *)
Unfold(n, Inner(_)) ==
  LET round[d \in Nat] == IF d = 0 THEN <<n>> ELSE ForEach(round[d - 1], Inner)
  IN round[Height]

(* The last of the nodes that lead from one to the next. *)
Follow(n, Next(_)) ==
  LET at[d \in Nat] == IF d = 0 THEN n ELSE Next(at[d - 1])
  IN at[Height]

(* The nodes of some kinds that are not below another of them. *)
Outermost(n, kinds) == Those(Unfold(n, LAMBDA m : IF m.kind \in kinds THEN <<m>> ELSE m.kids),
                             LAMBDA m : m.kind \in kinds)

(* The first node of a kind below a node. *)
Descendant(n, kind) == First(ForEach(n.kids, LAMBDA k : Within(k, {kind})))

-----------------------------------------------------------------------------
(* The extractor, as the walkers see it: w.stack, w.nodes and w.pending. *)

Top(w) == Last(w.stack)

AtFileScope(w) == Len(w.stack) = 1

HasNode(w, id) == \E i \in DOMAIN w.nodes : w.nodes[i].id = id

KindOf(w, id) == (CHOOSE n \in Range(w.nodes) : n.id = id).kind

IsInside(w, kinds) == KindOf(w, Top(w)) \in kinds

(* isInsideClassLike *)
IsInsideClassLike(w) == IsInside(w, {"class", "struct", "interface", "trait", "enum", "module"})

(* Mutant of Nearest: the outermost scope of the kind. *)
FirstOfKind(w, kinds) ==
  LET scopes == Those(w.stack, LAMBDA id : KindOf(w, id) \in kinds)
  IN IF scopes = <<>> THEN Top(w) ELSE Head(scopes)

(* The innermost scope of some kind around, or else the innermost at all. *)
Nearest(w, kinds) ==
  LET scopes == Those(w.stack, LAMBDA id : KindOf(w, id) \in kinds)
  IN IF scopes = <<>> THEN Top(w) ELSE Last(scopes)

(* buildQualifiedName, of a declaration in `parent`: the names of the scopes. *)
QualifiedName(w, parent, name) ==
  LET scopes == IF Contains(w.stack, parent)
                  THEN SubSeq(w.stack, 1, CHOOSE i \in DOMAIN w.stack : w.stack[i] = parent)
                  ELSE Append(w.stack, parent)
  IN FoldLeft(LAMBDA names, id : names \o id[2], <<>>, scopes) \o name

(* The first node of a kind and name that the file has so far. *)
IdOf(w, kinds, name) ==
  LET known == Those(w.nodes, LAMBDA n : n.kind \in kinds /\ n.name = name)
  IN IF known = <<>> THEN <<>> ELSE Head(known).id

-----------------------------------------------------------------------------
(* Identifiers of nodes of the file (model.NodeID). *)

FileId == <<"file", <<>>, 0>>

Id(kind, name, n) == <<kind, name, n.line>>

-----------------------------------------------------------------------------
(* Steps. *)

Visit(mode, n) == [do |-> "visit", mode |-> mode, node |-> n]

(* createNode while `parent` is on top of the stack, and what follows if it
   returns a node. *)
DeclareIn(parent, kind, name, n, then) ==
  [do |-> "declare", parent |-> parent, kind |-> kind, name |-> name, node |-> n, then |-> then]

Declare(w, kind, name, n, then) == DeclareIn(Top(w), kind, name, n, then)

(* A row for unresolvedRefs. *)
Refer(from, kind, name, n) ==
  [do |-> "refer", from |-> from, kind |-> kind, name |-> name, node |-> n]

Enter(id) == [do |-> "enter", id |-> id]

(* The steps with a declaration on the stack, that leaves it after them. *)
Inside(id, steps) == <<[do |-> "inside", id |-> id, steps |-> steps]>>

(* A contains edge of its own (addReceiverContains). *)
Contain(from, to) == [do |-> "contain", from |-> from, to |-> to]

(* dartPendingMember *)
Pend(id) == [do |-> "pend", id |-> id]

Reset == [do |-> "reset"]

Leave == [do |-> "leave"]

VisitEach(mode, ns) == [i \in DOMAIN ns |-> Visit(mode, ns[i])]

(* A declaration, what refers from it, and the steps with it on the stack. *)
Scope(w, kind, name, n, refs, inside) ==
  <<Declare(w, kind, name, n, refs \o Inside(Id(kind, name, n), inside))>>

(* addReceiverContains: the type of that name that the file has so far holds it. *)
ContainIn(w, type, id) ==
  LET owner == IdOf(w, {"struct", "class", "enum", "trait"}, type)
  IN If(owner # <<>>, <<Contain(owner, id)>>)

(* A reference whose name the walker has found, or none. *)
ReferIf(from, kind, name, n) == If(name # <<>>, <<Refer(from, kind, name, n)>>)
=============================================================================
