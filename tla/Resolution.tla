----------------------------- MODULE Resolution -----------------------------
(***************************************************************************)
(* The resolution of references as a sequence of transactions: the edges   *)
(* found by name, the implements edges of Go, the calls those imply, and   *)
(* the removal of the references.  A process that ends in between leaves   *)
(* the references, and what was inserted, to the next sync.                *)
(*                                                                         *)
(* What a sync does before it resolves is one step here (IndexSync has its *)
(* own): one file is extracted again, and the edges into it are put back.  *)
(***************************************************************************)
EXTENDS ResolutionRules

CONSTANTS
  Files,        \* the files of the project
  Order,        \* the same as a sequence: a first index extracts them like this
  Project,      \* Project[p][f]: what file f of project p may contain
  Lang,         \* Lang[p]: the language of a project
  MaxSyncs,     \* bound: syncs after the first index
  MaxFaults     \* bound: resolutions that do not come to their end

VARIABLES
  project,     \* the project indexed
  content,     \* content[f]: what f contained when it was extracted
  unresolved,  \* the rows of unresolved_refs
  pc,          \* the transaction that comes next, "idle" between syncs
  whole,       \* the last resolution came to its end
  syncs, faults

vars == <<nodes, edges, project, content, unresolved, pc, whole, syncs, faults>>

ASSUME BoundsAssumption == MaxSyncs \in Nat /\ MaxFaults \in Nat

Symbols ==
  [line : Nat, kind : STRING, name : Seq(STRING), qual : Seq(STRING), sig : Seq(STRING), owner : Nat]

References == [from : Nat, kind : STRING, name : Seq(STRING), sep : STRING]

(* What contains a symbol, and where a reference is made, are symbols of the file. *)
ASSUME ProjectAssumption ==
  /\ Order \in Seq(Files) /\ Range(Order) = Files
  /\ \A i, j \in DOMAIN Order : Order[i] = Order[j] => i = j
  /\ \A p \in DOMAIN Project, f \in Files : \A c \in Project[p][f] :
       /\ c.symbols \in Seq(Symbols) /\ c.refs \in Seq(References)
       /\ \A i \in DOMAIN c.symbols : c.symbols[i].owner \in 0 .. Len(c.symbols)
       /\ \A i \in DOMAIN c.refs :
            /\ c.refs[i].from \in DOMAIN c.symbols /\ c.refs[i].name # <<>>
            /\ c.refs[i].kind \notin {"contains", "heuristic"}

-----------------------------------------------------------------------------
(* What extraction stores. *)

(* model.NodeID *)
Id(f, s) == <<f, s.kind, s.name, s.line>>

(* The last rowid of a table: SQLite numbers a new row after it. *)
LastRow(rows) ==
  IF rows = {} THEN 0 ELSE CHOOSE i \in {x.row : x \in rows} : \A x \in rows : x.row <= i

NodeOf(f, s, row) ==
  [id |-> Id(f, s), row |-> row, line |-> s.line, file |-> f, lang |-> Lang[project],
   kind |-> s.kind, name |-> s.name, qual |-> s.qual, sig |-> s.sig]

(* INSERT OR REPLACE: of two symbols of one id (routes of a line) the last stays. *)
NodesOf(f, c, row) ==
  LET stays(i) == \A j \in DOMAIN c.symbols : Id(f, c.symbols[j]) = Id(f, c.symbols[i]) => j <= i
  IN {NodeOf(f, c.symbols[i], row + i) : i \in {i \in DOMAIN c.symbols : stays(i)}}

(* What stands for the reference in an edge that comes from none. *)
Synthetic(kind, row) == [row |-> row, kind |-> kind, line |-> 0]

ContainsOf(f, c, row) ==
  {Edge(Id(f, c.symbols[c.symbols[i].owner]), Id(f, c.symbols[i]), "contains",
        Synthetic("contains", row + i)) : i \in {i \in DOMAIN c.symbols : c.symbols[i].owner # 0}}

RefsOf(f, c, row) ==
  {[row |-> row + i, from |-> Id(f, c.symbols[c.refs[i].from]), file |-> f, lang |-> Lang[project],
    line |-> i, kind |-> c.refs[i].kind, name |-> c.refs[i].name, sep |-> c.refs[i].sep]
     : i \in DOMAIN c.refs}

-----------------------------------------------------------------------------
(* A sync extracts a file again. *)

SameSymbol(n, m) == n.kind = m.kind /\ n.name = m.name /\ n.qual = m.qual /\ n.sig = m.sig

(* restoreIncomingEdges: to the first node of the file that is the same symbol. *)
Restored(incoming, old, new, row) ==
  LET target(e) == CHOOSE n \in old : n.id = e.target
      same(e)   == Earliest({n \in new : SameSymbol(n, target(e))})
  IN {[e EXCEPT !.row = row + @, !.target = (CHOOSE n \in same(e) : TRUE).id]
        : e \in {e \in incoming : same(e) # {}}}

(* DeleteFile cascades to the edges at its nodes; the edges into it come back. *)
Sync(f, c) ==
  /\ pc = "idle" /\ syncs < MaxSyncs
  /\ c # content[f]
  /\ LET old  == {n \in nodes : n.file = f}
         ids  == {n.id : n \in old}
         rest == {e \in edges : e.source \notin ids /\ e.target \notin ids}
         incoming == {e \in edges : e.source \notin ids /\ e.target \in ids}
         new  == NodesOf(f, c, LastRow(nodes))
         last == LastRow(edges)
     IN /\ nodes' = (nodes \ old) \cup new
        /\ edges' = rest \cup ContainsOf(f, c, last)
                         \cup Restored(incoming, old, new, last + Len(c.symbols))
  /\ unresolved' = {r \in unresolved : r.file # f} \cup RefsOf(f, c, LastRow(unresolved))
  /\ content' = [content EXCEPT ![f] = c]
  /\ syncs' = syncs + 1
  /\ pc' = "references"
  /\ UNCHANGED <<project, whole, faults>>

-----------------------------------------------------------------------------
(* Resolve. *)

Goes(from, to) ==
  /\ pc = from /\ pc' = to
  /\ UNCHANGED <<nodes, project, content, syncs, faults>>

(* InsertEdges: ends that are not there are skipped, equal rows are not.  Those
   of one call keep their order, where it matters to anyone. *)
Insert(new) ==
  LET ids == {n.id : n \in nodes}
  IN edges' = edges \cup {[e EXCEPT !.row = LastRow(edges) + @]
                            : e \in {e \in new : e.source \in ids /\ e.target \in ids}}

InsertResolved ==
  /\ Goes("references", "implements")
  /\ Insert(UNION {ResolveRef(r) : r \in unresolved})
  /\ UNCHANGED <<unresolved, whole>>

GoNodes(kind) == {n \in nodes : n.lang = "go" /\ n.kind = kind}

(* goMethodNameSet, with the nodes. *)
Methods(n) ==
  {m \in nodes : /\ m.kind = "method"
                 /\ \E e \in edges : e.kind = "contains" /\ e.source = n.id /\ e.target = m.id}

MethodNames(n) == {m.name : m \in Methods(n)}

(* Mutant of Satisfies: the struct may have no other methods. *)
SatisfiesExactly(s, i) == MethodNames(i) # {} /\ MethodNames(i) = MethodNames(s)

(* An interface without methods would be satisfied by everything. *)
Satisfies(s, i) == MethodNames(i) # {} /\ MethodNames(i) \subseteq MethodNames(s)

ImplementsEdges ==
  {Edge(p[1].id, p[2].id, "implements", Synthetic("heuristic", 1))
     : p \in {p \in GoNodes("struct") \X GoNodes("interface") : Satisfies(p[1], p[2])}}

(* synthesizeGoImplementsEdges *)
InsertImplements ==
  /\ Goes("implements", "overrides")
  /\ Insert(ImplementsEdges)
  /\ UNCHANGED <<unresolved, whole>>

Implementing ==
  {p \in GoNodes("struct") \X {n \in nodes : n.lang = "go"} :
     \E e \in edges : e.kind = "implements" /\ e.source = p[1].id /\ e.target = p[2].id}

OverrideEdges ==
  UNION {{Edge(m[1].id, m[2].id, "calls", Synthetic("heuristic", 1))
            : m \in {m \in Methods(p[2]) \X Methods(p[1]) : m[1].name = m[2].name /\ m[1].id # m[2].id}}
           : p \in Implementing}

(* synthesizeGoInterfaceOverrideEdges *)
InsertOverrides ==
  /\ Goes("overrides", "clear")
  /\ Insert(OverrideEdges)
  /\ UNCHANGED <<unresolved, whole>>

ClearUnresolved ==
  /\ Goes("clear", "idle")
  /\ unresolved' = {}
  /\ whole' = TRUE
  /\ UNCHANGED edges

(* An error, or the end of the process, between two transactions. *)
Fails ==
  /\ pc # "idle" /\ faults < MaxFaults
  /\ faults' = faults + 1
  /\ pc' = "idle"
  /\ whole' = FALSE
  /\ UNCHANGED <<nodes, edges, project, content, unresolved, syncs>>

-----------------------------------------------------------------------------
(* A first index has extracted every file, one after the other. *)
Init ==
  /\ project \in DOMAIN Project
  /\ content \in {c \in [Files -> UNION {Project[project][f] : f \in Files}] :
                    \A f \in Files : c[f] \in Project[project][f]}
  /\ nodes = UNION {NodesOf(Order[i], content[Order[i]], 100 * i) : i \in DOMAIN Order}
  /\ edges = UNION {ContainsOf(Order[i], content[Order[i]], 100 * i) : i \in DOMAIN Order}
  /\ unresolved = UNION {RefsOf(Order[i], content[Order[i]], 100 * i) : i \in DOMAIN Order}
  /\ pc = "references"
  /\ whole = FALSE
  /\ syncs = 0 /\ faults = 0

Next ==
  \/ \E f \in Files : \E c \in Project[project][f] : Sync(f, c)
  \/ InsertResolved \/ InsertImplements \/ InsertOverrides \/ ClearUnresolved
  \/ Fails

Spec == Init /\ [][Next]_vars

-----------------------------------------------------------------------------
(* Properties. *)

Node(id) == CHOOSE n \in nodes : n.id = id

Found(e) == e.kind # "contains" /\ e.ref.kind \notin {"contains", "heuristic"}

OnVariable(r) ==
  r.lang \in {"python", "ruby", "perl", "php"} /\ DottedCall(r) /\ r.name[1] \notin Capitals

(* The class of a method, as the rules of a language tell it from the name. *)
ClassOf(n) == IF n.lang = "python" THEN n.qual[1] ELSE Owner(n)

(* resolve.go:259, 626, 1040, 1690: the method called on a variable is that of
   the class the variable is constructed from, wherever a method of its name is
   nearer, and the edges that later syncs put back keep to it; without a class it
   is only taken if there is no other callable of that name. *)
ReceiversAreNotGuessed ==
  /\ \A e \in edges : Found(e) =>
       LET class == InferType(e.ref, e.ref.name[1])
       IN OnVariable(e.ref) /\ class # {} => ClassOf(Node(e.target)) \in class
  /\ pc = "references" =>
       \A r \in unresolved : OnVariable(r) /\ InferType(r, r.name[1]) = {} =>
         \A e \in ResolveRef(r) : OfKind(r, Tail(r.name), Callable) = {Node(e.target)}

(* resolve_jvm.go:232: where a file declares no package, what it imports wholly
   comes before what it has itself. *)
ShadowedByImports(r) ==
  /\ r.lang \in {"java", "kotlin", "scala"} /\ Package(r, r.file) = <<>>
  /\ \E n \in Spoken(r, r.name) : Package(r, n.file) \in Wildcard(r)

(* resolve.go:4778: a function that is called by its bare name is the one of the
   file itself, if the file has one and nothing else has that name, in every
   language; but see above. *)
OwnFileComesFirst ==
  pc = "references" =>
    \A r \in unresolved :
      LET own == {n \in Spoken(r, r.name) : n.file = r.file /\ n.kind = "function"}
      IN /\ r.kind = "calls" /\ Len(r.name) = 1 /\ r.sep = "." /\ own # {}
         /\ \A n \in Named(r.name) : n.kind = "function"
         /\ ~ShadowedByImports(r)
         => \A e \in ResolveRef(r) : Node(e.target) \in own

(* resolve.go:5007, 5093: once a resolution has ended, whoever has called an
   interface reaches what implements it, whatever was indexed when, and however
   many resolutions have failed before. *)
HeuristicsAreComplete ==
  pc = "idle" /\ whole =>
    \A s \in GoNodes("struct"), i \in GoNodes("interface") :
      MethodNames(i) # {} /\ MethodNames(i) \subseteq MethodNames(s) =>
        /\ \E e \in edges : e.kind = "implements" /\ e.source = s.id /\ e.target = i.id
        /\ \A m \in Methods(i), k \in Methods(s) : m.name = k.name /\ m # k =>
             \E e \in edges : e.kind = "calls" /\ e.source = m.id /\ e.target = k.id

(* docs/superpowers/specs/2026-06-14-python-extraction-design.md:82: extends goes
   from a class to its base class.  Violated: the generic rule takes the nearest
   node of the name, and where the base is imported that is the import itself. *)
ExtendsReachesTheBase ==
  \A e \in edges :
    e.kind = "extends" /\ e.ref.lang = "python" => Node(e.target).kind = "class"

(* resolve.go:5005: a struct implements an interface when its method names cover
   those of the interface.  Violated: an edge put back by a sync of the
   interface's file stays when the interface has got another method. *)
ImplementsIsStructural ==
  pc = "idle" /\ whole =>
    \A e \in edges : e.kind = "implements" /\ e.ref.kind = "heuristic" =>
      Satisfies(Node(e.source), Node(e.target))

(* resolve.go:3739: a member is looked up on the class and its bases, walking them
   by name.  Violated: the walk reads stored edges, and those of the same resolution
   are inserted after it; what a first index misses, a later sync finds. *)
InheritedMembersAreFound ==
  pc = "idle" /\ whole =>
    \A f \in Files : \A r \in RefsOf(f, content[f], 0) :
      /\ r.lang = "cpp" /\ r.kind = "overrides" /\ Scoped(r)
      /\ FindMember(r, Last(Front(r.name)), Last(r.name)) # {}
      => \E e \in edges : e.kind = "overrides" /\ e.source = r.from

(* store/edges.go:14: duplicates are dropped.  Violated: the table has no key to
   tell them by, and every resolution inserts the edges of Go once more. *)
DuplicatesAreDropped ==
  \A d, e \in edges : e = [d EXCEPT !.row = e.row] => d = e
=============================================================================
