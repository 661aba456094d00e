----------------------------- MODULE Extraction -----------------------------
(***************************************************************************)
(* The extractor of one file (internal/extract/extract.go): it walks the   *)
(* syntax tree with a stack of the declarations it is inside of, and makes *)
(* nodes, contains edges and the references that resolution will look at.  *)
(* What a language's walker does at a kind of syntax node is in the module *)
(* of its walker; here it is done, one step after the other.               *)
(***************************************************************************)
EXTENDS ScriptWalkers, SystemWalkers, ObjectWalkers, FunctionalWalkers

CONSTANTS
  Programs    \* the files: records with their language and the root of their tree

Languages ==
  {"python", "lua", "bash", "ruby", "perl", "r", "julia", "powershell", "sql", "c", "cpp", "objc", "rust", "go", "php",
   "typescript", "java", "csharp", "kotlin", "swift", "dart", "scala", "elixir", "erlang", "haskell", "fsharp"}

(* The tree of a file is all that a walk from its root comes by. *)
ASSUME ProgramsAssumption ==
  /\ Height \in Nat
  /\ \A p \in Programs : LET below == Range(Walk(p.root))
                         IN /\ p.lang \in Languages /\ p.root \in below
                            /\ \A n \in below : n.kids \in Seq(below)

VARIABLES
  program,  \* the file
  nodes,    \* its nodes, in the order of their creation
  edges,    \* its contains edges
  refs,     \* its references
  stack,    \* nodeStack
  pending,  \* dartPendingMember
  todo      \* the steps that the handlers under way have still to take

vars == <<program, nodes, edges, refs, stack, pending, todo>>

Walker == [stack |-> stack, nodes |-> nodes, pending |-> pending]

(* walkScript and the walk... of each language: at the root of the file, and at
   every node that a handler visits. *)
Handler(mode, n) ==
  CASE program.lang = "erlang"     -> Erlang(Walker, mode, n)
    [] program.lang = "haskell"    -> Haskell(Walker, mode, n)
    [] program.lang \notin {"erlang", "haskell"} /\ mode = "file" -> VisitEach("root", n.kids)
    [] program.lang \notin {"erlang", "haskell"} /\ mode # "file" ->
         CASE program.lang = "python"     -> Python(Walker, n)
           [] program.lang = "lua"        -> Lua(Walker, n)
           [] program.lang = "bash"       -> Bash(Walker, n)
           [] program.lang = "ruby"       -> Ruby(Walker, n)
           [] program.lang = "perl"       -> Perl(Walker, mode, n)
           [] program.lang = "r"          -> R(Walker, n)
           [] program.lang = "julia"      -> Julia(Walker, n)
           [] program.lang = "powershell" -> PowerShell(Walker, n)
           [] program.lang = "sql"        -> Sql(Walker, n)
           [] program.lang = "c"          -> C(Walker, n)
           [] program.lang = "cpp"        -> Cpp(Walker, n)
           [] program.lang = "objc"       -> ObjC(Walker, n)
           [] program.lang = "rust"       -> Rust(Walker, n)
           [] program.lang = "go"         -> Go(Walker, mode, n)
           [] program.lang = "php"        -> Php(Walker, n)
           [] program.lang = "typescript" -> TypeScript(Walker, n)
           [] program.lang = "java"       -> Java(Walker, n)
           [] program.lang = "csharp"     -> CSharp(Walker, n)
           [] program.lang = "kotlin"     -> Kotlin(Walker, n)
           [] program.lang = "swift"      -> Swift(Walker, mode, n)
           [] program.lang = "dart"       -> Dart(Walker, mode, n)
           [] program.lang = "scala"      -> Scala(Walker, n)
           [] program.lang = "elixir"     -> Elixir(Walker, n)
           [] program.lang = "fsharp"     -> FSharp(Walker, mode, n)

FileNode == [id |-> FileId, kind |-> "file", name |-> <<>>, node |-> program.root, qual |-> <<>>]

Step == Head(todo)

Does(what) == todo # <<>> /\ Step.do = what /\ UNCHANGED program

Known(id) == \E i \in DOMAIN nodes : nodes[i].id = id

Fresh == Step.name # <<>> /\ ~Known(Id(Step.kind, Step.name, Step.node))

VisitNode ==
  /\ Does("visit")
  /\ todo' = Handler(Step.mode, Step.node) \o Tail(todo)
  /\ UNCHANGED <<nodes, edges, refs, stack, pending>>

(* createNode *)
CreateNode ==
  /\ Does("declare") /\ Fresh
  /\ LET id == Id(Step.kind, Step.name, Step.node)
     IN /\ nodes' = Append(nodes, [id |-> id, kind |-> Step.kind, name |-> Step.name, node |-> Step.node,
                                   qual |-> QualifiedName(Walker, Step.parent, Step.name)])
        /\ edges' = Append(edges, [from |-> Step.parent, to |-> id])
  /\ todo' = Step.then \o Tail(todo)
  /\ UNCHANGED <<refs, stack, pending>>

(* Mutant of CreateNothing: the handler goes on without the node. *)
CarryOn ==
  /\ Does("declare") /\ ~Fresh
  /\ todo' = Step.then \o Tail(todo)
  /\ UNCHANGED <<nodes, edges, refs, stack, pending>>

(* createNode returns nil: no name, or the second declaration of a kind and
   name on one line.  What follows it in the handler does not happen. *)
CreateNothing ==
  /\ Does("declare") /\ ~Fresh
  /\ todo' = Tail(todo)
  /\ UNCHANGED <<nodes, edges, refs, stack, pending>>

AddReference ==
  /\ Does("refer")
  /\ refs' = Append(refs, [from |-> Step.from, kind |-> Step.kind, name |-> Step.name, node |-> Step.node])
  /\ todo' = Tail(todo)
  /\ UNCHANGED <<nodes, edges, stack, pending>>

EnterNode ==
  /\ Does("enter")
  /\ stack' = Append(stack, Step.id)
  /\ todo' = Tail(todo)
  /\ UNCHANGED <<nodes, edges, refs, pending>>

(* The stack is pushed, and popped after what is inside. *)
GoInside ==
  /\ Does("inside")
  /\ stack' = Append(stack, Step.id)
  /\ todo' = Step.steps \o <<Leave>> \o Tail(todo)
  /\ UNCHANGED <<nodes, edges, refs, pending>>

LeaveNode ==
  /\ Does("leave")
  /\ stack' = Front(stack)
  /\ todo' = Tail(todo)
  /\ UNCHANGED <<nodes, edges, refs, pending>>

(* walkPerl, at a package statement. *)
ResetStack ==
  /\ Does("reset")
  /\ stack' = <<FileId>>
  /\ todo' = Tail(todo)
  /\ UNCHANGED <<nodes, edges, refs, pending>>

(* addReceiverContains: a second contains edge. *)
AddContains ==
  /\ Does("contain")
  /\ edges' = Append(edges, [from |-> Step.from, to |-> Step.to])
  /\ todo' = Tail(todo)
  /\ UNCHANGED <<nodes, refs, stack, pending>>

(* dartPendingMember: the member whose body is to follow, or none. *)
SetPending ==
  /\ Does("pend")
  /\ pending' = Step.id
  /\ todo' = Tail(todo)
  /\ UNCHANGED <<nodes, edges, refs, stack>>

(* emitFileNode, and the walk of the root. *)
Init ==
  /\ program \in Programs
  /\ nodes = <<FileNode>> /\ edges = <<>> /\ refs = <<>>
  /\ stack = <<FileId>> /\ pending = <<>>
  /\ todo = <<Visit("file", program.root)>>

Next == VisitNode \/ CreateNode \/ CreateNothing \/ AddReference \/ EnterNode \/ GoInside \/ LeaveNode \/ ResetStack
          \/ AddContains \/ SetPending

Spec == Init /\ [][Next]_vars

-----------------------------------------------------------------------------
(* Properties, of a file that has been walked. *)

Walked == todo = <<>>

NodeOf(id) == CHOOSE n \in Range(nodes) : n.id = id

Below(n, m) == IsStrictPrefix(n.place, m.place)

(* A Dart body is not below its signature, but the sibling that follows it. *)
InItsBody(n, m) ==
  /\ program.lang = "dart" /\ n.place # <<>>
  /\ LET siblings == FoldLeft(LAMBDA t, i : t.kids[i], program.root, Front(n.place)).kids
         next == Last(n.place) + 1
     IN next \in DOMAIN siblings /\ siblings[next].kind = "function_body" /\ IsPrefix(siblings[next].place, m.place)

Holds(n, m) == Below(n, m) \/ InItsBody(n, m)

(* A declaration that holds a place of the text is `id`, or holds `id`. *)
IsAround(n, id) == n.id = id \/ Holds(n.node, NodeOf(id).node)

(* Every reference is from a node of the file, and both ends of every contains edge
   are: what dangles is dropped without a word when the file is stored
   (storeExtractionResult keeps the edges and references of the nodes it inserted). *)
ReferencesHaveSources ==
  Walked => /\ \A r \in Range(refs) : Known(r.from)
            /\ \A e \in Range(edges) : Known(e.from) /\ Known(e.to)

(* The languages in which a second declaration or clause of a name adds to the node that
   the first one made. *)
SharedNodes == {"erlang", "go", "haskell", "julia"}

(* The calls in a declared function or method are its own, or those of a declaration
   inside of it: no walker lets a call escape to the scope around, or skips the
   innermost declaration around it.  Nor is a call given to a function or method that it
   is not in, as a Dart body would be to the pending member of another (visitDartSignature
   sets it, visitDartMemberBody takes and clears it).  (The call sites under a node are
   what callers, callees and impact are read from.) *)
CallsStayInside ==
  Walked => \A r \in Range(refs), n \in Range(nodes) :
              r.kind = "calls" /\ n.kind \in {"function", "method"} =>
                /\ Holds(n.node, r.node) => IsAround(n, r.from)
                /\ r.from = n.id /\ program.lang \notin SharedNodes => n.node = r.node \/ Holds(n.node, r.node)

(* A member is held by the innermost class, interface, struct or enum that is declared
   around it, or by something in that. *)
MembersBelongToTheirClass ==
  Walked => \A e \in Range(edges), n \in Range(nodes) :
              n.kind \in {"class", "struct", "interface", "trait", "enum"} /\ Below(n.node, NodeOf(e.to).node)
                => IsAround(n, e.from)
=============================================================================
