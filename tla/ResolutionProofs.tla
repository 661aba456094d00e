--------------------------- MODULE ResolutionProofs --------------------------
(***************************************************************************)
(* What holds of every resolution, for any files, contents of them, order  *)
(* of syncs and number of failures, in every language.                     *)
(*                                                                         *)
(* Three arguments, over one inductive invariant.  The rules: whatever the *)
(* rule of a language looks up, a bare name that the file itself defines   *)
(* leads into the file (ResolvedIsOwn), and a call on a variable leads to  *)
(* the variable's class or to the only callable of that name (ClassKnown,  *)
(* ClassUnknown).  The tables: an id is one node, the ends of an edge are  *)
(* nodes, and what a sync puts back keeps the class it was resolved to     *)
(* (SyncNodes, SyncEdges, SyncReferences).  The steps of Go's interfaces:  *)
(* what has been inserted stays until the references are cleared           *)
(* (ImplementsInserted, OverridesInserted).                                *)
(***************************************************************************)
EXTENDS Resolution, FiniteSetTheorems, SequenceTheorems, WellFoundedInduction, TLAPS

-----------------------------------------------------------------------------
(* The inductive invariant, in parts. *)

(* The nodes of a file are the symbols of its content: an id is one node, and
   every symbol has one. *)
NodesHold ==
  /\ project \in DOMAIN Project
  /\ content \in [Files -> UNION {Project[project][f] : f \in Files}]
  /\ \A f \in Files : content[f] \in Project[project][f]
  /\ \A n \in nodes : /\ n.file \in Files /\ n.lang = Lang[project]
                      /\ \E i \in DOMAIN content[n.file].symbols :
                           /\ n.id = Id(n.file, content[n.file].symbols[i])
                           /\ n.kind = content[n.file].symbols[i].kind
  /\ \A m, n \in nodes : m.id = n.id => m = n
  /\ \A f \in Files : \A i \in DOMAIN content[f].symbols :
       \E n \in nodes : n.id = Id(f, content[f].symbols[i])

(* A row of the table of edges. *)
IsRow(e) == e = [row |-> e.row, source |-> e.source, target |-> e.target, kind |-> e.kind, ref |-> e.ref]

(* A reference that extraction made, of a symbol of its file. *)
IsReference(r) ==
  /\ r.file \in Files /\ r.lang = Lang[project]
  /\ r.name \in Seq(STRING) /\ r.name # <<>> /\ r.kind \notin {"contains", "heuristic"}
  /\ \E i \in DOMAIN content[r.file].symbols : r.from = Id(r.file, content[r.file].symbols[i])

(* The ends of an edge are nodes (the foreign keys of the table). *)
EdgesHold ==
  \A e \in edges :
    /\ IsRow(e)
    /\ \E n \in nodes : n.id = e.source
    /\ \E n \in nodes : n.id = e.target

(* The references are those of extraction, in the table and in the edges that
   calls on variables have led to, which start where the reference was made. *)
ReferencesHold ==
  /\ \A r \in unresolved : IsReference(r)
  /\ \A e \in edges : Found(e) /\ OnVariable(e.ref) => IsReference(e.ref) /\ e.source = e.ref.from

(* What InsertImplements has inserted. *)
ImplementsStand ==
  \A s \in GoNodes("struct"), i \in GoNodes("interface") :
    Satisfies(s, i) => \E e \in edges : e.kind = "implements" /\ e.source = s.id /\ e.target = i.id

(* What InsertOverrides has inserted. *)
OverridesStand ==
  \A s \in GoNodes("struct"), i \in GoNodes("interface") :
    Satisfies(s, i) => \A m \in Methods(i), k \in Methods(s) : m.name = k.name /\ m # k =>
      \E e \in edges : e.kind = "calls" /\ e.source = m.id /\ e.target = k.id

(* What is inserted when; whole: the last resolution came to its end. *)
HeuristicsHold ==
  /\ pc \in {"references", "implements", "overrides", "clear", "idle"}
  /\ pc \in {"overrides", "clear"} \/ (pc = "idle" /\ whole) => ImplementsStand
  /\ pc = "clear" \/ (pc = "idle" /\ whole) => OverridesStand

(* The first part of ReceiversAreNotGuessed. *)
ReceiversHold ==
  \A e \in edges : Found(e) /\ OnVariable(e.ref) /\ InferType(e.ref, e.ref.name[1]) # {}
    => ClassOf(Node(e.target)) \in InferType(e.ref, e.ref.name[1])
-----------------------------------------------------------------------------
(* What a rule yields are edges of its reference, and none says what contains
   what. *)
Plain(r, S) ==
  \A e \in S : e.kind # "contains" /\ e = Edge(e.source, e.target, e.kind, r)

(* An edge of any other kind is plain. *)
LEMMA PlainEdge ==
  ASSUME NEW r, NEW source, NEW target, NEW kind, kind # "contains"
  PROVE  LET e == Edge(source, target, kind, r)
         IN e.kind # "contains" /\ e = Edge(e.source, e.target, e.kind, r)
  BY DEF Edge

(* The edges of one kind to some nodes are plain. *)
LEMMA PlainAs ==
  ASSUME NEW r, NEW S, NEW kind, kind # "contains"
  PROVE  Plain(r, As(r, S, kind))
  BY PlainEdge DEF Plain, As

(* So are those of the shapes that the rules are put together from. *)
LEMMA PlainRules ==
  ASSUME NEW r, r.kind # "contains"
  PROVE  /\ Plain(r, {})
         /\ \A S : Plain(r, Same(r, S))
         /\ \A S, kinds : Plain(r, Promoted(r, S, kinds))
         /\ \A S : Plain(r, BaseRef(r, S))
         /\ \A S, T : Plain(r, S) /\ Plain(r, T) => Plain(r, Or(S, T))
         /\ \A S : /\ Plain(r, As(r, S, "imports")) /\ Plain(r, As(r, S, "calls"))
                   /\ Plain(r, As(r, S, "instantiates")) /\ Plain(r, As(r, S, "implements"))
                   /\ Plain(r, As(r, S, "references"))
         /\ Plain(r, HaskellInstance(r))
<1>1. Plain(r, {})
  BY DEF Plain
<1>2. \A S : Plain(r, Same(r, S))
  BY PlainAs DEF Same
<1>3. ASSUME NEW S, NEW kinds PROVE Plain(r, Promoted(r, S, kinds))
  BY PlainEdge DEF Plain, Promoted
<1>4. ASSUME NEW S PROVE Plain(r, BaseRef(r, S))
  BY PlainEdge DEF Plain, BaseRef
<1>5. \A S, T : Plain(r, S) /\ Plain(r, T) => Plain(r, Or(S, T))
  BY DEF Or
<1>6. Plain(r, HaskellInstance(r))
  BY PlainEdge DEF Plain, HaskellInstance
<1>7. QED
  BY <1>1, <1>2, <1>3, <1>4, <1>5, <1>6, PlainAs

(* The rule that every language falls back on. *)
LEMMA PlainGeneric ==
  ASSUME NEW r, r.kind # "contains"
  PROVE  /\ Plain(r, Generic(r))
         /\ \A S : Plain(r, ImportsRef(r, S))
<1>1. Plain(r, Generic(r))
  BY PlainRules DEF Generic, DottedRef
<1>2. QED
  BY <1>1, PlainRules DEF ImportsRef

(* The languages with calls on variables. *)
LEMMA PlainClasses ==
  ASSUME NEW r, r.kind # "contains"
  PROVE  Plain(r, Python(r)) /\ Plain(r, Ruby(r)) /\ Plain(r, Perl(r)) /\ Plain(r, PHP(r))
<1>1. \A class, members : Plain(r, KnownReceiver(r, class, members))
  BY PlainRules DEF KnownReceiver
<1>2. Plain(r, Python(r))
  BY <1>1, PlainRules, PlainGeneric DEF Python
<1>3. Plain(r, Ruby(r))
  BY <1>1, PlainRules, PlainGeneric DEF Ruby
<1>4. Plain(r, Perl(r))
  BY <1>1, PlainRules, PlainGeneric DEF Perl
<1>5. Plain(r, PHP(r))
  BY <1>1, PlainRules, PlainGeneric DEF PHP
<1>6. QED
  BY <1>2, <1>3, <1>4, <1>5

(* The languages with modules. *)
LEMMA PlainModules ==
  ASSUME NEW r, r.kind # "contains"
  PROVE  /\ Plain(r, Julia(r)) /\ Plain(r, Lua(r)) /\ Plain(r, Elixir(r)) /\ Plain(r, Erlang(r))
         /\ Plain(r, Haskell(r))
<1>1. \A module, kinds : Plain(r, ModuleCall(r, module, kinds))
  BY PlainRules DEF ModuleCall
<1>2. Plain(r, Julia(r))
  BY PlainRules, PlainGeneric DEF Julia
<1>3. Plain(r, Lua(r))
  BY PlainRules, PlainGeneric DEF Lua
<1>4. Plain(r, Elixir(r))
  BY <1>1, PlainRules, PlainGeneric DEF Elixir
<1>5. Plain(r, Erlang(r))
  BY <1>1, PlainRules, PlainGeneric DEF Erlang
<1>6. Plain(r, Haskell(r))
  BY <1>1, PlainRules, PlainGeneric DEF Haskell
<1>7. QED
  BY <1>2, <1>3, <1>4, <1>5, <1>6

(* The languages with types. *)
LEMMA PlainTypes ==
  ASSUME NEW r, r.kind # "contains"
  PROVE  /\ Plain(r, Rust(r)) /\ Plain(r, Swift(r)) /\ Plain(r, Dart(r)) /\ Plain(r, CSharp(r))
         /\ Plain(r, FSharp(r)) /\ Plain(r, JVM(r))
<1>1. Plain(r, RustAssoc(r)) /\ Plain(r, RustBareCall(r))
  BY PlainRules DEF RustAssoc, RustBareCall
<1>2. Plain(r, Rust(r))
  BY <1>1, PlainRules, PlainGeneric DEF Rust
<1>3. \A path : Plain(r, SwiftMethod(r, path, "calls")) /\ Plain(r, SwiftMethod(r, path, "overrides"))
  BY PlainAs DEF SwiftMethod
<1>4. Plain(r, Swift(r))
  BY <1>3, PlainRules, PlainGeneric DEF Swift
<1>5. Plain(r, Dart(r))
  BY PlainRules DEF Dart
<1>6. Plain(r, CSharp(r))
  BY PlainRules, PlainGeneric DEF CSharp
<1>7. Plain(r, FSharp(r))
  BY PlainRules, PlainGeneric DEF FSharp
<1>8. Plain(r, JVM(r))
  BY PlainRules, PlainGeneric DEF JVM
<1>9. QED
  BY <1>2, <1>4, <1>5, <1>6, <1>7, <1>8

(* The languages with headers, scripts and the rest. *)
LEMMA PlainFiles ==
  ASSUME NEW r, r.kind # "contains"
  PROVE  /\ Plain(r, C(r)) /\ Plain(r, ObjC(r)) /\ Plain(r, CPP(r)) /\ Plain(r, Bash(r)) /\ Plain(r, R(r))
         /\ Plain(r, PowerShell(r)) /\ Plain(r, SQL(r)) /\ Plain(r, SpecScore(r)) /\ Plain(r, Go(r))
<1>1. \A langs : Plain(r, Include(r, langs))
  BY PlainRules DEF Include
<1>2. Plain(r, C(r)) /\ Plain(r, ObjC(r))
  BY <1>1, PlainRules DEF C, ObjC
<1>3. Plain(r, CPP(r))
  BY <1>1, PlainRules DEF CPP
<1>4. Plain(r, Bash(r)) /\ Plain(r, R(r)) /\ Plain(r, PowerShell(r))
  BY PlainRules, PlainGeneric DEF Bash, R, PowerShell
<1>5. Plain(r, SQL(r))
  BY PlainRules DEF SQL
<1>6. Plain(r, SpecScore(r))
  BY PlainRules DEF SpecScore
<1>7. Plain(r, GoDottedCall(r)) /\ Plain(r, GoBareCall(r))
  BY PlainRules DEF GoDottedCall, GoBareCall
<1>8. Plain(r, Go(r))
  BY <1>7, PlainRules, PlainGeneric DEF Go
<1>9. QED
  BY <1>2, <1>3, <1>4, <1>5, <1>6, <1>8

(* Every rule yields plain edges. *)
LEMMA ResolvedIsPlain ==
  ASSUME NEW r, r.kind # "contains"
  PROVE  Plain(r, ResolveRef(r))
  BY PlainGeneric, PlainClasses, PlainModules, PlainTypes, PlainFiles DEF ResolveRef

-----------------------------------------------------------------------------
(* A function called by its bare name. *)
OwnOf(r) == {n \in Spoken(r, r.name) : n.file = r.file /\ n.kind = "function"}

CallsOwn(r) ==
  /\ r.kind = "calls" /\ r.name \in Seq(STRING) /\ Len(r.name) = 1 /\ r.sep = "." /\ OwnOf(r) # {}
  /\ \A n \in Named(r.name) : n.kind = "function" /\ n.lang = r.lang
  /\ ~ShadowedByImports(r)

(* The edges of S lead to nodes of T. *)
Reaches(S, T) == \A e \in S : \E n \in T : n.id = e.target

(* pickBest: who is in the file itself is nearer than anyone who is not. *)
LEMMA BestIsOwn ==
  ASSUME NEW S, NEW f, NEW o \in S, o.file = f
  PROVE  PickBest(S, f) \subseteq {n \in S : n.file = f}
<1>1. Proximity(o, f) = 100
  BY DEF Proximity
<1>2. ASSUME NEW n, n.file # f PROVE Proximity(n, f) \in {0, 50}
  BY <1>2 DEF Proximity
<1>3. QED
  BY <1>1, <1>2 DEF PickBest, First

(* The shapes of the rules lead where their nodes are. *)
LEMMA ReachesRules ==
  ASSUME NEW r, NEW T
  PROVE  /\ Reaches({}, T)
         /\ \A S \in SUBSET T : /\ Reaches(Same(r, S), T)
                                /\ \A kind : Reaches(As(r, S, kind), T)
                                /\ \A kinds : Reaches(Promoted(r, S, kinds), T)
         /\ \A S, U : Reaches(S, T) /\ Reaches(U, T) => Reaches(Or(S, U), T)
<1>1. Reaches({}, T)
  BY DEF Reaches
<1>2. ASSUME NEW S \in SUBSET T
      PROVE  /\ Reaches(Same(r, S), T)
             /\ \A kind : Reaches(As(r, S, kind), T)
             /\ \A kinds : Reaches(Promoted(r, S, kinds), T)
  BY DEF Reaches, Same, As, Promoted, Edge
<1>3. \A S, U : Reaches(S, T) /\ Reaches(U, T) => Reaches(Or(S, U), T)
  BY DEF Or
<1>4. QED
  BY <1>1, <1>2, <1>3

(* Whatever the kinds a rule looks for: the nearest is in the file. *)
LEMMA NearestIsOwn ==
  ASSUME NEW r, CallsOwn(r)
  PROVE  /\ Text(r) = r.name /\ ~Dotted(r) /\ ~Scoped(r) /\ ~DottedCall(r) /\ Bare(r)
         /\ <<Last(r.name)>> = r.name /\ ~HasLocalImport(r)
         /\ \A kinds : Nearest(r, r.name, kinds) \subseteq OwnOf(r)
         /\ Definition(r, r.name) \subseteq OwnOf(r)
         /\ PickBest(Named(r.name), r.file) \subseteq OwnOf(r)
<1>1. Text(r) = r.name /\ ~Dotted(r) /\ ~Scoped(r) /\ ~DottedCall(r) /\ Bare(r)
  BY DEF CallsOwn, Text, Dotted, Scoped, DottedCall, Bare
<1>2. <<Last(r.name)>> = r.name
  BY DEF CallsOwn, Last
<1>3. ~HasLocalImport(r)
  BY DEF CallsOwn, HasLocalImport, Imports, Named
<1>4. PICK o \in OwnOf(r) : TRUE
  BY DEF CallsOwn
<1>5. /\ Spoken(r, r.name) = Named(r.name)
      /\ \A n \in Named(r.name) : n.file = r.file => n \in OwnOf(r)
      /\ o \in Named(r.name) /\ o.file = r.file /\ o.kind = "function"
  BY <1>4 DEF CallsOwn, Spoken, Named, OwnOf
<1>6. PickBest(Named(r.name), r.file) \subseteq OwnOf(r)
  BY <1>5, BestIsOwn
<1>7. ASSUME NEW kinds PROVE Nearest(r, r.name, kinds) \subseteq OwnOf(r)
  <2>1. CASE "function" \in kinds
    <3>1. OfKind(r, r.name, kinds) = Named(r.name)
      BY <1>5, <2>1 DEF OfKind, CallsOwn
    <3>2. QED
      BY <1>6, <3>1 DEF Nearest
  <2>2. CASE "function" \notin kinds
    <3>1. OfKind(r, r.name, kinds) = {}
      BY <1>5, <2>2 DEF OfKind, CallsOwn
    <3>2. QED
      BY <3>1 DEF Nearest, PickBest, First
  <2>3. QED
    BY <2>1, <2>2
<1>8. Definition(r, r.name) \subseteq OwnOf(r)
  <2>1. {n \in Spoken(r, r.name) : n.kind \notin {"import", "file"}} = Named(r.name)
    BY <1>5 DEF CallsOwn
  <2>2. QED
    BY <1>6, <2>1 DEF Definition
<1>9. QED
  BY <1>1, <1>2, <1>3, <1>6, <1>7, <1>8

(* A bare call of an own function, rule by rule. *)
LEMMA OwnGeneric ==
  ASSUME NEW r, CallsOwn(r)
  PROVE  Reaches(Generic(r), OwnOf(r))
  BY NearestIsOwn, ReachesRules DEF Generic

(* The languages with calls on variables. *)
LEMMA OwnClasses ==
  ASSUME NEW r, CallsOwn(r)
  PROVE  /\ Reaches(Python(r), OwnOf(r)) /\ Reaches(Ruby(r), OwnOf(r))
         /\ Reaches(Perl(r), OwnOf(r)) /\ Reaches(PHP(r), OwnOf(r))
<1> USE NearestIsOwn, ReachesRules, OwnGeneric DEF CallsOwn
<1>1. Reaches(Python(r), OwnOf(r))
  BY DEF Python
<1>2. Reaches(Ruby(r), OwnOf(r))
  BY DEF Ruby
<1>3. Reaches(Perl(r), OwnOf(r))
  BY DEF Perl
<1>4. Reaches(PHP(r), OwnOf(r))
  BY DEF PHP
<1>5. QED
  BY <1>1, <1>2, <1>3, <1>4

(* The languages with modules. *)
LEMMA OwnModules ==
  ASSUME NEW r, CallsOwn(r)
  PROVE  /\ Reaches(Julia(r), OwnOf(r)) /\ Reaches(Lua(r), OwnOf(r)) /\ Reaches(Elixir(r), OwnOf(r))
         /\ Reaches(Erlang(r), OwnOf(r)) /\ Reaches(Haskell(r), OwnOf(r))
<1> USE NearestIsOwn, ReachesRules, OwnGeneric DEF CallsOwn
<1>1. Reaches(Julia(r), OwnOf(r))
  BY DEF Julia
<1>2. Reaches(Lua(r), OwnOf(r))
  BY DEF Lua
<1>3. Reaches(Elixir(r), OwnOf(r))
  BY DEF Elixir
<1>4. Reaches(Erlang(r), OwnOf(r))
  BY DEF Erlang
<1>5. Reaches(Haskell(r), OwnOf(r))
  BY DEF Haskell
<1>6. QED
  BY <1>1, <1>2, <1>3, <1>4, <1>5

(* A file's own package comes first; a file without one has nothing in the
   packages it imports. *)
LEMMA OwnJVM ==
  ASSUME NEW r, CallsOwn(r), r.lang \in {"java", "kotlin", "scala"}
  PROVE  Reaches(JVM(r), OwnOf(r))
<1> DEFINE defs == {n \in Spoken(r, Text(r)) : n.kind \notin {"import", "file"}}
           own == Package(r, r.file)
           package == {n \in defs : own # <<>> /\ Package(r, n.file) = own}
           imported == {n \in defs \ package : Last(r.name) \in Explicit(r)}
           wildcard == {n \in defs \ (package \cup imported) : Package(r, n.file) \in Wildcard(r)}
           pool == Or(package, Or(imported, Or(wildcard, defs)))
<1>1. PICK o \in OwnOf(r) : TRUE
  BY DEF CallsOwn
<1>2. /\ Text(r) = r.name /\ o \in defs /\ o.file = r.file
      /\ \A n \in defs : n.file = r.file => n \in OwnOf(r)
  BY <1>1, NearestIsOwn DEF CallsOwn, Named, Spoken, OwnOf
<1>3. o \in pool /\ pool \subseteq defs
  <2>1. CASE own # <<>>
    BY <1>2, <2>1 DEF Or
  <2>2. CASE own = <<>>
    <3>1. package = {} /\ (imported = {} \/ imported = defs)
      BY <2>2
    <3>2. wildcard = {}
      BY <1>2, <2>2 DEF CallsOwn, ShadowedByImports
    <3>3. QED
      BY <1>2, <3>1, <3>2 DEF Or
  <2>3. QED
    BY <2>1, <2>2
<1>4. JVMType(r) \subseteq OwnOf(r)
  <2>1. JVMType(r) = PickBest(pool, r.file)
    BY DEF JVMType
  <2> HIDE DEF pool
  <2>2. QED
    BY <1>2, <1>3, <2>1, BestIsOwn
<1>5. QED
  BY <1>4, NearestIsOwn, ReachesRules DEF JVM, CallsOwn

(* The languages with types. *)
LEMMA OwnTypes ==
  ASSUME NEW r, CallsOwn(r)
  PROVE  /\ Reaches(Rust(r), OwnOf(r)) /\ Reaches(Swift(r), OwnOf(r)) /\ Reaches(Dart(r), OwnOf(r))
         /\ Reaches(CSharp(r), OwnOf(r)) /\ Reaches(FSharp(r), OwnOf(r))
<1> USE NearestIsOwn, ReachesRules, OwnGeneric DEF CallsOwn
<1>1. Reaches(Rust(r), OwnOf(r))
  <2>1. Reaches(Promoted(r, {}, {"struct", "enum"}), OwnOf(r))
    BY DEF Promoted, Reaches
  <2>2. Reaches(RustBareCall(r), OwnOf(r))
    <3>1. /\ Reaches(As(r, Nearest(r, r.name, {"function"}), "calls"), OwnOf(r))
          /\ Reaches(As(r, Nearest(r, r.name, {"method"}), "calls"), OwnOf(r))
      OBVIOUS
    <3>2. QED
      BY <2>1, <3>1 DEF RustBareCall, Or
  <2>3. QED
    BY <2>2 DEF Rust
<1>2. Reaches(Swift(r), OwnOf(r))
  <2>1. SwiftMethod(r, r.name, "calls") = {}
    BY DEF SwiftMethod, OfKind, Spoken, PickBest, First, As
  <2>2. QED
    BY <2>1 DEF Swift
<1>3. Reaches(Dart(r), OwnOf(r))
  BY DEF Dart
<1>4. Reaches(CSharp(r), OwnOf(r))
  BY DEF CSharp
<1>5. Reaches(FSharp(r), OwnOf(r))
  BY DEF FSharp
<1>6. QED
  BY <1>1, <1>2, <1>3, <1>4, <1>5

(* The languages with headers, scripts and the rest. *)
LEMMA OwnFiles ==
  ASSUME NEW r, CallsOwn(r)
  PROVE  /\ Reaches(C(r), OwnOf(r)) /\ Reaches(ObjC(r), OwnOf(r)) /\ Reaches(CPP(r), OwnOf(r))
         /\ Reaches(Bash(r), OwnOf(r)) /\ Reaches(R(r), OwnOf(r)) /\ Reaches(PowerShell(r), OwnOf(r))
         /\ Reaches(SQL(r), OwnOf(r)) /\ Reaches(SpecScore(r), OwnOf(r)) /\ Reaches(Go(r), OwnOf(r))
<1> USE NearestIsOwn, ReachesRules, OwnGeneric DEF CallsOwn
<1>1. Reaches(C(r), OwnOf(r)) /\ Reaches(ObjC(r), OwnOf(r))
  BY DEF C, ObjC
<1>2. Reaches(CPP(r), OwnOf(r))
  BY DEF CPP
<1>3. Reaches(Bash(r), OwnOf(r)) /\ Reaches(R(r), OwnOf(r)) /\ Reaches(PowerShell(r), OwnOf(r))
  BY DEF Bash, R, PowerShell
<1>4. Reaches(SQL(r), OwnOf(r))
  <2>1. {n \in Named(Text(r)) : n.kind = "struct" /\ n.lang \in {"sql", "sqlite"}} = {}
    OBVIOUS
  <2>2. QED
    BY <2>1 DEF SQL, As, PickBest, First, Reaches
<1>5. Reaches(SpecScore(r), OwnOf(r))
  <2>1. \A n \in nodes : n.lang = r.lang /\ n.kind \in {"feature", "idea", "plan"} => n.name # r.name
    BY DEF Named
  <2>2. QED
    BY <2>1 DEF SpecScore, Same, As, Reaches
<1>6. Reaches(Go(r), OwnOf(r))
  BY DEF Go, GoBareCall
<1>7. QED
  BY <1>1, <1>2, <1>3, <1>4, <1>5, <1>6

(* In every language a bare call of an own function stays in the file. *)
LEMMA ResolvedIsOwn ==
  ASSUME NEW r, CallsOwn(r)
  PROVE  Reaches(ResolveRef(r), OwnOf(r))
  BY OwnGeneric, OwnClasses, OwnModules, OwnJVM, OwnTypes, OwnFiles DEF ResolveRef

-----------------------------------------------------------------------------
(* A method called on a variable. *)
OfClass(r, S) ==
  \A e \in S : /\ e.source = r.from
               /\ \E n \in nodes : n.id = e.target /\ ClassOf(n) \in InferType(r, r.name[1])

OnlyOne(r, S) ==
  \A e \in S : /\ e.source = r.from
               /\ \E n \in nodes : n.id = e.target /\ OfKind(r, Tail(r.name), Callable) = {n}

(* What is left of receiver and method is the method. *)
LEMMA TailOfTwo ==
  ASSUME NEW S, NEW s \in Seq(S), Len(s) = 2
  PROVE  Tail(s) = <<s[2]>>
<1>1. s # <<>> /\ s[2] \in S
  BY LenProperties, EmptySeq
<1>2. /\ Tail(s) \in Seq(S) /\ Len(Tail(s)) = 1
      /\ \A i \in 1 .. Len(Tail(s)) : Tail(s)[i] = s[i + 1]
  BY <1>1, HeadTailProperties
<1>3. <<s[2]>> \in Seq(S) /\ Len(<<s[2]>>) = 1 /\ <<s[2]>>[1] = s[2]
  BY <1>1
<1>4. \A i \in 1 .. Len(Tail(s)) : Tail(s)[i] = <<s[2]>>[i]
  <2>1. ASSUME NEW i \in 1 .. Len(Tail(s)) PROVE i = 1 /\ s[i + 1] = s[2]
    <3>1. \A n : n = 1 => \A j \in 1 .. n : j = 1 /\ j + 1 = 2
      OBVIOUS
    <3>2. i = 1 /\ i + 1 = 2
      BY <1>2, <3>1, Zenon
    <3>3. QED
      BY <3>2, Zenon
  <2>2. QED
    BY <1>2, <1>3, <2>1, Zenon
<1>5. QED
  BY <1>2, <1>3, <1>4, SeqEqual

(* Such a call has a receiver and a method, and no other shape. *)
LEMMA VariableCall ==
  ASSUME NEW r, OnVariable(r), r.name \in Seq(STRING)
  PROVE  /\ r.kind = "calls" /\ DottedCall(r) /\ Dotted(r) /\ ~Scoped(r) /\ ~Bare(r)
         /\ Len(r.name) > 1 /\ {r.name[1]} \cap Capitals = {} /\ r.name[1] \notin Capitals
         /\ Len(r.name) <= 2 => Tail(r.name) = <<r.name[2]>>
<1>1. /\ r.kind = "calls" /\ DottedCall(r) /\ Dotted(r) /\ ~Scoped(r) /\ ~Bare(r)
      /\ Len(r.name) > 1 /\ r.name[1] \notin Capitals
  BY DEF OnVariable, DottedCall, Dotted, Scoped, Bare
<1>2. ASSUME Len(r.name) <= 2 PROVE Tail(r.name) = <<r.name[2]>>
  <2>1. Len(r.name) \in Nat
    BY LenProperties
  <2>2. \A n \in Nat : n > 1 /\ n <= 2 => n = 2
    OBVIOUS
  <2>3. Len(r.name) = 2
    BY <1>1, <1>2, <2>1, <2>2
  <2>4. QED
    BY <2>3, TailOfTwo
<1>3. QED
  BY <1>1, <1>2

(* What the rules make of such a call. *)
LEMMA VariableRules ==
  ASSUME NEW r, OnVariable(r), r.name \in Seq(STRING)
  PROVE  LET class == InferType(r, r.name[1])
             below == UNION {Below(r, c, r.name[2]) : c \in class}
             rule  == IF r.lang = "python" THEN KnownReceiver(r, class, below)
                                           ELSE KnownReceiver(r, class, OnClass(r, class))
         IN ResolveRef(r) = IF Len(r.name) > 2 THEN {} ELSE rule
<1> DEFINE class == InferType(r, r.name[1])
           below == UNION {Below(r, c, r.name[2]) : c \in class}
<1> HIDE DEF class, below
<1>1. /\ r.kind = "calls" /\ DottedCall(r) /\ Dotted(r) /\ ~Scoped(r) /\ ~Bare(r)
      /\ {r.name[1]} \cap Capitals = {} /\ r.name[1] \notin Capitals
  BY VariableCall
<1>2. /\ \A S : Or({}, S) = S
      /\ As(r, {}, "instantiates") = {} /\ Same(r, OnClass(r, {})) = {}
  BY DEF As, Same, OnClass, Or
<1>3. Python(r) = IF Len(r.name) > 2 THEN {} ELSE KnownReceiver(r, class, below)
  BY <1>1 DEF Python, class, below
<1>4. Ruby(r) = IF Len(r.name) > 2 THEN {} ELSE KnownReceiver(r, class, OnClass(r, class))
  <2> DEFINE constructed == {n \in Definition(r, <<r.name[1]>>) :
                               r.name[1] \in Capitals /\ r.name[2] = "new" /\ n.kind = "class"}
  <2>1. constructed = {}
    BY <1>1
  <2>2. Ruby(r) = IF Len(r.name) > 2 THEN {}
                  ELSE Or(As(r, constructed, "instantiates"), KnownReceiver(r, class, OnClass(r, class)))
    BY <1>1 DEF Ruby, class
  <2> HIDE DEF constructed
  <2>3. QED
    BY <1>2, <2>1, <2>2
<1>5. Perl(r) = IF Len(r.name) > 2 THEN {} ELSE KnownReceiver(r, class, OnClass(r, class))
  <2> DEFINE package == {r.name[1]} \cap Capitals
             constructed == {n \in Definition(r, <<r.name[1]>>) :
                               package # {} /\ r.name[2] = "new" /\ n.kind = "module"}
  <2>1. package = {} /\ constructed = {}
    BY <1>1
  <2>2. Perl(r) = IF Len(r.name) > 2 THEN {}
                  ELSE Or(As(r, constructed, "instantiates"),
                       Or(Same(r, OnClass(r, package)), KnownReceiver(r, class, OnClass(r, class))))
    BY <1>1 DEF Perl, class
  <2> HIDE DEF constructed, package
  <2>3. QED
    BY <1>2, <2>1, <2>2
<1>6. PHP(r) = IF Len(r.name) > 2 THEN {} ELSE KnownReceiver(r, class, OnClass(r, class))
  <2> DEFINE package == {r.name[1]} \cap Capitals
  <2>1. package = {}
    BY <1>1
  <2>2. PHP(r) = IF Len(r.name) > 2 THEN {}
                 ELSE Or(Same(r, OnClass(r, package)), KnownReceiver(r, class, OnClass(r, class)))
    BY <1>1 DEF PHP, class
  <2> HIDE DEF package
  <2>3. QED
    BY <1>2, <2>1, <2>2
<1>7. ResolveRef(r) = IF Len(r.name) > 2 THEN {}
                      ELSE IF r.lang = "python" THEN KnownReceiver(r, class, below)
                      ELSE KnownReceiver(r, class, OnClass(r, class))
  BY <1>3, <1>4, <1>5, <1>6 DEF OnVariable, ResolveRef
<1>8. QED
  BY <1>7 DEF class, below

(* With a class, the method is one of the class. *)
LEMMA ClassKnown ==
  ASSUME NEW r, OnVariable(r), r.name \in Seq(STRING), InferType(r, r.name[1]) # {}
  PROVE  OfClass(r, ResolveRef(r))
<1> DEFINE class == InferType(r, r.name[1])
           below == UNION {Below(r, c, r.name[2]) : c \in class}
<1>1. OfClass(r, {})
  BY DEF OfClass
<1>2. \A members : KnownReceiver(r, class, members) = Same(r, members)
  BY DEF KnownReceiver
<1>3. ASSUME NEW S, \A n \in S : n \in nodes /\ ClassOf(n) \in class PROVE OfClass(r, Same(r, S))
  BY <1>3 DEF OfClass, Same, As, Edge
<1>4. ASSUME r.lang = "python" PROVE OfClass(r, Same(r, below))
  <2>1. \A n \in below : n \in nodes /\ ClassOf(n) \in class
    BY <1>4 DEF Below, First, Spoken, Named, ClassOf
  <2>2. QED
    BY <1>3, <2>1
<1>5. ASSUME r.lang # "python" PROVE OfClass(r, Same(r, OnClass(r, class)))
  <2>1. \A n \in OnClass(r, class) : n \in nodes /\ ClassOf(n) \in class
    BY <1>5 DEF OnClass, Member, First, Spoken, Named, ClassOf
  <2>2. QED
    BY <1>3, <2>1
<1>6. ResolveRef(r) = IF Len(r.name) > 2 THEN {}
                      ELSE IF r.lang = "python" THEN KnownReceiver(r, class, below)
                      ELSE KnownReceiver(r, class, OnClass(r, class))
  BY VariableRules
<1> HIDE DEF class, below
<1>7. QED
  BY <1>1, <1>2, <1>4, <1>5, <1>6

(* Without one, it is the only callable of that name. *)
LEMMA ClassUnknown ==
  ASSUME NEW r, OnVariable(r), r.name \in Seq(STRING), InferType(r, r.name[1]) = {},
         IsFiniteSet(nodes)
  PROVE  OnlyOne(r, ResolveRef(r))
<1> DEFINE only == Unambiguous(r, r.name[2], Callable)
<1>1. OnlyOne(r, {})
  BY DEF OnlyOne
<1>2. ASSUME Len(r.name) <= 2 PROVE OnlyOne(r, Same(r, only))
  <2>1. SUFFICES ASSUME NEW n \in only PROVE n \in nodes /\ OfKind(r, Tail(r.name), Callable) = {n}
    BY DEF OnlyOne, Same, As, Edge
  <2> DEFINE found == OfKind(r, <<r.name[2]>>, Callable)
  <2>2. Cardinality(found) = 1 /\ n \in found /\ found \subseteq nodes
    BY <2>1 DEF Unambiguous, Only, OfKind, Spoken, Named
  <2>3. Tail(r.name) = <<r.name[2]>>
    BY <1>2, VariableCall
  <2>4. OfKind(r, Tail(r.name), Callable) = found
    BY <2>3
  <2> HIDE DEF found
  <2>5. IsFiniteSet(found)
    BY <2>2, FS_Subset
  <2>6. PICK x : found = {x}
    BY <2>2, <2>5, FS_Singleton
  <2>7. QED
    BY <2>2, <2>4, <2>6
<1>3. ASSUME NEW class, class = {} PROVE \A members : KnownReceiver(r, class, members) = Same(r, only)
  BY <1>3 DEF KnownReceiver
<1> HIDE DEF only
<1>4. ResolveRef(r) = IF Len(r.name) > 2 THEN {} ELSE Same(r, only)
  BY <1>3, VariableRules
<1>5. Len(r.name) \in Nat
  OBVIOUS
<1>6. QED
  BY <1>1, <1>2, <1>4, <1>5

-----------------------------------------------------------------------------

(* An id names the file. *)
LEMMA IdFirst == ASSUME NEW f, NEW s PROVE Id(f, s)[1] = f
  BY DEF Id

(* What a row of the table of nodes says. *)
LEMMA NodeParts ==
  ASSUME NEW f, NEW s, NEW row
  PROVE  LET n == NodeOf(f, s, row)
         IN /\ n.id = Id(f, s) /\ n.row = row /\ n.file = f /\ n.lang = Lang[project]
            /\ n.kind = s.kind /\ n.name = s.name /\ n.qual = s.qual
            /\ n.id[1] = f /\ n.id[2] = s.kind
  BY DEF NodeOf, Id

(* What a node says, its id says too, and the id leads back to it. *)
LEMMA NodeFacts ==
  ASSUME NodesHold, NEW n \in nodes
  PROVE  /\ n.file \in Files /\ n.id[1] = n.file /\ n.id[2] = n.kind /\ n.lang = Lang[project]
         /\ Node(n.id) = n
<1>1. PICK i \in DOMAIN content[n.file].symbols :
        n.id = Id(n.file, content[n.file].symbols[i]) /\ n.kind = content[n.file].symbols[i].kind
  BY DEF NodesHold
<1>2. n.id[1] = n.file /\ n.id[2] = n.kind /\ n.lang = Lang[project]
  BY <1>1 DEF Id, NodesHold
<1>3. Node(n.id) = n
  BY DEF Node, NodesHold
<1>4. QED
  BY <1>2, <1>3 DEF NodesHold

(* A node with the id of a symbol is of the symbol's file. *)
LEMMA NodeOfId ==
  ASSUME NodesHold
  PROVE  \A n \in nodes : \A g, s : n.id = Id(g, s) => n.file = g
<1>1. SUFFICES ASSUME NEW n \in nodes, NEW g, NEW s, n.id = Id(g, s) PROVE n.file = g
  OBVIOUS
<1>2. Id(g, s)[1] = g
  BY IdFirst
<1>3. n.id[1] = n.file
  BY NodeFacts
<1>4. QED
  BY <1>1, <1>2, <1>3

(* ProjectAssumption, for one content. *)
LEMMA ContentFacts ==
  ASSUME NEW p \in DOMAIN Project, NEW f \in Files, NEW c \in Project[p][f]
  PROVE  /\ c.symbols \in Seq(Symbols) /\ c.refs \in Seq(References)
         /\ DOMAIN c.symbols = 1 .. Len(c.symbols) /\ Len(c.symbols) \in Nat
         /\ \A i \in DOMAIN c.symbols :
              c.symbols[i].owner # 0 => c.symbols[i].owner \in DOMAIN c.symbols
         /\ \A i \in DOMAIN c.refs :
              /\ c.refs[i].from \in DOMAIN c.symbols /\ c.refs[i].name # <<>>
              /\ c.refs[i].name \in Seq(STRING)
              /\ c.refs[i].kind \notin {"contains", "heuristic"}
<1>1. /\ c.symbols \in Seq(Symbols) /\ c.refs \in Seq(References)
      /\ \A i \in DOMAIN c.symbols : c.symbols[i].owner \in 0 .. Len(c.symbols)
      /\ \A i \in DOMAIN c.refs :
           /\ c.refs[i].from \in DOMAIN c.symbols /\ c.refs[i].name # <<>>
           /\ c.refs[i].kind \notin {"contains", "heuristic"}
  BY ProjectAssumption
<1>2. DOMAIN c.symbols = 1 .. Len(c.symbols) /\ Len(c.symbols) \in Nat
  BY <1>1, LenProperties
<1>3. \A i \in DOMAIN c.refs : c.refs[i].name \in Seq(STRING)
  <2>1. \A i \in DOMAIN c.refs : c.refs[i] \in References
    BY <1>1, LenProperties
  <2>2. QED
    BY <2>1 DEF References
<1>5. \A i \in DOMAIN c.symbols : c.symbols[i].owner # 0 => c.symbols[i].owner \in DOMAIN c.symbols
  BY <1>1, <1>2
<1>6. QED
  BY <1>1, <1>2, <1>3, <1>5

(* Order goes through the files. *)
LEMMA FilesAreFinite == IsFiniteSet(Files)
<1>1. Order \in Seq(Files) /\ Range(Order) = Files
  BY ProjectAssumption
<1>2. DOMAIN Order = 1 .. Len(Order) /\ Len(Order) \in Nat /\ Order \in [1 .. Len(Order) -> Files]
  BY <1>1, LenProperties
<1>3. Order \in Surjection(1 .. Len(Order), Files)
  BY <1>1, <1>2 DEF Surjection, Range
<1>4. IsFiniteSet(1 .. Len(Order))
  BY <1>2, FS_Interval
<1>5. QED
  BY <1>3, <1>4, FS_Surjection

(* The files are finitely many and so are the symbols of each. *)
LEMMA NodesAreFinite ==
  ASSUME NodesHold
  PROVE  IsFiniteSet(nodes)
<1> DEFINE In(f) == {n \in nodes : n.file = f}
           all == {In(f) : f \in Files}
<1>1. ASSUME NEW f \in Files PROVE IsFiniteSet(In(f))
  <2> DEFINE place == [n \in In(f) |-> CHOOSE i \in DOMAIN content[f].symbols : n.id = Id(f, content[f].symbols[i])]
  <2>1. \A n \in In(f) : \E i \in DOMAIN content[f].symbols : n.id = Id(f, content[f].symbols[i])
    BY DEF NodesHold
  <2>2. \A n \in In(f) : place[n] \in DOMAIN content[f].symbols /\ n.id = Id(f, content[f].symbols[place[n]])
    BY <2>1
  <2> HIDE DEF place
  <2>3. place \in [In(f) -> DOMAIN content[f].symbols]
    BY <2>2 DEF place
  <2>4. \A m, n \in In(f) : place[m] = place[n] => m = n
    BY <2>2 DEF NodesHold
  <2>5. place \in Injection(In(f), DOMAIN content[f].symbols)
    BY <2>3, <2>4 DEF Injection, IsInjective
  <2>6. DOMAIN content[f].symbols = 1 .. Len(content[f].symbols) /\ Len(content[f].symbols) \in Nat
    BY ContentFacts DEF NodesHold
  <2> DEFINE l == Len(content[f].symbols)
  <2> HIDE DEF l
  <2>7. IsFiniteSet(DOMAIN content[f].symbols)
    <3>1. l \in Nat => IsFiniteSet(1 .. l)
      BY FS_Interval
    <3>2. QED
      BY <2>6, <3>1 DEF l
  <2>8. QED
    BY <2>5, <2>7, FS_Injection
<1>2. IsFiniteSet(all)
  <2> DEFINE g == [f \in Files |-> In(f)]
  <2>1. g \in Surjection(Files, all)
    BY DEF Surjection
  <2>2. QED
    BY <2>1, FilesAreFinite, FS_Surjection
<1>3. nodes = UNION all
  BY DEF NodesHold
<1>4. \A T \in all : IsFiniteSet(T)
  BY <1>1
<1> HIDE DEF all
<1>5. IsFiniteSet(UNION all)
  BY <1>2, <1>4, FS_UNION
<1>6. QED
  BY <1>3, <1>5

(* The nodes of one extraction. *)
LEMMA Extracted ==
  ASSUME NEW f, NEW c, NEW row, NEW n \in NodesOf(f, c, row)
  PROVE  /\ n.file = f /\ n.id[1] = f /\ n.lang = Lang[project]
         /\ \E i \in DOMAIN c.symbols : n.id = Id(f, c.symbols[i]) /\ n.kind = c.symbols[i].kind
<1>1. PICK i \in DOMAIN c.symbols : n = NodeOf(f, c.symbols[i], row + i)
  BY DEF NodesOf
<1>2. /\ n.file = f /\ n.id[1] = f /\ n.id = Id(f, c.symbols[i]) /\ n.lang = Lang[project]
      /\ n.kind = c.symbols[i].kind
  BY <1>1, NodeParts
<1>3. QED
  BY <1>1, <1>2

(* Among the symbols that share an id one is the last. *)
LEMMA TheLastStays ==
  ASSUME NEW p \in DOMAIN Project, NEW f \in Files, NEW c \in Project[p][f], NEW i \in DOMAIN c.symbols
  PROVE  \E k \in DOMAIN c.symbols :
           /\ Id(f, c.symbols[k]) = Id(f, c.symbols[i])
           /\ \A j \in DOMAIN c.symbols : Id(f, c.symbols[j]) = Id(f, c.symbols[k]) => j <= k
<1> DEFINE l == Len(c.symbols)
           same == {k \in DOMAIN c.symbols : Id(f, c.symbols[k]) = Id(f, c.symbols[i])}
           back == {n \in Nat : l - n \in same}
<1>1. DOMAIN c.symbols = 1 .. l /\ l \in Nat
  BY ContentFacts
<1> HIDE DEF l
<1>2. same \subseteq 1 .. l /\ i \in same
  BY <1>1
<1>3. \A k \in same : l - k \in back
  BY <1>1, <1>2
<1>4. back \subseteq Nat /\ back # {}
  BY <1>2, <1>3
<1>5. PICK n \in back : \A m \in back : ~(<<m, n>> \in OpToRel(<, Nat))
  BY <1>4, NatLessThanWellFounded, WFMin
<1>6. \A m \in back : ~(m < n)
  BY <1>4, <1>5 DEF OpToRel
<1>7. n \in Nat /\ l - n \in same
  BY <1>4, <1>5
<1>8. ASSUME NEW j \in same PROVE j <= l - n
  <2>1. j \in 1 .. l /\ ~(l - j < n)
    BY <1>2, <1>3, <1>6
  <2>2. QED
    BY <1>1, <1>7, <2>1
<1>9. QED
  BY <1>7, <1>8

(* INSERT OR REPLACE leaves one node of each id. *)
LEMMA ExtractedOnce ==
  ASSUME NEW p \in DOMAIN Project, NEW f \in Files, NEW c \in Project[p][f], NEW row
  PROVE  /\ \A m, n \in NodesOf(f, c, row) : m.id = n.id => m = n
         /\ \A i \in DOMAIN c.symbols : \E n \in NodesOf(f, c, row) : n.id = Id(f, c.symbols[i])
<1>0. DOMAIN c.symbols \subseteq Nat
  BY ContentFacts
<1>1. ASSUME NEW m \in NodesOf(f, c, row), NEW n \in NodesOf(f, c, row), m.id = n.id PROVE m = n
  <2>1. PICK i \in DOMAIN c.symbols :
          /\ m = NodeOf(f, c.symbols[i], row + i)
          /\ \A j \in DOMAIN c.symbols : Id(f, c.symbols[j]) = Id(f, c.symbols[i]) => j <= i
    BY DEF NodesOf
  <2>2. PICK j \in DOMAIN c.symbols :
          /\ n = NodeOf(f, c.symbols[j], row + j)
          /\ \A k \in DOMAIN c.symbols : Id(f, c.symbols[k]) = Id(f, c.symbols[j]) => k <= j
    BY DEF NodesOf
  <2>3. Id(f, c.symbols[i]) = Id(f, c.symbols[j])
    BY <1>1, <2>1, <2>2, NodeParts
  <2>4. i = j
    BY <1>0, <2>1, <2>2, <2>3
  <2>5. QED
    BY <2>1, <2>2, <2>4
<1>2. ASSUME NEW i \in DOMAIN c.symbols PROVE \E n \in NodesOf(f, c, row) : n.id = Id(f, c.symbols[i])
  <2>1. PICK k \in DOMAIN c.symbols :
           /\ Id(f, c.symbols[k]) = Id(f, c.symbols[i])
           /\ \A j \in DOMAIN c.symbols : Id(f, c.symbols[j]) = Id(f, c.symbols[k]) => j <= k
    BY TheLastStays
  <2>2. NodeOf(f, c.symbols[k], row + k) \in NodesOf(f, c, row)
    BY <2>1 DEF NodesOf
  <2>3. QED
    BY <2>1, <2>2, NodeParts
<1>3. QED
  BY <1>1, <1>2

-----------------------------------------------------------------------------
(* A first index. *)
LEMMA InitNodes == ASSUME Init PROVE NodesHold
<1> DEFINE At(i) == NodesOf(Order[i], content[Order[i]], 100 * i)
<1>1. /\ project \in DOMAIN Project /\ nodes = UNION {At(i) : i \in DOMAIN Order}
      /\ content \in [Files -> UNION {Project[project][f] : f \in Files}]
      /\ \A f \in Files : content[f] \in Project[project][f]
  BY DEF Init
<1>2. /\ \A i \in DOMAIN Order : Order[i] \in Files
      /\ \A f \in Files : \E i \in DOMAIN Order : Order[i] = f
      /\ \A i, j \in DOMAIN Order : Order[i] = Order[j] => i = j
  BY ProjectAssumption DEF Range
<1>3. ASSUME NEW n \in nodes
      PROVE  /\ n.file \in Files
             /\ \E i \in DOMAIN Order : n \in At(i) /\ n.file = Order[i] /\ n.id[1] = Order[i]
             /\ n.lang = Lang[project]
             /\ \E i \in DOMAIN content[n.file].symbols :
                  /\ n.id = Id(n.file, content[n.file].symbols[i])
                  /\ n.kind = content[n.file].symbols[i].kind
  <2>1. PICK i \in DOMAIN Order : n \in At(i)
    BY <1>1
  <2>2. QED
    BY <1>2, <2>1, Extracted
<1>4. ASSUME NEW m \in nodes, NEW n \in nodes, m.id = n.id PROVE m = n
  <2>1. PICK i \in DOMAIN Order : m \in At(i) /\ m.id[1] = Order[i]
    BY <1>3
  <2>2. PICK j \in DOMAIN Order : n \in At(j) /\ n.id[1] = Order[j]
    BY <1>3
  <2>3. i = j
    BY <1>2, <1>4, <2>1, <2>2
  <2>4. QED
    BY <1>1, <1>2, <1>4, <2>1, <2>2, <2>3, ExtractedOnce
<1>5. ASSUME NEW f \in Files, NEW i \in DOMAIN content[f].symbols
      PROVE  \E n \in nodes : n.id = Id(f, content[f].symbols[i])
  <2>1. PICK j \in DOMAIN Order : Order[j] = f
    BY <1>2
  <2>2. \E n \in At(j) : n.id = Id(f, content[f].symbols[i])
    BY <1>1, <2>1, ExtractedOnce
  <2>3. QED
    BY <1>1, <2>2
<1>6. QED
  BY <1>1, <1>3, <1>4, <1>5 DEF NodesHold

(* What a file contains, as edges and references of it. *)
LEMMA ExtractedEdges ==
  ASSUME NEW p \in DOMAIN Project, NEW f \in Files, NEW c \in Project[p][f], NEW row,
         NEW e \in ContainsOf(f, c, row)
  PROVE  /\ IsRow(e) /\ e.kind = "contains" /\ ~Found(e)
         /\ \E i, j \in DOMAIN c.symbols :
              /\ c.symbols[i].owner = j /\ c.symbols[i].owner # 0
              /\ e.source = Id(f, c.symbols[j]) /\ e.target = Id(f, c.symbols[i])
<1>1. PICK i \in DOMAIN c.symbols :
        /\ c.symbols[i].owner # 0
        /\ e = Edge(Id(f, c.symbols[c.symbols[i].owner]), Id(f, c.symbols[i]), "contains",
                    Synthetic("contains", row + i))
  BY DEF ContainsOf
<1>2. c.symbols[i].owner \in DOMAIN c.symbols
  BY <1>1, ContentFacts
<1>3. IsRow(e) /\ e.kind = "contains" /\ ~Found(e)
  BY <1>1 DEF Edge, IsRow, Found
<1>4. e.source = Id(f, c.symbols[c.symbols[i].owner]) /\ e.target = Id(f, c.symbols[i])
  BY <1>1 DEF Edge
<1>5. QED
  BY <1>1, <1>2, <1>3, <1>4

(* The references of one extraction. *)
LEMMA ExtractedRefs ==
  ASSUME NEW p \in DOMAIN Project, NEW f \in Files, NEW c \in Project[p][f], NEW row,
         NEW r \in RefsOf(f, c, row)
  PROVE  /\ r.file = f /\ r.lang = Lang[project] /\ r.name \in Seq(STRING) /\ r.name # <<>>
         /\ r.kind \notin {"contains", "heuristic"}
         /\ \E i \in DOMAIN c.symbols : r.from = Id(f, c.symbols[i])
<1>1. PICK i \in DOMAIN c.refs :
        r = [row |-> row + i, from |-> Id(f, c.symbols[c.refs[i].from]), file |-> f,
             lang |-> Lang[project], line |-> i, kind |-> c.refs[i].kind,
             name |-> c.refs[i].name, sep |-> c.refs[i].sep]
  BY DEF RefsOf
<1>2. QED
  BY <1>1, ContentFacts

(* After a first index there are only the edges of what contains what. *)
LEMMA InitEdges ==
  ASSUME Init
  PROVE  EdgesHold /\ ReferencesHold /\ ReceiversHold /\ HeuristicsHold
<1>1. NodesHold /\ \A i \in DOMAIN Order : Order[i] \in Files
  BY InitNodes, ProjectAssumption DEF Range
<1>2. ASSUME NEW e \in edges
      PROVE  /\ IsRow(e) /\ ~Found(e)
             /\ \E n \in nodes : n.id = e.source
             /\ \E n \in nodes : n.id = e.target
  <2>1. PICK k \in DOMAIN Order : e \in ContainsOf(Order[k], content[Order[k]], 100 * k)
    BY DEF Init
  <2>2. /\ project \in DOMAIN Project /\ Order[k] \in Files
        /\ content[Order[k]] \in Project[project][Order[k]]
    BY <1>1 DEF NodesHold
  <2>3. PICK i, j \in DOMAIN content[Order[k]].symbols :
          /\ content[Order[k]].symbols[i].owner = j /\ content[Order[k]].symbols[i].owner # 0
          /\ e.source = Id(Order[k], content[Order[k]].symbols[j])
          /\ e.target = Id(Order[k], content[Order[k]].symbols[i])
    BY <2>1, <2>2, ExtractedEdges
  <2>4. IsRow(e) /\ ~Found(e)
    BY <2>1, <2>2, ExtractedEdges
  <2>6. QED
    BY <1>1, <2>2, <2>3, <2>4 DEF NodesHold
<1>3. ASSUME NEW r \in unresolved PROVE IsReference(r)
  <2>1. PICK k \in DOMAIN Order : r \in RefsOf(Order[k], content[Order[k]], 100 * k)
    BY DEF Init
  <2>2. /\ project \in DOMAIN Project /\ Order[k] \in Files
        /\ content[Order[k]] \in Project[project][Order[k]]
    BY <1>1 DEF NodesHold
  <2>3. QED
    BY <2>1, <2>2, ExtractedRefs DEF IsReference
<1>4. EdgesHold
  BY <1>2 DEF EdgesHold
<1>5. ReferencesHold /\ ReceiversHold
  BY <1>2, <1>3 DEF ReferencesHold, ReceiversHold
<1>6. HeuristicsHold
  BY DEF Init, HeuristicsHold
<1>7. QED
  BY <1>4, <1>5, <1>6

-----------------------------------------------------------------------------
(* A sync. *)
LEMMA SyncNodes ==
  ASSUME NodesHold, NEW f \in Files, NEW c \in Project[project][f], Sync(f, c)
  PROVE  /\ NodesHold'
         /\ project' = project /\ content'[f] = c
         /\ \A g \in Files : g # f => content'[g] = content[g]
         /\ \A n \in nodes : n.file # f => n \in nodes'
         /\ \A n \in nodes' : n.file # f => n \in nodes
         /\ nodes' = {n \in nodes : n.file # f} \cup NodesOf(f, c, LastRow(nodes))
<1> DEFINE new == NodesOf(f, c, LastRow(nodes))
<1>1. /\ project' = project /\ nodes' = {n \in nodes : n.file # f} \cup new
      /\ content' = [content EXCEPT ![f] = c]
  BY DEF Sync
<1>2. /\ project \in DOMAIN Project /\ content \in [Files -> UNION {Project[project][g] : g \in Files}]
      /\ \A g \in Files : content[g] \in Project[project][g]
  BY DEF NodesHold
<1>3. content'[f] = c /\ \A g \in Files : g # f => content'[g] = content[g]
  BY <1>1, <1>2
<1>4. /\ content' \in [Files -> UNION {Project[project][g] : g \in Files}]
      /\ \A g \in Files : content'[g] \in Project[project][g]
  BY <1>1, <1>2, <1>3
<1>5. ASSUME NEW n \in new
      PROVE  /\ n.file = f /\ n.id[1] = f /\ n.lang = Lang[project]
             /\ \E i \in DOMAIN c.symbols : n.id = Id(f, c.symbols[i]) /\ n.kind = c.symbols[i].kind
  BY Extracted
<1>6. ASSUME NEW n \in nodes'
      PROVE  /\ n.file \in Files /\ n.id[1] = n.file /\ n.lang = Lang[project]
             /\ \E i \in DOMAIN content'[n.file].symbols :
                  /\ n.id = Id(n.file, content'[n.file].symbols[i])
                  /\ n.kind = content'[n.file].symbols[i].kind
  <2>1. CASE n \in new
    BY <1>3, <1>5, <2>1
  <2>2. CASE n \in nodes /\ n.file # f
    <3>1. n.file \in Files /\ content'[n.file] = content[n.file]
      BY <1>3, <2>2 DEF NodesHold
    <3>2. QED
      BY <2>2, <3>1, NodeFacts DEF NodesHold
  <2>3. QED
    BY <1>1, <2>1, <2>2
<1>8. ASSUME NEW m \in nodes', NEW n \in nodes', m.id = n.id PROVE m = n
  <2>1. m.file = n.file
    BY <1>6, <1>8
  <2>2. CASE m.file = f
    <3>1. m \in new /\ n \in new
      BY <1>1, <2>1, <2>2
    <3>2. QED
      BY <1>2, <1>8, <3>1, ExtractedOnce
  <2>3. CASE m.file # f
    BY <1>1, <1>5, <1>8, <2>1, <2>3 DEF NodesHold
  <2>4. QED
    BY <2>2, <2>3
<1>9. ASSUME NEW g \in Files, NEW i \in DOMAIN content'[g].symbols
      PROVE  \E n \in nodes' : n.id = Id(g, content'[g].symbols[i])
  <2>1. CASE g = f
    BY <1>1, <1>2, <1>3, <2>1, ExtractedOnce
  <2>2. CASE g # f
    <3>1. PICK n \in nodes : n.id = Id(g, content[g].symbols[i])
      BY <1>3, <2>2 DEF NodesHold
    <3>2. n.file = g
      BY <3>1, NodeFacts DEF Id
    <3>3. QED
      BY <1>1, <1>3, <2>2, <3>1, <3>2
  <2>3. QED
    BY <2>1, <2>2
<1> HIDE DEF new
<1>11. NodesHold'
  <2>1. \A n \in nodes' : /\ n.file \in Files /\ n.lang = Lang[project']
                          /\ \E i \in DOMAIN content'[n.file].symbols :
                               /\ n.id = Id(n.file, content'[n.file].symbols[i])
                               /\ n.kind = content'[n.file].symbols[i].kind
    BY <1>1, <1>6
  <2>2. \A m, n \in nodes' : m.id = n.id => m = n
    BY <1>8
  <2>3. \A g \in Files : \A i \in DOMAIN content'[g].symbols :
          \E n \in nodes' : n.id = Id(g, content'[g].symbols[i])
    BY <1>9
  <2>4. /\ project' \in DOMAIN Project
        /\ content' \in [Files -> UNION {Project[project'][g] : g \in Files}]
        /\ \A g \in Files : content'[g] \in Project[project'][g]
    BY <1>1, <1>2, <1>4
  <2>5. QED
    BY <2>1, <2>2, <2>3, <2>4 DEF NodesHold, Id
<1>12. QED
  BY <1>1, <1>3, <1>5, <1>11 DEF new

(* Whoever is left of the nodes when a file is extracted again. *)
LEMMA SyncKeeps ==
  ASSUME NodesHold, NEW f \in Files, NEW c \in Project[project][f], Sync(f, c),
         NEW n \in nodes
  PROVE  /\ n.file # f <=> n.id \notin {m.id : m \in {m \in nodes : m.file = f}}
         /\ n.file # f => n \in nodes' /\ Node(n.id)' = n
<1>1. n.file # f <=> n.id \notin {m.id : m \in {m \in nodes : m.file = f}}
  BY DEF NodesHold
<1>2. ASSUME n.file # f PROVE n \in nodes' /\ Node(n.id)' = n
  <2>1. n \in nodes' /\ \A m \in nodes' : m.id = n.id => m = n
    BY <1>2, SyncNodes DEF NodesHold
  <2>2. QED
    BY <2>1 DEF Node
<1>3. QED
  BY <1>1, <1>2

(* The rows of the table of edges after a sync. *)
LEMMA SyncRows ==
  ASSUME NodesHold, EdgesHold, NEW f \in Files, NEW c \in Project[project][f], Sync(f, c),
         NEW e \in edges'
  PROVE  \/ \E s, t \in nodes : /\ e \in edges /\ e.source = s.id /\ e.target = t.id
                                /\ s.file # f /\ t.file # f
         \/ e \in ContainsOf(f, c, LastRow(edges))
         \/ \E d \in edges, s, o \in nodes, n \in NodesOf(f, c, LastRow(nodes)) :
              /\ d.source = s.id /\ d.target = o.id /\ s.file # f /\ o.file = f /\ SameSymbol(n, o)
              /\ IsRow(e) /\ e.source = d.source /\ e.target = n.id /\ e.kind = d.kind /\ e.ref = d.ref
<1> DEFINE old == {n \in nodes : n.file = f}
           ids == {n.id : n \in old}
           new == NodesOf(f, c, LastRow(nodes))
           incoming == {d \in edges : d.source \notin ids /\ d.target \in ids}
           back == Restored(incoming, old, new, LastRow(edges) + Len(c.symbols))
<1>1. edges' = {d \in edges : d.source \notin ids /\ d.target \notin ids}
                 \cup ContainsOf(f, c, LastRow(edges)) \cup back
  BY DEF Sync
<1>2. \A d \in edges : /\ \E s \in nodes : s.id = d.source
                       /\ \E t \in nodes : t.id = d.target
  BY DEF EdgesHold
<1>3. \A n \in nodes : n.file # f <=> n.id \notin ids
  BY SyncKeeps
<1>4. CASE e \in edges /\ e.source \notin ids /\ e.target \notin ids
  <2>1. PICK s \in nodes, t \in nodes : s.id = e.source /\ t.id = e.target
    BY <1>2, <1>4
  <2>2. s.file # f /\ t.file # f
    BY <1>3, <1>4, <2>1
  <2>3. QED
    BY <1>4, <2>1, <2>2
<1>5. CASE e \in back
  <2> DEFINE target(d) == CHOOSE n \in old : n.id = d.target
             same(d) == Earliest({n \in new : SameSymbol(n, target(d))})
  <2>1. PICK d \in incoming :
          /\ same(d) # {}
          /\ e = [d EXCEPT !.row = LastRow(edges) + Len(c.symbols) + @, !.target = (CHOOSE n \in same(d) : TRUE).id]
    BY <1>5 DEF Restored
  <2>2. PICK s \in nodes, o \in nodes : s.id = d.source /\ o.id = d.target
    BY <1>2, <2>1
  <2>3. s.file # f /\ o.file = f /\ o \in old
    BY <1>3, <2>1, <2>2
  <2>4. target(d) = o
    BY <2>2, <2>3 DEF NodesHold
  <2>5. PICK n : n = CHOOSE x \in same(d) : TRUE
    OBVIOUS
  <2>6. n \in same(d)
    BY <2>1, <2>5
  <2>7. n \in new /\ SameSymbol(n, o)
    BY <2>4, <2>6 DEF Earliest
  <2>8. e = [d EXCEPT !.row = LastRow(edges) + Len(c.symbols) + @, !.target = n.id]
    BY <2>1, <2>5
  <2>9. d = [row |-> d.row, source |-> d.source, target |-> d.target, kind |-> d.kind, ref |-> d.ref]
    BY <2>1 DEF EdgesHold, IsRow
  <2>10. PICK row : row = LastRow(edges) + Len(c.symbols) + d.row
    OBVIOUS
  <2>11. e = [row |-> row, source |-> d.source, target |-> n.id, kind |-> d.kind, ref |-> d.ref]
    BY <2>8, <2>9, <2>10
  <2>12. /\ IsRow(e) /\ e.source = d.source /\ e.target = n.id /\ e.kind = d.kind /\ e.ref = d.ref
    BY <2>11 DEF IsRow
  <2>13. QED
    BY <2>1, <2>2, <2>3, <2>7, <2>12
<1>6. QED
  BY <1>1, <1>4, <1>5

(* Cascade and restoration leave no edge without its ends. *)
LEMMA SyncEdges ==
  ASSUME NodesHold, EdgesHold, NEW f \in Files, NEW c \in Project[project][f], Sync(f, c)
  PROVE  EdgesHold'
<1>1. /\ NodesHold' /\ project' = project /\ content'[f] = c
      /\ \A g \in Files : g # f => content'[g] = content[g]
      /\ \A n \in nodes : n.file # f => n \in nodes'
      /\ NodesOf(f, c, LastRow(nodes)) \subseteq nodes'
  BY SyncNodes
<1>0. project \in DOMAIN Project
  BY DEF NodesHold
<1>2. \A i \in DOMAIN c.symbols : \E n \in nodes' : n.id = Id(f, c.symbols[i])
  BY <1>1, <1>0, ExtractedOnce
<1>3. SUFFICES ASSUME NEW e \in edges'
               PROVE  /\ IsRow(e)
                      /\ \E n \in nodes' : n.id = e.source
                      /\ \E n \in nodes' : n.id = e.target
  BY DEF EdgesHold, IsRow
<1>4. CASE \E s, t \in nodes : /\ e \in edges /\ e.source = s.id /\ e.target = t.id
                               /\ s.file # f /\ t.file # f
  <2>1. PICK s \in nodes, t \in nodes : /\ e \in edges /\ e.source = s.id /\ e.target = t.id
                                        /\ s.file # f /\ t.file # f
    BY <1>4
  <2>3. IsRow(e)
    BY <2>1 DEF EdgesHold
  <2>4. QED
    BY <1>1, <2>1, <2>3
<1>5. CASE e \in ContainsOf(f, c, LastRow(edges))
  <2>1. PICK i \in DOMAIN c.symbols, j \in DOMAIN c.symbols :
          /\ c.symbols[i].owner = j /\ c.symbols[i].owner # 0
          /\ e.source = Id(f, c.symbols[j]) /\ e.target = Id(f, c.symbols[i])
    BY <1>0, <1>5, ExtractedEdges
  <2>2. IsRow(e)
    BY <1>0, <1>5, ExtractedEdges
  <2>3. QED
    BY <1>1, <1>2, <2>1, <2>2
<1>6. CASE \E d \in edges, s, o \in nodes, n \in NodesOf(f, c, LastRow(nodes)) :
              /\ d.source = s.id /\ d.target = o.id /\ s.file # f /\ o.file = f /\ SameSymbol(n, o)
              /\ IsRow(e) /\ e.source = d.source /\ e.target = n.id /\ e.kind = d.kind /\ e.ref = d.ref
  <2>1. PICK d \in edges, s \in nodes, o \in nodes, n \in NodesOf(f, c, LastRow(nodes)) :
              /\ d.source = s.id /\ d.target = o.id /\ s.file # f /\ o.file = f
              /\ IsRow(e) /\ e.source = d.source /\ e.target = n.id /\ e.kind = d.kind
    BY <1>6
  <2>3. QED
    BY <1>1, <2>1
<1>7. QED
  BY <1>4, <1>5, <1>6, SyncRows

(* The class of a variable is known from the nodes of its file. *)
LEMMA InferStays ==
  ASSUME NEW r, NEW v, \A n : n.file = r.file => (n \in nodes' <=> n \in nodes)
  PROVE  InferType(r, v)' = InferType(r, v)
<1> DEFINE made == {n \in nodes : /\ n.file = r.file /\ n.lang = r.lang
                                  /\ n.kind \in {"variable", "constant"}
                                  /\ n.name = <<v>> /\ n.sig # <<>>}
<1>1. made' = made
  OBVIOUS
<1>2. InferType(r, v) = {Last(n.sig) : n \in {n \in made : \A m \in made : m.line <= n.line}}
  BY DEF InferType
<1>3. InferType(r, v)' = {Last(n.sig) : n \in {n \in made' : \A m \in made' : m.line <= n.line}}
  BY DEF InferType, Last
<1> HIDE DEF made
<1>4. QED
  BY <1>1, <1>2, <1>3

(* What a sync puts back leads to the same symbol, and so to the same class. *)
LEMMA SyncReferences ==
  ASSUME NodesHold, EdgesHold, ReferencesHold, ReceiversHold,
         NEW f \in Files, NEW c \in Project[project][f], Sync(f, c)
  PROVE  ReferencesHold' /\ ReceiversHold'
<1>1. /\ NodesHold' /\ project' = project /\ content'[f] = c
      /\ \A g \in Files : g # f => content'[g] = content[g]
      /\ \A n \in nodes : n.file # f => n \in nodes'
      /\ \A n \in nodes' : n.file # f => n \in nodes
      /\ NodesOf(f, c, LastRow(nodes)) \subseteq nodes'
  BY SyncNodes
<1>0. project \in DOMAIN Project
  BY DEF NodesHold
<1> DEFINE Refers(r) ==
             /\ r.file \in Files /\ r.lang = Lang[project']
             /\ r.name \in Seq(STRING) /\ r.name # <<>> /\ r.kind \notin {"contains", "heuristic"}
             /\ \E i \in DOMAIN content'[r.file].symbols : r.from = Id(r.file, content'[r.file].symbols[i])
<1>2. ASSUME NEW r, IsReference(r), r.file # f PROVE Refers(r)
  BY <1>1, <1>2 DEF IsReference
<1>3. ASSUME NEW r \in unresolved' PROVE Refers(r)
  <2>1. CASE r \in unresolved /\ r.file # f
    BY <1>2, <2>1 DEF ReferencesHold
  <2>2. CASE r \in RefsOf(f, c, LastRow(unresolved))
    BY <1>1, <1>0, <2>2, ExtractedRefs
  <2>3. QED
    BY <2>1, <2>2 DEF Sync
(* An edge from another file keeps its reference, and what it refers to is as it was. *)
<1>4. ASSUME NEW e \in edges', Found(e), OnVariable(e.ref)
      PROVE  \E d \in edges, t \in nodes' :
               /\ d.ref = e.ref /\ d.source = e.source /\ Found(d)
               /\ IsReference(e.ref) /\ e.ref.file # f /\ e.source = e.ref.from
               /\ e.target = t.id /\ ClassOf(t) = ClassOf(Node(d.target))
  <2>1. CASE \E s, t \in nodes : /\ e \in edges /\ e.source = s.id /\ e.target = t.id
                                 /\ s.file # f /\ t.file # f
    <3>1. PICK s \in nodes, t \in nodes : /\ e \in edges /\ e.source = s.id /\ e.target = t.id
                                          /\ s.file # f /\ t.file # f
      BY <2>1
    <3>2. IsReference(e.ref) /\ e.source = e.ref.from
      BY <1>4, <3>1 DEF ReferencesHold
    <3>3. e.ref.file # f
      BY <3>1, <3>2, NodeOfId DEF IsReference
    <3>4. t \in nodes' /\ Node(e.target) = t
      BY <1>1, <3>1, NodeFacts
    <3>5. QED
      BY <1>4, <3>1, <3>2, <3>3, <3>4
  <2>2. CASE e \in ContainsOf(f, c, LastRow(edges))
    BY <1>0, <1>4, <2>2, ExtractedEdges
  <2>3. CASE \E d \in edges, s, o \in nodes, n \in NodesOf(f, c, LastRow(nodes)) :
              /\ d.source = s.id /\ d.target = o.id /\ s.file # f /\ o.file = f /\ SameSymbol(n, o)
              /\ IsRow(e) /\ e.source = d.source /\ e.target = n.id /\ e.kind = d.kind /\ e.ref = d.ref
    <3>1. PICK d \in edges, s \in nodes, o \in nodes, n \in NodesOf(f, c, LastRow(nodes)) :
              /\ d.source = s.id /\ d.target = o.id /\ s.file # f /\ o.file = f /\ SameSymbol(n, o)
              /\ e.source = d.source /\ e.target = n.id /\ e.kind = d.kind /\ e.ref = d.ref
      BY <2>3
    <3>2. Found(d) /\ OnVariable(d.ref)
      BY <1>4, <3>1 DEF Found
    <3>3. IsReference(e.ref) /\ e.source = e.ref.from
      BY <3>1, <3>2 DEF ReferencesHold
    <3>4. e.ref.file # f
      BY <3>1, <3>3, NodeOfId DEF IsReference
    <3>5. n \in nodes' /\ Node(d.target) = o
      BY <1>1, <3>1, NodeFacts
    <3>6. n.lang = o.lang /\ n.qual = o.qual
      BY <3>1, NodeFacts, Extracted DEF SameSymbol
    <3>7. ClassOf(n) = ClassOf(o)
      BY <3>6 DEF ClassOf, Owner
    <3>8. QED
      BY <3>1, <3>2, <3>3, <3>4, <3>5, <3>7
  <2>4. QED
    BY <2>1, <2>2, <2>3, SyncRows
<1>5. ASSUME NEW e \in edges', Found(e), OnVariable(e.ref),
             InferType(e.ref, e.ref.name[1])' # {}
      PROVE  ClassOf(Node(e.target)') \in InferType(e.ref, e.ref.name[1])'
  <2>1. PICK d \in edges, t \in nodes' :
               /\ d.ref = e.ref /\ d.source = e.source /\ Found(d)
               /\ IsReference(e.ref) /\ e.ref.file # f
               /\ e.target = t.id /\ ClassOf(t) = ClassOf(Node(d.target))
    BY <1>4, <1>5
  <2>2. PICK r, v : r = e.ref /\ v = e.ref.name[1]
    OBVIOUS
  <2>3. InferType(r, v)' = InferType(r, v)
    BY <1>1, <2>1, <2>2, InferStays
  <2>4. InferType(r, v) # {} /\ ClassOf(Node(d.target)) \in InferType(r, v)
    BY <1>5, <2>1, <2>2, <2>3 DEF ReceiversHold
  <2>5. PICK id : id = e.target
    OBVIOUS
  <2>6. Node(id)' = t
    BY <1>1, <2>1, <2>5 DEF NodesHold, Node
  <2>7. QED
    BY <2>1, <2>2, <2>3, <2>4, <2>5, <2>6
<1>6. ReferencesHold'
  <2>1. \A e \in edges' : Found(e) /\ OnVariable(e.ref) => Refers(e.ref) /\ e.source = e.ref.from
    BY <1>2, <1>4
  <2>2. QED
    BY <1>3, <2>1 DEF ReferencesHold, IsReference, Id, Found, OnVariable, DottedCall, Dotted
<1>7. ReceiversHold'
  BY <1>5 DEF ReceiversHold, Found, OnVariable, DottedCall, Dotted, ClassOf, Owner
<1>8. QED
  BY <1>6, <1>7

-----------------------------------------------------------------------------
(* A resolution. *)
LEMMA InsertRows ==
  ASSUME EdgesHold, NEW new, \A d \in new : IsRow(d), Insert(new)
  PROVE  /\ edges \subseteq edges'
         /\ \A e \in edges' :
              \/ e \in edges
              \/ \E d \in new, s, t \in nodes :
                   /\ d.source = s.id /\ d.target = t.id
                   /\ IsRow(e) /\ e.source = d.source /\ e.target = d.target
                   /\ e.kind = d.kind /\ e.ref = d.ref
         /\ \A d \in new, s, t \in nodes : d.source = s.id /\ d.target = t.id =>
              \E e \in edges' : e.source = s.id /\ e.target = t.id /\ e.kind = d.kind
<1> DEFINE last == LastRow(edges)
           ids == {n.id : n \in nodes}
           Put(d) == [d EXCEPT !.row = last + @]
           put == {Put(d) : d \in {d \in new : d.source \in ids /\ d.target \in ids}}
<1>1. edges' = edges \cup put
  BY DEF Insert
<1>2. ASSUME NEW d \in new
      PROVE  /\ IsRow(Put(d)) /\ Put(d).source = d.source /\ Put(d).target = d.target
             /\ Put(d).kind = d.kind /\ Put(d).ref = d.ref
  <2>1. d = [row |-> d.row, source |-> d.source, target |-> d.target, kind |-> d.kind, ref |-> d.ref]
    BY DEF IsRow
  <2>2. PICK row : row = last + d.row
    OBVIOUS
  <2>3. Put(d)
          = [row |-> row, source |-> d.source, target |-> d.target, kind |-> d.kind, ref |-> d.ref]
    BY <2>1, <2>2
  <2>4. QED
    BY <2>3 DEF IsRow
<1> HIDE DEF last, Put
<1>3. \A e \in put : \E d \in new, s, t \in nodes :
        /\ d.source = s.id /\ d.target = t.id
        /\ IsRow(e) /\ e.source = d.source /\ e.target = d.target
        /\ e.kind = d.kind /\ e.ref = d.ref
  BY <1>2
<1>4. ASSUME NEW d \in new, NEW s \in nodes, NEW t \in nodes, d.source = s.id, d.target = t.id
      PROVE  \E e \in put : e.source = s.id /\ e.target = t.id /\ e.kind = d.kind
  BY <1>2, <1>4
<1> HIDE DEF put
<1>5. QED
  BY <1>1, <1>3, <1>4

(* An insertion that does not say what contains what leaves the rest alone. *)
LEMMA InsertEdgesHold ==
  ASSUME NodesHold, EdgesHold, NEW new, Insert(new),
         \A d \in new : IsRow(d) /\ d.kind # "contains",
         UNCHANGED <<nodes, project, content>>
  PROVE  /\ NodesHold' /\ EdgesHold'
         /\ \A n : Methods(n)' = Methods(n) /\ MethodNames(n)' = MethodNames(n)
<1>1. /\ edges \subseteq edges'
      /\ \A e \in edges' :
              \/ e \in edges
              \/ \E d \in new, s, t \in nodes :
                   /\ d.source = s.id /\ d.target = t.id
                   /\ IsRow(e) /\ e.source = d.source /\ e.target = d.target
                   /\ e.kind = d.kind /\ e.ref = d.ref
  BY InsertRows
<1>2. NodesHold'
  BY DEF NodesHold, Id
<1>3. EdgesHold'
  <2>1. ASSUME NEW e \in edges' PROVE /\ IsRow(e)
                                      /\ \E n \in nodes : n.id = e.source
                                      /\ \E n \in nodes : n.id = e.target
    BY <1>1 DEF EdgesHold
  <2>2. QED
    BY <2>1 DEF EdgesHold, IsRow
<1>4. \A e \in edges' : e.kind = "contains" => e \in edges
  BY <1>1
<1>5. ASSUME NEW n PROVE Methods(n)' = Methods(n) /\ MethodNames(n)' = MethodNames(n)
  <2>1. Methods(n)' = Methods(n)
    BY <1>1, <1>4 DEF Methods
  <2>2. MethodNames(n)' = MethodNames(n)
    BY <2>1 DEF MethodNames
  <2>3. QED
    BY <2>1, <2>2
<1>6. QED
  BY <1>2, <1>3, <1>5

(* What the resolution of one reference inserts. *)
LEMMA ResolvedRows ==
  ASSUME NodesHold, ReferencesHold, NEW r \in unresolved, NEW e \in ResolveRef(r)
  PROVE  /\ IsRow(e) /\ e.kind # "contains" /\ e.ref = r
         /\ OnVariable(r) => e.source = r.from
         /\ OnVariable(r) /\ InferType(r, r.name[1]) # {} => ClassOf(Node(e.target)) \in InferType(r, r.name[1])
<1>1. r.kind # "contains" /\ r.name \in Seq(STRING)
  BY DEF ReferencesHold, IsReference
<1>2. e.kind # "contains" /\ e = Edge(e.source, e.target, e.kind, r)
  BY <1>1, ResolvedIsPlain DEF Plain
<1>3. IsRow(e) /\ e.ref = r
  BY <1>2 DEF Edge, IsRow
<1>4. ASSUME OnVariable(r), InferType(r, r.name[1]) # {}
      PROVE  /\ e.source = r.from
             /\ ClassOf(Node(e.target)) \in InferType(r, r.name[1])
  <2>1. OfClass(r, ResolveRef(r))
    BY <1>1, <1>4, ClassKnown
  <2>2. PICK n \in nodes : n.id = e.target /\ ClassOf(n) \in InferType(r, r.name[1])
    BY <2>1 DEF OfClass
  <2>3. Node(e.target) = n
    BY <2>2, NodeFacts
  <2>4. QED
    BY <2>1, <2>2, <2>3 DEF OfClass
<1>5. ASSUME OnVariable(r), InferType(r, r.name[1]) = {} PROVE e.source = r.from
  BY <1>1, <1>5, NodesAreFinite, ClassUnknown DEF OnlyOne
<1>6. QED
  BY <1>2, <1>3, <1>4, <1>5

(* What an insertion adds keeps to the classes, if it is resolved or synthetic. *)
LEMMA InsertReferences ==
  ASSUME NodesHold, EdgesHold, ReferencesHold, ReceiversHold, NEW new, Insert(new),
         \A d \in new : /\ IsRow(d) /\ d.kind # "contains"
                        /\ Found(d) => \E r \in unresolved : d \in ResolveRef(r),
         UNCHANGED <<nodes, project, content>>, unresolved' \subseteq unresolved
  PROVE  ReferencesHold' /\ ReceiversHold'
<1>1. ASSUME NEW e \in edges', Found(e), OnVariable(e.ref)
      PROVE  /\ IsReference(e.ref) /\ e.source = e.ref.from
             /\ InferType(e.ref, e.ref.name[1]) # {} => ClassOf(Node(e.target)) \in InferType(e.ref, e.ref.name[1])
  <2>1. CASE e \in edges
    BY <1>1, <2>1 DEF ReferencesHold, ReceiversHold
  <2>2. CASE \E d \in new, s, t \in nodes :
                   /\ d.source = s.id /\ d.target = t.id
                   /\ IsRow(e) /\ e.source = d.source /\ e.target = d.target
                   /\ e.kind = d.kind /\ e.ref = d.ref
    <3>1. PICK d \in new : /\ e.source = d.source /\ e.target = d.target
                           /\ e.kind = d.kind /\ e.ref = d.ref
      BY <2>2
    <3>2. Found(d)
      BY <1>1, <3>1 DEF Found
    <3>3. PICK r \in unresolved : d \in ResolveRef(r)
      BY <3>2
    <3>4. /\ e.ref = r /\ e.source = r.from
          /\ InferType(r, r.name[1]) # {} => ClassOf(Node(e.target)) \in InferType(r, r.name[1])
      BY <1>1, <3>1, <3>3, ResolvedRows
    <3>5. IsReference(r)
      BY <3>3 DEF ReferencesHold
    <3>6. QED
      BY <3>4, <3>5
  <2>3. QED
    BY <2>1, <2>2, InsertRows
<1>2. \A r : IsReference(r)' <=> IsReference(r)
  BY DEF IsReference, Id
<1>3. \A r, v : InferType(r, v)' = InferType(r, v)
  <2>1. SUFFICES ASSUME NEW r, NEW v PROVE InferType(r, v)' = InferType(r, v)
    OBVIOUS
  <2>2. QED
    BY InferStays
<1>4. \A id : Node(id)' = Node(id)
  BY DEF Node
<1>5. ReferencesHold'
  <2>1. \A e \in edges' : Found(e) /\ OnVariable(e.ref) => IsReference(e.ref) /\ e.source = e.ref.from
    BY <1>1
  <2>2. \A r \in unresolved' : IsReference(r)
    BY DEF ReferencesHold
  <2>3. QED
    BY <2>1, <2>2 DEF ReferencesHold, IsReference, Id, Found, OnVariable, DottedCall, Dotted
<1>6. ReceiversHold'
  <2>1. \A e \in edges' : Found(e) /\ OnVariable(e.ref) /\ InferType(e.ref, e.ref.name[1]) # {}
          => ClassOf(Node(e.target)) \in InferType(e.ref, e.ref.name[1])
    BY <1>1
  <2>2. ASSUME NEW e \in edges', Found(e), OnVariable(e.ref), InferType(e.ref, e.ref.name[1])' # {}
        PROVE  ClassOf(Node(e.target)') \in InferType(e.ref, e.ref.name[1])'
    <3>1. PICK r, v, id : r = e.ref /\ v = e.ref.name[1] /\ id = e.target
      OBVIOUS
    <3>2. InferType(r, v)' = InferType(r, v) /\ Node(id)' = Node(id)
      BY <1>3, <1>4
    <3>3. QED
      BY <2>1, <2>2, <3>1, <3>2
  <2>3. QED
    BY <2>2 DEF ReceiversHold, Found, OnVariable, DottedCall, Dotted, ClassOf, Owner
<1>7. QED
  BY <1>5, <1>6

(* The edges of Go's interfaces. *)
LEMMA HeuristicRows ==
  /\ \A d \in ImplementsEdges : IsRow(d) /\ d.kind = "implements" /\ ~Found(d)
  /\ \A d \in OverrideEdges : IsRow(d) /\ d.kind = "calls" /\ ~Found(d)
<1>1. ASSUME NEW source, NEW target, NEW kind
      PROVE  LET d == Edge(source, target, kind, Synthetic("heuristic", 1))
             IN IsRow(d) /\ d.kind = kind /\ ~Found(d) /\ d.source = source /\ d.target = target
  BY DEF Edge, Synthetic, IsRow, Found
<1>2. \A d \in ImplementsEdges : IsRow(d) /\ d.kind = "implements" /\ ~Found(d)
  BY <1>1 DEF ImplementsEdges
<1>3. \A d \in OverrideEdges : IsRow(d) /\ d.kind = "calls" /\ ~Found(d)
  BY <1>1 DEF OverrideEdges
<1>4. QED
  BY <1>2, <1>3

(* The second transaction. *)
LEMMA ImplementsInserted ==
  ASSUME NodesHold, EdgesHold, HeuristicsHold, InsertImplements
  PROVE  HeuristicsHold' /\ NodesHold' /\ EdgesHold'
<1>1. Insert(ImplementsEdges) /\ UNCHANGED <<nodes, project, content>> /\ pc' = "overrides"
  BY DEF InsertImplements, Goes
<1>2. /\ NodesHold' /\ EdgesHold'
      /\ \A n : Methods(n)' = Methods(n) /\ MethodNames(n)' = MethodNames(n)
  BY <1>1, HeuristicRows, InsertEdgesHold
<1>3. ASSUME NEW s \in GoNodes("struct"), NEW i \in GoNodes("interface"), Satisfies(s, i)
      PROVE  \E e \in edges' : e.kind = "implements" /\ e.source = s.id /\ e.target = i.id
  <2> DEFINE d == Edge(s.id, i.id, "implements", Synthetic("heuristic", 1))
  <2>1. d \in ImplementsEdges
    <3>1. <<s, i>> \in {p \in GoNodes("struct") \X GoNodes("interface") : Satisfies(p[1], p[2])}
      BY <1>3
    <3>2. QED
      BY <3>1 DEF ImplementsEdges
  <2>2. d.source = s.id /\ d.target = i.id /\ d.kind = "implements" /\ s \in nodes /\ i \in nodes
    BY DEF Edge, GoNodes
  <2> HIDE DEF d
  <2>3. QED
    BY <1>1, <2>1, <2>2, HeuristicRows, InsertRows
<1>4. ImplementsStand'
  <2>1. \A kind : GoNodes(kind)' = GoNodes(kind)
    BY <1>1 DEF GoNodes
  <2>2. \A s, i : Satisfies(s, i)' <=> Satisfies(s, i)
    BY <1>2 DEF Satisfies
  <2>3. QED
    BY <1>3, <2>1, <2>2 DEF ImplementsStand
<1>5. HeuristicsHold'
  BY <1>1, <1>4 DEF HeuristicsHold
<1>6. QED
  BY <1>2, <1>5

(* The third transaction. *)
LEMMA OverridesInserted ==
  ASSUME NodesHold, EdgesHold, HeuristicsHold, InsertOverrides
  PROVE  HeuristicsHold' /\ NodesHold' /\ EdgesHold'
<1>1. /\ Insert(OverrideEdges) /\ UNCHANGED <<nodes, project, content>> /\ pc' = "clear"
      /\ ImplementsStand
  BY DEF InsertOverrides, Goes, HeuristicsHold
<1>2. /\ NodesHold' /\ EdgesHold'
      /\ \A n : Methods(n)' = Methods(n) /\ MethodNames(n)' = MethodNames(n)
  BY <1>1, HeuristicRows, InsertEdgesHold
<1>3. ASSUME NEW s \in GoNodes("struct"), NEW i \in GoNodes("interface"), Satisfies(s, i),
             NEW m \in Methods(i), NEW k \in Methods(s), m.name = k.name, m # k
      PROVE  \E e \in edges' : e.kind = "calls" /\ e.source = m.id /\ e.target = k.id
  <2> DEFINE d == Edge(m.id, k.id, "calls", Synthetic("heuristic", 1))
  <2>1. d \in OverrideEdges
    <3>1. <<s, i>> \in Implementing
      BY <1>1, <1>3 DEF ImplementsStand, Implementing, GoNodes
    <3>2. m.id # k.id
      BY <1>3 DEF NodesHold, Methods
    <3>3. <<m, k>> \in {q \in Methods(i) \X Methods(s) : q[1].name = q[2].name /\ q[1].id # q[2].id}
      BY <1>3, <3>2
    <3>4. d \in {Edge(q[1].id, q[2].id, "calls", Synthetic("heuristic", 1))
                   : q \in {q \in Methods(i) \X Methods(s) : q[1].name = q[2].name /\ q[1].id # q[2].id}}
      BY <3>3
    <3> HIDE DEF d
    <3>5. QED
      BY <3>1, <3>4 DEF OverrideEdges
  <2>2. d.source = m.id /\ d.target = k.id /\ d.kind = "calls" /\ m \in nodes /\ k \in nodes
    BY DEF Edge, Methods
  <2> HIDE DEF d
  <2>3. QED
    BY <1>1, <2>1, <2>2, HeuristicRows, InsertRows
<1>4. edges \subseteq edges'
  BY <1>1, HeuristicRows, InsertRows
<1>5. ImplementsStand' /\ OverridesStand'
  <2>1. \A kind : GoNodes(kind)' = GoNodes(kind)
    BY <1>1 DEF GoNodes
  <2>2. \A s, i : Satisfies(s, i)' <=> Satisfies(s, i)
    BY <1>2 DEF Satisfies
  <2>3. ImplementsStand'
    BY <1>1, <1>4, <2>1, <2>2 DEF ImplementsStand
  <2>4. OverridesStand'
    BY <1>2, <1>3, <2>1, <2>2 DEF OverridesStand
  <2>5. QED
    BY <2>3, <2>4
<1>6. HeuristicsHold'
  BY <1>1, <1>5 DEF HeuristicsHold
<1>7. QED
  BY <1>2, <1>6

-----------------------------------------------------------------------------
(* The inductive invariant, and what it proves. *)
ResolutionInv == NodesHold /\ EdgesHold /\ ReferencesHold /\ ReceiversHold /\ HeuristicsHold

(* Every step keeps the invariant. *)
LEMMA ResolutionInvariant == Spec => []ResolutionInv
<1>1. Init => ResolutionInv
  BY InitNodes, InitEdges DEF ResolutionInv
<1>2. ResolutionInv /\ [Next]_vars => ResolutionInv'
  <2> SUFFICES ASSUME ResolutionInv, [Next]_vars PROVE ResolutionInv'
    OBVIOUS
  <2> USE DEF ResolutionInv
  <2>1. ASSUME NEW f \in Files, NEW c \in Project[project][f], Sync(f, c) PROVE ResolutionInv'
    <3>1. NodesHold' /\ EdgesHold' /\ ReferencesHold' /\ ReceiversHold'
      BY <2>1, SyncNodes, SyncEdges, SyncReferences
    <3>2. HeuristicsHold'
      BY <2>1 DEF Sync, HeuristicsHold
    <3>3. QED
      BY <3>1, <3>2
  <2>2. CASE InsertResolved
    <3> DEFINE new == UNION {ResolveRef(r) : r \in unresolved}
    <3>1. /\ Insert(new) /\ UNCHANGED <<nodes, project, content, unresolved>> /\ pc' = "implements"
      BY <2>2 DEF InsertResolved, Goes
    <3>2. \A d \in new : \E r \in unresolved : d \in ResolveRef(r)
      OBVIOUS
    <3> HIDE DEF new
    <3>3. \A d \in new : IsRow(d) /\ d.kind # "contains"
      BY <3>2, ResolvedRows
    <3>4. NodesHold' /\ EdgesHold'
      BY <3>1, <3>3, InsertEdgesHold
    <3>5. ReferencesHold' /\ ReceiversHold'
      BY <3>1, <3>2, <3>3, InsertReferences
    <3>6. HeuristicsHold'
      BY <3>1 DEF HeuristicsHold
    <3>7. QED
      BY <3>4, <3>5, <3>6
  <2>3. CASE InsertImplements
    <3>1. Insert(ImplementsEdges) /\ UNCHANGED <<nodes, project, content, unresolved>>
      BY <2>3 DEF InsertImplements, Goes
    <3>2. ReferencesHold' /\ ReceiversHold'
      BY <3>1, HeuristicRows, InsertReferences
    <3>3. QED
      BY <2>3, <3>2, ImplementsInserted
  <2>4. CASE InsertOverrides
    <3>1. Insert(OverrideEdges) /\ UNCHANGED <<nodes, project, content, unresolved>>
      BY <2>4 DEF InsertOverrides, Goes
    <3>2. ReferencesHold' /\ ReceiversHold'
      BY <3>1, HeuristicRows, InsertReferences
    <3>3. QED
      BY <2>4, <3>2, OverridesInserted
  (* The rest leaves nodes and edges alone. *)
  <2>5. ASSUME UNCHANGED <<nodes, edges, project, content>>, unresolved' \subseteq unresolved,
               HeuristicsHold => /\ pc' \in {"references", "implements", "overrides", "clear", "idle"}
                                 /\ pc' \in {"overrides", "clear"} \/ (pc' = "idle" /\ whole') => ImplementsStand
                                 /\ pc' = "clear" \/ (pc' = "idle" /\ whole') => OverridesStand
        PROVE  ResolutionInv'
    <3>1. NodesHold' /\ EdgesHold' /\ ReferencesHold'
      BY <2>5 DEF NodesHold, EdgesHold, ReferencesHold, IsRow, IsReference, Id, Found,
                  OnVariable, DottedCall, Dotted
    <3>2. ReceiversHold'
      BY <2>5 DEF ReceiversHold, InferType, Node
    <3>3. ImplementsStand' = ImplementsStand /\ OverridesStand' = OverridesStand
      BY <2>5 DEF ImplementsStand, OverridesStand, Satisfies, MethodNames, Methods, GoNodes
    <3>4. HeuristicsHold'
      BY <2>5, <3>3 DEF HeuristicsHold
    <3>5. QED
      BY <3>1, <3>2, <3>4
  <2>6. CASE ClearUnresolved
    BY <2>5, <2>6 DEF ClearUnresolved, Goes, HeuristicsHold
  <2>7. CASE Fails
    BY <2>5, <2>7 DEF Fails, HeuristicsHold
  <2>8. CASE UNCHANGED vars
    BY <2>5, <2>8 DEF vars, HeuristicsHold
  <2>9. QED
    BY <2>1, <2>2, <2>3, <2>4, <2>6, <2>7, <2>8 DEF Next
<1>3. QED
  BY <1>1, <1>2, PTL DEF Spec

(* ReceiversAreNotGuessed (resolve.go:259, 626, 1040, 1690): a method called on a
   variable is one of the class that the variable is constructed from, however
   near another class has a method of that name, and stays so through every sync
   that deletes and puts back the edge; without a class it is only taken where no
   other callable has the name. *)
THEOREM ReceiversAreKnown == Spec => []ReceiversAreNotGuessed
<1>1. ResolutionInv => ReceiversAreNotGuessed
  <2> SUFFICES ASSUME ResolutionInv PROVE ReceiversAreNotGuessed
    OBVIOUS
  <2> USE DEF ResolutionInv
  <2>1. ASSUME NEW r \in unresolved, OnVariable(r), InferType(r, r.name[1]) = {}, NEW e \in ResolveRef(r)
        PROVE  OfKind(r, Tail(r.name), Callable) = {Node(e.target)}
    <3>1. r.name \in Seq(STRING)
      BY DEF ReferencesHold, IsReference
    <3>2. PICK n \in nodes : n.id = e.target /\ OfKind(r, Tail(r.name), Callable) = {n}
      BY <2>1, <3>1, ClassUnknown, NodesAreFinite DEF OnlyOne
    <3>3. QED
      BY <3>2, NodeFacts
  <2>2. QED
    BY <2>1 DEF ReceiversAreNotGuessed, ReceiversHold
<1>2. QED
  BY <1>1, ResolutionInvariant, PTL

(* OwnFileComesFirst (resolve.go:4778): in each of the languages, with a rule of
   its own or without, a call of a bare name leads to a function of the same file
   if there is one and nothing else has that name; except in a JVM file without a
   package that imports the name wholly. *)
THEOREM OwnFilesComeFirst == Spec => []OwnFileComesFirst
<1>1. ResolutionInv => OwnFileComesFirst
  <2> SUFFICES ASSUME ResolutionInv, NEW r \in unresolved,
                      r.kind = "calls", Len(r.name) = 1, r.sep = ".", OwnOf(r) # {},
                      \A n \in Named(r.name) : n.kind = "function",
                      ~ShadowedByImports(r), NEW e \in ResolveRef(r)
               PROVE  Node(e.target) \in OwnOf(r)
    BY DEF OwnFileComesFirst, OwnOf
  <2> USE DEF ResolutionInv
  <2>1. r.name \in Seq(STRING) /\ r.lang = Lang[project]
    BY DEF ReferencesHold, IsReference
  <2>2. \A n \in Named(r.name) : n \in nodes /\ n.lang = r.lang
    BY <2>1, NodeFacts DEF Named
  <2>3. CallsOwn(r)
    BY <2>1, <2>2 DEF CallsOwn
  <2>4. PICK n \in OwnOf(r) : n.id = e.target
    BY <2>3, ResolvedIsOwn DEF Reaches
  <2>5. n \in nodes
    BY DEF OwnOf, Spoken, Named
  <2>6. QED
    BY <2>4, <2>5, NodeFacts
<1>2. QED
  BY <1>1, ResolutionInvariant, PTL

(* HeuristicsAreComplete (resolve.go:5007, 5093): after a whole resolution every
   struct that has the methods of an interface is joined to it, and each of those
   methods is called from the interface's, whichever file was indexed when and
   however many resolutions failed before. *)
THEOREM InterfacesAreReached == Spec => []HeuristicsAreComplete
<1>1. ResolutionInv => HeuristicsAreComplete
  BY DEF ResolutionInv, HeuristicsHold, HeuristicsAreComplete, ImplementsStand, OverridesStand, Satisfies
<1>2. QED
  BY <1>1, ResolutionInvariant, PTL
=============================================================================
