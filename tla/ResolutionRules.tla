--------------------------- MODULE ResolutionRules --------------------------
(***************************************************************************)
(* The name matching of package resolve: which node a reference found in   *)
(* a file stands for, by the rules of the file's language.                 *)
(*                                                                         *)
(* A name is the sequence of its segments; r.sep is what joins those of a  *)
(* reference ("." where there is one), and "." joins the dotted names of   *)
(* nodes (util.h, the package a.b).  A rule yields a set of at most one    *)
(* edge, empty where the code returns nil.  What the code reads out of a   *)
(* signature is the sequence n.sig: the class a variable is constructed    *)
(* from, what an alias stands for, what an import names.                   *)
(*                                                                         *)
(* Left out: names that mix two separators, directories in included paths  *)
(* (a path names a file of the directory of its reference, or none), and   *)
(* the spelling of names: Capitals, Words and Builtin stand for it.        *)
(***************************************************************************)
EXTENDS Naturals, SequencesExt

CONSTANTS
  Dir,              \* Dir[f]: the directory of a file
  Within,           \* <<d, e>>: directory d is e, or below it
  Capitals,         \* names that begin with a capital letter
  Words,            \* Words[name]: its camel-case words, without regard to case
  Builtin,          \* Builtin[lang]: names a language's rules leave alone
  BuiltinModules,   \* modules of F# whose calls are left alone
  GoStdPackages,    \* names of Go's standard packages
  IdBefore(_, _),   \* the order of the identifiers of two nodes
  GoImport          \* GoImport[<<f, alias>>]: "none", "std", "external", or a directory

VARIABLES
  nodes,  \* the rows of the table of nodes
  edges   \* the rows of the table of edges

Text(r)  == IF Len(r.name) = 1 \/ r.sep = "." THEN r.name ELSE <<>>

Dotted(r) == r.sep = "." /\ Len(r.name) > 1
Scoped(r) == r.sep = "::" /\ Len(r.name) > 1

-----------------------------------------------------------------------------
(* Queries and choices that every language shares. *)

Named(path) == {n \in nodes : n.name = path}

Spoken(r, path) == {n \in Named(path) : n.lang = r.lang}

OfKind(r, path, kinds) == {n \in Spoken(r, path) : n.kind \in kinds}

(* The row the database returns first. *)
First(S) == {n \in S : \A m \in S : n.row <= m.row}

Only(S) == IF Cardinality(S) = 1 THEN S ELSE {}

Or(S, T) == IF S # {} THEN S ELSE T

(* Mutant of Proximity: the file itself is only as near as its directory. *)
DirectoryProximity(n, f) == IF Dir[n.file] = Dir[f] THEN 50 ELSE 0

Proximity(n, f) ==
  IF n.file = f THEN 100 ELSE IF Dir[n.file] = Dir[f] THEN 50 ELSE 0

(* pickBestNode: the nearest, and among those the first. *)
PickBest(S, f) ==
  First({n \in S : \A m \in S : Proximity(n, f) >= Proximity(m, f)})

(* pickBestGoType, pickBestGoNode: the first of the package, or of all. *)
PickGo(S, f) ==
  LET package == {n \in S : Dir[n.file] = Dir[f]}
  IN First(Or(package, S))

(* resolve<Language>DefinitionByName. *)
Definition(r, path) ==
  PickBest({n \in Spoken(r, path) : n.kind \notin {"import", "file"}}, r.file)

(* resolve<Language>TypeByName, ModuleByName, FunctionByName, SourceFile. *)
Nearest(r, path, kinds) == PickBest(OfKind(r, path, kinds), r.file)

Imports(f) == {n \in nodes : n.file = f /\ n.kind = "import"}

(* Of nodes of one file, the first in the text: GetNodesByFile sorts them. *)
Earliest(S) == {n \in S : \A m \in S : n.line <= m.line}

(* resolveCImportNodeRef, resolveGoImportsRef: the import of the file itself. *)
OwnImport(r, name) == Earliest({n \in Imports(r.file) : n.name = name})

HasLocalImport(r) == \E n \in Imports(r.file) : n.name = r.name

Owner(n) == IF Len(n.qual) > 1 THEN n.qual[Len(n.qual) - 1] ELSE ""

(* resolve<Language>MemberOnClass, OnType, OnModule, OnPackage. *)
Member(r, owner, attr) ==
  First({n \in Spoken(r, <<attr>>) : Owner(n) = owner /\ owner # ""})

(* The same with the prefix of the qualified name (Python, Lua). *)
Below(r, owner, attr) ==
  First({n \in Spoken(r, <<attr>>) : Len(n.qual) > 1 /\ n.qual[1] = owner})

Callable == {"method", "function"}

(* Mutant of Unambiguous: several candidates are as good as one. *)
FirstOfMany(r, attr, kinds) == First(OfKind(r, <<attr>>, kinds))

(* resolve<Language>DottedFallback: the one callable with that name. *)
Unambiguous(r, attr, kinds) == Only(OfKind(r, <<attr>>, kinds))

(* build<Language>VarTypeMap: the class a variable of the file is constructed
   from; the last construction in the file counts. *)
InferType(r, var) ==
  LET made == {n \in nodes : /\ n.file = r.file /\ n.lang = r.lang
                             /\ n.kind \in {"variable", "constant"}
                             /\ n.name = <<var>> /\ n.sig # <<>>}
  IN {Last(n.sig) : n \in {n \in made : \A m \in made : m.line <= n.line}}

-----------------------------------------------------------------------------
(* Edges. *)

Edge(source, target, kind, r) ==
  [row |-> r.row, source |-> source, target |-> target, kind |-> kind, ref |-> r]

As(r, S, kind) == {Edge(r.from, n.id, kind, r) : n \in S}

Same(r, S) == As(r, S, r.kind)

(* A call of something that is constructed instantiates it. *)
Promoted(r, S, kinds) ==
  {Edge(r.from, n.id, IF r.kind = "calls" /\ n.kind \in kinds THEN "instantiates" ELSE r.kind, r)
     : n \in S}

ClassLike == {"class", "struct"}

(* resolveDottedRef. *)
DottedRef(r, symbol) ==
  LET callable == OfKind(r, <<symbol>>, Callable)
  IN Same(r, PickBest(Or(callable, Spoken(r, <<symbol>>)), r.file))

(* resolveGenericRef: any node with the name, in whatever language. *)
Generic(r) ==
  IF Dotted(r)
  THEN IF Len(r.name) = 2 THEN DottedRef(r, r.name[2]) ELSE {}
  ELSE Promoted(r, PickBest(Named(Text(r)), r.file), ClassLike)

(* Imports that find a definition, or what the generic rule finds. *)
ImportsRef(r, found) == Or(As(r, found, "imports"), Generic(r))

-----------------------------------------------------------------------------
(* Python, Ruby, Perl, PHP: receivers whose class is known from the file. *)

(* A known class has the member or nothing has; an unknown one leaves it to the
   name, if that is unambiguous. *)
KnownReceiver(r, class, members) ==
  IF class # {} THEN Same(r, members)
  ELSE Same(r, Unambiguous(r, r.name[2], Callable))

OnClass(r, class) == UNION {Member(r, c, r.name[2]) : c \in class}

Bare(r) == r.kind \in {"calls", "references"} /\ ~Dotted(r) /\ ~Scoped(r)

DottedCall(r) == r.kind = "calls" /\ Dotted(r)

Python(r) ==
  LET class == InferType(r, r.name[1])
      below == UNION {Below(r, c, r.name[2]) : c \in class}
  IN CASE DottedCall(r) ->
            IF Len(r.name) > 2 THEN {} ELSE KnownReceiver(r, class, below)
       [] r.kind = "imports" -> ImportsRef(r, Definition(r, Text(r)))
       [] Bare(r) /\ HasLocalImport(r) ->
            Or(Promoted(r, Definition(r, r.name), ClassLike), Generic(r))
       [] OTHER -> Generic(r)

Ruby(r) ==
  LET class == InferType(r, r.name[1])
      constructed == {n \in Definition(r, <<r.name[1]>>) :
                        r.name[1] \in Capitals /\ r.name[2] = "new" /\ n.kind = "class"}
  IN CASE DottedCall(r) ->
            IF Len(r.name) > 2 THEN {}
            ELSE Or(As(r, constructed, "instantiates"),
                    KnownReceiver(r, class, OnClass(r, class)))
       [] r.kind = "imports" -> ImportsRef(r, Definition(r, Text(r)))
       [] Bare(r) -> Or(Promoted(r, Definition(r, r.name), {"class"}), Generic(r))
       [] OTHER -> Generic(r)

Perl(r) ==
  LET class == InferType(r, r.name[1])
      package == {r.name[1]} \cap Capitals
      constructed == {n \in Definition(r, <<r.name[1]>>) :
                        package # {} /\ r.name[2] = "new" /\ n.kind = "module"}
  IN CASE DottedCall(r) ->
            IF Len(r.name) > 2 THEN {}
            ELSE Or(As(r, constructed, "instantiates"),
                 Or(Same(r, OnClass(r, package)),
                    KnownReceiver(r, class, OnClass(r, class))))
       [] r.kind = "calls" /\ Scoped(r) /\ Len(r.name) = 2 ->
            Or(Same(r, OnClass(r, {r.name[1]})), Generic(r))
       [] r.kind = "imports" -> ImportsRef(r, Definition(r, Text(r)))
       [] Bare(r) -> Or(Promoted(r, Definition(r, r.name), {"module"}), Generic(r))
       [] OTHER -> Generic(r)

PHP(r) ==
  LET class == InferType(r, r.name[1])
  IN CASE DottedCall(r) ->
            IF Len(r.name) > 2 THEN {}
            ELSE Or(Same(r, OnClass(r, {r.name[1]} \cap Capitals)),
                    KnownReceiver(r, class, OnClass(r, class)))
       [] r.kind = "imports" -> ImportsRef(r, Definition(r, Text(r)))
       [] r.kind \in {"calls", "references", "instantiates"} /\ ~Dotted(r) /\ HasLocalImport(r) ->
            Or(Promoted(r, Definition(r, r.name), {"class"}), Generic(r))
       [] OTHER -> Generic(r)

-----------------------------------------------------------------------------
(* Julia, Lua, Elixir, Erlang, Haskell: functions of modules. *)

Julia(r) ==
  CASE DottedCall(r) ->
         IF Len(r.name) > 2 THEN {}
         ELSE Same(r, Or(Member(r, r.name[1], r.name[2]),
                         Unambiguous(r, r.name[2], {"function"})))
    [] r.kind = "imports" -> ImportsRef(r, Definition(r, Text(r)))
    [] Bare(r) -> Or(Promoted(r, Definition(r, r.name), {"struct"}), Generic(r))
    [] OTHER -> Generic(r)

Lua(r) ==
  CASE DottedCall(r) ->
         IF Len(r.name) > 2 THEN {}
         ELSE Same(r, Or(Below(r, r.name[1], r.name[2]),
                         Unambiguous(r, r.name[2], Callable)))
    [] r.kind = "imports" ->
         ImportsRef(r, Or(Nearest(r, Append(Text(r), "lua"), {"file"}), Definition(r, Text(r))))
    [] Bare(r) /\ HasLocalImport(r) -> Or(Same(r, Definition(r, r.name)), Generic(r))
    [] OTHER -> Generic(r)

(* elixirExpandAlias, haskellExpandAlias: the module an alias of the file names,
   the first in the file. *)
ExpandAlias(r, recv) ==
  LET alias == {n \in Imports(r.file) : n.name = <<recv>> /\ n.qual # <<>>}
  IN IF alias = {} THEN recv
     ELSE Last((CHOOSE n \in alias : \A m \in alias : n.line <= m.line).qual)

FunctionOf(r, owner, attr, kinds) ==
  First({n \in OfKind(r, <<attr>>, kinds) : Owner(n) = owner /\ owner # ""})

(* A call module.f: a function of that module, or the only one named f. *)
ModuleCall(r, module, kinds) ==
  LET f == Last(r.name)
  IN As(r, Or(FunctionOf(r, module, f, kinds), Unambiguous(r, f, kinds)), "calls")

Elixir(r) ==
  LET last == <<Last(r.name)>>
  IN CASE r.kind = "implements" ->
            As(r, Or(Nearest(r, last, {"interface"}), Definition(r, last)), "implements")
       [] r.kind = "imports" ->
            ImportsRef(r, Or(Nearest(r, last, {"module"}), Nearest(r, last, {"interface"})))
       [] DottedCall(r) -> ModuleCall(r, ExpandAlias(r, Last(Front(r.name))), Callable)
       [] r.kind = "calls" /\ ~Dotted(r) -> As(r, Definition(r, Text(r)), "calls")
       [] OTHER -> Generic(r)

Erlang(r) ==
  CASE r.kind = "implements" -> As(r, Nearest(r, Text(r), {"module"}), "implements")
    [] r.kind = "imports" -> ImportsRef(r, Nearest(r, Text(r), {"module"}))
    [] r.kind = "calls" ->
         IF r.sep = ":" /\ Len(r.name) > 1
         THEN ModuleCall(r, IF Len(r.name) = 2 THEN r.name[1] ELSE "", {"function"})
         ELSE As(r, Definition(r, Text(r)), "calls")
    [] OTHER -> Generic(r)

(* An instance Type@Class: the type is the source, when it is known. *)
HaskellInstance(r) ==
  LET instance == IF r.sep = "@" THEN <<r.name[1]>> ELSE Text(r)
      class    == IF r.sep = "@" THEN <<Last(r.name)>> ELSE Text(r)
      type == Or(Nearest(r, instance, {"struct"}), Nearest(r, instance, {"type_alias"}))
      source == IF type = {} THEN r.from ELSE (CHOOSE n \in type : TRUE).id
  IN {Edge(source, n.id, "implements", r) : n \in Nearest(r, class, {"interface"})}

Haskell(r) ==
  CASE r.kind = "implements" -> HaskellInstance(r)
    [] r.kind = "imports" -> ImportsRef(r, Nearest(r, <<Last(r.name)>>, {"module"}))
    [] DottedCall(r) -> ModuleCall(r, ExpandAlias(r, Last(Front(r.name))), Callable)
    [] r.kind = "calls" /\ ~Dotted(r) -> As(r, Definition(r, Text(r)), "calls")
    [] r.kind = "references" ->
         As(r, Or(Nearest(r, Text(r), {"struct"}),
               Or(Nearest(r, Text(r), {"type_alias"}), Nearest(r, Text(r), {"interface"}))),
            "references")
    [] OTHER -> Generic(r)

-----------------------------------------------------------------------------
(* Rust, Swift, Dart, C#, F#: types and methods by name. *)

Types == {"class", "struct", "interface", "enum", "type_alias"}

RustAssoc(r) ==
  LET member == Member(r, r.name[1], r.name[2])
      type == Nearest(r, <<r.name[1]>>, {"struct", "enum"})
  IN IF r.name[2] = "new" /\ type # {} THEN As(r, type, "instantiates") ELSE Same(r, member)

RustBareCall(r) ==
  LET imported == IF HasLocalImport(r) THEN Definition(r, r.name) ELSE {}
  IN Or(Promoted(r, imported, {"struct", "enum"}),
        As(r, Or(Nearest(r, Text(r), {"function"}), Nearest(r, Text(r), {"method"})), "calls"))

Rust(r) ==
  CASE r.kind = "implements" -> As(r, Nearest(r, Text(r), {"interface"}), "implements")
    [] r.kind = "overrides" ->
         IF Scoped(r) /\ Len(r.name) = 2 THEN Same(r, Member(r, r.name[1], r.name[2])) ELSE {}
    [] r.kind = "imports" -> ImportsRef(r, Definition(r, Text(r)))
    [] r.kind = "instantiates" -> Same(r, Nearest(r, Text(r), Types))
    [] r.kind = "references" -> Or(Same(r, Nearest(r, Text(r), Types)), Generic(r))
    [] r.kind = "calls" /\ Scoped(r) -> IF Len(r.name) = 2 THEN RustAssoc(r) ELSE {}
    [] DottedCall(r) -> As(r, Nearest(r, Tail(r.name), {"method"}), "calls")
    [] r.kind = "calls" /\ ~Dotted(r) /\ ~Scoped(r) -> RustBareCall(r)
    [] OTHER -> Generic(r)

(* C# and Swift: a base that is an interface is implemented. *)
BaseRef(r, S) ==
  {Edge(r.from, n.id, IF n.kind = "interface" THEN "implements" ELSE "extends", r) : n \in S}

SwiftMethod(r, path, kind) ==
  As(r, PickBest({n \in OfKind(r, path, {"method", "property"}) :
                    kind = "overrides" => n.id # r.from}, r.file), kind)

Swift(r) ==
  CASE r.kind = "extends" -> BaseRef(r, Nearest(r, Text(r), Types))
    [] r.kind = "implements" ->
         Same(r, Or(Nearest(r, Text(r), {"interface"}), Nearest(r, Text(r), Types)))
    [] r.kind = "overrides" -> SwiftMethod(r, Text(r), "overrides")
    [] r.kind = "imports" -> ImportsRef(r, Definition(r, Text(r)))
    [] r.kind = "instantiates" -> Same(r, Nearest(r, Text(r), Types))
    [] r.kind = "references" -> Or(Same(r, Nearest(r, Text(r), Types)), Generic(r))
    [] DottedCall(r) -> IF Len(r.name) = 2 THEN SwiftMethod(r, Tail(r.name), "calls") ELSE {}
    [] r.kind = "calls" /\ ~Dotted(r) ->
         Or(As(r, Nearest(r, Text(r), {"class", "struct", "enum"}), "instantiates"),
         Or(As(r, Nearest(r, Text(r), {"function"}), "calls"), SwiftMethod(r, Text(r), "calls")))
    [] OTHER -> Generic(r)

DartType(r, path) == Nearest(r, path, {"class", "enum", "type_alias"})

(* The file an include or import names, in the directory of the reference. *)
FileAt(r) == {n \in nodes : n.kind = "file" /\ n.name = Text(r) /\ Dir[n.file] = Dir[r.file]}

(* Dart's package imports (sep ":") name an import node of the file. *)
DartImport(r) ==
  IF r.sep = ":" THEN OwnImport(r, <<Last(r.name)>>) ELSE Or(FileAt(r), OwnImport(r, Text(r)))

Dart(r) ==
  LET last == <<Last(r.name)>>
  IN CASE r.kind \in {"extends", "implements", "instantiates"} -> Same(r, DartType(r, Text(r)))
       [] r.kind \in {"references", "decorates"} -> Same(r, Definition(r, Text(r)))
       [] r.kind = "imports" -> Same(r, DartImport(r))
       [] DottedCall(r) ->
            Or(As(r, DartType(r, Front(r.name)), "instantiates"),
               Same(r, Nearest(r, last, {"method", "property", "function"})))
       [] r.kind = "calls" /\ ~Dotted(r) -> Promoted(r, Definition(r, Text(r)), {"class"})
       [] OTHER -> {}

(* csResolveAlias: using Alias = A.B.Type, the first in the file. *)
CSharpAlias(r) ==
  LET alias == {n \in Imports(r.file) : n.name = Text(r) /\ n.sig # <<>>}
  IN IF alias = {} THEN Text(r)
     ELSE <<Last((CHOOSE n \in alias : \A m \in alias : n.line <= m.line).sig)>>

CSharp(r) ==
  LET type(path) == Nearest(r, path, {"class", "struct", "interface", "enum"})
  IN CASE r.kind = "extends" -> BaseRef(r, type(CSharpAlias(r)))
       [] r.kind = "imports" -> ImportsRef(r, Definition(r, Text(r)))
       [] r.kind = "instantiates" -> Same(r, type(CSharpAlias(r)))
       [] r.kind = "references" -> Or(Same(r, type(Text(r))), Generic(r))
       [] DottedCall(r) ->
            IF Len(r.name) = 2 THEN Same(r, Nearest(r, Tail(r.name), {"method", "property"})) ELSE {}
       [] r.kind = "calls" /\ ~Dotted(r) /\ HasLocalImport(r) ->
            Or(Promoted(r, Definition(r, Text(r)), ClassLike), Generic(r))
       [] OTHER -> Generic(r)

FSharp(r) ==
  LET last == IF r.sep = "." THEN <<Last(r.name)>> ELSE Text(r)
      type(kind) == Nearest(r, last, {kind})
      builtin == IF Dotted(r) THEN r.name[1] \in BuiltinModules
                              ELSE r.name[1] \in Builtin[r.lang]
  IN CASE r.kind = "imports" -> ImportsRef(r, Nearest(r, last, {"module", "namespace"}))
       [] r.kind = "extends" -> Same(r, Or(type("class"), type("struct")))
       [] r.kind = "implements" -> Same(r, type("interface"))
       [] r.kind = "instantiates" -> Same(r, Or(type("class"), Or(type("struct"), type("enum"))))
       [] r.kind = "calls" -> IF builtin THEN {} ELSE Same(r, Definition(r, last))
       [] OTHER -> Generic(r)

-----------------------------------------------------------------------------
(* Java, Kotlin, Scala: packages. *)

Implicit(lang) ==
  CASE lang = "java"   -> {<<"java", "lang">>}
    [] lang = "kotlin" -> {<<"kotlin">>, <<"kotlin", "collections">>, <<"kotlin", "io">>,
                           <<"kotlin", "text">>, <<"java", "lang">>}
    [] lang = "scala"  -> {<<"scala">>, <<"scala", "Predef">>, <<"scala", "collection">>,
                           <<"java", "lang">>}

(* buildJVMContext: the package of a file, <<>> if it declares none, ... *)
Package(r, f) ==
  LET declared == {n \in nodes : n.file = f /\ n.lang = r.lang /\ n.kind = "namespace"}
  IN IF declared = {} THEN <<>>
     ELSE (CHOOSE n \in declared : \A m \in declared : n.line <= m.line).name

(* ... the simple names it imports, and the packages it imports wholly. *)
JVMImports(r) == {n.sig : n \in {n \in Imports(r.file) : n.lang = r.lang /\ n.sig # <<>>}}
Explicit(r)   == {Last(fq) : fq \in {fq \in JVMImports(r) : Last(fq) # "*"}}
Wildcard(r)   == {Front(fq) : fq \in {fq \in JVMImports(r) : Last(fq) = "*"}} \cup Implicit(r.lang)

(* resolveJVMTypeByName: the package, the explicit imports, the wildcards, the rest. *)
JVMType(r) ==
  LET defs == {n \in Spoken(r, Text(r)) : n.kind \notin {"import", "file"}}
      own == Package(r, r.file)
      package == {n \in defs : own # <<>> /\ Package(r, n.file) = own}
      imported == {n \in defs \ package : Last(r.name) \in Explicit(r)}
      wildcard == {n \in defs \ (package \cup imported) : Package(r, n.file) \in Wildcard(r)}
  IN PickBest(Or(package, Or(imported, Or(wildcard, defs))), r.file)

JVM(r) ==
  CASE DottedCall(r) ->
         IF Len(r.name) = 2 THEN Same(r, Nearest(r, Tail(r.name), Callable)) ELSE {}
    [] r.kind = "imports" -> ImportsRef(r, JVMType(r))
    [] ~Dotted(r) /\ r.kind = "calls" ->
         Or(Promoted(r, JVMType(r), ClassLike), Same(r, Nearest(r, Text(r), Callable)))
    [] ~Dotted(r) /\ r.kind \notin {"calls", "imports"} -> Same(r, JVMType(r))
    [] OTHER -> {}


-----------------------------------------------------------------------------
(* C, Objective-C, C++. *)

(* An include: the file of that name here, or the only one anywhere. *)
Include(r, langs) ==
  LET same == {n \in Named(Text(r)) : n.kind = "file" /\ n.lang \in langs}
  IN As(r, Or(FileAt(r), Or(Only(same), OwnImport(r, Text(r)))), "imports")

Unspecial(r) == Text(r) # <<>> /\ (Dotted(r) \/ r.name[1] \notin Builtin[r.lang])

C(r) ==
  CASE r.kind = "imports" -> Include(r, {"c"})
    [] r.kind # "imports" /\ Unspecial(r) -> Promoted(r, Definition(r, Text(r)), ClassLike)
    [] OTHER -> {}

ObjC(r) ==
  CASE r.kind = "imports" -> Include(r, {"objc"})
    [] r.kind \in {"extends", "implements", "instantiates"} -> Same(r, Nearest(r, Text(r), Types))
    [] r.kind \notin {"imports", "extends", "implements", "instantiates"} /\ Unspecial(r) ->
         Promoted(r, Definition(r, Text(r)), {"class"})
    [] OTHER -> {}

(* The names of the bases of a class, in the order of the rows that say so. *)
Bases(r, class) ==
  LET extends == {e \in edges : e.kind = "extends" /\
                    \E n \in OfKind(r, <<class>>, ClassLike) : n.id = e.source}
      rows == SetToSortSeq(extends, LAMBDA d, e : d.row < e.row)
      name(id) == (CHOOSE n \in nodes : n.id = id).name[1]
  IN [i \in DOMAIN rows |-> name(rows[i].target)]

(* cppFindMember: depth first over the stored bases, each name once. *)
FindMember(r, class, member) ==
  LET find[todo \in Seq(STRING), seen \in SUBSET STRING] ==
        IF todo = <<>> THEN {}
        ELSE IF Head(todo) \in seen THEN find[Tail(todo), seen]
        ELSE Or(Member(r, Head(todo), member),
                find[Bases(r, Head(todo)) \o Tail(todo), seen \cup {Head(todo)}])
  IN find[<<class>>, {}]

CPP(r) ==
  LET last   == Last(r.name)
      tail   == IF Scoped(r) THEN <<last>> ELSE Text(r)
      type   == Nearest(r, tail, {"class", "struct", "enum", "type_alias"})
      member == IF Scoped(r) THEN FindMember(r, Last(Front(r.name)), last) ELSE {}
      byName == IF tail = <<last>> /\ last \in Builtin[r.lang] THEN {}
                ELSE Promoted(r, Definition(r, tail), ClassLike)
  IN CASE r.kind = "imports" -> Include(r, {"cpp", "c"})
       [] r.kind \in {"extends", "instantiates", "references"} -> Same(r, type)
       [] r.kind = "overrides" -> Same(r, member)
       [] r.kind = "calls" -> Or(Same(r, member), byName)
       [] OTHER -> byName

-----------------------------------------------------------------------------
(* Bash, R, PowerShell, SQL, SpecScore. *)

(* The extensions are tried in their order, but a nearer file comes first. *)
SourceFile(r, extensions) ==
  LET files(x) == OfKind(r, Append(Text(r), x), {"file"})
      all  == UNION {files(x) : x \in Range(extensions)}
      best == {n \in all : \A m \in all : Proximity(n, r.file) >= Proximity(m, r.file)}
  IN FoldLeft(LAMBDA S, x : Or(S, First(best \cap files(x))), {}, extensions)

Bash(r) ==
  CASE r.kind = "imports" -> ImportsRef(r, Nearest(r, Text(r), {"file"}))
    [] r.kind \in {"calls", "references"} -> Same(r, Nearest(r, Text(r), {"function"}))
    [] OTHER -> Generic(r)

R(r) ==
  CASE r.kind = "imports" -> ImportsRef(r, SourceFile(r, <<"R", "r">>))
    [] r.kind \in {"calls", "references"} /\ r.sep # ":" ->
         Or(Same(r, Definition(r, Text(r))), Generic(r))
    [] OTHER -> Generic(r)

PowerShell(r) ==
  CASE r.kind = "imports" -> ImportsRef(r, SourceFile(r, <<"ps1", "psm1", "psd1">>))
    [] r.kind \in {"calls", "references"} -> Same(r, Definition(r, Text(r)))
    [] OTHER -> Generic(r)

SQL(r) ==
  As(r, PickBest({n \in Named(Text(r)) : n.kind = "struct" /\ n.lang \in {"sql", "sqlite"}}, r.file),
     "references")

(* An artifact by its path (sep "/"), the file or its directory, or by its slug;
   rows come in the order of their identifiers, and none refers to itself. *)
SpecScore(r) ==
  LET artifacts == {n \in nodes : n.lang = r.lang /\ n.kind \in {"feature", "idea", "plan"}}
      at   == {n \in artifacts : n.file = r.name[1]}
      in   == {n \in artifacts : Dir[n.file] = r.name[1]}
      slug == {n \in artifacts : n.name = r.name}
      one(S, ahead(_, _)) == {n \in S : \A m \in S : n = m \/ ahead(n, m)}
      earlier(n, m) == IdBefore(n.id, m.id)
      later(n, m)   == IdBefore(m.id, n.id)
      target == IF r.sep = "/" THEN Or(one(at, later), one(in, later)) ELSE one(slug, earlier)
  IN Same(r, {n \in target : n.id # r.from})

-----------------------------------------------------------------------------
(* Go. *)

GoSkips(r, name) == name \in Builtin[r.lang]

(* The package an alias of the file stands for, if it is in the module. *)
InModule(r) == GoImport[<<r.file, r.name[1]>>] \notin {"none", "std", "external"}

CrossPackage(r) ==
  LET package == GoImport[<<r.file, r.name[1]>>]
  IN First({n \in Spoken(r, Tail(r.name)) : InModule(r) /\ Within[<<Dir[n.file], package>>]})

GoInstantiates(r) ==
  IF Dotted(r)
  THEN {n \in CrossPackage(r) : /\ ~GoSkips(r, r.name[1]) /\ ~GoSkips(r, r.name[2])
                                /\ r.name[1] \notin GoStdPackages}
  ELSE PickGo(OfKind(r, Text(r), Types), r.file)

GoReferences(r) ==
  Or(PickGo(OfKind(r, Text(r), Types), r.file),
     PickGo({n \in Spoken(r, Text(r)) : n.kind \notin {"import", "file"}}, r.file))

(* The only method of that name, or the one whose qualified name shares the
   most words with the name of the receiver, but at least one. *)
GoMethod(r) ==
  LET methods == OfKind(r, Tail(r.name), {"method"})
      shared(n) == Cardinality(Words[r.name[1]] \cap UNION {Words[s] : s \in Range(n.qual)})
      best == {n \in methods : shared(n) > 0 /\ \A m \in methods : shared(n) >= shared(m)}
  IN IF Cardinality(methods) = 1 THEN methods ELSE First(best)

GoDottedCall(r) ==
  CASE \/ GoSkips(r, r.name[1]) \/ r.name[1] \in GoStdPackages
       \/ Len(r.name) = 2 /\ GoSkips(r, r.name[2])
       \/ GoImport[<<r.file, r.name[1]>>] = "std" -> {}
    [] OTHER -> Or(Promoted(r, CrossPackage(r), ClassLike), Same(r, GoMethod(r)))

(* The package of the file comes before the others, and in it the file. *)
GoBareCall(r) == Promoted(r, Definition(r, Text(r)), ClassLike)

Go(r) ==
  LET skipped == ~Dotted(r) /\ GoSkips(r, r.name[1])
  IN CASE r.kind = "imports"      -> As(r, OwnImport(r, Text(r)), "imports")
       [] r.kind = "calls"        -> IF skipped THEN {}
                                     ELSE IF Dotted(r) THEN GoDottedCall(r) ELSE GoBareCall(r)
       [] r.kind = "instantiates" -> IF skipped THEN {} ELSE Same(r, GoInstantiates(r))
       [] r.kind = "references"   -> IF skipped THEN {} ELSE Same(r, GoReferences(r))
       [] OTHER                   -> Generic(r)

-----------------------------------------------------------------------------
(* resolveRef. *)
ResolveRef(r) ==
  CASE r.lang = "go"         -> Go(r)
    [] r.lang = "python"     -> Python(r)
    [] r.lang = "csharp"     -> CSharp(r)
    [] r.lang \in {"java", "kotlin", "scala"} -> JVM(r)
    [] r.lang = "ruby"       -> Ruby(r)
    [] r.lang = "rust"       -> Rust(r)
    [] r.lang = "php"        -> PHP(r)
    [] r.lang = "c"          -> C(r)
    [] r.lang = "swift"      -> Swift(r)
    [] r.lang = "cpp"        -> CPP(r)
    [] r.lang = "dart"       -> Dart(r)
    [] r.lang = "lua"        -> Lua(r)
    [] r.lang = "bash"       -> Bash(r)
    [] r.lang = "elixir"     -> Elixir(r)
    [] r.lang = "haskell"    -> Haskell(r)
    [] r.lang = "objc"       -> ObjC(r)
    [] r.lang = "perl"       -> Perl(r)
    [] r.lang = "erlang"     -> Erlang(r)
    [] r.lang = "julia"      -> Julia(r)
    [] r.lang = "fsharp"     -> FSharp(r)
    [] r.lang = "r"          -> R(r)
    [] r.lang = "powershell" -> PowerShell(r)
    [] r.lang \in {"sql", "sqlite"} -> SQL(r)
    [] r.lang = "specscore"  -> SpecScore(r)
    [] OTHER                 -> Generic(r)
=============================================================================
