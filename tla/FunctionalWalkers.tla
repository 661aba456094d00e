-------------------------- MODULE FunctionalWalkers -------------------------
(***************************************************************************)
(* The walkers of the functional languages.                                *)
(***************************************************************************)
EXTENDS ScriptWalkers

CONSTANT Capitalized  \* names that begin with a capital

-----------------------------------------------------------------------------
(* Scala. *)

ScName(n) == Kid(n, {"identifier"}).text

(* emitScalaImport *)
ScalaImported(w, from, to, n) ==
  If(to # <<>>, <<Declare(w, "import", to, n, <<>>), Refer(Top(w), "imports", from, n)>>)

(* scRenamedNames *)
ScalaSelected(w, selector, n) ==
  LET names == IF selector.kind = "identifier" THEN <<selector>> ELSE KidsOf(selector, {"identifier"})
  IN If(Len(names) \in 1..2, ScalaImported(w, Head(names).text, Last(names).text, n))

(* extractScalaImport, scImportPrefix *)
ScalaImport(w, n) ==
  LET prefix == ForEach(KidsOf(n, {"identifier"}), LAMBDA i : i.text)
      simple == IF prefix = <<>> THEN <<>> ELSE <<Last(prefix)>>
      selectors == Kid(n, {"namespace_selectors"})
  IN CASE selectors # Nil ->
            ForEach(KidsOf(selectors, {"identifier", "arrow_renamed_identifier"}), LAMBDA s : ScalaSelected(w, s, n))
       [] Kid(n, {"namespace_wildcard"}) # Nil -> <<Declare(w, "import", prefix, n, <<>>)>>
       [] OTHER -> ScalaImported(w, simple, simple, n)

(* emitScalaExtends: the first is extended, the others implemented. *)
ScalaExtends(from, n) ==
  LET bases == KidsOf(Kid(n, {"extends_clause"}), {"type_identifier", "generic_type"})
  IN [i \in DOMAIN bases |-> Refer(from, IF i = 1 THEN "extends" ELSE "implements", LastName(bases[i]), n)]

(* extractScalaClassParams: those that are val or var, which the text says here. *)
ScalaParams(id, n) ==
  ForEach(KidsOf(Kid(n, {"class_parameters"}), {"class_parameter"}), LAMBDA p :
    If(p.text \in {<<"val">>, <<"var">>}, <<DeclareIn(id, "field", ScName(p), p, <<>>)>>))

(* extractScalaType, extractScalaObject *)
ScalaType(w, kind, n) ==
  LET id == Id(kind, ScName(n), n)
  IN Scope(w, kind, ScName(n), n, ScalaExtends(id, n),
       If(n.kind # "object_definition", ScalaParams(id, n)) \o VisitEach("visit", Kid(n, {"template_body"}).kids))

(* extractScalaEnum, walkScalaEnumBody *)
ScalaEnum(w, n) ==
  LET id == Id("enum", ScName(n), n)
      member(k) ==
        IF k.kind # "enum_case_definitions" THEN <<Visit("visit", k)>>
        ELSE ForEach(KidsOf(k, {"simple_enum_case", "full_enum_case"}), LAMBDA c :
               <<DeclareIn(id, "enum_member", ScName(c), c, <<>>)>>)
  IN Scope(w, "enum", ScName(n), n, ScalaExtends(id, n), ForEach(Kid(n, {"enum_body"}).kids, member))

(* The children that may hold calls. *)
ScalaRest(n, kinds) == VisitEach("visit", Those(n.kids, LAMBDA k : k.kind \notin kinds))

ScalaFunction(w, n) ==
  Scope(w, IF IsInsideClassLike(w) THEN "method" ELSE "function", ScName(n), n, <<>>,
    ScalaRest(n, {"modifiers", "identifier", "parameters", "type_parameters", "type_identifier"}))

(* A value's own calls are those of the scope around. *)
ScalaValue(w, n) ==
  LET kind == CASE IsInside(w, {"function", "method"}) -> "variable"
                [] IsInsideClassLike(w)                -> "field"
                [] n.kind = "val_definition"           -> "constant"
                [] OTHER                               -> "variable"
  IN <<Declare(w, kind, ScName(n), n, ScalaRest(n, {"modifiers", "identifier", "type_identifier"}))>>

(* scCalleeName *)
ScalaCallee(fn) ==
  CASE fn.kind = "identifier"       -> fn.text
    [] fn.kind = "field_expression" ->
         If(First(fn.kids).kind = "identifier", First(fn.kids).text) \o Last(fn.kids).text
    [] OTHER                        -> <<>>

ScalaCall(w, n) ==
  ReferIf(Top(w), "calls", ScalaCallee(First(n.kids)), n)
    \o ForEach(n.kids, LAMBDA k :
         CASE k.kind = "identifier"       -> <<>>
           [] k.kind = "field_expression" -> If(First(k.kids).kind # "identifier", <<Visit("visit", First(k.kids))>>)
           [] OTHER                       -> <<Visit("visit", k)>>)

ScalaInstance(w, n) ==
  ReferIf(Top(w), "instantiates", LastName(Kid(n, {"type_identifier"})), n)
    \o VisitEach("visit", Kid(n, {"arguments"}).kids)

Scala(w, n) ==
  CASE n.kind = "package_clause"      -> <<Declare(w, "namespace", Kid(n, {"package_identifier"}).text, n, <<>>)>>
    [] n.kind = "import_declaration"  -> ScalaImport(w, n)
    [] n.kind = "trait_definition"    -> ScalaType(w, "interface", n)
    [] n.kind \in {"class_definition", "object_definition"} -> ScalaType(w, "class", n)
    [] n.kind = "enum_definition"     -> ScalaEnum(w, n)
    [] n.kind \in {"function_definition", "function_declaration"} -> ScalaFunction(w, n)
    [] n.kind \in {"val_definition", "var_definition"} -> ScalaValue(w, n)
    [] n.kind = "type_definition"     -> <<Declare(w, "type_alias", Kid(n, {"type_identifier"}).text, n, <<>>)>>
    [] n.kind = "call_expression"     -> ScalaCall(w, n)
    [] n.kind = "instance_expression" -> ScalaInstance(w, n)
    [] OTHER                          -> VisitEach("visit", n.kids)

-----------------------------------------------------------------------------
(* Elixir. *)

ExArgs(n) == Kid(n, {"arguments"})

ExBody(n) == VisitEach("visit", Kid(n, {"do_block"}).kids)

(* elixirKeywordValue *)
ExKeyword(keywords, key) ==
  LET pairs == SelectSeq(KidsOf(keywords, {"pair"}), LAMBDA p : Field(p, "key").text = <<key>>)
  IN IF pairs = <<>> THEN <<>> ELSE Field(Head(pairs), "value").text

(* extractElixirModule, extractElixirProtocol *)
ElixirModule(w, kind, n) == Scope(w, kind, Kid(ExArgs(n), {"alias"}).text, n, <<>>, ExBody(n))

ElixirImpl(w, n) ==
  LET protocol == Kid(ExArgs(n), {"alias"}).text
      types == SelectSeq([i \in DOMAIN KidsOf(ExArgs(n), {"keywords"}) |-> ExKeyword(KidsOf(ExArgs(n), {"keywords"})[i], "for")],
                         LAMBDA t : t # <<>>)
      name == IF types = <<>> THEN protocol ELSE protocol \o Last(types)
  IN If(protocol # <<>>,
       Scope(w, "module", name, n, <<Refer(Id("module", name, n), "implements", protocol, n)>>, ExBody(n)))

(* elixirFunctionHead *)
ExHeadName(arg) ==
  LET head == Follow(arg, LAMBDA x : IF x.kind = "binary_operator" THEN Field(x, "left") ELSE x)
      target == Field(head, "target")
  IN CASE head.kind = "call" -> IF target.kind = "dot" /\ Has(target, "right") THEN Field(target, "right").text ELSE target.text
       [] head.kind = "identifier" -> head.text
       [] OTHER                    -> <<>>

(* Each clause of a function is a function of its own, unless it is on the line of
   another.  visitElixirKeywordValues: the body may be a keyword's value. *)
ElixirFunction(w, n) ==
  LET args == ExArgs(n).kids
      kind == IF IsInside(w, {"interface"}) THEN "method" ELSE "function"
      values(k) == ForEach(KidsOf(k, {"pair"}), LAMBDA p : If(Has(p, "value"), <<Visit("visit", Field(p, "value"))>>))
  IN If(args # <<>>,
       Scope(w, kind, ExHeadName(First(args)), n, <<>>,
         ExBody(n) \o ForEach(Those(Rest(args), LAMBDA k : k.kind = "keywords"), values)))

(* extractElixirStruct, extractElixirStructFields: named for its module. *)
ElixirStruct(w, n) ==
  LET module == Nearest(w, {"module"})
      name == IF KindOf(w, module) = "module" THEN module[2] ELSE <<"Struct">>
      id == Id("struct", name, n)
      field(e) == CASE e.kind = "atom" -> <<DeclareIn(id, "field", e.text, e, <<>>)>>
                    [] e.kind = "pair" -> <<DeclareIn(id, "field", Field(e, "key").text, e, <<>>)>>
                    [] OTHER           -> <<>>
  IN Scope(w, "struct", name, n, <<>>,
       ForEach(KidsOf(ExArgs(n), {"list", "keywords"}), LAMBDA l : ForEach(l.kids, field)))

ElixirImport(w, macro, n) ==
  LET args == ExArgs(n).kids
      module == IF args # <<>> /\ Head(args).kind = "alias" THEN Head(args).text ELSE <<>>
      as == ExKeyword(Kid(ExArgs(n), {"keywords"}), "as")
      local == IF macro = "alias" /\ as # <<>> THEN as ELSE module
  IN If(module # <<>>,
       <<Declare(w, "import", <<Last(local)>>, n, <<>>), Refer(Top(w), "imports", <<Last(module)>>, n)>>)

(* extractElixirCallSite, elixirCalleeName: the block that a call is given is not
   looked into, and so neither are the branches of an if, a case or a for. *)
ElixirCallSite(w, n) ==
  LET target == Field(n, "target")
      name == IF target.kind = "dot" THEN Field(target, "left").text \o Field(target, "right").text
              ELSE If(target.kind = "identifier", target.text)
  IN If(name # <<>> /\ (Len(name) > 1 \/ name[1] \notin Builtin["elixir"]), <<Refer(Top(w), "calls", name, n)>>)
       \o VisitEach("visit", ExArgs(n).kids)

ElixirCall(w, n) ==
  LET target == Field(n, "target")
      macro == IF target.kind = "identifier" THEN target.text[1] ELSE ""
  IN CASE target = Nil          -> <<>>
       [] macro = "defmodule"   -> ElixirModule(w, "module", n)
       [] macro = "defprotocol" -> ElixirModule(w, "interface", n)
       [] macro = "defimpl"     -> ElixirImpl(w, n)
       [] macro = "defstruct"   -> ElixirStruct(w, n)
       [] macro \in {"def", "defp", "defmacro", "defmacrop"}   -> ElixirFunction(w, n)
       [] macro \in {"import", "alias", "require", "use"}      -> ElixirImport(w, macro, n)
       [] OTHER                 -> ElixirCallSite(w, n)

(* An attribute of the module's own is a constant; its value is not looked into. *)
ElixirAttribute(w, n) ==
  LET operand == Field(n, "operand")
      target == Field(operand, "target")
      documents == {"moduledoc", "doc", "typedoc", "spec", "type", "typep", "opaque", "behaviour", "behavior", "callback",
                    "macrocallback", "impl", "derive", "enforce_keys", "deprecated", "dialyzer", "compile"}
  IN CASE operand = Nil -> VisitEach("visit", n.kids)
       [] operand.kind = "call" /\ target.kind = "identifier" /\ target.text[1] \notin documents ->
            <<Declare(w, "constant", target.text, n, <<>>)>>
       [] OTHER -> <<>>

Elixir(w, n) ==
  CASE n.kind = "call"           -> ElixirCall(w, n)
    [] n.kind = "unary_operator" -> ElixirAttribute(w, n)
    [] OTHER                     -> VisitEach("visit", n.kids)

-----------------------------------------------------------------------------
(* Erlang. *)

(* The first clause of a fun_decl, and the function it is a clause of: name and
   arity. *)
ErClause(form) == IF Has(form, "clause") THEN Field(form, "clause") ELSE Kid(form, {"function_clause"})

ErKey(form) ==
  LET args == IF Has(ErClause(form), "args") THEN Field(ErClause(form), "args") ELSE Kid(ErClause(form), {"expr_args"})
  IN <<Field(ErClause(form), "name").text, Len(args.kids)>>

(* erlangAttrAtomName *)
ErAttribute(form) == (IF Has(form, "name") THEN Field(form, "name") ELSE Kid(form, {"atom"})).text

(* walkErlang: everything is in the module, wherever its attribute is.  The later
   clauses of a function are told from the first (seenFn). *)
ErlangFile(w, root) ==
  LET module == Kid(root, {"module_attribute"})
      forms == SelectSeq(root.kids, LAMBDA k : k.kind # "module_attribute")
      seen(i) == \E j \in 1..(i - 1) : forms[j].kind = "fun_decl" /\ ErKey(forms[j]) = ErKey(forms[i])
      visits == [i \in DOMAIN forms |->
                   Visit(IF forms[i].kind = "fun_decl" /\ seen(i) THEN "again" ELSE "first", forms[i])]
  IN IF ErAttribute(module) = <<>> THEN visits
     ELSE Scope(w, "module", ErAttribute(module), module, <<>>, visits)

ErlangRecord(w, n) ==
  LET name == Field(n, "name").text
      id == Id("struct", name, n)
  IN Scope(w, "struct", name, n, <<>>,
       ForEach(KidsOf(n, {"record_field"}), LAMBDA f : <<DeclareIn(id, "field", ErAttribute(f), f, <<>>)>>))

(* extractErlangInclude, extractErlangImport *)
ErlangImport(w, name, n) ==
  If(name # <<>>, <<Declare(w, "import", name, n, <<>>), Refer(Top(w), "imports", name, n)>>)

(* erlangCalleeName *)
ErCallee(expr) ==
  LET module == Field(expr, "module")
  IN CASE expr.kind = "atom"   -> expr.text
       [] expr.kind = "remote" ->
            If(Has(expr, "fun"),
              (IF Has(module, "module") THEN Field(module, "module") ELSE module).text \o Field(expr, "fun").text)
       [] OTHER                -> <<>>

(* erlangWalkCalls *)
ErCalls(from, body) ==
  ForEach(Within(body, {"call"}), LAMBDA c :
    LET name == ErCallee(Field(c, "expr"))
    IN If(name # <<>> /\ (Len(name) > 1 \/ name[1] \notin Builtin["erlang"]), <<Refer(from, "calls", name, c)>>))

(* extractErlangFunction, erlangFirstClauseLine: the calls of a later clause are
   those of the function's node; if it has none (createNode had made a node of that
   name on that line, for another arity) they refer from a node on line 0. *)
ErlangFunction(w, mode, n) ==
  LET name == Field(ErClause(n), "name").text
      known == SelectSeq(w.nodes, LAMBDA m : m.kind = "function" /\ ErKey(m.node) = ErKey(n))
      first == IF known = <<>> THEN <<"function", name, 0>> ELSE Head(known).id
      calls(id) == Inside(id, ErCalls(id, Field(ErClause(n), "body")))
  IN CASE name = <<>>    -> <<>>
       [] mode = "again" -> calls(first)
       [] OTHER          -> <<Declare(w, "function", name, n, calls(Id("function", name, n)))>>

Erlang(w, mode, n) ==
  CASE mode = "file"                   -> ErlangFile(w, n)
    [] n.kind = "behaviour_attribute"  -> ReferIf(Top(w), "implements", ErAttribute(n), n)
    [] n.kind = "record_decl"          -> ErlangRecord(w, n)
    [] n.kind = "pp_define"            -> <<Declare(w, "constant", Field(Field(n, "lhs"), "name").text, n, <<>>)>>
    [] n.kind \in {"pp_include", "pp_include_lib"} -> ErlangImport(w, LastName(Field(n, "file")), n)
    [] n.kind = "import_attribute"     -> ErlangImport(w, Field(n, "module").text, n)
    [] n.kind = "fun_decl"             -> ErlangFunction(w, mode, n)
    [] OTHER                           -> <<>>

-----------------------------------------------------------------------------
(* Haskell. *)

(* walkHaskell: the imports come before the declarations. *)
HaskellFile(w, root) ==
  LET header == Kid(root, {"header"})
      name == Field(header, "module").text
      visits == VisitEach("file scope", KidsOf(Kid(root, {"imports"}), {"import"}))
                  \o VisitEach("file scope", Kid(root, {"declarations"}).kids)
  IN IF name = <<>> THEN visits ELSE Scope(w, "module", name, header, <<>>, visits)

HaskellImport(w, n) ==
  LET module == Field(n, "module").text
      local == IF Field(n, "alias").text # <<>> THEN Field(n, "alias").text ELSE LastName(Field(n, "module"))
  IN If(module # <<>>, <<Declare(w, "import", local, n, <<>>), Refer(Top(w), "imports", <<Last(module)>>, n)>>)

(* emitHaskellTypeRefs: each name once. *)
HsTypeRefs(from, type, n) ==
  LET names == Within(type, {"name"})
      new(i) == names[i].text # <<>> /\ \A j \in 1..(i - 1) : names[j].text # names[i].text
  IN FlattenSeq([i \in DOMAIN names |->
       If(new(i) /\ names[i].text[1] \notin Builtin["haskell"], <<Refer(from, "references", names[i].text, n)>>)])

(* haskellCalleeName *)
HsCallee(fn) ==
  LET callee == Follow(fn, LAMBDA x : IF x.kind = "apply" THEN Field(x, "function") ELSE x)
  IN CASE callee.kind = "variable"  -> callee.text
       [] callee.kind = "qualified" -> If(Last(callee.text) \notin Capitalized, callee.text)
       [] OTHER                     -> <<>>

(* walkHaskellBody, walkHaskellExprs: a function of two arguments that is applied
   to both is called twice. *)
HsCalls(from, n) ==
  ForEach(KidsOf(n, {"match", "function_body"}), LAMBDA b :
    ForEach(Within(b, {"apply", "infix"}), LAMBDA c :
      LET name == IF c.kind = "apply" THEN HsCallee(Field(c, "function")) ELSE Field(c, "operator").text
      IN If(name # <<>> /\ (Len(name) > 1 \/ name[1] \notin Builtin["haskell"]), <<Refer(from, "calls", name, c)>>)))

(* extractHaskellSignature: the signature or an equation of a function, whichever
   comes first, is its node (fnNodes). *)
HaskellSignature(w, n) ==
  LET name == Field(n, "name").text
      known == IdOf(w, {"function"}, name)
      id == Id("function", name, n)
  IN CASE name = <<>>   -> <<>>
       [] known # <<>> -> HsTypeRefs(known, Field(n, "type"), n)
       [] OTHER        -> <<Declare(w, "function", name, n, HsTypeRefs(id, Field(n, "type"), n))>>

(* haskellSigName, haskellPatternName *)
HsName(n) ==
  LET pattern == Field(n, "pattern")
  IN CASE Has(n, "name")               -> Field(n, "name").text
       [] pattern.kind = "variable"    -> pattern.text
       [] pattern.kind = "signature"   -> (IF Has(pattern, "pattern") THEN Field(pattern, "pattern") ELSE Field(pattern, "name")).text
       [] OTHER                        -> <<>>

HaskellFunction(w, n) ==
  LET name == HsName(n)
      known == IdOf(w, {"function"}, name)
  IN CASE name = <<>>  -> <<>>
       [] known # <<>> -> HsCalls(known, n)
       [] OTHER        -> <<Declare(w, "function", name, n, HsCalls(Id("function", name, n), n))>>

(* extractHaskellData, extractHaskellRecordFields *)
HaskellData(w, n) ==
  LET name == Field(n, "name").text
      id == Id("struct", name, n)
      constructor(c) ==
        LET named == c.kind \in {"record", "prefix"}
        IN <<DeclareIn(id, "enum_member", IF named THEN Field(c, "name").text ELSE c.text, c, <<>>)>>
             \o If(c.kind = "record",
                  ForEach(KidsOf(Field(c, "fields"), {"field"}), LAMBDA f :
                    <<DeclareIn(id, "field", Field(f, "name").text, f, <<>>)>>))
  IN Scope(w, "struct", name, n, <<>>,
       ForEach(Those(Field(n, "constructors").kids, LAMBDA d : d.kind = "data_constructor" /\ Has(d, "constructor")),
         LAMBDA d : constructor(Field(d, "constructor"))))

HaskellTypeAlias(w, n) ==
  LET name == Field(n, "name").text
  IN <<Declare(w, "type_alias", name, n, HsTypeRefs(Id("type_alias", name, n), Field(n, "type"), n))>>

HaskellClass(w, n) ==
  LET name == Field(n, "name").text
      id == Id("interface", name, n)
      method(d) ==
        LET sig == IF d.kind = "signature" THEN d ELSE Kid(d, {"signature"})
            m == Field(sig, "name").text
        IN <<DeclareIn(id, "method", m, sig, HsTypeRefs(Id("method", m, sig), Field(sig, "type"), sig))>>
  IN Scope(w, "interface", name, n, <<>>, ForEach(Field(n, "declarations").kids, method))

(* haskellInstanceType: the name that the patterns begin with.  The reference names
   the class for the type. *)
HaskellInstance(w, n) ==
  LET class == Field(n, "name").text
      type == IF Field(n, "patterns").kids = <<>> THEN <<>> ELSE SubSeq(Head(Field(n, "patterns").kids).text, 1, 1)
      name == class \o type
      function(d) == IF d.kind \in {"function", "bind"} THEN d ELSE Kid(d, {"function"})
  IN If(class # <<>>,
       Scope(w, "module", name, n,
         <<Refer(Id("module", name, n), "implements", IF type = <<>> THEN class ELSE type \o <<"@">> \o class, n)>>,
         ForEach(Field(n, "declarations").kids, LAMBDA d :
           If(function(d) # Nil, <<Visit("instance", function(d))>>))))

(* The equations of a method in one instance (fnNodes of extractHaskellInstance). *)
HaskellMethod(w, n) ==
  LET name == Field(n, "name").text
      start == CHOOSE i \in DOMAIN w.nodes : w.nodes[i].id = Top(w)
      known == IdOf([w EXCEPT !.nodes = SubSeq(@, start + 1, Len(@))], {"method"}, name)
  IN CASE name = <<>>  -> <<>>
       [] known # <<>> -> HsCalls(known, n)
       [] OTHER        -> <<Declare(w, "method", name, n, HsCalls(Id("method", name, n), n))>>

Haskell(w, mode, n) ==
  CASE mode = "file"          -> HaskellFile(w, n)
    [] mode = "instance"      -> HaskellMethod(w, n)
    [] n.kind = "import"      -> HaskellImport(w, n)
    [] n.kind = "signature"   -> HaskellSignature(w, n)
    [] n.kind \in {"function", "bind"}     -> HaskellFunction(w, n)
    [] n.kind \in {"data_type", "newtype"} -> HaskellData(w, n)
    [] n.kind = "type_synomym" -> HaskellTypeAlias(w, n)
    [] n.kind = "class"       -> HaskellClass(w, n)
    [] n.kind = "instance"    -> HaskellInstance(w, n)
    [] OTHER                  -> <<>>

-----------------------------------------------------------------------------
(* F#. *)

FsNames == {"identifier", "long_identifier"}

(* extractFSharpNamespace, extractFSharpModule: without a node of its own, what is
   in it is in the scope around. *)
FsScope(w, kind, name, n) ==
  LET inside == VisitEach("visit", Those(n.kids, LAMBDA k : k.kind \notin FsNames))
  IN IF name = <<>> \/ HasNode(w, Id(kind, name, n)) THEN VisitEach("visit", n.kids) ELSE Scope(w, kind, name, n, <<>>, inside)

FsModuleName(n) ==
  IF Kid(n, {"identifier"}).text # <<>> THEN Kid(n, {"identifier"}).text ELSE LastName(Kid(n, {"long_identifier"}))

FSharpImport(w, n) ==
  LET id == Kid(n, {"long_identifier"})
  IN If(id.text # <<>>, <<Declare(w, "import", LastName(id), n, <<>>), Refer(Top(w), "imports", id.text, n)>>)

(* fsTypeName *)
FsTypeName(n) ==
  LET type == Kid(n, {"type_name"})
  IN (IF Kid(type, {"identifier"}) # Nil THEN Kid(type, {"identifier"}) ELSE type).text

(* extractFSharpRecord, extractFSharpUnion *)
FsParts(w, kind, n, list, part, partKind) ==
  LET id == Id(kind, FsTypeName(n), n)
  IN Scope(w, kind, FsTypeName(n), n, <<>>,
       ForEach(KidsOf(Kid(n, {list}), {part}), LAMBDA p :
         <<DeclareIn(id, partKind, Kid(p, {"identifier"}).text, p, <<>>)>>))

(* fsAllAbstractMembers *)
FsAllAbstract(n) ==
  LET members == ForEach(KidsOf(n, {"type_extension_elements"}), LAMBDA te : te.kids)
  IN members # <<>> /\ \A m \in Range(members) : m.kind = "member_defn" /\ Kid(m, {"member_signature"}) # Nil

(* extractFSharpAnonType, extractFSharpCtorArgs, extractFSharpInherit *)
FsAnonType(w, n) ==
  LET args == Kid(n, {"primary_constr_args"})
      kind == IF args = Nil /\ FsAllAbstract(n) THEN "interface" ELSE "class"
      id == Id(kind, FsTypeName(n), n)
      element(k) ==
        CASE k.kind = "class_inherits_decl"     -> ReferIf(id, "extends", LastName(Kid(k, {"simple_type"})), k)
          [] k.kind = "type_extension_elements" -> VisitEach("member", k.kids)
          [] OTHER                              -> <<>>
  IN Scope(w, kind, FsTypeName(n), n, <<>>,
       ForEach(KidsOf(args, {"typed_pattern"}), LAMBDA p :
         <<DeclareIn(id, "field", LastName(Kid(p, {"identifier_pattern"})), p, <<>>)>>)
       \o ForEach(n.kids, element))

FSharpType(w, n) ==
  ForEach(n.kids, LAMBDA k :
    CASE k.kind = "record_type_defn" -> FsParts(w, "struct", k, "record_fields", "record_field", "field")
      [] k.kind = "union_type_defn"  -> FsParts(w, "enum", k, "union_type_cases", "union_type_case", "enum_member")
      [] k.kind = "anon_type_defn"   -> FsAnonType(w, k)
      [] OTHER                       -> <<>>)

(* extractFSharpMember, fsSignatureHasArgs, fsMemberName: a member without a body,
   or with one; a unit argument makes it a method. *)
FSharpMember(w, n) ==
  LET sig == Kid(n, {"member_signature"})
      defn == Kid(n, {"method_or_prop_defn"})
      called == KidsOf(Kid(defn, {"property_or_ident"}), {"identifier"})
      kind(method) == IF method THEN "method" ELSE "property"
  IN CASE sig # Nil ->
            <<Declare(w, kind(Kid(Kid(sig, {"curried_spec"}), {"arguments_spec"}) # Nil), Kid(sig, {"identifier"}).text, n, <<>>)>>
       [] called # <<>> ->
            Scope(w, kind(Kid(defn, {"const"}) # Nil), Last(called).text, n, <<>>,
              VisitEach("visit", Those(defn.kids, LAMBDA k : k.kind \notin {"property_or_ident", "const"})))
       [] OTHER -> <<>>

FSharpInterface(w, n) ==
  ReferIf(Top(w), "implements", LastName(Kid(n, {"simple_type"})), n)
    \o VisitEach("member", KidsOf(n, {"member_defn"}))

(* fsLetIsFunction *)
FsIsFunction(left, pattern) ==
  \/ Kid(pattern, {"identifier_pattern"}) # Nil
  \/ \E c \in Range(KidsOf(pattern, {"const"})) : Kid(c, {"unit"}) # Nil
  \/ Len(KidsOf(left, {"identifier_pattern"})) > 1

(* extractFSharpLet: what follows a binding in its block is below it, and is taken
   to be inside of what is bound. *)
FSharpLet(w, n) ==
  LET defn == IF n.kind = "declaration_expression" THEN Kid(n, {"function_or_value_defn"}) ELSE n
      left == Kid(defn, {"value_declaration_left"})
      pattern == Kid(left, {"identifier_pattern"})
      name == LastName(Kid(pattern, {"long_identifier_or_op"}))
      insideType == IsInside(w, {"class", "struct", "interface", "enum"})
      kind == CASE FsIsFunction(left, pattern)            -> IF insideType THEN "method" ELSE "function"
                [] IsInside(w, {"function", "method"})    -> "variable"
                [] insideType                             -> "field"
                [] name[1] \in ConstantNames              -> "constant"
                [] OTHER                                  -> "variable"
      below(k, skipped) == VisitEach("visit", Those(k.kids, LAMBDA c : c.kind # skipped))
  IN CASE defn = Nil   -> VisitEach("visit", n.kids)
       [] name = <<>>  -> <<>>
       [] OTHER        ->
            Scope(w, kind, name, n, <<>>,
              below(defn, "value_declaration_left")
                \o If(n.kind = "declaration_expression", below(n, "function_or_value_defn")))

FsCallees == {"long_identifier_or_op", "long_identifier", "identifier"}

(* fsApplicationCallee *)
FsCallee(n) == If(First(n.kids).kind \in FsCallees, First(n.kids).text)

(* extractFSharpApplication, fsIsConstructorName, fsStripReceiverSelf *)
FSharpApplication(w, n) ==
  LET callee == FsCallee(n)
      constructs == Len(callee) = 1 /\ callee[1] \in Capitalized
      name == IF Len(callee) > 1 /\ callee[1] \in {"this", "self"} THEN Tail(callee) ELSE callee
  IN ReferIf(Top(w), IF constructs THEN "instantiates" ELSE "calls", name, n)
       \o VisitEach("visit", IF First(n.kids).kind \in FsCallees THEN Rest(n.kids) ELSE n.kids)

FSharpPrefixed(w, n) ==
  LET app == Kid(n, {"application_expression"})
      callee == FsCallee(app)
  IN IF app = Nil THEN VisitEach("visit", n.kids)
     ELSE ReferIf(Top(w), "instantiates", IF callee = <<>> THEN <<>> ELSE <<Last(callee)>>, n)
            \o VisitEach("visit", Rest(app.kids))

FSharp(w, mode, n) ==
  CASE mode = "member" /\ n.kind = "member_defn"              -> FSharpMember(w, n)
    [] mode = "member" /\ n.kind = "interface_implementation" -> FSharpInterface(w, n)
    [] n.kind = "namespace"              -> FsScope(w, "namespace", Kid(n, {"long_identifier"}).text, n)
    [] n.kind \in {"named_module", "module_defn"} -> FsScope(w, "module", FsModuleName(n), n)
    [] n.kind = "import_decl"            -> FSharpImport(w, n)
    [] n.kind = "type_definition"        -> FSharpType(w, n)
    [] n.kind \in {"declaration_expression", "function_or_value_defn"} -> FSharpLet(w, n)
    [] n.kind = "application_expression" -> FSharpApplication(w, n)
    [] n.kind = "prefixed_expression"    -> FSharpPrefixed(w, n)
    [] n.kind = "dot_expression"         -> VisitEach("visit", Those(n.kids, LAMBDA k : k.kind \notin FsCallees))
    [] OTHER                             -> VisitEach("visit", n.kids)
=============================================================================
