---------------------------- MODULE ScriptWalkers ---------------------------
(***************************************************************************)
(* The walkers of the scripting languages: what each does at each kind of  *)
(* syntax node.                                                            *)
(***************************************************************************)
EXTENDS SyntaxTree

CONSTANTS
  ConstantNames,  \* names spelled as constants: capitals, or with underscores on both ends
  Builtin         \* Builtin[lang]: names whose calls and references are left alone

-----------------------------------------------------------------------------
(* Python. *)

PyDecorates(from, decorators, n) ==
  [i \in DOMAIN decorators |-> Refer(from, "decorates", decorators[i], n)]

PyFunction(w, n, decorators) ==
  LET name == Field(n, "name").text
      kind == IF ~IsInsideClassLike(w) THEN "function"
              ELSE IF Range(decorators) \cap {<<"property">>, <<"cached_property">>} # {}
                THEN "property" ELSE "method"
      id == Id(kind, name, n)
  IN <<Declare(w, kind, name, n,
         PyDecorates(id, decorators, n) \o Inside(id, VisitEach("visit", Field(n, "body").kids)))>>

PyClass(w, n, decorators) ==
  LET name == Field(n, "name").text
      id == Id("class", name, n)
  IN <<Declare(w, "class", name, n,
         ForEach(Field(n, "superclasses").kids, LAMBDA b : ReferIf(id, "extends", LastName(b), b))
           \o PyDecorates(id, decorators, n)
           \o Inside(id, VisitEach("visit", Field(n, "body").kids)))>>

(* pyDecoratorHead: of a call, what is called. *)
PyDecoratorHead(d) ==
  LET expr == Head(d.kids)
  IN IF expr.kind = "call" THEN Field(expr, "function").text ELSE expr.text

PyDecorated(w, n) ==
  LET decorators == [i \in DOMAIN KidsOf(n, {"decorator"}) |-> PyDecoratorHead(KidsOf(n, {"decorator"})[i])]
      def == Field(n, "definition")
  IN CASE def.kind = "function_definition" -> PyFunction(w, def, decorators)
       [] def.kind = "class_definition"    -> PyClass(w, def, decorators)
       [] OTHER                            -> <<>>

PyImported(n, k) ==
  CASE k.kind = "dotted_name"     -> k.text
    [] k.kind = "aliased_import"  -> IF Has(k, "alias") THEN Field(k, "alias").text ELSE Field(k, "name").text
    [] k.kind = "wildcard_import" -> Field(n, "module_name").text
    [] OTHER                      -> <<>>

(* The module of a from-import is a child like the others: the code means to skip
   it, and compares the wrapper it has made of the child with another wrapper of
   the same child, which are never equal. *)
PyImport(w, n) ==
  ForEach(n.kids, LAMBDA k :
    If(PyImported(n, k) # <<>>,
      <<Declare(w, "import", PyImported(n, k), n, <<>>), Refer(Top(w), "imports", PyImported(n, k), k)>>))

(* extractPyAssignment, createPySelfField *)
PyAssignment(w, n) ==
  LET left == Field(n, "left")
      right == Field(n, "right")
      kind == IF IsInsideClassLike(w) THEN "field"
              ELSE IF left.text[1] \in ConstantNames THEN "constant" ELSE "variable"
  IN (CASE left = Nil               -> <<>>
        [] left.kind = "identifier" -> <<Declare(w, kind, left.text, n, <<>>)>>
        [] left.kind = "attribute" /\ Field(left, "object").text = <<"self">> ->
             <<DeclareIn(Nearest(w, {"class"}), "field", Field(left, "attribute").text, n, <<>>)>>
        [] OTHER                    -> <<>>)
     \o If(left # Nil /\ right # Nil, <<Visit("visit", right)>>)

(* pyCalleeName *)
PyCallee(fn) ==
  LET object == Field(fn, "object")
      method == Field(fn, "attribute").text
  IN CASE fn.kind = "identifier" -> fn.text
       [] fn.kind = "attribute"  ->
            IF object.kind = "identifier" /\ object.text[1] \notin {"self", "cls", "super"} /\ method # <<>>
              THEN object.text \o method ELSE method
       [] OTHER                  -> <<>>

PyCall(w, n) ==
  ReferIf(Top(w), "calls", PyCallee(Field(n, "function")), n)
    \o VisitEach("visit", Field(n, "arguments").kids)

Python(w, n) ==
  CASE n.kind = "function_definition"  -> PyFunction(w, n, <<>>)
    [] n.kind = "class_definition"     -> PyClass(w, n, <<>>)
    [] n.kind = "decorated_definition" -> PyDecorated(w, n)
    [] n.kind \in {"import_statement", "import_from_statement"} -> PyImport(w, n)
    [] n.kind = "assignment"           -> PyAssignment(w, n)
    [] n.kind = "call"                 -> PyCall(w, n)
    [] OTHER                           -> VisitEach("visit", n.kids)

-----------------------------------------------------------------------------
(* Lua. *)

(* luaIndexParts *)
LuaTable(n)  == Field(n, "table").text
LuaMember(n) == IF n.kind = "method_index_expression" THEN Field(n, "method").text ELSE Field(n, "field").text

(* A function of a table that is a module of the file is that module's. *)
LuaFunction(w, n) ==
  LET name == Field(n, "name")
      indexed == name.kind \in {"dot_index_expression", "method_index_expression"}
      kind == IF indexed THEN "method" ELSE "function"
      member == IF indexed THEN LuaMember(name) ELSE name.text
      module == IF indexed THEN IdOf(w, {"module"}, LuaTable(name)) ELSE <<>>
  IN <<DeclareIn(IF module = <<>> THEN Top(w) ELSE module, kind, member, n,
         Inside(Id(kind, member, n), VisitEach("visit", Field(n, "body").kids)))>>

LuaIsRequire(n) ==
  /\ n.kind = "function_call"
  /\ Field(n, "name").kind = "identifier" /\ Field(n, "name").text = <<"require">>

(* extractLuaRequire, luaRequireName: the last segment of the path. *)
LuaRequire(w, n) ==
  ForEach(Field(n, "arguments").kids, LAMBDA a :
    If(a.kind = "string" /\ a.text # <<>>,
      <<Declare(w, "import", <<Last(a.text)>>, n, <<>>), Refer(Top(w), "imports", <<Last(a.text)>>, n)>>))

(* luaVarKind *)
LuaVarKind(w, name, rhs) ==
  CASE AtFileScope(w) /\ rhs.kind = "table_constructor" -> "module"
    [] name[1] \in ConstantNames                        -> "constant"
    [] OTHER                                            -> "variable"

LuaAssignment(w, n) ==
  LET names == Kid(n, {"variable_list"}).kids
      exprs == Kid(n, {"expression_list"}).kids
      rhs(i) == IF i \in DOMAIN exprs THEN exprs[i] ELSE Nil
      named(i) == CASE names[i].kind # "identifier" -> <<>>
                    [] LuaIsRequire(rhs(i)) -> LuaRequire(w, rhs(i))
                    [] OTHER -> <<Declare(w, LuaVarKind(w, names[i].text, rhs(i)), names[i].text, n, <<>>)>>
  IN FlattenSeq([i \in DOMAIN names |-> named(i)])
       \o VisitEach("visit", Those(exprs, LAMBDA e : ~LuaIsRequire(e)))

(* luaCalleeName *)
LuaCallee(name) ==
  CASE name.kind = "identifier" -> name.text
    [] name.kind = "method_index_expression" -> LuaMember(name)
    [] name.kind = "dot_index_expression" ->
         IF Len(LuaTable(name)) = 1 /\ LuaMember(name) # <<>>
           THEN LuaTable(name) \o LuaMember(name) ELSE LuaMember(name)
    [] OTHER -> <<>>

LuaCall(w, n) ==
  LET callee == LuaCallee(Field(n, "name"))
  IN IF LuaIsRequire(n) THEN LuaRequire(w, n)
     ELSE If(callee # <<>> /\ callee[1] \notin Builtin["lua"], <<Refer(Top(w), "calls", callee, n)>>)
            \o VisitEach("visit", Field(n, "arguments").kids)

Lua(w, n) ==
  CASE n.kind = "function_declaration" -> LuaFunction(w, n)
    [] n.kind = "variable_declaration" ->
         ForEach(KidsOf(n, {"assignment_statement"}), LAMBDA a : LuaAssignment(w, a))
    [] n.kind = "assignment_statement" -> LuaAssignment(w, n)
    [] n.kind = "function_call"        -> LuaCall(w, n)
    [] OTHER                           -> VisitEach("visit", n.kids)

-----------------------------------------------------------------------------
(* Bash. *)

BashFunction(w, n) ==
  LET name == Field(n, "name").text
  IN <<Declare(w, "function", name, n,
         Inside(Id("function", name, n), VisitEach("visit", Field(n, "body").kids)))>>

(* extractBashAssignment, and the names of a declaration. *)
BashVariable(w, name, n, readonly) ==
  If(AtFileScope(w) /\ name # <<>>,
    <<Declare(w, IF readonly \/ name[1] \in ConstantNames THEN "constant" ELSE "variable", name, n, <<>>)>>)

BashDeclaration(w, n) ==
  LET readonly == Kid(n, {"readonly"}) # Nil
  IN ForEach(n.kids, LAMBDA k :
       CASE k.kind = "variable_assignment" -> BashVariable(w, Field(k, "name").text, k, readonly)
         [] k.kind = "variable_name"       -> BashVariable(w, k.text, k, readonly)
         [] OTHER                          -> <<>>)

(* extractBashSource, bashSourceName: the last segment, or none for a path with
   an expansion in it. *)
BashSource(w, n) ==
  LET path == Field(n, "argument").text
  IN If(path # <<>>,
       <<Declare(w, "import", <<Last(path)>>, n, <<>>), Refer(Top(w), "imports", <<Last(path)>>, n)>>)

(* The arguments' own children are walked, and not the arguments. *)
BashCommand(w, n) ==
  LET command == Field(n, "name").text
  IN IF command \in {<<"source">>, <<".">>} THEN BashSource(w, n)
     ELSE ReferIf(Top(w), "calls", command, n)
            \o ForEach(Those(n.kids, LAMBDA k : k.kind # "command_name"),
                 LAMBDA k : VisitEach("visit", k.kids))

Bash(w, n) ==
  CASE n.kind = "function_definition" -> BashFunction(w, n)
    [] n.kind = "variable_assignment" -> BashVariable(w, Field(n, "name").text, n, FALSE)
    [] n.kind = "declaration_command" -> BashDeclaration(w, n)
    [] n.kind = "command"             -> BashCommand(w, n)
    [] OTHER                          -> VisitEach("visit", n.kids)
-----------------------------------------------------------------------------
(* Ruby. *)

RubyScope(w, kind, n, refs) ==
  LET name == Field(n, "name").text
      id == Id(kind, name, n)
  IN <<Declare(w, kind, name, n, refs \o Inside(id, VisitEach("visit", Field(n, "body").kids)))>>

RubyClass(w, n) ==
  RubyScope(w, "class", n,
    ReferIf(Id("class", Field(n, "name").text, n), "extends", LastName(Field(n, "superclass")), n))

RubyMethod(w, n) ==
  RubyScope(w, IF IsInsideClassLike(w) THEN "method" ELSE "function", n, <<>>)

(* extractRubyAssignment, createRubyField *)
RubyAssignment(w, n) ==
  LET left == Field(n, "left")
  IN (CASE left.kind = "constant"   -> <<Declare(w, "constant", left.text, n, <<>>)>>
        [] left.kind \in {"instance_variable", "class_variable"} ->
             <<DeclareIn(Nearest(w, {"class"}), "field", left.text, n, <<>>)>>
        [] left.kind = "identifier" ->
             <<Declare(w, IF IsInsideClassLike(w) THEN "field" ELSE "variable", left.text, n, <<>>)>>
        [] OTHER                    -> <<>>)
     \o If(left # Nil /\ Has(n, "right"), <<Visit("visit", Field(n, "right"))>>)

(* rubyRequireName: the last segment of the path. *)
RubyRequire(w, n) ==
  ForEach(KidsOf(Field(n, "arguments"), {"string"}), LAMBDA a :
    If(a.text # <<>>,
      <<Declare(w, "import", <<Last(a.text)>>, n, <<>>), Refer(Top(w), "imports", <<Last(a.text)>>, n)>>))

RubyAttr(w, n) ==
  ForEach(KidsOf(Field(n, "arguments"), {"simple_symbol", "string"}),
    LAMBDA a : <<Declare(w, "property", a.text, a, <<>>)>>)

RubyMixin(w, n) ==
  ForEach(Field(n, "arguments").kids, LAMBDA a : ReferIf(Top(w), "implements", LastName(a), n))

(* rubyCalleeName *)
RubyCallee(n) ==
  LET receiver == Field(n, "receiver")
      method == Field(n, "method").text
  IN IF receiver.kind \in {"identifier", "constant"} /\ method # <<>>
       THEN receiver.text \o method ELSE method

RubyCalled(n, names) ==
  ~Has(n, "receiver") /\ Field(n, "method").kind = "identifier" /\ Field(n, "method").text[1] \in names

(* A receiver that is a call itself is one; blocks are not looked into. *)
RubyCall(w, n) ==
  CASE RubyCalled(n, {"require", "require_relative", "load"})           -> RubyRequire(w, n)
    [] RubyCalled(n, {"attr_accessor", "attr_reader", "attr_writer"})   -> RubyAttr(w, n)
    [] RubyCalled(n, {"include", "prepend", "extend"})                  -> RubyMixin(w, n)
    [] OTHER ->
         ReferIf(Top(w), "calls", RubyCallee(n), n)
           \o VisitEach("visit", Field(n, "arguments").kids)
           \o If(Field(n, "receiver").kind \in {"call", "method_call"}, <<Visit("visit", Field(n, "receiver"))>>)

Ruby(w, n) ==
  CASE n.kind = "module"                         -> RubyScope(w, "module", n, <<>>)
    [] n.kind = "class"                          -> RubyClass(w, n)
    [] n.kind \in {"method", "singleton_method"} -> RubyMethod(w, n)
    [] n.kind = "assignment"                     -> RubyAssignment(w, n)
    [] n.kind \in {"call", "method_call"}        -> RubyCall(w, n)
    [] OTHER                                     -> VisitEach("visit", n.kids)

-----------------------------------------------------------------------------
(* Perl. *)

(* walkPerl: a package statement of the file ends the package before it. *)
PerlPackage(n) ==
  LET name == Field(n, "name").text
  IN <<Reset, DeclareIn(FileId, "module", name, n, <<Enter(Id("module", name, n))>>)>>

PerlSub(w, n) ==
  LET name == Field(n, "name").text
      kind == IF IsInsideClassLike(w) THEN "method" ELSE "function"
  IN <<Declare(w, kind, name, n, Inside(Id(kind, name, n), VisitEach("visit", Field(n, "body").kids)))>>

(* extractPerlParent, extractPerlISA: the strings below, by their last segment. *)
PerlBases(w, n) ==
  ForEach(Within(n, {"string_content"}), LAMBDA s :
    If(s.text \notin {<<>>, <<"-norequire">>}, <<Refer(Top(w), "extends", <<Last(s.text)>>, n)>>))

PerlConstant(w, n) ==
  LET words == SelectSeq(Within(n, {"autoquoted_bareword", "bareword"}), LAMBDA b : b.text # <<"constant">>)
  IN If(words # <<>>, <<Declare(w, "constant", Head(words).text, n, <<>>)>>)

PerlUse(w, n) ==
  LET module == Field(n, "module").text
  IN CASE module \in {<<"parent">>, <<"base">>} -> PerlBases(w, n)
       [] module = <<"constant">>               -> PerlConstant(w, n)
       [] module = <<>> \/ module[1] \in {"strict", "warnings", "utf8", "lib", "vars", "feature", "v5"} -> <<>>
       [] OTHER -> <<Declare(w, "import", <<Last(module)>>, n, <<>>), Refer(Top(w), "imports", <<Last(module)>>, n)>>

PerlAssignment(w, n) ==
  LET left == Field(n, "left")
      var == IF left.kind = "variable_declaration" THEN Field(left, "variable") ELSE Nil
      name == Kid(var, {"varname"}).text
  IN (CASE name = <<>> -> <<>>
        [] name = <<"ISA">> /\ var.kind = "array" -> PerlBases(w, n)
        [] OTHER -> <<Declare(w, IF name[1] \in ConstantNames THEN "constant" ELSE "variable", name, n, <<>>)>>)
     \o If(Has(n, "right"), <<Visit("visit", Field(n, "right"))>>)

(* perlMethodCalleeName *)
PerlCallee(n) ==
  LET invocant == Field(n, "invocant")
      method == Field(n, "method").text
      var == Kid(invocant, {"varname"}).text
  IN CASE method = <<>>                             -> <<>>
       [] invocant.kind \in {"bareword", "package"} -> invocant.text \o method
       [] invocant.kind = "scalar" /\ var \notin {<<"self">>, <<"class">>} -> var \o method
       [] OTHER                                     -> method

(* The arguments of a method are not looked into. *)
PerlMethodCall(w, n) ==
  ReferIf(Top(w), "calls", PerlCallee(n), n)
    \o If(Field(n, "invocant").kind = "method_call_expression", <<Visit("visit", Field(n, "invocant"))>>)

PerlFuncCall(w, n) ==
  LET name == Field(n, "function").text
  IN If(name # <<>> /\ name[1] \notin Builtin["perl"], <<Refer(Top(w), "calls", name, n)>>)
       \o VisitEach("visit", n.kids)

Perl(w, mode, n) ==
  CASE n.kind = "package_statement" /\ mode = "root"              -> PerlPackage(n)
    [] n.kind = "subroutine_declaration_statement"                -> PerlSub(w, n)
    [] n.kind \in {"use_statement", "require_expression"}         -> PerlUse(w, n)
    [] n.kind = "method_call_expression"                          -> PerlMethodCall(w, n)
    [] n.kind \in {"ambiguous_function_call_expression", "function_call_expression"} -> PerlFuncCall(w, n)
    [] n.kind = "assignment_expression"                           -> PerlAssignment(w, n)
    [] OTHER                                                      -> VisitEach("visit", n.kids)

-----------------------------------------------------------------------------
(* R. *)

(* rAssignOp: an anonymous child of the operator. *)
RIsAssignment(n) == n.kind = "binary_operator" /\ n.text \in {<<"<-">>, <<"=">>, <<"<<-">>}

(* extractRFunction *)
RFunction(w, name, n, fn) ==
  <<Declare(w, "function", name, n,
      Inside(Id("function", name, n), If(Has(fn, "body"), <<Visit("visit", Field(fn, "body"))>>)))>>

RAssignment(w, n) ==
  LET left == Field(n, "lhs")
      right == Field(n, "rhs")
  IN IF left.kind = "identifier" /\ right.kind = "function_definition"
       THEN RFunction(w, left.text, n, right)
       ELSE If(left.kind = "identifier",
              <<Declare(w, IF left.text[1] \in ConstantNames THEN "constant" ELSE "variable", left.text, n, <<>>)>>)
            \o If(right # Nil, <<Visit("visit", right)>>)

(* rFirstArgName, rFirstStringArg: the value of the first argument. *)
RFirst(args, kinds) ==
  LET value == Field(Kid(args, {"argument"}), "value")
  IN IF value.kind \in kinds THEN value.text ELSE <<>>

(* emitRImport *)
RImport(w, name, n, args) ==
  If(name # <<>>, <<Declare(w, "import", name, n, <<>>), Refer(Top(w), "imports", name, args)>>)

(* rWalkArgs *)
RArgs(args) ==
  ForEach(args.kids, LAMBDA a : <<Visit("visit", IF Has(a, "value") THEN Field(a, "value") ELSE a)>>)

(* rCalleeName *)
RCallee(fn) ==
  CASE fn.kind \in {"identifier", "namespace_operator"} -> fn.text
    [] fn.kind = "extract_operator"                     -> Field(fn, "rhs").text
    [] OTHER                                            -> <<>>

RCall(w, n) ==
  LET fn == Field(n, "function")
      args == Field(n, "arguments")
      named == IF fn.kind = "identifier" THEN fn.text ELSE <<>>
      string == RFirst(args, {"string"})
      callee == RCallee(fn)
  IN (CASE named \in {<<"library">>, <<"require">>}     -> RImport(w, RFirst(args, {"identifier", "string"}), n, args)
        [] named = <<"source">>                         -> RImport(w, string, n, args)
        [] named = <<"setClass">>                       -> <<Declare(w, "class", string, n, <<>>)>>
        [] named \in {<<"setGeneric">>, <<"setMethod">>} -> <<Declare(w, "method", string, n, <<>>)>>
        [] OTHER -> If(callee # <<>> /\ callee[1] \notin Builtin["r"], <<Refer(Top(w), "calls", callee, n)>>))
     \o RArgs(args)

R(w, n) ==
  CASE RIsAssignment(n)  -> RAssignment(w, n)
    [] n.kind = "call"   -> RCall(w, n)
    [] OTHER             -> VisitEach("visit", n.kids)

-----------------------------------------------------------------------------
(* Julia. *)

(* juliaCallNameParams, juliaTypedExpr, juliaTypeHead: the first identifier, and
   the last if there are several. *)
JuliaName(n) == Kid(n, {"identifier"}).text
JuliaType(n) ==
  LET ids == KidsOf(n, {"identifier"})
  IN IF Len(ids) > 1 THEN Last(ids).text ELSE <<>>

(* emitJuliaParamRefs *)
JuliaParamRefs(from, call) ==
  ForEach(KidsOf(Kid(call, {"argument_list"}), {"typed_expression"}),
    LAMBDA a : ReferIf(from, "references", JuliaType(a), a))

(* A method of a function the scope has is that function again (juliaExistingFuncID). *)
JuliaMethod(w, n, call, body) ==
  LET name == JuliaName(call)
      known == Those(w.nodes, LAMBDA m : m.kind = "function" /\ m.qual = QualifiedName(w, Top(w), name))
      steps(id) == JuliaParamRefs(id, call) \o Inside(id, body)
  IN CASE call.kind # "call_expression" \/ name = <<>> -> <<>>
       [] known # <<>> -> steps(Last(known).id)
       [] OTHER -> <<Declare(w, "function", name, n, steps(Id("function", name, n)))>>

JuliaFunction(w, n) ==
  JuliaMethod(w, n, Kid(Kid(n, {"signature"}), {"call_expression"}),
    VisitEach("visit", Kid(n, {"block"}).kids))

JuliaModule(w, n) ==
  LET name == Field(n, "name").text
  IN <<Declare(w, "module", name, n,
         Inside(Id("module", name, n), VisitEach("visit", Kid(n, {"block"}).kids)))>>

(* extractJuliaStruct, extractJuliaAbstract *)
JuliaTypeDefinition(w, kind, n) ==
  LET head == Kid(n, {"type_head"})
      inner == First(head.kids)
      name == IF inner.kind = "binary_expression" THEN JuliaName(inner) ELSE inner.text
      id == Id(kind, name, n)
      field(k) == LET f == IF k.kind = "identifier" THEN k.text ELSE JuliaName(k)
                  IN <<DeclareIn(id, "field", f, k, ReferIf(Id("field", f, k), "references", JuliaType(k), k))>>
  IN <<Declare(w, kind, name, n,
         ReferIf(id, "extends", JuliaType(inner), head)
           \o If(kind = "struct",
                ForEach(KidsOf(Kid(n, {"block"}), {"typed_expression", "identifier"}), field)))>>

JuliaAssignment(w, n) ==
  LET left == First(n.kids)
      right == If(Len(n.kids) > 1, <<Visit("visit", Last(n.kids))>>)
  IN CASE left.kind = "call_expression" -> JuliaMethod(w, n, left, right)
       [] left.kind = "identifier"      -> <<Declare(w, "variable", left.text, n, <<>>)>> \o right
       [] OTHER                         -> right

JuliaConst(w, n) ==
  LET left == First(Kid(n, {"assignment"}).kids)
  IN If(left.kind = "identifier", <<Declare(w, "constant", left.text, n, <<>>)>>)

JuliaImport(w, n) ==
  LET emit(k) == <<Declare(w, "import", k.text, n, <<>>), Refer(Top(w), "imports", k.text, k)>>
  IN ForEach(n.kids, LAMBDA k :
       CASE k.kind \in {"identifier", "scoped_identifier", "field_expression"} -> emit(k)
         [] k.kind = "selected_import" ->
              ForEach(Those(Rest(k.kids), LAMBDA s : s.kind = "identifier"), emit)
         [] OTHER -> <<>>)

(* extractJuliaCall, juliaCalleeName *)
JuliaCall(w, n) ==
  LET callee == IF n.kids[1].kind \in {"identifier", "field_expression"} THEN n.kids[1].text ELSE <<>>
  IN If(callee # <<>> /\ callee[1] \notin Builtin["julia"], <<Refer(Top(w), "calls", callee, n)>>)
       \o VisitEach("visit", Kid(n, {"argument_list"}).kids)

Julia(w, n) ==
  CASE n.kind = "module_definition"   -> JuliaModule(w, n)
    [] n.kind = "function_definition" -> JuliaFunction(w, n)
    [] n.kind = "struct_definition"   -> JuliaTypeDefinition(w, "struct", n)
    [] n.kind = "abstract_definition" -> JuliaTypeDefinition(w, "interface", n)
    [] n.kind = "const_statement"     -> JuliaConst(w, n)
    [] n.kind = "assignment"          -> JuliaAssignment(w, n)
    [] n.kind \in {"using_statement", "import_statement"} -> JuliaImport(w, n)
    [] n.kind = "call_expression"     -> JuliaCall(w, n)
    [] OTHER                          -> VisitEach("visit", n.kids)

-----------------------------------------------------------------------------
(* PowerShell. *)

PsWalk(n) == VisitEach("visit", n.kids)

PsFunction(w, n) ==
  LET name == Descendant(n, "function_name").text
  IN <<Declare(w, "function", name, n, Inside(Id("function", name, n), PsWalk(n)))>>

PsProperty(id, n) ==
  DeclareIn(id, "property", Kid(n, {"variable"}).text, n, <<>>)

(* extractPSMethod: the body is a field, or else the blocks among the children. *)
PsMethod(id, n) ==
  LET name == Kid(n, {"simple_name"}).text
      body == IF Has(n, "script_block") THEN PsWalk(Field(n, "script_block"))
              ELSE ForEach(KidsOf(n, {"script_block"}), PsWalk)
  IN DeclareIn(id, "method", name, n, Inside(Id("method", name, n), body))

(* The first name is the class, the second what it extends, the others what it
   implements. *)
PsClass(w, n) ==
  LET names == KidsOf(n, {"simple_name"})
      name == Kid(n, {"simple_name"}).text
      id == Id("class", name, n)
      bases == [i \in 1..(Len(names) - 1) |->
                  Refer(id, IF i = 1 THEN "extends" ELSE "implements", names[i + 1].text, names[i + 1])]
      member(k) == CASE k.kind = "class_property_definition" -> <<PsProperty(id, k)>>
                     [] k.kind = "class_method_definition"   -> <<PsMethod(id, k)>>
                     [] OTHER                                -> <<>>
  IN <<Declare(w, "class", name, n, bases \o Inside(id, ForEach(n.kids, member)))>>

PsEnum(w, n) ==
  LET name == Kid(n, {"simple_name"}).text
      id == Id("enum", name, n)
  IN <<Declare(w, "enum", name, n,
         Inside(id, ForEach(KidsOf(n, {"enum_member"}), LAMBDA m :
           <<DeclareIn(id, "enum_member", (IF Descendant(m, "simple_name") = Nil THEN m ELSE Descendant(m, "simple_name")).text, m, <<>>)>>)))>>

(* psCommandArg *)
PsArgument(n, i) ==
  LET args == SelectSeq(Field(n, "command_elements").kids, LAMBDA k : k.kind # "command_argument_sep")
  IN IF i \in DOMAIN args THEN args[i].text ELSE <<>>

PsImport(w, module, n) ==
  If(module # <<>>, <<Declare(w, "import", module, n, <<>>), Refer(Top(w), "imports", module, n)>>)

(* psModuleBasename: the last segment of the path. *)
PsBasename(path) == IF path = <<>> THEN <<>> ELSE <<Last(path)>>

(* psIsDotSource: its operator is not a named child, so it is the text here. *)
PsCommand(w, n) ==
  LET command == Field(n, "command_name").text
      elements == PsWalk(Field(n, "command_elements"))
  IN CASE n.text = <<".">>  -> PsImport(w, PsBasename(Kid(n, {"command_name_expr", "command_name"}).text), n)
       [] command = <<"import-module">> -> PsImport(w, PsBasename(PsArgument(n, 1)), n)
       [] command = <<"using">>         -> PsImport(w, PsArgument(n, 2), n)
       [] command = <<"new-object">>    -> ReferIf(Top(w), "instantiates", PsArgument(n, 1), n) \o elements
       [] OTHER -> If(command # <<>> /\ command[1] \notin Builtin["powershell"],
                     <<Refer(Top(w), "calls", command, n)>>) \o elements

PsInvokation(w, n) ==
  LET member == Descendant(n, "member_name").text
      literal == Descendant(n, "type_literal")
      type == Descendant(literal, "type_name").text
  IN (IF literal # Nil /\ (type = <<>> \/ member = <<"new">>)
        THEN ReferIf(Top(w), "instantiates", type, n)
        ELSE ReferIf(Top(w), "calls", member, n))
     \o PsWalk(Descendant(n, "argument_list"))

(* extractPSAssignment, psVarKind: a variable of the global or script scope is a
   constant. *)
PsAssignment(w, n) ==
  LET var == Descendant(Descendant(n, "left_assignment_expression"), "variable")
      scoped == Len(var.text) > 1 /\ var.text[1] \in {"global", "script"}
      name == IF var.text = <<>> THEN <<>> ELSE <<Last(var.text)>>
  IN If(AtFileScope(w) /\ name # <<>>,
       <<Declare(w, IF scoped \/ name[1] \in ConstantNames THEN "constant" ELSE "variable", name, n, <<>>)>>)
     \o PsWalk(Field(n, "value"))

PowerShell(w, n) ==
  CASE n.kind = "function_statement"    -> PsFunction(w, n)
    [] n.kind = "class_statement"       -> PsClass(w, n)
    [] n.kind = "enum_statement"        -> PsEnum(w, n)
    [] n.kind = "command"               -> PsCommand(w, n)
    [] n.kind = "invokation_expression" -> PsInvokation(w, n)
    [] n.kind = "assignment_expression" -> PsAssignment(w, n)
    [] OTHER                            -> PsWalk(n)

-----------------------------------------------------------------------------
(* SQL. *)

SqlNames == {"identifier", "dotted_name"}

(* sqlTableName, sqlNameParts: without its schema. *)
SqlTableName(n) == LastName(IF Has(n, "name") THEN Field(n, "name") ELSE Kid(n, SqlNames))

SqlTable(w, n) ==
  LET name == SqlTableName(n)
      id == Id("struct", name, n)
      params == IF Has(n, "parameters") THEN Field(n, "parameters") ELSE Kid(n, {"table_parameters"})
  IN <<Declare(w, "struct", name, n,
         If(params # Nil, Inside(id, ForEach(KidsOf(params, {"table_column"}),
           LAMBDA c : <<DeclareIn(id, "field", Field(c, "name").text, c, <<>>)>>))))>>

(* collectSqlFromTables *)
SqlFromTables(from, clause) ==
  ForEach(clause.kids, LAMBDA k :
    ForEach(IF k.kind = "join_clause" THEN KidsOf(k, SqlNames) ELSE If(k.kind \in SqlNames, <<k>>),
      LAMBDA t : ReferIf(from, "references", LastName(t), t)))

(* emitSqlTableRefs: the table of an insert or update, and every from clause. *)
SqlTableRefs(from, n) ==
  LET target == Kid(n, SqlNames)
  IN If(n.kind \in {"insert_statement", "update_statement"}, ReferIf(from, "references", LastName(target), target))
       \o ForEach(Within(n, {"from_clause"}), LAMBDA c : SqlFromTables(from, c))

SqlView(w, n) ==
  LET name == SqlTableName(n)
      id == Id("struct", name, n)
      body == IF Kid(n, {"view_body"}) = Nil THEN n ELSE Kid(n, {"view_body"})
  IN <<Declare(w, "struct", name, n,
         Inside(id, ForEach(KidsOf(body, {"select_statement"}), LAMBDA s : SqlTableRefs(id, s))))>>

Sql(w, n) ==
  CASE n.kind = "create_table_statement" -> SqlTable(w, n)
    [] n.kind = "create_view_statement"  -> SqlView(w, n)
    [] n.kind \in {"create_function_statement", "create_procedure_statement"} ->
         <<Declare(w, "function", LastName(Kid(n, SqlNames)), n, <<>>)>>
    [] n.kind \in {"select_statement", "insert_statement", "update_statement", "delete_statement"} ->
         SqlTableRefs(Top(w), n)
    [] OTHER -> VisitEach("visit", n.kids)
=============================================================================
