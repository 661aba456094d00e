---------------------------- MODULE ObjectWalkers ---------------------------
(***************************************************************************)
(* The walkers of the languages of classes and interfaces.                 *)
(***************************************************************************)
EXTENDS ScriptWalkers

-----------------------------------------------------------------------------
(* PHP. *)

PhpBody(n) == VisitEach("visit", Field(n, "body").kids)

(* phpVarName: the text has no dollar sign here.  phpTypeName, phpLastSegment:
   LastName. *)

(* A namespace is a scope only if it has a body. *)
PhpNamespace(w, n) ==
  LET name == Field(n, "name").text
  IN IF name = <<>> THEN PhpBody(n)
     ELSE <<Declare(w, "namespace", name, n,
              If(Has(n, "body"), Inside(Id("namespace", name, n), PhpBody(n))))>>

PhpUse(w, n) ==
  ForEach(KidsOf(n, {"namespace_use_clause"}), LAMBDA c :
    LET name == IF Has(c, "alias") THEN Field(c, "alias").text
                ELSE LastName(Kid(c, {"qualified_name", "name"}))
    IN If(name # <<>>, <<Declare(w, "import", name, c, <<>>), Refer(Top(w), "imports", name, c)>>))

(* phpAttributes, emitPHPDecorates *)
PhpDecorates(from, n) ==
  ForEach(KidsOf(n, {"attribute_list"}), LAMBDA al :
    ForEach(Within(al, {"attribute"}), LAMBDA a :
      ReferIf(from, "decorates",
        LastName(IF Has(a, "name") THEN Field(a, "name") ELSE Kid(a, {"name", "qualified_name"})), n)))

(* emitPHPNameRefs *)
PhpNameRefs(from, kind, clauses) ==
  ForEach(clauses, LAMBDA c : ForEach(c.kids, LAMBDA b : ReferIf(from, kind, LastName(b), b)))

(* extractPHPClassLike, extractPHPEnum: an enum has no base clause. *)
PhpBases(id, n) ==
  ForEach(n.kids, LAMBDA c :
    CASE c.kind = "base_clause"            -> PhpNameRefs(id, "extends", <<c>>)
      [] c.kind = "class_interface_clause" -> PhpNameRefs(id, "implements", <<c>>)
      [] OTHER                             -> <<>>)

PhpClassLike(w, kind, n) ==
  LET name == Field(n, "name").text
      id == Id(kind, name, n)
  IN Scope(w, kind, name, n, PhpDecorates(id, n) \o PhpBases(id, n), PhpBody(n))

PhpEnum(w, n) ==
  LET name == Field(n, "name").text
      id == Id("enum", name, n)
  IN Scope(w, "enum", name, n,
       PhpDecorates(id, n) \o PhpNameRefs(id, "implements", KidsOf(n, {"class_interface_clause"})),
       PhpBody(n))

(* extractPHPMethod, extractPHPFunction *)
PhpCallable(w, kind, n) ==
  LET name == Field(n, "name").text
  IN Scope(w, kind, name, n, PhpDecorates(Id(kind, name, n), n), PhpBody(n))

PhpProperty(w, n) ==
  ForEach(KidsOf(n, {"property_element"}), LAMBDA p : <<Declare(w, "field", Field(p, "name").text, p, <<>>)>>)

PhpConst(w, n) ==
  ForEach(KidsOf(n, {"const_element"}), LAMBDA c : <<Declare(w, "constant", Kid(c, {"name"}).text, c, <<>>)>>)

PhpTraitUse(w, n) == ForEach(n.kids, LAMBDA k : ReferIf(Top(w), "implements", LastName(k), n))

PhpNew(w, n) ==
  ReferIf(Top(w), "instantiates", LastName(Kid(n, {"name", "qualified_name"})), n)
    \o VisitEach("visit", Field(n, "arguments").kids)

PhpCalls == {"function_call_expression", "member_call_expression", "scoped_call_expression"}

(* phpCalleeName *)
PhpCallee(n) ==
  LET method == Field(n, "name").text
      object == Field(n, "object")
      scope == Field(n, "scope")
  IN CASE n.kind = "function_call_expression" -> LastName(Field(n, "function"))
       [] method = <<>>                       -> <<>>
       [] n.kind = "member_call_expression"   ->
            IF object.kind = "variable_name" /\ object.text # <<"this">> THEN object.text \o method ELSE method
       [] OTHER                               ->
            IF scope.text \in {<<"self">>, <<"static">>, <<"parent">>} THEN method ELSE LastName(scope) \o method

(* A call, and the calls that lead to its object: objects, as far as they are calls. *)
PhpChain(n) ==
  LET below == Walk(n)
      isObject(m) == m.place = n.place \/ (m.as = "object" /\ m.kind \in PhpCalls)
  IN Those(below, LAMBDA m : \A a \in Range(below) : IsPrefix(a.place, m.place) => isObject(a))

PhpCall(w, n) ==
  ForEach(PhpChain(n), LAMBDA c :
    ReferIf(Top(w), "calls", PhpCallee(c), c) \o VisitEach("visit", Field(c, "arguments").kids))

(* extractPHPAssignment, createPHPThisField, nearestPHPClassID *)
PhpAssignment(w, n) ==
  LET left == Field(n, "left")
      object == Field(left, "object")
  IN (CASE left.kind = "variable_name" ->
             <<Declare(w, IF IsInsideClassLike(w) THEN "field" ELSE "variable", left.text, n, <<>>)>>
        [] left.kind = "member_access_expression" /\ object.kind = "variable_name" /\ object.text = <<"this">> ->
             <<DeclareIn(Nearest(w, {"class", "interface", "trait", "enum"}), "field", Field(left, "name").text, n, <<>>)>>
        [] OTHER -> <<>>)
     \o If(Has(n, "right"), <<Visit("visit", Field(n, "right"))>>)

Php(w, n) ==
  CASE n.kind = "namespace_definition"       -> PhpNamespace(w, n)
    [] n.kind = "class_declaration"          -> PhpClassLike(w, "class", n)
    [] n.kind = "interface_declaration"      -> PhpClassLike(w, "interface", n)
    [] n.kind = "trait_declaration"          -> PhpClassLike(w, "trait", n)
    [] n.kind = "enum_declaration"           -> PhpEnum(w, n)
    [] n.kind = "namespace_use_declaration"  -> PhpUse(w, n)
    [] n.kind = "method_declaration"         -> PhpCallable(w, "method", n)
    [] n.kind = "function_definition"        -> PhpCallable(w, "function", n)
    [] n.kind = "property_declaration"       -> PhpProperty(w, n)
    [] n.kind \in {"const_declaration", "class_const_declaration"} -> PhpConst(w, n)
    [] n.kind = "use_declaration"            -> PhpTraitUse(w, n)
    [] n.kind = "enum_case"                  -> <<Declare(w, "enum_member", Field(n, "name").text, n, <<>>)>>
    [] n.kind = "object_creation_expression" -> PhpNew(w, n)
    [] n.kind \in PhpCalls                   -> PhpCall(w, n)
    [] n.kind = "assignment_expression"      -> PhpAssignment(w, n)
    [] OTHER                                 -> VisitEach("visit", n.kids)

-----------------------------------------------------------------------------
(* TypeScript and JavaScript. *)

(* extractTSCall: the callee without a receiver that is the object itself. *)
TsCallee(n) ==
  LET fn == IF Has(n, "function") THEN Field(n, "function") ELSE First(n.kids)
      object == Field(fn, "object")
      method == Field(fn, "property").text
  IN CASE fn.kind # "member_expression" -> fn.text
       [] object.kind \in {"identifier", "field_identifier"} /\ method # <<>>
            /\ object.text[1] \notin {"self", "this", "cls", "super"} -> object.text \o method
       [] OTHER -> method

TsCall(from, n) == ReferIf(from, "calls", TsCallee(n), n)

(* extractTSInstantiation: the last segment of what is constructed. *)
TsInstantiation(from, n) ==
  ReferIf(from, "instantiates",
    LastName(IF Has(n, "constructor") THEN Field(n, "constructor") ELSE First(n.kids)), n)

(* visitTSBody: calls at any depth, those of functions in the body included, are
   those of the scope; functions in a body are not declared. *)
TsBody(from, body) ==
  ForEach(Within(body, {"call_expression", "new_expression"}), LAMBDA c :
    IF c.kind = "call_expression" THEN TsCall(from, c) ELSE TsInstantiation(from, c))

TsFunctions == {"arrow_function", "function_expression"}

(* resolveTSBody: of a field, that of the function it is, or of the functions a
   call is given. *)
TsResolvedBody(n) ==
  LET called(k) == Field(Kid(Field(k, "arguments"), TsFunctions), "body")
      bodies == Those(
        [i \in DOMAIN n.kids |->
           CASE n.kids[i].kind \in TsFunctions       -> Field(n.kids[i], "body")
             [] n.kids[i].kind = "call_expression"   -> called(n.kids[i])
             [] OTHER                                -> Nil],
        LAMBDA b : b # Nil)
  IN IF n.kind \notin {"public_field_definition", "field_definition"} THEN Field(n, "body")
     ELSE First(bodies)

(* collectTSTypeRefs *)
TsTypes(from, t) ==
  ForEach(Within(t, {"type_identifier"}), LAMBDA i :
    If(i.text # <<>> /\ i.text[1] \notin Builtin["typescript"], <<Refer(from, "references", i.text, i)>>))

(* extractTSTypeAnnotationRefs *)
TsAnnotations(from, n) ==
  LET of(p) == IF Has(p, "type") THEN TsTypes(from, Field(p, "type"))
               ELSE ForEach(KidsOf(p, {"type_annotation"}), LAMBDA a : TsTypes(from, a))
  IN TsTypes(from, Field(n, "return_type"))
       \o ForEach(Field(n, "parameters").kids, of)
       \o TsTypes(from, Kid(n, {"type_annotation"}))
       \o If(n.kind = "type_alias_declaration", TsTypes(from, Field(n, "value")))

(* extractTSFunction, without a name of its own or with the one it is assigned to. *)
TsFunction(w, given, n) ==
  LET name == IF given # <<>> THEN given
              ELSE IF n.kind \in TsFunctions THEN <<>> ELSE Field(n, "name").text
      id == Id("function", name, n)
  IN IF name = <<>> THEN TsBody(Top(w), TsResolvedBody(n))
     ELSE <<Declare(w, "function", name, n,
              TsAnnotations(id, n) \o Inside(id, TsBody(id, TsResolvedBody(n))))>>

(* extractTSClass, extractTSInterface *)
TsType(w, kind, n) ==
  LET body == IF Has(n, "body") THEN Field(n, "body") ELSE n
  IN Scope(w, kind, Field(n, "name").text, n, <<>>, VisitEach("visit", body.kids))

(* A field that holds a function is a function. *)
TsMethod(w, n) ==
  LET name == Field(n, "name").text
      id == Id("method", name, n)
      value == Field(n, "value")
  IN CASE name = <<>> -> <<>>
       [] value.kind \in TsFunctions /\ n.kind # "method_definition" -> TsFunction(w, name, value)
       [] OTHER -> <<Declare(w, "method", name, n,
                       TsAnnotations(id, n) \o Inside(id, TsBody(id, TsResolvedBody(n))))>>

(* extractTSEnum, extractTSEnumMember *)
TsEnum(w, n) ==
  LET id == Id("enum", Field(n, "name").text, n)
      named(m) == Kid(m, {"simple_identifier", "identifier", "property_identifier"})
      member(m) ==
        CASE Has(m, "name")    -> <<DeclareIn(id, "enum_member", Field(m, "name").text, m, <<>>)>>
          [] named(m) # Nil    -> <<DeclareIn(id, "enum_member", named(m).text, named(m), <<>>)>>
          [] Len(m.kids) = 0   -> <<DeclareIn(id, "enum_member", m.text, m, <<>>)>>
          [] OTHER             -> <<>>
  IN Scope(w, "enum", Field(n, "name").text, n, <<>>,
       ForEach(KidsOf(Field(n, "body"), {"property_identifier", "enum_assignment"}), member))

TsTypeAlias(w, n) ==
  LET name == Field(n, "name").text
  IN <<Declare(w, "type_alias", name, n, TsAnnotations(Id("type_alias", name, n), n))>>

(* emitTSClauseBindingRefs: what an import binds, by the names it is used with. *)
TsBindings(from, n, clause) ==
  LET bound(s) == CASE Has(s, "alias") -> Field(s, "alias")
                    [] Has(s, "name")  -> Field(s, "name")
                    [] OTHER           -> First(s.kids)
  IN ForEach(clause.kids, LAMBDA k :
       CASE k.kind = "identifier"       -> ReferIf(from, "imports", k.text, k)
         [] k.kind = "namespace_import" -> ReferIf(from, "imports", Kid(k, {"identifier"}).text, k)
         [] k.kind = "named_imports"    ->
              ForEach(KidsOf(k, {"import_specifier"}), LAMBDA s : ReferIf(from, "imports", bound(s).text, s))
         [] OTHER -> <<>>)

TsImport(w, n) ==
  LET module == Field(n, "source").text
  IN If(module # <<>>,
       <<Declare(w, "import", module, n, <<>>), Refer(Top(w), "imports", module, n)>>
         \o ForEach(KidsOf(n, {"import_clause"}), LAMBDA c : TsBindings(Top(w), n, c)))

(* emitTSReExportRefs *)
TsReExport(w, n) ==
  ForEach(KidsOf(n, {"export_clause"}), LAMBDA c :
    ForEach(KidsOf(c, {"export_specifier"}), LAMBDA s :
      LET name == (IF Has(s, "name") THEN Field(s, "name") ELSE First(s.kids)).text
      IN If(name \notin {<<>>, <<"default">>}, <<Refer(Top(w), "imports", name, s)>>)))

(* The calls in an object are not looked for. *)
TsVariable(w, n) ==
  LET kind == IF n.kind = "lexical_declaration" /\ "const" \in Range(n.text) THEN "constant" ELSE "variable"
      declared(d) ==
        LET name == Field(d, "name")
            value == Field(d, "value")
        IN CASE name.kind \in {"nil", "object_pattern", "array_pattern"} -> <<>>
             [] value.kind \in TsFunctions -> TsFunction(w, name.text, value)
             [] OTHER -> <<Declare(w, kind, name.text, d,
                             If(value.kind \notin {"object", "object_expression"}, TsBody(Top(w), value)))>>
  IN ForEach(KidsOf(n, {"variable_declarator"}), declared)

TypeScript(w, n) ==
  CASE n.kind \in TsFunctions \cup {"function_declaration"} -> TsFunction(w, <<>>, n)
    [] n.kind \in {"class_declaration", "abstract_class_declaration"} -> TsType(w, "class", n)
    [] n.kind \in {"method_definition", "public_field_definition", "field_definition"} ->
         IF IsInsideClassLike(w) THEN TsMethod(w, n) ELSE TsBody(Top(w), Field(n, "body"))
    [] n.kind = "interface_declaration"  -> TsType(w, "interface", n)
    [] n.kind = "enum_declaration"       -> TsEnum(w, n)
    [] n.kind = "type_alias_declaration" -> TsTypeAlias(w, n)
    [] n.kind = "import_statement"       -> TsImport(w, n)
    [] n.kind = "export_statement" /\ Has(n, "source") -> TsReExport(w, n)
    [] n.kind \in {"lexical_declaration", "variable_declaration"} /\ ~IsInsideClassLike(w) -> TsVariable(w, n)
    [] n.kind = "call_expression"        -> TsCall(Top(w), n)
    [] n.kind = "new_expression"         -> TsInstantiation(Top(w), n)
    [] OTHER                             -> VisitEach("visit", n.kids)

-----------------------------------------------------------------------------
(* Java. *)

JavaBody(n) == VisitEach("visit", Field(n, "body").kids)

(* javaScopedName *)
JavaScoped(n) == Kid(n, {"scoped_identifier", "identifier"}).text

(* Everything of a package, or the last segment of a name. *)
JavaImport(w, n) ==
  LET full == JavaScoped(n)
      name == IF full = <<>> \/ Kid(n, {"asterisk"}) # Nil THEN full ELSE <<Last(full)>>
  IN If(name # <<>>, <<Declare(w, "import", name, n, <<>>), Refer(Top(w), "imports", name, n)>>)

(* javaSimpleType *)
JavaSimple(t) ==
  LET head == Kid(t, {"type_identifier", "scoped_type_identifier"})
  IN LastName(IF t.kind = "generic_type" /\ head # Nil THEN head ELSE t)

(* javaTypeNames, emitJavaTypeRef *)
JavaTypeRefs(from, kind, types) ==
  ForEach(Outermost(types, {"type_identifier", "scoped_type_identifier", "generic_type"}),
    LAMBDA t : ReferIf(from, kind, JavaSimple(t), types))

(* javaModifiers, emitJavaDecorates *)
JavaDecorates(from, n) ==
  ForEach(KidsOf(Kid(n, {"modifiers"}), {"marker_annotation", "annotation"}),
    LAMBDA a : ReferIf(from, "decorates", Field(a, "name").text, n))

JavaClass(w, n) ==
  LET name == Field(n, "name").text
      id == Id("class", name, n)
  IN Scope(w, "class", name, n,
       JavaDecorates(id, n)
         \o JavaTypeRefs(id, "extends", Field(n, "superclass"))
         \o JavaTypeRefs(id, "implements", Field(n, "interfaces")),
       JavaBody(n))

JavaInterface(w, n) ==
  LET name == Field(n, "name").text
      id == Id("interface", name, n)
  IN Scope(w, "interface", name, n,
       JavaDecorates(id, n)
         \o ForEach(KidsOf(n, {"extends_interfaces"}), LAMBDA c : JavaTypeRefs(id, "extends", c)),
       JavaBody(n))

JavaEnum(w, n) ==
  LET name == Field(n, "name").text
      id == Id("enum", name, n)
      member(k) == IF k.kind = "enum_constant"
                     THEN DeclareIn(id, "enum_member", Field(k, "name").text, k, <<>>)
                     ELSE Visit("visit", k)
  IN Scope(w, "enum", name, n, JavaDecorates(id, n),
       ForEach(Field(n, "body").kids, LAMBDA k : <<member(k)>>))

JavaMethod(w, n) ==
  LET name == Field(n, "name").text
  IN Scope(w, "method", name, n, JavaDecorates(Id("method", name, n), n), JavaBody(n))

JavaNew(w, n) ==
  ReferIf(Top(w), "instantiates", JavaSimple(Field(n, "type")), n)
    \o VisitEach("visit", Field(n, "arguments").kids)

(* extractJavaField: of an initializer, only an object that is created is looked
   into.  The modifiers of a constant are not named children. *)
JavaField(w, n) ==
  LET modifiers == Kid(n, {"modifiers"})
      kind == IF {"static", "final"} \subseteq Range(modifiers.text) THEN "constant" ELSE "field"
  IN ForEach(KidsOf(n, {"variable_declarator"}), LAMBDA d :
       If(Field(d, "name").text # <<>>,
         <<Declare(w, kind, Field(d, "name").text, d, <<>>)>>
           \o If(Field(d, "value").kind = "object_creation_expression", JavaNew(w, Field(d, "value")))))

JavaLocalVar(w, n) ==
  ForEach(KidsOf(n, {"variable_declarator"}), LAMBDA d :
    If(Field(d, "name").text # <<>>,
      <<Declare(w, "variable", Field(d, "name").text, d, <<>>)>>
        \o If(Has(d, "value"), <<Visit("visit", Field(d, "value"))>>)))

(* extractJavaCall, javaCalleeName *)
JavaCall(w, n) ==
  LET object == Field(n, "object")
      method == Field(n, "name").text
  IN ReferIf(Top(w), "calls", IF object.kind = "identifier" /\ method # <<>> THEN object.text \o method ELSE method, n)
       \o If(object # Nil, <<Visit("visit", object)>>)
       \o VisitEach("visit", Field(n, "arguments").kids)

Java(w, n) ==
  CASE n.kind = "package_declaration"        -> <<Declare(w, "namespace", JavaScoped(n), n, <<>>)>>
    [] n.kind = "import_declaration"         -> JavaImport(w, n)
    [] n.kind \in {"class_declaration", "record_declaration"} -> JavaClass(w, n)
    [] n.kind \in {"interface_declaration", "annotation_type_declaration"} -> JavaInterface(w, n)
    [] n.kind = "enum_declaration"           -> JavaEnum(w, n)
    [] n.kind \in {"method_declaration", "constructor_declaration"} -> JavaMethod(w, n)
    [] n.kind = "field_declaration"          -> JavaField(w, n)
    [] n.kind = "local_variable_declaration" -> JavaLocalVar(w, n)
    [] n.kind = "method_invocation"          -> JavaCall(w, n)
    [] n.kind = "object_creation_expression" -> JavaNew(w, n)
    [] OTHER                                 -> VisitEach("visit", n.kids)

-----------------------------------------------------------------------------
(* C#. *)

(* The name of a declaration: the field, or the first identifier. *)
CsName(n) == (IF Has(n, "name") THEN Field(n, "name") ELSE Kid(n, {"identifier"})).text

(* csTypeName *)
CsType(t) == IF t.kind = "generic_name" THEN CsName(t) ELSE LastName(t)

(* A namespace without a body lasts to the end of the file. *)
CsNamespace(w, n) ==
  LET name == Field(n, "name").text
      id == Id("namespace", name, n)
      body == VisitEach("visit", Field(n, "body").kids)
  IN <<Declare(w, "namespace", name, n, IF Has(n, "body") THEN Inside(id, body) ELSE <<Enter(id)>>)>>

(* csAttributes, emitCSDecorates *)
CsDecorates(from, n) ==
  ForEach(KidsOf(n, {"attribute_list"}), LAMBDA al :
    ForEach(Those(al.kids, LAMBDA a : a.kind = "attribute" /\ Has(a, "name")), LAMBDA a :
      <<Refer(from, "decorates", CsType(Field(a, "name")), n)>>))

(* extractCSType, emitCSBaseList: every base is extended. *)
CsTypeDeclaration(w, kind, n) ==
  LET name == Field(n, "name").text
      id == Id(kind, name, n)
  IN Scope(w, kind, name, n,
       CsDecorates(id, n) \o ForEach(Kid(n, {"base_list"}).kids, LAMBDA b : ReferIf(id, "extends", CsType(b), b)),
       VisitEach("visit", Field(n, "body").kids))

CsEnum(w, n) ==
  LET name == Field(n, "name").text
      id == Id("enum", name, n)
      body == IF Has(n, "body") THEN Field(n, "body") ELSE Kid(n, {"enum_member_declaration_list"})
  IN Scope(w, "enum", name, n, CsDecorates(id, n),
       ForEach(KidsOf(body, {"enum_member_declaration"}), LAMBDA m :
         <<DeclareIn(id, "enum_member", CsName(m), m, <<>>)>>))

CsMethod(w, n) ==
  LET id == Id("method", CsName(n), n)
  IN Scope(w, "method", CsName(n), n, CsDecorates(id, n),
       ForEach(<<Field(n, "body")>> \o KidsOf(n, {"arrow_expression_clause"}), LAMBDA b : VisitEach("visit", b.kids)))

(* The accessors are not looked into. *)
CsProperty(w, n) ==
  LET named == KidsOf(n, {"identifier"})
      name == CASE Field(n, "name").text # <<>> -> Field(n, "name").text
                [] named # <<>>                 -> Last(named).text
                [] OTHER                        -> <<>>
  IN <<Declare(w, "property", name, n, <<>>)>>

CsField(w, n) ==
  LET kind == IF \E m \in Range(KidsOf(n, {"modifier"})) : m.text = <<"const">> THEN "constant" ELSE "field"
  IN ForEach(KidsOf(Kid(n, {"variable_declaration"}), {"variable_declarator"}),
       LAMBDA d : <<Declare(w, kind, CsName(d), d, <<>>)>>)

(* extractCSDelegate: without a name field, the last identifier. *)
CsDelegate(w, n) ==
  LET named == KidsOf(n, {"identifier"})
      name == CASE Field(n, "name").text # <<>> -> Field(n, "name").text
                [] named # <<>>                 -> Last(named).text
                [] OTHER                        -> <<>>
  IN <<Declare(w, "field", name, n, <<>>)>>

(* extractCSUsing: with an equals sign, the first name is the alias. *)
CsUsing(w, n) ==
  LET names == KidsOf(n, {"identifier", "qualified_name"})
      alias == n.text = <<"=">>
      name == CASE names = <<>> \/ (alias /\ Len(names) = 1) -> <<>>
                [] alias -> Head(names).text
                [] OTHER -> LastName(Last(names))
  IN If(name # <<>>, <<Declare(w, "import", name, n, <<>>), Refer(Top(w), "imports", name, n)>>)

(* csCalleeName *)
CsCallee(fn) ==
  LET object == Field(fn, "expression")
      method == Field(fn, "name").text
  IN CASE fn.kind = "identifier"   -> fn.text
       [] fn.kind = "generic_name" -> CsName(fn)
       [] fn.kind = "member_access_expression" ->
            IF object.kind = "identifier" /\ object.text[1] \notin {"this", "base"} /\ method # <<>>
              THEN object.text \o method ELSE method
       [] OTHER                    -> <<>>

CsInvocation(w, n) ==
  ReferIf(Top(w), "calls", CsCallee(Field(n, "function")), n)
    \o VisitEach("visit", Field(n, "function").kids)
    \o VisitEach("visit", Field(n, "arguments").kids)

CsObjectCreation(w, n) ==
  ReferIf(Top(w), "instantiates", CsType(Field(n, "type")), n)
    \o VisitEach("visit", Field(n, "arguments").kids)

CSharp(w, n) ==
  CASE n.kind \in {"namespace_declaration", "file_scoped_namespace_declaration"} -> CsNamespace(w, n)
    [] n.kind \in {"class_declaration", "record_declaration"} -> CsTypeDeclaration(w, "class", n)
    [] n.kind = "struct_declaration"         -> CsTypeDeclaration(w, "struct", n)
    [] n.kind = "interface_declaration"      -> CsTypeDeclaration(w, "interface", n)
    [] n.kind = "enum_declaration"           -> CsEnum(w, n)
    [] n.kind \in {"method_declaration", "constructor_declaration", "operator_declaration"} -> CsMethod(w, n)
    [] n.kind \in {"property_declaration", "indexer_declaration"} -> CsProperty(w, n)
    [] n.kind \in {"field_declaration", "event_field_declaration"} -> CsField(w, n)
    [] n.kind \in {"delegate_declaration", "event_declaration"} -> CsDelegate(w, n)
    [] n.kind = "using_directive"            -> CsUsing(w, n)
    [] n.kind = "invocation_expression"      -> CsInvocation(w, n)
    [] n.kind = "object_creation_expression" -> CsObjectCreation(w, n)
    [] OTHER                                 -> VisitEach("visit", n.kids)

-----------------------------------------------------------------------------
(* Kotlin. *)

(* ktSimpleType: the first type identifier there is. *)
KtType(t) ==
  LET ids == Within(t, {"type_identifier"})
  IN CASE t.kind = "simple_identifier" -> t.text
       [] ids # <<>>                   -> Head(ids).text
       [] OTHER                        -> LastName(t)

(* ktDottedIdentifier *)
KtDotted(n) == Kid(n, {"identifier"}).text

KtImport(w, n) ==
  LET full == KtDotted(n)
      name == IF full = <<>> \/ Kid(n, {"wildcard_import"}) # Nil THEN full ELSE <<Last(full)>>
  IN If(name # <<>>, <<Declare(w, "import", name, n, <<>>), Refer(Top(w), "imports", name, n)>>)

(* ktModifiers, ktAnnotationHead, emitKotlinDecorates *)
KtDecorates(from, n) ==
  ForEach(KidsOf(Kid(n, {"modifiers"}), {"annotation"}), LAMBDA a :
    LET types == Within(a, {"user_type"})
    IN If(types # <<>>, ReferIf(from, "decorates", KtType(Head(types)), n)))

(* emitKotlinDelegations: what is constructed is extended, what is named is
   implemented. *)
KtDelegations(from, n) ==
  ForEach(KidsOf(n, {"delegation_specifier"}), LAMBDA d :
    LET constructed == Kid(d, {"constructor_invocation"})
        named(t) == Kid(t, {"user_type"})
    IN IF constructed # Nil THEN ReferIf(from, "extends", KtType(named(constructed)), d)
       ELSE ReferIf(from, "implements", KtType(named(d)), d))

(* A companion's members are the class's. *)
KtMembers(k) ==
  Unfold(k, LAMBDA m : IF m.kind = "companion_object" THEN Kid(m, {"class_body"}).kids ELSE <<m>>)

KtClassBody(body) == ForEach(body.kids, LAMBDA k : VisitEach("visit", KtMembers(k)))

KtEnumBody(id, body) ==
  ForEach(body.kids, LAMBDA k :
    IF k.kind = "enum_entry"
      THEN <<DeclareIn(id, "enum_member", Kid(k, {"simple_identifier"}).text, k, <<>>)>>
      ELSE <<Visit("visit", k)>>)

(* extractKotlinPrimaryCtor: the parameters that are val or var. *)
KtConstructor(id, n) ==
  ForEach(KidsOf(Kid(n, {"primary_constructor"}), {"class_parameter"}), LAMBDA p :
    If(Kid(p, {"binding_pattern_kind"}) # Nil,
      <<DeclareIn(id, "field", Kid(p, {"simple_identifier"}).text, p, <<>>)>>))

(* The keywords of a declaration, which are not children, are its text. *)
KtClass(w, n) ==
  LET name == Kid(n, {"type_identifier"}).text
      kind == CASE "enum" \in Range(n.text)      -> "enum"
                [] "interface" \in Range(n.text) -> "interface"
                [] OTHER                         -> "class"
      id == Id(kind, name, n)
  IN Scope(w, kind, name, n,
       KtDecorates(id, n) \o KtDelegations(id, n),
       KtConstructor(id, n)
         \o IF kind = "enum" THEN KtEnumBody(id, Kid(n, {"enum_class_body"}))
            ELSE KtClassBody(Kid(n, {"class_body"})))

KtObject(w, n) ==
  LET name == Kid(n, {"type_identifier"}).text
      id == Id("class", name, n)
  IN Scope(w, "class", name, n, KtDecorates(id, n) \o KtDelegations(id, n), KtClassBody(Kid(n, {"class_body"})))

KtFunction(w, n) ==
  LET name == Kid(n, {"simple_identifier"}).text
      kind == IF IsInsideClassLike(w) THEN "method" ELSE "function"
      body == Kid(n, {"function_body"})
  IN Scope(w, kind, name, n, KtDecorates(Id(kind, name, n), n), VisitEach("visit", body.kids))

(* isInsideFunctionLike *)
KtIsInsideFunction(w) == IsInside(w, {"function", "method"})

KtProperty(w, n) ==
  LET name == Kid(Kid(n, {"variable_declaration"}), {"simple_identifier"}).text
      const == \E m \in Range(KidsOf(Kid(n, {"modifiers"}), {"property_modifier"})) : m.text = <<"const">>
      kind == CASE const                 -> "constant"
                [] IsInsideClassLike(w)  -> "property"
                [] KtIsInsideFunction(w) -> "variable"
                [] OTHER                 -> "field"
      other == {"modifiers", "binding_pattern_kind", "variable_declaration"}
  IN <<Declare(w, kind, name, n,
         KtDecorates(Id(kind, name, n), n)
           \o VisitEach("visit", Those(n.kids, LAMBDA k : k.kind \notin other)))>>

(* ktCalleeName *)
KtCallee(n) ==
  LET callee == First(n.kids)
      method == Kid(Kid(callee, {"navigation_suffix"}), {"simple_identifier"}).text
      receiver == First(callee.kids)
  IN CASE callee.kind = "simple_identifier"     -> callee.text
       [] callee.kind # "navigation_expression" -> <<>>
       [] receiver.kind = "simple_identifier" /\ method # <<>> -> receiver.text \o method
       [] OTHER                                 -> method

KtCall(w, n) ==
  LET below(k) == CASE k.kind = "simple_identifier"     -> <<>>
                    [] k.kind = "navigation_expression" -> If(k.kids # <<>>, <<Visit("visit", Head(k.kids))>>)
                    [] OTHER                            -> <<Visit("visit", k)>>
  IN ReferIf(Top(w), "calls", KtCallee(n), n) \o ForEach(n.kids, below)

Kotlin(w, n) ==
  CASE n.kind = "package_header"       -> <<Declare(w, "namespace", KtDotted(n), n, <<>>)>>
    [] n.kind = "import_list"          -> ForEach(KidsOf(n, {"import_header"}), LAMBDA i : KtImport(w, i))
    [] n.kind = "import_header"        -> KtImport(w, n)
    [] n.kind = "class_declaration"    -> KtClass(w, n)
    [] n.kind = "object_declaration"   -> KtObject(w, n)
    [] n.kind = "function_declaration" -> KtFunction(w, n)
    [] n.kind = "property_declaration" -> KtProperty(w, n)
    [] n.kind = "type_alias"           -> <<Declare(w, "type_alias", Kid(n, {"type_identifier"}).text, n, <<>>)>>
    [] n.kind = "call_expression"      -> KtCall(w, n)
    [] OTHER                           -> VisitEach("visit", n.kids)

-----------------------------------------------------------------------------
(* Swift. *)

(* swiftDeclName.  swiftLastIdent, swiftBaseTypeName: LastName. *)
SwiftName(n) ==
  IF Has(n, "name") THEN LastName(Field(n, "name")) ELSE Kid(n, {"type_identifier"}).text

(* The first segment of the module. *)
SwiftImport(w, n) ==
  LET identifier == Kid(n, {"identifier"})
      first == IF Kid(identifier, {"simple_identifier"}) # Nil THEN Kid(identifier, {"simple_identifier"}) ELSE identifier
      name == SubSeq(first.text, 1, 1)
  IN If(name # <<>>, <<Declare(w, "import", name, n, <<>>), Refer(Top(w), "imports", name, n)>>)

(* emitSwiftInheritance: the first of them is extended, the others implemented. *)
SwiftInheritance(from, n) ==
  LET type(s) == LastName(IF Has(s, "inherits_from") THEN Field(s, "inherits_from") ELSE s)
      specs == Those(KidsOf(n, {"inheritance_specifier"}), LAMBDA s : type(s) # <<>>)
  IN [i \in DOMAIN specs |-> Refer(from, IF i = 1 THEN "extends" ELSE "implements", type(specs[i]), specs[i])]

SwiftProtocol(w, n) ==
  LET name == SwiftName(n)
      id == Id("interface", name, n)
      body == Kid(n, {"protocol_body"})
  IN <<Declare(w, "interface", name, n,
         SwiftInheritance(id, n) \o If(body # Nil, Inside(id, VisitEach("protocol", body.kids))))>>

(* swiftClassBody, swiftFnBody *)
SwiftTypeBody(n) ==
  CASE Has(n, "body")                -> Field(n, "body")
    [] Kid(n, {"class_body"}) # Nil  -> Kid(n, {"class_body"})
    [] OTHER                         -> Kid(n, {"enum_class_body"})

SwiftFnBody(n) == IF Has(n, "body") THEN Field(n, "body") ELSE Kid(n, {"function_body"})

(* extractSwiftEnumEntry *)
SwiftEnumEntry(id, k) ==
  ForEach(KidsOf(k, {"simple_identifier"}), LAMBDA c : <<DeclareIn(id, "enum_member", c.text, k, <<>>)>>)

(* extractSwiftClassLike, of all but an extension. *)
SwiftClassLike(w, n) ==
  LET declared == Field(n, "declaration_kind").text
      kind == CASE declared = <<"struct">> -> "struct"
                [] declared = <<"enum">>   -> "enum"
                [] OTHER                   -> "class"
      name == SwiftName(n)
      id == Id(kind, name, n)
      body == SwiftTypeBody(n)
      member(k) == IF k.kind = "enum_entry" THEN SwiftEnumEntry(id, k) ELSE <<Visit("visit", k)>>
  IN <<Declare(w, kind, name, n,
         SwiftInheritance(id, n) \o If(body # Nil, Inside(id, ForEach(body.kids, member))))>>

(* swiftCalleeName: the last segment, or what a suffix names. *)
SwiftCallee(n) ==
  LET callee == First(Those(n.kids, LAMBDA k : k.kind # "call_suffix"))
      suffix == Field(callee, "suffix")
  IN IF callee.kind # "navigation_expression" THEN LastName(callee)
     ELSE IF Has(suffix, "suffix") THEN Field(suffix, "suffix").text ELSE LastName(suffix)

(* visitSwiftBody: the calls at any depth; there are none outside of a function. *)
SwiftBody(from, body) ==
  ForEach(Within(body, {"call_expression"}), LAMBDA c : ReferIf(from, "calls", SwiftCallee(c), c))

(* swiftIsOverride *)
SwiftOverride(from, name, n) ==
  If("override" \in Range(Kid(n, {"modifiers"}).text), <<Refer(from, "overrides", name, n)>>)

SwiftFnName(n) == (IF Has(n, "name") THEN Field(n, "name") ELSE Kid(n, {"simple_identifier"})).text

SwiftFunction(w, n) ==
  LET name == SwiftFnName(n)
      kind == IF IsInsideClassLike(w) THEN "method" ELSE "function"
      id == Id(kind, name, n)
  IN Scope(w, kind, name, n, SwiftOverride(id, name, n), SwiftBody(id, SwiftFnBody(n)))

(* swiftPropertyName *)
SwiftPropertyName(n) ==
  LET pattern == IF Has(n, "name") THEN Field(n, "name") ELSE Kid(n, {"pattern"})
  IN CASE Has(pattern, "bound_identifier")             -> Field(pattern, "bound_identifier").text
       [] Kid(pattern, {"simple_identifier"}) # Nil    -> Kid(pattern, {"simple_identifier"}).text
       [] OTHER                                        -> pattern.text

(* Initializers and accessors are not looked into. *)
SwiftProperty(w, n) ==
  LET binding == Kid(n, {"value_binding_pattern"})
      let == IF Has(binding, "mutability") THEN Field(binding, "mutability").text = <<"let">>
             ELSE binding.text # <<>> /\ binding.text[1] = "let"
      computed == Kid(n, {"computed_property", "computed_getter", "protocol_property_requirements"}) # Nil
      kind == CASE IsInsideClassLike(w) /\ computed -> "property"
                [] IsInsideClassLike(w)             -> "field"
                [] let                              -> "constant"
                [] OTHER                            -> "variable"
  IN <<Declare(w, kind, SwiftPropertyName(n), n, <<>>)>>

(* extractSwiftExtMethod, extractSwiftExtInit *)
SwiftExtMethod(w, type, name, n) ==
  LET id == Id("method", name, n)
  IN Scope(w, "method", name, n,
       ContainIn(w, type, id) \o If(n.kind = "function_declaration", SwiftOverride(id, name, n)),
       SwiftBody(id, SwiftFnBody(n)))

SwiftTypeAlias(w, n) == <<Declare(w, "type_alias", SwiftName(n), n, <<>>)>>

(* The members of an extension are those of the scope it is in, and of the type it
   extends if that comes before it in the file. *)
SwiftExtension(w, n) ==
  LET type == LastName(Field(n, "name"))
      extended == IdOf(w, {"class", "struct", "enum", "interface"}, type)
      member(k) ==
        CASE k.kind = "function_declaration"  -> SwiftExtMethod(w, type, SwiftFnName(k), k)
          [] k.kind = "init_declaration"      -> SwiftExtMethod(w, type, <<"init">>, k)
          [] k.kind = "property_declaration"  ->
               <<Declare(w, "property", SwiftPropertyName(k), k,
                   ContainIn(w, type, Id("property", SwiftPropertyName(k), k)))>>
          [] k.kind = "typealias_declaration" -> SwiftTypeAlias(w, k)
          [] OTHER                            -> <<Visit("visit", k)>>
  IN If(type # <<>>,
       If(extended # <<>>, SwiftInheritance(extended, n)) \o ForEach(SwiftTypeBody(n).kids, member))

Swift(w, mode, n) ==
  CASE n.kind = "import_declaration"    -> SwiftImport(w, n)
    [] n.kind = "protocol_declaration"  -> SwiftProtocol(w, n)
    [] n.kind = "class_declaration"     ->
         IF Field(n, "declaration_kind").text = <<"extension">> THEN SwiftExtension(w, n) ELSE SwiftClassLike(w, n)
    [] n.kind = "function_declaration"  -> SwiftFunction(w, n)
    [] n.kind = "property_declaration"  -> SwiftProperty(w, n)
    [] n.kind = "typealias_declaration" -> SwiftTypeAlias(w, n)
    [] mode = "protocol" /\ n.kind = "protocol_function_declaration" -> SwiftFunction(w, n)
    [] mode = "protocol" /\ n.kind = "protocol_property_declaration" -> SwiftProperty(w, n)
    [] OTHER                            -> VisitEach("visit", n.kids)

-----------------------------------------------------------------------------
(* Dart. *)

(* dartFirstIdentifier, dartSigName *)
DartIdentifier(n) == IF Kid(n, {"identifier"}) # Nil THEN Kid(n, {"identifier"}).text
                     ELSE If(n.kind = "identifier", n.text)
DartSigName(n) == (IF Has(n, "name") THEN Field(n, "name") ELSE Kid(n, {"identifier"})).text

(* An import is named for the last segment of what is referred to. *)
DartImport(w, n) ==
  LET uris == Those(Within(n, {"uri"}), LAMBDA u : u.text # <<>>)
  IN If(uris # <<>>,
       <<Declare(w, "import", LastName(uris[1]), n, <<>>), Refer(Top(w), "imports", uris[1].text, n)>>)

(* dartAnnotations, emitDartDecorates *)
DartDecorates(from, n) ==
  ForEach(KidsOf(n, {"annotation"}), LAMBDA a :
    ReferIf(from, "decorates", IF Has(a, "name") THEN Field(a, "name").text ELSE DartIdentifier(a), n))

DartTypeRefs(from, kind, n) ==
  ForEach(KidsOf(n, {"type_identifier"}), LAMBDA t : ReferIf(from, kind, LastName(t), t))

(* The bases, in the order of the text: mixins are among the children of the
   superclass. *)
DartBases(id, n) ==
  ForEach(Field(n, "superclass").kids, LAMBDA k :
    CASE k.kind = "type_identifier" -> ReferIf(id, "extends", LastName(k), k)
      [] k.kind = "mixins"          -> DartTypeRefs(id, "implements", k)
      [] OTHER                      -> <<>>)
  \o DartTypeRefs(id, "implements", Field(n, "interfaces"))

(* walkDartClassBody: a member that is not one of three kinds is passed over. *)
DartMembers(body) ==
  VisitEach("member", KidsOf(body, {"declaration", "method_signature", "function_body"}))

DartClass(w, n) ==
  LET name == Field(n, "name").text
      id == Id("class", name, n)
  IN Scope(w, "class", name, n, DartDecorates(id, n) \o DartBases(id, n), DartMembers(Field(n, "body")))

(* extractDartMixin, extractDartExtension *)
DartMixin(w, n) ==
  LET named == Kid(n, {"identifier"}).text
      name == IF named = <<>> /\ n.kind = "extension_declaration" THEN <<"extension">> ELSE named
  IN Scope(w, "class", name, n, <<>>, ForEach(KidsOf(n, {"class_body"}), DartMembers))

(* extractDartCallChain: an identifier and the selectors after it, up to the first
   that has arguments. *)
DartCallChain(w, n) ==
  LET selectors(i) ==
        SubSeq(n.kids, i + 1,
          CHOOSE j \in i..Len(n.kids) :
            /\ \A k \in (i + 1)..j : n.kids[k].kind = "selector"
            /\ j = Len(n.kids) \/ n.kids[j + 1].kind # "selector")
      part(s) == DartIdentifier(Kid(s, {"unconditional_assignable_selector"}))
      arguments(s) == Kid(s, {"unconditional_assignable_selector"}) = Nil /\ Kid(s, {"argument_part"}) # Nil
      call(i) ==
        LET sels == selectors(i)
            calls == {j \in DOMAIN sels : arguments(sels[j])}
            name == FoldLeft(LAMBDA names, s : names \o part(s), n.kids[i].text,
                      SubSeq(sels, 1, (CHOOSE j \in calls : \A k \in calls : j <= k) - 1))
        IN If(n.kids[i].kind = "identifier" /\ calls # {}, <<Refer(Top(w), "calls", name, n.kids[i])>>)
  IN FlattenSeq([i \in DOMAIN n.kids |-> call(i)])

(* visitDartBody *)
DartBody(w, n) == DartCallChain(w, n) \o VisitEach("visit", n.kids)

(* descendDartDeclBodies: the call chains under a declaration that makes `id`. *)
DartDeclBodies(w, id, decl) ==
  ForEach(KidsOf(decl, {"function_body", "initializers", "block"}),
    LAMBDA b : DartBody([w EXCEPT !.stack = Append(@, id)], b))

(* extractDartConstructor: named for its class and itself. *)
DartConstructor(w, decl, sig) ==
  LET ids == KidsOf(sig, {"identifier"})
      name == CASE Len(ids) >= 2 -> ids[1].text \o ids[2].text
                [] Len(ids) = 1  -> ids[1].text
                [] OTHER         -> Top(w)[2]
      id == Id("method", name, sig)
  IN Scope(w, "method", name, sig, <<>>, DartDeclBodies(w, id, decl))

DartMethodFromSig(w, decl, sig) ==
  LET id == Id("method", DartSigName(sig), sig)
  IN Scope(w, "method", DartSigName(sig), sig, <<>>, DartDeclBodies(w, id, decl))

DartGetterSetter(w, sig) == <<Declare(w, "property", DartSigName(sig), sig, <<>>)>>

DartField(w, n) ==
  LET const == "const" \in Range(n.text) \/ Kid(n, {"const_builtin"}) # Nil
      lists == {"initialized_identifier_list", "static_final_declaration_list"}
      items(k) == IF k.kind \in lists THEN KidsOf(k, {"initialized_identifier", "static_final_declaration"})
                  ELSE If(k.kind = "initialized_identifier", <<k>>)
  IN ForEach(n.kids, LAMBDA k : ForEach(items(k), LAMBDA i :
       <<Declare(w, IF const THEN "constant" ELSE "field", DartIdentifier(i), i, <<>>)>>))

DartDeclaration(w, n) ==
  LET sig == Kid(n, {"constructor_signature", "function_signature", "getter_signature", "setter_signature"})
  IN CASE sig.kind = "constructor_signature" -> DartConstructor(w, n, sig)
       [] sig.kind = "function_signature"    -> DartMethodFromSig(w, n, sig)
       [] sig # Nil                          -> DartGetterSetter(w, sig)
       [] OTHER                              -> DartField(w, n)

(* extractDartMethodSig: the body is the sibling that follows.  A getter or an
   operator does not wait for its body. *)
DartMethodSig(w, n) ==
  LET sigs == KidsOf(n, {"function_signature", "getter_signature", "setter_signature",
                         "factory_constructor_signature", "constructor_signature"})
      id == Id("method", DartSigName(Last(sigs)), n)
  IN CASE sigs = <<>> -> <<>>
       [] Last(sigs).kind \in {"getter_signature", "setter_signature"} -> DartGetterSetter(w, Last(sigs))
       [] OTHER -> <<Declare(w, "method", DartSigName(Last(sigs)), n, DartDecorates(id, n) \o <<Pend(id)>>)>>

(* Mutant of DartMemberBody: the pending member is not cleared, so that it also has the
   body of the next one that makes no node. *)
DartMemberBodyKept(w, n) ==
  IF w.pending = <<>> THEN DartBody(w, n)
  ELSE Inside(w.pending, DartBody([w EXCEPT !.stack = Append(@, w.pending)], n))

(* visitDartMemberBody *)
DartMemberBody(w, n) ==
  IF w.pending = <<>> THEN DartBody(w, n)
  ELSE <<Pend(<<>>)>> \o Inside(w.pending, DartBody([w EXCEPT !.stack = Append(@, w.pending)], n))

(* An enum constant without a name field is named for its text. *)
DartEnum(w, n) ==
  LET name == Field(n, "name").text
      id == Id("enum", name, n)
      member(m) == DeclareIn(id, "enum_member", (IF Has(m, "name") THEN Field(m, "name") ELSE m).text, m, <<>>)
  IN Scope(w, "enum", name, n, <<>>, ForEach(KidsOf(Field(n, "body"), {"enum_constant"}), LAMBDA m : <<member(m)>>))

DartNew(w, n) ==
  ReferIf(Top(w), "instantiates", LastName(Kid(n, {"type_identifier"})), n)
    \o If(Kid(n, {"arguments"}) # Nil, DartBody(w, Kid(n, {"arguments"})))

DartLocalVar(w, n) ==
  DartCallChain(w, n)
    \o VisitEach("visit", Those(n.kids,
         LAMBDA k : k.kind \notin {"identifier", "selector", "inferred_type", "type_identifier"}))

Dart(w, mode, n) ==
  CASE n.kind = "function_body"    -> DartMemberBody(w, n)
    [] mode = "member"             -> IF n.kind = "declaration" THEN DartDeclaration(w, n) ELSE DartMethodSig(w, n)
    [] n.kind = "import_or_export" -> DartImport(w, n)
    [] n.kind = "class_definition" -> DartClass(w, n)
    [] n.kind \in {"mixin_declaration", "extension_declaration"} -> DartMixin(w, n)
    [] n.kind = "enum_declaration" -> DartEnum(w, n)
    [] n.kind = "type_alias"       -> <<Declare(w, "type_alias", Kid(n, {"type_identifier"}).text, n, <<>>)>>
    [] n.kind = "function_signature" ->
         <<Declare(w, "function", DartSigName(n), n, <<Pend(Id("function", DartSigName(n), n))>>)>>
    [] n.kind = "new_expression"   -> DartNew(w, n)
    [] n.kind \in {"initialized_variable_definition", "local_variable_declaration"} -> DartLocalVar(w, n)
    [] n.kind = "identifier"       -> <<>>
    [] OTHER                       -> DartBody(w, n)
=============================================================================
