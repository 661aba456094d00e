---------------------------- MODULE SystemWalkers ---------------------------
(***************************************************************************)
(* The walkers of C and its relatives, Rust and Go.                        *)
(***************************************************************************)
EXTENDS ScriptWalkers

-----------------------------------------------------------------------------
(* C. *)

CWrappers == {"pointer_declarator", "function_declarator", "init_declarator",
              "array_declarator", "parenthesized_declarator"}

(* The declarator inside: the field, or a child. *)
CInner(d) == IF Has(d, "declarator") THEN Field(d, "declarator") ELSE First(d.kids)

(* cDeclaratorName *)
CName(d) ==
  LET name == Follow(d, LAMBDA x : IF x.kind \in CWrappers THEN CInner(x) ELSE x)
  IN If(name.kind \in {"identifier", "field_identifier", "type_identifier"}, name.text)

(* cFunctionDeclarator *)
CFunctionDeclarator(d) ==
  LET inside(x) == IF x.kind \in {"pointer_declarator", "init_declarator", "parenthesized_declarator"} THEN CInner(x) ELSE x
      declarator == Follow(d, inside)
  IN IF declarator.kind = "function_declarator" THEN declarator ELSE Nil

(* cTypeName *)
CType(t) ==
  CASE t.kind \in {"type_identifier", "primitive_type", "sized_type_specifier"} -> t.text
    [] t.kind \in {"struct_specifier", "union_specifier", "enum_specifier"} -> Field(t, "name").text
    [] OTHER -> <<>>

CTypeRef(from, t, n) ==
  If(CType(t) # <<>> /\ CType(t)[1] \notin Builtin["c"], <<Refer(from, "references", CType(t), n)>>)

(* emitCTypeRef of the result and emitCParamTypeRefs. *)
CTypeRefs(from, n) ==
  CTypeRef(from, Field(n, "type"), n)
    \o ForEach(KidsOf(Field(CFunctionDeclarator(Field(n, "declarator")), "parameters"), {"parameter_declaration"}),
         LAMBDA p : CTypeRef(from, Field(p, "type"), n))

CInclude(w, n) ==
  LET header == Field(n, "path").text
  IN If(header # <<>>, <<Declare(w, "import", header, n, <<>>), Refer(Top(w), "imports", header, n)>>)

(* extractCCall of every call in a body, cCalleeName. *)
CCallee(fn) ==
  LET callee == Follow(fn, LAMBDA x : IF x.kind \in {"parenthesized_expression", "pointer_expression"} THEN First(x.kids) ELSE x)
  IN CASE callee.kind = "identifier"       -> callee.text
       [] callee.kind = "field_expression" -> Field(callee, "field").text
       [] OTHER                            -> <<>>

CCalls(from, body) ==
  ForEach(Within(body, {"call_expression"}), LAMBDA c : ReferIf(from, "calls", CCallee(Field(c, "function")), c))

CFunction(w, n) ==
  LET name == CName(Field(n, "declarator"))
      id == Id("function", name, n)
  IN <<Declare(w, "function", name, n, CTypeRefs(id, n) \o CCalls(id, Field(n, "body")))>>

CDeclaration(w, n) ==
  LET decl == Field(n, "declarator")
      kind == CASE CFunctionDeclarator(decl) # Nil -> "function"
                [] \E q \in Range(KidsOf(n, {"type_qualifier"})) : q.text = <<"const">> -> "constant"
                [] OTHER                           -> "variable"
      id == Id(kind, CName(decl), n)
  IN <<Declare(w, kind, CName(decl), n, CTypeRefs(id, n))>>

CField(w, id, f) ==
  LET name == CName(Field(f, "declarator"))
  IN DeclareIn(id, "field", name, f, CTypeRef(Id("field", name, f), Field(f, "type"), f))

CStruct(w, n) ==
  LET name == Field(n, "name").text
      id == Id("struct", name, n)
  IN <<Declare(w, "struct", name, n,
         ForEach(KidsOf(Field(n, "body"), {"field_declaration"}), LAMBDA f : <<CField(w, id, f)>>))>>

CEnum(w, n) ==
  LET name == Field(n, "name").text
  IN <<Declare(w, "enum", name, n,
         ForEach(KidsOf(Field(n, "body"), {"enumerator"}), LAMBDA m :
           <<DeclareIn(Id("enum", name, n), "enum_member", Field(m, "name").text, m, <<>>)>>))>>

CTypedef(w, n) ==
  LET t == Field(n, "type")
  IN (CASE t.kind \in {"struct_specifier", "union_specifier"} -> CStruct(w, t)
        [] t.kind = "enum_specifier" -> CEnum(w, t)
        [] OTHER -> <<>>)
     \o <<Declare(w, "type_alias", CName(Field(n, "declarator")), n, <<>>)>>

C(w, n) ==
  CASE n.kind = "preproc_include"      -> CInclude(w, n)
    [] n.kind = "preproc_def"          -> <<Declare(w, "constant", Field(n, "name").text, n, <<>>)>>
    [] n.kind = "preproc_function_def" -> <<Declare(w, "function", Field(n, "name").text, n, <<>>)>>
    [] n.kind = "function_definition"  -> CFunction(w, n)
    [] n.kind = "declaration"          -> CDeclaration(w, n)
    [] n.kind \in {"struct_specifier", "union_specifier"} -> CStruct(w, n)
    [] n.kind = "enum_specifier"       -> CEnum(w, n)
    [] n.kind = "type_definition"      -> CTypedef(w, n)
    [] OTHER                           -> VisitEach("visit", n.kids)

-----------------------------------------------------------------------------
(* Rust. *)

(* rustItemName *)
RustName(n, kind) == (IF Has(n, "name") THEN Field(n, "name") ELSE Kid(n, {kind})).text

RustMod(w, n) ==
  LET body == IF Has(n, "body") THEN Field(n, "body") ELSE Kid(n, {"declaration_list"})
  IN Scope(w, "module", RustName(n, "identifier"), n, <<>>, VisitEach("visit", body.kids))

RustTrait(w, n) ==
  Scope(w, "interface", RustName(n, "type_identifier"), n, <<>>,
    VisitEach("visit", Kid(n, {"declaration_list"}).kids))

(* extractRustStruct, extractRustEnum: the parts that have names. *)
RustParts(w, kind, n, list, part, partKind, nameKind) ==
  LET name == RustName(n, "type_identifier")
      id == Id(kind, name, n)
  IN Scope(w, kind, name, n, <<>>,
       ForEach(KidsOf(Kid(n, {list}), {part}), LAMBDA p :
         <<DeclareIn(id, partKind, RustName(p, nameKind), p, <<>>)>>))

RustStruct(w, n) ==
  RustParts(w, "struct", n, "field_declaration_list", "field_declaration", "field", "field_identifier")

RustEnum(w, n) ==
  RustParts(w, "enum", n, "enum_variant_list", "enum_variant", "enum_member", "identifier")

(* rustCalleeName: the last segment of a path and the name. *)
RustCallee(fn) ==
  LET generic(x) == IF Has(x, "function") THEN Field(x, "function") ELSE First(x.kids)
      callee == Follow(fn, LAMBDA x : IF x.kind = "generic_function" THEN generic(x) ELSE x)
      name == Field(callee, "name").text
  IN CASE callee.kind = "identifier"        -> callee.text
       [] callee.kind = "scoped_identifier" -> If(name # <<>>, LastName(Field(callee, "path")) \o name)
       [] callee.kind = "field_expression"  -> Field(callee, "field").text
       [] OTHER                             -> <<>>

(* visitRustBody, extractRustCall, extractRustStructLiteral; rustBaseTypeName:
   LastName.  Items in a body are not declared, and their calls are those of the
   function around. *)
RustBody(from, body) ==
  ForEach(Within(body, {"call_expression", "struct_expression"}), LAMBDA c :
    IF c.kind = "call_expression" THEN ReferIf(from, "calls", RustCallee(Field(c, "function")), c)
    ELSE ReferIf(from, "instantiates", LastName(Field(c, "name")), c))

RustFunction(w, n) ==
  LET name == RustName(n, "identifier")
      kind == IF IsInsideClassLike(w) THEN "method" ELSE "function"
  IN Scope(w, kind, name, n, <<>>, RustBody(Id(kind, name, n), Field(n, "body")))

RustImplMethod(w, type, trait, n) ==
  LET name == RustName(n, "identifier")
      id == Id("method", name, n)
  IN Scope(w, "method", name, n,
       ContainIn(w, type, id) \o If(trait # <<>>, <<Refer(id, "overrides", trait \o name, n)>>),
       RustBody(id, Field(n, "body")))

RustTypeAlias(w, n) == <<Declare(w, "type_alias", RustName(n, "type_identifier"), n, <<>>)>>

(* An impl of a trait refers from its type, and its methods are the type's, if the
   type comes before it in the file. *)
RustImpl(w, n) ==
  LET type == LastName(Field(n, "type"))
      trait == LastName(Field(n, "trait"))
      owner == IdOf(w, {"struct", "enum", "class", "interface"}, type)
      body == IF Has(n, "body") THEN Field(n, "body") ELSE Kid(n, {"declaration_list"})
      constant(k) == RustName(k, "identifier")
      member(k) ==
        CASE k.kind = "function_item" -> RustImplMethod(w, type, trait, k)
          [] k.kind \in {"const_item", "static_item"} ->
               <<Declare(w, "constant", constant(k), k, ContainIn(w, type, Id("constant", constant(k), k)))>>
          [] k.kind = "type_item"     -> RustTypeAlias(w, k)
          [] OTHER                    -> <<Visit("visit", k)>>
  IN If(type # <<>>,
       If(owner # <<>>, ReferIf(owner, "implements", trait, n)) \o ForEach(body.kids, member))

(* collectRustUse: the names that a use brings in, of the lists in it too. *)
RustUsed(a) ==
  CASE a.kind \in {"identifier", "type_identifier"} -> a.text
    [] a.kind = "scoped_identifier" -> Field(a, "name").text
    [] a.kind = "use_as_clause"     ->
         CASE Has(a, "alias")    -> Field(a, "alias").text
           [] Len(a.kids) >= 2   -> Last(a.kids).text
           [] OTHER              -> <<>>
    [] a.kind = "use_wildcard"      ->
         IF Has(Kid(a, {"scoped_identifier"}), "name")
           THEN Field(Kid(a, {"scoped_identifier"}), "name").text ELSE LastName(a)
    [] OTHER                        -> <<>>

RustUses(a) ==
  Unfold(a, LAMBDA u : CASE u.kind = "scoped_use_list" -> Kid(u, {"use_list"}).kids
                         [] u.kind = "use_list"        -> u.kids
                         [] OTHER                      -> <<u>>)

RustUse(w, n) ==
  ForEach(RustUses(Field(n, "argument")), LAMBDA u :
    If(RustUsed(u) # <<>>,
      <<Declare(w, "import", RustUsed(u), n, <<>>), Refer(Top(w), "imports", RustUsed(u), u)>>))

Rust(w, n) ==
  CASE n.kind = "mod_item"        -> RustMod(w, n)
    [] n.kind = "use_declaration" -> RustUse(w, n)
    [] n.kind = "trait_item"      -> RustTrait(w, n)
    [] n.kind \in {"struct_item", "union_item"} -> RustStruct(w, n)
    [] n.kind = "enum_item"       -> RustEnum(w, n)
    [] n.kind = "impl_item"       -> RustImpl(w, n)
    [] n.kind = "function_item"   -> RustFunction(w, n)
    [] n.kind = "function_signature_item" -> <<Declare(w, "method", RustName(n, "identifier"), n, <<>>)>>
    [] n.kind \in {"const_item", "static_item"} -> <<Declare(w, "constant", RustName(n, "identifier"), n, <<>>)>>
    [] n.kind = "type_item"       -> RustTypeAlias(w, n)
    [] OTHER                      -> VisitEach("visit", n.kids)

-----------------------------------------------------------------------------
(* C++, where it is not as in C. *)

FirstNonEmpty(names) ==
  LET found == SelectSeq(names, LAMBDA s : s # <<>>) IN IF found = <<>> THEN <<>> ELSE Head(found)

(* cppTypeDescriptorName.  cppQualifiedTail: LastName. *)
CppTypeName(t) ==
  LET parts == Unfold(t, LAMBDA x : IF x.kind \in {"type_descriptor", "template_type"} THEN x.kids ELSE <<x>>)
      name(x) == CASE x.kind \in {"type_identifier", "primitive_type", "sized_type_specifier"} -> x.text
                   [] x.kind = "qualified_identifier" -> LastName(x)
                   [] OTHER -> <<>>
  IN FirstNonEmpty([i \in DOMAIN parts |-> name(parts[i])])

(* cppMethodName *)
CppMethodName(decl) ==
  LET inner == Field(CFunctionDeclarator(decl), "declarator")
  IN CASE inner.kind \in {"destructor_name", "operator_name"} -> inner.text
       [] inner.kind = "qualified_identifier" -> LastName(inner)
       [] inner = Nil -> <<>>
       [] OTHER -> CName(inner)

(* cppCalleeName *)
CppCallee(fn) ==
  LET parts == Unfold(fn, LAMBDA x : IF x.kind \in {"parenthesized_expression", "pointer_expression"} THEN x.kids ELSE <<x>>)
      name(x) == CASE x.kind \in {"identifier", "qualified_identifier"} -> x.text
                   [] x.kind = "field_expression" -> Field(x, "field").text
                   [] OTHER -> <<>>
  IN FirstNonEmpty([i \in DOMAIN parts |-> name(parts[i])])

(* emitCPPConstructionDecl *)
CppConstruction(from, n) ==
  LET type == CType(Field(n, "type"))
      constructed == \E d \in Range(KidsOf(n, {"init_declarator"})) :
                       Field(d, "value").kind \in {"argument_list", "initializer_list"}
  IN If(constructed /\ type # <<>> /\ type[1] \notin Builtin["c"], <<Refer(from, "instantiates", type, n)>>)

CppUsing(scope, n) ==
  DeclareIn(scope, "import", Kid(n, {"qualified_identifier", "identifier", "namespace_identifier"}).text, n, <<>>)

(* extractCPPNew *)
CppNew(from, n) ==
  LET type == CppTypeName(Field(n, "type"))
  IN If(type # <<>> /\ type[1] \notin Builtin["c"], <<Refer(from, "instantiates", type, n)>>)

(* visitCPPBody, extractCPPCall *)
CppBody(from, body) ==
  ForEach(Within(body, {"call_expression", "new_expression", "declaration", "using_declaration"}), LAMBDA c :
    CASE c.kind = "call_expression" -> ReferIf(from, "calls", CppCallee(Field(c, "function")), c)
      [] c.kind = "new_expression"  -> CppNew(from, c)
      [] c.kind = "declaration"     -> CppConstruction(from, c)
      [] OTHER                      -> <<CppUsing(from, c)>>)

CppNamespace(w, n) ==
  LET inside == VisitEach("visit", Field(n, "body").kids)
  IN IF ~Has(n, "name") THEN inside ELSE Scope(w, "namespace", Field(n, "name").text, n, <<>>, inside)

(* emitCPPOverride: of every base, whether or not it has such a method. *)
CppOverrides(from, name, bases, n) ==
  If(name[1] # "~", ForEach(bases, LAMBDA b : <<Refer(from, "overrides", b \o name, n)>>))

(* extractCPPMethodDecl, extractCPPMethod *)
CppMethod(class, bases, n) ==
  LET name == CppMethodName(Field(n, "declarator"))
      id == Id("method", name, n)
  IN If(name # <<>>,
       <<DeclareIn(class, "method", name, n,
           CTypeRefs(id, n) \o CppOverrides(id, name, bases, n)
             \o If(n.kind = "function_definition", Inside(id, CppBody(id, Field(n, "body")))))>>)

(* extractCPPMember, cppIsStaticConst *)
CppField(class, n) ==
  LET specifiers == {k.text : k \in Range(KidsOf(n, {"storage_class_specifier", "type_qualifier"}))}
      kind == IF <<"static">> \in specifiers /\ {<<"const">>, <<"constexpr">>} \cap specifiers # {}
                THEN "constant" ELSE "field"
      fields == KidsOf(n, {"field_identifier"})
      names == IF fields # <<>> THEN [i \in DOMAIN fields |-> fields[i].text] ELSE <<CName(Field(n, "declarator"))>>
  IN ForEach(names, LAMBDA name :
       <<DeclareIn(class, kind, name, n, CTypeRef(Id(kind, name, n), Field(n, "type"), n))>>)

(* cppBodyHasMethods *)
CppHasMethods(body) ==
  \E m \in Range(body.kids) :
    \/ m.kind \in {"access_specifier", "function_definition"}
    \/ m.kind \in {"field_declaration", "declaration"} /\ CFunctionDeclarator(Field(m, "declarator")) # Nil

CppClass(w, n) ==
  LET name == Field(n, "name").text
      id == Id("class", name, n)
      clause == Kid(n, {"base_class_clause"})
      bases == ForEach(KidsOf(clause, {"type_identifier", "qualified_identifier"}), LAMBDA b : <<LastName(b)>>)
      member(m) ==
        CASE m.kind = "function_definition" \/ CFunctionDeclarator(Field(m, "declarator")) # Nil ->
               CppMethod(id, bases, m)
          [] m.kind = "field_declaration"    -> CppField(id, m)
          [] m.kind \in {"template_declaration", "using_declaration"} -> <<Visit("visit", m)>>
          [] OTHER                           -> <<>>
  IN IF n.kind = "struct_specifier" /\ ~CppHasMethods(Field(n, "body")) THEN CStruct(w, n)
     ELSE Scope(w, "class", name, n, ForEach(bases, LAMBDA b : <<Refer(id, "extends", b, n)>>),
            ForEach(Field(n, "body").kids, member))

(* A method that is defined outside of its class has a qualified declarator, and so
   no name: it is not declared, and nothing in it is. *)
CppFunction(w, n) ==
  LET name == CName(Field(n, "declarator"))
      id == Id("function", name, n)
  IN Scope(w, "function", name, n, CTypeRefs(id, n), CppBody(id, Field(n, "body")))

CppDeclaration(w, n) ==
  LET decl == Field(n, "declarator")
      kind == CASE CFunctionDeclarator(decl) # Nil -> "function"
                [] \E q \in Range(KidsOf(n, {"type_qualifier"})) : q.text = <<"const">> -> "constant"
                [] OTHER -> "variable"
      id == Id(kind, CName(decl), n)
  IN <<Declare(w, kind, CName(decl), n,
         IF kind = "function" THEN CTypeRefs(id, n)
         ELSE CTypeRef(id, Field(n, "type"), n) \o CppConstruction(id, n))>>

CppTemplate(w, n) ==
  LET d == Kid(n, {"class_specifier", "struct_specifier", "function_definition", "declaration"})
  IN CASE d = Nil                        -> <<>>
       [] d.kind = "function_definition" -> CppFunction(w, d)
       [] d.kind = "declaration"         -> CppDeclaration(w, d)
       [] OTHER                          -> CppClass(w, d)

CppAlias(w, n) ==
  LET name == Field(n, "name").text
      type == CppTypeName(Field(n, "type"))
  IN <<Declare(w, "type_alias", name, n,
         If(type # <<>> /\ type[1] \notin Builtin["c"],
           <<Refer(Id("type_alias", name, n), "references", type, n)>>))>>

Cpp(w, n) ==
  CASE n.kind = "namespace_definition" -> CppNamespace(w, n)
    [] n.kind \in {"class_specifier", "struct_specifier"} -> CppClass(w, n)
    [] n.kind = "template_declaration" -> CppTemplate(w, n)
    [] n.kind = "using_declaration"    -> <<CppUsing(Top(w), n)>>
    [] n.kind = "alias_declaration"    -> CppAlias(w, n)
    [] n.kind = "function_definition"  -> CppFunction(w, n)
    [] n.kind = "declaration"          -> CppDeclaration(w, n)
    [] n.kind \in {"enum_specifier", "preproc_include", "preproc_def", "preproc_function_def", "type_definition"} -> C(w, n)
    [] OTHER                           -> VisitEach("visit", n.kids)

-----------------------------------------------------------------------------
(* Objective-C, where it is not as in C. *)

(* objcSelector: the names, and a colon for each parameter. *)
ObjCSelector(n) ==
  ForEach(n.kids, LAMBDA k :
    CASE k.kind = "identifier"       -> k.text
      [] k.kind = "method_parameter" -> <<":">>
      [] OTHER                       -> <<>>)

(* objcMessageSelector, objcMessageHasArgs *)
ObjCMessageSelector(n) ==
  LET parts == SelectSeq(n.kids, LAMBDA k : k.as = "method")
      args == \E i, j \in DOMAIN n.kids : i < j /\ n.kids[i].as = "method" /\ n.kids[j].as \notin {"method", "receiver"}
  IN IF Len(parts) = 1 /\ ~args THEN parts[1].text ELSE ForEach(parts, LAMBDA p : p.text \o <<":">>)

(* extractObjCMessage *)
ObjCMessage(from, n) ==
  LET selector == ObjCMessageSelector(n)
      receiver == Field(n, "receiver")
  IN IF selector \in {<<"alloc">>, <<"new">>} /\ receiver.kind = "identifier"
       THEN <<Refer(from, "instantiates", receiver.text, n)>>
       ELSE ReferIf(from, "calls", selector, n)

(* visitObjCBody, extractCCall *)
ObjCBody(from, body) ==
  ForEach(Within(body, {"message_expression", "call_expression"}), LAMBDA c :
    IF c.kind = "message_expression" THEN ObjCMessage(from, c)
    ELSE ReferIf(from, "calls", CCallee(Field(c, "function")), c))

(* extractObjCMethod, extractObjCCategoryMethod *)
ObjCMethod(scope, n) ==
  LET selector == ObjCSelector(n)
      id == Id("method", selector, n)
  IN DeclareIn(scope, "method", selector, n, Inside(id, ObjCBody(id, Kid(n, {"compound_statement"}))))

(* objcStructDeclaratorName *)
ObjCFieldName(sd) ==
  FirstNonEmpty([i \in DOMAIN sd.kids |->
    CASE sd.kids[i].kind = "struct_declarator" ->
           FirstNonEmpty([j \in DOMAIN sd.kids[i].kids |-> CName(sd.kids[i].kids[j])])
      [] sd.kids[i].kind \in {"pointer_declarator", "identifier", "field_identifier"} -> CName(sd.kids[i])
      [] OTHER -> <<>>])

(* extractObjCInstanceVars, extractObjCProperty *)
ObjCField(class, kind, sd, n) ==
  DeclareIn(class, kind, ObjCFieldName(sd), n,
    CTypeRef(Id(kind, ObjCFieldName(sd), n), Kid(sd, {"type_identifier", "primitive_type", "sized_type_specifier"}), n))

ObjCInstanceVars(class, n) ==
  ForEach(KidsOf(n, {"instance_variable"}), LAMBDA iv :
    ForEach(KidsOf(iv, {"struct_declaration"}), LAMBDA sd : <<ObjCField(class, "field", sd, sd)>>))

(* objcAdoptedProtocols *)
ObjCProtocols(n) ==
  ForEach(KidsOf(n, {"protocol_reference_list", "parameterized_arguments"}), LAMBDA list :
    ForEach(KidsOf(list, {"identifier", "type_name"}), LAMBDA p :
      LET name == IF p.kind = "identifier" THEN p.text ELSE Kid(p, {"identifier"}).text
      IN If(name # <<>>, <<name>>)))

ObjCMethods == {"method_declaration", "method_definition"}

(* extractObjCInterface; the methods of a category are declared where it is. *)
ObjCInterface(w, n) ==
  LET name == Kid(n, {"identifier"}).text
      id == Id("class", name, n)
      member(m) ==
        CASE m.kind = "instance_variables"   -> ObjCInstanceVars(id, m)
          [] m.kind = "property_declaration" ->
               LET sd == Kid(m, {"struct_declaration"}) IN If(sd # Nil, <<ObjCField(id, "property", sd, m)>>)
          [] m.kind \in ObjCMethods          -> <<ObjCMethod(id, m)>>
          [] OTHER                           -> <<>>
  IN CASE name = <<>>        -> <<>>
       [] Has(n, "category") -> ForEach(KidsOf(n, ObjCMethods), LAMBDA m : <<ObjCMethod(Top(w), m)>>)
       [] OTHER ->
            Scope(w, "class", name, n,
              ReferIf(id, "extends", Field(n, "superclass").text, n)
                \o ForEach(ObjCProtocols(n), LAMBDA p : <<Refer(id, "implements", p, n)>>),
              ForEach(n.kids, member))

(* extractObjCImplementation.  A class node of its own, which holds the methods;
   if it has none (createNode has failed), or for a category, the scope around does. *)
ObjCImplementation(w, n) ==
  LET name == Kid(n, {"identifier"}).text
      id == Id("class", name, n)
      methods(scope) ==
        ForEach(n.kids, LAMBDA m :
          CASE m.kind = "implementation_definition" ->
                 ForEach(KidsOf(m, {"method_definition"}), LAMBDA d : <<ObjCMethod(scope, d)>>)
            [] m.kind \in ObjCMethods -> <<ObjCMethod(scope, m)>>
            [] OTHER -> <<>>)
      anonymous == Has(n, "category") \/ HasNode(w, id)
  IN CASE name = <<>> -> <<>>
       [] anonymous   -> methods(Top(w))
       [] OTHER       -> Scope(w, "class", name, n, <<>>, methods(id))

ObjCProtocol(w, n) ==
  LET name == Kid(n, {"identifier"}).text
      id == Id("interface", name, n)
  IN Scope(w, "interface", name, n, <<>>, ForEach(KidsOf(n, ObjCMethods), LAMBDA m : <<ObjCMethod(id, m)>>))

ObjCFunction(w, n) ==
  LET name == CName(Field(n, "declarator"))
      id == Id("function", name, n)
  IN Scope(w, "function", name, n, CTypeRefs(id, n), ObjCBody(id, Field(n, "body")))

ObjC(w, n) ==
  CASE n.kind = "class_interface"      -> ObjCInterface(w, n)
    [] n.kind = "class_implementation" -> ObjCImplementation(w, n)
    [] n.kind = "protocol_declaration" -> ObjCProtocol(w, n)
    [] n.kind = "function_definition"  -> ObjCFunction(w, n)
    [] n.kind \in {"declaration", "struct_specifier", "union_specifier", "enum_specifier", "type_definition",
                   "preproc_include", "preproc_def", "preproc_function_def"} -> C(w, n)
    [] OTHER                           -> VisitEach("visit", n.kids)

-----------------------------------------------------------------------------
(* Go (walkGoFallback), over the syntax tree of go/ast: the fields are those of its
   types, but that Recv is the type of the receiver. *)

(* fallbackTypeName of the receiver. *)
GoTypeName(t) ==
  LET type == Follow(t, LAMBDA x : IF x.kind \in {"StarExpr", "IndexExpr", "IndexListExpr"} THEN Field(x, "X") ELSE x)
  IN If(type.kind = "Ident", type.text)

(* fallbackEmitTypeRefs, fallbackTypeAnnotationRefs, fallbackWalkTypeRefs: all the
   parts of a type but those of a struct or an interface. *)
GoTypeParts(t) ==
  Unfold(t, LAMBDA x :
    CASE x.kind = "SelectorExpr" -> <<Field(x, "Sel")>>
      [] x.kind \in {"StarExpr", "ArrayType", "MapType", "ChanType", "Ellipsis", "IndexExpr", "IndexListExpr",
                     "FuncType", "FieldList", "Field"} ->
           Those(x.kids, LAMBDA k : k.as \notin {"Names", "Len", "TypeParams"})
      [] OTHER                   -> <<x>>)

GoTypeRefs(from, t) ==
  ForEach(GoTypeParts(t), LAMBDA x :
    If(x.kind = "Ident" /\ x.text[1] \notin Builtin["go"], <<Refer(from, "references", x.text, x)>>))

(* fallbackCallName *)
GoCallee(fun) ==
  LET x == Field(fun, "X")
      method == Field(fun, "Sel").text
  IN CASE fun.kind = "Ident" -> fun.text
       [] fun.kind # "SelectorExpr" -> <<>>
       [] x.kind = "Ident" /\ x.text[1] \notin {"self", "this", "cls", "super"} -> x.text \o method
       [] x.kind = "CallExpr" /\ Field(x, "Fun").kind = "Ident" -> Field(x, "Fun").text \o <<"()">> \o method
       [] OTHER -> method

(* fallbackCompositeLitType *)
GoLiteralType(t) ==
  CASE t.kind = "Ident" -> t.text
    [] t.kind = "SelectorExpr" /\ Field(t, "X").kind = "Ident" -> Field(t, "X").text \o Field(t, "Sel").text
    [] OTHER -> <<>>

(* fallbackWalkBody *)
GoBody(from, body) ==
  ForEach(Within(body, {"CallExpr", "CompositeLit"}), LAMBDA c :
    IF c.kind = "CallExpr" THEN ReferIf(from, "calls", GoCallee(Field(c, "Fun")), c)
    ELSE ReferIf(from, "instantiates", GoLiteralType(Field(c, "Type")), c))

(* fallbackFunc: the second declaration of a function on one line adds its calls to
   the node of the first. *)
GoFunc(w, n) ==
  LET name == Field(n, "Name").text
      kind == IF Has(n, "Recv") THEN "method" ELSE "function"
      id == Id(kind, name, n)
      of == GoTypeRefs(id, Field(n, "Type")) \o GoBody(id, Field(n, "Body"))
  IN IF HasNode(w, id) THEN of
     ELSE <<DeclareIn(FileId, kind, name, n, If(Has(n, "Recv"), ContainIn(w, GoTypeName(Field(n, "Recv")), id)) \o of)>>

(* fallbackValueSpec: every name has all the calls of the values. *)
GoValues(kind, s) ==
  ForEach(Those(s.kids, LAMBDA k : k.as = "Names" /\ k.text # <<"_">>), LAMBDA x :
    <<DeclareIn(FileId, kind, x.text, x,
        ForEach(Those(s.kids, LAMBDA k : k.as = "Values"), LAMBDA v : GoBody(Id(kind, x.text, x), v)))>>)

(* fallbackTypeSpec, fallbackInterfaceMethods: a second interface of a name on one
   line adds its methods to the first. *)
GoType(w, s) ==
  LET type == Field(s, "Type")
      kind == CASE type.kind = "StructType"    -> "struct"
                [] type.kind = "InterfaceType" -> "interface"
                [] OTHER                       -> "type_alias"
      name == Field(s, "Name").text
      id == Id(kind, name, s)
      methods == Those(type.kids, LAMBDA m : Field(m, "Type").kind = "FuncType" /\ Has(m, "Names"))
      of == If(kind = "interface",
              ForEach(methods, LAMBDA m : <<DeclareIn(id, "method", Field(m, "Names").text, m, <<>>)>>))
  IN IF HasNode(w, id) THEN of ELSE <<DeclareIn(FileId, kind, name, s, of)>>

(* fallbackImportSpec *)
GoImport(s) ==
  LET path == Field(s, "Path").text
  IN <<DeclareIn(FileId, "import", path, s, <<Refer(FileId, "imports", path, s)>>)>>

(* walkGoFallback, fallbackGenDecl *)
Go(w, mode, n) ==
  CASE n.kind = "FuncDecl"   -> GoFunc(w, n)
    [] n.kind = "GenDecl"    -> VisitEach(IF n.text = <<"const">> THEN "constant" ELSE "variable", n.kids)
    [] n.kind = "ValueSpec"  -> GoValues(mode, n)
    [] n.kind = "TypeSpec"   -> GoType(w, n)
    [] n.kind = "ImportSpec" -> GoImport(n)
    [] OTHER                 -> <<>>
=============================================================================
