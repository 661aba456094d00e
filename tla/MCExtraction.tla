---------------------------- MODULE MCExtraction ----------------------------
(***************************************************************************)
(* Files of two constructs each, on one line or on two, in every language: *)
(* the constructs of a language are those of its walker, nested where the  *)
(* walker looks into them and where it does not.                           *)
(***************************************************************************)
EXTENDS Extraction

(* The line of a node is relative to its parent's. *)
T(kind, text, kids) == [kind |-> kind, text |-> text, place |-> <<>>, line |-> 0, as |-> "", kids |-> kids]
L(kind, text) == T(kind, text, <<>>)
As(f, n) == [n EXCEPT !.as = f]
Down(d, n) == [n EXCEPT !.line = d]

RECURSIVE At(_, _)
At(l, n) == [n EXCEPT !.line = @ + l, !.kids = [i \in DOMAIN n.kids |-> At(l + n.line, n.kids[i])]]

RECURSIVE Placed(_, _)
Placed(place, n) ==
  [n EXCEPT !.place = place, !.kids = [i \in DOMAIN n.kids |-> Placed(Append(place, i), n.kids[i])]]

I(t) == L("identifier", <<t>>)
Name(t) == As("name", I(t))
Body(kids) == As("body", T("block", <<>>, kids))
Args(kids) == As("arguments", T("argument_list", <<>>, kids))

MCBuiltin ==
  [l \in {"python", "lua", "c", "go", "perl", "r", "julia", "powershell", "typescript", "elixir", "erlang", "haskell"} |->
     {"print", "int"}]

-----------------------------------------------------------------------------
(* Scripting languages. *)

PyCallOf(f, args) == T("call", <<>>, <<As("function", I(f)), Args(args)>>)
PyMethodCall(o, m) ==
  T("call", <<>>, <<As("function", T("attribute", <<>>, <<As("object", I(o)), As("attribute", I(m))>>))>>)
PyAssign(left, right) == T("assignment", <<>>, <<As("left", left), As("right", right)>>)
PyDef(f, kids) == T("function_definition", <<>>, <<Name(f), Body(kids)>>)
PySelf == T("attribute", <<>>, <<As("object", I("self")), As("attribute", I("v"))>>)

PythonTrees ==
  { PyDef("f", <<PyCallOf("g", <<PyCallOf("h", <<>>)>>), PyMethodCall("x", "m"), PyMethodCall("self", "m"),
                 Down(1, PyDef("g", <<PyCallOf("k", <<>>)>>))>>),
    T("class_definition", <<>>,
      <<Name("C"), As("superclasses", T("argument_list", <<>>, <<I("B")>>)),
        Body(<<PyDef("f", <<PyAssign(PySelf, PyCallOf("g", <<>>))>>), PyAssign(I("v"), L("integer", <<>>)),
               Down(1, T("class_definition", <<>>, <<Name("D"), Body(<<PyDef("f", <<PyAssign(PySelf, L("integer", <<>>))>>)>>)>>))>>)>>),
    T("decorated_definition", <<>>, <<T("decorator", <<>>, <<I("property")>>),
        As("definition", Down(1, PyDef("f", <<PyCallOf("g", <<>>)>>)))>>),
    T("import_from_statement", <<>>, <<As("module_name", L("dotted_name", <<"m">>)), L("dotted_name", <<"n">>)>>),
    T("import_statement", <<>>, <<T("aliased_import", <<>>, <<Name("m"), As("alias", I("n"))>>)>>),
    PyAssign(I("MAX"), T("lambda", <<>>, <<PyCallOf("g", <<>>)>>)) }

LuaIndex(t, f) == T("dot_index_expression", <<>>, <<As("table", I(t)), As("field", I(f))>>)
LuaMethodIndex(t, f) == T("method_index_expression", <<>>, <<As("table", I(t)), As("method", I(f))>>)
LuaCallOf(name, args) == T("function_call", <<>>, <<As("name", name), Args(args)>>)
LuaDef(name, kids) == T("function_declaration", <<>>, <<As("name", name), Body(kids)>>)
LuaLocal(name, rhs) ==
  T("variable_declaration", <<>>, <<T("assignment_statement", <<>>,
    <<T("variable_list", <<>>, <<I(name)>>), T("expression_list", <<>>, <<rhs>>)>>)>>)

LuaTrees ==
  { LuaLocal("M", L("table_constructor", <<>>)),
    LuaDef(LuaIndex("M", "f"), <<LuaCallOf(I("g"), <<LuaCallOf(LuaIndex("M", "h"), <<>>)>>)>>),
    LuaDef(I("f"), <<LuaDef(LuaMethodIndex("M", "f"), <<LuaCallOf(LuaMethodIndex("x", "g"), <<>>)>>),
                     LuaLocal("v", LuaCallOf(I("print"), <<>>))>>),
    LuaLocal("r", LuaCallOf(I("require"), <<L("string", <<"a", "b">>)>>)),
    LuaLocal("MAX", T("function_definition", <<>>, <<LuaCallOf(I("g"), <<>>)>>)) }

BashRun(c, args) == T("command", <<>>, <<As("name", L("command_name", <<c>>))>> \o args)
BashAssign(v) == T("variable_assignment", <<>>, <<Name(v)>>)

BashTrees ==
  { T("function_definition", <<>>, <<Name("f"),
      Body(<<BashRun("g", <<T("string", <<>>, <<T("command_substitution", <<>>, <<BashRun("h", <<>>)>>)>>)>>),
             BashAssign("v")>>)>>),
    BashRun("source", <<As("argument", L("word", <<"lib", "s">>))>>),
    T("declaration_command", <<>>, <<L("readonly", <<>>), BashAssign("v"), L("variable_name", <<"MAX">>)>>),
    BashAssign("MAX") }

RbCall(receiver, m, args) ==
  T("call", <<>>, (IF receiver = Nil THEN <<>> ELSE <<As("receiver", receiver)>>) \o <<As("method", I(m)), Args(args)>>)
RbDef(m, kids) == T("method", <<>>, <<Name(m), Body(kids)>>)

RubyTrees ==
  { T("module", <<>>, <<Name("M"), Body(<<
      T("class", <<>>, <<Name("C"), As("superclass", L("scope_resolution", <<"M", "B">>)), Body(<<
        RbCall(Nil, "include", <<L("constant", <<"K">>)>>),
        RbCall(Nil, "attr_reader", <<L("simple_symbol", <<"a">>)>>),
        RbDef("f", <<T("assignment", <<>>, <<As("left", L("instance_variable", <<"v">>)), As("right", RbCall(Nil, "g", <<>>))>>)>>)>>)>>)>>)>>),
    RbDef("f", <<RbCall(RbCall(I("x"), "g", <<>>), "h", <<RbCall(Nil, "k", <<>>)>>), RbDef("g", <<>>)>>),
    RbCall(Nil, "require", <<L("string", <<"a", "b">>)>>),
    T("assignment", <<>>, <<As("left", L("constant", <<"MAX">>)), As("right", L("integer", <<>>))>>),
    T("assignment", <<>>, <<As("left", L("instance_variable", <<"v">>)), As("right", RbCall(Nil, "g", <<>>))>>) }

PerlSubOf(f, kids) == T("subroutine_declaration_statement", <<>>, <<Name(f), Body(kids)>>)
PerlCallOf(f, args) == T("function_call_expression", <<>>, <<As("function", I(f))>> \o args)
PerlVar(kind, v) == T("variable_declaration", <<>>, <<As("variable", T(kind, <<>>, <<L("varname", <<v>>)>>))>>)
PerlAssign(left, right) == T("assignment_expression", <<>>, <<As("left", left), As("right", right)>>)
PerlUseOf(m, args) == T("use_statement", <<>>, <<As("module", L("package", m))>> \o args)

PerlTrees ==
  { T("package_statement", <<>>, <<Name("P")>>),
    PerlSubOf("f", <<T("method_call_expression", <<>>,
        <<As("invocant", T("method_call_expression", <<>>, <<As("invocant", L("bareword", <<"B">>)), As("method", I("m"))>>)),
          As("method", I("g"))>>),
      PerlCallOf("g", <<PerlCallOf("print", <<>>)>>), PerlSubOf("g", <<>>)>>),
    PerlAssign(PerlVar("array", "ISA"), T("list", <<>>, <<L("string_content", <<"A", "B">>)>>)),
    PerlAssign(PerlVar("scalar", "MAX"), PerlCallOf("h", <<>>)),
    PerlUseOf(<<"constant">>, <<L("autoquoted_bareword", <<"MAX">>)>>),
    PerlUseOf(<<"parent">>, <<L("string_content", <<"A", "B">>)>>),
    PerlUseOf(<<"A", "B">>, <<>>) }

RCallOf(f, args) ==
  T("call", <<>>, <<As("function", f), Args([i \in DOMAIN args |-> T("argument", <<>>, <<As("value", args[i])>>)])>>)
RSet(v, e) == T("binary_operator", <<"<-">>, <<As("lhs", I(v)), As("rhs", e)>>)
RDef(kids) == T("function_definition", <<>>, <<Body(kids)>>)

RTrees ==
  { RSet("f", RDef(<<RCallOf(I("g"), <<RCallOf(L("namespace_operator", <<"p", "h">>), <<>>)>>), RSet("g", RDef(<<>>))>>)),
    RSet("MAX", RCallOf(I("g"), <<RDef(<<RCallOf(I("k"), <<>>)>>)>>)),
    RCallOf(I("library"), <<I("p")>>),
    RCallOf(I("source"), <<L("string", <<"p">>)>>),
    RCallOf(I("setClass"), <<L("string", <<"C">>)>>),
    RCallOf(I("setGeneric"), <<L("string", <<"m">>)>>),
    RCallOf(T("extract_operator", <<>>, <<As("rhs", I("m"))>>), <<>>) }

JlCall(f, args) == T("call_expression", <<>>, <<f, T("argument_list", <<>>, args)>>)
JlTyped(v, t) == T("typed_expression", <<>>, <<I(v), I(t)>>)
JlDef(f, args, kids) ==
  T("function_definition", <<>>, <<T("signature", <<>>, <<JlCall(I(f), args)>>), T("block", <<>>, kids)>>)

JuliaTrees ==
  { T("module_definition", <<>>, <<Name("M"), T("block", <<>>, <<
      T("struct_definition", <<>>, <<T("type_head", <<>>, <<T("binary_expression", <<>>, <<I("S"), I("A")>>)>>),
                                     T("block", <<>>, <<JlTyped("a", "A"), I("b")>>)>>),
      JlDef("f", <<>>, <<>>)>>)>>),
    JlDef("f", <<JlTyped("a", "S")>>, <<JlCall(I("g"), <<JlCall(I("h"), <<>>)>>), JlDef("g", <<>>, <<>>)>>),
    T("assignment", <<>>, <<JlCall(I("f"), <<>>), JlCall(L("field_expression", <<"x", "g">>), <<>>)>>),
    T("abstract_definition", <<>>, <<T("type_head", <<>>, <<I("A")>>)>>),
    T("const_statement", <<>>, <<T("assignment", <<>>, <<I("MAX"), JlCall(I("g"), <<>>)>>)>>),
    T("using_statement", <<>>, <<T("selected_import", <<>>, <<I("M"), I("a")>>), L("scoped_identifier", <<"M", "N">>)>>),
    T("assignment", <<>>, <<I("v"), JlCall(I("print"), <<>>)>>) }

PsRun(c, elements) ==
  T("command", <<>>, <<As("command_name", L("command_name", <<c>>)), As("command_elements", T("command_elements", <<>>, elements))>>)
PsSet(name, e) ==
  T("assignment_expression", <<>>,
    <<T("left_assignment_expression", <<>>, <<L("variable", name)>>), As("value", T("pipeline", <<>>, <<e>>))>>)
PsDef(f, kids) == T("function_statement", <<>>, <<L("function_name", <<f>>), T("script_block", <<>>, kids)>>)
PsInvoke(type, m, args) ==
  T("invokation_expression", <<>>,
    <<type, L("member_name", <<m>>), T("argument_list", <<>>, args)>>)

PowerShellTrees ==
  { PsDef("f", <<PsRun("g", <<T("sub", <<>>, <<PsRun("h", <<>>)>>)>>), PsSet(<<"v">>, PsRun("k", <<>>)), PsDef("g", <<>>)>>),
    T("class_statement", <<>>, <<L("simple_name", <<"C">>), L("simple_name", <<"B">>), L("simple_name", <<"K">>),
      T("class_property_definition", <<>>, <<L("variable", <<"p">>)>>),
      T("class_method_definition", <<>>, <<L("simple_name", <<"m">>), T("script_block", <<>>, <<PsRun("g", <<>>)>>)>>)>>),
    T("enum_statement", <<>>, <<L("simple_name", <<"E">>), T("enum_member", <<>>, <<L("simple_name", <<"A">>)>>), L("enum_member", <<"B">>)>>),
    PsRun("import-module", <<L("generic_token", <<"a", "b">>)>>),
    PsRun("using", <<L("generic_token", <<"module">>), L("generic_token", <<"m">>)>>),
    PsRun("new-object", <<L("generic_token", <<"C">>)>>),
    T("command", <<".">>, <<L("command_name_expr", <<"a", "b">>)>>),
    PsSet(<<"script", "v">>, PsInvoke(T("type_literal", <<>>, <<L("type_name", <<"C">>)>>), "new", <<PsRun("g", <<>>)>>)),
    PsInvoke(L("variable", <<"x">>), "m", <<PsRun("print", <<>>)>>) }

SqlSelect(tables) == T("select_statement", <<>>, <<T("from_clause", <<>>, tables)>>)

SqlTrees ==
  { T("create_table_statement", <<>>, <<As("name", L("dotted_name", <<"s", "t">>)),
      T("table_parameters", <<>>, <<T("table_column", <<>>, <<Name("c")>>), Down(1, T("table_column", <<>>, <<Name("d")>>))>>)>>),
    T("create_view_statement", <<>>, <<I("v"), T("view_body", <<>>, <<SqlSelect(<<L("dotted_name", <<"s", "t">>), T("join_clause", <<>>, <<I("u")>>)>>)>>)>>),
    T("create_function_statement", <<>>, <<I("f"), SqlSelect(<<I("t")>>)>>),
    T("insert_statement", <<>>, <<I("t"), SqlSelect(<<I("u")>>)>>),
    T("transaction", <<>>, <<SqlSelect(<<I("t")>>), T("create_table_statement", <<>>, <<I("t")>>)>>) }

-----------------------------------------------------------------------------
(* C, C++, Objective-C, Rust and Go. *)

Type(t) == As("type", L("type_identifier", <<t>>))
Declarator(d) == As("declarator", d)
CFn(name, params) ==
  T("function_declarator", <<>>, <<Declarator(name), As("parameters", T("parameter_list", <<>>, params))>>)
CParam(t) == T("parameter_declaration", <<>>, <<Type(t), Declarator(I("p"))>>)
CCallOf(fn, args) == T("call_expression", <<>>, <<As("function", fn), Args(args)>>)
CMember(m) == T("field_expression", <<>>, <<As("argument", I("x")), As("field", I(m))>>)
CDef(name, params, kids) == T("function_definition", <<>>, <<Type("S"), Declarator(CFn(name, params)), Body(kids)>>)
CVar(t, d) == T("declaration", <<>>, <<Type(t), Declarator(d)>>)
CFieldOf(t, d) == T("field_declaration", <<>>, <<Type(t), Declarator(d)>>)
CStructOf(name, fields) ==
  T("struct_specifier", <<>>, (IF name = "" THEN <<>> ELSE <<Name(name)>>) \o <<Body(fields)>>)
CEnumOf(name, members) ==
  T("enum_specifier", <<>>, (IF name = "" THEN <<>> ELSE <<Name(name)>>)
    \o <<Body([i \in DOMAIN members |-> T("enumerator", <<>>, <<Name(members[i])>>)])>>)
Pointer(d) == T("pointer_declarator", <<>>, <<Declarator(d)>>)
Include(h) == T("preproc_include", <<>>, <<As("path", L("string_literal", <<h>>))>>)

CTrees ==
  { CDef(Pointer(I("f")), <<CParam("int"), CParam("S")>>, <<CCallOf(I("g"), <<CCallOf(CMember("h"), <<>>)>>)>>),
    CDef(I("f"), <<>>, <<CCallOf(T("parenthesized_expression", <<>>, <<I("g")>>), <<>>)>>),
    CVar("S", CFn(I("f"), <<CParam("S")>>)),
    T("declaration", <<>>, <<L("type_qualifier", <<"const">>), Type("S"), Declarator(Pointer(I("v")))>>),
    T("preproc_ifdef", <<>>, <<CStructOf("S", <<CFieldOf("S", Pointer(I("a")))>>), CVar("S", I("v"))>>),
    T("type_definition", <<>>, <<As("type", CStructOf("", <<CFieldOf("int", I("a"))>>)), Declarator(L("type_identifier", <<"S">>))>>),
    T("type_definition", <<>>, <<As("type", CEnumOf("E", <<"A">>)), Declarator(L("type_identifier", <<"E">>))>>),
    CEnumOf("", <<"A">>),
    Include("h"),
    T("preproc_def", <<>>, <<Name("MAX")>>),
    T("preproc_function_def", <<>>, <<Name("f")>>) }

CppNew1(t) == T("new_expression", <<>>, <<Type(t)>>)
CppClassOf(kind, name, bases, members) ==
  T(kind, <<>>, <<Name(name)>> \o (IF bases = <<>> THEN <<>> ELSE <<T("base_class_clause", <<>>, bases)>>) \o <<Body(members)>>)
CppMade == T("declaration", <<>>, <<Type("C"),
  Declarator(T("init_declarator", <<>>, <<Declarator(I("v")), As("value", T("argument_list", <<>>, <<CCallOf(I("g"), <<>>)>>))>>))>>)

CppTrees ==
  { T("namespace_definition", <<>>, <<Name("N"), Body(<<
      CppClassOf("class_specifier", "C", <<L("type_identifier", <<"B">>)>>,
        <<CDef(I("f"), <<CParam("C")>>, <<CCallOf(CMember("g"), <<CppNew1("C")>>), CppMade,
            T("lambda_expression", <<>>, <<CCallOf(L("qualified_identifier", <<"N", "h">>), <<>>)>>)>>),
          CFieldOf("S", CFn(I("g"), <<>>)), CFieldOf("S", I("a")),
          T("field_declaration", <<>>, <<L("storage_class_specifier", <<"static">>), L("type_qualifier", <<"const">>), Type("int"), L("field_identifier", <<"MAX">>)>>),
          T("template_declaration", <<>>, <<CDef(I("t"), <<>>, <<>>)>>)>>)>>)>>),
    T("namespace_definition", <<>>, <<Body(<<CDef(I("f"), <<>>, <<T("using_declaration", <<>>, <<I("u")>>)>>)>>)>>),
    CDef(L("qualified_identifier", <<"C", "f">>), <<>>, <<CCallOf(I("g"), <<>>)>>),
    CppClassOf("struct_specifier", "S", <<>>, <<CFieldOf("int", I("a"))>>),
    CppClassOf("struct_specifier", "D", <<L("qualified_identifier", <<"N", "C">>)>>,
      <<CFieldOf("S", CFn(I("f"), <<>>)), CFieldOf("S", CFn(L("destructor_name", <<"~", "D">>), <<>>)),
        CppClassOf("class_specifier", "E", <<>>, <<CDef(I("f"), <<>>, <<>>)>>)>>),
    T("template_declaration", <<>>, <<CppClassOf("class_specifier", "C", <<>>, <<>>)>>),
    T("using_declaration", <<>>, <<L("qualified_identifier", <<"N", "C">>)>>),
    T("alias_declaration", <<>>, <<Name("A"), As("type", T("type_descriptor", <<>>, <<L("type_identifier", <<"C">>)>>))>>),
    CppMade, CEnumOf("E", <<"A">>), Include("h") }

ObjCSend(receiver, method, args) ==
  T("message_expression", <<>>, <<As("receiver", receiver), As("method", I(method))>> \o args)
ObjCMethodOf(kind, parts, kids) ==
  T(kind, <<>>, parts \o (IF kind = "method_definition" THEN <<T("compound_statement", <<>>, kids)>> ELSE <<>>))
ObjCDeclared(t, d) == T("struct_declaration", <<>>, <<L("type_identifier", <<t>>), T("struct_declarator", <<>>, <<d>>)>>)
ObjCDefined(methods) == T("implementation_definition", <<>>, methods)

ObjCTrees ==
  { T("class_interface", <<>>, <<I("C"), As("superclass", I("B")), T("parameterized_arguments", <<>>, <<T("type_name", <<>>, <<I("P")>>)>>),
      T("instance_variables", <<>>, <<T("instance_variable", <<>>, <<ObjCDeclared("S", I("a"))>>)>>),
      T("property_declaration", <<>>, <<ObjCDeclared("S", Pointer(I("p")))>>),
      ObjCMethodOf("method_declaration", <<I("set"), L("method_parameter", <<>>)>>, <<>>)>>),
    T("class_interface", <<>>, <<I("C"), As("category", I("K")), ObjCMethodOf("method_declaration", <<I("m")>>, <<>>)>>),
    T("class_implementation", <<>>, <<I("C"), ObjCDefined(<<ObjCMethodOf("method_definition", <<I("set"), L("method_parameter", <<>>)>>,
      <<ObjCSend(ObjCSend(I("D"), "alloc", <<>>), "init", <<>>), CCallOf(I("g"), <<ObjCSend(I("x"), "set", <<I("y")>>)>>)>>)>>)>>),
    T("class_implementation", <<>>, <<I("C"), As("category", I("K")), ObjCDefined(<<ObjCMethodOf("method_definition", <<I("m")>>, <<>>)>>)>>),
    T("protocol_declaration", <<>>, <<I("P"), ObjCMethodOf("method_declaration", <<I("m")>>, <<>>)>>),
    CDef(I("f"), <<>>, <<T("block_literal", <<>>, <<ObjCSend(I("x"), "m", <<>>)>>)>>),
    CVar("S", CFn(I("f"), <<>>)) }

RsFn(f, kids) == T("function_item", <<>>, <<Name(f), Body(kids)>>)
RsCall(fn, args) == T("call_expression", <<>>, <<As("function", fn), Args(args)>>)
RsPath(p, n) == T("scoped_identifier", <<>>, <<As("path", L("identifier", p)), Name(n)>>)
RsImplOf(trait, type, kids) ==
  T("impl_item", <<>>, (IF trait = <<>> THEN <<>> ELSE <<As("trait", L("scoped_type_identifier", trait))>>)
    \o <<Type(type), Body(kids)>>)

RustTrees ==
  { T("struct_item", <<>>, <<L("type_identifier", <<"S">>),
      T("field_declaration_list", <<>>, <<T("field_declaration", <<>>, <<L("field_identifier", <<"a">>)>>)>>)>>),
    T("enum_item", <<>>, <<L("type_identifier", <<"E">>), T("enum_variant_list", <<>>, <<T("enum_variant", <<>>, <<I("A")>>)>>)>>),
    RsImplOf(<<"m", "Tr">>, "S", <<RsFn("f", <<RsCall(RsPath(<<"m", "S">>, "new"), <<RsCall(I("g"), <<>>)>>), RsFn("g", <<>>)>>),
      T("const_item", <<>>, <<Name("MAX")>>), T("type_item", <<>>, <<L("type_identifier", <<"A">>)>>)>>),
    RsImplOf(<<>>, "S", <<RsFn("g", <<T("struct_expression", <<>>, <<Name("S")>>)>>), T("macro_invocation", <<>>, <<>>)>>),
    T("mod_item", <<>>, <<Name("m"), T("declaration_list", <<>>, <<RsFn("f", <<RsCall(CMember("g"), <<>>)>>),
      T("trait_item", <<>>, <<L("type_identifier", <<"Tr">>), T("declaration_list", <<>>, <<
        T("function_signature_item", <<>>, <<Name("f")>>), RsFn("h", <<RsCall(T("generic_function", <<>>, <<As("function", I("g"))>>), <<>>)>>)>>)>>)>>)>>),
    T("use_declaration", <<>>, <<As("argument", T("scoped_use_list", <<>>, <<I("m"), T("use_list", <<>>,
      <<I("S"), T("use_as_clause", <<>>, <<I("E"), As("alias", I("F"))>>), RsPath(<<"m">>, "g"), T("use_wildcard", <<>>, <<RsPath(<<"m">>, "k")>>)>>)>>))>>) }

GoId(f, t) == As(f, L("Ident", <<t>>))
GoSel(x, s) == T("SelectorExpr", <<>>, <<As("X", x), GoId("Sel", s)>>)
GoCallOf(fun, args) == T("CallExpr", <<>>, <<As("Fun", fun), As("Args", T("list", <<>>, args))>>)
GoField(name, type) == T("Field", <<>>, <<GoId("Names", name), As("Type", type)>>)
GoFuncType(fields) == As("Type", T("FuncType", <<>>, <<As("Params", T("FieldList", <<>>, fields))>>))
GoFuncOf(name, recv, fields, kids) ==
  T("FuncDecl", <<>>, <<GoId("Name", name)>> \o (IF recv = Nil THEN <<>> ELSE <<As("Recv", recv)>>)
    \o <<GoFuncType(fields), As("Body", T("BlockStmt", <<>>, kids))>>)
GoDecl(tok, specs) == T("GenDecl", tok, specs)
GoTypeSpec(name, type) == T("TypeSpec", <<>>, <<GoId("Name", name), As("Type", type)>>)
GoStar(t) == T("StarExpr", <<>>, <<GoId("X", t)>>)
GoIdent(t) == L("Ident", <<t>>)

GoTrees ==
  { GoDecl(<<"type">>, <<GoTypeSpec("S", T("StructType", <<>>, <<T("FieldList", <<>>, <<GoField("a", GoIdent("T"))>>)>>)),
                         GoTypeSpec("A", GoIdent("S"))>>),
    GoDecl(<<"type">>, <<GoTypeSpec("K", T("InterfaceType", <<>>, <<T("Field", <<>>, <<GoId("Names", "f"), GoFuncType(<<>>)>>)>>))>>),
    GoFuncOf("f", GoStar("S"), <<GoField("x", GoStar("T")), GoField("y", GoIdent("int"))>>,
      <<GoCallOf(GoSel(GoCallOf(GoIdent("g"), <<>>), "h"), <<GoCallOf(GoSel(GoIdent("x"), "k"), <<>>)>>),
        T("CompositeLit", <<>>, <<As("Type", GoSel(GoIdent("p"), "T"))>>)>>),
    GoFuncOf("f", Nil, <<>>, <<T("FuncLit", <<>>, <<GoCallOf(GoIdent("g"), <<>>)>>)>>),
    GoDecl(<<"const">>, <<T("ValueSpec", <<>>, <<GoId("Names", "a"), GoId("Names", "_"), GoId("Names", "b"), As("Values", GoCallOf(GoIdent("g"), <<>>))>>)>>),
    GoDecl(<<"import">>, <<T("ImportSpec", <<>>, <<As("Path", L("BasicLit", <<"p", "q">>))>>)>>) }

-----------------------------------------------------------------------------
(* Languages of classes and interfaces. *)

PhpName(n) == L("name", <<n>>)
PhpVar(v) == L("variable_name", <<v>>)
PhpFn(f, args) == T("function_call_expression", <<>>, <<As("function", PhpName(f)), Args(args)>>)
PhpMember(object, m, args) ==
  T("member_call_expression", <<>>, <<As("object", object), As("name", PhpName(m)), Args(args)>>)
PhpMethodOf(kind, m, kids) == T(kind, <<>>, <<As("name", PhpName(m)), Body(kids)>>)
PhpAttribute(a) == T("attribute_list", <<>>, <<T("attribute_group", <<>>, <<T("attribute", <<>>, <<PhpName(a)>>)>>)>>)
PhpAssign(left, right) == T("assignment_expression", <<>>, <<As("left", left), As("right", right)>>)

PhpTrees ==
  { T("namespace_definition", <<>>, <<Name("N")>>),
    T("namespace_definition", <<>>, <<Body(<<PhpMethodOf("function_definition", "f", <<PhpFn("g", <<PhpFn("h", <<>>)>>)>>)>>)>>),
    T("class_declaration", <<>>, <<PhpAttribute("A"), Name("C"), T("base_clause", <<>>, <<PhpName("B")>>), T("class_interface_clause", <<>>, <<PhpName("K")>>),
      Body(<<T("use_declaration", <<>>, <<PhpName("R")>>),
             T("property_declaration", <<>>, <<T("property_element", <<>>, <<As("name", PhpVar("p"))>>)>>),
             T("class_const_declaration", <<>>, <<T("const_element", <<>>, <<PhpName("MAX")>>)>>),
             PhpMethodOf("method_declaration", "m", <<
               PhpAssign(T("member_access_expression", <<>>, <<As("object", PhpVar("this")), As("name", PhpName("v"))>>),
                         T("object_creation_expression", <<>>, <<PhpName("C"), Args(<<PhpFn("g", <<>>)>>)>>)),
               PhpMember(PhpMember(PhpVar("this"), "h", <<>>), "k", <<>>), PhpMember(PhpVar("x"), "k", <<>>),
               PhpMethodOf("function_definition", "f", <<PhpFn("g", <<>>)>>)>>)>>)>>),
    T("enum_declaration", <<>>, <<Name("E"), T("class_interface_clause", <<>>, <<PhpName("K")>>), Body(<<T("enum_case", <<>>, <<Name("A")>>)>>)>>),
    T("trait_declaration", <<>>, <<Name("R"), Body(<<PhpMethodOf("method_declaration", "m",
      <<T("scoped_call_expression", <<>>, <<As("scope", PhpName("self")), As("name", PhpName("f"))>>)>>)>>)>>),
    T("namespace_use_declaration", <<>>, <<T("namespace_use_clause", <<>>, <<L("qualified_name", <<"N", "C">>)>>)>>),
    PhpAssign(PhpVar("v"), PhpFn("g", <<>>)) }

TsCallOf(fn, args) == T("call_expression", <<>>, <<As("function", fn), Args(args)>>)
TsMember(o, m) == T("member_expression", <<>>, <<As("object", I(o)), As("property", I(m))>>)
TsArrow(kids) == T("arrow_function", <<>>, <<Body(kids)>>)
TsAnnotated(t) == T("type_annotation", <<>>, <<L("type_identifier", <<t>>)>>)
TsDef(kind, f, kids) ==
  T(kind, <<>>, <<Name(f), As("parameters", T("formal_parameters", <<>>, <<T("required_parameter", <<>>, <<As("type", TsAnnotated("A"))>>)>>)),
                  Body(kids)>>)
TsDeclared(name, value) == T("variable_declarator", <<>>, <<As("name", name), As("value", value)>>)
TsNew == T("new_expression", <<>>, <<As("constructor", L("member_expression", <<"n", "C">>))>>)

TypeScriptTrees ==
  { TsDef("function_declaration", "f", <<TsCallOf(TsMember("x", "g"), <<TsArrow(<<TsCallOf(TsMember("this", "h"), <<>>), TsNew>>)>>),
                                         TsDef("function_declaration", "g", <<>>)>>),
    T("class_declaration", <<>>, <<Name("C"), Body(<<
      TsDef("method_definition", "m", <<TsCallOf(I("g"), <<>>)>>),
      T("public_field_definition", <<>>, <<Name("a"), As("value", TsArrow(<<TsCallOf(I("g"), <<>>)>>))>>),
      T("public_field_definition", <<>>, <<Name("b"), TsAnnotated("A"), As("value", TsCallOf(I("k"), <<TsArrow(<<TsCallOf(I("g"), <<>>)>>)>>))>>)>>)>>),
    T("interface_declaration", <<>>, <<Name("K"), Body(<<T("property_signature", <<>>, <<Name("p"), TsAnnotated("A")>>)>>)>>),
    T("enum_declaration", <<>>, <<Name("E"), Body(<<L("property_identifier", <<"A">>), T("enum_assignment", <<>>, <<Name("B")>>)>>)>>),
    T("type_alias_declaration", <<>>, <<Name("A"), As("value", L("type_identifier", <<"C">>))>>),
    T("import_statement", <<>>, <<T("import_clause", <<>>, <<I("a"), T("named_imports", <<>>, <<T("import_specifier", <<>>, <<Name("b"), As("alias", I("c"))>>)>>)>>),
                                  As("source", L("string", <<"m">>))>>),
    T("export_statement", <<>>, <<T("export_clause", <<>>, <<T("export_specifier", <<>>, <<Name("b")>>)>>), As("source", L("string", <<"m">>))>>),
    T("export_statement", <<>>, <<T("lexical_declaration", <<"const">>,
      <<TsDeclared(I("f"), TsArrow(<<TsCallOf(I("g"), <<>>)>>)), TsDeclared(I("v"), TsCallOf(I("g"), <<>>)), TsDeclared(L("object_pattern", <<>>), TsNew)>>)>>),
    T("expression_statement", <<>>, <<TsCallOf(I("g"), <<TsArrow(<<TsCallOf(I("h"), <<>>)>>)>>), TsNew,
       T("parenthesized_expression", <<>>, <<TsArrow(<<TsCallOf(I("g"), <<>>)>>)>>)>>) }

JvType(t) == L("type_identifier", <<t>>)
JvCall(object, m, args) ==
  T("method_invocation", <<>>, (IF object = Nil THEN <<>> ELSE <<As("object", object)>>) \o <<Name(m), Args(args)>>)
JvNew(t, args) == T("object_creation_expression", <<>>, <<Type(t), Args(args)>>)
JvVar(kind, modifiers, v, value) ==
  T(kind, <<>>, <<L("modifiers", modifiers), T("variable_declarator", <<>>, <<Name(v), As("value", value)>>)>>)
JvMethod(m, kids) == T("method_declaration", <<>>, <<T("modifiers", <<>>, <<T("marker_annotation", <<>>, <<Name("A")>>)>>), Name(m), Body(kids)>>)

JavaTrees ==
  { T("class_declaration", <<>>, <<Name("C"), As("superclass", T("superclass", <<>>, <<T("generic_type", <<>>, <<JvType("B"), T("type_arguments", <<>>, <<JvType("A")>>)>>)>>)),
      As("interfaces", T("super_interfaces", <<>>, <<T("type_list", <<>>, <<JvType("K")>>)>>)),
      Body(<<JvVar("field_declaration", <<"static", "final">>, "MAX", JvNew("B", <<JvCall(Nil, "g", <<>>)>>)),
             JvVar("field_declaration", <<>>, "a", JvCall(Nil, "g", <<>>)),
             JvMethod("f", <<JvVar("local_variable_declaration", <<>>, "v", JvCall(JvCall(I("x"), "g", <<>>), "h", <<JvNew("C", <<>>)>>)),
                             T("class_declaration", <<>>, <<Name("D"), Body(<<JvMethod("f", <<JvCall(Nil, "g", <<>>)>>)>>)>>)>>)>>)>>),
    T("interface_declaration", <<>>, <<Name("K"), T("extends_interfaces", <<>>, <<T("type_list", <<>>, <<JvType("J")>>)>>), Body(<<JvMethod("f", <<>>)>>)>>),
    T("enum_declaration", <<>>, <<Name("E"), Body(<<T("enum_constant", <<>>, <<Name("A")>>), T("enum_body_declarations", <<>>, <<JvMethod("f", <<JvCall(Nil, "g", <<>>)>>)>>)>>)>>),
    T("package_declaration", <<>>, <<L("scoped_identifier", <<"p", "q">>)>>),
    T("import_declaration", <<>>, <<L("scoped_identifier", <<"p", "C">>)>>),
    T("import_declaration", <<>>, <<L("scoped_identifier", <<"p">>), L("asterisk", <<>>)>>) }

CsCall(fn, args) == T("invocation_expression", <<>>, <<As("function", fn), Args(args)>>)
CsMember(object, m) == T("member_access_expression", <<>>, <<As("expression", object), Name(m)>>)
CsDef(m, kids) == T("method_declaration", <<>>, <<Name(m), Body(kids)>>)
CsAttribute == T("attribute_list", <<>>, <<T("attribute", <<>>, <<Name("A")>>)>>)

CSharpTrees ==
  { T("file_scoped_namespace_declaration", <<>>, <<Name("N")>>),
    T("namespace_declaration", <<>>, <<Name("N"), Body(<<T("struct_declaration", <<>>, <<Name("S"), Body(<<>>)>>)>>)>>),
    T("class_declaration", <<>>, <<CsAttribute, Name("C"), T("base_list", <<>>, <<T("generic_name", <<>>, <<I("B")>>), L("qualified_name", <<"N", "K">>)>>),
      Body(<<T("field_declaration", <<>>, <<L("modifier", <<"const">>), T("variable_declaration", <<>>, <<T("variable_declarator", <<>>, <<Name("MAX")>>)>>)>>),
             T("property_declaration", <<>>, <<I("S"), I("p")>>),
             T("event_field_declaration", <<>>, <<T("variable_declaration", <<>>, <<T("variable_declarator", <<>>, <<Name("e")>>)>>)>>),
             CsDef("f", <<CsCall(CsMember(CsCall(I("g"), <<>>), "h"), <<T("argument", <<>>, <<T("object_creation_expression", <<>>, <<Type("C"), Args(<<>>)>>)>>)>>),
                          T("local_function_statement", <<>>, <<Name("g"), Body(<<CsCall(CsMember(I("x"), "k"), <<>>)>>)>>)>>),
             T("constructor_declaration", <<>>, <<Name("C"), T("arrow_expression_clause", <<>>, <<CsCall(I("g"), <<>>)>>)>>)>>)>>),
    T("interface_declaration", <<>>, <<Name("K"), Body(<<CsDef("f", <<>>), T("delegate_declaration", <<>>, <<I("S"), I("d")>>)>>)>>),
    T("enum_declaration", <<>>, <<Name("E"), Body(<<T("enum_member_declaration", <<>>, <<I("A")>>)>>)>>),
    T("using_directive", <<"=">>, <<I("A"), L("qualified_name", <<"N", "C">>)>>),
    T("using_directive", <<>>, <<L("qualified_name", <<"N", "M">>)>>) }

KtId(t) == L("simple_identifier", <<t>>)
KtUser(t) == T("user_type", <<>>, <<L("type_identifier", <<t>>)>>)
KtNav(receiver, m) == T("navigation_expression", <<>>, <<receiver, T("navigation_suffix", <<>>, <<KtId(m)>>)>>)
KtCallOf(callee, args) == T("call_expression", <<>>, <<callee, T("call_suffix", <<>>, args)>>)
KtFun(f, kids) == T("function_declaration", <<>>, <<T("modifiers", <<>>, <<T("annotation", <<>>, <<KtUser("A")>>)>>), KtId(f), T("function_body", <<>>, kids)>>)
KtVal(v, kids) == T("property_declaration", <<>>, <<T("variable_declaration", <<>>, <<KtId(v)>>)>> \o kids)
KtClassOf(keyword, name, kids) == T("class_declaration", <<keyword>>, <<L("type_identifier", <<name>>)>> \o kids)

KotlinTrees ==
  { KtClassOf("class", "C", <<
      T("primary_constructor", <<>>, <<T("class_parameter", <<>>, <<L("binding_pattern_kind", <<>>), KtId("a")>>), T("class_parameter", <<>>, <<KtId("b")>>)>>),
      T("delegation_specifier", <<>>, <<T("constructor_invocation", <<>>, <<KtUser("B")>>)>>), T("delegation_specifier", <<>>, <<KtUser("K")>>),
      T("class_body", <<>>, <<KtVal("p", <<KtCallOf(KtId("g"), <<>>)>>),
        KtFun("f", <<KtVal("v", <<KtCallOf(KtNav(KtCallOf(KtId("g"), <<>>), "h"), <<KtCallOf(KtNav(KtId("x"), "k"), <<>>)>>)>>), KtFun("g", <<>>)>>),
        T("companion_object", <<>>, <<T("class_body", <<>>, <<KtFun("of", <<>>)>>)>>)>>)>>),
    KtClassOf("interface", "K", <<T("class_body", <<>>, <<KtFun("f", <<>>)>>)>>),
    KtClassOf("enum", "E", <<T("enum_class_body", <<>>, <<T("enum_entry", <<>>, <<KtId("A")>>), KtFun("f", <<>>)>>)>>),
    T("object_declaration", <<>>, <<L("type_identifier", <<"O">>), T("class_body", <<>>, <<KtFun("f", <<KtCallOf(KtId("g"), <<>>)>>)>>)>>),
    KtVal("v", <<KtCallOf(KtId("g"), <<T("lambda_literal", <<>>, <<KtCallOf(KtId("h"), <<>>)>>)>>)>>),
    T("import_list", <<>>, <<T("import_header", <<>>, <<L("identifier", <<"p", "C">>)>>), T("import_header", <<>>, <<L("identifier", <<"p">>), L("wildcard_import", <<>>)>>)>>),
    T("package_header", <<>>, <<L("identifier", <<"p", "q">>)>>),
    T("type_alias", <<>>, <<L("type_identifier", <<"A">>)>>) }

SwType(kind, name, kids) ==
  T("class_declaration", <<>>, <<As("declaration_kind", L("keyword", <<kind>>)), As("name", L("type_identifier", <<name>>))>> \o kids)
SwInherits(t) == T("inheritance_specifier", <<>>, <<As("inherits_from", L("user_type", <<t>>))>>)
SwBody(kids) == As("body", T("class_body", <<>>, kids))
SwFunc(f, modifiers, kids) == T("function_declaration", <<>>, <<L("modifiers", modifiers), As("name", KtId(f)), Body(kids)>>)
SwCall(callee, args) == T("call_expression", <<>>, <<callee, T("call_suffix", <<>>, args)>>)
SwNav(target, m) ==
  T("navigation_expression", <<>>, <<As("target", target), As("suffix", T("navigation_suffix", <<>>, <<As("suffix", KtId(m))>>))>>)
SwVar(binding, v, kids) ==
  T("property_declaration", <<>>, <<T("value_binding_pattern", <<>>, <<As("mutability", L("keyword", <<binding>>))>>),
                                    As("name", T("pattern", <<>>, <<As("bound_identifier", KtId(v))>>))>> \o kids)

SwiftTrees ==
  { SwType("class", "C", <<SwInherits("B"), SwInherits("P"), SwBody(<<SwVar("let", "a", <<SwCall(KtId("g"), <<>>)>>), SwVar("var", "b", <<L("computed_property", <<>>)>>),
      SwFunc("f", <<"override">>, <<SwCall(SwNav(SwCall(KtId("g"), <<>>), "h"), <<T("lambda_literal", <<>>, <<SwCall(SwNav(KtId("x"), "k"), <<>>)>>)>>),
                                    SwFunc("g", <<>>, <<>>)>>),
      SwType("struct", "S", <<SwBody(<<>>)>>)>>)>>),
    SwType("extension", "C", <<SwInherits("Q"), SwBody(<<SwFunc("e", <<>>, <<SwCall(KtId("g"), <<>>)>>), T("init_declaration", <<>>, <<Body(<<SwCall(KtId("g"), <<>>)>>)>>),
      SwVar("var", "c", <<L("computed_property", <<>>)>>), T("typealias_declaration", <<>>, <<L("type_identifier", <<"A">>)>>), SwType("enum", "F", <<SwBody(<<>>)>>)>>)>>),
    SwType("enum", "E", <<As("body", T("enum_class_body", <<>>, <<T("enum_entry", <<>>, <<KtId("A"), KtId("B")>>), SwFunc("f", <<>>, <<>>)>>))>>),
    T("protocol_declaration", <<>>, <<As("name", L("type_identifier", <<"P">>)), SwInherits("Q"), T("protocol_body", <<>>, <<
      T("protocol_function_declaration", <<>>, <<As("name", KtId("f"))>>),
      T("protocol_property_declaration", <<>>, <<As("name", T("pattern", <<>>, <<As("bound_identifier", KtId("p"))>>)), L("protocol_property_requirements", <<>>)>>)>>)>>),
    SwVar("let", "MAX", <<SwCall(KtId("g"), <<>>)>>),
    T("import_declaration", <<>>, <<L("identifier", <<"M", "N">>)>>) }

DtBody(kids) == T("function_body", <<>>, kids)
DtSig(kind, name) == T(kind, <<>>, <<Name(name)>>)
DtArgs(kids) == T("selector", <<>>, <<T("argument_part", <<>>, kids)>>)
DtDot(m) == T("selector", <<>>, <<T("unconditional_assignable_selector", <<>>, <<I(m)>>)>>)
DtStatement(kids) == T("expression_statement", <<>>, kids)
DtClass(name, clauses, members) == T("class_definition", <<>>, <<Name(name)>> \o clauses \o <<As("body", T("class_body", <<>>, members))>>)

DartTrees ==
  { DtClass("C", <<As("superclass", T("superclass", <<>>, <<L("type_identifier", <<"B">>), T("mixins", <<>>, <<L("type_identifier", <<"M">>)>>)>>)),
                   As("interfaces", T("interfaces", <<>>, <<L("type_identifier", <<"K">>)>>))>>,
      <<T("declaration", <<>>, <<T("constructor_signature", <<>>, <<I("C"), I("of")>>), DtBody(<<I("g"), DtArgs(<<>>)>>)>>),
        T("declaration", <<"const">>, <<T("static_final_declaration_list", <<>>, <<T("static_final_declaration", <<>>, <<I("MAX")>>)>>)>>),
        T("declaration", <<>>, <<DtSig("getter_signature", "p")>>), T("declaration", <<>>, <<DtSig("function_signature", "q")>>),
        T("method_signature", <<>>, <<DtSig("function_signature", "f")>>),
        DtBody(<<DtStatement(<<I("x"), DtDot("g"), DtArgs(<<I("h"), DtArgs(<<>>)>>)>>),
                 T("new_expression", <<>>, <<L("type_identifier", <<"C">>), T("arguments", <<>>, <<I("k"), DtArgs(<<>>)>>)>>)>>),
        T("method_signature", <<>>, <<DtSig("getter_signature", "r")>>), DtBody(<<I("g"), DtArgs(<<>>)>>)>>),
    T("program", <<>>, <<DtSig("function_signature", "f"), DtBody(<<
      T("initialized_variable_definition", <<>>, <<I("v"), I("g"), DtArgs(<<>>)>>), DtSig("function_signature", "g"), DtBody(<<I("h"), DtArgs(<<>>)>>)>>)>>),
    T("mixin_declaration", <<>>, <<I("M"), T("class_body", <<>>, <<T("method_signature", <<>>, <<DtSig("function_signature", "f")>>), DtBody(<<>>)>>)>>),
    T("extension_declaration", <<>>, <<T("class_body", <<>>, <<T("method_signature", <<>>, <<DtSig("setter_signature", "s")>>), DtBody(<<>>)>>)>>),
    T("enum_declaration", <<>>, <<Name("E"), Body(<<T("enum_constant", <<>>, <<Name("A")>>), L("enum_constant", <<"B">>)>>)>>),
    T("import_or_export", <<>>, <<L("uri", <<"p", "m">>)>>),
    T("type_alias", <<>>, <<L("type_identifier", <<"A">>)>>) }

-----------------------------------------------------------------------------
(* Functional languages. *)

ScCall(fn, args) == T("call_expression", <<>>, <<fn, T("arguments", <<>>, args)>>)
ScDot(o, m) == T("field_expression", <<>>, <<o, I(m)>>)
ScDef(f, kids) == T("function_definition", <<>>, <<I(f), T("block", <<>>, kids)>>)
ScVal(kind, v, kids) == T(kind, <<>>, <<I(v)>> \o kids)
ScTypeOf(kind, name, kids) == T(kind, <<>>, <<I(name)>> \o kids)
ScExtends(ts) == T("extends_clause", <<>>, [i \in DOMAIN ts |-> L("type_identifier", <<ts[i]>>)])

ScalaTrees ==
  { ScTypeOf("class_definition", "C", <<T("class_parameters", <<>>, <<T("class_parameter", <<"val">>, <<I("a")>>), T("class_parameter", <<>>, <<I("b")>>)>>),
      ScExtends(<<"B", "K">>), T("template_body", <<>>, <<ScVal("val_definition", "p", <<ScCall(I("g"), <<>>)>>),
        ScDef("f", <<ScVal("val_definition", "v", <<ScCall(ScDot(ScCall(I("g"), <<>>), "h"), <<ScCall(ScDot(I("x"), "k"), <<>>)>>)>>),
                     T("instance_expression", <<>>, <<L("type_identifier", <<"C">>), T("arguments", <<>>, <<ScCall(I("g"), <<>>)>>)>>), ScDef("g", <<>>)>>)>>)>>),
    ScTypeOf("trait_definition", "K", <<T("template_body", <<>>, <<T("function_declaration", <<>>, <<I("f")>>)>>)>>),
    ScTypeOf("object_definition", "O", <<T("template_body", <<>>, <<T("type_definition", <<>>, <<L("type_identifier", <<"A">>)>>)>>)>>),
    ScTypeOf("enum_definition", "E", <<T("enum_body", <<>>, <<T("enum_case_definitions", <<>>, <<T("simple_enum_case", <<>>, <<I("A")>>)>>), ScDef("f", <<>>)>>)>>),
    T("import_declaration", <<>>, <<I("p"), I("C")>>),
    T("import_declaration", <<>>, <<I("p"), T("namespace_selectors", <<>>, <<I("C"), T("arrow_renamed_identifier", <<>>, <<I("D"), I("F")>>)>>)>>),
    T("import_declaration", <<>>, <<I("p"), L("namespace_wildcard", <<>>)>>),
    T("package_clause", <<>>, <<L("package_identifier", <<"p">>)>>),
    ScVal("var_definition", "v", <<ScCall(I("g"), <<>>)>>) }

ExCall(target, args, block) ==
  T("call", <<>>, <<As("target", target), T("arguments", <<>>, args)>>
    \o (IF block = <<>> THEN <<>> ELSE <<T("do_block", <<>>, block)>>))
ExMacro(m, args, block) == ExCall(I(m), args, block)
ExAlias(a) == L("alias", a)
ExPair(k, v) == T("pair", <<>>, <<As("key", L("keyword", <<k>>)), As("value", v)>>)
ExDef(f, kids) == ExMacro("def", <<ExCall(I(f), <<I("x")>>, <<>>)>>, kids)
ExDot(m, f) == T("dot", <<>>, <<As("left", ExAlias(<<m>>)), As("right", I(f))>>)

ElixirTrees ==
  { ExMacro("defmodule", <<ExAlias(<<"M">>)>>, <<
      ExMacro("defstruct", <<T("list", <<>>, <<L("atom", <<"a">>)>>), T("keywords", <<>>, <<ExPair("b", L("integer", <<>>))>>)>>, <<>>),
      ExDef("f", <<ExCall(ExDot("N", "g"), <<ExCall(I("h"), <<>>, <<>>)>>, <<>>), ExMacro("if", <<I("x")>>, <<ExCall(I("k"), <<>>, <<>>)>>)>>),
      Down(1, ExDef("f", <<ExCall(I("k"), <<>>, <<>>)>>)),
      ExMacro("defmodule", <<ExAlias(<<"N">>)>>, <<ExDef("g", <<>>)>>)>>),
    ExMacro("defprotocol", <<ExAlias(<<"P">>)>>, <<ExDef("f", <<>>)>>),
    ExMacro("defimpl", <<ExAlias(<<"P">>), T("keywords", <<>>, <<ExPair("for", ExAlias(<<"M">>))>>)>>, <<ExDef("f", <<>>)>>),
    ExMacro("defp", <<T("binary_operator", <<>>, <<As("left", ExCall(I("f"), <<>>, <<>>))>>), T("keywords", <<>>, <<ExPair("do", ExCall(I("g"), <<>>, <<>>))>>)>>, <<>>),
    ExMacro("alias", <<ExAlias(<<"M", "N">>), T("keywords", <<>>, <<ExPair("as", ExAlias(<<"O">>))>>)>>, <<>>),
    T("unary_operator", <<>>, <<As("operand", ExCall(I("v"), <<L("integer", <<>>)>>, <<>>))>>) }

ErAtom(a) == L("atom", <<a>>)
ErFun(f, params, kids) ==
  T("fun_decl", <<>>, <<As("clause", T("function_clause", <<>>, <<As("name", ErAtom(f)), As("args", T("expr_args", <<>>, params)), Body(kids)>>))>>)
ErCallOf(expr, args) == T("call", <<>>, <<As("expr", expr), T("expr_args", <<>>, args)>>)
ErRemote(m, f) == T("remote", <<>>, <<As("module", T("remote_module", <<>>, <<As("module", ErAtom(m))>>)), As("fun", ErAtom(f))>>)

(* Functions of one name and different arities are not on one line here. *)
ErlangTrees ==
  { T("module_attribute", <<>>, <<As("name", ErAtom("m"))>>),
    T("behaviour_attribute", <<>>, <<As("name", ErAtom("b"))>>),
    T("record_decl", <<>>, <<As("name", ErAtom("r")), T("record_field", <<>>, <<As("name", ErAtom("a"))>>)>>),
    T("pp_define", <<>>, <<As("lhs", T("macro_lhs", <<>>, <<As("name", L("var", <<"MAX">>))>>))>>),
    T("pp_include", <<>>, <<As("file", L("string", <<"a", "h">>))>>),
    T("import_attribute", <<>>, <<As("module", ErAtom("n"))>>),
    ErFun("f", <<L("integer", <<>>)>>, <<ErCallOf(ErAtom("g"), <<ErCallOf(ErRemote("n", "h"), <<>>)>>)>>),
    ErFun("f", <<L("var", <<>>)>>, <<T("fun_expr", <<>>, <<ErCallOf(ErAtom("k"), <<>>)>>), ErCallOf(ErAtom("print"), <<>>)>>) }

HsTypeOf(t) == As("type", T("type", <<>>, <<L("name", <<t>>)>>))
HsApply(f, x) == T("apply", <<>>, <<As("function", f), As("argument", x)>>)
HsVar(v) == L("variable", <<v>>)
HsDef(kind, f, kids) == T(kind, <<>>, <<As("name", HsVar(f)), T("match", <<>>, kids)>>)
HsSignature(f, t) == T("signature", <<>>, <<As("name", HsVar(f)), HsTypeOf(t)>>)
HsDecls(kids) == As("declarations", T("declarations", <<>>, kids))
HsInstanceOf(c, t, kids) ==
  T("instance", <<>>, <<As("name", L("name", <<c>>)), As("patterns", T("type_patterns", <<>>, <<L("name", <<t>>)>>)), HsDecls(kids)>>)

HaskellTrees ==
  { T("header", <<>>, <<As("module", L("module", <<"M">>))>>),
    T("import", <<>>, <<As("module", L("module", <<"A", "B">>))>>),
    T("import", <<>>, <<As("module", L("module", <<"A", "B">>)), As("alias", L("module", <<"C">>))>>),
    HsSignature("f", "S"),
    HsDef("function", "f", <<HsApply(HsApply(HsVar("g"), HsVar("x")), HsApply(L("qualified", <<"B", "h">>), HsVar("y")))>>),
    HsDef("function", "f", <<T("infix", <<>>, <<As("operator", HsVar("k"))>>)>>),
    T("bind", <<>>, <<As("pattern", T("signature", <<>>, <<As("pattern", HsVar("v"))>>)), T("match", <<>>, <<HsApply(HsVar("g"), HsVar("x"))>>)>>),
    T("data_type", <<>>, <<As("name", L("name", <<"S">>)), As("constructors", T("data_constructors", <<>>, <<T("data_constructor", <<>>, <<
      As("constructor", T("record", <<>>, <<As("name", L("constructor", <<"S">>)), As("fields", T("fields", <<>>, <<T("field", <<>>, <<As("name", HsVar("a"))>>)>>))>>))>>)>>))>>),
    T("type_synomym", <<>>, <<As("name", L("name", <<"A">>)), HsTypeOf("S")>>),
    T("class", <<>>, <<As("name", L("name", <<"K">>)), HsDecls(<<HsSignature("m", "S")>>)>>),
    HsInstanceOf("K", "S", <<HsDef("function", "m", <<HsApply(HsVar("g"), HsVar("x"))>>), HsDef("function", "m", <<HsApply(HsVar("h"), HsVar("x"))>>)>>) }

FsId(t) == L("long_identifier_or_op", t)
FsApply(f, args) == T("application_expression", <<>>, <<FsId(f)>> \o args)
FsLeft(v, args) == T("value_declaration_left", <<>>, <<T("identifier_pattern", <<>>, <<FsId(<<v>>)>> \o args)>>)
FsLet(v, args, value, rest) ==
  T("declaration_expression", <<>>, <<T("function_or_value_defn", <<>>, <<FsLeft(v, args)>> \o value)>> \o rest)
FsTypeOf(kind, name, parts) == T("type_definition", <<>>, <<T(kind, <<>>, <<T("type_name", <<>>, <<I(name)>>)>> \o parts)>>)
FsMember(m, args, kids) ==
  T("member_defn", <<>>, <<T("method_or_prop_defn", <<>>, <<T("property_or_ident", <<>>, <<I("this"), I(m)>>)>> \o args \o kids)>>)

FSharpTrees ==
  { T("namespace", <<>>, <<L("long_identifier", <<"N">>), FsTypeOf("union_type_defn", "U", <<T("union_type_cases", <<>>, <<T("union_type_case", <<>>, <<I("A")>>)>>)>>)>>),
    T("module_defn", <<>>, <<I("M"), FsLet("f", <<T("identifier_pattern", <<>>, <<FsId(<<"x">>)>>)>>,
      <<FsLet("v", <<>>, <<FsApply(<<"g">>, <<FsApply(<<"this", "h">>, <<>>)>>)>>, <<FsApply(<<"C">>, <<>>)>>)>>, <<>>)>>),
    FsTypeOf("record_type_defn", "R", <<T("record_fields", <<>>, <<T("record_field", <<>>, <<I("a")>>)>>)>>),
    FsTypeOf("anon_type_defn", "C", <<T("primary_constr_args", <<>>, <<T("typed_pattern", <<>>, <<L("identifier_pattern", <<"a">>)>>)>>),
      T("class_inherits_decl", <<>>, <<L("simple_type", <<"B">>)>>),
      T("type_extension_elements", <<>>, <<FsMember("m", <<L("const", <<>>)>>, <<FsApply(<<"g">>, <<>>)>>), FsMember("p", <<>>, <<>>),
        T("interface_implementation", <<>>, <<L("simple_type", <<"K">>), FsMember("k", <<L("const", <<>>)>>, <<>>)>>)>>)>>),
    FsTypeOf("anon_type_defn", "K", <<T("type_extension_elements", <<>>, <<T("member_defn", <<>>, <<T("member_signature", <<>>,
      <<I("m"), T("curried_spec", <<>>, <<L("arguments_spec", <<>>)>>)>>)>>)>>)>>),
    T("import_decl", <<>>, <<L("long_identifier", <<"A", "B">>)>>),
    FsLet("MAX", <<>>, <<T("prefixed_expression", <<>>, <<FsApply(<<"N", "C">>, <<FsApply(<<"g">>, <<>>)>>)>>)>>, <<>>) }

-----------------------------------------------------------------------------
Trees ==
  [python |-> PythonTrees, lua |-> LuaTrees, bash |-> BashTrees, ruby |-> RubyTrees, perl |-> PerlTrees, r |-> RTrees,
   julia |-> JuliaTrees, powershell |-> PowerShellTrees, sql |-> SqlTrees,
   c |-> CTrees, cpp |-> CppTrees, objc |-> ObjCTrees, rust |-> RustTrees, go |-> GoTrees,
   php |-> PhpTrees, typescript |-> TypeScriptTrees, java |-> JavaTrees, csharp |-> CSharpTrees,
   kotlin |-> KotlinTrees, swift |-> SwiftTrees, dart |-> DartTrees,
   scala |-> ScalaTrees, elixir |-> ElixirTrees, erlang |-> ErlangTrees, haskell |-> HaskellTrees, fsharp |-> FSharpTrees]

(* The root of a file; of a Haskell file, with a header, imports and declarations. *)
Root(l, kids) ==
  T("module", <<>>,
    IF l # "haskell" THEN kids
    ELSE KidsOf([kids |-> kids], {"header"})
           \o <<T("imports", <<>>, KidsOf([kids |-> kids], {"import"})),
                T("declarations", <<>>, SelectSeq(kids, LAMBDA k : k.kind \notin {"header", "import"}))>>)

ProgramsOf(l, trees) ==
  {[lang |-> l, root |-> Placed(<<>>, Root(l, <<At(1, p[1]), At(p[3], p[2])>>))] : p \in trees \X trees \X {1, 10}}

MCPrograms == UNION {ProgramsOf(l, Trees[l]) : l \in DOMAIN Trees}

(* Two functions of one name on one line, and a second clause of the latter. *)
ErlangArities ==
  LET clause(arity) == ErFun("f", [i \in 1..arity |-> L("var", <<"X">>)], <<ErCallOf(ErAtom("g"), <<>>)>>)
  IN {[lang |-> "erlang",
       root |-> Placed(<<>>, Root("erlang", <<At(1, clause(1)), At(1, clause(2)), At(2, clause(2))>>))]}
=============================================================================
