---------------------------- MODULE MCResolution ----------------------------
(* Three files in two directories, for every language the same small program:
   a1 calls, a2 and b1 have the functions, the classes and their methods. *)
EXTENDS Resolution

MCOrder == <<"a1", "a2", "b1">>
MCDir == [a1 |-> "A", a2 |-> "A", b1 |-> "B"]
MCWithin == [p \in {"A", "B"} \X {"A", "B"} |-> p[1] = p[2]]
MCCapitals == {"T", "W", "D"}
MCWords == [s \in {"x", "y", "s", "T", "W", "S", "I", "m", "k", "pkg", "log"} |->
              CASE s \in {"x", "T"} -> {"t"} [] s \in {"s", "S"} -> {"s"} [] OTHER -> {s}]
MCBuiltinModules == {"List"}
MCGoStdPackages == {"log"}
MCGoImport == [p \in {"a1", "a2", "b1"} \X {"x", "y", "s", "T", "pkg", "log"} |->
                 IF p[2] = "pkg" THEN "B" ELSE "none"]
Position(id) == CHOOSE i \in DOMAIN MCOrder : MCOrder[i] = id[1]
MCIdBefore(a, b) == Position(a) < Position(b)

Languages == {"go", "python", "csharp", "java", "kotlin", "scala", "ruby", "rust", "php", "c",
  "swift", "cpp", "dart", "lua", "bash", "elixir", "haskell", "objc", "perl", "erlang", "julia",
  "fsharp", "r", "powershell", "sql", "specscore", "ini"}

MCBuiltin == [l \in Languages |-> IF l \in {"go", "c", "cpp", "objc", "fsharp"} THEN {"len"} ELSE {}]
MCLang == [p \in Languages \cup {"interfaces", "bases"} |->
             CASE p = "interfaces" -> "go" [] p = "bases" -> "cpp" [] OTHER -> p]

Symbol(line, kind, name, qual, sig, owner) ==
  [line |-> line, kind |-> kind, name |-> name, qual |-> qual, sig |-> sig, owner |-> owner]

Content(symbols, refs) == [symbols |-> symbols, refs |-> refs]

(* What a language calls a class, and what joins a class and its method. *)
ClassKind(l) ==
  CASE l \in {"elixir", "erlang", "perl", "haskell"} -> "module"
    [] l \in {"rust", "go", "julia", "c", "sql"} -> "struct"
    [] l = "specscore" -> "feature"
    [] OTHER -> "class"

Join(l) == CASE l \in {"cpp", "rust", "perl"} -> "::" [] l = "erlang" -> ":" [] OTHER -> "."

Calls(names, sep) == [i \in DOMAIN names |-> [from |-> 1, kind |-> "calls", name |-> names[i], sep |-> sep]]

OfT == <<"references", "imports", "instantiates", "extends", "implements", "overrides", "decorates">>

(* What the class D of the caller says of T. *)
Others(l) ==
  [i \in DOMAIN OfT |-> [from |-> 2, kind |-> OfT[i], name |-> <<"T">>, sep |-> "."]]
  \o << [from |-> 2, kind |-> "overrides", name |-> <<"T", "m">>, sep |-> Join(l)],
        [from |-> 2, kind |-> "implements", name |-> <<"T", "I">>, sep |-> "@"],
        [from |-> 2, kind |-> "references", name |-> <<"B">>, sep |-> "/"],
        [from |-> 2, kind |-> "imports", name |-> <<"lib">>, sep |-> "."] >>

(* The caller: does it have f itself, does it construct x, and does it import T and f,
   by their names or, in Kotlin, with all of p? *)
Caller(l, own, known, imported) ==
  Content(<<Symbol(1, "function", <<"g">>, <<"g">>, <<>>, 0),
            Symbol(6, ClassKind(l), <<"D">>, <<"D">>, <<>>, 0)>>
          \o (IF own THEN <<Symbol(2, "function", <<"f">>, <<"f">>, <<>>, 0)>> ELSE <<>>)
          \o (IF known THEN <<Symbol(3, "variable", <<"x">>, <<"x">>, <<"T">>, 0)>> ELSE <<>>)
          \o (IF ~imported THEN <<>>
              ELSE IF l = "kotlin" THEN <<Symbol(4, "import", <<"p">>, <<"p">>, <<"p", "*">>, 0)>>
              ELSE <<Symbol(4, "import", <<"T">>, <<"p", "T">>, <<"p", "T">>, 0),
                     Symbol(5, "import", <<"f">>, <<"p", "f">>, <<"p", "f">>, 0)>>),
          Calls(<< <<"f">>, <<"T">>, <<"len">>, <<"x", "m">>, <<"y", "m">>, <<"T", "new">>, <<"T", "m">>,
                   <<"pkg", "f">>, <<"log", "m">>, <<"x", "y", "m">> >>, ".")
          \o Calls(<< <<"T", "m">> >>, Join(l))
          \o Others(l))

Class(l, line, name, at) ==
  <<Symbol(line, ClassKind(l), <<name>>, <<name>>, <<>>, 0),
    Symbol(line + 1, IF l \in {"elixir", "erlang", "haskell", "julia", "bash"} THEN "function" ELSE "method",
           <<"m">>, <<name, "m">>, <<>>, at)>>

(* W has another m, nearer to the caller than that of T. *)
Neighbour(l, class) ==
  Content(<<Symbol(1, "function", <<"f">>, <<"f">>, <<>>, 0)>>
          \o (IF class THEN Class(l, 2, "W", 2) ELSE <<>>), <<>>)

Library(l, moved) ==
  Content((IF moved THEN <<Symbol(1, "namespace", <<"p">>, <<"p">>, <<>>, 0)>> ELSE <<>>)
          \o <<Symbol(2, "function", <<"f">>, <<"f">>, <<>>, 0),
               Symbol(3, "file", <<"lib", "r">>, <<"lib">>, <<>>, 0),
               Symbol(4, "interface", <<"I">>, <<"I">>, <<>>, 0)>>
          \o Class(l, 5, "T", IF moved THEN 5 ELSE 4), <<>>)

(* Go: a struct and an interface, each with one method or two. *)
Methodical(kind, name, both) ==
  Content(<<Symbol(1, kind, <<name>>, <<name>>, <<>>, 0),
            Symbol(2, "method", <<"m">>, <<name, "m">>, <<>>, 1)>>
          \o (IF both THEN <<Symbol(3, "method", <<"k">>, <<name, "k">>, <<>>, 1)>> ELSE <<>>),
          Calls(<< <<"x", "m">>, <<"s", "k">> >>, "."))

(* Go: a line that registers one route twice, and two nodes with one id. *)
Routes ==
  Content([i \in 1 .. 2 |-> Symbol(1, "route", <<"GET /">>, <<"GET /">>, <<>>, 0)],
          [i \in 1 .. 2 |-> [from |-> i, kind |-> "references", name |-> <<"S">>, sep |-> "."]])

(* C++: D extends W, and W extends T, whose member D overrides. *)
Derived(name, base, overridden) ==
  Content(<<Symbol(1, "class", <<name>>, <<name>>, <<>>, 0)>>,
          <<[from |-> 1, kind |-> "extends", name |-> <<base>>, sep |-> "::"]>>
          \o (IF overridden THEN <<[from |-> 1, kind |-> "overrides", name |-> <<base, "m">>, sep |-> "::"]>>
                            ELSE <<>>))

MCProject ==
  [p \in DOMAIN MCLang |->
     CASE p = "interfaces" ->
            [a1 |-> {Methodical("struct", "S", both) : both \in BOOLEAN},
             a2 |-> {Content(<<>>, <<>>), Routes},
             b1 |-> {Methodical("interface", "I", both) : both \in BOOLEAN}]
       [] p = "bases" ->
            [a1 |-> {Derived("D", "W", overridden) : overridden \in BOOLEAN},
             a2 |-> {Derived("W", "T", FALSE)},
             b1 |-> {Library("cpp", moved) : moved \in BOOLEAN}]
       [] OTHER ->
            [a1 |-> {Caller(p, own, known, imported) : own \in BOOLEAN, known \in BOOLEAN, imported \in BOOLEAN},
             a2 |-> {Neighbour(p, class) : class \in BOOLEAN},
             b1 |-> {Library(p, moved) : moved \in BOOLEAN}]]
=============================================================================
