----------------------------- MODULE MCAcuTypes -----------------------------
(***************************************************************************)
(* Programs for the type checker.  They are texts that AcuParser parses: a *)
(* function with a parameter of every kind of type around one statement,   *)
(* every statement around every expression of two operands, programs that  *)
(* are correct by construction, and modules that name each other's         *)
(* variables, in every order.                                              *)
(***************************************************************************)
EXTENDS AcuTypePass

CONSTANTS Letters, MaxDepth, MaxBranches, MaxTypes, UintMax

MCLetters ==
  {"a", "b", "c", "d", "e", "f", "g", "h", "i", "k", "l", "m", "n", "o", "p", "q", "r", "s", "t", "u",
   "w", "x", "y", "z", "H", "K", "_"}

P == INSTANCE AcuParser

RECURSIVE ParsedFrom(_)
ParsedFrom(s) ==
  LET turn == P!ParseTurn(s)
  IN  CASE s.cur.type = "eof"                      -> IF s.errors = <<>> THEN <<>> ELSE Assert(FALSE, s)
        [] s.cur.type # "eof" /\ turn.val = Null   -> ParsedFrom(turn)
        [] s.cur.type # "eof" /\ turn.val # Null   -> <<turn.val>> \o ParsedFrom(P!Give(turn, Null))

Parsed(text) == ParsedFrom(P!Init0(text))

(* The expression that a text is.                                          *)
Expr(text) == LET stmt == Parsed("$x = " \o text \o ";")[1] IN stmt.kids[2]

(* A tree with other trees in place of the names H and K.                  *)
RECURSIVE Filled(_, _, _)
Filled(n, h, k) ==
  CASE n.k = "ident" /\ n.v = "H" -> h
    [] n.k = "ident" /\ n.v = "K" -> k
    [] OTHER -> [n EXCEPT !.kids = [i \in DOMAIN @ |-> Filled(@[i], h, k)]]

Module(name, stmts) == [name |-> name, stmts |-> stmts, system |-> <<>>]

Builtin == [Module("std", <<>>) EXCEPT !.system = ("print" :> Of("fn", <<STR, UNIT>>))]

Single(stmts) == <<Module("main", stmts)>>
-----------------------------------------------------------------------------
Leaves == {Expr(t) : t \in {"a", "b", "c", "d", "e", "s", "1", "1.5", "2i8"}}

Few == {Expr(t) : t \in {"a", "b", "d", "1", "1.5"}}

Name(x) == Tree("ident", x, {}, <<>>)

BinaryOf2(ops, ls, rs) == {Tree("binary", op, {}, <<l, r>>) : op \in ops, l \in ls, r \in rs}

Holes(texts, hs, ks) == {Filled(e, h, k) : e \in {Expr(t) : t \in texts}, h \in hs, k \in ks}

(* The right operand of a comparison, a shift or a logical operator may be *)
(* anything; one that leaves is no right operand of a logical operator     *)
(* here, which has the type NEVER although it may be passed.               *)
Unalike(leaves, few) ==
  LET anything == few \union {Name("c"), Name("s"), Expr("{}")}
      stops    == {Expr("{ ^ b; }")}
      one      == Expr("1")
  IN  BinaryOf2({"<"}, leaves \ {Expr("1.5"), Expr("2i8")}, anything \union stops)
        \union BinaryOf2({"=="}, {Name("a"), Name("d"), one}, anything)
        \union BinaryOf2({"<<"}, {Name("a"), Name("c"), Name("e"), one}, anything \union stops)
        \union BinaryOf2({"&&"}, leaves, {Name("d")})
        \union BinaryOf2({"&&"}, {Name("d")}, anything)

SomeTypes == {"i8", "i64", "u8", "f64", "i1", "str", "()"}

Stopping ==
  {Expr(t) : t \in {"{ ^ b; }", "{ # d { ^ b; } ! { ^ a; } }", "@ {}", "@ { @^; }", "@ { # d { @^; } }",
                    "@ { @< ; }", "@ { @ { @^; } }", "@ { @ { @^; d } {} }", "@ d {}", "@ d { @^; }", "@ { ^ b; @^; }",
                    "# d { ^ b; } ! { 1 }", "# d { 1 } ! { ^ b; }", "{ 1; 2 }", "{ b }", "{}",
                    "# d { 1 }", "@ { 1 }", "@ d { 1 }", "g", "x", "g(1)", "b(1)", "g.p", "k.z", "m", "w",
                    "m = 1", "b = 1", "{ $b! = 1u8; b = c; b }", "{ $b = s; b }", "{ { $q = s; } q }"}}

Exprs ==
  LET leaves == Leaves
      few    == Few
  IN  leaves \union BinaryOf2({"+"}, leaves, leaves) \union BinaryOf2({"&"}, few, leaves)
        \union Unalike(leaves, few)
        \union {Tree("unary", op, {}, <<e>>) : op \in {"-", "~", "!"}, e \in leaves}
        \union Holes({"(H) ?: " \o t : t \in SomeTypes}, few, {Null})
        \union Holes({"# d { H } ! { K }", "@ { # d { @^ H; } @^ K; }", "{ $t! = H; t = K; t }", "g(H, K)"},
                     few, few)
        \union Stopping

Statements ==
  <<"$x = H;", "$x: i16 = H;", "m = H;", "m += H;", "w <<= H;", "g(H, b);", "^ H;", "# H {}", "- H + b;",
   "$x = # d { 2u8 } ! { H };", "$x = @ { @^ H; };", "@ d { H; @^; }">>

Around(text) ==
  "$g(p: i8, q: i64) -> i8 { p } $f(a: i8, b: i64, c: u8, d: i1, e: f64, s: str) -> i64 {"
    \o "$m! = b; $w!: i16 = 2; " \o text \o " ^ b; }"

(* A sequence whose elements TLC computes once.                            *)
Listed(s) == <<>> \o s

Frames == Listed([i \in DOMAIN Statements |-> Parsed(Around(Statements[i]))])

FilledAll(stmts, h) == [i \in DOMAIN stmts |-> Filled(stmts[i], h, h)]

Mixed ==
  LET frames == Frames
      exprs  == Exprs
  IN  Listed([i \in DOMAIN frames |-> {Single(FilledAll(frames[i], e)) : e \in exprs}])
-----------------------------------------------------------------------------
(* Expressions of a type where that type is expected, by how deep they     *)
(* are.                                                                    *)
Plain ==
  [i8  |-> {"a", "1", "2i8"}, i64 |-> {"b", "a", "1", "m"}, u8 |-> {"c", "1"},
   f64 |-> {"e", "1.5", "1"}, i1 |-> {"d", "1i1"}, str |-> {"s", "\"t\""}]

Numeric == {"i8", "i64", "u8", "f64"}

Plains(t) == {Expr(x) : x \in Plain[t]}

Composed(t) ==
  LET es    == Plains(t)
      arith == BinaryOf2({"+", "**"}, es, es) \union {Tree("unary", "-", {}, <<e>>) : e \in es}
                 \union Holes({"(H) ?: " \o t}, UNION {Plains(u) : u \in Numeric}, es)
      bits  == BinaryOf2({"&", "<<"}, es, es) \union {Tree("unary", "~", {}, <<e>>) : e \in es}
      bools == BinaryOf2({"&&", "=="}, es, es) \union {Tree("unary", "!", {}, <<e>>) : e \in es}
                 \union UNION {BinaryOf2({"<"}, Plains(u), Plains(u)) : u \in {"i8", "i64", "u8"}}
  IN  es \union Holes({"# d { H } ! { K }", "@ { # d { @^ H; } @^ K; }", "{ g(1, a); H }",
                       "# d { ^ b; } ! { H }", "{ $t!: " \o t \o " = H; t = K; t }"}, es, es)
         \union (IF t \in Numeric THEN arith ELSE {}) \union (IF t \in Numeric \ {"f64"} THEN bits ELSE {})
         \union (IF t = "i1" THEN bools ELSE {})
         \union (IF t = "i8" THEN Holes({"g(H, K)"}, es, Plains("i64")) ELSE {})

Places ==
  [t \in DOMAIN Plain |->
     {Parsed(Around("$x: " \o t \o " = H;"))}
       \union (IF t = "i64" THEN {Parsed(Around(x)) : x \in {"m = H;", "m += H;", "^ H;", "g(1, H);"}} ELSE {})
       \union (IF t = "i1" THEN {Parsed(Around(x)) : x \in {"# H {}", "@ H {}"}} ELSE {})]

Typable ==
  LET types == <<"i8", "i64", "u8", "f64", "i1", "str">>
  IN  Listed([i \in DOMAIN types |->
                {Single(FilledAll(f, e)) : e \in Composed(types[i]), f \in Places[types[i]]}])
-----------------------------------------------------------------------------
(* Numbers without a suffix take the type of what they meet.               *)
Adapting ==
  {Single(Parsed(Around("$x = " \o n \o " + " \o v[1] \o "; $y: " \o v[2] \o " = x;"))) :
     n \in {"1", "- 1", "2 * 3", "- 1 * 2"}, v \in {<<"a", "i8">>, <<"b", "i64">>, <<"c", "u8">>, <<"e", "f64">>}}

InAnyOrder(stmts) ==
  LET all == 1 .. Len(stmts)
  IN  {[i \in all |-> stmts[p[i]]] : p \in {q \in [all -> all] : \A i, j \in all : i = j \/ q[i] # q[j]}}

MainTexts ==
  <<"+> \"lib\" => k;", "$x = y;", "$y = k.z;", "$f(p: i16) -> i16 { k.o.print(\"s\"); x + p }", "@ { k.z = f(y); @^; }">>

Mains == InAnyOrder(Listed([i \in 1 .. 5 |-> Parsed(MainTexts[i])[1]]))

CorrectLibs == {"<+ +> \"std\" => o; <+ $z! = 2i16;", "<+ +> \"std\" => o; <+ $z! = q; $q: i16 = 1;"}

WrongLibs ==
  {"+> \"std\" => o; <+ $z! = 2i16;", "<+ +> \"std\" => o; $z! = 2i16;", "<+ +> \"std\" => o; <+ $z = 2i16;",
   "<+ +> \"std\" => o; +> \"main\" => m; <+ $z! = m.x;"}

Linked(libs) ==
  {<<Module("main", main), Module("lib", lib), Builtin>> : main \in Mains, lib \in {Parsed(l) : l \in libs}}

(* analyzer_test.c.                                                        *)
Cases ==
  {Single(Parsed(t)) :
     t \in {"$y = x; $x = 15;", "$add(a: i64, b: i64) -> i64 { a + b } $res = add(10, 20);",
            "$cond = #1i1 { 100 } ! { 200 }; $loop = @ { @^ 42; };"}}

Clashes ==
  {Single(Parsed(t)) :
     t \in {"$x = 1; $x() {}", "$f(a: i8, a: i8) {}", "$f(a: i8) {} $x = f; x(1);", "$x = ^ 1;", "@^;", "@<;",
            "$x = y; $y = x;", "$x: i8 = y; $y = x;", "$x = x;", "x = 1; $x! = 2;", "$f() { f = 1; }"}}

CorrectOnes == Typable \o <<Cases, Adapting, Linked(CorrectLibs)>>

MCCorrect == LET correct == CorrectOnes IN correct

AllPrograms == CorrectOnes \o Mixed \o <<Linked(WrongLibs), Clashes>>

MCPrograms == LET programs == AllPrograms IN programs
-----------------------------------------------------------------------------
(* What the checker makes of every program, step by step.                  *)
RECURSIVE Through(_, _, _, _)
Through(s, p, what, items) ==
  LET m    == Head(items)[1]
      n    == p[m].stmts[Head(items)[2]]
      next == IF what = "statements" THEN CheckStatement(s, m, n) ELSE CheckFunction(s, m, n)
      rest == Through(Give(next, UNIT), p, what, Tail(items))
  IN  CASE items # <<>> /\ ~ s.lost -> <<[key |-> <<what, s, m, n>>, next |-> next]>> \o rest
        [] items = <<>> /\ what = "statements" -> Through(s, p, "functions", Functions(p))
        [] OTHER -> <<>>

BoundIn(p) ==
  FoldLeft(LAMBDA s, item : BindStatement(s, p, item[1], p[item[1]].stmts[item[2]]), Workspace(p), Items(p))

StepsOf(p) == LET s == BoundIn(p) IN IF s.errors = <<>> THEN Through(s, p, "statements", Items(p)) ELSE <<>>

Tabulated(steps) == FoldLeft(LAMBDA acc, step : (step.key :> step.next) @@ acc, <<>>, steps)

AllSteps ==
  LET families == AllPrograms
  IN  Listed([i \in DOMAIN families |-> <<>> @@ [p \in families[i] |-> Tabulated(StepsOf(p))]])

MCSteps == LET steps == AllSteps IN steps
=============================================================================
