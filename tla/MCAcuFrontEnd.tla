--------------------------- MODULE MCAcuFrontEnd ----------------------------
(***************************************************************************)
(* Texts for the lexer and the parser: every expression of two operators   *)
(* around every kind of operand, declarations and statements, every short  *)
(* sequence of tokens and of characters, numbers around the largest one,   *)
(* and nests as deep as the limit.                                         *)
(***************************************************************************)
EXTENDS AcuFrontEnd

MCLetters == {"a", "b", "f", "i", "x", "z", "u", "s", "t", "r", "e", "m", "_"}

A == Tree("ident", "a", {}, <<>>)
B == Tree("ident", "b", {}, <<>>)
I32 == Tree("type", "i32", {}, <<>>)
Infer == Of("infer", <<>>)
One == Tree("int", "1", {}, <<>>)

(* One operator of every level, and fewer around two operands.             *)
EveryLevel == {"||", "&&", "|", "^", "&", "==", "<", "<<", "+", "*", "**", "=", "**="}
SomeLevels == {"||", "^", "<<", "*", "**", "="}

Binaries(ops, ls, rs) ==
  {Tree(IF op \in AssignOps THEN "assign" ELSE "binary", op, {}, <<l, r>>) :
     op \in ops, l \in ls, r \in rs}

(* Around an operand.                                                      *)
Unaries(es, ls) ==
  {Tree("unary", op, {}, <<e>>) : op \in {"-", "!"}, e \in es}
    \union {Of("cast", <<e, I32>>) : e \in ls}
    \union {Of("call", <<e, B>>) : e \in ls} \union {Of("call", <<A, e, B>>) : e \in es}
    \union {Of("dot", <<e, B>>) : e \in ls}
    \union {Of("return", <<e>>) : e \in es} \union {Of("break", <<e>>) : e \in es}

Blocks(es) ==
  {Of("block", <<e>>) : e \in es} \union {Of("loop", <<Of("block", <<Of("discard", <<e>>)>>)>>) : e \in es}
    \union {Of("while", <<e, Of("block", <<>>)>>) : e \in es}
    \union {Of("if", <<e, Of("block", <<e>>), Null>>) : e \in es}
    \union {Of("if", <<A, Of("block", <<e>>), e>>) : e \in es}

Open(es) == {e \in es : e.k \notin BlockLike}

E0 == {A, Tree("int", "1", {"i8"}, <<>>)}
E1 == E0 \union Binaries(EveryLevel, {A}, {B}) \union Unaries({A}, {A}) \union Blocks({A})

Types0 == {I32, Tree("name", "t", {}, <<>>), Of("unit", <<>>)}
Types(ts) ==
  ts \union {Of("vector", <<t>>) : t \in ts} \union {Of("array", <<t, One>>) : t \in ts}
    \union {Of("tuple", <<t, I32>>) : t \in ts} \union {Of("fn", <<t, t>>) : t \in ts}
    \union {Of("fn", <<t>>) : t \in ts}

Bodies ==
  {Of("block", s) : s \in {<<>>, <<Of("return", <<Null>>)>>, <<Of("discard", <<A>>), B>>,
                           <<Of("continue", <<>>), Of("break", <<Null>>)>>,
                           <<Of("block", <<>>), Tree("var", "x", {"mut"}, <<I32, A>>), One>>}}

Functions ==
  {Tree("function", "f", fl, <<r, b>> \o ps) :
     fl \in {{}, {"export"}}, r \in {Infer, I32, Of("vector", <<I32>>)}, b \in Bodies \union {A},
     ps \in {<<>>, <<Tree("param", "a", {"mut"}, <<I32, One>>)>>,
             <<Tree("param", "a", {}, <<Of("unit", <<>>), Null>>), Tree("param", "b", {}, <<I32, A>>)>>}}

Chain(n) ==
  FoldLeft(LAMBDA acc, i : Of("if", <<A, Of("block", <<>>), acc>>), Null, [i \in 1 .. n |-> i])

Initialised(es) == {<<Tree("var", "x", {}, <<Infer, e>>)>> : e \in es}

Programs ==
  {Initialised(Binaries(EveryLevel, Open(E1), {B})),
   Initialised(Binaries(EveryLevel, {A}, E1)), Initialised(Binaries(SomeLevels, Open(E1), E1)), Initialised(Unaries(E1, Open(E1))), Initialised(Blocks(E1)),
   {<<Of("discard", <<e>>)>> : e \in {e1 \in E1 : e1.k \notin {"return", "break"}}},
   {<<Tree("var", "x", fl, <<t, A>>)>> : fl \in {{}, {"mut", "export"}}, t \in Types(Types(Types0))},
   {<<f, Tree("import", "m", {}, <<B>>), f>> : f \in Functions},
   {<<Chain(n)>> : n \in 1 .. MaxBranches}}

ProgramTexts == {{TextOf(p) : p \in ps} : ps \in Programs}

MCWritten == LET texts == ProgramTexts IN texts
-----------------------------------------------------------------------------
SomeTokens ==
  {"a", "1", "$", "(", ")", "{", "}", ";", ",", ":", "=", "+", "^", "[", "#", "@"}

(* Sequences of exactly n.                                                 *)
Texts(tokens, n) == {Joined(ts, " ") : ts \in [1 .. n -> tokens]}

Short == {Texts(SomeTokens, n) : n \in 0 .. 3}

SomeChars == {"a", "1", "<", ">", "=", "*", "/", "!", "#", "?", "\"", "\\", ".", "e"}

Glued == {{Joined(cs, "") : cs \in [1 .. n -> SomeChars]} : n \in 1 .. 3}

MCCounted ==
  LET digits == {ToString(n) : n \in {0, 1, 9, 10, 249, 250, 254, 255, 256, 259, 260, 299, 300, 511, 512, 2549, 2559, 2560, 2600, 25600}}
                  \union {"007", "0255", "0256"}
  IN  {[digits |-> d, suffix |-> s] : d \in digits, s \in {"", "i8", "u64", "f32", "i", "x1", "i88"}}

MCDamaged ==
  LET damaged == Texts({"a", "$", "(", ")", "}", ",", ":", "=", "+", "^"}, 3) IN damaged

Nest(open, n, mid, close) ==
  LET times(t) == FoldLeft(LAMBDA acc, i : acc \o t, "", [i \in 1 .. n |-> i])
  IN  times(open) \o mid \o times(close)

Deep ==
  {Nest(o, n, m, c) : n \in 2 .. MaxDepth + 1, m \in {"a", "; $x = 1;", "$"},
                      o \in {"{ ", "( ", "- ", "$f()", "# a ", "a = "}, c \in {"", "}", ")", ";"}}
    \union {"$x:" \o Nest("<", n, "i32", c) \o "=1;" : n \in 2 .. MaxDepth + 1, c \in {">", "> "}}

Chains == {TextOf(<<Chain(n)>>) : n \in 1 .. MaxBranches + 2}

Tuples == {"$x: (" \o Nest("i8, ", n, "i8", "") \o ") = 1;" : n \in 1 .. MaxTypes + 1}

MCSources ==
  LET families == MCWritten \union Short \union Glued
                    \union {Numbers, Broken, Deep, Chains, Tuples}
  IN  families
-----------------------------------------------------------------------------
(* The first turn of some parsers, then the turns that follow.             *)
RECURSIVE TurnsFrom(_)
TurnsFrom(parsers) ==
  LET open == {s \in parsers : s.cur.type # "eof"}
      turn == [s \in open |-> ParseTurn(s)]
  IN  IF open = {} THEN {} ELSE {turn} \union TurnsFrom({Give(turn[s], Null) : s \in open})

AllTurns == UNION {TurnsFrom({Init0(t) : t \in family}) : family \in Sources}

MCTurns == LET turns == AllTurns IN turns
=============================================================================
