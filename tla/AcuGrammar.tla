----------------------------- MODULE AcuGrammar -----------------------------
(***************************************************************************)
(* The language of the parser, said without a parser: how a tree is        *)
(* written down with no more parentheses than the levels of the operators  *)
(* ask for, and what the value of a number is.                             *)
(***************************************************************************)
EXTENDS AcuParser

(* The operators, weakest first; ** and the assignments group to the       *)
(* right, all others to the left.                                          *)
Levels ==
  <<AssignOps, {"?:"}, {"||"}, {"&&"}, {"|"}, {"^"}, {"&"}, {"==", "!="},
    {"<", "<=", ">", ">="}, {"<<", ">>"}, {"+", "-"}, {"*", "/", "%"}, {"**"}>>

LevelOf(op) == CHOOSE i \in DOMAIN Levels : op \in Levels[i]

Prefix == Len(Levels) + 1

Postfix == Len(Levels) + 2

Closed == Len(Levels) + 3   (* nothing that follows can get into it        *)

Level(e) ==
  CASE e.k \in {"binary", "assign"} -> LevelOf(e.v)
    [] e.k = "cast"                 -> LevelOf("?:")
    [] e.k \in {"call", "dot"}      -> Postfix
    [] OTHER                        -> Closed

(* The weakest operator that may stand bare in the right operand of e is   *)
(* one level above this.                                                   *)
RightLevel(e) ==
  CASE e.k = "assign"  -> 0
    [] e.k = "binary"  -> IF e.v = "**" THEN Level(e) - 1 ELSE Level(e)
    [] e.k = "unary"   -> Prefix
    [] OTHER           -> 0

LeftOf(e) == e.kids[1]

RightOf(e) == Last(e.kids)

Smaller(a, b) == IF a < b THEN a ELSE b

(* Edge: an operator above this level that follows the text of e is taken  *)
(* into it.  Spine: the weakest operator that is bare at its left side.    *)
RECURSIVE Edge(_), Spine(_)
Edge(e) ==
  IF e.k \in {"binary", "assign", "unary", "return", "break"} /\ RightOf(e) # Null
  THEN IF Spine(RightOf(e)) <= RightLevel(e) THEN Closed
       ELSE Smaller(RightLevel(e), Edge(RightOf(e)))
  ELSE Closed

Spine(e) ==
  IF Level(e) = Closed THEN Closed
  ELSE IF Edge(LeftOf(e)) < Level(e) THEN Level(e)
  ELSE Smaller(Level(e), Spine(LeftOf(e)))
-----------------------------------------------------------------------------
(* Texts.                                                                  *)
(* The elements with a text between each two.                              *)
Joined(ws, sep) ==
  FoldLeft(LAMBDA acc, i : acc \o (IF i = 1 THEN "" ELSE sep) \o ws[i], "",
           [i \in DOMAIN ws |-> i])

RECURSIVE Bare(_), TypeText(_)

Grouped(e) == "(" \o Bare(e) \o ")"

(* In a place where operators up to a level end the expression.            *)
In(e, level) == IF Spine(e) <= level THEN Grouped(e) ELSE Bare(e)

AsLeft(e, level) == IF Edge(e) < level THEN Grouped(e) ELSE Bare(e)

Mut(node) == IF "mut" \in node.f THEN "!" ELSE ""

Export(node) == IF "export" \in node.f THEN "<+ " ELSE ""

Typed(type) == IF type.k = "infer" THEN "" ELSE ":" \o TypeText(type)

ParamText(p) ==
  p.v \o Mut(p) \o ":" \o TypeText(p.kids[1])
      \o IF p.kids[2] = Null THEN "" ELSE " = " \o Bare(p.kids[2])

FunctionText(d) ==
  LET params == SubSeq(d.kids, 3, Len(d.kids))
  IN  Export(d) \o "$" \o d.v \o "(" \o Joined([i \in DOMAIN params |-> ParamText(params[i])], ",")
        \o ")" \o (IF d.kids[1].k = "infer" THEN "" ELSE "->" \o TypeText(d.kids[1]) \o " ")
        \o Bare(d.kids[2])

(* A jump ends with a semicolon, which is no node of its own.              *)
Statements(stmts) ==
  Joined([i \in DOMAIN stmts |->
            Bare(stmts[i]) \o IF stmts[i].k \in {"return", "break", "continue"} THEN ";" ELSE ""], " ")

(* An if that follows the else of another is written with it.              *)
ElseText(e) ==
  CASE e = Null              -> ""
    [] e # Null /\ e.k = "if" -> "!" \o Bare(e)
    [] OTHER                 -> "! " \o Bare(e)

Bare(e) ==
  CASE e.k = "binary" -> AsLeft(e.kids[1], Level(e)) \o " " \o e.v \o " " \o In(e.kids[2], RightLevel(e))
    [] e.k = "assign" -> AsLeft(e.kids[1], Level(e)) \o e.v \o " " \o Bare(e.kids[2])
    [] e.k = "cast"   -> AsLeft(e.kids[1], Level(e)) \o " ?:" \o TypeText(e.kids[2])
    [] e.k = "unary"  -> e.v \o " " \o In(e.kids[1], Prefix)
    [] e.k = "call"   -> AsLeft(e.kids[1], Postfix) \o "("
                           \o Joined([i \in 1 .. Len(e.kids) - 1 |-> Bare(e.kids[i + 1])], ",") \o ")"
    [] e.k = "dot"    -> AsLeft(e.kids[1], Postfix) \o " ." \o e.kids[2].v
    [] e.k = "block"  -> "{" \o Statements(e.kids) \o "}"
    [] e.k = "if"     -> "# " \o Bare(e.kids[1]) \o " " \o Bare(e.kids[2]) \o ElseText(e.kids[3])
    [] e.k = "while"  -> "@ " \o (IF e.kids[1].k = "block" THEN Grouped(e.kids[1]) ELSE Bare(e.kids[1]))
                             \o " " \o Bare(e.kids[2])
    [] e.k = "loop"   -> "@ " \o Bare(e.kids[1])
    [] e.k = "break"  -> "@^ " \o Bare(e.kids[1])
    [] e.k = "return" -> "^ " \o Bare(e.kids[1])
    [] e.k = "continue" -> "@<"
    [] e.k = "discard"  -> Bare(e.kids[1]) \o ";"
    [] e.k = "var"      -> Export(e) \o "$" \o e.v \o Mut(e) \o Typed(e.kids[1]) \o " = "
                             \o Bare(e.kids[2]) \o ";"
    [] e.k = "function" -> FunctionText(e)
    [] e.k = "import"   -> Export(e) \o "+> \"" \o e.v \o "\" => " \o e.kids[1].v \o ";"
    [] e.k = "string"   -> "\"" \o e.v \o "\""
    [] e.k = "null"     -> ""
    [] e.k \in {"ident", "int", "float"} -> e.v \o Joined(SetToSeq(e.f), "")

(* A vector in a vector is written without a blank.                        *)
TypeText(t) ==
  CASE t.k \in {"type", "name"} -> t.v
    [] t.k = "unit"   -> "()"
    [] t.k = "vector" -> "<" \o TypeText(t.kids[1]) \o ">"
    [] t.k = "array"  -> "[" \o TypeText(t.kids[1]) \o ";" \o Bare(t.kids[2]) \o "]"
    [] t.k = "tuple"  -> "(" \o Joined([i \in DOMAIN t.kids |-> TypeText(t.kids[i])], ",") \o ")"
    [] t.k = "fn"     -> "(" \o Joined([i \in 1 .. Len(t.kids) - 1 |-> TypeText(t.kids[i])], ",")
                             \o ")->" \o TypeText(RightOf(t))

TextOf(program) == Statements(program)
-----------------------------------------------------------------------------
(* The words of a text without comments, parentheses and punctuation.  An  *)
(* arrow is punctuation here, because the parser skips one that follows an *)
(* operand, as it does with a bracket.                                     *)
Skeleton(text) ==
  FoldLeft(LAMBDA acc, t : IF t.type \in {"(", ")", "[", "]", ",", ";", ":", "->", "comment"} THEN acc
                           ELSE acc \o Lexeme(text, t),
           "", Tokens(text))

(* The value of digits, however large.                                     *)
ValueOf(digits) ==
  FoldLeft(LAMBDA acc, i : acc + DigitOf(At(digits, i)) * 10^(Len(digits) - i), 0,
           [i \in 1 .. Len(digits) |-> i])
=============================================================================
