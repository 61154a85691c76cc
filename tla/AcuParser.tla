------------------------------ MODULE AcuParser ------------------------------
(***************************************************************************)
(* The parser: recursive descent for declarations and types, precedence    *)
(* climbing for expressions, and recovery from errors in panic mode.       *)
(*                                                                         *)
(* Every parsing function takes the parser and leaves it as a record       *)
(*   text      the source                                                  *)
(*   pos       where the lexer goes on                                     *)
(*   cur, prev the current and the previous token                          *)
(*   panic     an error was reported and errors are kept back until the    *)
(*             parser has synchronized                                     *)
(*   errors    the codes of the errors that were reported                  *)
(*   val       what the function returns                                   *)
(*   trailing  the statement is an expression in front of a brace          *)
(*   stuck     the same statement is parsed over and over without taking a *)
(*             token of it                                                 *)
(***************************************************************************)
EXTENDS AcuLexer, AcuSyntax, SequencesExt

CONSTANTS
  MaxDepth,      (* 255 in the source                                      *)
  MaxBranches,   (* branches of one if: 128                                *)
  MaxTypes,      (* types in one pair of parentheses: 256                  *)
  UintMax        (* 2^64 - 1                                               *)

ASSUME LimitsAssumption == {MaxDepth, MaxBranches, MaxTypes, UintMax} \subseteq Nat

-----------------------------------------------------------------------------
(* X_ACU_PRECEDENCE and the precedence column of the token table.          *)
NONE        == 0
ASSIGN      == 1
CONDITIONAL == 2
POWER       == 13
UNARY       == 14
POSTFIX     == 15

AssignOps ==
  {"=", "+=", "-=", "*=", "**=", "/=", "%=", "&=", "|=", "^=", "<<=", ">>="}

Precedence(type) ==
  CASE type \in AssignOps              -> ASSIGN
    [] type = "?:"                     -> CONDITIONAL
    [] type = "||"                     -> 3
    [] type = "&&"                     -> 4
    [] type = "|"                      -> 5
    [] type = "^"                      -> 6
    [] type = "&"                      -> 7
    [] type \in {"==", "!="}           -> 8
    [] type \in {"<", "<=", ">", ">="} -> 9
    [] type \in {"<<", ">>"}           -> 10
    [] type \in {"+", "-"}             -> 11
    [] type \in {"*", "/", "%"}        -> 12
    [] type = "**"                     -> POWER
    [] type \in {"(", "[", ".", "->"}  -> POSTFIX
    [] OTHER                           -> NONE

BinaryOps ==
  {"||", "&&", "|", "^", "&", "==", "!=", "<", "<=", ">", ">=", "<<", ">>", "+", "-", "*",
   "/", "%", "**"}

UnaryOps == {"+", "-", "!", "~"}
-----------------------------------------------------------------------------
Give(s, val) == [s EXCEPT !.val = val]

Report(s, code) ==
  IF s.panic \/ s.stuck THEN s ELSE [s EXCEPT !.panic = TRUE, !.errors = Append(@, code)]

(* AcuParser_Advance: comments are skipped, and so are the errors of the   *)
(* lexer once they are reported.                                           *)
RECURSIVE Fetch(_)
Fetch(s) ==
  LET n == NextToken(s.text, s.pos)
      r == [s EXCEPT !.pos = n.pos]
  IN  CASE n.token.type = "error"   -> Fetch(Report(r, n.token.code))
        [] n.token.type = "comment" -> Fetch(r)
        [] OTHER                    -> [r EXCEPT !.cur = n.token]

Advance(s) == Fetch([s EXCEPT !.prev = s.cur])

Has(s, type) == s.cur.type = type

(* Parser_Match, where the answer is not needed.                           *)
Match(s, type) == IF Has(s, type) THEN Advance(s) ELSE s

Consume(s, type, code) == IF Has(s, type) THEN Advance(s) ELSE Report(s, code)

SyncTokens == {"$", "<>", "$>", "+>", "<+", "#", "@"}

(* Mutant: a semicolon does not end the search.                            *)
RECURSIVE SkipToWord(_)
SkipToWord(s) ==
  IF s.cur.type \in SyncTokens \union {"eof"} THEN s ELSE SkipToWord(Advance(s))

RECURSIVE SkipToSync(_)
SkipToSync(s) ==
  IF s.cur.type = "eof" \/ s.prev.type = ";" \/ s.cur.type \in SyncTokens THEN s
  ELSE SkipToSync(Advance(s))

Synchronize(s) == SkipToSync([s EXCEPT !.panic = FALSE])

(* Of steps that are taken one after the other, each after a look at       *)
(* panic_mode: the first that left the parser in panic, without a node, or *)
(* the last one with the node that it completes.                           *)
Settle(steps, node) ==
  LET bad == {i \in DOMAIN steps : steps[i].panic}
  IN  IF bad = {} THEN Give(Last(steps), node)
      ELSE Give(steps[CHOOSE i \in bad : \A j \in bad : i <= j], Null)

Init0(text) ==
  LET none == [type |-> "eof", at |-> 1, len |-> 0, code |-> "OK"]
      s    == Advance([text |-> text, pos |-> 1, cur |-> none, prev |-> none, panic |-> FALSE,
                       errors |-> <<>>, val |-> Null, trailing |-> FALSE, stuck |-> FALSE])
  IN  [s EXCEPT !.panic = FALSE]
-----------------------------------------------------------------------------
(* Numbers.  An integer is read digit by digit in 64 bits and remembers    *)
(* that it did not fit; what is behind the digits is the suffix.           *)
DigitOf(c) == CHOOSE d \in 0 .. 9 : ToString(d) = c

(* Mutant: the last digit is not compared.                                 *)
TakeAnyDigit(acc, d) ==
  [value    |-> (acc.value * 10 + d) % (UintMax + 1),
   overflow |-> acc.overflow \/ acc.value > UintMax \div 10]

TakeDigit(acc, d) ==
  [value    |-> (acc.value * 10 + d) % (UintMax + 1),
   overflow |-> \/ acc.overflow
                \/ acc.value > UintMax \div 10
                \/ acc.value = UintMax \div 10 /\ d > UintMax % 10]

IntPart(digits) ==
  FoldLeft(LAMBDA acc, i : TakeDigit(acc, DigitOf(At(digits, i))),
           [value |-> 0, overflow |-> FALSE], [i \in 1 .. Len(digits) |-> i])

IntSuffixes == {"i1", "i8", "i16", "i32", "i64", "u8", "u16", "u32", "u64"}

FloatSuffixes == {"f32", "f64"}

(* Acu_ParseNumericLiteral; a float keeps its text as its value.           *)
ParseNumericLiteral(text) ==
  LET whole  == Skip(text, 1, Digits)
      m      == IF At(text, whole) = "." THEN Skip(text, whole + 1, Digits) ELSE whole
      e      == IF At(text, m + 1) \in {"+", "-"} THEN m + 2 ELSE m + 1
      p      == IF At(text, m) \in {"e", "E"} THEN Skip(text, e, Digits) ELSE m
      suffix == SubSeq(text, p, Len(text))
      int    == IntPart(SubSeq(text, 1, whole - 1))
      known  == FloatSuffixes \union IF p = whole THEN IntSuffixes ELSE {}
      float  == p > whole \/ suffix \in FloatSuffixes
  IN  [overflow |-> int.overflow,
       valid    |-> suffix \in known \union {""},
       node     |-> Tree(IF float THEN "float" ELSE "int",
                         IF float THEN SubSeq(text, 1, p - 1) ELSE ToString(int.value),
                         {suffix} \cap known, <<>>)]

ParseNumber(s, t) ==
  LET n == ParseNumericLiteral(Lexeme(s.text, t))
      o == IF n.overflow THEN Report(s, "NUMBER_OVERFLOW") ELSE s
  IN  Give(IF n.valid THEN o ELSE Report(o, "INVALID_NUMBER_SUFFIX"), n.node)

(* The characters of a string literal; a zero byte stays the word NUL.     *)
Unescaped(c) ==
  CASE c = "n" -> "\n" [] c = "t" -> "\t" [] c = "r" -> "\r" [] c = "0" -> NUL [] OTHER -> c

RECURSIVE Unescape(_, _)
Unescape(text, p) ==
  IF p > Len(text) THEN ""
  ELSE IF At(text, p) = "\\" /\ p < Len(text)
       THEN Unescaped(At(text, p + 1)) \o Unescape(text, p + 2)
       ELSE At(text, p) \o Unescape(text, p + 1)

StringValue(s, t) == Unescape(SubSeq(s.text, t.at + 1, t.at + t.len - 2), 1)
-----------------------------------------------------------------------------
(* What is parsed is one of the three things that hold each other; d is    *)
(* the depth of the recursion.                                             *)
RECURSIVE Parse(_, _, _, _)

ParseExpression(s, prec, d) == Parse("expression", s, prec, d)

ParseType(s, d) == Parse("type", s, NONE, d)

ParseStmtOrExpr(s, d) == Parse("statement", s, NONE, d)

ParseValue(s, d) == ParseExpression(s, NONE, d)

(* A turn of a loop over statements that leaves the parser where it was,   *)
(* in front of a token that Synchronize stops at, is taken for ever: the   *)
(* function does not return and the rest of the text is never looked at.   *)
OrHang(before, s) ==
  IF s.pos # before.pos \/ s.cur # before.cur THEN s
  ELSE [s EXCEPT !.stuck = TRUE, !.pos = Len(s.text) + 1,
                 !.cur = [type |-> "eof", at |-> Len(s.text) + 1, len |-> 0, code |-> "OK"]]

(* The end of a turn.                                                      *)
Resume(before, s) == OrHang(before, IF s.panic THEN Synchronize(s) ELSE s)

RECURSIVE ParseStmts(_, _, _)
ParseStmts(s, d, stmts) ==
  IF s.cur.type \in {"}", "eof"} THEN Give(s, stmts)
  ELSE LET stmt == ParseStmtOrExpr(s, d + 1)
           done == IF stmt.trailing /\ ~ Has(stmt, "}") THEN Report(stmt, "MISSING_SEMICOLON")
                   ELSE stmt
       IN  ParseStmts(Resume(s, done), d,
                      IF stmt.val = Null THEN stmts ELSE Append(stmts, stmt.val))

ParseBlock(s, d) ==
  LET stmts == ParseStmts(s, d, <<>>)
  IN  Give(Consume(stmts, "}", "UNEXPECTED_TOKEN"), Of("block", stmts.val))

(* The branches of an if as pairs of a condition and a body.               *)
RECURSIVE ParseBranches(_, _, _)
ParseBranches(s, d, branches) ==
  LET cond == ParseValue(s, d + 1)
      body == ParseValue(cond, d + 1)
      room == Len(branches) < MaxBranches
      all  == IF room THEN Append(branches, <<cond.val, body.val>>) ELSE branches
      next == IF room THEN body ELSE Report(body, "TOO_MANY_BRANCHES")
  IN  IF Has(next, "!#") THEN ParseBranches(Advance(next), d, all) ELSE Give(next, all)

ParseIf(s, d) ==
  LET branches == ParseBranches(s, d, <<>>)
      other    == IF Has(branches, "!") THEN ParseValue(Advance(branches), d + 1)
                  ELSE Give(branches, Null)
  IN  Give(other, FoldRight(LAMBDA b, acc : Of("if", <<b[1], b[2], acc>>), branches.val, other.val))

(* A break or a return and its operand, which it goes without in front of  *)
(* a token of ends.                                                        *)
ParseJump(s, d, kind, ends) ==
  LET value == IF s.cur.type \in ends THEN Give(s, Null) ELSE ParseValue(s, d + 1)
  IN  Give(value, Of(kind, <<value.val>>))

ParseLoop(s, d) ==
  LET cond == IF Has(s, "{") THEN Give(s, Null) ELSE ParseValue(s, d + 1)
      body == ParseValue(cond, d + 1)
  IN  Give(body, IF cond.val = Null THEN Of("loop", <<body.val>>)
                 ELSE Of("while", <<cond.val, body.val>>))

ParseUnary(s, op, d) ==
  LET operand == ParseExpression(s, UNARY, d + 1)
  IN  IF operand.val = Null THEN operand
      ELSE Give(operand, Tree("unary", op, {}, <<operand.val>>))

ParseIdentifier(s, t) == Give(s, Tree("ident", Lexeme(s.text, t), {}, <<>>))

(* Whatever the token is, it is taken first.                               *)
ParsePrefix(s, d) ==
  LET t == s.cur
      a == Advance(s)
      g == ParseValue(a, d + 1)
  IN  CASE t.type \in {"int", "float"} -> ParseNumber(a, t)
        [] t.type = "string"  -> Give(a, Tree("string", StringValue(a, t), {}, <<>>))
        [] t.type = "ident"   -> ParseIdentifier(a, t)
        [] t.type = "@^"      -> ParseJump(a, d, "break", {";", "}", ")", "]", ","})
        [] t.type = "@<"      -> Give(a, Of("continue", <<>>))
        [] t.type = "^"       -> ParseJump(a, d, "return", {";", "}"})
        [] t.type = "("       -> Give(Consume(g, ")", "UNEXPECTED_TOKEN"), g.val)
        [] t.type = "{"       -> ParseBlock(a, d)
        [] t.type = "#"       -> ParseIf(a, d)
        [] t.type = "@"       -> ParseLoop(a, d)
        [] t.type \in UnaryOps -> ParseUnary(a, t.type, d)
        [] OTHER              -> Give(Report(a, "EXPECTED_EXPRESSION"), Null)
-----------------------------------------------------------------------------
(* Mutant: a shift is taken for one angle.                                 *)
ConsumeShift(s, angle) ==
  IF s.cur.type \in {angle, angle \o angle} THEN Advance(s) ELSE Report(s, "UNEXPECTED_TOKEN")

(* An angle of a vector type; of a shift it takes the first half.          *)
ConsumeAngle(s, angle) ==
  LET half == [s.cur EXCEPT !.type = angle, !.len = 1]
  IN  CASE Has(s, angle)          -> Advance(s)
        [] Has(s, angle \o angle) -> [s EXCEPT !.prev = half, !.cur = [half EXCEPT !.at = @ + 1]]
        [] OTHER                  -> Report(s, "UNEXPECTED_TOKEN")

RECURSIVE ParseTypes(_, _, _)
ParseTypes(s, d, types) ==
  LET t   == ParseType(s, d)
      all == Append(types, t.val)
  IN  IF Len(types) >= MaxTypes THEN Give(Report(s, "TOO_MANY_PARAMETERS"), types)
      ELSE IF Has(t, ",") THEN ParseTypes(Advance(t), d, all)
      ELSE Give(t, all)

ParseArrayType(s, d) ==
  LET inner == ParseType(s, d + 1)
      size  == ParseValue(Consume(inner, ";", "UNEXPECTED_TOKEN"), d + 1)
  IN  Give(Consume(size, "]", "UNEXPECTED_TOKEN"), Of("array", <<inner.val, size.val>>))

ParseVectorType(s, d) ==
  LET inner == ParseType(ConsumeAngle(s, "<"), d + 1)
  IN  Give(ConsumeAngle(inner, ">"), Of("vector", <<inner.val>>))

(* A function type, the unit type or a tuple.                              *)
ParseParenType(s, d) ==
  LET types  == IF Has(s, ")") THEN Give(s, <<>>) ELSE ParseTypes(s, d + 1, <<>>)
      close  == Consume(types, ")", "UNEXPECTED_TOKEN")
      result == ParseType(Advance(close), d + 1)
  IN  IF Has(close, "->") THEN Give(result, Of("fn", Append(types.val, result.val)))
      ELSE Give(close, IF types.val = <<>> THEN Of("unit", <<>>) ELSE Of("tuple", types.val))

TypeRule(s, d) ==
  LET t == s.cur
      a == Advance(s)
  IN  IF d > MaxDepth THEN Give(Report(s, "RECURSION_LIMIT"), Null)
      ELSE CASE t.type \in TypeNames   -> Give(a, Tree("type", t.type, {}, <<>>))
             [] t.type = "ident"       -> Give(a, Tree("name", Lexeme(s.text, t), {}, <<>>))
             [] t.type = "["           -> ParseArrayType(a, d)
             [] t.type \in {"<", "<<"} -> ParseVectorType(s, d)
             [] t.type = "("           -> ParseParenType(a, d)
             [] OTHER                  -> Give(Report(s, "EXPECTED_TYPE"), Null)
-----------------------------------------------------------------------------
(* Mutant: ** groups to the left.                                          *)
ParseLeftBinary(s, left, op, d) ==
  LET right == ParseExpression(s, Precedence(op), d + 1)
  IN  IF right.val = Null THEN right
      ELSE Give(right, Tree("binary", op, {}, <<left, right.val>>))

(* What comes behind a left operand.                                       *)
ParseBinary(s, left, op, d) ==
  LET prec  == IF op = "**" THEN Precedence(op) - 1 ELSE Precedence(op)
      right == ParseExpression(s, prec, d + 1)
  IN  IF right.val = Null THEN right
      ELSE Give(right, Tree("binary", op, {}, <<left, right.val>>))

ParseCast(s, left, d) ==
  LET type == ParseType(s, d + 1)
  IN  Give(type, Of("cast", <<left, type.val>>))

ParseAssign(s, left, op, d) ==
  LET right == ParseExpression(s, ASSIGN - 1, d + 1)
  IN  Give(right, Tree("assign", op, {}, <<left, right.val>>))

(* A comma may follow the last argument.                                   *)
RECURSIVE ParseArgs(_, _, _)
ParseArgs(s, d, args) ==
  LET arg == ParseValue(s, d + 1)
      all == IF arg.val = Null THEN args ELSE Append(args, arg.val)
  IN  IF Has(s, ")") THEN Give(s, args)
      ELSE IF Has(arg, ",") THEN ParseArgs(Advance(arg), d, all)
      ELSE Give(arg, all)

ParseCall(s, left, d) ==
  LET args == ParseArgs(s, d, <<>>)
  IN  Give(Consume(args, ")", "UNEXPECTED_TOKEN"), Of("call", <<left>> \o args.val))

ParseDot(s, left) ==
  LET member == IF Has(s, "int") THEN ParseNumber(Advance(s), s.cur)
                ELSE ParseIdentifier(Advance(s), s.cur)
  IN  IF s.cur.type \in {"ident", "int"} THEN Give(member, Of("dot", <<left, member.val>>))
      ELSE Give(Report(s, "UNEXPECTED_TOKEN"), Null)

(* A bracket and an arrow bind like a call and have no rule: they are      *)
(* taken and the operand stays what it is.                                 *)
ParseInfix(s, left, d) ==
  LET op == s.cur.type
      a  == Advance(s)
  IN  CASE op \in BinaryOps -> ParseBinary(a, left, op, d)
        [] op \in AssignOps -> ParseAssign(a, left, op, d)
        [] op = "("         -> ParseCall(a, left, d)
        [] op = "."         -> ParseDot(a, left)
        [] op = "?:"        -> ParseCast(a, left, d)
        [] OTHER            -> Give(a, left)

RECURSIVE ParseTail(_, _, _)
ParseTail(s, prec, d) ==
  IF s.val = Null \/ prec >= Precedence(s.cur.type) \/ s.val.k \in BlockLike THEN s
  ELSE ParseTail(ParseInfix(s, s.val, d), prec, d)

(* Mutant: a token that begins no expression is reported and left there.   *)
PeekedRule(s, prec, d) ==
  IF d > MaxDepth THEN Give(Report(s, "RECURSION_LIMIT"), Null)
  ELSE IF s.cur.type \in {")", "]", "}", ",", ":"} THEN Give(Report(s, "EXPECTED_EXPRESSION"), Null)
  ELSE ParseTail(ParsePrefix(s, d), prec, d)

ExpressionRule(s, prec, d) ==
  IF d > MaxDepth THEN Give(Report(s, "RECURSION_LIMIT"), Null)
  ELSE ParseTail(ParsePrefix(s, d), prec, d)
-----------------------------------------------------------------------------
(* Declarations.  A parameter is a node of its type and its default value. *)
ParseParam(s, d) ==
  LET name  == Consume(s, "ident", "EXPECTED_IDENTIFIER")
      colon == Consume(Match(name, "!"), ":", "EXPECTED_TYPE")
      type  == ParseType(colon, d + 1)
      init  == IF Has(type, "=") THEN ParseValue(Advance(type), d + 1) ELSE Give(type, Null)
  IN  Settle(<<name, colon, type, init>>,
             Tree("param", Lexeme(s.text, s.cur), IF Has(name, "!") THEN {"mut"} ELSE {},
                  <<type.val, init.val>>))

RECURSIVE ParseParams(_, _, _)
ParseParams(s, d, params) ==
  LET param == ParseParam(s, d)
      all   == Append(params, param.val)
  IN  IF Has(s, ")") THEN IF s.panic THEN s ELSE Give(Advance(s), params)
      ELSE IF param.panic THEN param
      ELSE IF Has(param, ",") THEN ParseParams(Advance(param), d, all)
      ELSE Give(Consume(param, ")", "UNEXPECTED_TOKEN"), all)

ParseVarDecl(s, name, flags, d) ==
  LET mut  == Match(s, "!")
      type == IF Has(mut, ":") THEN ParseType(Advance(mut), d + 1)
              ELSE Give(mut, Of("infer", <<>>))
      eq   == Consume(type, "=", "UNEXPECTED_TOKEN")
      init == ParseValue(eq, d + 1)
      end  == Consume(init, ";", "MISSING_SEMICOLON")
      node == Tree("var", name, flags \union IF Has(s, "!") THEN {"mut"} ELSE {},
                   <<type.val, init.val>>)
  IN  Settle((IF Has(mut, ":") THEN <<type>> ELSE <<>>) \o <<eq, init, end>>, node)

ParseFnDecl(s, name, flags, d) ==
  LET params == ParseParams(s, d + 1, <<>>)
      result == IF Has(params, "->") THEN ParseType(Advance(params), d + 1)
                ELSE Give(params, Of("infer", <<>>))
      body   == ParseValue(result, d + 1)
  IN  Settle(<<params, result, body>>,
             Tree("function", name, flags, <<result.val, body.val>> \o params.val))

ParseNameDecl(s, flags, d) ==
  LET name == Consume(s, "ident", "EXPECTED_IDENTIFIER")
      word == Lexeme(s.text, s.cur)
  IN  IF name.panic THEN Give(name, Null)
      ELSE IF Has(name, "(") THEN ParseFnDecl(Advance(name), word, flags, d)
      ELSE ParseVarDecl(name, word, flags, d)

ParseImport(s, flags) ==
  LET path  == Consume(s, "string", "UNEXPECTED_TOKEN")
      arrow == Consume(path, "=>", "UNEXPECTED_TOKEN")
      alias == Consume(arrow, "ident", "EXPECTED_IDENTIFIER")
      end   == Consume(alias, ";", "MISSING_SEMICOLON")
  IN  Settle(<<path, arrow, alias, end>>,
             Tree("import", StringValue(s, s.cur), flags,
                  <<Tree("ident", Lexeme(s.text, arrow.cur), {}, <<>>)>>))

ParseExport(s) ==
  CASE Has(s, "$")  -> ParseNameDecl(Advance(s), {"export"}, 0)
    [] Has(s, "+>") -> ParseImport(Advance(s), {"export"})
    [] OTHER        -> Give(Report(s, "BAD_EXPORT"), Null)

(* An expression in front of a brace needs no semicolon; a block, an if or *)
(* a loop needs none anywhere.                                             *)
StatementRule(s, d) ==
  LET start == [s EXCEPT !.trailing = FALSE]
      decl  == ParseNameDecl(Advance(start), {}, d)
      expr  == ParseValue(start, d + 1)
      plain == [expr EXCEPT !.trailing = FALSE]
  IN  CASE Has(s, "$")                                  -> [decl EXCEPT !.trailing = FALSE]
        [] ~ Has(s, "$") /\ expr.val = Null             -> plain
        [] ~ Has(s, "$") /\ expr.val # Null ->
             IF Has(expr, ";")
             THEN Give(Advance(plain), IF expr.val.k \in {"return", "break", "continue"}
                                       THEN expr.val ELSE Of("discard", <<expr.val>>))
             ELSE IF Has(expr, "}") THEN [plain EXCEPT !.trailing = TRUE]
             ELSE IF expr.val.k \in BlockLike THEN plain
             ELSE Report(plain, "UNEXPECTED_TOKEN")

Parse(what, s, prec, d) ==
  CASE what = "expression" -> ExpressionRule(s, prec, d)
    [] what = "type"       -> TypeRule(s, d)
    [] what = "statement"  -> StatementRule(s, d)

ParseTopLevelStmtOrExpr(s) ==
  CASE Has(s, "+>") -> [ParseImport(Advance(s), {}) EXCEPT !.trailing = FALSE]
    [] Has(s, "<+") -> [ParseExport(Advance(s)) EXCEPT !.trailing = FALSE]
    [] OTHER        -> ParseStmtOrExpr(s, 0)

(* A turn of the loop of AcuParser_ParseModule; val is the node, if any.   *)
ParseTurn(s) ==
  LET stmt == ParseTopLevelStmtOrExpr(s)
      done == IF stmt.trailing THEN Report(stmt, "MISSING_SEMICOLON") ELSE stmt
  IN  Resume(s, done)
=============================================================================
