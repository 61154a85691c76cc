------------------------------ MODULE AcuTypes ------------------------------
(***************************************************************************)
(* The analyzer between the parser and the code generator: pass 2 makes    *)
(* symbols of the declarations of all modules, pass 3 gives every node a   *)
(* type.  A type is a resolved type tree: a primitive Tree("type", name),  *)
(* the unit type, NEVER, the type of modules, or a vector, an array, a     *)
(* tuple or a function of types.                                           *)
(*                                                                         *)
(* Every checking function takes the workspace and leaves it as a record   *)
(*   symbols   of every module: its names and their symbols                *)
(*   vars      of every global variable: new, checking or checked, its     *)
(*             type and its declaration                                    *)
(*   order     global_init_order                                           *)
(*   inits     the initialisers of the variables of order, with types      *)
(*   module    the scope: the module and, of the enclosing scopes of a     *)
(*   locals    function, the symbols that their names stand for            *)
(*   loops     loop_ctx: the loops that are being checked                  *)
(*   ret       expected_return_type                                        *)
(*   errors    the codes of the errors                                     *)
(*   lost      the checker was handed a node of a kind it does not know:   *)
(*             the behaviour is undefined from there on                    *)
(*   val       what the function returns: a node with its type t and the   *)
(*             symbol ref that it names, or a type                         *)
(***************************************************************************)
EXTENDS AcuSyntax, FiniteSets, SequencesExt

Prim(name) == Tree("type", name, {}, <<>>)

I1  == Prim("i1")
I64 == Prim("i64")
F64 == Prim("f64")
STR == Prim("str")

UNIT   == Of("unit", <<>>)
NEVER  == Of("never", <<>>)
MODULE_TYPE == Of("module", <<>>)

(* ACU_NULL_IDX as a type: there is none.                                  *)
NoType == Null

Bits ==
  [i8 |-> 8, i16 |-> 16, i32 |-> 32, i64 |-> 64, u8 |-> 8, u16 |-> 16, u32 |-> 32, u64 |-> 64]

Signed(t) == t.k = "type" /\ t.v \in {"i8", "i16", "i32", "i64"}

Unsigned(t) == t.k = "type" /\ t.v \in {"u8", "u16", "u32", "u64"}

IsInteger(t) == t.k = "type" /\ t.v \in DOMAIN Bits

IsFloat(t) == t.k = "type" /\ t.v \in {"f32", "f64"}

IsNumeric(t) == IsInteger(t) \/ IsFloat(t)

BitWidth(t) == Bits[t.v]

(* Mutant: signed and unsigned integers are not told apart.                *)
CanCoerceAcross(actual, expected) ==
  \/ actual \in {NEVER, expected}
  \/ /\ IsInteger(actual) /\ IsInteger(expected)
     /\ BitWidth(actual) <= BitWidth(expected)

CanCoerce(actual, expected) ==
  \/ actual \in {NEVER, expected}
  \/ /\ IsInteger(actual) /\ IsInteger(expected)
     /\ Signed(actual) = Signed(expected)
     /\ BitWidth(actual) <= BitWidth(expected)

(* AcuWorkspace_ResolveAstType; there are no named types, and every array  *)
(* has the length 1.                                                       *)
RECURSIVE Resolve(_)
Resolve(type) ==
  CASE type.k \in {"name", "infer"} -> UNIT
    [] type.k = "array" -> Of("array", <<Resolve(type.kids[1])>>)
    [] OTHER            -> [type EXCEPT !.kids = [i \in DOMAIN @ |-> Resolve(@[i])]]

(* The type that a declaration asks for.                                   *)
Declared(type) == IF type.k = "infer" THEN NoType ELSE Resolve(type)
-----------------------------------------------------------------------------
(* Symbols: flags are those of the declaration, target is a module or a    *)
(* global variable.                                                        *)
Symbol(kind, type, flags, target) ==
  [kind |-> kind, type |-> type, flags |-> flags, target |-> target]

NoSymbol == Symbol("none", NoType, {}, <<>>)

LookupExact(s, module, name) ==
  IF name \in DOMAIN s.symbols[module] THEN s.symbols[module][name] ELSE NoSymbol

Lookup(s, name) ==
  IF name \in DOMAIN s.locals THEN s.locals[name] ELSE LookupExact(s, s.module, name)

AddLocalVar(s, name, type, flags) ==
  [s EXCEPT !.locals = (name :> Symbol("local", type, flags, <<>>)) @@ @]

Report(s, code) == [s EXCEPT !.errors = Append(@, code)]

ReportIf(cond, s, code) == IF cond THEN Report(s, code) ELSE s

Give(s, val) == [s EXCEPT !.val = val]

(* n with its type, its checked children and the symbol it refers to.      *)
Note(n, type, kids, ref) ==
  [k |-> n.k, v |-> n.v, f |-> n.f, kids |-> kids, t |-> type, ref |-> ref]

Typed(s, n, type, kids) == Give(s, Note(n, type, kids, NoSymbol))
-----------------------------------------------------------------------------
ArithmeticOps == {"+", "-", "*", "**", "/", "%"}
BitwiseOps    == {"&", "|", "^", "<<", ">>"}
CompareOps    == {"<", "<=", ">", ">=", "==", "!="}
LogicOps      == {"&&", "||"}

UntypedOps == ArithmeticOps \union BitwiseOps

(* Mutant: an expression of untyped numbers counts as typed.               *)
IsUntypedLiteral(n) == n.k \in {"int", "float"} /\ n.f = {}

(* IsUntypedNumericExpr                                                    *)
RECURSIVE IsUntyped(_)
IsUntyped(n) ==
  \/ n.k \in {"int", "float"} /\ n.f = {}
  \/ n.k = "unary" /\ n.v # "!" /\ IsUntyped(n.kids[1])
  \/ n.k = "binary" /\ n.v \in UntypedOps /\ \A i \in 1 .. 2 : IsUntyped(n.kids[i])

IsValidOperand(op, type) ==
  CASE op \in ArithmeticOps -> IsNumeric(type)
    [] op \in BitwiseOps    -> IsInteger(type)
    [] op \in LogicOps      -> type = I1
    [] op \in CompareOps    -> IsNumeric(type) \/ (type = I1 /\ op \in {"==", "!="})

GetBinaryResultType(op, left, right) ==
  CASE op \in CompareOps \union LogicOps -> I1
    [] op \in {"<<", ">>"}               -> left
    [] OTHER                             -> IF left = right THEN left ELSE NoType

CheckLiteral(s, n, expected) ==
  LET type == CASE n.k = "string"                          -> STR
                [] n.k # "string" /\ n.f # {}              -> Prim(CHOOSE x \in n.f : TRUE)
                [] n.k = "int" /\ n.f = {}                 -> IF IsNumeric(expected) THEN expected ELSE I64
                [] n.k = "float" /\ n.f = {}               -> IF IsFloat(expected) THEN expected ELSE F64
  IN  Typed(s, n, type, <<>>)

RECURSIVE Check(_, _, _, _)

(* Mutant: a variable is given its place before its initialiser is looked  *)
(* at.                                                                     *)
EnsureGlobalVarAppended(s, g) ==
  LET var   == s.vars[g]
      want  == Declared(var.decl.kids[1])
      start == [s EXCEPT !.vars[g].state = "checking", !.module = g[1], !.locals = <<>>,
                         !.order = Append(@, g)]
      init  == Check(start, var.decl.kids[2], want, FALSE)
      type  == IF want # NoType THEN want ELSE init.val.t
  IN  IF var.state = "new"
      THEN [init EXCEPT !.vars[g].state = "checked", !.vars[g].type = type, !.val = type,
                        !.inits = (Len(start.order) :> init.val) @@ @, !.module = s.module, !.locals = s.locals]
      ELSE Give(s, var.type)

(* A global variable is checked when it is first mentioned.  The loops     *)
(* around the mention stay the current ones.                               *)
EnsureGlobalVarChecked(s, g) ==
  LET var   == s.vars[g]
      want  == Declared(var.decl.kids[1])
      start == [s EXCEPT !.vars[g].state = "checking", !.module = g[1], !.locals = <<>>]
      init  == Check(start, var.decl.kids[2], want, FALSE)
      done  == ReportIf(init.val.t = NEVER, init, "NEVER_AT_TOP_LEVEL")
      type  == IF want # NoType THEN want ELSE init.val.t
      final == IF type = NoType THEN UNIT ELSE type
  IN  CASE var.state = "checked"  -> Give(s, var.type)
        [] var.state = "checking" ->
             Give(Report(s, "CYCLIC_DEPENDENCY"), IF var.type = NoType THEN UNIT ELSE var.type)
        [] var.state = "new"      ->
             [ReportIf(type = NoType, done, "CANNOT_INFER_TYPE") EXCEPT
                !.vars[g].state = "checked", !.vars[g].type = final, !.val = final,
                !.order = Append(@, g), !.inits = Append(@, init.val),
                !.module = s.module, !.locals = s.locals]

CheckIdentifier(s, n) ==
  LET symbol == Lookup(s, n.v)
      global == EnsureGlobalVarChecked(s, symbol.target)
  IN  CASE symbol.kind = "none"   -> Typed(Report(s, "UNDECLARED_IDENTIFIER"), n, UNIT, <<>>)
        [] symbol.kind = "global" -> Give(global, Note(n, global.val, <<>>, symbol))
        [] OTHER                  -> Give(s, Note(n, symbol.type, <<>>, symbol))

(* The right operand is checked first when the left one is made of         *)
(* numbers without a suffix only.                                          *)
CheckBinary(s, n, expected) ==
  LET op     == n.v
      want   == CASE op \in UntypedOps -> IF expected = UNIT THEN NoType ELSE expected
                  [] op \in LogicOps   -> I1
                  [] op \in CompareOps -> NoType
      first  == IF IsUntyped(n.kids[1]) /\ ~ IsUntyped(n.kids[2]) THEN 2 ELSE 1
      a      == Check(s, n.kids[first], want, TRUE)
      other  == CASE op \in LogicOps                       -> I1
                  [] op \notin LogicOps /\ first = 2 /\ want # NoType -> want
                  [] OTHER                                 -> a.val.t
      b      == Check(a, n.kids[3 - first], other, TRUE)
      kids   == IF first = 1 THEN <<a.val, b.val>> ELSE <<b.val, a.val>>
      left   == kids[1].t
      right  == kids[2].t
      broken == IF op \in CompareOps \union LogicOps THEN I1 ELSE left
      result == GetBinaryResultType(op, left, right)
  IN  CASE NEVER \in {left, right}  -> Typed(b, n, NEVER, kids)
        [] NEVER \notin {left, right} /\ NoType \in {left, right} ->
             Typed(b, n, IF op \in UntypedOps THEN NoType ELSE I1, kids)
        [] {NEVER, NoType} \cap {left, right} = {} ->
             IF ~ IsValidOperand(op, left)
             THEN Typed(Report(b, "UNSUPPORTED_OPERATION"), n, broken, kids)
             ELSE IF result = NoType THEN Typed(Report(b, "TYPE_MISMATCH"), n, broken, kids)
             ELSE Typed(b, n, result, kids)

CheckUnary(s, n, expected) ==
  LET want    == IF n.v = "!" THEN I1 ELSE IF expected = UNIT THEN NoType ELSE expected
      operand == Check(s, n.kids[1], want, TRUE)
      type    == operand.val.t
      valid   == CASE n.v = "!" -> type = I1
                   [] n.v = "~" -> IsInteger(type)
                   [] OTHER     -> IsNumeric(type)
      failed  == type \notin {NEVER, NoType} /\ ~ valid
      result  == IF n.v = "!" /\ type # NEVER THEN I1 ELSE type
  IN  Typed(ReportIf(failed, operand, "UNSUPPORTED_OPERATION"), n, result, <<operand.val>>)
-----------------------------------------------------------------------------
Loose(type) == type \notin {UNIT, NEVER, NoType}

(* The statements of a block in a scope of their own; what the last one    *)
(* delivers is what the block delivers.                                    *)
CheckBlock(s, n, expected) ==
  LET last == Len(n.kids)
      step(acc, i) ==
        LET stmt  == Check(acc, n.kids[i], IF i = last THEN expected ELSE NoType, FALSE)
            stray == i # last /\ Loose(stmt.val.t)
        IN  Give(ReportIf(stray, stmt, "EXPECTED_UNIT"), Append(acc.val, stmt.val))
      done == FoldLeft(step, Give(s, <<>>), [i \in 1 .. last |-> i])
      type == CASE \E i \in 1 .. last : done.val[i].t = NEVER -> NEVER
                [] last = 0                                   -> UNIT
                [] OTHER                                      -> done.val[last].t
  IN  Typed([done EXCEPT !.locals = s.locals], n, type, done.val)

CheckCondition(s, n) ==
  LET cond == Check(s, n, I1, TRUE)
      bad  == cond.val.t # NoType /\ ~ CanCoerce(cond.val.t, I1)
  IN  ReportIf(bad, cond, "CONDITION_NOT_BOOL")

(* What an if with an else delivers, of the types of its branches; NoType  *)
(* when they do not fit together.                                          *)
Join(then, else) ==
  CASE then = NEVER -> else
    [] else = NEVER -> then
    [] OTHER        -> IF CanCoerce(else, then) THEN then
                       ELSE IF CanCoerce(then, else) THEN else ELSE NoType

CheckIf(s, n, expected) ==
  LET cond   == CheckCondition(s, n.kids[1])
      hint   == IF expected = UNIT THEN NoType ELSE expected
      full   == n.kids[3] # Null
      then   == Check(cond, n.kids[2], IF full THEN hint ELSE NoType, TRUE)
      t      == then.val.t
      want   == IF hint = NoType /\ t \notin {NEVER, UNIT} THEN t ELSE hint
      other  == Check(then, n.kids[3], IF full THEN want ELSE NoType, TRUE)
      e      == other.val.t
      kids   == <<cond.val, then.val, other.val>>
      never  == cond.val.t = NEVER
      vague  == NoType \in {t, e} /\ NEVER \notin {t, e}
      known  == CASE hint # NoType -> hint [] hint = NoType /\ t # NoType -> t [] OTHER -> e
      joined == Join(t, e)
      failed == full /\ ~ never /\ ~ vague /\ NEVER \notin {t, e} /\ joined = NoType
      result == CASE never             -> NEVER
                  [] ~ never /\ ~ full -> UNIT
                  [] ~ never /\ full   ->
                       IF vague THEN known
                       ELSE IF failed THEN (IF expected = NoType THEN t ELSE expected)
                       ELSE joined
      stray  == ~ full /\ ~ never /\ Loose(t)
  IN  Typed(ReportIf(failed, ReportIf(stray, other, "IF_WITHOUT_ELSE_NOT_UNIT"),
                     "BRANCH_TYPE_MISMATCH"), n, result, kids)

(* Mutant: a loop with a condition is taken for one without.               *)
PopLoopAlike(ctx) ==
  IF ~ ctx.has_break THEN NEVER ELSE IF ctx.expected = NoType THEN UNIT ELSE ctx.expected

(* PopLoopContext: what the loop delivers.                                 *)
PopLoop(ctx) ==
  CASE ctx.kind = "while"                     -> UNIT
    [] ctx.kind = "loop" /\ ~ ctx.has_break   -> NEVER
    [] ctx.kind = "loop" /\ ctx.has_break     -> IF ctx.expected = NoType THEN UNIT ELSE ctx.expected

CheckBody(s, body, kind, expected) ==
  LET loop  == [kind |-> kind, expected |-> expected, has_break |-> FALSE]
      inner == Check([s EXCEPT !.loops = Append(@, loop)], body, NoType, FALSE)
  IN  ReportIf(Loose(inner.val.t), inner, "EXPECTED_UNIT")

CheckLoop(s, n, expected) ==
  LET body == CheckBody(s, n.kids[1], "loop", expected)
  IN  Typed([body EXCEPT !.loops = Front(@)], n, PopLoop(Last(body.loops)), <<body.val>>)

CheckWhile(s, n) ==
  LET cond == CheckCondition(s, n.kids[1])
      body == CheckBody(cond, n.kids[2], "while", NoType)
      pop  == PopLoop(Last(body.loops))
  IN  Typed([body EXCEPT !.loops = Front(@)], n, IF cond.val.t = NEVER THEN NEVER ELSE pop,
            <<cond.val, body.val>>)

(* What the loop expects after a break with a value of a type.             *)
BreakWith(s, at, type) ==
  LET loop == s.loops[at]
      fits == CanCoerce(type, loop.expected)
  IN  CASE type \in {NEVER, NoType}          -> s
        [] type \notin {NEVER, NoType} /\ loop.expected \in {NEVER, NoType} ->
             [s EXCEPT !.loops[at].expected = type]
        [] OTHER -> IF fits THEN s
                    ELSE IF CanCoerce(loop.expected, type) THEN [s EXCEPT !.loops[at].expected = type]
                    ELSE Report(s, "BREAK_TYPE_MISMATCH")

CheckBreak(s, n) ==
  LET at     == Len(s.loops)
      inside == at > 0
      start  == IF inside THEN [s EXCEPT !.loops[at].has_break = TRUE]
                ELSE Report(s, "BREAK_OUTSIDE_LOOP")
      value  == Check(start, n.kids[1], IF inside THEN s.loops[at].expected ELSE NoType, inside)
      while  == inside /\ s.loops[at].kind = "while"
      extra  == while /\ n.kids[1] # Null /\ value.val.t # NoType
      done   == CASE ~ inside           -> value
                  [] inside /\ while    -> ReportIf(extra, value, "BREAK_WITH_VALUE_IN_WHILE")
                  [] inside /\ ~ while  -> BreakWith(value, at, value.val.t)
  IN  Typed(done, n, NEVER, <<value.val>>)

CheckContinue(s, n) == Typed(ReportIf(s.loops = <<>>, s, "CONTINUE_OUTSIDE_LOOP"), n, NEVER, <<>>)

CheckReturn(s, n) ==
  LET start   == ReportIf(s.ret = NoType, s, "RETURN_OUTSIDE_FUNCTION")
      value   == Check(start, n.kids[1], IF n.kids[1] = Null THEN NoType ELSE s.ret, FALSE)
      missing == s.ret \notin {NoType, UNIT} /\ n.kids[1] = Null
  IN  Typed(ReportIf(missing, value, "RETURN_MISSING_VALUE"), n, NEVER, <<value.val>>)
-----------------------------------------------------------------------------
IsValidCast(actual, target) ==
  \/ actual = target
  \/ actual = I1 /\ IsInteger(target)
  \/ IsNumeric(actual) /\ IsNumeric(target)

CheckTypeCast(s, n) ==
  LET target == Resolve(n.kids[2])
      inner  == Check(s, n.kids[1], target, TRUE)
      type   == inner.val.t
      failed == type \notin {NEVER, NoType} /\ ~ IsValidCast(type, target)
  IN  Typed(ReportIf(failed, inner, "INVALID_TYPE_CAST"), n, IF type = NEVER THEN NEVER ELSE target,
            <<inner.val, n.kids[2]>>)

(* The module that an expression names, or none.                           *)
RECURSIVE GetModuleFromExpr(_, _)
GetModuleFromExpr(s, n) ==
  LET parent == GetModuleFromExpr(s, n.kids[1])
      symbol == CASE n.k = "ident"   -> Lookup(s, n.v)
                  [] n.k = "dot"     -> IF parent = <<>> \/ n.kids[2].k # "ident" THEN NoSymbol
                                        ELSE LookupExact(s, parent[1], n.kids[2].v)
                  [] OTHER           -> NoSymbol
  IN  IF symbol.kind = "module" THEN symbol.target ELSE <<>>

CheckDot(s, n) ==
  LET object == Check(s, n.kids[1], NoType, FALSE)
      type   == object.val.t
      member == n.kids[2]
      result(r, t, symbol) ==
        Give(r, Note(n, t, <<object.val, Note(member, t, <<>>, symbol)>>, symbol))
      module == GetModuleFromExpr(object, n.kids[1])
      symbol == LookupExact(object, module[1], member.v)
      seen   == ReportIf("export" \notin symbol.flags, object, "PRIVATE_MEMBER_ACCESS")
      global == EnsureGlobalVarChecked(seen, symbol.target)
      fail(code) == result(Report(object, code), NoType, NoSymbol)
  IN  CASE type \in {NEVER, NoType}     -> result(object, type, NoSymbol)
        [] type \notin {NEVER, NoType, MODULE_TYPE} -> fail("TYPE_DOES_NOT_SUPPORT_MEMBER_ACCESS")
        [] type = MODULE_TYPE           ->
             IF module = <<>> THEN fail("EXPECTED_MODULE_BEFORE_DOT")
             ELSE IF member.k # "ident" THEN fail("EXPECTED_IDENTIFIER_AFTER_DOT")
             ELSE IF symbol = NoSymbol THEN fail("MODULE_MEMBER_NOT_FOUND")
             ELSE IF symbol.kind = "global" THEN result(global, global.val, symbol)
             ELSE result(seen, symbol.type, symbol)

(* Of a checked target: whether it may be assigned to.                     *)
RECURSIVE GetLValueStatus(_)
GetLValueStatus(n) ==
  LET symbol == IF n.k = "ident" THEN n.ref ELSE n.kids[2].ref
      may    == IF n.k = "ident" THEN {"local", "global"} ELSE {"global"}
  IN  CASE n.k \notin {"ident", "dot"}                     -> "INVALID_LVALUE"
        [] n.k = "dot" /\ n.kids[1].t # MODULE_TYPE        -> GetLValueStatus(n.kids[1])
        [] OTHER -> IF symbol = NoSymbol THEN "OK"
                    ELSE IF symbol.kind \notin may THEN "INVALID_LVALUE"
                    ELSE IF "mut" \in symbol.flags THEN "OK" ELSE "ASSIGN_TO_IMMUTABLE"

(* The operation of a compound assignment.                                 *)
BinaryOf(assign) == SubSeq(assign, 1, Len(assign) - 1)

CheckAssign(s, n) ==
  LET target == Check(s, n.kids[1], NoType, FALSE)
      t      == target.val.t
      status == IF t = NoType THEN "OK" ELSE GetLValueStatus(target.val)
      marked == ReportIf(status # "OK", target, status)
      plain  == n.v = "=" \/ t = NoType
      op     == BinaryOf(n.v)
      start  == ReportIf(~ plain /\ ~ IsValidOperand(op, t), marked, "UNSUPPORTED_OPERATION")
      value  == Check(start, n.kids[2], t, FALSE)
      v      == value.val.t
      result == GetBinaryResultType(op, t, v)
      failed == ~ plain /\ v \notin {NEVER, NoType} /\ (result = NoType \/ ~ CanCoerce(result, t))
  IN  Typed(ReportIf(failed, value, "TYPE_MISMATCH"), n, IF v = NEVER THEN NEVER ELSE UNIT,
            <<target.val, value.val>>)

CheckCall(s, n) ==
  LET callee  == Check(s, n.kids[1], NoType, FALSE)
      type    == callee.val.t
      is_func == type.k = "fn"
      count   == Len(n.kids) - 1
      matches == is_func /\ count = Len(type.kids) - 1
      start   == ReportIf(is_func /\ ~ matches,
                          ReportIf(~ is_func /\ type \notin {NEVER, NoType}, callee, "CALL_NON_FUNCTION"),
                          "WRONG_ARGUMENT_COUNT")
      step(acc, i) ==
        LET want == IF matches THEN type.kids[i] ELSE NoType
            arg  == Check(acc, n.kids[i + 1], want, TRUE)
            bad  == matches /\ arg.val.t # NoType /\ ~ CanCoerce(arg.val.t, want)
        IN  Give(ReportIf(bad, arg, "TYPE_MISMATCH"), Append(acc.val, arg.val))
      done    == FoldLeft(step, Give(start, <<callee.val>>), [i \in 1 .. count |-> i])
      result  == CASE \E i \in DOMAIN done.val : done.val[i].t = NEVER -> NEVER
                   [] is_func                                        -> Last(type.kids)
                   [] OTHER -> IF type = NoType THEN NoType ELSE UNIT
      known   == matches /\ callee.val.ref.kind \in {"function", "system"}
  IN  Give(done, Note(n, result, done.val, IF known THEN callee.val.ref ELSE NoSymbol))

CheckVarDecl(s, n) ==
  LET want  == Declared(n.kids[1])
      init  == Check(s, n.kids[2], want, FALSE)
      type  == IF want # NoType THEN want ELSE init.val.t
      final == IF type = NoType THEN UNIT ELSE type
  IN  Typed(AddLocalVar(init, n.v, final, n.f \cap {"mut"}), n,
            IF init.val.t = NEVER THEN NEVER ELSE UNIT, <<n.kids[1], init.val>>)

CheckDiscard(s, n) ==
  LET inner == Check(s, n.kids[1], NoType, FALSE)
  IN  Typed(inner, n, IF inner.val.t = NEVER THEN NEVER ELSE UNIT, <<inner.val>>)
-----------------------------------------------------------------------------
(* The switch of AcuWorkspace_CheckExpr.                                   *)
Rule(s, n, expected) ==
  CASE n.k \in {"int", "float", "string"} -> CheckLiteral(s, n, expected)
    [] n.k = "ident"    -> CheckIdentifier(s, n)
    [] n.k = "binary"   -> CheckBinary(s, n, expected)
    [] n.k = "unary"    -> CheckUnary(s, n, expected)
    [] n.k = "assign"   -> CheckAssign(s, n)
    [] n.k = "block"    -> CheckBlock(s, n, expected)
    [] n.k = "if"       -> CheckIf(s, n, expected)
    [] n.k = "call"     -> CheckCall(s, n)
    [] n.k = "var"      -> CheckVarDecl(s, n)
    [] n.k = "discard"  -> CheckDiscard(s, n)
    [] n.k = "dot"      -> CheckDot(s, n)
    [] n.k = "loop"     -> CheckLoop(s, n, expected)
    [] n.k = "while"    -> CheckWhile(s, n)
    [] n.k = "break"    -> CheckBreak(s, n)
    [] n.k = "continue" -> CheckContinue(s, n)
    [] n.k = "return"   -> CheckReturn(s, n)
    [] n.k = "cast"     -> CheckTypeCast(s, n)
    [] OTHER            -> Typed([s EXCEPT !.lost = TRUE], n, UNIT, <<>>)

(* AcuWorkspace_CheckExpr: what is expected is the type of the node unless *)
(* the node is of another type, which is an error unless it is only a      *)
(* hint.                                                                   *)
Check(s, n, expected, is_hint) ==
  LET r    == Rule(s, n, expected)
      fits == CanCoerce(r.val.t, expected)
  IN  CASE n = Null                          -> Typed(s, Null, UNIT, <<>>)
        [] n # Null /\ expected = NoType     -> r
        [] n # Null /\ expected # NoType     ->
             IF ~ fits /\ is_hint THEN r
             ELSE IF ~ fits THEN [Report(r, "TYPE_MISMATCH") EXCEPT !.val.t = expected]
             ELSE IF r.val.t = NEVER THEN r
             ELSE [r EXCEPT !.val.t = expected]
=============================================================================
