---------------------------- MODULE AcuTypeRules ----------------------------
(***************************************************************************)
(* The type system, said without a checker: when the types on the nodes of *)
(* a program say the truth about the values that the nodes deliver, and    *)
(* which nodes deliver nothing.  A value may stand where a wider integer   *)
(* is expected, because it stays the same value there.                     *)
(*                                                                         *)
(* An environment is a record                                              *)
(*   symbols  the symbols of the modules                                   *)
(*   types    the types of the global variables                            *)
(*   module   the module of the node                                       *)
(*   locals   the symbols of the parameters and variables in scope         *)
(*   loop     "loop" or "while", of the innermost loop around the node, or *)
(*            "none"                                                       *)
(*   value    of a loop: what its breaks deliver                           *)
(*   ret      what the function returns, or NoType outside functions       *)
(***************************************************************************)
EXTENDS AcuTypes

(* The values of an integer type lie between two powers of two.            *)
Least(t) == IF Signed(t) THEN -(BitWidth(t) - 1) ELSE 0

Most(t) == IF Signed(t) THEN BitWidth(t) - 1 ELSE BitWidth(t)

Widens(a, b) ==
  \/ a \in {NEVER, b}
  \/ IsInteger(a) /\ IsInteger(b) /\ Least(b) <= Least(a) /\ Most(a) <= Most(b)

(* n delivers values of a type, if it delivers any.                        *)
Delivered(n, type) == n.t = NEVER \/ Widens(type, n.t)

Quiet(n) == n.t \in {UNIT, NEVER}

(* Two values of these types can be compared as they are, as values of the *)
(* type of the left one.                                                   *)
Comparable(op, a, b) ==
  \/ Signed(a) /\ Signed(b)
  \/ IsInteger(a) /\ Widens(b, a)
  \/ Unsigned(a) /\ Unsigned(b)
  \/ IsFloat(a) /\ a = b
  \/ a = I1 /\ b = I1 /\ op \in {"==", "!="}

Operands(op, a, b) ==
  CASE op \in ArithmeticOps    -> a = b /\ IsNumeric(a)
    [] op \in {"&", "|", "^"}  -> a = b /\ IsInteger(a)
    [] op \in {"<<", ">>"}     -> IsInteger(a) /\ IsInteger(b)
    [] op \in CompareOps       -> Comparable(op, a, b)
    [] op \in LogicOps         -> a = I1 /\ b = I1

(* The exception: of a comparison, a shift or a logical operator nobody    *)
(* looks at the right operand once the left one fits.  Only a number       *)
(* without a suffix takes the type of the left one                         *)
(* (AcuWorkspace_CheckBinary).                                             *)
RightUnchecked(op, a, right) ==
  /\ op \in CompareOps \union LogicOps \union {"<<", ">>"}
  /\ Operands(op, a, a)
  /\ right.k = "int" /\ right.f = {} => ~ IsNumeric(a)

Convertible(a, b) ==
  \/ Widens(a, b)
  \/ (IsNumeric(a) \/ a = I1) /\ IsNumeric(b) /\ (a = I1 => IsInteger(b))

ResultOf(op, a) == IF op \in CompareOps \union LogicOps THEN I1 ELSE a

(* The symbol that a name or a path of modules stands for.                 *)
RECURSIVE Named(_, _)
Named(n, env) ==
  LET names  == env.symbols[env.module]
      object == Named(n.kids[1], env)
      others == env.symbols[object.target[1]]
  IN  CASE n.k = "ident" /\ n.v \in DOMAIN env.locals -> env.locals[n.v]
        [] n.k = "ident" /\ n.v \in DOMAIN names \ DOMAIN env.locals -> names[n.v]
        [] n.k = "dot" /\ object.kind = "module" /\ n.kids[2].k = "ident"
             /\ n.kids[2].v \in DOMAIN others /\ "export" \in others[n.kids[2].v].flags ->
             others[n.kids[2].v]
        [] OTHER -> NoSymbol

TypeOf(symbol, env) == IF symbol.kind = "global" THEN env.types[symbol.target] ELSE symbol.type

(* The children that are expressions: not a type, nor the name of a member. *)
Parts(n) ==
  CASE n.k = "var"            -> {2}
    [] n.k \in {"cast", "dot"} -> {1}
    [] OTHER                  -> DOMAIN n.kids

(* The breaks that leave the body of a loop; one in the condition of a     *)
(* while leaves the loop around it.                                        *)
RECURSIVE Leaving(_)
Leaving(n) ==
  LET parts == CASE n.k = "loop" -> {} [] n.k = "while" -> {1} [] OTHER -> Parts(n)
      inner == UNION {Leaving(n.kids[i]) : i \in parts}
  IN  IF n.k = "break" THEN inner \union {n} ELSE inner

(* In the scope of a variable declaration.                                 *)
Extended(env, n) ==
  LET want == Declared(n.kids[1])
      type == IF want = NoType THEN n.kids[2].t ELSE want
  IN  [env EXCEPT !.locals = (n.v :> Symbol("local", type, n.f \cap {"mut"}, <<>>)) @@ @]

ScopeAt(n, i, env) ==
  FoldLeft(LAMBDA acc, j : IF n.kids[j].k = "var" THEN Extended(acc, n.kids[j]) ELSE acc, env,
           [j \in 1 .. i - 1 |-> j])

RECURSIVE WellTyped(_, _)
WellTyped(n, env) ==
  LET kid(i)  == n.kids[i]
      of(i)   == n.kids[i].t
      all     == \A i \in Parts(n) : WellTyped(n.kids[i], env)
      stopped == \E i \in Parts(n) : of(i) = NEVER
      symbol  == Named(n, env)
      target  == Named(n.kids[1], env)
      params  == of(1).kids
      size    == Len(n.kids)
  IN
  CASE n.k = "null"   -> TRUE
    [] n.k = "int"    -> IF n.f = {} THEN IsNumeric(n.t) ELSE \E x \in n.f : Widens(Prim(x), n.t)
    [] n.k = "float"  -> IF n.f = {} THEN IsFloat(n.t) ELSE \E x \in n.f : n.t = Prim(x)
    [] n.k = "string" -> n.t = STR
    [] n.k = "ident"  -> symbol # NoSymbol /\ Delivered(n, TypeOf(symbol, env))
    [] n.k = "dot"    -> /\ all
                         /\ stopped \/ (symbol # NoSymbol /\ Delivered(n, TypeOf(symbol, env)))
    [] n.k = "binary" ->
         /\ all
         /\ \/ stopped
            \/ /\ Operands(n.v, of(1), of(2)) \/ RightUnchecked(n.v, of(1), kid(2))
               /\ Delivered(n, ResultOf(n.v, of(1)))
    [] n.k = "unary"  -> /\ all /\ Delivered(n, of(1))
                         /\ CASE n.v = "!" -> of(1) \in {NEVER, I1}
                              [] n.v = "~" -> of(1) = NEVER \/ IsInteger(of(1))
                              [] OTHER     -> of(1) = NEVER \/ IsNumeric(of(1))
    [] n.k = "cast"   -> /\ all /\ Delivered(n, Resolve(kid(2)))
                         /\ stopped \/ Convertible(of(1), Resolve(kid(2)))
    [] n.k = "assign" -> /\ all
                         /\ target.kind \in {"local", "global"} /\ "mut" \in target.flags
                         /\ Widens(of(2), TypeOf(target, env))
                         /\ \/ n.v = "="
                            \/ Operands(BinaryOf(n.v), TypeOf(target, env), TypeOf(target, env))
                         /\ Delivered(n, UNIT)
    [] n.k = "block"  ->
         /\ \A i \in 1 .. size :
              /\ WellTyped(kid(i), ScopeAt(n, i, env))
              /\ i = size \/ Quiet(kid(i))
         /\ Delivered(n, IF size = 0 THEN UNIT ELSE of(size))
    [] n.k = "if"     -> /\ all /\ of(1) \in {I1, NEVER}
                         /\ IF kid(3).k = "null" THEN Quiet(kid(2)) /\ Delivered(n, UNIT)
                            ELSE Delivered(n, of(2)) /\ Delivered(n, of(3))
    [] n.k = "loop"   -> /\ Quiet(kid(1))
                         /\ WellTyped(kid(1), [env EXCEPT !.loop = "loop", !.value = n.t])
                         /\ n.t = NEVER => Leaving(kid(1)) = {}
    [] n.k = "while"  -> /\ of(1) \in {I1, NEVER} /\ WellTyped(kid(1), env)
                         /\ Quiet(kid(2))
                         /\ WellTyped(kid(2), [env EXCEPT !.loop = "while", !.value = UNIT])
                         /\ Delivered(n, UNIT)
    [] n.k = "break"  -> /\ all /\ n.t = NEVER /\ env.loop # "none"
                         /\ env.loop = "while" => kid(1).k = "null"
                         /\ Widens(of(1), env.value)
    [] n.k = "continue" -> n.t = NEVER /\ env.loop # "none"
    [] n.k = "return"   -> all /\ n.t = NEVER /\ env.ret # NoType /\ Widens(of(1), env.ret)
    [] n.k = "call"     ->
         /\ all
         /\ \/ stopped
            \/ /\ of(1).k = "fn" /\ Len(params) = size
               /\ \A i \in 2 .. size : Widens(of(i), params[i - 1])
               /\ Delivered(n, Last(params))
    [] n.k = "var"      -> /\ all /\ Delivered(n, UNIT)
                           /\ Declared(kid(1)) = NoType \/ Widens(of(2), Declared(kid(1)))
    [] n.k = "discard"  -> all /\ Delivered(n, UNIT)
    [] OTHER            -> FALSE
-----------------------------------------------------------------------------
(* How a node can end: with a value, or by leaving what is around it.      *)
RECURSIVE Ends(_)

(* Nodes one after the other.                                              *)
EndsOfAll(ns) ==
  FoldLeft(LAMBDA acc, n : IF "value" \in acc THEN (acc \ {"value"}) \union Ends(n) ELSE acc,
           {"value"}, ns)

(* What follows a node, if it delivers a value.                            *)
After(ends, more) == IF "value" \in ends THEN (ends \ {"value"}) \union more ELSE ends

Ends(n) ==
  LET parts == SetToSortSeq(Parts(n), <)
      all   == EndsOfAll([i \in DOMAIN parts |-> n.kids[parts[i]]])
      first == Ends(n.kids[1])
      body  == Ends(Last(n.kids))
      again == body \ {"value", "break", "continue"}
  IN  CASE n.k \in {"break", "continue", "return"} -> After(all, {n.k})
        [] n.k = "binary" /\ n.v \in LogicOps -> After(first, {"value"} \union body)
        [] n.k = "if"    -> After(first, Ends(n.kids[2]) \union body)
        [] n.k = "loop"  -> again \union IF "break" \in body THEN {"value"} ELSE {}
        [] n.k = "while" -> After(first, {"value"} \union again)
        [] OTHER         -> all

(* A node of type NEVER, and any in it, delivers nothing.                  *)
RECURSIVE NeverIsTrue(_)
NeverIsTrue(n) ==
  /\ n.t = NEVER => "value" \notin Ends(n)
  /\ \A i \in Parts(n) : NeverIsTrue(n.kids[i])

(* The global variables that a tree names.                                 *)
RECURSIVE Mentions(_)
Mentions(n) ==
  (IF n.ref.kind = "global" THEN {n.ref.target} ELSE {}) \union
  UNION {Mentions(n.kids[i]) : i \in Parts(n)}
=============================================================================
