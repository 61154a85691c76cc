----------------------------- MODULE AcuTypePass ----------------------------
(***************************************************************************)
(* Passes 2 and 3 on whole programs: the symbols of all modules are bound, *)
(* statement by statement, then the statements of all modules are checked, *)
(* then the bodies of their functions; and what a program that the         *)
(* analyzer accepts is like.                                               *)
(*                                                                         *)
(* A program is a sequence of modules [name, stmts, system]: the name its  *)
(* imports use, its statements and, of a builtin module, the types of its  *)
(* functions.  The first pass found every module that is imported.         *)
(***************************************************************************)
EXTENDS AcuTypeRules

CONSTANTS
  Programs,     (* the programs that are checked: a sequence of families   *)
  Steps,        (* of every family, what checking a statement or a         *)
                (* function of a program makes of a workspace              *)
  Correct       (* the programs that are correct by construction: families *)

VARIABLES
  program,
  ws,           (* the workspace, see AcuTypes                             *)
  todo,         (* the statements that the loop has in front of it: each   *)
                (* a module and a place in it                              *)
  trees,        (* the statements and functions checked so far             *)
  mode          (* "binding", "statements", "functions"; "accepted" or     *)
                (* "rejected" in the end                                   *)

vars == <<program, ws, todo, trees, mode>>
-----------------------------------------------------------------------------
Bind(s, m, name, symbol) ==
  IF name \in DOMAIN s.symbols[m] THEN Report(s, "REDEFINITION_OF_SYMBOL")
  ELSE [s EXCEPT !.symbols[m] = (name :> symbol) @@ @]

ParamsOf(fn) == SubSeq(fn.kids, 3, Len(fn.kids))

FunctionType(fn) ==
  Of("fn", [i \in DOMAIN ParamsOf(fn) |-> Resolve(ParamsOf(fn)[i].kids[1])] \o <<Resolve(fn.kids[1])>>)

(* The symbol of a declaration in module m, and its variable.              *)
BindVar(s, m, n) ==
  LET type  == Declared(n.kids[1])
      bound == Bind(s, m, n.v, Symbol("global", type, n.f, <<m, n.v>>))
      var   == [state |-> "new", type |-> type, decl |-> n]
  IN  IF n.v \in DOMAIN s.symbols[m] THEN bound
      ELSE [bound EXCEPT !.vars = (<<m, n.v>> :> var) @@ @]

(* A turn of the loop of AcuWorkspace_Pass2_BindSymbols.                   *)
BindStatement(s, p, m, n) ==
  CASE n.k = "function" -> Bind(s, m, n.v, Symbol("function", FunctionType(n), n.f, <<>>))
    [] n.k = "var"      -> BindVar(s, m, n)
    [] n.k = "import"   ->
         Bind(s, m, n.kids[1].v,
              Symbol("module", MODULE_TYPE, n.f, <<CHOOSE i \in DOMAIN p : p[i].name = n.v>>))
    [] OTHER            -> s

(* Turns of the two loops of AcuWorkspace_Pass3_TypeCheck.                 *)
CheckStatement(s, m, n) ==
  CASE n.k = "var" -> EnsureGlobalVarChecked(s, LookupExact(s, m, n.v).target)
    [] n.k \in {"function", "import"} -> Typed(s, n, UNIT, <<>>)
    [] OTHER -> Check([s EXCEPT !.module = m, !.locals = <<>>], n, NoType, FALSE)

BindParam(s, param) ==
  IF param.v \in DOMAIN s.locals THEN Report(s, "REDEFINITION_OF_SYMBOL")
  ELSE AddLocalVar(s, param.v, Resolve(param.kids[1]), param.f)

(* A value that is missing is only a hint that is not followed.            *)
CheckFunction(s, m, n) ==
  LET ret    == Resolve(n.kids[1])
      params == FoldLeft(BindParam, [s EXCEPT !.module = m, !.locals = <<>>], ParamsOf(n))
      body   == Check([params EXCEPT !.ret = ret], n.kids[2], ret, TRUE)
  IN  [body EXCEPT !.ret = NoType]
-----------------------------------------------------------------------------
Items(p) ==
  FlattenSeq([m \in DOMAIN p |-> [i \in DOMAIN p[m].stmts |-> <<m, i>>]])

IsFunction(p, item) == p[item[1]].stmts[item[2]].k = "function"

Functions(p) == SelectSeq(Items(p), LAMBDA item : IsFunction(p, item))

SystemSymbols(types) == [f \in DOMAIN types |-> Symbol("system", types[f], {"export"}, <<>>)]

Workspace(p) ==
  [symbols |-> [m \in DOMAIN p |-> SystemSymbols(p[m].system)], vars |-> <<>>, order |-> <<>>,
   inits |-> <<>>, module |-> 1, locals |-> <<>>, loops |-> <<>>, ret |-> NoType,
   errors |-> <<>>, lost |-> FALSE, val |-> UNIT]

Init ==
  /\ \E i \in DOMAIN Programs : program \in Programs[i]
  /\ ws = Workspace(program)
  /\ todo = Items(program)
  /\ trees = <<>>
  /\ mode = "binding"

StatementAt(item) == program[item[1]].stmts[item[2]]

BindNext ==
  /\ mode = "binding" /\ todo # <<>>
  /\ ws' = BindStatement(ws, program, Head(todo)[1], StatementAt(Head(todo)))
  /\ todo' = Tail(todo)
  /\ UNCHANGED <<program, trees, mode>>

(* A pass with errors is the last one.                                     *)
EndBinding ==
  /\ mode = "binding" /\ todo = <<>>
  /\ mode' = IF ws.errors = <<>> THEN "statements" ELSE "rejected"
  /\ todo' = Items(program)
  /\ UNCHANGED <<program, ws, trees>>

Step(item, what) ==
  Steps[CHOOSE i \in DOMAIN Programs : program \in Programs[i]][program]
       [<<what, ws, item[1], StatementAt(item)>>]

CheckNextStatement ==
  /\ mode = "statements" /\ todo # <<>> /\ ~ ws.lost
  /\ LET next == Step(Head(todo), mode)
     IN  /\ ws' = Give(next, UNIT)
         /\ trees' = IF StatementAt(Head(todo)).k \in {"var", "function", "import"} THEN trees
                     ELSE Append(trees, [item |-> Head(todo), tree |-> next.val])
  /\ todo' = Tail(todo)
  /\ UNCHANGED <<program, mode>>

EndStatements ==
  /\ mode = "statements" /\ todo = <<>>
  /\ mode' = "functions"
  /\ todo' = Functions(program)
  /\ UNCHANGED <<program, ws, trees>>

CheckNextFunction ==
  /\ mode = "functions" /\ todo # <<>> /\ ~ ws.lost
  /\ LET next == Step(Head(todo), mode)
     IN  /\ ws' = Give(next, UNIT)
         /\ trees' = Append(trees, [item |-> Head(todo), tree |-> next.val])
  /\ todo' = Tail(todo)
  /\ UNCHANGED <<program, mode>>

Finish ==
  /\ mode = "functions" /\ todo = <<>>
  /\ mode' = IF ws.errors = <<>> THEN "accepted" ELSE "rejected"
  /\ UNCHANGED <<program, ws, todo, trees>>

Next == BindNext \/ EndBinding \/ CheckNextStatement \/ EndStatements \/ CheckNextFunction \/ Finish

Spec == Init /\ [][Next]_vars
-----------------------------------------------------------------------------
(* Outside of functions.                                                   *)
Outside(m) ==
  [symbols |-> ws.symbols, types |-> [g \in DOMAIN ws.vars |-> ws.vars[g].type], module |-> m,
   locals |-> <<>>, loop |-> "none", value |-> UNIT, ret |-> NoType]

Inside(m, fn) ==
  [Outside(m) EXCEPT
     !.ret    = Resolve(fn.kids[1]),
     !.locals = FoldLeft(LAMBDA acc, p : (p.v :> Symbol("local", Resolve(p.kids[1]), p.f, <<>>)) @@ acc,
                         <<>>, ParamsOf(fn))]

WellTypedInit(i) ==
  LET g    == ws.order[i]
      init == ws.inits[i]
  IN  /\ init.t # NEVER /\ WellTyped(init, Outside(g[1]))
      /\ Widens(init.t, ws.vars[g].type)

WellTypedTree(item, tree) ==
  IF IsFunction(program, item)
  THEN LET env == Inside(item[1], StatementAt(item)) IN WellTyped(tree, env) /\ Widens(tree.t, env.ret)
  ELSE WellTyped(tree, Outside(item[1]))

NamesOf(n) ==
  CASE n.k \in {"var", "function"} -> {n.v}
    [] n.k = "import"              -> {n.kids[1].v}
    [] OTHER                       -> {}

(* No module declares a name twice, and no function a parameter.           *)
NamedOnce ==
  /\ \A m \in DOMAIN program : \A i, j \in DOMAIN program[m].stmts :
       i = j \/ NamesOf(program[m].stmts[i]) \cap NamesOf(program[m].stmts[j]) = {}
  /\ \A i \in DOMAIN Functions(program) :
       LET params == ParamsOf(StatementAt(Functions(program)[i]))
       IN  \A a, b \in DOMAIN params : a = b \/ params[a].v # params[b].v

(* The analyzer accepts a program only when every type that it wrote down  *)
(* for the code generator is the type of the values that the node          *)
(* delivers: operands agree, branches, breaks, returns and arguments fit   *)
(* where they end up, what is assigned to is mutable, names mean what they *)
(* mean in their scope and module, whatever the order of the declarations. *)
(* The right operand of a comparison, a shift or a logical operator need   *)
(* not agree with the left one (RightUnchecked).                           *)
SoundTypes ==
  mode = "accepted" =>
    /\ NamedOnce
    /\ \A i \in DOMAIN ws.order : WellTypedInit(i)
    /\ \A i \in DOMAIN trees : WellTypedTree(trees[i].item, trees[i].tree)

(* The code generator drops what follows a node of type NEVER in a block,  *)
(* so such a node must never hand on.                                      *)
NeverLeaves ==
  mode = "accepted" =>
    /\ \A i \in DOMAIN trees : NeverIsTrue(trees[i].tree)
    /\ \A i \in DOMAIN ws.inits : NeverIsTrue(ws.inits[i])

(* A program that is correct is accepted, in whatever order it declares    *)
(* its functions and variables.                                            *)
AcceptsCorrect ==
  mode = "rejected" \/ ws.lost => \A i \in DOMAIN Correct : program \notin Correct[i]

(* The initialisers of an accepted program run in an order in which every  *)
(* variable is set before another initialiser names it, across modules.    *)
NamedBefore ==
  mode = "accepted" =>
    /\ {ws.order[i] : i \in DOMAIN ws.order} = DOMAIN ws.vars
    /\ \A i \in DOMAIN ws.order : Mentions(ws.inits[i]) \subseteq {ws.order[j] : j \in 1 .. i - 1}
=============================================================================
