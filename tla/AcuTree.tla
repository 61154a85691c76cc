------------------------------- MODULE AcuTree -------------------------------
(***************************************************************************)
(* Analysed programs as the code generator receives them: the nodes of the *)
(* AST (include/ast/ast.h) with the names bound and the types settled by   *)
(* the analyzer.  A node is a record                                       *)
(*   k     its AstType                                                     *)
(*   op    the operation of an operator, assignment, cast or syscall       *)
(*   u     whether its operands are unsigned                               *)
(*   v     the value of a literal, or the number of the symbol it names    *)
(*   kids  its children in the order of the source                         *)
(* Types are left out but for what the generator asks of them: signedness, *)
(* the ends of a cast, and whether a node is of type NEVER.                *)
(*                                                                         *)
(* A program is a record                                                   *)
(*   inits  the global declarations in the order of initialisation         *)
(*   main   the statements of the main module                              *)
(*   fns    the functions [params, returns, body] in symbol order; their   *)
(*          parameters are the locals 0 .. params-1                        *)
(***************************************************************************)
EXTENDS Integers, Sequences, FiniteSets

Node(k, op, u, v, kids) == [k |-> k, op |-> op, u |-> u, v |-> v, kids |-> kids]

Plain(k, kids) == Node(k, "NONE", FALSE, 0, kids)

(* An optional child that is not there: ACU_NULL_IDX.                      *)
Absent == Plain("absent", <<>>)

Lit(v) == Node("literal", "NONE", FALSE, v, <<>>)
Local(x) == Node("local", "NONE", FALSE, x, <<>>)
Global(g) == Node("global", "NONE", FALSE, g, <<>>)
Binary(op, u, l, r) == Node("binary", op, u, 0, <<l, r>>)
Unary(op, e) == Node("unary", op, FALSE, 0, <<e>>)
(* e is of a type of so many bits, to the name of the type it becomes.     *)
Cast(unsigned, bits, to, e) == Node("cast", to, unsigned, bits, <<e>>)
Var(x, e) == Node("var", "NONE", FALSE, x, <<e>>)
GlobalVar(g, e) == Node("global_var", "NONE", FALSE, g, <<e>>)
Assign(op, x, e) == Node("assign", op, FALSE, x, <<e>>)
GlobalAssign(op, g, e) == Node("global_assign", op, FALSE, g, <<e>>)
Block(stmts) == Plain("block", stmts)
If(c, t, e) == Plain("if", <<c, t, e>>)
Loop(b) == Plain("loop", <<b>>)
While(c, b) == Plain("while", <<c, b>>)
Break(e) == Plain("break", <<e>>)
Continue == Plain("continue", <<>>)
Return(e) == Plain("return", <<e>>)
Discard(e) == Plain("discard", <<e>>)
CallFn(f, args) == Node("call", "NONE", FALSE, f, args)
CallSys(id, args) == Node("syscall", id, FALSE, 0, args)

KidIdx(n) == 1 .. Len(n.kids)
-----------------------------------------------------------------------------
(* Pass 3: which nodes never deliver a value.  A loop is NEVER when no     *)
(* break of its own leaves it; the statements of a block all count.        *)

RECURSIVE Breaks(_)
Breaks(n) ==
  \/ n.k = "break"
  \/ n.k = "while" /\ Breaks(n.kids[1])
  \/ n.k \notin {"loop", "while"} /\ \E i \in KidIdx(n) : Breaks(n.kids[i])

RECURSIVE Never(_)
Never(n) ==
  CASE n.k \in {"break", "continue", "return"} -> TRUE
    [] n.k = "loop"  -> ~ Breaks(n.kids[1])
    [] n.k = "while" -> Never(n.kids[1])
    [] n.k = "if"    -> \/ Never(n.kids[1])
                        \/ n.kids[3] # Absent /\ Never(n.kids[2]) /\ Never(n.kids[3])
    [] OTHER         -> \E i \in KidIdx(n) : Never(n.kids[i])
-----------------------------------------------------------------------------
(* Passes 4 and 5: the flags PURE and REACHABLE of functions; AcuEffects   *)
(* models how they are computed.                                           *)

RECURSIVE Nodes(_)
Nodes(n) == {n} \union UNION {Nodes(n.kids[i]) : i \in KidIdx(n)}

Callees(n) == {c.v : c \in {m \in Nodes(n) : m.k = "call"}}

RECURSIVE HasDirectSideEffects(_)
HasDirectSideEffects(n) ==
  \/ n.k = "global_assign"
  \/ n.k \notin {"call", "syscall"} /\ \E i \in KidIdx(n) : HasDirectSideEffects(n.kids[i])

LocallyPure(n) == ~ HasDirectSideEffects(n) /\ \A m \in Nodes(n) : m.k # "syscall"

PureFns(p) ==
  UNION {fs \in SUBSET DOMAIN p.fns :
           \A f \in fs : LocallyPure(p.fns[f].body) /\ Callees(p.fns[f].body) \subseteq fs}

Roots(p) == {p.inits[i] : i \in DOMAIN p.inits} \union {p.main[i] : i \in DOMAIN p.main}

ReachableFns(p) ==
  {f \in DOMAIN p.fns :
     \A fs \in SUBSET DOMAIN p.fns :
       /\ \A n \in Roots(p) : Callees(n) \subseteq fs
       /\ \A g \in fs : Callees(p.fns[g].body) \subseteq fs
       => f \in fs}
=============================================================================
