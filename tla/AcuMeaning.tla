------------------------------ MODULE AcuMeaning ------------------------------
(***************************************************************************)
(* What a program means: its tree evaluated from left to right, without    *)
(* registers, jumps or folding.  The abstract specification that the code  *)
(* of AcuCodegen, run by AcuVM, has to agree with.                         *)
(*                                                                         *)
(* The state of an evaluation is a record                                  *)
(*   how      "ok", or why evaluation does not go on behind the node:      *)
(*            "break", "continue", "return" or "end"                       *)
(*   val      the value of the node, or the one carried by how             *)
(*   locals, globals, out                                                  *)
(*   status   how the run ends: a status of the VM, or UNKNOWN when it     *)
(*            depends on the host or goes on for more than Fuel steps      *)
(*   fuel     the calls and iterations that are left                       *)
(***************************************************************************)
EXTENDS AcuTree, AcuAlu

CONSTANTS
  Fuel,           (* bound on calls and iterations of a program            *)
  OpcodeOf(_, _)  (* the operation of an operator on (un)signed operands   *)

Goes(s) == s.how = "ok"

Ok(s, v) == [s EXCEPT !.val = v]

Leave(s, how) == [s EXCEPT !.how = how]

End(s, ending) == [s EXCEPT !.how = "end", !.status = ending]

Burn(s) == IF s.fuel = 0 THEN End(s, "UNKNOWN") ELSE [s EXCEPT !.fuel = @ - 1]

Operation(fn, s, x, y) ==
  IF AluTraps(fn, y) THEN End(s, "DIVISION_BY_ZERO") ELSE Ok(s, AluValue(fn, x, y))

SetLocal(s, x, v) ==
  [s EXCEPT !.val = v,
            !.locals = [y \in DOMAIN @ \union {x} |-> IF y = x THEN v ELSE s.locals[y]]]

SetGlobal(s, g, v) == [s EXCEPT !.val = v, !.globals[g] = v]

Truncated(w, x) == x % 2 ^ w

(* A conversion keeps the value modulo the width of the target type; a     *)
(* value of a narrow signed type is kept sign-extended.                    *)
Converted(to, x) ==
  CASE to \in {"i64", "u64"} -> x
    [] to = "u32"            -> Truncated(HalfBits, x)
    [] to = "i32"            -> U(SignedLow(HalfBits, x))

Host(s, id, vals) ==
  CASE id = "print" -> IF vals = <<>> THEN End(s, "INVALID_SYSCALL")
                       ELSE [s EXCEPT !.val = 0, !.out = Append(@, vals[1])]
    [] id = "math"  -> Ok(s, U(-vals[1]))
    [] id = "seed"  -> Ok(s, 0)
    [] id = "panic" -> End(s, "PANIC")
    [] id = "exit"  -> End(Ok(s, IF vals = <<>> THEN 0 ELSE vals[1]), "EXITED")
    [] id \in {"read", "clock", "random"} -> End(s, "UNKNOWN")
-----------------------------------------------------------------------------
RECURSIVE Eval(_, _, _), EvalAll(_, _, _, _), Iterate(_, _, _, _)

(* Several nodes in a row and their values.                                *)
EvalAll(p, es, s, vals) ==
  IF es = <<>> \/ ~ Goes(s) THEN [s |-> s, vals |-> vals]
  ELSE LET h == Eval(p, Head(es), s) IN EvalAll(p, Tail(es), h, Append(vals, h.val))

(* A loop; its condition is absent or the literal of an endless one.       *)
Iterate(p, test, body, s) ==
  LET t == Eval(p, test, Burn(s))
      b == Eval(p, body, t)
  IN  IF s.fuel = 0 THEN Burn(s)
      ELSE IF ~ Goes(t) THEN t
      ELSE IF t.val = 0 THEN Ok(t, 0)
      ELSE IF b.how \in {"ok", "continue"} THEN Iterate(p, test, body, Leave(b, "ok"))
      ELSE IF b.how = "break" THEN Leave(b, "ok")
      ELSE b

(* The body sees its parameters only; its return is the end of the call.   *)
Invoke(p, f, s, args) ==
  LET b == Eval(p, p.fns[f].body, [Burn(s) EXCEPT !.locals = [x \in 0 .. Len(args) - 1 |-> args[x + 1]]])
  IN  IF s.fuel = 0 THEN Burn(s)
      ELSE [b EXCEPT !.locals = s.locals, !.how = IF @ = "return" THEN "ok" ELSE @]

Eval(p, n, s) ==
  LET a == EvalAll(p, n.kids, s, <<>>)
      c == Eval(p, n.kids[1], s)
      v == a.vals[1]
  IN
  CASE n.k = "absent"  -> Ok(s, 0)
    [] n.k = "literal" -> Ok(s, n.v)
    [] n.k = "local"   -> Ok(s, s.locals[n.v])
    [] n.k = "global"  -> Ok(s, s.globals[n.v])
    [] n.k = "binary" /\ n.op \in {"LAND", "LOR"} ->
         IF ~ Goes(c) \/ (c.val # 0) = (n.op = "LOR") THEN c ELSE Eval(p, n.kids[2], c)
    [] n.k = "if" ->
         IF ~ Goes(c) THEN c ELSE Eval(p, IF c.val # 0 THEN n.kids[2] ELSE n.kids[3], c)
    [] n.k = "loop"     -> Iterate(p, Lit(1), n.kids[1], s)
    [] n.k = "while"    -> LET w == Iterate(p, n.kids[1], n.kids[2], s) IN IF Goes(w) THEN Ok(w, 0) ELSE w
    [] n.k = "continue" -> Leave(s, "continue")
    [] n.k \in {"binary", "unary", "cast", "var", "assign", "global_var", "global_assign", "break",
                "return", "discard", "block", "call", "syscall"}
       /\ ~ (n.k = "binary" /\ n.op \in {"LAND", "LOR"}) ->
       IF ~ Goes(a.s) THEN a.s
       ELSE CASE n.k = "binary"        -> Operation(OpcodeOf(n.op, n.u), a.s, v, a.vals[2])
              [] n.k = "unary"         -> IF n.op = "PLUS" THEN a.s ELSE Operation(n.op, a.s, v, 0)
              [] n.k = "cast"          -> Ok(a.s, Converted(n.op, v))
              [] n.k = "var"           -> SetLocal(a.s, n.v, v)
              [] n.k = "global_var"    -> SetGlobal(a.s, n.v, v)
              [] n.k = "assign"        ->
                   IF n.op = "EQ" THEN SetLocal(a.s, n.v, v)
                   ELSE LET o == Operation(OpcodeOf(n.op, n.u), a.s, s.locals[n.v], v)
                        IN  IF Goes(o) THEN SetLocal(o, n.v, o.val) ELSE o
              [] n.k = "global_assign" ->
                   IF n.op = "EQ" THEN SetGlobal(a.s, n.v, v)
                   ELSE LET o == Operation(OpcodeOf(n.op, n.u), a.s, s.globals[n.v], v)
                        IN  IF Goes(o) THEN SetGlobal(o, n.v, o.val) ELSE o
              [] n.k \in {"break", "return"} -> Leave(a.s, n.k)
              [] n.k = "discard"       -> Ok(a.s, 0)
              [] n.k = "block"         -> IF n.kids = <<>> THEN Ok(s, 0) ELSE a.s
              [] n.k = "call"          -> Invoke(p, n.v, a.s, a.vals)
              [] n.k = "syscall"       -> Host(a.s, n.op, a.vals)
-----------------------------------------------------------------------------
(* What can be observed of a run: how it ends, what it prints, the globals *)
(* it leaves and the code it exits with.                                   *)
Meaning(p) ==
  LET init == [how |-> "ok", val |-> 0, locals |-> [x \in {} |-> 0],
               globals |-> [g \in 0 .. Len(p.inits) - 1 |-> 0], out |-> <<>>, status |-> "HALT", fuel |-> Fuel]
      s    == EvalAll(p, p.inits \o p.main, init, <<>>).s
  IN  [status |-> s.status, out |-> s.out, globals |-> s.globals,
       code |-> IF s.status = "EXITED" THEN s.val ELSE 0]
=============================================================================
