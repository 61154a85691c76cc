--------------------------- MODULE MCAcuPipeline ---------------------------
(***************************************************************************)
(* Families of small chunks for AcuPipeline, in the shapes the code        *)
(* generator emits: module-level code that calls f(x, y) on two constants  *)
(* and prints the result, and the code of f and sometimes of g.  Registers *)
(* 0 and 1 of f are its parameters, 2 a local, the rest temporaries.       *)
(***************************************************************************)
EXTENDS AcuPipeline, AcuAlu, Sequences

MCWord == RegWords

MCNextRandom(x) == U(x + 3)

MCNoShift(i) == Low(ImmBits, i) % WordBits = 0

NoChunks == {}

Imm1(r, v) == Inst("LOAD_IMM", "NONE", r, v, 0)
Const(r, k) == Inst("LOAD_CONST", "NONE", r, k, 0)
Move(d, s) == Inst("MOVE", "NONE", d, s, 0)
Rr(fn, d, x, y) == Inst("ALU", fn, d, x, y)
Ri(fn, d, x, i) == Inst("ALU_IMM", fn, d, x, i)
Neg(d, s) == Inst("UNARY", "NEG", d, s, 0)
Ret(r) == Inst("RET", "NONE", r, 0, 0)
RetVoid == Inst("RET_VOID", "NONE", 0, 0, 0)
Halt == Inst("HALT", "NONE", 0, 0, 0)
Call(d, b, n) == Inst("CALL", "NONE", d, b, n)
CallVoid(b, n) == Inst("CALL_VOID", "NONE", 0, b, n)
Sys(d, b, n) == Inst("SYSCALL", "NONE", d, b, n)
SysVoid(b, n) == Inst("SYSCALL_VOID", "NONE", 0, b, n)
Jump(o) == Inst("JUMP", "NONE", o, 0, 0)
If(op, r, o) == Inst(op, "NONE", r, o, 0)
LoadG(r) == Inst("LOAD_GLOBAL", "NONE", r, 0, 0)
StoreG(r) == Inst("STORE_GLOBAL", "NONE", r, 0, 0)
JT == "JUMP_IF_TRUE"
JF == "JUMP_IF_FALSE"

Inputs == {<<0, 5>>, <<5, 0>>, <<1, 1>>}

(* Module-level code, then f at word 7, then g.                            *)
Main == <<Const(1, 1), Const(2, 2), Call(0, 1, 2), Target(7),
          SysVoid(0, 1), SyscallId("print"), Halt>>

F == 7

Program(input, f, g) ==
  LET words == Main \o f \o g
      size  == Len(words)
  IN  [size   |-> size,
       code   |-> [p \in 0 .. size - 1 |-> words[p + 1]],
       fn     |-> [p \in 0 .. size - 1 |-> IF p < F THEN 0 ELSE IF p < F + Len(f) THEN 1 ELSE 2],
       consts |-> input, strs |-> <<>>, slots |-> 1]
-----------------------------------------------------------------------------
(* Straight-line bodies: definitions, copies, identities, dead stores.     *)
Def2 == {Move(2, 0), Imm1(2, -1), Rr("SUB", 2, 1, 1), Rr("LTE_U", 2, 0, 0),
         Ri("XOR", 2, 0, 0), Ri("MUL", 2, 1, 0), Ri("SHL", 2, 0, 1), LoadG(2)}

Def3 == {Move(3, 2), Rr("ADD", 3, 2, 0), Neg(3, 2), Rr("DIV_U", 3, 0, 2), Ri("REM_S", 3, 1, -2),
         Rr("GTE_S", 3, 0, 2)}

Uses == {Move(0, 3), Move(2, 3), Rr("ADD", 2, 3, 3), StoreG(3), Move(3, 0), Ri("SUB", 2, 2, 1)}

Straight ==
  {Program(in, <<a, b, c, d, Ret(r)>>, <<>>)
     : in \in {<<5, 0>>}, a \in Def2, b \in Def3, c \in Uses, d \in {Rr("SUB", 2, 2, 0), Move(2, 3), StoreG(2)},
       r \in {0, 2}}

(* Syscalls with and without a result, and a process that exits.           *)
Syscalling ==
  {Program(<<5, 0>>, <<Sys(2, 0, 1), SyscallId(s), Move(2, r), Sys(3, 2, 1), SyscallId(t), x, Ret(r)>>, <<>>)
     : s \in {"seed", "math"}, t \in {"seed", "print", "math", "exit"}, x \in {StoreG(1), Move(1, 3), Move(2, 3)},
       r \in {0, 1}}

(* if (t) { a } else { b }, the branches ending in a jump or a return.     *)
Tests == {Rr("LT_S", 3, 0, 1), Rr("GTE_U", 3, 0, 1), Ri("EQ", 3, 0, 0), Ri("NEQ", 3, 1, 0),
          Ri("GT_S", 3, 0, -1), Ri("EQ", 3, 1, 1), Move(3, 0)}

Branches ==
  {Program(in, <<Imm1(2, 0), t, If(j, 3, 2), a, e, b, c, Ret(2)>>, <<>>)
     : in \in Inputs, t \in Tests, j \in {JT, JF}, a \in {Nop, Move(2, 0), StoreG(0)},
       e \in {Jump(1), Jump(2), Ret(2)}, b \in {Move(2, 1), Ri("ADD", 2, 2, 1)}, c \in {StoreG(2), Move(2, 2)}}

(* r = x; if (y) { r = v }, the branch following or preceding the rest.    *)
Assignments ==
  {Program(in, <<d, If(j, 1, 2), Imm1(2, 1), Ret(2), u, Ret(2)>>, <<>>)
     : in \in Inputs, d \in {Move(2, 0), Neg(2, 0), Ri("EQ", 2, 0, 0)}, j \in {JT, JF},
       u \in {Nop, Move(2, 2), StoreG(2)}}

(* (t && u) as a value, tested by j: the result register of the two        *)
(* branches is set in both, and jumps lead to jumps.                       *)
Logical ==
  {Program(in, <<t, If(j, 4, 2), u, Jump(1), Imm1(3, v), If(k, 3, 2), Imm1(2, 1), Jump(1), Imm1(2, 0), Ret(2)>>, <<>>)
     : in \in Inputs, t \in {Rr("LT_S", 4, 0, 1), Ri("EQ", 4, 0, 0)}, u \in {Rr("LTE_U", 3, 1, 0), Ri("NEQ", 3, 1, 0)},
       j \in {JT, JF}, k \in {JT, JF}, v \in {0, 1}}

(* Nested ifs: the inner end jumps to the outer end.                       *)
Nested ==
  {Program(in, <<Imm1(2, 1), If(JF, 0, 6), If(j, 1, 2), x, Jump(1), Imm1(2, 0), Jump(2), StoreG(1), Ri("SUB", 2, 2, 1), y, Ret(2)>>, <<>>)
     : in \in Inputs, j \in {JT, JF}, x \in {Move(2, 1), Nop}, y \in {Nop, StoreG(2)}}

(* A self tail call compiled to a loop.                                    *)
Loops ==
  {Program(in, <<Ri(fn, 2, 0, 0), If(j, 2, 1), Ret(1), Ri("SUB", 2, 0, 1), Rr("ADD", 3, 1, 0), Move(0, 2), Move(1, 3), Jump(-8)>>, <<>>)
     : in \in Inputs, fn \in {"EQ", "NEQ"}, j \in {JF, JT}}

(* Calls of g, in tail position or not.                                    *)
Calls2 ==
  {Program(in, <<Ri("ADD", 2, 0, 0), Move(3, 2), Move(4, 1), Call(2, 3, 2), Target(F + 7), x, Ret(2)>>,
               <<Rr("SUB", 2, 0, 1), y, Ret(2)>>)
     : in \in Inputs, x \in {Nop, Rr("ADD", 2, 2, 0), Move(2, 1)}, y \in {Nop, Move(2, 0), StoreG(2)}}

VoidCalls ==
  {Program(in, <<Move(2, 0), Move(3, 1), CallVoid(2, 2), Target(F + 6), x, e>>,
               <<If(JF, 0, 2), SysVoid(1, 1), SyscallId("print"), RetVoid>>)
     : in \in Inputs, x \in {Nop, StoreG(1)}, e \in {RetVoid, Ret(1)}}

Families == Straight \union Assignments \union Syscalling \union Branches \union Logical \union Nested \union Loops
            \union Calls2 \union VoidCalls

ASSUME \A ch \in Families : VM!IsChunk(ch) /\ WellFormed(ch)
-----------------------------------------------------------------------------
(* c = x < y; if (c) { z } else { c }: the condition is read on one path.  *)
TestedAgain ==
  {Program(in, <<t, If(JF, 2, 2), Imm1(2, v), Ret(2), StoreG(2), Ret(2)>>, <<>>)
     : in \in [1 .. 2 -> {0, 1, 5}], t \in {Rr("LT_S", 2, 0, 1), Ri("NEQ", 2, 0, 0)}, v \in {0, 1}}

=============================================================================
