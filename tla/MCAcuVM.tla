------------------------------ MODULE MCAcuVM ------------------------------
(***************************************************************************)
(* Instances of AcuVM for TLC: 2-bit registers (so that every arithmetic   *)
(* result wraps), windows of 4 registers on a stack of 9, 3 frames.        *)
(***************************************************************************)
EXTENDS AcuChunkFile, AcuAlu, TLC

MCWord == RegWords

(* The generator is any function that visits different values.             *)
MCNextRandom(x) == U(x + 3)

Chunk(fns, words) ==
  [size   |-> Len(words),
   code   |-> [p \in 0 .. Len(words) - 1 |-> words[p + 1]],
   fn     |-> [p \in 0 .. Len(words) - 1 |-> fns[p + 1]],
   consts |-> <<3, 1>>, strs |-> <<2>>, slots |-> 1]

Imm1(r, v) == Inst("LOAD_IMM", "NONE", r, v, 0)
Call(dst, b, n) == Inst("CALL", "NONE", dst, b, n)
CallVoid(b, n) == Inst("CALL_VOID", "NONE", 0, b, n)
TailCall(b, n) == Inst("TAILCALL", "NONE", 0, b, n)
Sys(dst, b, n) == Inst("SYSCALL", "NONE", dst, b, n)
SysVoid(b, n) == Inst("SYSCALL_VOID", "NONE", 0, b, n)
Ret(r) == Inst("RET", "NONE", r, 0, 0)
RetVoid == Inst("RET_VOID", "NONE", 0, 0, 0)
Halt == Inst("HALT", "NONE", 0, 0, 0)
Jump(o) == Inst("JUMP", "NONE", o, 0, 0)
Move(d, s) == Inst("MOVE", "NONE", d, s, 0)
-----------------------------------------------------------------------------
(* Arbitrary code behind a call: what is left of the guarantees when the   *)
(* code is not what the code generator emits.                              *)
Arbitrary ==
  {Call(2, 2, 1), CallVoid(1, 0), TailCall(2, 1), Target(3), Target(6), Ret(1), RetVoid,
   Imm1(0, 3), Move(2, 0), Jump(-3), SysVoid(0, 1), Halt,
   Inst("JUMP_CMP", "NEQ", 0, 1, -2), Inst("JUMP_CMP_IMM", "LT_S", 0, 1, 1)}

NoChunks == {}

(* A function whose tail call or syscall reaches past its window.          *)
PastWindow ==
  {Chunk(<<0, 0, 0, 1, 1>>, <<CallVoid(0, 0), Target(3), Halt, i, t>>)
     : i \in {TailCall(3, 2), Sys(0, 3, 2)}, t \in {Target(3), SyscallId("print")}}

AnyChunks ==
  PastWindow \union
  {Chunk([p \in 1 .. 7 |-> 0], <<Imm1(0, 1), Imm1(1, 2), Call(d, b, 1), Target(t), x, y, z>>)
     : d \in {0, 2}, b \in {1, 2}, t \in {0, 4, 5}, x, y, z \in Arbitrary}
=============================================================================
