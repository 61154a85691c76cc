---------------------------- MODULE AcuBytecode ----------------------------
(***************************************************************************)
(* The instruction set of the Acu virtual machine, as the VM, the code     *)
(* generator and the optimizer share it (include/defines/bytecode.h).      *)
(*                                                                         *)
(* A chunk's code is an array of 32-bit words.  A word is modelled as a    *)
(* record [op, fn, a, b, c]: the 120 opcodes of the source are grouped by  *)
(* shape (op) and operation (fn), e.g. OP_ADD is op "ALU", fn "ADD";       *)
(* OP_LT_S_IMM is op "ALU_IMM", fn "LT_S"; OP_JUMP_EQ is op "JUMP_CMP",    *)
(* fn "EQ".  The second word of a wide instruction has op "WORD" and its   *)
(* value in field a.  Addresses and jump offsets count words, as in the    *)
(* source.                                                                 *)
(***************************************************************************)
EXTENDS Integers, FiniteSets

(* Comparison operations, shared by CMP, CMP_IMM, JUMP_* and JUMP_*_IMM.   *)
CmpFns == {"EQ", "NEQ", "LT_S", "LT_U", "LTE_S", "LTE_U",
           "GT_S", "GT_U", "GTE_S", "GTE_U"}

(* Operations with two register operands.                                  *)
AluFns == CmpFns \union
          {"ADD", "SUB", "MUL", "DIV_S", "DIV_U", "REM_S", "REM_U", "POW",
           "AND", "OR", "XOR", "SHL", "SHR_S", "SHR_U"}

(* Operations with a register and an immediate operand.                    *)
ImmFns == AluFns \union {"RSUB"}

(* Operations with one register operand; SEXT, ZEXT and TRUNC stand for     *)
(* the conversions to 8, 16 and 32 bits.                                   *)
UnaryFns == {"NEG", "NOT", "LNOT", "SEXT", "ZEXT", "TRUNC"}

Fns == ImmFns \union UnaryFns \union {"NONE"}

(* The syscalls of g_acu_syscall_table that behave differently: print      *)
(* stands for every io.print*, read for io.read*, clock for the calls that *)
(* ask the host something, math for the functions of their arguments.  A   *)
(* payload word names its syscall in field fn.                             *)
SyscallIds == {"print", "read", "clock", "math", "random", "seed", "exit",
               "panic"}

Ops == {"NOP", "HALT", "RET", "RET_VOID", "JUMP", "JUMP_IF_TRUE",
        "JUMP_IF_FALSE", "JUMP_CMP", "JUMP_CMP_IMM", "MOVE", "LOAD_IMM",
        "LOAD_CONST", "LOAD_STR", "LOAD_GLOBAL", "STORE_GLOBAL", "CALL",
        "CALL_VOID", "TAILCALL", "SYSCALL", "SYSCALL_VOID", "UNARY", "ALU",
        "ALU_IMM"}

(* A word of code: an instruction or the payload of a wide instruction.    *)
Words == [op : Ops \union {"WORD"}, fn : Fns \union SyscallIds,
          a : Int, b : Int, c : Int]

Inst(op, fn, a, b, c) == [op |-> op, fn |-> fn, a |-> a, b |-> b, c |-> c]

Target(p) == Inst("WORD", "NONE", p, 0, 0)

SyscallId(id) == Inst("WORD", id, 0, 0, 0)

Nop == Inst("NOP", "NONE", 0, 0, 0)
-----------------------------------------------------------------------------
(* The columns of the opcode table X_ACU_OPCODES.                          *)

WideOps == {"CALL", "CALL_VOID", "TAILCALL", "SYSCALL", "SYSCALL_VOID"}

Slots(op) == IF op \in WideOps THEN 2 ELSE 1

BytecodeCalls == {"CALL", "CALL_VOID", "TAILCALL"}

SyscallOps == {"SYSCALL", "SYSCALL_VOID"}

CondJumps == {"JUMP_IF_TRUE", "JUMP_IF_FALSE", "JUMP_CMP", "JUMP_CMP_IMM"}

Jumps == CondJumps \union {"JUMP"}

Terminators == {"HALT", "RET", "RET_VOID", "JUMP", "TAILCALL"}

(* OP_READ_*: the registers an instruction reads.  HALT is listed as       *)
(* reading none.                                                           *)
Reads(i) ==
  CASE i.op \in {"RET", "JUMP_IF_TRUE", "JUMP_IF_FALSE", "JUMP_CMP_IMM",
                 "STORE_GLOBAL"}                  -> {i.a}
    [] i.op = "JUMP_CMP"                          -> {i.a, i.b}
    [] i.op \in {"MOVE", "UNARY", "ALU_IMM"}      -> {i.b}
    [] i.op = "ALU"                               -> {i.b, i.c}
    [] i.op \in WideOps                           -> i.b .. (i.b + i.c - 1)
    [] OTHER                                      -> {}

(* OP_WRITE_A: the operations that write register A.                       *)
WriteOps == {"MOVE", "LOAD_IMM", "LOAD_CONST", "LOAD_STR", "LOAD_GLOBAL",
             "CALL", "SYSCALL", "UNARY", "ALU", "ALU_IMM"}

Writes(i) == IF i.op \in WriteOps THEN {i.a} ELSE {}

(* The signed offset field of a jump and the word it lands on.             *)
JumpOffset(i) ==
  CASE i.op = "JUMP"                               -> i.a
    [] i.op \in {"JUMP_IF_TRUE", "JUMP_IF_FALSE"}  -> i.b
    [] OTHER                                       -> i.c

JumpTarget(p, i) == p + 1 + JumpOffset(i)
-----------------------------------------------------------------------------
(* Code: its words, and the function that each belongs to, 0 being that of *)
(* the module level.                                                       *)
IsCode(ch) ==
  /\ {"size", "code", "fn"} \subseteq DOMAIN ch
  /\ ch.size \in Nat
  /\ ch.code \in [0 .. ch.size - 1 -> Words]
  /\ ch.fn \in [0 .. ch.size - 1 -> Nat]

(* Well-formed code: what the code generator promises the VM, which checks *)
(* none of it.  Every instruction is whole; fall-through and jumps stay    *)
(* inside the function; calls go to an instruction of a function, never to *)
(* module-level code; only functions return or make tail calls.            *)

(* p is the first word of an instruction of function f.                    *)
InstrOf(ch, f, p) ==
  /\ p \in 0 .. ch.size - 1
  /\ ch.fn[p] = f
  /\ ch.code[p].op # "WORD"
  /\ ch.code[p].op \in WideOps => /\ p + 1 \in 0 .. ch.size - 1
                                  /\ ch.code[p + 1].op = "WORD"

FallsThrough(ch, p) ==
  \/ ch.code[p].op \in Ops \ (Terminators \union SyscallOps)
  \/ /\ ch.code[p].op \in SyscallOps
     /\ ch.code[p + 1].fn \notin {"exit", "panic"}

WellFormedAt(ch, p) ==
  LET i == ch.code[p]
      f == ch.fn[p]
  IN  /\ InstrOf(ch, f, p)
      /\ FallsThrough(ch, p) => InstrOf(ch, f, p + Slots(i.op))
      /\ i.op \in Jumps => InstrOf(ch, f, JumpTarget(p, i))
      /\ i.op \in BytecodeCalls =>
           LET t == ch.code[p + 1].a
           IN  t \in 0 .. ch.size - 1 /\ ch.fn[t] # 0 /\ InstrOf(ch, ch.fn[t], t)
      /\ i.op \in {"RET", "RET_VOID", "TAILCALL"} => f # 0
      /\ i.op \in SyscallOps => ch.code[p + 1].fn \in SyscallIds

WellFormed(ch) ==
  /\ ch.size > 0 => InstrOf(ch, 0, 0)
  /\ \A p \in 0 .. ch.size - 1 :
       IF ch.code[p].op = "WORD" THEN p > 0 /\ ch.code[p - 1].op \in WideOps ELSE WellFormedAt(ch, p)
=============================================================================
