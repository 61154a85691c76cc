---------------------------- MODULE AcuVM_proofs ----------------------------
(***************************************************************************)
(* What AcuVM guarantees for every stack and frame capacity, every width   *)
(* of the register window and every set of chunks: types, frames, windows, *)
(* calls, that code whose words have been moved runs as before, and that   *)
(* code does too which has lost what nobody needs.  The end joins this to  *)
(* the passes of the optimizer (AcuOptimizer_proofs).                      *)
(***************************************************************************)
EXTENDS AcuVM, AcuAgreement, TLAPS

USE DEF ACU_FRAME_NO_RET
-----------------------------------------------------------------------------
(* The operands of the instruction being executed.                         *)

LEMMA OperandsOK ==
  ASSUME TypeOK, Decodes
  PROVE  /\ IsChunk(chunk)
         /\ Instr \in Words
         /\ FieldsOK(chunk, Instr)
         /\ Instr.op \in WideOps => Payload \in Words
BY ChunksAssumption DEF TypeOK, Decodes, IsChunk, IsCode, Instr, Payload

LEMMA RegisterValue ==
  ASSUME TypeOK, NEW r \in Regs
  PROVE  /\ base + r \in Slot
         /\ R(r) \in Word
BY SizesAssumption DEF TypeOK, Regs, Slot, R

(* A step that writes v to register A keeps the stack well typed.          *)
LEMMA SetAType ==
  ASSUME TypeOK, Decodes, Instr.op \in WriteOps, NEW v \in Word, SetA(v)
  PROVE  TypeOK'
<1>1. base + Instr.a \in Slot
  BY OperandsOK, RegisterValue DEF FieldsOK
<1>2. stack' \in [Slot -> Word]
  BY <1>1 DEF TypeOK, SetA
<1>3. ip' \in Int
  BY DEF TypeOK, SetA, Advance, Goto, Slots
<1> QED
  BY <1>2, <1>3 DEF TypeOK, SetA, Advance, Goto

(* A handler that only moves the instruction pointer keeps every type.     *)
LEMMA GotoType ==
  ASSUME TypeOK, NEW p \in Int, Goto(p), UNCHANGED <<globals, prng, out>>,
         stack' \in [Slot -> Word]
  PROVE  TypeOK'
BY DEF TypeOK, Goto

LEMMA JumpType ==
  ASSUME TypeOK, Decodes, NEW taken, JumpWhen(taken)
  PROVE  TypeOK'
<1>1. JumpTarget(ip, Instr) \in Int
  BY OperandsOK DEF TypeOK, JumpTarget, JumpOffset, Words
<1> DEFINE p == IF taken THEN JumpTarget(ip, Instr) ELSE ip + 1
<1>2. p \in Int
  BY <1>1 DEF TypeOK
<1> QED
  BY <1>2, GotoType DEF JumpWhen, TypeOK

LEMMA StopType ==
  ASSUME TypeOK, NEW s \in Statuses, Stop(s)
  PROVE  TypeOK'
BY DEF TypeOK, Stop

(* Likewise for a syscall that answers v.                                  *)
LEMMA AnswerType ==
  ASSUME TypeOK, Dispatch(SyscallOps), NEW v \in Word, Answer(v),
         prng' \in Word, out' \in Seq(Word)
  PROVE  TypeOK'
<1>1. Decodes
  BY DEF Dispatch
<1>2. Instr.op = "SYSCALL" => base + Instr.a \in Slot
  BY <1>1, OperandsOK, RegisterValue DEF FieldsOK, WriteOps
<1>3. stack' \in [Slot -> Word]
  BY <1>2 DEF TypeOK, Answer
<1>4. ip' \in Int
  BY DEF TypeOK, Answer, Advance, Goto, Slots
<1> QED
  BY <1>3, <1>4 DEF TypeOK, Answer, Advance, Goto

LEMMA InitType == Init => TypeOK
<1> SUFFICES ASSUME Init PROVE TypeOK
  OBVIOUS
<1>1. IsChunk(chunk)
  BY ChunksAssumption DEF Init
<1> QED
  BY <1>1, SizesAssumption, WordAssumption
  DEF Init, TypeOK, IsChunk, IsCode, Statuses, Errors, Regs, Slot, FrameIdx

LEMMA NextType == TypeOK /\ [Next]_vars => TypeOK'
<1> SUFFICES ASSUME TypeOK, [Next]_vars
             PROVE  TypeOK'
  OBVIOUS
<1>1. CASE Run
  BY <1>1 DEF Run, TypeOK, Statuses, Errors
<1>2. CASE \E ch \in Reloads : Load(ch)
  BY <1>2, ChunksAssumption, SizesAssumption, WordAssumption
  DEF Load, TypeOK, Statuses, IsChunk, IsCode
<1>3. CASE DoNop
  BY <1>3, GotoType DEF DoNop, Advance, Slots, TypeOK
<1>4. CASE DoHalt
  <2>1. 0 \in Regs
    BY SizesAssumption DEF Regs
  <2> QED
    BY <1>4, <2>1, RegisterValue DEF DoHalt, TypeOK, Statuses
<1>5. CASE DoJump \/ DoJumpIf
  BY <1>5, JumpType DEF DoJump, DoJumpIf, Dispatch
<1>6. CASE DoJumpCmp
  BY <1>6, JumpType DEF DoJumpCmp, Dispatch
<1>7. CASE DoJumpCmpImm
  BY <1>7, JumpType DEF DoJumpCmpImm, Dispatch
<1>8. CASE DoMove
  <2>1. R(Instr.b) \in Word
    BY <1>8, OperandsOK, RegisterValue DEF DoMove, Dispatch, FieldsOK, Reads, WideOps
  <2> QED
    BY <1>8, <2>1, SetAType DEF DoMove, Dispatch, WriteOps
<1>9. CASE DoLoadImm
  <2>1. Imm(Instr.fn, Instr.b) \in Word
    BY <1>9, OperandsOK DEF DoLoadImm, Dispatch, FieldsOK
  <2> QED
    BY <1>9, <2>1, SetAType DEF DoLoadImm, Dispatch, WriteOps
<1>10. CASE DoLoadPool
  <2> DEFINE v == IF Instr.op = "LOAD_CONST" THEN chunk.consts[Instr.b]
                                             ELSE chunk.strs[Instr.b]
  <2>1. v \in Word
    BY <1>10, OperandsOK DEF DoLoadPool, Dispatch, FieldsOK, IsChunk, IsCode
  <2> QED
    BY <1>10, <2>1, SetAType DEF DoLoadPool, Dispatch, WriteOps
<1>11. CASE DoLoadGlobal
  <2>1. globals[Instr.b] \in Word
    BY <1>11, OperandsOK DEF DoLoadGlobal, Dispatch, FieldsOK, TypeOK
  <2> QED
    BY <1>11, <2>1, SetAType DEF DoLoadGlobal, Dispatch, WriteOps
<1>12. CASE DoStoreGlobal
  <2>1. /\ Instr.b \in 0 .. chunk.slots - 1
        /\ R(Instr.a) \in Word
    BY <1>12, OperandsOK, RegisterValue
    DEF DoStoreGlobal, Dispatch, FieldsOK, Reads, WideOps
  <2>2. globals' \in [0 .. chunk.slots - 1 -> Word]
    BY <1>12, <2>1 DEF DoStoreGlobal, TypeOK
  <2>3. ip' \in Int
    BY <1>12 DEF DoStoreGlobal, Advance, Goto, Slots, TypeOK
  <2> QED
    BY <1>12, <2>2, <2>3 DEF DoStoreGlobal, Advance, Goto, TypeOK
<1>13. CASE DoUnary
  <2>1. R(Instr.b) \in Word /\ Instr.fn \in Fns
    BY <1>13, OperandsOK, RegisterValue DEF DoUnary, Dispatch, FieldsOK, Reads, WideOps
  <2>2. Alu(Instr.fn, R(Instr.b), 0) \in Word
    BY <2>1, WordAssumption
  <2> QED
    BY <1>13, <2>2, SetAType DEF DoUnary, Dispatch, WriteOps
<1>14. CASE DoAlu
  <2>1. R(Instr.b) \in Word /\ Instr.fn \in Fns /\ Right \in Word
    BY <1>14, OperandsOK, RegisterValue
    DEF DoAlu, Dispatch, FieldsOK, Reads, WideOps, Right
  <2>2. Alu(Instr.fn, R(Instr.b), Right) \in Word
    BY <2>1, WordAssumption
  <2> QED
    BY <1>14, <2>2, SetAType DEF DoAlu, Dispatch, WriteOps
<1>15. CASE DoDivideByZero \/ DoCallOverflow \/ DoArgsOverflow
  BY <1>15, StopType DEF DoDivideByZero, DoCallOverflow, DoArgsOverflow, Statuses, Errors
<1>16. CASE DoCall
  <2>0. /\ Decodes
        /\ Instr.op \in {"CALL", "CALL_VOID"}
    BY <1>16 DEF DoCall, Dispatch
  <2>1. /\ Payload.a \in Int
        /\ Instr.b \in Regs
        /\ Instr.op = "CALL" => Instr.a \in Regs
        /\ ip + 2 \in Nat
    <3>1. Payload \in Words
      BY <2>0, OperandsOK DEF WideOps
    <3>2. FieldsOK(chunk, Instr)
      BY <2>0, OperandsOK
    <3>3. Payload.a \in Int
      BY <3>1 DEF Words
    <3>4. Instr.b \in Regs
      BY <2>0, <3>2 DEF FieldsOK, WideOps
    <3>5. Instr.op = "CALL" => Instr.a \in Regs
      BY <3>2 DEF FieldsOK, WriteOps
    <3>6. ip + 2 \in Nat
      BY <2>0, OperandsOK DEF Decodes, IsChunk, IsCode
    <3> QED
      BY <3>3, <3>4, <3>5, <3>6
  <2>2. base + Instr.b \in 0 .. StackCapacity - RegWindow
    BY <1>16, <2>1, SizesAssumption DEF DoCall, WindowFits, Regs, TypeOK
  <2>3. fp \in FrameIdx
    BY <1>16, SizesAssumption DEF DoCall, FrameIdx, TypeOK
  <2>4. frames' \in [FrameIdx -> [return_ip : Nat,
                                 register_base : 0 .. StackCapacity - RegWindow,
                                 return_reg : Regs \union {ACU_FRAME_NO_RET}]]
    BY <1>16, <2>1, <2>3 DEF DoCall, TypeOK
  <2>5. fp' \in 0 .. FrameCapacity
    BY <1>16, SizesAssumption DEF DoCall, TypeOK
  <2> QED
    BY <1>16, <2>1, <2>2, <2>4, <2>5 DEF DoCall, TypeOK
<1>17. CASE DoTailCall
  <2>1. Payload.a \in Int /\ Instr.b \in Regs /\ Instr.c \in Regs
    BY <1>17, OperandsOK DEF DoTailCall, Dispatch, FieldsOK, Words, WideOps
  <2>2. ASSUME NEW s \in Slot, s - base \in 0 .. Instr.c - 1
        PROVE  s + Instr.b \in Slot
    <3>1. Instr.b + Instr.c <= RegWindow
      BY <1>17 DEF DoTailCall, ArgsFit
    <3>2. base \in 0 .. StackCapacity - RegWindow
      BY DEF TypeOK
    <3> QED
      BY <2>1, <2>2, <3>1, <3>2, SizesAssumption DEF Slot, Regs
  <2>3. stack' \in [Slot -> Word]
    BY <1>17, <2>2 DEF DoTailCall, TypeOK
  <2> QED
    BY <1>17, <2>1, <2>3, GotoType DEF DoTailCall
<1>18. CASE DoRet
  <2>1. Caller \in [return_ip : Nat, register_base : 0 .. StackCapacity - RegWindow,
                    return_reg : Regs \union {ACU_FRAME_NO_RET}]
    BY <1>18, SizesAssumption DEF DoRet, Caller, TypeOK, FrameIdx
  <2>2. Caller.return_reg >= 0 => Caller.register_base + Caller.return_reg \in Slot
    BY <2>1, SizesAssumption DEF Regs, Slot
  <2>3. R(Instr.a) \in Word
    BY <1>18, OperandsOK, RegisterValue DEF DoRet, Dispatch, FieldsOK, Reads, WideOps
  <2>4. stack' \in [Slot -> Word]
    BY <1>18, <2>2, <2>3 DEF DoRet, TypeOK
  <2> QED
    BY <1>18, <2>1, <2>4, SizesAssumption DEF DoRet, PopFrame, TypeOK
<1>19. CASE DoRetVoid
  <2>1. Caller \in [return_ip : Nat, register_base : 0 .. StackCapacity - RegWindow,
                    return_reg : Regs \union {ACU_FRAME_NO_RET}]
    BY <1>19, SizesAssumption DEF DoRetVoid, Caller, TypeOK, FrameIdx
  <2> QED
    BY <1>19, <2>1, SizesAssumption DEF DoRetVoid, PopFrame, TypeOK
<1>20. CASE Syscalls
  <2>1. Decodes /\ Instr.op \in SyscallOps
    BY <1>20
    DEF Syscalls, Syscall, Dispatch, SysPrint, SysPrintNoArgs, SysRead, SysReadFails,
        SysClock, SysMath, SysRandom, SysSeed, SysExit, SysPanic
  <2>2. R(Instr.b) \in Word
    BY <2>1, OperandsOK, RegisterValue DEF FieldsOK, SyscallOps, WideOps
  <2>3. CASE SysPrint
    BY <2>2, <2>3, AnswerType, WordAssumption DEF SysPrint, Syscall, TypeOK
  <2>4. CASE SysPrintNoArgs \/ SysReadFails \/ SysPanic
    BY <2>4, StopType DEF SysPrintNoArgs, SysReadFails, SysPanic, Statuses, Errors
  <2>5. CASE SysMath
    <3>1. Alu("NEG", R(Instr.b), 0) \in Word
      BY <2>2, WordAssumption DEF Fns, UnaryFns
    <3> QED
      BY <2>5, <3>1, AnswerType DEF SysMath, Syscall, TypeOK
  <2>6. CASE SysRandom
    BY <2>6, AnswerType, WordAssumption DEF SysRandom, Syscall, TypeOK
  <2>7. CASE SysSeed
    BY <2>2, <2>7, AnswerType, WordAssumption DEF SysSeed, Syscall, TypeOK
  <2>8. CASE SysExit
    BY <2>2, <2>8, WordAssumption DEF SysExit, TypeOK, Statuses
  <2>9. CASE \E v \in Word : SysRead(v) \/ SysClock(v)
    BY <2>9, AnswerType DEF SysRead, SysClock, Syscall, TypeOK
  <2> QED
    BY <1>20, <2>3, <2>4, <2>5, <2>6, <2>7, <2>8, <2>9 DEF Syscalls
<1>21. CASE WildFetch \/ WildSyscall \/ FrameUnderflow
  BY <1>21, StopType DEF WildFetch, WildSyscall, FrameUnderflow, Statuses
<1>22. CASE UNCHANGED vars
  BY <1>22 DEF vars, TypeOK
<1> QED
  BY <1>1, <1>2, <1>3, <1>4, <1>5, <1>6, <1>7, <1>8, <1>9, <1>10, <1>11, <1>12, <1>13,
     <1>14, <1>15, <1>16, <1>17, <1>18, <1>19, <1>20, <1>21, <1>22
  DEF Next, Handler

(* Every variable keeps its type whatever code the VM runs: registers stay *)
(* words, the window stays inside the stack and frame indices inside the   *)
(* frame array, so the handlers of vm.c never write outside them (wild     *)
(* fetches, syscall ids and frame underflows, which the VM does not check, *)
(* end in UNDEFINED).                                                      *)
THEOREM TypeCorrect == Spec => []TypeOK
BY InitType, NextType, PTL DEF Spec
-----------------------------------------------------------------------------
(* Frames.  Only Load, CALL and the returns touch the frame stack, and the  *)
(* other steps write the stack in the active window or above it.           *)

Quiet == UNCHANGED <<chunk, base, frames, fp>>

BelowKept == \A s \in Slot : s < base => stack'[s] = stack[s]

LEMMA SetABelow ==
  ASSUME TypeOK, Decodes, Instr.op \in WriteOps, NEW v, SetA(v)
  PROVE  Quiet /\ BelowKept
<1>1. Instr.a \in Nat
  BY OperandsOK, SizesAssumption DEF FieldsOK, Regs
<1>2. base \in Nat /\ \A s \in Slot : s \in Int
  BY SizesAssumption DEF TypeOK, Slot
<1>3. BelowKept
  BY <1>1, <1>2 DEF BelowKept, SetA, TypeOK
<1> QED
  BY <1>3 DEF SetA, Advance, Goto, Quiet

LEMMA Steps ==
  ASSUME TypeOK, [Next]_vars
  PROVE  \/ Quiet /\ BelowKept
         \/ \E ch \in Reloads : Load(ch)
         \/ DoCall \/ DoRet \/ DoRetVoid
<1> USE DEF Dispatch
<1>1. CASE Run
  BY <1>1 DEF Run, Quiet, BelowKept
<1>2. CASE DoNop \/ DoHalt \/ DoJump \/ DoJumpIf \/ DoJumpCmp \/ DoJumpCmpImm
  BY <1>2
  DEF DoNop, DoHalt, DoJump, DoJumpIf, DoJumpCmp, DoJumpCmpImm, JumpWhen, Advance, Goto,
      Quiet, BelowKept
<1>3. CASE DoMove \/ DoLoadImm \/ DoLoadPool \/ DoLoadGlobal \/ DoUnary \/ DoAlu
  BY <1>3, SetABelow
  DEF DoMove, DoLoadImm, DoLoadPool, DoLoadGlobal, DoUnary, DoAlu, WriteOps
<1>4. CASE DoStoreGlobal
  BY <1>4 DEF DoStoreGlobal, Advance, Goto, Quiet, BelowKept
<1>5. CASE DoDivideByZero \/ DoCallOverflow \/ DoArgsOverflow
  BY <1>5 DEF DoDivideByZero, DoCallOverflow, DoArgsOverflow, Stop, Quiet, BelowKept
<1>6. CASE DoTailCall
  <2>1. base \in Nat /\ \A s \in Slot : s \in Int
    BY SizesAssumption DEF TypeOK, Slot
  <2>2. Instr.c \in Int
    BY <1>6, OperandsOK DEF DoTailCall, Words
  <2>3. \A s \in Slot : s < base => ~ (s - base \in 0 .. Instr.c - 1)
    BY <2>1, <2>2
  <2> QED
    BY <1>6, <2>3 DEF DoTailCall, Goto, Quiet, BelowKept
<1>7. CASE Syscalls
  <2>1. CASE SysPrintNoArgs \/ SysReadFails \/ SysExit \/ SysPanic
    BY <2>1 DEF SysPrintNoArgs, SysReadFails, SysExit, SysPanic, Stop, Quiet, BelowKept
  <2>2. ASSUME NEW v, Dispatch(SyscallOps), Answer(v)
        PROVE  Quiet /\ BelowKept
    <3>1. CASE Instr.op = "SYSCALL"
      <4>1. Instr.a \in Nat
        BY <2>2, <3>1, OperandsOK, SizesAssumption DEF FieldsOK, Regs, WriteOps
      <4>2. base \in Nat /\ \A s \in Slot : s \in Int
        BY SizesAssumption DEF TypeOK, Slot
      <4>3. BelowKept
        BY <2>2, <3>1, <4>1, <4>2 DEF Answer, BelowKept, TypeOK
      <4> QED
        BY <2>2, <4>3 DEF Answer, Advance, Goto, Quiet
    <3>2. CASE Instr.op # "SYSCALL"
      BY <2>2, <3>2 DEF Answer, Advance, Goto, Quiet, BelowKept
    <3> QED
      BY <3>1, <3>2
  <2>3. CASE \/ SysPrint \/ SysMath \/ SysRandom \/ SysSeed
             \/ \E v \in Word : SysRead(v) \/ SysClock(v)
    BY <2>2, <2>3 DEF SysPrint, SysMath, SysRandom, SysSeed, SysRead, SysClock, Syscall
  <2> QED
    BY <1>7, <2>1, <2>3 DEF Syscalls
<1>8. CASE WildFetch \/ WildSyscall \/ FrameUnderflow
  BY <1>8 DEF WildFetch, WildSyscall, FrameUnderflow, Stop, Quiet, BelowKept
<1>9. CASE UNCHANGED vars
  BY <1>9 DEF vars, Quiet, BelowKept
<1> QED
  BY <1>1, <1>2, <1>3, <1>4, <1>5, <1>6, <1>7, <1>8, <1>9 DEF Next, Handler

LEMMA NextFrames == TypeOK /\ FramesMatchCalls /\ [Next]_vars => FramesMatchCalls'
<1> SUFFICES ASSUME TypeOK, FramesMatchCalls, [Next]_vars
             PROVE  FramesMatchCalls'
  OBVIOUS
<1>1. CASE Quiet
  BY <1>1 DEF Quiet, FramesMatchCalls, BaseOf
<1>2. CASE \E ch \in Reloads : Load(ch)
  BY <1>2 DEF Load, FramesMatchCalls
<1>3. CASE DoCall
  <2> DEFINE fr == [return_ip     |-> ip + 2,
                    register_base |-> base,
                    return_reg    |-> IF Instr.op = "CALL" THEN Instr.a ELSE ACU_FRAME_NO_RET]
  <2>1. /\ fp \in Nat /\ fp' = fp + 1 /\ chunk' = chunk
        /\ base' = base + Instr.b
        /\ frames'[fp] = fr
        /\ \A f \in 0 .. fp - 1 : frames'[f] = frames[f]
    BY <1>3, SizesAssumption DEF DoCall, TypeOK, FrameIdx
  <2>2. /\ ip \in 0 .. chunk.size - 1
        /\ chunk.code[ip] = Instr
        /\ Instr.op \in {"CALL", "CALL_VOID"}
        /\ chunk.size \in Nat
    BY <1>3, OperandsOK DEF DoCall, Dispatch, Decodes, Instr, IsChunk, IsCode
  <2>3. ASSUME NEW f \in 0 .. fp - 1
        PROVE  BaseOf(f + 1)' = BaseOf(f + 1)
    BY <2>1 DEF BaseOf
  <2>4. frames'[0].register_base = 0
    BY <2>1 DEF FramesMatchCalls
  <2>5. ip + 2 - 2 = ip
    BY <2>2
  <2>6. ASSUME NEW f \in 0 .. fp
        PROVE  LET fm   == frames'[f]
                   call == chunk.code[fm.return_ip - 2]
               IN  /\ fm.return_ip - 2 \in 0 .. chunk.size - 1
                   /\ call.op \in {"CALL", "CALL_VOID"}
                   /\ fm.return_reg = IF call.op = "CALL" THEN call.a ELSE ACU_FRAME_NO_RET
                   /\ BaseOf(f + 1)' = fm.register_base + call.b
    <3>1. CASE f = fp
      <4>1. BaseOf(f + 1)' = base + Instr.b
        BY <2>1, <3>1 DEF BaseOf
      <4> QED
        BY <2>1, <2>2, <2>5, <3>1, <4>1
    <3>2. CASE f \in 0 .. fp - 1
      BY <2>1, <2>3, <3>2 DEF FramesMatchCalls
    <3> QED
      BY <2>1, <3>1, <3>2
  <2> QED
    BY <2>1, <2>4, <2>6 DEF FramesMatchCalls
<1>4. CASE DoRet \/ DoRetVoid
  <2>1. /\ fp \in Nat /\ fp' = fp - 1 /\ fp > 0
        /\ chunk' = chunk /\ frames' = frames
        /\ base' = frames[fp - 1].register_base
    BY <1>4, SizesAssumption DEF DoRet, DoRetVoid, PopFrame, Caller, TypeOK
  <2>2. ASSUME NEW f \in 0 .. fp - 2
        PROVE  BaseOf(f + 1)' = BaseOf(f + 1)
    BY <2>1 DEF BaseOf
  <2> QED
    BY <2>1, <2>2 DEF FramesMatchCalls
<1> QED
  BY <1>1, <1>2, <1>3, <1>4, Steps

(* Whatever the code does, each frame on the stack belongs to one CALL of  *)
(* the chunk and brings the VM back to that CALL's next word, window and   *)
(* destination (the frames of vm.c).                                       *)
THEOREM FramesCorrect == Spec => []FramesMatchCalls
<1>1. Init => FramesMatchCalls
  BY DEF Init, FramesMatchCalls
<1> QED
  BY <1>1, InitType, NextType, NextFrames, PTL DEF Spec
-----------------------------------------------------------------------------
(* Well-formed code.                                                       *)

AllWellFormed == \A ch \in Chunks : WellFormed(ch)

CodeInv ==
  /\ DepthMatchesCode
  /\ NoUndefined
  /\ status = "LOADED" => ip = 0 /\ fp = 0

LEMMA AtInstruction ==
  ASSUME AllWellFormed, TypeOK, CodeInv, status = "RUNNING"
  PROVE  /\ ip \in 0 .. chunk.size - 1
         /\ Decodes
         /\ WellFormedAt(chunk, ip)
<1>1. InstrOf(chunk, chunk.fn[ip], ip)
  BY DEF CodeInv, DepthMatchesCode
<1>2. ip \in 0 .. chunk.size - 1 /\ Decodes /\ chunk.code[ip].op # "WORD"
  BY <1>1 DEF InstrOf, Decodes, Instr
<1>3. WellFormed(chunk)
  BY DEF AllWellFormed, TypeOK
<1> QED
  BY <1>2, <1>3 DEF WellFormed

(* Moving to another instruction of the same function.                     *)
LEMMA SameFunction ==
  ASSUME CodeInv, status = "RUNNING", NEW p, Goto(p), InstrOf(chunk, chunk.fn[ip], p)
  PROVE  CodeInv'
<1>1. /\ chunk' = chunk /\ frames' = frames /\ fp' = fp /\ status' = "RUNNING" /\ ip' = p
      /\ chunk.fn[p] = chunk.fn[ip]
  BY DEF Goto, InstrOf
<1>2. DepthMatchesCode'
  BY <1>1 DEF CodeInv, DepthMatchesCode, InstrOf
<1> QED
  BY <1>1, <1>2 DEF CodeInv, NoUndefined

LEMMA FallThrough ==
  ASSUME AllWellFormed, TypeOK, CodeInv, status = "RUNNING", Advance,
         \/ Instr.op \in Ops \ (Terminators \union SyscallOps)
         \/ Instr.op \in SyscallOps /\ Payload.fn \notin {"exit", "panic"}
  PROVE  CodeInv'
<1>1. FallsThrough(chunk, ip)
  BY DEF FallsThrough, Instr, Payload
<1>2. InstrOf(chunk, chunk.fn[ip], ip + Slots(Instr.op))
  BY <1>1, AtInstruction DEF WellFormedAt, Instr
<1> QED
  BY <1>2, SameFunction DEF Advance

LEMMA Jumping ==
  ASSUME AllWellFormed, TypeOK, CodeInv, status = "RUNNING", Instr.op \in Jumps,
         NEW taken, JumpWhen(taken),
         Instr.op = "JUMP" => taken
  PROVE  CodeInv'
<1>1. InstrOf(chunk, chunk.fn[ip], JumpTarget(ip, Instr))
  BY AtInstruction DEF WellFormedAt, Instr
<1>2. CASE taken
  BY <1>1, <1>2, SameFunction DEF JumpWhen
<1>3. CASE ~ taken
  <2>1. Instr.op \in Ops \ (Terminators \union SyscallOps) /\ Slots(Instr.op) = 1
    BY <1>3 DEF Jumps, CondJumps, Ops, Terminators, SyscallOps, Slots, WideOps
  <2> QED
    BY <1>3, <2>1, FallThrough DEF JumpWhen, Advance
<1> QED
  BY <1>2, <1>3

LEMMA Stopping ==
  ASSUME status' \notin {"RUNNING", "LOADED", "UNDEFINED"}
  PROVE  CodeInv'
BY DEF CodeInv, DepthMatchesCode, NoUndefined

LEMMA NextCode ==
  ASSUME AllWellFormed
  PROVE  TypeOK /\ CodeInv /\ [Next]_vars => CodeInv'
<1> SUFFICES ASSUME TypeOK, CodeInv, [Next]_vars
             PROVE  CodeInv'
  OBVIOUS
<1> USE DEF Dispatch
<1>1. CASE Run
  <2>1. CASE chunk.size = 0
    BY <1>1, <2>1, Stopping DEF Run
  <2>2. CASE chunk.size # 0
    <3>1. InstrOf(chunk, 0, 0)
      BY <2>2, ChunksAssumption DEF AllWellFormed, WellFormed, TypeOK, IsChunk, IsCode
    <3>2. chunk' = chunk /\ ip' = 0 /\ fp' = 0 /\ status' = "RUNNING"
      BY <1>1, <2>2 DEF Run, CodeInv
    <3> QED
      BY <3>1, <3>2 DEF CodeInv, DepthMatchesCode, NoUndefined, InstrOf
  <2> QED
    BY <2>1, <2>2
<1>2. CASE \E ch \in Reloads : Load(ch)
  BY <1>2 DEF Load, CodeInv, DepthMatchesCode, NoUndefined
<1>3. CASE DoHalt \/ DoDivideByZero \/ DoCallOverflow \/ DoArgsOverflow
  BY <1>3, Stopping DEF DoHalt, DoDivideByZero, DoCallOverflow, DoArgsOverflow, Stop
<1>4. CASE DoNop \/ DoMove \/ DoLoadImm \/ DoLoadPool \/ DoLoadGlobal \/ DoStoreGlobal \/ DoUnary \/ DoAlu
  <2>1. Instr.op \in Ops \ (Terminators \union SyscallOps)
    BY <1>4
    DEF DoNop, DoMove, DoLoadImm, DoLoadPool, DoLoadGlobal, DoStoreGlobal, DoUnary, DoAlu,
        Ops, Terminators, SyscallOps
  <2> QED
    BY <1>4, <2>1, FallThrough
    DEF DoNop, DoMove, DoLoadImm, DoLoadPool, DoLoadGlobal, DoStoreGlobal, DoUnary, DoAlu, SetA
<1>5. CASE DoJump \/ DoJumpIf
  BY <1>5, Jumping DEF DoJump, DoJumpIf, Jumps, CondJumps
<1>6. CASE DoJumpCmp
  BY <1>6, Jumping DEF DoJumpCmp, Jumps, CondJumps
<1>7. CASE DoJumpCmpImm
  BY <1>7, Jumping DEF DoJumpCmpImm, Jumps, CondJumps
<1>8. CASE DoCall
  <2> DEFINE t == Payload.a
             ret == ip + 2
  <2>1. /\ status = "RUNNING" /\ Instr.op \in BytecodeCalls /\ Slots(Instr.op) = 2
        /\ FallsThrough(chunk, ip)
    BY <1>8
    DEF DoCall, BytecodeCalls, Slots, WideOps, FallsThrough, Ops, Terminators, SyscallOps, Instr
  <2>2. InstrOf(chunk, chunk.fn[t], t) /\ chunk.fn[t] # 0
    BY <2>1, AtInstruction DEF WellFormedAt, Instr, Payload
  <2>3. InstrOf(chunk, chunk.fn[ip], ret)
    BY <2>1, AtInstruction DEF WellFormedAt, Instr
  <2>4. chunk.fn[ret] = chunk.fn[ip]
    BY <2>3 DEF InstrOf
  <2>5. /\ fp \in Nat /\ fp' = fp + 1 /\ chunk' = chunk /\ ip' = t /\ status' = "RUNNING"
        /\ frames'[fp].return_ip = ret
        /\ \A f \in 0 .. fp - 1 : frames'[f] = frames[f]
    BY <1>8, SizesAssumption DEF DoCall, TypeOK, FrameIdx
  <2>6. ASSUME NEW f \in 0 .. fp
        PROVE  /\ InstrOf(chunk, chunk.fn[frames'[f].return_ip], frames'[f].return_ip)
               /\ chunk.fn[frames'[f].return_ip] = 0 <=> f = 0
    <3>1. CASE f = fp
      BY <2>1, <2>3, <2>4, <2>5, <3>1 DEF CodeInv, DepthMatchesCode
    <3>2. CASE f \in 0 .. fp - 1
      BY <2>1, <2>5, <3>2 DEF CodeInv, DepthMatchesCode
    <3> QED
      BY <2>5, <3>1, <3>2
  <2>7. DepthMatchesCode'
    BY <2>2, <2>5, <2>6 DEF DepthMatchesCode, InstrOf
  <2> QED
    BY <2>5, <2>7 DEF CodeInv, NoUndefined
<1>9. CASE DoTailCall
  <2> DEFINE t == Payload.a
  <2>1. /\ status = "RUNNING" /\ Instr.op = "TAILCALL" /\ Instr.op \in BytecodeCalls
    BY <1>9 DEF DoTailCall, BytecodeCalls
  <2>2. InstrOf(chunk, chunk.fn[t], t) /\ chunk.fn[t] # 0 /\ chunk.fn[ip] # 0
    BY <2>1, AtInstruction DEF WellFormedAt, Instr, Payload
  <2>3. /\ chunk' = chunk /\ frames' = frames /\ fp' = fp /\ status' = "RUNNING" /\ ip' = t
    BY <1>9, <2>1 DEF DoTailCall, Goto
  <2>4. DepthMatchesCode'
    BY <2>1, <2>2, <2>3 DEF CodeInv, DepthMatchesCode, InstrOf
  <2> QED
    BY <2>3, <2>4 DEF CodeInv, NoUndefined
<1>10. CASE DoRet \/ DoRetVoid
  <2> DEFINE ret == frames[fp - 1].return_ip
  <2>1. /\ fp \in Nat /\ fp > 0 /\ fp' = fp - 1 /\ status = "RUNNING" /\ status' = "RUNNING"
        /\ chunk' = chunk /\ frames' = frames /\ ip' = ret
    BY <1>10, SizesAssumption DEF DoRet, DoRetVoid, PopFrame, Caller, TypeOK
  <2>2. /\ InstrOf(chunk, chunk.fn[ret], ret)
        /\ chunk.fn[ret] = 0 <=> fp - 1 = 0
    BY <2>1 DEF CodeInv, DepthMatchesCode
  <2>3. \A f \in 0 .. fp' - 1 : f \in 0 .. fp - 1
    BY <2>1
  <2>4. DepthMatchesCode'
    BY <2>1, <2>2, <2>3 DEF CodeInv, DepthMatchesCode, InstrOf
  <2> QED
    BY <2>1, <2>4 DEF CodeInv, NoUndefined
<1>11. CASE SysPrintNoArgs \/ SysReadFails \/ SysExit \/ SysPanic
  BY <1>11, Stopping DEF SysPrintNoArgs, SysReadFails, SysExit, SysPanic, Stop
<1>12. CASE \/ SysPrint \/ SysMath \/ SysRandom \/ SysSeed
            \/ \E v \in Word : SysRead(v) \/ SysClock(v)
  BY <1>12, FallThrough
  DEF SysPrint, SysMath, SysRandom, SysSeed, SysRead, SysClock, Syscall, Answer
<1>13. CASE WildFetch
  BY <1>13, AtInstruction DEF WildFetch
<1>14. CASE WildSyscall
  BY <1>14, AtInstruction DEF WildSyscall, WellFormedAt, Instr, Payload
<1>15. CASE FrameUnderflow
  <2>1. chunk.fn[ip] # 0
    BY <1>15, AtInstruction DEF FrameUnderflow, WellFormedAt, Instr
  <2> QED
    BY <1>15, <2>1 DEF FrameUnderflow, CodeInv, DepthMatchesCode
<1>16. CASE UNCHANGED vars
  BY <1>16 DEF vars, CodeInv, DepthMatchesCode, NoUndefined
<1> QED
  BY <1>1, <1>2, <1>3, <1>4, <1>5, <1>6, <1>7, <1>8, <1>9, <1>10, <1>11, <1>12, <1>13,
     <1>14, <1>15, <1>16
  DEF Next, Handler, Syscalls

LEMMA CodeCorrect ==
  ASSUME AllWellFormed
  PROVE  Spec => []CodeInv
<1>1. Init => CodeInv
  BY DEF Init, CodeInv, DepthMatchesCode, NoUndefined
<1>2. TypeOK /\ CodeInv /\ [Next]_vars => CodeInv'
  BY NextCode
<1> QED
  BY <1>1, <1>2, InitType, NextType, PTL DEF Spec

(* If the code generator keeps its promises, the frame stack is empty      *)
(* exactly in module-level code, at any frame capacity.                    *)
THEOREM DepthCorrect ==
  ASSUME AllWellFormed
  PROVE  Spec => []DepthMatchesCode
<1>1. CodeInv => DepthMatchesCode
  BY DEF CodeInv
<1> QED
  BY <1>1, CodeCorrect, PTL

(* If the code generator keeps its promises, the checks that vm.c leaves   *)
(* out are not missed.                                                     *)
THEOREM Defined ==
  ASSUME AllWellFormed
  PROVE  Spec => []NoUndefined
<1>1. CodeInv => NoUndefined
  BY DEF CodeInv
<1> QED
  BY <1>1, CodeCorrect, PTL
-----------------------------------------------------------------------------
(* Refinement.  Windows only ever slide up along the frame stack, so the   *)
(* registers a waiting caller keeps lie below the active window.           *)

Sliding ==
  \A f \in 0 .. fp, g \in 0 .. fp : f <= g => BaseOf(f) <= BaseOf(g)

Windows == TypeOK /\ FramesMatchCalls /\ Sliding

(* What FramesMatchCalls says of a frame, with its types.                  *)
LEMMA FrameOK ==
  ASSUME Windows, NEW f \in 0 .. fp - 1
  PROVE  /\ frames[f].register_base \in Nat
         /\ BaseOf(f) = frames[f].register_base
         /\ frames[f].return_reg \in Regs \union {-1}
         /\ BaseOf(f + 1) - frames[f].register_base \in Regs
         /\ BaseOf(f + 1) \in Nat /\ BaseOf(f + 1) <= base
<1>1. fp \in Nat /\ f \in FrameIdx /\ f # fp
  BY SizesAssumption DEF Windows, TypeOK, FrameIdx
<1>2. frames[f] \in [return_ip : Nat, register_base : 0 .. StackCapacity - RegWindow,
                     return_reg : Regs \union {ACU_FRAME_NO_RET}]
  BY <1>1 DEF Windows, TypeOK
<1> DEFINE call == chunk.code[frames[f].return_ip - 2]
<1>3. /\ frames[f].return_ip - 2 \in 0 .. chunk.size - 1
      /\ call.op \in WideOps
      /\ BaseOf(f + 1) = frames[f].register_base + call.b
  BY DEF Windows, FramesMatchCalls, WideOps
<1>4. FieldsOK(chunk, call)
  BY <1>3, ChunksAssumption DEF Windows, TypeOK, IsChunk, IsCode
<1>5. call.b \in Regs
  BY <1>3, <1>4 DEF FieldsOK
<1>6. BaseOf(f + 1) <= BaseOf(fp)
  BY <1>1 DEF Windows, Sliding
<1>7. BaseOf(fp) = base
  BY DEF BaseOf
<1> QED
  BY <1>1, <1>2, <1>3, <1>5, <1>6, <1>7, SizesAssumption DEF BaseOf, Regs

LEMMA NextSliding == Windows /\ [Next]_vars => Sliding'
<1> SUFFICES ASSUME Windows, [Next]_vars
             PROVE  Sliding'
  OBVIOUS
<1>1. TypeOK
  BY DEF Windows
<1>2. CASE Quiet
  BY <1>2 DEF Quiet, Windows, Sliding, BaseOf
<1>3. CASE \E ch \in Reloads : Load(ch)
  BY <1>3 DEF Load, Sliding, BaseOf
<1>4. CASE DoCall
  <2>1. Instr.b \in Nat
    BY <1>1, <1>4, OperandsOK, SizesAssumption DEF DoCall, Dispatch, FieldsOK, WideOps, Regs
  <2>2. /\ fp \in Nat /\ fp' = fp + 1
        /\ base' = base + Instr.b
        /\ frames'[fp].register_base = base
        /\ \A f \in 0 .. fp - 1 : frames'[f] = frames[f]
    BY <1>1, <1>4, SizesAssumption DEF DoCall, TypeOK, FrameIdx
  <2>3. \A f \in 0 .. fp : BaseOf(f)' = BaseOf(f)
    BY <2>2 DEF BaseOf
  <2>4. BaseOf(fp) = base /\ base \in Nat
    BY <1>1, SizesAssumption DEF BaseOf, TypeOK
  <2>5. \A f \in 0 .. fp : BaseOf(f) \in Int /\ BaseOf(f) <= base
    BY <2>2, <2>4, FrameOK DEF Windows, Sliding
  <2>6. ASSUME NEW f \in 0 .. fp + 1, NEW g \in 0 .. fp + 1, f <= g
        PROVE  BaseOf(f)' <= BaseOf(g)'
    <3>1. CASE g = fp + 1 /\ f = fp + 1
      BY <2>1, <2>2, <2>4, <3>1 DEF BaseOf
    <3>2. CASE g = fp + 1 /\ f \in 0 .. fp
      <4>1. BaseOf(g)' = base + Instr.b
        BY <2>2, <3>2 DEF BaseOf
      <4> QED
        BY <2>1, <2>3, <2>4, <2>5, <3>2, <4>1
    <3>3. CASE g \in 0 .. fp /\ f \in 0 .. fp
      BY <2>3, <2>6, <3>3 DEF Windows, Sliding
    <3> QED
      BY <2>2, <2>6, <3>1, <3>2, <3>3
  <2> QED
    BY <2>2, <2>6 DEF Sliding
<1>5. CASE DoRet \/ DoRetVoid
  <2>1. /\ fp \in Nat /\ fp > 0 /\ fp' = fp - 1 /\ frames' = frames
        /\ base' = frames[fp - 1].register_base
    BY <1>1, <1>5, SizesAssumption DEF DoRet, DoRetVoid, PopFrame, Caller, TypeOK
  <2>2. \A f \in 0 .. fp - 1 : BaseOf(f)' = BaseOf(f)
    BY <2>1 DEF BaseOf
  <2> QED
    BY <2>1, <2>2 DEF Windows, Sliding
<1> QED
  BY <1>1, <1>2, <1>3, <1>4, <1>5, Steps

LEMMA WindowsCorrect == Spec => []Windows
<1>1. Init => Windows
  BY InitType DEF Init, Windows, FramesMatchCalls, Sliding, BaseOf
<1>2. Windows /\ [Next]_vars => Windows'
  BY NextType, NextFrames, NextSliding DEF Windows
<1> QED
  BY <1>1, <1>2, PTL DEF Spec

(* The refinement mapping, named.                                          *)
MRegs == [r \in Regs |-> stack[base + r]]

MLow(f) == [r \in 0 .. BaseOf(f + 1) - frames[f].register_base - 1
              |-> stack[frames[f].register_base + r]]

MSaved == [f \in 0 .. fp - 1 |-> [dst |-> frames[f].return_reg, low |-> MLow(f)]]

LEMMA NextRegs == TypeOK' => MRegs' \in [Regs -> Word]
<1> SUFFICES ASSUME TypeOK'
             PROVE  MRegs' \in [Regs -> Word]
  OBVIOUS
<1>1. stack' \in [Slot -> Word] /\ base' \in 0 .. StackCapacity - RegWindow
  BY DEF TypeOK
<1>2. ASSUME NEW b \in 0 .. StackCapacity - RegWindow, NEW r \in Regs
      PROVE  b + r \in Slot
  BY SizesAssumption DEF Regs, Slot
<1>3. \A r \in Regs : base' + r \in Slot
  BY <1>1, <1>2
<1> QED
  BY <1>1, <1>3 DEF MRegs

(* What a waiting caller keeps is unchanged by writes above its window.    *)
LEMMA KeptBelow ==
  ASSUME Windows, NEW f \in 0 .. fp - 1,
         frames'[f] = frames[f],
         BaseOf(f + 1)' = BaseOf(f + 1),
         \A s \in Slot : s < BaseOf(f + 1) => stack'[s] = stack[s]
  PROVE  MLow(f)' = MLow(f)
<1> DEFINE rb == frames[f].register_base
<1>1. /\ rb \in Nat /\ BaseOf(f + 1) \in Nat /\ BaseOf(f + 1) <= base
      /\ base <= StackCapacity - RegWindow /\ base \in Nat
  BY FrameOK, SizesAssumption DEF Windows, TypeOK
<1>2. ASSUME NEW r \in 0 .. BaseOf(f + 1) - rb - 1
      PROVE  stack'[rb + r] = stack[rb + r]
  BY <1>1, <1>2, SizesAssumption DEF Slot
<1> QED
  BY <1>2 DEF MLow

LEMMA DataStep ==
  ASSUME Windows, Windows', Quiet, BelowKept
  PROVE  Calls!Compute
<1>1. MRegs' \in [Regs -> Word]
  BY NextRegs DEF Windows
<1>2. ASSUME NEW f \in 0 .. fp - 1
      PROVE  MLow(f)' = MLow(f) /\ frames'[f] = frames[f]
  <2>1. BaseOf(f + 1)' = BaseOf(f + 1) /\ frames'[f] = frames[f]
    BY DEF Quiet, BaseOf
  <2>2. ASSUME NEW s \in Slot, s < BaseOf(f + 1)
        PROVE  stack'[s] = stack[s]
    <3>1. s \in Int /\ base \in Int
      BY SizesAssumption DEF Slot, Windows, TypeOK
    <3>2. s < base
      BY <2>2, <3>1, FrameOK
    <3> QED
      BY <3>2 DEF BelowKept
  <2> QED
    BY <2>1, <2>2, KeptBelow
<1>3. MSaved' = MSaved
  BY <1>2 DEF MSaved, Quiet
<1> QED
  BY <1>1, <1>3 DEF Calls!Compute, Calls!Regs, Regs, MRegs, MSaved, MLow, Quiet

LEMMA LoadStep ==
  ASSUME NEW ch \in Reloads, Load(ch)
  PROVE  Calls!Reset
<1>1. \A r \in Regs : 0 + r \in Slot
  BY SizesAssumption DEF Regs, Slot
<1> QED
  BY <1>1 DEF Load, Calls!Reset, Calls!Zeros, Calls!Regs, Regs, BaseOf

LEMMA CallStep ==
  ASSUME Windows, Windows', DoCall
  PROVE  \E b \in Regs, dst \in Regs \union {-1} : Calls!Call(b, dst)
<1>1. TypeOK
  BY DEF Windows
<1>2. PICK b \in Regs, dst \in Regs \union {-1} :
        /\ b = Instr.b
        /\ dst = IF Instr.op = "CALL" THEN Instr.a ELSE ACU_FRAME_NO_RET
  BY <1>1, OperandsOK DEF DoCall, Dispatch, FieldsOK, WideOps, WriteOps
<1>3. /\ fp \in Nat /\ fp' = fp + 1 /\ base' = base + b /\ base \in Nat /\ stack' = stack
      /\ frames'[fp].register_base = base /\ frames'[fp].return_reg = dst
      /\ \A f \in 0 .. fp - 1 : frames'[f] = frames[f]
  BY <1>1, <1>2, SizesAssumption DEF DoCall, TypeOK, FrameIdx
<1>4. MRegs' \in [Regs -> Word]
  BY NextRegs DEF Windows
<1>5. \A r \in Regs : r + b \in Regs => MRegs'[r] = MRegs[r + b]
  <2>1. ASSUME NEW r \in Regs, r + b \in Regs
        PROVE  (base + b) + r = base + (r + b)
    BY <1>3, SizesAssumption DEF Regs
  <2> QED
    BY <1>3, <2>1 DEF MRegs
<1>6. ASSUME NEW f \in 0 .. fp - 1
      PROVE  MLow(f)' = MLow(f) /\ frames'[f] = frames[f]
  <2>1. BaseOf(f + 1)' = BaseOf(f + 1) /\ frames'[f] = frames[f]
    BY <1>3 DEF BaseOf
  <2>2. \A s \in Slot : s < BaseOf(f + 1) => stack'[s] = stack[s]
    BY <1>3
  <2> QED
    BY <2>1, <2>2, KeptBelow
<1>7. ASSUME NEW f, f = fp
      PROVE  MLow(f)' = [r \in 0 .. b - 1 |-> MRegs[r]]
  <2>1. BaseOf(f + 1)' = base + b
    BY <1>3, <1>7 DEF BaseOf
  <2>2. BaseOf(f + 1)' - frames'[f].register_base - 1 = b - 1
    BY <1>3, <1>7, <2>1, SizesAssumption DEF Regs
  <2>3. \A r \in 0 .. b - 1 : r \in Regs
    BY SizesAssumption DEF Regs
  <2>4. MLow(f)' = [r \in 0 .. b - 1 |-> stack[base + r]]
    BY <1>3, <1>7, <2>2 DEF MLow
  <2> QED
    BY <2>3, <2>4 DEF MRegs
<1>8. MSaved' = [f \in 0 .. fp |->
                   IF f = fp THEN [dst |-> dst, low |-> [r \in 0 .. b - 1 |-> MRegs[r]]]
                             ELSE MSaved[f]]
  <2>1. 0 .. fp' - 1 = 0 .. fp
    BY <1>3
  <2>2. ASSUME NEW f \in 0 .. fp
        PROVE  [dst |-> frames'[f].return_reg, low |-> MLow(f)'] =
               IF f = fp THEN [dst |-> dst, low |-> [r \in 0 .. b - 1 |-> MRegs[r]]]
                         ELSE MSaved[f]
    <3>1. CASE f = fp
      BY <1>3, <1>7, <3>1
    <3>2. CASE f \in 0 .. fp - 1
      BY <1>3, <1>6, <3>2 DEF MSaved
    <3> QED
      BY <1>3, <3>1, <3>2
  <2> QED
    BY <2>1, <2>2 DEF MSaved
<1>9. Calls!Call(b, dst)
  BY <1>3, <1>4, <1>5, <1>8 DEF Calls!Call, Calls!Regs, Regs, MRegs, MSaved, MLow
<1> QED
  BY <1>9

(* A return that leaves v in the destination, if there is one.             *)
LEMMA ResumeStep ==
  ASSUME Windows, Windows', fp > 0, PopFrame, NEW v,
         stack' = IF Caller.return_reg >= 0
                  THEN [stack EXCEPT ![Caller.register_base + Caller.return_reg] = v]
                  ELSE stack
  PROVE  Calls!Resume(v)
<1>1. PICK rb, dst : rb = Caller.register_base /\ dst = Caller.return_reg
  OBVIOUS
<1>2. PICK top : top = fp - 1
  OBVIOUS
<1>3. /\ fp \in Nat /\ top \in 0 .. fp - 1 /\ top + 1 = fp /\ fp' = top
      /\ Caller = frames[top] /\ frames' = frames /\ base' = rb
      /\ base \in 0 .. StackCapacity - RegWindow
      /\ stack \in [Slot -> Word]
  BY <1>1, <1>2, SizesAssumption DEF Windows, TypeOK, PopFrame, Caller
<1>4. /\ rb \in Nat /\ dst \in Regs \union {-1}
      /\ base - rb \in Regs /\ rb <= base
      /\ BaseOf(top) = rb
  <2>1. BaseOf(top + 1) = base
    BY <1>3 DEF BaseOf
  <2>2. /\ rb \in Nat /\ dst \in Regs \union {-1} /\ BaseOf(top) = rb
        /\ BaseOf(top + 1) - rb \in Regs
    BY <1>1, <1>3, FrameOK
  <2> QED
    BY <1>3, <2>1, <2>2, SizesAssumption DEF Regs
<1>5. ASSUME NEW r \in Regs
      PROVE  rb + r \in Slot
  BY <1>3, <1>4, SizesAssumption DEF Regs, Slot
<1>6. MRegs' = [r \in Regs |-> stack'[rb + r]]
  BY <1>3 DEF MRegs
<1>7. /\ DOMAIN MSaved[top].low = 0 .. base - rb - 1
      /\ MSaved[top].dst = dst
      /\ \A r \in 0 .. base - rb - 1 : MSaved[top].low[r] = stack[rb + r]
  BY <1>1, <1>3 DEF MSaved, MLow, BaseOf
<1>8. ASSUME NEW r \in (0 .. base - rb - 1) \ {dst}
      PROVE  MRegs'[r] = stack[rb + r]
  <2>1. r \in Regs
    BY <1>3, <1>4, SizesAssumption DEF Regs
  <2>2. dst >= 0 => rb + r # rb + dst
    BY <1>4, <2>1, SizesAssumption DEF Regs
  <2> QED
    BY <1>1, <1>3, <1>5, <1>6, <2>1, <2>2
<1>9. dst \in Regs => MRegs'[dst] = v
  <2> SUFFICES ASSUME dst \in Regs
               PROVE  MRegs'[dst] = v
    OBVIOUS
  <2>1. dst >= 0 /\ rb + dst \in Slot
    BY <1>5, SizesAssumption DEF Regs
  <2>2. stack' = [stack EXCEPT ![rb + dst] = v]
    BY <1>1, <2>1
  <2> QED
    BY <1>3, <1>6, <2>1, <2>2
<1>10. ASSUME NEW f \in 0 .. top - 1
       PROVE  MLow(f)' = MLow(f)
  <2>1. f \in 0 .. fp - 1 /\ f + 1 \in 0 .. top /\ top # fp
    BY <1>3
  <2>2. BaseOf(f + 1)' = BaseOf(f + 1)
    <3>1. CASE f + 1 = top
      BY <1>1, <1>3, <2>1, <3>1 DEF BaseOf
    <3>2. CASE f + 1 # top
      BY <1>3, <2>1, <3>2 DEF BaseOf
    <3> QED
      BY <3>1, <3>2
  <2>3. BaseOf(f + 1) <= rb /\ BaseOf(f + 1) \in Nat
    BY <1>3, <1>4, <2>1, FrameOK DEF Windows, Sliding
  <2>4. ASSUME NEW s \in Slot, s < BaseOf(f + 1)
        PROVE  stack'[s] = stack[s]
    <3>1. dst >= 0 => s # rb + dst
      BY <1>4, <2>3, <2>4, SizesAssumption DEF Slot, Regs
    <3> QED
      BY <1>1, <1>3, <3>1
  <2> QED
    BY <1>3, <2>1, <2>2, <2>4, KeptBelow
<1>11. MSaved' = [f \in 0 .. fp - 2 |-> MSaved[f]]
  <2>1. 0 .. fp' - 1 = 0 .. fp - 2 /\ 0 .. fp - 2 = 0 .. top - 1
    BY <1>3
  <2>2. ASSUME NEW f \in 0 .. top - 1
        PROVE  [dst |-> frames'[f].return_reg, low |-> MLow(f)'] = MSaved[f]
    BY <1>3, <1>10 DEF MSaved
  <2> QED
    BY <2>1, <2>2 DEF MSaved
<1>12. MRegs' \in [Regs -> Word]
  BY NextRegs DEF Windows
<1> HIDE DEF MRegs, MSaved
<1>13. /\ MSaved' = [f \in 0 .. fp - 2 |-> MSaved[f]]
       /\ fp' = fp - 1
       /\ \A r \in DOMAIN MSaved[fp - 1].low \ {MSaved[fp - 1].dst} :
            MRegs'[r] = MSaved[fp - 1].low[r]
       /\ MSaved[fp - 1].dst \in Regs => MRegs'[MSaved[fp - 1].dst] = v
  BY <1>2, <1>3, <1>7, <1>8, <1>9, <1>11
<1> QED
  BY <1>12, <1>13 DEF Calls!Resume, Calls!Regs, Regs, MRegs, MSaved, MLow

LEMMA ReturnStep ==
  ASSUME Windows, Windows', DoRet
  PROVE  \E s \in Regs : Calls!Return(s)
<1>1. PICK s \in Regs : s = Instr.a
  BY OperandsOK DEF DoRet, Dispatch, FieldsOK, Reads, WideOps, Windows
<1>2. PICK v : v = R(s)
  OBVIOUS
<1>3. Calls!Resume(v)
  BY <1>1, <1>2, ResumeStep DEF DoRet
<1>4. v = MRegs[s]
  BY <1>2 DEF R, MRegs
<1>5. Calls!Return(s)
  BY <1>3, <1>4 DEF Calls!Return, Calls!Resume, MRegs, DoRet
<1> QED
  BY <1>5

LEMMA ReturnVoidStep ==
  ASSUME Windows, Windows', DoRetVoid
  PROVE  Calls!ReturnVoid
<1> DEFINE dst == Caller.return_reg
           at  == Caller.register_base + dst
<1>1. /\ fp > 0 /\ fp \in Nat /\ PopFrame /\ stack' = stack
      /\ Caller = frames[fp - 1] /\ fp - 1 \in 0 .. fp - 1
      /\ stack \in [Slot -> Word]
  BY SizesAssumption DEF DoRetVoid, Windows, TypeOK, Caller
<1>2. PICK v \in Word : dst \in Regs => v = stack[at] /\ at \in Slot
  <2>1. Caller.register_base \in 0 .. StackCapacity - RegWindow
    <3>1. fp - 1 \in FrameIdx
      BY SizesAssumption DEF DoRetVoid, Windows, TypeOK, FrameIdx
    <3> QED
      BY <1>1, <3>1 DEF Windows, TypeOK
  <2>2. dst \in Regs => at \in Slot
    BY <2>1, SizesAssumption DEF Regs, Slot
  <2> QED
    BY <1>1, <2>2, WordAssumption
<1>3. dst \in Regs \union {-1} /\ (dst >= 0 => dst \in Regs)
  BY <1>1, FrameOK, SizesAssumption DEF Regs
<1>4. stack' = IF dst >= 0 THEN [stack EXCEPT ![at] = v] ELSE stack
  BY <1>1, <1>2, <1>3
<1>5. Calls!Resume(v)
  BY <1>1, <1>4, ResumeStep
<1>6. /\ MSaved[fp - 1].dst = dst
      /\ \A r \in DOMAIN MSaved[fp - 1].low : /\ r \in Regs
                                             /\ MSaved[fp - 1].low[r] = stack[Caller.register_base + r]
  <2>1. PICK top : top = fp - 1
    OBVIOUS
  <2>2. /\ top \in 0 .. fp - 1
        /\ BaseOf(top + 1) - frames[top].register_base \in Regs
        /\ MSaved[top] = [dst |-> frames[top].return_reg, low |-> MLow(top)]
    BY <1>1, <2>1, FrameOK DEF MSaved
  <2>3. \A r \in 0 .. BaseOf(top + 1) - frames[top].register_base - 1 : r \in Regs
    BY <2>2, SizesAssumption DEF Regs
  <2> QED
    BY <1>1, <2>1, <2>2, <2>3 DEF MLow
<1>7. MSaved[fp - 1].dst \in DOMAIN MSaved[fp - 1].low
        => v = MSaved[fp - 1].low[MSaved[fp - 1].dst]
  BY <1>2, <1>6
<1> QED
  BY <1>1, <1>5, <1>7 DEF Calls!ReturnVoid, MSaved, MLow

(* Every activation has registers of its own: at any capacity and for any  *)
(* code, the shared stack with its overlapping windows implements the      *)
(* calls of AcuCalls, so what a caller keeps below the window of a call is *)
(* there, untouched, when the call returns.                                *)
THEOREM CallsImplemented == Spec => CallsSpec
<1>1. Init => Calls!Init
  <2>1. \A r \in Regs : 0 + r \in Slot
    BY SizesAssumption DEF Regs, Slot
  <2> QED
    BY <2>1 DEF Init, Calls!Init, Calls!Zeros, Calls!Regs, Regs, BaseOf
<1>2. Windows /\ Windows' /\ [Next]_vars => [Calls!Next]_(Calls!vars)
  <2> SUFFICES ASSUME Windows, Windows', [Next]_vars
               PROVE  Calls!Next
    OBVIOUS
  <2>1. CASE Quiet /\ BelowKept
    BY <2>1, DataStep DEF Calls!Next
  <2>2. CASE \E ch \in Reloads : Load(ch)
    BY <2>2, LoadStep DEF Calls!Next
  <2>3. CASE DoCall
    BY <2>3, CallStep DEF Calls!Next, Calls!Regs, Regs
  <2>4. CASE DoRet
    BY <2>4, ReturnStep DEF Calls!Next, Calls!Regs, Regs
  <2>5. CASE DoRetVoid
    BY <2>5, ReturnVoidStep DEF Calls!Next
  <2> QED
    BY <2>1, <2>2, <2>3, <2>4, <2>5, Steps DEF Windows
<1> QED
  BY <1>1, <1>2, WindowsCorrect, PTL DEF Spec, CallsSpec, Calls!Spec
-----------------------------------------------------------------------------
(* Relocated code.  The machine that runs the new code stands at at[ip]    *)
(* when that of the old code stands at ip; nothing else differs.           *)

MovedFrames(at) == [f \in FrameIdx |-> [frames[f] EXCEPT !.return_ip = at[@]]]

Machine(new, at) == INSTANCE AcuVM WITH Chunks <- {new}, Reloads <- {}, chunk <- new,
                                        ip <- at[ip], frames <- MovedFrames(at)

(* What a process of vm/main.c does: it loads one chunk and runs it.       *)
Process == Init /\ [][Run \/ Handler]_vars

HasPools(ch) == {"consts", "strs", "slots"} \subseteq DOMAIN ch

Linked(old, here) ==
  /\ TypeOK /\ chunk = old
  /\ ip \in here /\ \A f \in FrameIdx : frames[f].return_ip \in here

(* Both machines have the same instruction set and the same sizes.         *)
LEMMA SameTables ==
  ASSUME NEW new, NEW at
  PROVE  /\ Machine(new, at)!WideOps = WideOps /\ Machine(new, at)!SyscallOps = SyscallOps
         /\ Machine(new, at)!SyscallIds = SyscallIds /\ Machine(new, at)!ACU_FRAME_NO_RET = ACU_FRAME_NO_RET
         /\ Machine(new, at)!Slot = Slot /\ Machine(new, at)!FrameIdx = FrameIdx
         /\ \A op : Machine(new, at)!Slots(op) = Slots(op)
         /\ \A p, i : Machine(new, at)!JumpTarget(p, i) = JumpTarget(p, i)
<1>1. Machine(new, at)!WideOps = WideOps /\ Machine(new, at)!SyscallOps = SyscallOps
  BY DEF Machine!WideOps, WideOps, Machine!SyscallOps, SyscallOps
<1>2. Machine(new, at)!SyscallIds = SyscallIds
  BY DEF Machine!SyscallIds, SyscallIds
<1>3. Machine(new, at)!Slot = Slot /\ Machine(new, at)!FrameIdx = FrameIdx /\ Machine(new, at)!ACU_FRAME_NO_RET = ACU_FRAME_NO_RET
  BY DEF Machine!Slot, Slot, Machine!FrameIdx, FrameIdx, Machine!ACU_FRAME_NO_RET, ACU_FRAME_NO_RET
<1>4. \A op : Machine(new, at)!Slots(op) = Slots(op)
  BY <1>1 DEF Machine!Slots, Slots
<1>5. \A p, i : Machine(new, at)!JumpTarget(p, i) = JumpTarget(p, i)
  BY DEF Machine!JumpTarget, JumpTarget, Machine!JumpOffset, JumpOffset
<1> QED
  BY <1>1, <1>2, <1>3, <1>4, <1>5

LEMMA FramesStill ==
  ASSUME NEW at, frames' = frames
  PROVE  MovedFrames(at)' = MovedFrames(at)
BY DEF MovedFrames

(* An instruction that has moved.                                          *)
LEMMA MovedIs ==
  ASSUME NEW old, NEW new, NEW at, NEW here, Linked(old, here), Moved(old, new, at, here, ip)
  PROVE  /\ Decodes /\ Machine(new, at)!Decodes
         /\ SameButOffset(Instr, Machine(new, at)!Instr)
         /\ Instr.op \in WideOps => Machine(new, at)!Payload.fn = Payload.fn
         /\ \A r : Machine(new, at)!R(r) = R(r)
         /\ \A ops : Machine(new, at)!Dispatch(ops) <=> Dispatch(ops)
<1>1. Decodes /\ Machine(new, at)!Decodes /\ SameButOffset(Instr, Machine(new, at)!Instr)
  BY SameTables DEF Linked, Moved, Fetches, Decodes, Machine!Decodes, Instr, Machine!Instr, SameButOffset
<1>2. Instr.op \in WideOps => Machine(new, at)!Payload.fn = Payload.fn
  BY DEF Linked, Moved, Machine!Payload, Payload, Instr
<1>3. \A r : Machine(new, at)!R(r) = R(r)
  BY DEF R, Machine!R
<1>4. \A ops : Machine(new, at)!Dispatch(ops) <=> Dispatch(ops)
  BY <1>1 DEF Dispatch, Machine!Dispatch, SameButOffset
<1> QED
  BY <1>1, <1>2, <1>3, <1>4

(* The ways a handler ends, in both machines.                              *)
LEMMA StopMoves ==
  ASSUME NEW new, NEW at, NEW s, Stop(s)
  PROVE  Machine(new, at)!Stop(s)
BY FramesStill DEF Stop, Machine!Stop

LEMMA GotoMoves ==
  ASSUME NEW new, NEW at, NEW p, NEW q, at[p] = q, Goto(p)
  PROVE  Machine(new, at)!Goto(q)
BY FramesStill DEF Goto, Machine!Goto

(* An instruction that falls through falls through to the same place.      *)
LEMMA AdvanceMoves ==
  ASSUME NEW old, NEW new, NEW at, NEW here, Linked(old, here), Moved(old, new, at, here, ip),
         FallsThrough(chunk, ip), Advance
  PROVE  Machine(new, at)!Advance /\ ip' \in here
<1>1. /\ ip + Slots(Instr.op) \in here
      /\ at[ip + Slots(Instr.op)] = at[ip] + Machine(new, at)!Slots(Machine(new, at)!Instr.op)
  BY MovedIs, SameTables DEF Linked, Moved, Instr, SameButOffset
<1> QED
  BY <1>1, GotoMoves DEF Advance, Goto, Machine!Advance

LEMMA SetAMoves ==
  ASSUME NEW old, NEW new, NEW at, NEW here, Linked(old, here), Moved(old, new, at, here, ip),
         FallsThrough(chunk, ip), Instr.op # "JUMP", NEW v, SetA(v)
  PROVE  Machine(new, at)!SetA(v) /\ ip' \in here
<1>1. Machine(new, at)!Instr.a = Instr.a
  BY MovedIs DEF SameButOffset
<1> QED
  BY <1>1, AdvanceMoves DEF SetA, Machine!SetA

LEMMA JumpMoves ==
  ASSUME NEW old, NEW new, NEW at, NEW here, Linked(old, here), Moved(old, new, at, here, ip),
         Instr.op \in Jumps, NEW taken, Instr.op = "JUMP" => taken, JumpWhen(taken)
  PROVE  Machine(new, at)!JumpWhen(taken) /\ ip' \in here
<1>1. CASE taken
  <2>1. /\ JumpTarget(ip, Instr) \in here
        /\ at[JumpTarget(ip, Instr)] = Machine(new, at)!JumpTarget(at[ip], Machine(new, at)!Instr)
    BY SameTables DEF Linked, Moved, Instr, Machine!Instr
  <2> QED
    BY <1>1, <2>1, GotoMoves DEF JumpWhen, Goto, Machine!JumpWhen
<1>2. CASE ~ taken
  <2>1. Instr.op \in CondJumps /\ Slots(Instr.op) = 1
    BY <1>2 DEF Jumps, Slots, CondJumps, WideOps
  <2>2. FallsThrough(chunk, ip)
    BY <2>1 DEF FallsThrough, Instr, CondJumps, Ops, Terminators, SyscallOps
  <2>3. ip + 1 \in here /\ at[ip + 1] = at[ip] + 1
    BY <2>1, <2>2 DEF Linked, Moved, Instr
  <2> QED
    BY <1>2, <2>3, GotoMoves DEF JumpWhen, Goto, Machine!JumpWhen
<1> QED
  BY <1>1, <1>2

LEMMA AnswerMoves ==
  ASSUME NEW old, NEW new, NEW at, NEW here, Linked(old, here), Moved(old, new, at, here, ip),
         FallsThrough(chunk, ip), Instr.op \in SyscallOps, NEW v, Answer(v)
  PROVE  Machine(new, at)!Answer(v) /\ ip' \in here
<1>1. Machine(new, at)!Instr.a = Instr.a /\ Machine(new, at)!Instr.op = Instr.op
  BY MovedIs DEF SameButOffset, SyscallOps
<1> QED
  BY <1>1, AdvanceMoves DEF Answer, Machine!Answer
-----------------------------------------------------------------------------
(* Every handler of a moved instruction, in both machines.                 *)

LEMMA ControlMoves ==
  ASSUME NEW old, NEW new, NEW at, NEW here, Linked(old, here), Moved(old, new, at, here, ip),
         DoNop \/ DoHalt \/ DoJump \/ DoJumpIf \/ DoJumpCmp \/ DoJumpCmpImm
  PROVE  Machine(new, at)!Handler /\ ip' \in here /\ UNCHANGED <<chunk, frames>>
<1>1. /\ SameButOffset(Instr, Machine(new, at)!Instr) /\ \A r : Machine(new, at)!R(r) = R(r)
      /\ \A ops : Machine(new, at)!Dispatch(ops) <=> Dispatch(ops)
  BY MovedIs
<1>2. CASE DoNop
  <2>1. FallsThrough(chunk, ip) /\ Instr.op = "NOP"
    BY <1>2 DEF DoNop, Dispatch, FallsThrough, Instr, Ops, Terminators, SyscallOps
  <2>2. Machine(new, at)!DoNop /\ ip' \in here /\ UNCHANGED <<chunk, frames>>
    BY <1>1, <1>2, <2>1, AdvanceMoves DEF DoNop, Machine!DoNop, Advance, Goto
  <2> QED
    BY <2>2 DEF Machine!Handler
<1>3. CASE DoHalt
  <2>1. Machine(new, at)!DoHalt /\ ip' \in here /\ UNCHANGED <<chunk, frames>>
    BY <1>1, <1>3, FramesStill DEF DoHalt, Machine!DoHalt, Linked
  <2> QED
    BY <2>1 DEF Machine!Handler
<1>4. CASE DoJump
  <2>1. Instr.op \in Jumps
    BY <1>4 DEF DoJump, Dispatch, Jumps
  <2>2. Machine(new, at)!DoJump /\ ip' \in here /\ UNCHANGED <<chunk, frames>>
    BY <1>1, <1>4, <2>1, JumpMoves DEF DoJump, Machine!DoJump, JumpWhen, Goto
  <2> QED
    BY <2>2 DEF Machine!Handler
<1>5. CASE DoJumpIf
  <2> DEFINE taken == (R(Instr.a) # 0) = (Instr.op = "JUMP_IF_TRUE")
  <2>1. Instr.op \in Jumps /\ Instr.op # "JUMP" /\ JumpWhen(taken)
    BY <1>5 DEF DoJumpIf, Dispatch, Jumps, CondJumps
  <2>2. Machine(new, at)!JumpWhen(taken) /\ ip' \in here
    <3> HIDE DEF taken
    <3> QED
      BY <2>1, JumpMoves
  <2>3. taken = ((Machine(new, at)!R(Machine(new, at)!Instr.a) # 0) = (Machine(new, at)!Instr.op = "JUMP_IF_TRUE"))
    BY <1>1, <2>1 DEF SameButOffset
  <2>4. Machine(new, at)!DoJumpIf
    <3> HIDE DEF taken
    <3> QED
      BY <1>1, <1>5, <2>2, <2>3 DEF DoJumpIf, Machine!DoJumpIf
  <2> QED
    BY <2>1, <2>2, <2>4 DEF Machine!Handler, JumpWhen, Goto
<1>6. CASE DoJumpCmp
  <2> DEFINE taken == Cmp(Instr.fn, R(Instr.a), R(Instr.b))
  <2>1. Instr.op = "JUMP_CMP" /\ Instr.op \in Jumps /\ JumpWhen(taken)
    BY <1>6 DEF DoJumpCmp, Dispatch, Jumps, CondJumps
  <2>2. Machine(new, at)!JumpWhen(taken) /\ ip' \in here
    <3> HIDE DEF taken
    <3> QED
      BY <2>1, JumpMoves
  <2>3. taken = Cmp(Machine(new, at)!Instr.fn, Machine(new, at)!R(Machine(new, at)!Instr.a),
                    Machine(new, at)!R(Machine(new, at)!Instr.b))
    BY <1>1, <2>1 DEF SameButOffset
  <2>4. Machine(new, at)!DoJumpCmp
    <3> HIDE DEF taken
    <3> QED
      BY <1>1, <1>6, <2>2, <2>3 DEF DoJumpCmp, Machine!DoJumpCmp
  <2> QED
    BY <2>1, <2>2, <2>4 DEF Machine!Handler, JumpWhen, Goto
<1>7. CASE DoJumpCmpImm
  <2> DEFINE taken == Cmp(Instr.fn, R(Instr.a), JumpImm(Instr.fn, Instr.b))
  <2>1. Instr.op = "JUMP_CMP_IMM" /\ Instr.op \in Jumps /\ JumpWhen(taken)
    BY <1>7 DEF DoJumpCmpImm, Dispatch, Jumps, CondJumps
  <2>2. Machine(new, at)!JumpWhen(taken) /\ ip' \in here
    <3> HIDE DEF taken
    <3> QED
      BY <2>1, JumpMoves
  <2>3. taken = Cmp(Machine(new, at)!Instr.fn, Machine(new, at)!R(Machine(new, at)!Instr.a),
                    JumpImm(Machine(new, at)!Instr.fn, Machine(new, at)!Instr.b))
    BY <1>1, <2>1 DEF SameButOffset
  <2>4. Machine(new, at)!DoJumpCmpImm
    <3> HIDE DEF taken
    <3> QED
      BY <1>1, <1>7, <2>2, <2>3 DEF DoJumpCmpImm, Machine!DoJumpCmpImm
  <2> QED
    BY <2>1, <2>2, <2>4 DEF Machine!Handler, JumpWhen, Goto
<1> QED
  BY <1>2, <1>3, <1>4, <1>5, <1>6, <1>7

LEMMA DataMoves ==
  ASSUME NEW old, NEW new, NEW at, NEW here, Linked(old, here), Moved(old, new, at, here, ip),
         new.consts = old.consts, new.strs = old.strs,
         \/ DoMove \/ DoLoadImm \/ DoLoadPool \/ DoLoadGlobal \/ DoStoreGlobal
         \/ DoUnary \/ DoAlu \/ DoDivideByZero
  PROVE  Machine(new, at)!Handler /\ ip' \in here /\ UNCHANGED <<chunk, frames>>
<1>1. /\ SameButOffset(Instr, Machine(new, at)!Instr) /\ \A r : Machine(new, at)!R(r) = R(r)
      /\ \A ops : Machine(new, at)!Dispatch(ops) <=> Dispatch(ops)
  BY MovedIs
<1> DEFINE Data == {"MOVE", "LOAD_IMM", "LOAD_CONST", "LOAD_STR", "LOAD_GLOBAL", "STORE_GLOBAL", "UNARY", "ALU", "ALU_IMM"}
           i == Instr
           j == Machine(new, at)!Instr
<1>2. Instr.op \in Data
  BY DEF DoMove, DoLoadImm, DoLoadPool, DoLoadGlobal, DoStoreGlobal, DoUnary, DoAlu, DoDivideByZero, Dispatch
<1>3. FallsThrough(chunk, ip) /\ Instr.op \notin Jumps
  BY <1>2 DEF FallsThrough, Instr, Ops, Terminators, SyscallOps, Jumps, CondJumps
<1>4. j.op = i.op /\ j.fn = i.fn /\ j.a = i.a /\ j.b = i.b /\ j.c = i.c
  BY <1>1, <1>3 DEF SameButOffset, Jumps, CondJumps
<1> HIDE DEF i, j
<1>5. ASSUME NEW v, SetA(v) PROVE Machine(new, at)!SetA(v) /\ ip' \in here /\ UNCHANGED <<chunk, frames>>
  <2>1. Instr.op # "JUMP"
    BY <1>3 DEF Jumps
  <2> QED
    BY <1>3, <1>5, <2>1, SetAMoves DEF SetA, Advance, Goto
<1>6. CASE DoMove
  BY <1>1, <1>4, <1>5, <1>6 DEF DoMove, Machine!DoMove, Machine!Handler, i, j
<1>7. CASE DoLoadImm
  BY <1>1, <1>4, <1>5, <1>7 DEF DoLoadImm, Machine!DoLoadImm, Machine!Handler, i, j
<1>8. CASE DoLoadPool
  <2> DEFINE v == IF Instr.op = "LOAD_CONST" THEN chunk.consts[Instr.b] ELSE chunk.strs[Instr.b]
  <2>1. SetA(v)
    BY <1>8 DEF DoLoadPool
  <2>2. v = IF j.op = "LOAD_CONST" THEN new.consts[j.b] ELSE new.strs[j.b]
    BY <1>4 DEF Linked, i
  <2>3. Machine(new, at)!SetA(v) /\ ip' \in here /\ UNCHANGED <<chunk, frames>>
    <3> HIDE DEF v
    <3> QED
      BY <1>5, <2>1
  <2>4. Machine(new, at)!DoLoadPool
    <3> HIDE DEF v
    <3> QED
      BY <1>1, <1>8, <2>2, <2>3 DEF DoLoadPool, Machine!DoLoadPool, j
  <2> QED
    BY <2>3, <2>4 DEF Machine!Handler
<1>9. CASE DoLoadGlobal
  BY <1>1, <1>4, <1>5, <1>9 DEF DoLoadGlobal, Machine!DoLoadGlobal, Machine!Handler, i, j
<1>10. CASE DoStoreGlobal
  <2>1. Machine(new, at)!Advance /\ ip' \in here
    BY <1>3, <1>10, AdvanceMoves DEF DoStoreGlobal
  <2>2. Machine(new, at)!DoStoreGlobal
    BY <1>1, <1>4, <1>10, <2>1 DEF DoStoreGlobal, Machine!DoStoreGlobal, i, j
  <2> QED
    BY <1>10, <2>1, <2>2 DEF DoStoreGlobal, Machine!Handler, Advance, Goto
<1>11. CASE DoUnary
  BY <1>1, <1>4, <1>5, <1>11 DEF DoUnary, Machine!DoUnary, Machine!Handler, i, j
<1>12. Machine(new, at)!Right = Right
  BY <1>1, <1>4 DEF Right, Machine!Right, i, j
<1>13. CASE DoAlu
  BY <1>1, <1>4, <1>5, <1>12, <1>13 DEF DoAlu, Machine!DoAlu, Machine!Handler, i, j
<1>14. CASE DoDivideByZero
  <2>1. Machine(new, at)!DoDivideByZero
    BY <1>1, <1>4, <1>12, <1>14, StopMoves DEF DoDivideByZero, Machine!DoDivideByZero, i, j
  <2> QED
    BY <1>14, <2>1 DEF DoDivideByZero, Machine!Handler, Stop, Linked
<1> QED
  BY <1>6, <1>7, <1>8, <1>9, <1>10, <1>11, <1>13, <1>14

(* The frame on top, in both machines.                                     *)
LEMMA CallerMoves ==
  ASSUME NEW old, NEW new, NEW at, NEW here, Linked(old, here), fp > 0
  PROVE  /\ Machine(new, at)!Caller = [Caller EXCEPT !.return_ip = at[Caller.return_ip]]
         /\ Machine(new, at)!Caller.return_ip = at[Caller.return_ip] /\ Caller.return_ip \in here
         /\ Machine(new, at)!Caller.register_base = Caller.register_base
         /\ Machine(new, at)!Caller.return_reg = Caller.return_reg
<1>1. fp - 1 \in FrameIdx
  BY SizesAssumption DEF Linked, TypeOK, FrameIdx
<1>2. /\ frames[fp - 1] \in [return_ip : Nat, register_base : 0 .. StackCapacity - RegWindow,
                             return_reg : Regs \union {ACU_FRAME_NO_RET}]
      /\ frames[fp - 1].return_ip \in here
  BY <1>1 DEF Linked, TypeOK
<1>3. Machine(new, at)!Caller = [Caller EXCEPT !.return_ip = at[Caller.return_ip]]
  BY <1>1, <1>2 DEF Caller, Machine!Caller, MovedFrames
<1> QED
  BY <1>2, <1>3 DEF Caller

LEMMA PopMoves ==
  ASSUME NEW old, NEW new, NEW at, NEW here, Linked(old, here), fp > 0, PopFrame
  PROVE  Machine(new, at)!PopFrame /\ ip' \in here /\ UNCHANGED <<chunk, frames>>
BY CallerMoves, FramesStill DEF PopFrame, Machine!PopFrame

(* A call pushes the same frame, but for the word it returns to.           *)
LEMMA PushMoves ==
  ASSUME NEW old, NEW new, NEW at, NEW here, Linked(old, here), Moved(old, new, at, here, ip), DoCall
  PROVE  /\ Machine(new, at)!DoCall /\ ip' \in here /\ chunk' = chunk
         /\ \A f \in FrameIdx : frames'[f].return_ip \in here
<1>1. /\ SameButOffset(Instr, Machine(new, at)!Instr)
      /\ \A ops : Machine(new, at)!Dispatch(ops) <=> Dispatch(ops)
  BY MovedIs
<1>2. /\ Instr.op \in {"CALL", "CALL_VOID"} /\ Instr.op \in BytecodeCalls /\ Slots(Instr.op) = 2
      /\ FallsThrough(chunk, ip)
  BY DEF DoCall, Dispatch, BytecodeCalls, Slots, WideOps, FallsThrough, Instr, Ops, Terminators, SyscallOps
<1>3. /\ Payload.a \in here /\ at[Payload.a] = Machine(new, at)!Payload.a
      /\ ip + 2 \in here /\ at[ip + 2] = at[ip] + 2
  BY <1>2 DEF Linked, Moved, Payload, Machine!Payload, Instr
<1>4. /\ Machine(new, at)!Instr.op = Instr.op /\ Machine(new, at)!Instr.a = Instr.a
      /\ Machine(new, at)!Instr.b = Instr.b
  BY <1>1, <1>2 DEF SameButOffset
<1> DEFINE ret(p) == [return_ip     |-> p,
                      register_base |-> base,
                      return_reg    |-> IF Instr.op = "CALL" THEN Instr.a ELSE ACU_FRAME_NO_RET]
<1>5. /\ fp \in FrameIdx /\ DOMAIN frames = FrameIdx
      /\ frames' = [frames EXCEPT ![fp] = ret(ip + 2)]
  BY SizesAssumption DEF DoCall, Linked, TypeOK, FrameIdx
<1>6. [ret(ip + 2) EXCEPT !.return_ip = at[ip + 2]] = ret(at[ip] + 2) /\ ret(ip + 2).return_ip = ip + 2
  BY <1>3
<1>7. MovedFrames(at)' = [MovedFrames(at) EXCEPT ![fp] = ret(at[ip] + 2)]
  <2>1. MovedFrames(at)' = [f \in FrameIdx |-> [frames'[f] EXCEPT !.return_ip = at[@]]]
    BY DEF MovedFrames
  <2>2. ASSUME NEW f \in FrameIdx
        PROVE  [frames'[f] EXCEPT !.return_ip = at[@]]
               = IF f = fp THEN ret(at[ip] + 2) ELSE [frames[f] EXCEPT !.return_ip = at[@]]
    <3> HIDE DEF ret
    <3> QED
      BY <1>5, <1>6
  <2> HIDE DEF ret
  <2> QED
    BY <1>5, <2>1, <2>2 DEF MovedFrames
<1>8. \A f \in FrameIdx : frames'[f].return_ip \in here
  <2> HIDE DEF ret
  <2> QED
    BY <1>3, <1>5, <1>6 DEF Linked
<1>9. Machine(new, at)!DoCall
  <2>1. MovedFrames(at)' = [MovedFrames(at) EXCEPT ![fp] =
                              [return_ip     |-> at[ip] + 2,
                               register_base |-> base,
                               return_reg    |-> IF Machine(new, at)!Instr.op = "CALL" THEN Machine(new, at)!Instr.a
                                                 ELSE Machine(new, at)!ACU_FRAME_NO_RET]]
    BY <1>4, <1>7, SameTables
  <2>2. /\ fp' = fp + 1 /\ base' = base + Machine(new, at)!Instr.b /\ at[ip'] = Machine(new, at)!Payload.a
        /\ UNCHANGED <<stack, globals, status, exitCode, prng, out>>
    BY <1>3, <1>4 DEF DoCall
  <2>3. Machine(new, at)!Dispatch({"CALL", "CALL_VOID"}) /\ Machine(new, at)!WindowFits /\ fp < FrameCapacity
    BY <1>1, <1>4 DEF DoCall, WindowFits, Machine!WindowFits
  <2> QED
    BY <2>1, <2>2, <2>3 DEF Machine!DoCall
<1> QED
  BY <1>3, <1>8, <1>9 DEF DoCall

LEMMA CallsMove ==
  ASSUME NEW old, NEW new, NEW at, NEW here, Linked(old, here), Moved(old, new, at, here, ip),
         DoCallOverflow \/ DoTailCall \/ DoArgsOverflow \/ DoRet \/ DoRetVoid \/ FrameUnderflow
  PROVE  Machine(new, at)!Handler /\ ip' \in here /\ UNCHANGED <<chunk, frames>>
<1>1. /\ SameButOffset(Instr, Machine(new, at)!Instr) /\ \A r : Machine(new, at)!R(r) = R(r)
      /\ \A ops : Machine(new, at)!Dispatch(ops) <=> Dispatch(ops)
  BY MovedIs
<1>2. /\ Instr.op \in WideOps => /\ Machine(new, at)!Instr.op = Instr.op /\ Machine(new, at)!Instr.b = Instr.b
                                 /\ Machine(new, at)!Instr.c = Instr.c
      /\ Instr.op \in {"RET", "RET_VOID"} => Machine(new, at)!Instr.a = Instr.a
  BY <1>1 DEF SameButOffset, WideOps
<1>3. CASE DoCallOverflow
  <2>1. Machine(new, at)!DoCallOverflow
    BY <1>1, <1>2, <1>3, StopMoves
    DEF DoCallOverflow, Machine!DoCallOverflow, WindowFits, Machine!WindowFits, Dispatch, WideOps
  <2> QED
    BY <1>3, <2>1 DEF DoCallOverflow, Machine!Handler, Stop, Linked
<1>4. CASE DoTailCall
  <2>1. Instr.op = "TAILCALL" /\ Instr.op \in BytecodeCalls /\ Instr.op \in WideOps
    BY <1>4 DEF DoTailCall, Dispatch, BytecodeCalls, WideOps
  <2>2. Payload.a \in here /\ at[Payload.a] = Machine(new, at)!Payload.a
    BY <2>1 DEF Linked, Moved, Payload, Machine!Payload, Instr
  <2>3. Machine(new, at)!Goto(Machine(new, at)!Payload.a)
    BY <1>4, <2>2, GotoMoves DEF DoTailCall
  <2>4. Machine(new, at)!DoTailCall
    BY <1>1, <1>2, <1>4, <2>1, <2>3, SameTables DEF DoTailCall, Machine!DoTailCall, ArgsFit, Machine!ArgsFit
  <2> QED
    BY <1>4, <2>2, <2>4 DEF DoTailCall, Machine!Handler, Goto
<1>5. CASE DoArgsOverflow
  <2>1. Machine(new, at)!DoArgsOverflow
    BY <1>1, <1>2, <1>5, StopMoves DEF DoArgsOverflow, Machine!DoArgsOverflow, ArgsFit, Machine!ArgsFit, Dispatch, WideOps
  <2> QED
    BY <1>5, <2>1 DEF DoArgsOverflow, Machine!Handler, Stop, Linked
<1>6. CASE DoRet
  <2>1. Machine(new, at)!PopFrame /\ ip' \in here /\ UNCHANGED <<chunk, frames>>
    BY <1>6, PopMoves DEF DoRet
  <2>2. Instr.op = "RET" /\ fp > 0
    BY <1>6 DEF DoRet, Dispatch
  <2>3. Machine(new, at)!Instr.a = Instr.a /\ Machine(new, at)!R(Instr.a) = R(Instr.a)
    BY <1>1, <1>2, <2>2
  <2>4. /\ Machine(new, at)!Caller.register_base = Caller.register_base
        /\ Machine(new, at)!Caller.return_reg = Caller.return_reg
    BY <2>2, CallerMoves
  <2>5. stack' = IF Machine(new, at)!Caller.return_reg >= 0
                 THEN [stack EXCEPT ![Machine(new, at)!Caller.register_base + Machine(new, at)!Caller.return_reg]
                                      = Machine(new, at)!R(Machine(new, at)!Instr.a)]
                 ELSE stack
    BY <1>6, <2>3, <2>4 DEF DoRet
  <2>6. Machine(new, at)!DoRet
    BY <1>1, <1>6, <2>1, <2>2, <2>5 DEF DoRet, Machine!DoRet
  <2> QED
    BY <2>1, <2>6 DEF Machine!Handler
<1>7. CASE DoRetVoid
  <2>1. Machine(new, at)!PopFrame /\ ip' \in here /\ UNCHANGED <<chunk, frames>>
    BY <1>7, PopMoves DEF DoRetVoid
  <2>2. Machine(new, at)!DoRetVoid
    BY <1>1, <1>7, <2>1 DEF DoRetVoid, Machine!DoRetVoid
  <2> QED
    BY <2>1, <2>2 DEF Machine!Handler
<1>8. CASE FrameUnderflow
  <2>1. Machine(new, at)!FrameUnderflow
    BY <1>1, <1>8, StopMoves DEF FrameUnderflow, Machine!FrameUnderflow
  <2> QED
    BY <1>8, <2>1 DEF FrameUnderflow, Machine!Handler, Stop, Linked
<1> QED
  BY <1>3, <1>4, <1>5, <1>6, <1>7, <1>8

LEMMA SyscallsMove ==
  ASSUME NEW old, NEW new, NEW at, NEW here, Linked(old, here), Moved(old, new, at, here, ip),
         Syscalls \/ WildSyscall
  PROVE  Machine(new, at)!Handler /\ ip' \in here /\ UNCHANGED <<chunk, frames>>
<1>1. /\ SameButOffset(Instr, Machine(new, at)!Instr) /\ \A r : Machine(new, at)!R(r) = R(r)
      /\ \A ops : Machine(new, at)!Dispatch(ops) <=> Dispatch(ops)
  BY MovedIs
<1>2. Dispatch(SyscallOps) /\ Instr.op \in SyscallOps /\ Instr.op \in WideOps
  BY DEF Syscalls, SysPrint, SysPrintNoArgs, SysReadFails, SysMath, SysRandom, SysSeed, SysExit, SysPanic,
         SysRead, SysClock, Syscall, WildSyscall, Dispatch, SyscallOps, WideOps
<1>3. /\ Machine(new, at)!Instr.op = Instr.op /\ Machine(new, at)!Instr.a = Instr.a
      /\ Machine(new, at)!Instr.b = Instr.b /\ Machine(new, at)!Instr.c = Instr.c
      /\ Machine(new, at)!Payload.fn = Payload.fn
      /\ Machine(new, at)!R(Machine(new, at)!Instr.b) = R(Instr.b)
      /\ Machine(new, at)!ArgsFit <=> ArgsFit
  BY <1>1, <1>2, MovedIs DEF SameButOffset, SyscallOps, ArgsFit, Machine!ArgsFit
<1>4. \A ids : Machine(new, at)!Syscall(ids) <=> Syscall(ids)
  BY <1>1, <1>3, SameTables DEF Syscall, Machine!Syscall
<1>5. ASSUME NEW ids, Syscall(ids), "exit" \notin ids, "panic" \notin ids
      PROVE  FallsThrough(chunk, ip)
  BY <1>2, <1>5 DEF Syscall, FallsThrough, Payload, Instr
<1>6. ASSUME NEW v, Answer(v), FallsThrough(chunk, ip)
      PROVE  Machine(new, at)!Answer(v) /\ ip' \in here /\ UNCHANGED <<chunk, frames>>
  BY <1>2, <1>6, AnswerMoves DEF Answer, Advance, Goto
<1>7. ASSUME NEW s, Stop(s)
      PROVE  Machine(new, at)!Stop(s) /\ ip' \in here /\ UNCHANGED <<chunk, frames>>
  BY <1>7, StopMoves DEF Stop, Linked
<1>8. CASE SysPrint
  <2>1. FallsThrough(chunk, ip) /\ Answer(0)
    BY <1>5, <1>8 DEF SysPrint
  <2>2. Machine(new, at)!SysPrint
    BY <1>3, <1>4, <1>6, <1>8, <2>1 DEF SysPrint, Machine!SysPrint
  <2> QED
    BY <1>6, <2>1, <2>2 DEF Machine!Syscalls, Machine!Handler
<1>9. CASE SysPrintNoArgs
  <2>1. Machine(new, at)!SysPrintNoArgs
    BY <1>3, <1>4, <1>7, <1>9 DEF SysPrintNoArgs, Machine!SysPrintNoArgs
  <2> QED
    BY <1>7, <1>9, <2>1 DEF SysPrintNoArgs, Machine!Syscalls, Machine!Handler
<1>10. ASSUME NEW v \in Word, SysRead(v)
       PROVE  Machine(new, at)!Handler /\ ip' \in here /\ UNCHANGED <<chunk, frames>>
  <2>1. FallsThrough(chunk, ip) /\ Answer(v)
    BY <1>5, <1>10 DEF SysRead
  <2>2. Machine(new, at)!SysRead(v)
    BY <1>4, <1>6, <1>10, <2>1 DEF SysRead, Machine!SysRead
  <2> QED
    BY <1>6, <2>1, <2>2 DEF Machine!Syscalls, Machine!Handler
<1>11. CASE SysReadFails
  <2>1. Machine(new, at)!SysReadFails
    BY <1>4, <1>7, <1>11 DEF SysReadFails, Machine!SysReadFails
  <2> QED
    BY <1>7, <1>11, <2>1 DEF SysReadFails, Machine!Syscalls, Machine!Handler
<1>12. ASSUME NEW v \in Word, SysClock(v)
       PROVE  Machine(new, at)!Handler /\ ip' \in here /\ UNCHANGED <<chunk, frames>>
  <2>1. FallsThrough(chunk, ip) /\ Answer(v)
    BY <1>5, <1>12 DEF SysClock
  <2>2. Machine(new, at)!SysClock(v)
    BY <1>4, <1>6, <1>12, <2>1 DEF SysClock, Machine!SysClock
  <2> QED
    BY <1>6, <2>1, <2>2 DEF Machine!Syscalls, Machine!Handler
<1>13. CASE SysMath
  <2>1. FallsThrough(chunk, ip) /\ Answer(Alu("NEG", R(Instr.b), 0))
    BY <1>5, <1>13 DEF SysMath
  <2>2. Machine(new, at)!Answer(Alu("NEG", R(Instr.b), 0)) /\ ip' \in here /\ UNCHANGED <<chunk, frames>>
    BY <1>6, <2>1
  <2>3. Machine(new, at)!SysMath
    BY <1>3, <1>4, <1>13, <2>2 DEF SysMath, Machine!SysMath
  <2> QED
    BY <2>2, <2>3 DEF Machine!Syscalls, Machine!Handler
<1>14. CASE SysRandom
  <2>1. FallsThrough(chunk, ip) /\ Answer(NextRandom(prng))
    BY <1>5, <1>14 DEF SysRandom
  <2>2. Machine(new, at)!Answer(NextRandom(prng)) /\ ip' \in here /\ UNCHANGED <<chunk, frames>>
    BY <1>6, <2>1
  <2>3. Machine(new, at)!SysRandom
    BY <1>4, <1>14, <2>2 DEF SysRandom, Machine!SysRandom
  <2> QED
    BY <2>2, <2>3 DEF Machine!Syscalls, Machine!Handler
<1>15. CASE SysSeed
  <2>1. FallsThrough(chunk, ip) /\ Answer(0)
    BY <1>5, <1>15 DEF SysSeed
  <2>2. Machine(new, at)!SysSeed
    BY <1>3, <1>4, <1>6, <1>15, <2>1 DEF SysSeed, Machine!SysSeed
  <2> QED
    BY <1>6, <2>1, <2>2 DEF Machine!Syscalls, Machine!Handler
<1>16. CASE SysExit
  <2>1. MovedFrames(at)' = MovedFrames(at) /\ at[ip'] = at[ip]
    BY <1>16, FramesStill DEF SysExit
  <2>2. exitCode' = IF Machine(new, at)!Instr.c > 0 THEN Machine(new, at)!R(Machine(new, at)!Instr.b) ELSE 0
    BY <1>3, <1>16 DEF SysExit
  <2>3. Machine(new, at)!SysExit
    BY <1>4, <1>16, <2>1, <2>2 DEF SysExit, Machine!SysExit
  <2> QED
    BY <1>16, <2>3 DEF SysExit, Machine!Syscalls, Machine!Handler, Linked
<1>17. CASE SysPanic
  <2>1. Machine(new, at)!SysPanic
    BY <1>4, <1>7, <1>17 DEF SysPanic, Machine!SysPanic
  <2> QED
    BY <1>7, <1>17, <2>1 DEF SysPanic, Machine!Syscalls, Machine!Handler
<1>18. CASE WildSyscall
  <2>1. Machine(new, at)!WildSyscall
    BY <1>1, <1>3, <1>7, <1>18, SameTables DEF WildSyscall, Machine!WildSyscall
  <2> QED
    BY <1>7, <1>18, <2>1 DEF WildSyscall, Machine!Handler
<1> QED
  BY <1>8, <1>9, <1>10, <1>11, <1>12, <1>13, <1>14, <1>15, <1>16, <1>17, <1>18 DEF Syscalls

(* Where nothing is done the new machine stutters or runs a NOP.           *)
LEMMA IdleMoves ==
  ASSUME NEW old, NEW new, NEW at, NEW here, Linked(old, here), Idles(old, new, at, here, ip),
         Handler
  PROVE  /\ Machine(new, at)!Handler \/ UNCHANGED Machine(new, at)!vars
         /\ ip' \in here /\ UNCHANGED <<chunk, frames>>
<1>1. Decodes /\ Instr.op \in {"NOP", "JUMP"} \union CondJumps
  BY DEF Linked, Idles, Fetches, Decodes, Instr
<1>2. PICK q \in here :
        /\ \/ Instr.op = "NOP" /\ q = ip + 1
           \/ Instr.op = "JUMP" /\ q = JumpTarget(ip, Instr)
           \/ Instr.op \in CondJumps /\ q = ip + 1 /\ q = JumpTarget(ip, Instr)
        /\ \/ at[q] = at[ip]
           \/ Fetches(new, at[ip]) /\ new.code[at[ip]].op = "NOP" /\ at[q] = at[ip] + 1
  BY DEF Linked, Idles, Instr
<1>3. DoNop \/ DoJump \/ DoJumpIf \/ DoJumpCmp \/ DoJumpCmpImm
  <2>1. \A ops : Dispatch(ops) => ops \cap ({"NOP", "JUMP"} \union CondJumps) # {}
    BY <1>1 DEF Dispatch
  <2>2. ~ DoHalt
    BY <2>1 DEF DoHalt, CondJumps
  <2>3. ~ (\/ DoMove \/ DoLoadImm \/ DoLoadPool \/ DoLoadGlobal \/ DoStoreGlobal
           \/ DoUnary \/ DoAlu \/ DoDivideByZero)
    BY <2>1 DEF CondJumps, DoMove, DoLoadImm, DoLoadPool, DoLoadGlobal, DoStoreGlobal, DoUnary, DoAlu, DoDivideByZero
  <2>4. ~ (DoCall \/ DoCallOverflow \/ DoTailCall \/ DoArgsOverflow \/ DoRet \/ DoRetVoid \/ FrameUnderflow)
    BY <2>1 DEF CondJumps, DoCall, DoCallOverflow, DoTailCall, DoArgsOverflow, DoRet, DoRetVoid, FrameUnderflow
  <2>5. ~ Dispatch(SyscallOps)
    BY <2>1 DEF SyscallOps, CondJumps
  <2>6. ~ (Syscalls \/ WildSyscall)
    BY <2>5 DEF Syscalls, SysPrint, SysPrintNoArgs, SysReadFails, SysMath, SysRandom, SysSeed, SysExit, SysPanic,
                SysRead, SysClock, Syscall, WildSyscall
  <2>7. ~ WildFetch
    BY <1>1 DEF WildFetch
  <2> QED
    BY <2>2, <2>3, <2>4, <2>6, <2>7 DEF Handler
<1>4. /\ ip' = q /\ status = "RUNNING"
      /\ UNCHANGED <<chunk, frames, fp, base, status, exitCode, stack, globals, prng, out>>
  <2>1. CASE DoNop
    BY <1>2, <2>1 DEF DoNop, Dispatch, Advance, Goto, Slots, WideOps, CondJumps
  <2>2. ASSUME NEW taken, JumpWhen(taken), Instr.op \in Jumps, Instr.op = "JUMP" => taken, status = "RUNNING"
        PROVE  /\ ip' = q /\ status = "RUNNING"
               /\ UNCHANGED <<chunk, frames, fp, base, status, exitCode, stack, globals, prng, out>>
    BY <1>2, <2>2 DEF JumpWhen, Goto, Jumps, CondJumps
  <2>3. CASE DoJump
    BY <2>2, <2>3 DEF DoJump, Dispatch, Jumps
  <2>4. CASE DoJumpIf
    BY <2>2, <2>4 DEF DoJumpIf, Dispatch, Jumps, CondJumps
  <2>5. CASE DoJumpCmp
    BY <2>2, <2>5 DEF DoJumpCmp, Dispatch, Jumps, CondJumps
  <2>6. CASE DoJumpCmpImm
    BY <2>2, <2>6 DEF DoJumpCmpImm, Dispatch, Jumps, CondJumps
  <2> QED
    BY <1>3, <2>1, <2>3, <2>4, <2>5, <2>6
<1>5. MovedFrames(at)' = MovedFrames(at)
  BY <1>4, FramesStill
<1>6. CASE at[q] = at[ip]
  <2>1. UNCHANGED Machine(new, at)!vars
    BY <1>4, <1>5, <1>6 DEF Machine!vars
  <2> QED
    BY <1>4, <2>1
<1>7. CASE Fetches(new, at[ip]) /\ new.code[at[ip]].op = "NOP" /\ at[q] = at[ip] + 1
  <2>1. Machine(new, at)!Instr.op = "NOP" /\ Machine(new, at)!Slots("NOP") = 1
    BY <1>7, SameTables DEF Machine!Instr, Slots, WideOps
  <2>2. Machine(new, at)!Decodes
    BY <1>7, <2>1, SameTables DEF Fetches, Machine!Decodes, WideOps, Machine!Instr
  <2>3. Machine(new, at)!DoNop
    BY <1>4, <1>5, <1>7, <2>1, <2>2 DEF Machine!DoNop, Machine!Dispatch, Machine!Advance, Machine!Goto
  <2> QED
    BY <1>4, <2>3 DEF Machine!Handler
<1> QED
  BY <1>2, <1>6, <1>7

(* A step of the old machine is a step of the new one or none.             *)
LEMMA StepMoves ==
  ASSUME NEW old, NEW new, NEW at, NEW here, Follows(old, new, at, here), HasPools(old), Linked(old, here), Run \/ Handler
  PROVE  [Machine(new, at)!Next]_(Machine(new, at)!vars) /\ Linked(old, here)'
<1>1. TypeOK'
  BY NextType DEF Linked, Next
<1>2. CASE Run
  <2>1. old.size = 0 <=> new.size = 0
    BY DEF Follows
  <2>2. /\ status = "LOADED" /\ status' = IF new.size = 0 THEN "UNHANDLED_OPCODE" ELSE "RUNNING"
        /\ UNCHANGED <<chunk, ip, base, stack, frames, fp, globals, exitCode, prng, out>>
    BY <1>2, <2>1 DEF Run, Linked
  <2>3. Machine(new, at)!Run
    BY <2>2, FramesStill DEF Machine!Run
  <2> QED
    BY <1>1, <2>2, <2>3 DEF Machine!Next, Linked
<1>3. CASE Handler /\ Idles(old, new, at, here, ip)
  <2>1. /\ Machine(new, at)!Handler \/ UNCHANGED Machine(new, at)!vars
        /\ ip' \in here /\ UNCHANGED <<chunk, frames>>
    BY <1>3, IdleMoves
  <2>2. Linked(old, here)'
    BY <1>1, <2>1 DEF Linked
  <2>3. Machine(new, at)!Handler => Machine(new, at)!Next
    BY DEF Machine!Next
  <2> QED
    BY <2>1, <2>2, <2>3
<1>4. CASE Handler /\ Moved(old, new, at, here, ip)
  <2>1. new.consts = old.consts /\ new.strs = old.strs
    BY DEF Follows, HasPools
  <2>2. ~ WildFetch
    BY <1>4, MovedIs DEF WildFetch
  <2>3. /\ Machine(new, at)!Handler /\ ip' \in here /\ chunk' = chunk
        /\ \A f \in FrameIdx : frames'[f].return_ip \in here
    <3>1. CASE DoNop \/ DoHalt \/ DoJump \/ DoJumpIf \/ DoJumpCmp \/ DoJumpCmpImm
      BY <1>4, <3>1, ControlMoves DEF Linked
    <3>2. CASE \/ DoMove \/ DoLoadImm \/ DoLoadPool \/ DoLoadGlobal \/ DoStoreGlobal
               \/ DoUnary \/ DoAlu \/ DoDivideByZero
      BY <1>4, <2>1, <3>2, DataMoves DEF Linked
    <3>3. CASE DoCall
      <4>1. Machine(new, at)!DoCall => Machine(new, at)!Handler
        BY DEF Machine!Handler
      <4> QED
        BY <1>4, <3>3, <4>1, PushMoves
    <3>4. CASE DoCallOverflow \/ DoTailCall \/ DoArgsOverflow \/ DoRet \/ DoRetVoid \/ FrameUnderflow
      BY <1>4, <3>4, CallsMove DEF Linked
    <3>5. CASE Syscalls \/ WildSyscall
      BY <1>4, <3>5, SyscallsMove DEF Linked
    <3> QED
      BY <1>4, <2>2, <3>1, <3>2, <3>3, <3>4, <3>5 DEF Handler
  <2>4. Machine(new, at)!Handler => Machine(new, at)!Next
    BY DEF Machine!Next
  <2> QED
    BY <1>1, <2>3, <2>4 DEF Linked
<1> QED
  BY <1>2, <1>3, <1>4 DEF Follows, Linked

(* A chunk whose words have only been moved, or dropped where they do      *)
(* nothing, runs as the chunk it was made from: whatever that prints,      *)
(* reads, stores and leaves behind, at every size of the stacks, the new   *)
(* one does step by step, with the same registers, frames and globals      *)
(* (the dispatch loop of AcuVM_Run on the output of EliminateDeadCode and  *)
(* StripNopsAndRelocate).                                                  *)
THEOREM RelocatedRuns ==
  ASSUME NEW old, NEW new, NEW at, NEW here, Follows(old, new, at, here), HasPools(old)
  PROVE  Process /\ chunk = old => Machine(new, at)!Spec
<1>1. ASSUME Init, chunk = old PROVE Linked(old, here) /\ Machine(new, at)!Init
  <2>1. /\ ip = 0 /\ 0 \in here /\ at[0] = 0 /\ new.slots = old.slots
        /\ frames = [f \in FrameIdx |-> [return_ip |-> 0, register_base |-> 0, return_reg |-> 0]]
    BY <1>1 DEF Init, Follows, HasPools
  <2>2. MovedFrames(at) = [f \in FrameIdx |-> [return_ip |-> 0, register_base |-> 0, return_reg |-> 0]]
    BY <2>1 DEF MovedFrames
  <2>3. Linked(old, here)
    BY <1>1, <2>1, InitType DEF Linked
  <2>4. globals = [g \in 0 .. new.slots - 1 |-> 0]
    BY <1>1, <2>1 DEF Init
  <2>5. Machine(new, at)!Init
    BY <1>1, <2>1, <2>2, <2>4, SameTables DEF Init, Machine!Init
  <2> QED
    BY <2>3, <2>5
<1>2. ASSUME Linked(old, here), [Run \/ Handler]_vars
      PROVE  [Machine(new, at)!Next]_(Machine(new, at)!vars) /\ Linked(old, here)'
  <2>1. CASE UNCHANGED vars
    <3>1. UNCHANGED Machine(new, at)!vars
      BY <2>1, FramesStill DEF vars, Machine!vars
    <3>2. TypeOK'
      BY <1>2, <2>1, NextType DEF Linked
    <3> QED
      BY <1>2, <2>1, <3>1, <3>2 DEF vars, Linked
  <2> QED
    BY <1>2, <2>1, StepMoves
<1> QED
  BY <1>1, <1>2, PTL DEF Process, Machine!Spec
-----------------------------------------------------------------------------
(* Agreeing code.  The machine of this module runs the new code; the stack *)
(* of a machine that runs the old code is kept in shadow.                  *)

VARIABLE shadow

(* Where a dropped SYSCALL was there are two words that do nothing: at the *)
(* second one the old machine has not yet gone on.                         *)
OldAt(old) == IF old.code[ip].op = "WORD" THEN ip - 1 ELSE ip

CallOf(f) == frames[f].return_ip - 2

OldFrames(old) ==
  [f \in FrameIdx |->
     [frames[f] EXCEPT !.return_reg = IF CallOf(f) \in 0 .. old.size - 1 /\ old.code[CallOf(f)].op = "CALL"
                                      THEN old.code[CallOf(f)].a ELSE frames[f].return_reg]]

(* The exit code of a HALT is what is in register 0, which nobody looks at *)
(* (main.c): the machines may differ there.                                *)
Twin(old) == INSTANCE AcuVM WITH Chunks <- {old}, Reloads <- {}, chunk <- old, ip <- OldAt(old),
                                 stack <- shadow, frames <- OldFrames(old),
                                 exitCode <- IF status = "HALT" THEN shadow[base + 0] ELSE exitCode

(* What the old instruction answers.  The clock may say anything; what was *)
(* read from the console is the same for both.                             *)
Answered(old) ==
  CASE Twin(old)!Payload.fn = "math"   -> Alu("NEG", Twin(old)!R(Twin(old)!Instr.b), 0)
    [] Twin(old)!Payload.fn = "random" -> NextRandom(prng)
    [] Twin(old)!Payload.fn = "read" /\ Instr.op = "SYSCALL"  -> stack'[base + Instr.a]
    [] Twin(old)!Payload.fn = "clock" /\ Instr.op = "SYSCALL" -> stack'[base + Instr.a]
    [] OTHER -> 0

Computed(old) ==
  LET i == Twin(old)!Instr
  IN  CASE i.op = "MOVE"            -> Twin(old)!R(i.b)
        [] i.op = "LOAD_IMM"        -> Imm(i.fn, i.b)
        [] i.op = "LOAD_CONST"      -> old.consts[i.b]
        [] i.op = "LOAD_STR"        -> old.strs[i.b]
        [] i.op = "LOAD_GLOBAL"     -> globals[i.b]
        [] i.op = "UNARY"           -> Alu(i.fn, Twin(old)!R(i.b), 0)
        [] i.op \in {"ALU", "ALU_IMM"} -> Alu(i.fn, Twin(old)!R(i.b), Twin(old)!Right)
        [] i.op = "SYSCALL"         -> Answered(old)

(* A history variable: whatever this machine does, it says what the old    *)
(* one makes of its stack meanwhile.                                       *)
Shadowed(old) ==
  LET i  == Twin(old)!Instr
      fr == Twin(old)!Caller
  IN  shadow' =
        IF status # "RUNNING" \/ status' # "RUNNING" THEN shadow
        ELSE CASE i.op \in WriteOps \ {"CALL"} /\ ip' = OldAt(old) + Slots(i.op)
                    -> [shadow EXCEPT ![base + i.a] = Computed(old)]
               [] i.op = "TAILCALL"
                    -> [s \in Slot |-> IF s - base \in 0 .. i.c - 1 THEN shadow[s + i.b] ELSE shadow[s]]
               [] i.op = "RET" /\ fr.return_reg >= 0
                    -> [shadow EXCEPT ![fr.register_base + fr.return_reg] = Twin(old)!R(i.a)]
               [] OTHER -> shadow

(* A process that runs the new code, with that record.                     *)
Recorded(old, new) ==
  Init /\ chunk = new /\ shadow = stack /\ [][(Run \/ Handler) /\ Shadowed(old)]_<<vars, shadow>>

(* What is dropped never traps.                                            *)
Harmless(ch, p) ==
  LET i == ch.code[p]
  IN  /\ i.op = "ALU" => \A y \in Word : ~ Traps(i.fn, y)
      /\ i.op = "ALU_IMM" => ~ Traps(i.fn, Imm(i.fn, i.c))
      /\ i.op = "SYSCALL" => i.b + i.c <= RegWindow

(* The window that waits for frame f to be popped holds the same.          *)
WaitsAlike(old, new, same, here, f) ==
  LET b == frames[f].register_base
      c == CallOf(f)
  IN  /\ c \in here
      /\ \A x, y : <<c + 2, x, y>> \in same =>
           \/ x \in Writes(old.code[c]) /\ y \in Writes(new.code[c])
           \/ shadow[b + x] = stack[b + y]

(* Where activation f stands.                                              *)
StandsAt(old, f) == IF f = fp THEN OldAt(old) ELSE frames[f].return_ip

InStep(old, new, here) ==
  /\ OldAt(old) \in here
  /\ \/ ip = OldAt(old)
     \/ /\ ip = OldAt(old) + 1 /\ old.code[OldAt(old)].op = "SYSCALL"
        /\ Dropped(old, new, OldAt(old))

Twinned(old, new, same, here, valued) ==
  /\ Windows /\ chunk = new
  /\ shadow \in [Slot -> Word]
  /\ InStep(old, new, here)
  /\ \A x, y : <<OldAt(old), x, y>> \in same => shadow[base + x] = stack[base + y]
  /\ \A f \in 0 .. fp - 1 : /\ WaitsAlike(old, new, same, here, f)
                            /\ new.code[CallOf(f)].op = "CALL" => StandsAt(old, f + 1) \in valued

(* Rewritten code with all that its running relies on.                     *)
Rewritten(old, new, same, here, valued) ==
  /\ IsChunk(old) /\ HasPools(old) /\ new \in Chunks
  /\ Agrees(old, new, same, here) /\ Answers(old, here, valued)
  /\ \A p, x, y : <<p, x, y>> \in same => x \in Regs /\ y \in Regs
  /\ \A p \in here : Dropped(old, new, p) => Harmless(old, p)

(* Both machines have the same instruction set and the same sizes.         *)
LEMMA TwinTables ==
  ASSUME NEW old
  PROVE  /\ Twin(old)!WideOps = WideOps /\ Twin(old)!SyscallOps = SyscallOps
         /\ Twin(old)!SyscallIds = SyscallIds /\ Twin(old)!ACU_FRAME_NO_RET = ACU_FRAME_NO_RET
         /\ Twin(old)!Slot = Slot /\ Twin(old)!FrameIdx = FrameIdx
         /\ \A op : Twin(old)!Slots(op) = Slots(op)
         /\ \A p, i : Twin(old)!JumpTarget(p, i) = JumpTarget(p, i)
<1>1. Twin(old)!WideOps = WideOps /\ Twin(old)!SyscallOps = SyscallOps
  BY DEF Twin!WideOps, WideOps, Twin!SyscallOps, SyscallOps
<1>2. Twin(old)!SyscallIds = SyscallIds
  BY DEF Twin!SyscallIds, SyscallIds
<1>3. Twin(old)!Slot = Slot /\ Twin(old)!FrameIdx = FrameIdx /\ Twin(old)!ACU_FRAME_NO_RET = ACU_FRAME_NO_RET
  BY DEF Twin!Slot, Slot, Twin!FrameIdx, FrameIdx, Twin!ACU_FRAME_NO_RET, ACU_FRAME_NO_RET
<1>4. \A op : Twin(old)!Slots(op) = Slots(op)
  BY <1>1 DEF Twin!Slots, Slots
<1>5. \A p, i : Twin(old)!JumpTarget(p, i) = JumpTarget(p, i)
  BY DEF Twin!JumpTarget, JumpTarget, Twin!JumpOffset, JumpOffset
<1> QED
  BY <1>1, <1>2, <1>3, <1>4, <1>5

LEMMA OldFramesStill ==
  ASSUME NEW old, frames' = frames
  PROVE  OldFrames(old)' = OldFrames(old)
BY DEF OldFrames, CallOf

(* The old machine at the word it stands at.                               *)
LEMMA TwinStands ==
  ASSUME NEW old, NEW new, NEW same, NEW here, NEW valued,
         Rewritten(old, new, same, here, valued), Twinned(old, new, same, here, valued)
  PROVE  /\ OldAt(old) \in here /\ OldAt(old) \in 0 .. old.size - 1
         /\ Twin(old)!Instr = old.code[OldAt(old)] /\ Twin(old)!Payload = old.code[OldAt(old) + 1]
         /\ Twin(old)!Decodes
         /\ Twin(old)!Instr \in Words /\ FieldsOK(old, Twin(old)!Instr)
         /\ SameWork(old, new, same, OldAt(old)) \/ Dropped(old, new, OldAt(old))
         /\ LeadsAlike(old, new, same, here, OldAt(old))
<1>1. OldAt(old) \in here
  BY DEF Twinned, InStep
<1>2. /\ Fetches(old, OldAt(old)) /\ LeadsAlike(old, new, same, here, OldAt(old))
      /\ SameWork(old, new, same, OldAt(old)) \/ Dropped(old, new, OldAt(old))
  BY <1>1 DEF Rewritten, Agrees
<1>3. Twin(old)!Instr = old.code[OldAt(old)] /\ Twin(old)!Payload = old.code[OldAt(old) + 1]
  BY DEF Twin!Instr, Twin!Payload
<1>4. Twin(old)!Decodes
  BY <1>2, <1>3, TwinTables DEF Fetches, Twin!Decodes
<1>5. OldAt(old) \in 0 .. old.size - 1
  BY <1>2 DEF Fetches
<1>6. old.code[OldAt(old)] \in Words /\ FieldsOK(old, old.code[OldAt(old)])
  BY <1>5 DEF Rewritten, IsChunk, IsCode
<1> QED
  BY <1>1, <1>2, <1>3, <1>4, <1>5, <1>6

LEMMA NewSides ==
  ASSUME NEW old, NEW new, NEW same, NEW here, NEW valued, Rewritten(old, new, same, here, valued)
  PROVE  /\ IsChunk(new) /\ new.size = old.size /\ new.slots = old.slots
         /\ new.consts = old.consts /\ new.strs = old.strs
BY ChunksAssumption DEF Rewritten, Agrees, HasPools, IsChunk, IsCode

(* What the instruction reads is the same in both machines.                *)
LEMMA ReadsAlike ==
  ASSUME NEW old, NEW new, NEW same, NEW here, NEW valued,
         Twinned(old, new, same, here, valued), NEW x, NEW y, <<OldAt(old), x, y>> \in same
  PROVE  Twin(old)!R(x) = R(y)
BY DEF Twinned, Twin!R, R

LEMMA TwinDispatch ==
  ASSUME NEW old, NEW new, NEW same, NEW here, NEW valued,
         Rewritten(old, new, same, here, valued), Twinned(old, new, same, here, valued),
         status = "RUNNING", NEW ops, Twin(old)!Instr.op \in ops
  PROVE  Twin(old)!Dispatch(ops)
BY TwinStands DEF Twin!Dispatch

(* Below the window of its callee nothing has been written.                *)
LEMMA WaitingKept ==
  ASSUME NEW old, NEW new, NEW same, NEW here, NEW valued,
         Rewritten(old, new, same, here, valued), Twinned(old, new, same, here, valued),
         frames' = frames, NEW f \in 0 .. fp - 1, NEW limit \in Nat, BaseOf(f + 1) <= limit,
         \A s \in Slot : s < limit => shadow'[s] = shadow[s] /\ stack'[s] = stack[s]
  PROVE  WaitsAlike(old, new, same, here, f)'
<1> DEFINE b == frames[f].register_base
           c == CallOf(f)
<1>1. WaitsAlike(old, new, same, here, f) /\ TypeOK
  BY DEF Twinned, Windows
<1>2. /\ b \in Nat /\ BaseOf(f + 1) - b \in Regs /\ BaseOf(f + 1) \in Nat /\ BaseOf(f + 1) <= base
  BY FrameOK DEF Twinned
<1>3. c \in 0 .. new.size - 1 /\ new.code[c].op \in {"CALL", "CALL_VOID"} /\ BaseOf(f + 1) = b + new.code[c].b
  BY DEF Twinned, Windows, FramesMatchCalls, CallOf
<1>4. ~ Dropped(old, new, c) /\ SameWork(old, new, same, c) /\ LeadsAlike(old, new, same, here, c)
  BY <1>1, <1>3 DEF WaitsAlike, Rewritten, Agrees, Dropped
<1>5. old.code[c].op \in {"CALL", "CALL_VOID"} /\ old.code[c].b = new.code[c].b
  BY <1>3, <1>4 DEF SameWork, WideOps, Voided
<1>6. ASSUME NEW x, NEW y, <<c + 2, x, y>> \in same, ~ (x \in Writes(old.code[c]) /\ y \in Writes(new.code[c]))
      PROVE  shadow'[b + x] = stack'[b + y]
  <2>1. CarriedOver(old, new, same, c, x, y) /\ x \in Regs /\ y \in Regs
    BY <1>4, <1>5, <1>6 DEF LeadsAlike, Rewritten
  <2>2. x < new.code[c].b /\ y < new.code[c].b
    BY <1>5, <1>6, <2>1 DEF CarriedOver
  <2>3. x \in Nat /\ y \in Nat /\ new.code[c].b \in Int
    BY <1>3, <2>1, NewSides DEF Regs, IsChunk, IsCode, Words
  <2>4. b + x < limit /\ b + y < limit /\ b + x < base /\ b + y < base /\ b + x \in Nat /\ b + y \in Nat
    <3>1. base \in Nat
      BY <1>1, SizesAssumption DEF TypeOK
    <3> QED
      BY <1>2, <1>3, <2>2, <2>3, <3>1
  <2>5. b + x \in Slot /\ b + y \in Slot
    BY <1>1, <2>4, SizesAssumption DEF Slot, TypeOK
  <2>6. shadow'[b + x] = shadow[b + x] /\ stack'[b + y] = stack[b + y]
    BY <2>4, <2>5
  <2>7. shadow[b + x] = stack[b + y]
    BY <1>1, <1>6 DEF WaitsAlike
  <2> QED
    BY <2>6, <2>7
<1> QED
  BY <1>1, <1>6 DEF WaitsAlike, CallOf
-----------------------------------------------------------------------------
(* Registers after a step inside a function.                               *)

(* The new machine writes v, if it writes, and the old one w.              *)
Effect(old, new, v, w) ==
  LET i == old.code[OldAt(old)]
      j == new.code[OldAt(old)]
  IN  /\ stack'  = IF j.op \in WriteOps THEN [stack EXCEPT ![base + j.a] = v] ELSE stack
      /\ shadow' = IF i.op \in WriteOps THEN [shadow EXCEPT ![base + i.a] = w] ELSE shadow
      /\ i.op \in WriteOps /\ j.op \in WriteOps => v = w
      /\ i.op = "MOVE" => w = shadow[base + i.b]
      /\ j.op = "MOVE" => v = stack[base + j.b]
      /\ UNCHANGED <<base, fp, frames>>

LEMMA Carry ==
  ASSUME NEW old, NEW new, NEW same, NEW here, NEW valued,
         Rewritten(old, new, same, here, valued), Twinned(old, new, same, here, valued),
         NEW q, \A x, y : <<q, x, y>> \in same => Carried(old, new, same, OldAt(old), x, y),
         NEW v, NEW w \in Word, Effect(old, new, v, w)
  PROVE  /\ shadow' \in [Slot -> Word]
         /\ \A x, y : <<q, x, y>> \in same => shadow'[base' + x] = stack'[base' + y]
         /\ \A f \in 0 .. fp' - 1 : WaitsAlike(old, new, same, here, f)'
<1> DEFINE p == OldAt(old)
           i == old.code[p]
           j == new.code[p]
<1>e. /\ stack'  = IF j.op \in WriteOps THEN [stack EXCEPT ![base + j.a] = v] ELSE stack
      /\ shadow' = IF i.op \in WriteOps THEN [shadow EXCEPT ![base + i.a] = w] ELSE shadow
      /\ i.op \in WriteOps /\ j.op \in WriteOps => v = w
      /\ i.op = "MOVE" => w = shadow[base + i.b]
      /\ j.op = "MOVE" => v = stack[base + j.b]
      /\ UNCHANGED <<base, fp, frames>>
  BY DEF Effect
<1>1. /\ shadow \in [Slot -> Word] /\ stack \in [Slot -> Word]
      /\ base \in 0 .. StackCapacity - RegWindow /\ base \in Nat
      /\ \A r \in Regs : base + r \in Slot /\ r \in Nat
  <2>1. TypeOK
    BY DEF Twinned, Windows
  <2>2. \A r \in Regs : base + r \in Slot
    BY <2>1, RegisterValue
  <2>3. \A r \in Regs : r \in Nat
    BY SizesAssumption DEF Regs
  <2> QED
    BY <2>1, <2>2, <2>3, SizesAssumption DEF Twinned, TypeOK
<1>2. /\ p \in 0 .. old.size - 1 /\ FieldsOK(old, i) /\ FieldsOK(new, j)
  BY TwinStands, NewSides DEF IsChunk
<1>p. \A x, y : <<q, x, y>> \in same => Carried(old, new, same, p, x, y)
  OBVIOUS
<1>c. \A x, y : Carried(old, new, same, p, x, y) =>
                   \/ x \in Writes(i) /\ y \in Writes(j)
                   \/ x \notin Writes(i) /\ y \notin Writes(j) /\ <<p, x, y>> \in same
                   \/ i.op = "MOVE" /\ x = i.a /\ y \notin Writes(j) /\ <<p, i.b, y>> \in same
                   \/ j.op = "MOVE" /\ y = j.a /\ x \notin Writes(i) /\ <<p, x, j.b>> \in same
  BY DEF Carried
<1>3. /\ i.op \in WriteOps => i.a \in Regs /\ i.a \in Nat /\ base + i.a \in Slot
      /\ j.op \in WriteOps => j.a \in Regs /\ j.a \in Nat /\ base + j.a \in Slot
  BY <1>1, <1>2 DEF FieldsOK
<1> HIDE DEF i, j, p
<1>4. shadow' \in [Slot -> Word]
  BY <1>1, <1>3, <1>e
<1>5. ASSUME NEW r \in Regs
      PROVE  /\ shadow'[base + r] = IF r \in Writes(i) THEN w ELSE shadow[base + r]
             /\ stack'[base + r] = IF r \in Writes(j) THEN v ELSE stack[base + r]
  <2>1. base + r \in Slot /\ r \in Nat
    BY <1>1
  <2>2. i.op \in WriteOps => (base + r = base + i.a <=> r = i.a)
    BY <1>1, <1>3, <2>1
  <2>3. j.op \in WriteOps => (base + r = base + j.a <=> r = j.a)
    BY <1>1, <1>3, <2>1
  <2> QED
    BY <1>1, <1>3, <1>e, <2>1, <2>2, <2>3 DEF Writes
<1>6. ASSUME NEW x, NEW y, <<p, x, y>> \in same
      PROVE  x \in Regs /\ y \in Regs /\ shadow[base + x] = stack[base + y]
  BY <1>6 DEF Rewritten, Twinned, p
<1>7. ASSUME NEW x, NEW y, <<q, x, y>> \in same
      PROVE  shadow'[base' + x] = stack'[base' + y]
  <2>1. x \in Regs /\ y \in Regs
    BY <1>7 DEF Rewritten
  <2>2. Carried(old, new, same, p, x, y)
    BY <1>7, <1>p
  <2>3. CASE x \in Writes(i) /\ y \in Writes(j)
    BY <1>e, <1>5, <2>1, <2>3 DEF Writes
  <2>4. CASE x \notin Writes(i) /\ y \notin Writes(j) /\ <<p, x, y>> \in same
    BY <1>e, <1>5, <1>6, <2>1, <2>4
  <2>5. CASE i.op = "MOVE" /\ x = i.a /\ y \notin Writes(j) /\ <<p, i.b, y>> \in same
    <3>1. x \in Writes(i)
      BY <2>5 DEF Writes, WriteOps
    <3> QED
      BY <1>e, <1>5, <1>6, <2>1, <2>5, <3>1
  <2>6. CASE j.op = "MOVE" /\ y = j.a /\ x \notin Writes(i) /\ <<p, x, j.b>> \in same
    <3>1. y \in Writes(j)
      BY <2>6 DEF Writes, WriteOps
    <3> QED
      BY <1>e, <1>5, <1>6, <2>1, <2>6, <3>1
  <2> QED
    BY <1>c, <2>2, <2>3, <2>4, <2>5, <2>6
<1>8. ASSUME NEW f \in 0 .. fp' - 1
      PROVE  WaitsAlike(old, new, same, here, f)'
  <2>1. f \in 0 .. fp - 1 /\ BaseOf(f + 1) <= base
    BY <1>e, <1>8, FrameOK DEF Twinned
  <2>2. ASSUME NEW s \in Slot, s < base
        PROVE  shadow'[s] = shadow[s] /\ stack'[s] = stack[s]
    <3>1. \A r \in Regs : base + r # s
      BY <1>1, <2>2 DEF Slot
    <3> QED
      BY <1>1, <1>3, <1>e, <3>1
  <2> QED
    BY <1>1, <1>e, <2>1, <2>2, WaitingKept
<1> QED
  BY <1>4, <1>7, <1>8
-----------------------------------------------------------------------------
(* The ways a handler ends, in both machines.                              *)

LEMMA OldAtIs ==
  ASSUME NEW old, NEW new, NEW same, NEW here, NEW valued,
         Rewritten(old, new, same, here, valued), NEW q \in here, ip' = q
  PROVE  OldAt(old)' = q /\ InStep(old, new, here)'
<1>1. old.code[q].op # "WORD"
  BY DEF Rewritten, Agrees, Fetches
<1>2. OldAt(old)' = q
  BY <1>1 DEF OldAt
<1> QED
  BY <1>2 DEF InStep

LEMMA TwinGoto ==
  ASSUME NEW old, NEW new, NEW same, NEW here, NEW valued,
         Rewritten(old, new, same, here, valued), status = "RUNNING", NEW q \in here, Goto(q)
  PROVE  Twin(old)!Goto(q) /\ OldAt(old)' = q
<1>1. OldAt(old)' = q /\ OldFrames(old)' = OldFrames(old)
  BY OldAtIs, OldFramesStill DEF Goto
<1> QED
  BY <1>1 DEF Goto, Twin!Goto

LEMMA TwinStop ==
  ASSUME NEW old, NEW s, s # "HALT", status = "RUNNING", Stop(s), shadow' = shadow
  PROVE  Twin(old)!Stop(s)
<1>1. OldFrames(old)' = OldFrames(old) /\ OldAt(old)' = OldAt(old)
  BY OldFramesStill DEF Stop, OldAt
<1> QED
  BY <1>1 DEF Stop, Twin!Stop

(* A step that ends the run, or starts it, leaves all but the status.      *)
LEMMA StillTwinned ==
  ASSUME NEW old, NEW new, NEW same, NEW here, NEW valued,
         Twinned(old, new, same, here, valued), Windows',
         UNCHANGED <<chunk, ip, base, stack, frames, fp>>, shadow' = shadow
  PROVE  Twinned(old, new, same, here, valued)'
<1>1. OldAt(old)' = OldAt(old) /\ \A f : CallOf(f)' = CallOf(f) /\ StandsAt(old, f)' = StandsAt(old, f)
  BY DEF OldAt, CallOf, StandsAt
<1>2. InStep(old, new, here)'
  BY <1>1 DEF Twinned, InStep
<1>3. \A f \in 0 .. fp' - 1 : WaitsAlike(old, new, same, here, f)'
  BY <1>1 DEF Twinned, WaitsAlike
<1> QED
  BY <1>1, <1>2, <1>3 DEF Twinned

(* A step inside a function.                                               *)
LEMMA Onward ==
  ASSUME NEW old, NEW new, NEW same, NEW here, NEW valued,
         Rewritten(old, new, same, here, valued), Twinned(old, new, same, here, valued), Windows',
         UNCHANGED <<chunk, base, fp, frames>>, NEW q \in here, ip' = q,
         OldAt(old) \in valued => q \in valued,
         shadow' \in [Slot -> Word],
         \A x, y : <<q, x, y>> \in same => shadow'[base' + x] = stack'[base' + y],
         \A f \in 0 .. fp' - 1 : WaitsAlike(old, new, same, here, f)'
  PROVE  Twinned(old, new, same, here, valued)'
<1>1. OldAt(old)' = q /\ InStep(old, new, here)'
  BY OldAtIs
<1>2. ASSUME NEW f \in 0 .. fp' - 1, new.code[CallOf(f)'].op = "CALL"
      PROVE  StandsAt(old, f + 1)' \in valued
  <2>1. f \in 0 .. fp - 1 /\ CallOf(f)' = CallOf(f)
    BY <1>2 DEF CallOf
  <2>2. StandsAt(old, f + 1) \in valued
    BY <1>2, <2>1 DEF Twinned
  <2> QED
    BY <1>1, <2>2 DEF StandsAt
<1> QED
  BY <1>1, <1>2 DEF Twinned

(* Where the next word is, the registers agree and a value is still due.   *)
LEMMA NextWord ==
  ASSUME NEW old, NEW new, NEW same, NEW here, NEW valued,
         Rewritten(old, new, same, here, valued), Twinned(old, new, same, here, valued),
         NEW q,
         \/ /\ FallsThrough(old, OldAt(old)) /\ q = OldAt(old) + Slots(old.code[OldAt(old)].op)
            /\ old.code[OldAt(old)].op \notin BytecodeCalls
         \/ old.code[OldAt(old)].op \in Jumps /\ q = JumpTarget(OldAt(old), old.code[OldAt(old)])
  PROVE  /\ q \in here /\ (OldAt(old) \in valued => q \in valued)
         /\ \A x, y : <<q, x, y>> \in same => Carried(old, new, same, OldAt(old), x, y)
<1>1. OldAt(old) \in here /\ LeadsAlike(old, new, same, here, OldAt(old))
  BY TwinStands
<1>2. OldAt(old) \in valued => q \in valued
  BY <1>1 DEF Rewritten, Answers
<1> QED
  BY <1>1, <1>2 DEF LeadsAlike

(* The same register work in both machines, or in the old one only.        *)
LEMMA WriteTwins ==
  ASSUME NEW old, NEW new, NEW same, NEW here, NEW valued,
         Rewritten(old, new, same, here, valued), Twinned(old, new, same, here, valued), Windows',
         NEW i, i = old.code[OldAt(old)], NEW j, j = new.code[OldAt(old)],
         i.op \in WriteOps \ {"CALL", "TAILCALL"}, FallsThrough(old, OldAt(old)),
         status = "RUNNING", status' = "RUNNING", ip' = OldAt(old) + Slots(i.op), Shadowed(old),
         UNCHANGED <<chunk, base, fp, frames>>,
         NEW v,
         stack' = IF j.op \in WriteOps THEN [stack EXCEPT ![base + j.a] = v] ELSE stack,
         j.op \in WriteOps => v = Computed(old),
         j.op = "MOVE" => i.op = "MOVE" /\ v = stack[base + j.b],
         Computed(old) \in Word
  PROVE  /\ shadow' = [shadow EXCEPT ![base + Twin(old)!Instr.a] = Computed(old)]
         /\ ip' \in here /\ Twinned(old, new, same, here, valued)'
<1>1. Twin(old)!Instr = i
  BY TwinStands
<1>2. shadow' = [shadow EXCEPT ![base + i.a] = Computed(old)]
  <2>1. i.op \in WriteOps \ {"CALL"} /\ i.op # "TAILCALL" /\ i.op # "RET"
    BY DEF WriteOps
  <2>2. shadow' = CASE i.op \in WriteOps \ {"CALL"} /\ ip' = OldAt(old) + Slots(i.op)
                         -> [shadow EXCEPT ![base + i.a] = Computed(old)]
                    [] i.op = "TAILCALL"
                         -> [s \in Slot |-> IF s - base \in 0 .. i.c - 1 THEN shadow[s + i.b] ELSE shadow[s]]
                    [] i.op = "RET" /\ Twin(old)!Caller.return_reg >= 0
                         -> [shadow EXCEPT ![Twin(old)!Caller.register_base + Twin(old)!Caller.return_reg] = Twin(old)!R(i.a)]
                    [] OTHER -> shadow
    BY <1>1, Zenon DEF Shadowed
  <2> QED
    BY <2>1, <2>2
<1>3. i.op = "MOVE" => Computed(old) = shadow[base + i.b]
  BY <1>1 DEF Computed, Twin!R
<1>4. /\ ip' \in here /\ (OldAt(old) \in valued => ip' \in valued)
      /\ \A x, y : <<ip', x, y>> \in same => Carried(old, new, same, OldAt(old), x, y)
  <2>1. i.op \notin BytecodeCalls
    BY DEF WriteOps, BytecodeCalls
  <2> QED
    BY <2>1, NextWord
<1>5. /\ shadow' \in [Slot -> Word]
      /\ \A x, y : <<ip', x, y>> \in same => shadow'[base' + x] = stack'[base' + y]
      /\ \A f \in 0 .. fp' - 1 : WaitsAlike(old, new, same, here, f)'
  <2>1. Effect(old, new, v, Computed(old))
    BY <1>2, <1>3 DEF Effect
  <2> QED
    <3> DEFINE w == Computed(old)
               q == ip'
    <3>1. /\ Effect(old, new, v, w) /\ w \in Word
          /\ \A x, y : <<q, x, y>> \in same => Carried(old, new, same, OldAt(old), x, y)
      BY <1>4, <2>1
    <3>2. /\ shadow' \in [Slot -> Word]
          /\ \A x, y : <<q, x, y>> \in same => shadow'[base' + x] = stack'[base' + y]
          /\ \A f \in 0 .. fp' - 1 : WaitsAlike(old, new, same, here, f)'
      <4> HIDE DEF w, q
      <4> QED
        BY <3>1, Carry
    <3> QED
      BY <3>2
<1>6. Twinned(old, new, same, here, valued)'
  BY <1>4, <1>5, Onward
<1> QED
  BY <1>1, <1>2, <1>4, <1>6

(* No register work in either machine.                                     *)
LEMMA PlainTwins ==
  ASSUME NEW old, NEW new, NEW same, NEW here, NEW valued,
         Rewritten(old, new, same, here, valued), Twinned(old, new, same, here, valued), Windows',
         NEW i, i = old.code[OldAt(old)], i.op \notin WriteOps \union {"TAILCALL", "RET"},
         new.code[OldAt(old)].op \notin WriteOps,
         stack' = stack, UNCHANGED <<chunk, base, fp, frames>>, Shadowed(old),
         \/ FallsThrough(old, OldAt(old)) /\ ip' = OldAt(old) + Slots(i.op) /\ i.op \notin BytecodeCalls
         \/ i.op \in Jumps /\ ip' = JumpTarget(OldAt(old), i)
  PROVE  shadow' = shadow /\ ip' \in here /\ Twinned(old, new, same, here, valued)'
<1>1. shadow' = shadow
  <2>1. Twin(old)!Instr = i
    BY TwinStands
  <2> QED
    BY <2>1 DEF Shadowed
<1>2. /\ ip' \in here /\ (OldAt(old) \in valued => ip' \in valued)
      /\ \A x, y : <<ip', x, y>> \in same => Carried(old, new, same, OldAt(old), x, y)
  BY NextWord
<1>3. Effect(old, new, 0, 0) /\ 0 \in Word
  BY <1>1, WordAssumption DEF Effect, WriteOps
<1> DEFINE q == ip'
<1>4. /\ shadow' \in [Slot -> Word]
      /\ \A x, y : <<q, x, y>> \in same => shadow'[base' + x] = stack'[base' + y]
      /\ \A f \in 0 .. fp' - 1 : WaitsAlike(old, new, same, here, f)'
  <2>1. \A x, y : <<q, x, y>> \in same => Carried(old, new, same, OldAt(old), x, y)
    BY <1>2
  <2> HIDE DEF q
  <2> QED
    BY <1>3, <2>1, Carry
<1>5. Twinned(old, new, same, here, valued)'
  BY <1>2, <1>4, Onward
<1> QED
  BY <1>1, <1>2, <1>5
-----------------------------------------------------------------------------
(* Every handler where both machines have the instruction.                 *)

LEMMA Alongside ==
  ASSUME NEW old, NEW new, NEW same, NEW here, NEW valued,
         Rewritten(old, new, same, here, valued), Twinned(old, new, same, here, valued),
         ip = OldAt(old), SameWork(old, new, same, ip)
  PROVE  /\ Decodes /\ Instr = new.code[ip] /\ Instr.fn = Twin(old)!Instr.fn
         /\ Instr.op = Twin(old)!Instr.op \/ <<Twin(old)!Instr.op, Instr.op>> \in Voided
         /\ Twin(old)!Instr.op \in WideOps => Payload = Twin(old)!Payload
         /\ \A x, y : <<ip, x, y>> \in same => Twin(old)!R(x) = R(y)
<1> DEFINE i == old.code[ip]
<1>1. /\ Twin(old)!Instr = i /\ Twin(old)!Payload = old.code[ip + 1] /\ Twin(old)!Decodes
  BY TwinStands
<1>2. Instr = new.code[ip] /\ Payload = new.code[ip + 1]
  BY DEF Twinned, Instr, Payload
<1>3. /\ Instr.fn = i.fn
      /\ Instr.op = i.op \/ <<i.op, Instr.op>> \in Voided
      /\ i.op \in WideOps => new.code[ip + 1] = old.code[ip + 1]
  BY <1>2 DEF SameWork
<1>4. i.op \in WideOps <=> Instr.op \in WideOps
  BY <1>3 DEF Voided, WideOps
<1>5. /\ ip \in 0 .. old.size - 1 /\ i.op # "WORD"
      /\ i.op \in WideOps => ip + 1 \in 0 .. old.size - 1 /\ old.code[ip + 1].op = "WORD"
  BY <1>1, TwinTables DEF Twin!Decodes
<1>6. Instr.op # "WORD"
  BY <1>3, <1>5 DEF Voided
<1>7. Decodes
  BY <1>2, <1>3, <1>4, <1>5, <1>6, NewSides DEF Twinned, Decodes
<1> QED
  BY <1>1, <1>2, <1>3, <1>7, ReadsAlike

LEMMA ControlTwins ==
  ASSUME NEW old, NEW new, NEW same, NEW here, NEW valued,
         Rewritten(old, new, same, here, valued), Twinned(old, new, same, here, valued), Windows',
         ip = OldAt(old), SameWork(old, new, same, ip), Shadowed(old),
         DoNop \/ DoHalt \/ DoJump \/ DoJumpIf \/ DoJumpCmp \/ DoJumpCmpImm
  PROVE  Twin(old)!Handler /\ Twinned(old, new, same, here, valued)'
<1> DEFINE i == Twin(old)!Instr
<1>1. /\ Decodes /\ Instr = new.code[ip] /\ Instr.fn = i.fn /\ i = old.code[ip]
      /\ Instr.op = i.op \/ <<i.op, Instr.op>> \in Voided
      /\ \A x, y : <<ip, x, y>> \in same => Twin(old)!R(x) = R(y)
  BY Alongside, TwinStands
<1>2. status = "RUNNING" /\ Instr.op \in {"NOP", "HALT"} \union Jumps
  BY DEF DoNop, DoHalt, DoJump, DoJumpIf, DoJumpCmp, DoJumpCmpImm, Dispatch, Jumps, CondJumps
<1>3. i.op = Instr.op
  BY <1>1, <1>2 DEF Voided, Jumps, CondJumps
<1>4. \A ops : Dispatch(ops) => Twin(old)!Dispatch(ops)
  BY <1>2, <1>3, TwinDispatch DEF Dispatch
<1>5. /\ i.op \notin WriteOps \union {"TAILCALL", "RET"} \union BytecodeCalls
      /\ new.code[ip].op \notin WriteOps
  BY <1>1, <1>2, <1>3 DEF WriteOps, Jumps, CondJumps, BytecodeCalls
<1>6. CASE DoNop
  <2>1. Instr.op = "NOP" /\ Slots("NOP") = 1 /\ stack' = stack /\ ip' = ip + 1
        /\ Goto(ip + 1) /\ UNCHANGED <<stack, globals, prng, out>>
    BY <1>6 DEF DoNop, Dispatch, Slots, WideOps, Advance, Goto
  <2>2. FallsThrough(old, ip)
    BY <1>1, <1>3, <2>1 DEF FallsThrough, Ops, Terminators, SyscallOps
  <2>3. shadow' = shadow /\ ip' \in here /\ Twinned(old, new, same, here, valued)'
    BY <1>1, <1>3, <1>5, <2>1, <2>2, PlainTwins DEF Goto
  <2>4. Twin(old)!Goto(ip + 1)
    BY <1>2, <2>1, <2>3, TwinGoto
  <2>5. Twin(old)!DoNop
    BY <1>3, <1>4, <1>6, <2>1, <2>3, <2>4, TwinTables DEF DoNop, Twin!DoNop, Twin!Advance
  <2> QED
    BY <2>3, <2>5 DEF Twin!Handler
<1>7. CASE DoHalt
  <2>1. /\ status' = "HALT" /\ exitCode' = R(0) /\ Dispatch({"HALT"})
        /\ UNCHANGED <<chunk, ip, base, stack, frames, fp, globals, prng, out>>
    BY <1>7 DEF DoHalt
  <2>2. shadow' = shadow
    BY <2>1 DEF Shadowed
  <2>3. Twinned(old, new, same, here, valued)'
    BY <2>1, <2>2, StillTwinned
  <2>4. OldFrames(old)' = OldFrames(old) /\ OldAt(old)' = OldAt(old)
    BY <2>1, OldFramesStill DEF OldAt
  <2>5. Twin(old)!DoHalt
    BY <1>4, <2>1, <2>2, <2>4 DEF Twin!DoHalt, Twin!R
  <2> QED
    BY <2>3, <2>5 DEF Twin!Handler
<1>8. ASSUME NEW taken, JumpWhen(taken), Instr.op \in Jumps, Instr.op = "JUMP" => taken
      PROVE  Twin(old)!JumpWhen(taken) /\ Twinned(old, new, same, here, valued)'
  <2> DEFINE q == IF taken THEN JumpTarget(ip, i) ELSE ip + 1
  <2>1. JumpOffset(Instr) = JumpOffset(i)
    BY <1>1, <1>3, <1>8 DEF SameWork
  <2>2. JumpTarget(ip, Instr) = JumpTarget(ip, i)
    BY <2>1 DEF JumpTarget
  <2>3. ip' = q /\ Goto(q) /\ UNCHANGED <<stack, globals, prng, out>> /\ UNCHANGED <<chunk, base, fp, frames>>
    BY <1>8, <2>2 DEF JumpWhen, Goto
  <2>4. ~ taken => /\ FallsThrough(old, ip) /\ Slots(i.op) = 1
    BY <1>1, <1>3, <1>8 DEF FallsThrough, Slots, WideOps, Ops, Terminators, SyscallOps, Jumps, CondJumps
  <2>5. \/ FallsThrough(old, OldAt(old)) /\ ip' = OldAt(old) + Slots(i.op) /\ i.op \notin BytecodeCalls
        \/ i.op \in Jumps /\ ip' = JumpTarget(OldAt(old), i)
    BY <1>3, <1>5, <1>8, <2>3, <2>4
  <2>6. shadow' = shadow /\ ip' \in here /\ Twinned(old, new, same, here, valued)'
    <3> HIDE DEF i
    <3> QED
      BY <1>1, <1>5, <2>3, <2>5, PlainTwins
  <2>7. Twin(old)!Goto(q)
    <3> HIDE DEF q
    <3> QED
      BY <1>2, <2>3, <2>6, TwinGoto
  <2>8. Twin(old)!JumpWhen(taken)
    BY <2>3, <2>6, <2>7, TwinTables DEF Twin!JumpWhen
  <2> QED
    BY <2>6, <2>8
<1>9. CASE DoJump
  <2>1. JumpWhen(TRUE) /\ Dispatch({"JUMP"}) /\ Instr.op \in Jumps
    BY <1>9 DEF DoJump, Dispatch, Jumps
  <2>2. Twin(old)!JumpWhen(TRUE) /\ Twinned(old, new, same, here, valued)'
    BY <1>8, <2>1
  <2> QED
    BY <1>4, <2>1, <2>2 DEF Twin!DoJump, Twin!Handler
<1>10. CASE DoJumpIf
  <2> DEFINE taken == (R(Instr.a) # 0) = (Instr.op = "JUMP_IF_TRUE")
  <2>1. JumpWhen(taken) /\ Dispatch({"JUMP_IF_TRUE", "JUMP_IF_FALSE"}) /\ Instr.op \in Jumps /\ Instr.op # "JUMP"
    BY <1>10 DEF DoJumpIf, Dispatch, Jumps, CondJumps
  <2>2. Twin(old)!R(i.a) = R(Instr.a)
    <3>1. Instr.op \in {"JUMP_IF_TRUE", "JUMP_IF_FALSE"}
      BY <2>1 DEF Dispatch
    <3>2. <<ip, i.a, Instr.a>> \in same
      BY <1>1, <1>3, <3>1 DEF SameWork
    <3> QED
      BY <1>1, <3>2
  <2>3. Twin(old)!JumpWhen(taken) /\ Twinned(old, new, same, here, valued)'
    <3> HIDE DEF taken
    <3> QED
      BY <1>8, <2>1
  <2>4. Twin(old)!DoJumpIf
    BY <1>3, <1>4, <2>1, <2>2, <2>3 DEF Twin!DoJumpIf
  <2> QED
    BY <2>3, <2>4 DEF Twin!Handler
<1>11. CASE DoJumpCmp
  <2> DEFINE taken == Cmp(Instr.fn, R(Instr.a), R(Instr.b))
  <2>1. JumpWhen(taken) /\ Dispatch({"JUMP_CMP"}) /\ Instr.op \in Jumps /\ Instr.op = "JUMP_CMP"
    BY <1>11 DEF DoJumpCmp, Dispatch, Jumps, CondJumps
  <2>2. Twin(old)!R(i.a) = R(Instr.a) /\ Twin(old)!R(i.b) = R(Instr.b)
    <3>1. <<ip, i.a, Instr.a>> \in same /\ <<ip, i.b, Instr.b>> \in same
      BY <1>1, <1>3, <2>1 DEF SameWork
    <3> QED
      BY <1>1, <3>1
  <2>3. Twin(old)!JumpWhen(taken) /\ Twinned(old, new, same, here, valued)'
    <3> HIDE DEF taken
    <3> QED
      BY <1>8, <2>1
  <2>4. Twin(old)!DoJumpCmp
    BY <1>1, <1>4, <2>1, <2>2, <2>3 DEF Twin!DoJumpCmp
  <2> QED
    BY <2>3, <2>4 DEF Twin!Handler
<1>12. CASE DoJumpCmpImm
  <2> DEFINE taken == Cmp(Instr.fn, R(Instr.a), JumpImm(Instr.fn, Instr.b))
  <2>1. JumpWhen(taken) /\ Dispatch({"JUMP_CMP_IMM"}) /\ Instr.op \in Jumps /\ Instr.op = "JUMP_CMP_IMM"
    BY <1>12 DEF DoJumpCmpImm, Dispatch, Jumps, CondJumps
  <2>2. Twin(old)!R(i.a) = R(Instr.a) /\ i.b = Instr.b
    <3>1. <<ip, i.a, Instr.a>> \in same /\ i.b = Instr.b
      BY <1>1, <1>3, <2>1 DEF SameWork
    <3> QED
      BY <1>1, <3>1
  <2>3. Twin(old)!JumpWhen(taken) /\ Twinned(old, new, same, here, valued)'
    <3> HIDE DEF taken
    <3> QED
      BY <1>8, <2>1
  <2>4. Twin(old)!DoJumpCmpImm
    BY <1>1, <1>4, <2>1, <2>2, <2>3 DEF Twin!DoJumpCmpImm
  <2> QED
    BY <2>3, <2>4 DEF Twin!Handler
<1> QED
  BY <1>6, <1>7, <1>9, <1>10, <1>11, <1>12

LEMMA SetTwins ==
  ASSUME NEW old, NEW new, NEW same, NEW here, NEW valued,
         Rewritten(old, new, same, here, valued), Twinned(old, new, same, here, valued), Windows',
         ip = OldAt(old), SameWork(old, new, same, ip), Shadowed(old),
         status = "RUNNING", Instr.op \in WriteOps \ {"CALL", "SYSCALL"},
         NEW v, SetA(v), v = Computed(old)
  PROVE  Twin(old)!SetA(v) /\ Twinned(old, new, same, here, valued)'
<1> DEFINE i == Twin(old)!Instr
<1>1. /\ Decodes /\ Instr = new.code[ip] /\ Instr.fn = i.fn /\ i = old.code[ip]
      /\ Instr.op = i.op \/ <<i.op, Instr.op>> \in Voided
      /\ \A x, y : <<ip, x, y>> \in same => Twin(old)!R(x) = R(y)
  BY Alongside, TwinStands
<1>2. i.op = Instr.op /\ Slots(i.op) = 1
  BY <1>1 DEF Voided, WriteOps, Slots, WideOps
<1>3. FallsThrough(old, ip)
  BY <1>1, <1>2 DEF FallsThrough, Ops, Terminators, SyscallOps, WriteOps
<1>4. /\ Goto(ip + 1) /\ ip' = ip + 1 /\ status' = "RUNNING" /\ UNCHANGED <<chunk, base, fp, frames>>
      /\ stack' = [stack EXCEPT ![base + Instr.a] = v] /\ UNCHANGED <<globals, prng, out>>
  BY <1>2 DEF SetA, Advance, Goto
<1>5. v \in Word
  <2>1. TypeOK /\ TypeOK'
    BY DEF Twinned, Windows
  <2>2. FieldsOK(chunk, Instr)
    BY <1>1, <2>1, OperandsOK
  <2>3. base + Instr.a \in Slot
    BY <2>1, <2>2, RegisterValue DEF FieldsOK
  <2>4. stack' \in [Slot -> Word] /\ stack \in [Slot -> Word]
    BY <2>1 DEF TypeOK
  <2>5. stack'[base + Instr.a] = v
    BY <1>4, <2>3, <2>4
  <2> QED
    BY <2>3, <2>4, <2>5
<1>6. i.op = "MOVE" => v = stack[base + Instr.b]
  <2> SUFFICES ASSUME i.op = "MOVE" PROVE v = stack[base + Instr.b]
    OBVIOUS
  <2>1. <<ip, i.b, Instr.b>> \in same
    BY <1>1 DEF SameWork
  <2> QED
    BY <1>1, <2>1 DEF Computed, R
<1>7. /\ shadow' = [shadow EXCEPT ![base + i.a] = Computed(old)]
      /\ ip' \in here /\ Twinned(old, new, same, here, valued)'
  <2> DEFINE ii == old.code[OldAt(old)]
             j == new.code[OldAt(old)]
  <2>1. /\ ii = old.code[OldAt(old)] /\ j = new.code[OldAt(old)]
        /\ ii.op \in WriteOps \ {"CALL", "TAILCALL"} /\ FallsThrough(old, OldAt(old))
        /\ status = "RUNNING" /\ status' = "RUNNING" /\ ip' = OldAt(old) + Slots(ii.op)
        /\ UNCHANGED <<chunk, base, fp, frames>>
        /\ stack' = IF j.op \in WriteOps THEN [stack EXCEPT ![base + j.a] = v] ELSE stack
        /\ j.op \in WriteOps => v = Computed(old)
        /\ j.op = "MOVE" => ii.op = "MOVE" /\ v = stack[base + j.b]
        /\ Computed(old) \in Word
    BY <1>1, <1>2, <1>3, <1>4, <1>5, <1>6 DEF WriteOps
  <2> HIDE DEF ii, j, i
  <2>2. /\ shadow' = [shadow EXCEPT ![base + Twin(old)!Instr.a] = Computed(old)]
        /\ ip' \in here /\ Twinned(old, new, same, here, valued)'
    BY <2>1, WriteTwins
  <2> QED
    BY <2>2 DEF i
<1>8. Twin(old)!Goto(ip + 1)
  BY <1>4, <1>7, TwinGoto
<1>9. Twin(old)!SetA(v)
  BY <1>2, <1>4, <1>7, <1>8, TwinTables DEF Twin!SetA, Twin!Advance
<1> QED
  BY <1>7, <1>9

LEMMA DataTwins ==
  ASSUME NEW old, NEW new, NEW same, NEW here, NEW valued,
         Rewritten(old, new, same, here, valued), Twinned(old, new, same, here, valued), Windows',
         ip = OldAt(old), SameWork(old, new, same, ip), Shadowed(old),
         \/ DoMove \/ DoLoadImm \/ DoLoadPool \/ DoLoadGlobal \/ DoStoreGlobal
         \/ DoUnary \/ DoAlu \/ DoDivideByZero
  PROVE  Twin(old)!Handler /\ Twinned(old, new, same, here, valued)'
<1> DEFINE i == Twin(old)!Instr
           Data == {"MOVE", "LOAD_IMM", "LOAD_CONST", "LOAD_STR", "LOAD_GLOBAL", "STORE_GLOBAL", "UNARY", "ALU", "ALU_IMM"}
<1>1. /\ Decodes /\ Instr = new.code[ip] /\ Instr.fn = i.fn /\ i = old.code[ip]
      /\ Instr.op = i.op \/ <<i.op, Instr.op>> \in Voided
      /\ \A x, y : <<ip, x, y>> \in same => Twin(old)!R(x) = R(y)
  BY Alongside, TwinStands
<1>2. status = "RUNNING" /\ Instr.op \in Data
  BY DEF DoMove, DoLoadImm, DoLoadPool, DoLoadGlobal, DoStoreGlobal, DoUnary, DoAlu, DoDivideByZero, Dispatch
<1>3. i.op = Instr.op
  BY <1>1, <1>2 DEF Voided
<1>4. \A ops : Dispatch(ops) => Twin(old)!Dispatch(ops)
  BY <1>2, <1>3, TwinDispatch DEF Dispatch
<1>5. /\ i.op \in {"MOVE", "UNARY", "ALU", "ALU_IMM"} => Twin(old)!R(i.b) = R(Instr.b)
      /\ i.op = "ALU" => Twin(old)!R(i.c) = R(Instr.c)
      /\ i.op = "STORE_GLOBAL" => Twin(old)!R(i.a) = R(Instr.a)
      /\ i.op \in {"LOAD_IMM", "LOAD_CONST", "LOAD_STR", "LOAD_GLOBAL", "STORE_GLOBAL"} => Instr.b = i.b
      /\ i.op = "ALU_IMM" => Instr.c = i.c
  BY <1>1 DEF SameWork
<1>6. ASSUME NEW v, SetA(v), v = Computed(old), Instr.op # "STORE_GLOBAL"
      PROVE  Twin(old)!SetA(v) /\ Twinned(old, new, same, here, valued)'
  <2>1. Instr.op \in WriteOps \ {"CALL", "SYSCALL"}
    BY <1>2, <1>6 DEF WriteOps
  <2> QED
    BY <1>2, <1>6, <2>1, SetTwins
<1>7. i.op \in {"ALU", "ALU_IMM"} => Twin(old)!Right = Right
  BY <1>1, <1>3, <1>5 DEF Twin!Right, Right
<1> HIDE DEF i
<1>8. CASE DoMove
  <2>1. Instr.op = "MOVE" /\ SetA(R(Instr.b))
    BY <1>8 DEF DoMove, Dispatch
  <2>2. R(Instr.b) = Computed(old)
    BY <1>3, <1>5, <2>1 DEF Computed, i
  <2>3. Twin(old)!SetA(R(Instr.b)) /\ Twinned(old, new, same, here, valued)'
    BY <1>6, <2>1, <2>2
  <2>4. Twin(old)!DoMove
    BY <1>3, <1>4, <1>5, <1>8, <2>1, <2>3 DEF DoMove, Twin!DoMove, i
  <2> QED
    BY <2>3, <2>4 DEF Twin!Handler
<1>9. CASE DoLoadImm
  <2>1. Instr.op = "LOAD_IMM" /\ SetA(Imm(Instr.fn, Instr.b))
    BY <1>9 DEF DoLoadImm, Dispatch
  <2>2. Imm(Instr.fn, Instr.b) = Computed(old)
    BY <1>1, <1>3, <1>5, <2>1 DEF Computed, i
  <2>3. Twin(old)!SetA(Imm(Instr.fn, Instr.b)) /\ Twinned(old, new, same, here, valued)'
    BY <1>6, <2>1, <2>2
  <2>4. Twin(old)!DoLoadImm
    BY <1>1, <1>3, <1>4, <1>5, <1>9, <2>1, <2>3 DEF DoLoadImm, Twin!DoLoadImm, i
  <2> QED
    BY <2>3, <2>4 DEF Twin!Handler
<1>10. CASE DoLoadPool
  <2> DEFINE v == IF Instr.op = "LOAD_CONST" THEN chunk.consts[Instr.b] ELSE chunk.strs[Instr.b]
  <2>1. Instr.op \in {"LOAD_CONST", "LOAD_STR"} /\ SetA(v)
    BY <1>10 DEF DoLoadPool, Dispatch
  <2>2. chunk = new /\ new.consts = old.consts /\ new.strs = old.strs /\ Instr.b = i.b
    BY <1>3, <1>5, <2>1, NewSides DEF Twinned
  <2>3. v = Computed(old)
    BY <1>3, <2>1, <2>2 DEF Computed, i
  <2>4. Twin(old)!SetA(v) /\ Twinned(old, new, same, here, valued)'
    <3> HIDE DEF v
    <3> QED
      BY <1>6, <2>1, <2>3
  <2>5. Twin(old)!DoLoadPool
    <3>1. v = IF i.op = "LOAD_CONST" THEN old.consts[i.b] ELSE old.strs[i.b]
      BY <1>3, <2>2
    <3> HIDE DEF v
    <3> QED
      BY <1>4, <1>10, <2>4, <3>1 DEF DoLoadPool, Twin!DoLoadPool, i
  <2> QED
    BY <2>4, <2>5 DEF Twin!Handler
<1>11. CASE DoLoadGlobal
  <2>1. Instr.op = "LOAD_GLOBAL" /\ SetA(globals[Instr.b])
    BY <1>11 DEF DoLoadGlobal, Dispatch
  <2>2. globals[Instr.b] = Computed(old)
    BY <1>3, <1>5, <2>1 DEF Computed, i
  <2>3. Twin(old)!SetA(globals[Instr.b]) /\ Twinned(old, new, same, here, valued)'
    BY <1>6, <2>1, <2>2
  <2>4. Twin(old)!DoLoadGlobal
    BY <1>3, <1>4, <1>5, <1>11, <2>1, <2>3 DEF DoLoadGlobal, Twin!DoLoadGlobal, i
  <2> QED
    BY <2>3, <2>4 DEF Twin!Handler
<1>12. CASE DoStoreGlobal
  <2>1. /\ Instr.op = "STORE_GLOBAL" /\ Slots("STORE_GLOBAL") = 1
        /\ Goto(ip + 1) /\ ip' = ip + 1 /\ UNCHANGED <<chunk, base, fp, frames>>
        /\ globals' = [globals EXCEPT ![Instr.b] = R(Instr.a)] /\ UNCHANGED <<stack, prng, out>>
    BY <1>12 DEF DoStoreGlobal, Dispatch, Slots, WideOps, Advance, Goto
  <2>2. FallsThrough(old, ip) /\ i.op \notin WriteOps \union {"TAILCALL", "RET"} \union BytecodeCalls
        /\ new.code[ip].op \notin WriteOps
    BY <1>1, <1>3, <2>1 DEF FallsThrough, Ops, Terminators, SyscallOps, WriteOps, BytecodeCalls
  <2>3. shadow' = shadow /\ ip' \in here /\ Twinned(old, new, same, here, valued)'
    BY <1>1, <1>3, <2>1, <2>2, PlainTwins
  <2>4. Twin(old)!Goto(ip + 1)
    BY <1>2, <2>1, <2>3, TwinGoto
  <2>5. Twin(old)!DoStoreGlobal
    <3>1. Twin(old)!Advance
      BY <1>1, <1>3, <2>1, <2>4, TwinTables DEF Twin!Advance, i
    <3>2. /\ globals' = [globals EXCEPT ![i.b] = Twin(old)!R(i.a)] /\ UNCHANGED <<shadow, prng, out>>
          /\ Twin(old)!Dispatch({"STORE_GLOBAL"})
      BY <1>3, <1>4, <1>5, <1>12, <2>1, <2>3 DEF DoStoreGlobal
    <3> QED
      BY <3>1, <3>2 DEF Twin!DoStoreGlobal, i
  <2> QED
    BY <2>3, <2>5 DEF Twin!Handler
<1>13. CASE DoUnary
  <2>1. Instr.op = "UNARY" /\ SetA(Alu(Instr.fn, R(Instr.b), 0))
    BY <1>13 DEF DoUnary, Dispatch
  <2>2. Alu(Instr.fn, R(Instr.b), 0) = Computed(old)
    BY <1>1, <1>3, <1>5, <2>1 DEF Computed, i
  <2>3. Twin(old)!SetA(Alu(Instr.fn, R(Instr.b), 0)) /\ Twinned(old, new, same, here, valued)'
    BY <1>6, <2>1, <2>2
  <2>4. Twin(old)!DoUnary
    BY <1>1, <1>3, <1>4, <1>5, <1>13, <2>1, <2>3 DEF DoUnary, Twin!DoUnary, i
  <2> QED
    BY <2>3, <2>4 DEF Twin!Handler
<1>14. CASE DoAlu
  <2>1. Instr.op \in {"ALU", "ALU_IMM"} /\ SetA(Alu(Instr.fn, R(Instr.b), Right)) /\ ~ Traps(Instr.fn, Right)
    BY <1>14 DEF DoAlu, Dispatch
  <2>2. Alu(Instr.fn, R(Instr.b), Right) = Computed(old)
    BY <1>1, <1>3, <1>5, <1>7, <2>1 DEF Computed, i
  <2>3. Twin(old)!SetA(Alu(Instr.fn, R(Instr.b), Right)) /\ Twinned(old, new, same, here, valued)'
    BY <1>6, <2>1, <2>2
  <2>4. Twin(old)!DoAlu
    BY <1>1, <1>3, <1>4, <1>5, <1>7, <1>14, <2>1, <2>3 DEF DoAlu, Twin!DoAlu, i
  <2> QED
    BY <2>3, <2>4 DEF Twin!Handler
<1>15. CASE DoDivideByZero
  <2>1. Instr.op \in {"ALU", "ALU_IMM"} /\ Traps(Instr.fn, Right) /\ Stop("DIVISION_BY_ZERO")
    BY <1>15 DEF DoDivideByZero, Dispatch
  <2>2. shadow' = shadow
    BY <2>1 DEF Shadowed, Stop
  <2>3. Twinned(old, new, same, here, valued)'
    BY <2>1, <2>2, StillTwinned DEF Stop
  <2>4. Twin(old)!DoDivideByZero
    BY <1>1, <1>2, <1>3, <1>4, <1>7, <1>15, <2>1, <2>2, TwinStop DEF DoDivideByZero, Twin!DoDivideByZero, i
  <2> QED
    BY <2>3, <2>4 DEF Twin!Handler
<1> QED
  BY <1>8, <1>9, <1>10, <1>11, <1>12, <1>13, <1>14, <1>15
-----------------------------------------------------------------------------
(* Calls and returns.                                                      *)

(* A call pushes the frame of the old call.                                *)
LEMMA OldFramesPushed ==
  ASSUME NEW old, TypeOK, ip \in 0 .. old.size - 1, ip \in Nat, fp < FrameCapacity,
         old.code[ip].op # "CALL" => Instr.op # "CALL", DoCall
  PROVE  OldFrames(old)' = [OldFrames(old) EXCEPT ![fp] =
                              [return_ip |-> ip + 2, register_base |-> base,
                               return_reg |-> IF old.code[ip].op = "CALL" THEN old.code[ip].a ELSE ACU_FRAME_NO_RET]]
<1> DEFINE p    == ip
           rb   == base
           r    == IF Instr.op = "CALL" THEN Instr.a ELSE ACU_FRAME_NO_RET
           new  == [return_ip |-> p + 2, register_base |-> rb, return_reg |-> r]
           kept == [return_ip |-> p + 2, register_base |-> rb,
                    return_reg |-> IF old.code[p].op = "CALL" THEN old.code[p].a ELSE ACU_FRAME_NO_RET]
           conv(fr) == [fr EXCEPT !.return_reg = IF fr.return_ip - 2 \in 0 .. old.size - 1 /\ old.code[fr.return_ip - 2].op = "CALL"
                                                 THEN old.code[fr.return_ip - 2].a ELSE fr.return_reg]
<1>1. fp \in FrameIdx /\ DOMAIN frames = FrameIdx /\ frames' = [frames EXCEPT ![fp] = new]
  BY SizesAssumption DEF TypeOK, FrameIdx, DoCall
<1>p. p \in 0 .. old.size - 1 /\ p \in Nat /\ (old.code[p].op # "CALL" => r = ACU_FRAME_NO_RET)
  OBVIOUS
<1> HIDE DEF p, rb, r
<1>2. conv(new) = kept
  <2>1. new.return_ip - 2 = p /\ new.return_reg = r
    BY <1>p
  <2>2. (IF new.return_ip - 2 \in 0 .. old.size - 1 /\ old.code[new.return_ip - 2].op = "CALL"
         THEN old.code[new.return_ip - 2].a ELSE new.return_reg)
        = IF old.code[p].op = "CALL" THEN old.code[p].a ELSE ACU_FRAME_NO_RET
    <3> HIDE DEF new
    <3> QED
      BY <1>p, <2>1
  <2>3. \A v : [new EXCEPT !.return_reg = v] = [return_ip |-> p + 2, register_base |-> rb, return_reg |-> v]
    OBVIOUS
  <2> QED
    BY <2>2, <2>3
<1>3. OldFrames(old) = [f \in FrameIdx |-> conv(frames[f])]
  BY DEF OldFrames, CallOf
<1>4. OldFrames(old)' = [f \in FrameIdx |-> conv(frames'[f])]
  BY DEF OldFrames, CallOf
<1> HIDE DEF new, kept, conv
<1>5. ASSUME NEW f \in FrameIdx
      PROVE  conv(frames'[f]) = IF f = fp THEN kept ELSE conv(frames[f])
  BY <1>1, <1>2
<1>6. OldFrames(old)' = [OldFrames(old) EXCEPT ![fp] = kept]
  BY <1>1, <1>3, <1>4, <1>5
<1> QED
  BY <1>6 DEF kept, p, rb

LEMMA CallTwins ==
  ASSUME NEW old, NEW new, NEW same, NEW here, NEW valued,
         Rewritten(old, new, same, here, valued), Twinned(old, new, same, here, valued), Windows',
         ip = OldAt(old), SameWork(old, new, same, ip), Shadowed(old), DoCall
  PROVE  Twin(old)!Handler /\ Twinned(old, new, same, here, valued)'
<1> DEFINE i == Twin(old)!Instr
           q == Payload.a
<1>1. /\ Decodes /\ Instr = new.code[ip] /\ i = old.code[ip]
      /\ Instr.op = i.op \/ <<i.op, Instr.op>> \in Voided
      /\ i.op \in WideOps => Payload = Twin(old)!Payload
      /\ Twin(old)!Payload = old.code[ip + 1]
  BY Alongside, TwinStands
<1>2. /\ status = "RUNNING" /\ Instr.op \in {"CALL", "CALL_VOID"} /\ fp < FrameCapacity /\ WindowFits
      /\ fp' = fp + 1 /\ base' = base + Instr.b /\ ip' = q
      /\ frames' = [frames EXCEPT ![fp] =
                      [return_ip |-> ip + 2, register_base |-> base,
                       return_reg |-> IF Instr.op = "CALL" THEN Instr.a ELSE ACU_FRAME_NO_RET]]
      /\ UNCHANGED <<chunk, stack, globals, status, exitCode, prng, out>>
  BY DEF DoCall, Dispatch
<1>3. /\ i.op \in {"CALL", "CALL_VOID"} /\ i.op \in WideOps
      /\ i.op # "CALL" => Instr.op # "CALL"
  BY <1>1, <1>2 DEF Voided, WideOps
<1>4. Instr.b = i.b /\ Payload = old.code[ip + 1]
  BY <1>1, <1>3 DEF SameWork
<1>5. /\ q \in here /\ ip + 2 \in here
      /\ \A x, y : <<q, x, y>> \in same => CarriedIn(old, same, ip, x, y)
      /\ \A x, y : <<ip + 2, x, y>> \in same => CarriedOver(old, new, same, ip, x, y)
  <2>1. LeadsAlike(old, new, same, here, ip)
    BY TwinStands
  <2> QED
    BY <1>1, <1>3, <1>4, <2>1 DEF LeadsAlike
<1>6. /\ i.op = "CALL" => q \in valued
      /\ ip \in valued => ip + 2 \in valued
  <2>1. FallsThrough(old, ip) /\ Slots(i.op) = 2
    BY <1>1, <1>3 DEF FallsThrough, Ops, Terminators, SyscallOps, Slots
  <2>2. ip \in here /\ Answers(old, here, valued)
    BY TwinStands DEF Rewritten
  <2> QED
    BY <1>1, <1>3, <1>4, <2>1, <2>2 DEF Answers
<1>7. shadow' = shadow
  <2>1. i.op \notin WriteOps \ {"CALL"} /\ i.op # "TAILCALL" /\ i.op # "RET"
    BY <1>3 DEF WriteOps
  <2> QED
    BY <2>1 DEF Shadowed
<1>8. TypeOK /\ fp \in Nat /\ base \in Nat /\ i.b \in Nat /\ ip \in Nat /\ old.size \in Nat /\ ip \in 0 .. old.size - 1
  <2>1. TypeOK /\ i.b \in Regs /\ ip \in 0 .. old.size - 1
    BY <1>3, TwinStands DEF Twinned, Windows, FieldsOK
  <2> QED
    BY <2>1, SizesAssumption DEF TypeOK, Regs, Rewritten, IsChunk, IsCode
<1> HIDE DEF i, q
<1>9. OldAt(old)' = q /\ InStep(old, new, here)'
  BY <1>2, <1>5, OldAtIs
<1>10. OldFrames(old)' = [OldFrames(old) EXCEPT ![fp] =
                            [return_ip |-> ip + 2, register_base |-> base,
                             return_reg |-> IF i.op = "CALL" THEN i.a ELSE ACU_FRAME_NO_RET]]
  <2>1. i = old.code[ip]
    BY <1>1 DEF i
  <2> QED
    BY <1>2, <1>3, <1>8, <2>1, OldFramesPushed
<1>11. Twin(old)!DoCall
  <2>1. Twin(old)!Dispatch({"CALL", "CALL_VOID"})
    BY <1>2, <1>3, TwinDispatch DEF i
  <2>2. Twin(old)!WindowFits
    BY <1>2, <1>4 DEF WindowFits, Twin!WindowFits, i
  <2>3. /\ OldFrames(old)' = [OldFrames(old) EXCEPT ![fp] =
                            [return_ip |-> OldAt(old) + 2, register_base |-> base,
                             return_reg |-> IF i.op = "CALL" THEN i.a ELSE Twin(old)!ACU_FRAME_NO_RET]]
        /\ base' = base + i.b /\ OldAt(old)' = Twin(old)!Payload.a
    BY <1>1, <1>2, <1>3, <1>4, <1>9, <1>10, TwinTables DEF i, q
  <2> QED
    BY <1>2, <1>7, <2>1, <2>2, <2>3 DEF Twin!DoCall, i
<1>12. ASSUME NEW x, NEW y, <<q, x, y>> \in same
       PROVE  shadow'[base' + x] = stack'[base' + y]
  <2>1. <<ip, i.b + x, i.b + y>> \in same /\ x \in Nat /\ y \in Nat
    BY <1>1, <1>5, <1>12, SizesAssumption DEF CarriedIn, Rewritten, Regs, i
  <2>2. shadow[base + (i.b + x)] = stack[base + (i.b + y)]
    BY <2>1 DEF Twinned
  <2>3. base' + x = base + (i.b + x) /\ base' + y = base + (i.b + y)
    BY <1>2, <1>4, <1>8, <2>1
  <2> QED
    BY <1>2, <1>7, <2>2, <2>3
<1>13. /\ frames'[fp].return_ip = ip + 2 /\ frames'[fp].register_base = base
       /\ \A f \in 0 .. fp - 1 : frames'[f] = frames[f]
  BY <1>2, <1>8, SizesAssumption DEF TypeOK, FrameIdx
<1>14. ASSUME NEW f \in 0 .. fp' - 1
       PROVE  /\ WaitsAlike(old, new, same, here, f)'
              /\ new.code[CallOf(f)'].op = "CALL" => StandsAt(old, f + 1)' \in valued
  <2>1. CASE f = fp
    <3>1. CallOf(f)' = ip
      BY <1>8, <1>13, <2>1 DEF CallOf
    <3>2. ip \in here
      BY TwinStands
    <3>3. ASSUME NEW x, NEW y, <<ip + 2, x, y>> \in same
          PROVE  \/ x \in Writes(old.code[ip]) /\ y \in Writes(new.code[ip])
                 \/ shadow[base + x] = stack[base + y]
      BY <1>5, <3>3 DEF CarriedOver, Twinned
    <3>4. WaitsAlike(old, new, same, here, f)'
      BY <1>2, <1>7, <1>13, <2>1, <3>1, <3>2, <3>3 DEF WaitsAlike
    <3>5. StandsAt(old, f + 1)' = q
      BY <1>2, <1>9, <2>1 DEF StandsAt
    <3>6. new.code[ip].op = "CALL" => q \in valued
      BY <1>1, <1>2, <1>3, <1>6
    <3> QED
      BY <3>1, <3>4, <3>5, <3>6
  <2>2. CASE f # fp
    <3>1. f \in 0 .. fp - 1 /\ f + 1 # fp' /\ f + 1 \in 0 .. fp
      BY <1>2, <1>8, <2>2
    <3>2. CallOf(f)' = CallOf(f) /\ frames'[f] = frames[f]
      BY <1>13, <3>1 DEF CallOf
    <3>3. WaitsAlike(old, new, same, here, f)'
      BY <1>2, <1>7, <3>1, <3>2 DEF WaitsAlike, Twinned
    <3>4. StandsAt(old, f + 1)' = IF f + 1 = fp THEN ip + 2 ELSE StandsAt(old, f + 1)
      BY <1>8, <1>13, <3>1 DEF StandsAt
    <3>5. StandsAt(old, fp) = ip
      BY DEF StandsAt
    <3> QED
      BY <1>6, <3>1, <3>2, <3>3, <3>4, <3>5 DEF Twinned
  <2> QED
    BY <2>1, <2>2
<1>15. Twinned(old, new, same, here, valued)'
  BY <1>2, <1>7, <1>9, <1>12, <1>14 DEF Twinned
<1> QED
  BY <1>11, <1>15 DEF Twin!Handler

LEMMA TailCallTwins ==
  ASSUME NEW old, NEW new, NEW same, NEW here, NEW valued,
         Rewritten(old, new, same, here, valued), Twinned(old, new, same, here, valued), Windows',
         ip = OldAt(old), SameWork(old, new, same, ip), Shadowed(old), DoTailCall
  PROVE  Twin(old)!Handler /\ Twinned(old, new, same, here, valued)'
<1> DEFINE i == Twin(old)!Instr
           q == Payload.a
<1>1. /\ Decodes /\ Instr = new.code[ip] /\ i = old.code[ip]
      /\ Instr.op = i.op \/ <<i.op, Instr.op>> \in Voided
      /\ i.op \in WideOps => Payload = Twin(old)!Payload
      /\ Twin(old)!Payload = old.code[ip + 1]
  BY Alongside, TwinStands
<1>2. /\ status = "RUNNING" /\ Instr.op = "TAILCALL" /\ ArgsFit /\ Goto(q) /\ ip' = q
      /\ stack' = [s \in Slot |-> IF s - base \in 0 .. Instr.c - 1 THEN stack[s + Instr.b] ELSE stack[s]]
      /\ UNCHANGED <<chunk, frames, fp, base, status, exitCode, globals, prng, out>>
  BY DEF DoTailCall, Dispatch, Goto
<1>3. i.op = "TAILCALL" /\ i.op \in WideOps
  BY <1>1, <1>2 DEF Voided, WideOps
<1>4. Instr.b = i.b /\ Instr.c = i.c /\ Payload = old.code[ip + 1]
  BY <1>1, <1>3 DEF SameWork
<1>5. /\ q \in here /\ (ip \in valued => q \in valued)
      /\ \A x, y : <<q, x, y>> \in same => CarriedDown(old, same, ip, x, y)
  <2>1. LeadsAlike(old, new, same, here, ip) /\ ip \in here /\ Answers(old, here, valued)
    BY TwinStands DEF Rewritten
  <2> QED
    BY <1>1, <1>3, <1>4, <2>1 DEF LeadsAlike, Answers
<1>6. shadow' = [s \in Slot |-> IF s - base \in 0 .. i.c - 1 THEN shadow[s + i.b] ELSE shadow[s]]
  <2>1. i.op \notin WriteOps \ {"CALL"} /\ i.op # "RET"
    BY <1>3 DEF WriteOps
  <2>2. shadow' = CASE i.op \in WriteOps \ {"CALL"} /\ ip' = OldAt(old) + Slots(i.op)
                         -> [shadow EXCEPT ![base + i.a] = Computed(old)]
                    [] i.op = "TAILCALL"
                         -> [s \in Slot |-> IF s - base \in 0 .. i.c - 1 THEN shadow[s + i.b] ELSE shadow[s]]
                    [] i.op = "RET" /\ Twin(old)!Caller.return_reg >= 0
                         -> [shadow EXCEPT ![Twin(old)!Caller.register_base + Twin(old)!Caller.return_reg] = Twin(old)!R(i.a)]
                    [] OTHER -> shadow
    BY <1>2, Zenon DEF Shadowed
  <2> QED
    BY <1>3, <2>1, <2>2
<1>7. /\ TypeOK /\ base \in Nat /\ i.b \in Nat /\ i.c \in Nat /\ i.b + i.c <= RegWindow
      /\ base + RegWindow <= StackCapacity /\ fp \in Nat
      /\ shadow \in [Slot -> Word] /\ stack \in [Slot -> Word]
  <2>1. TypeOK /\ i.b \in Regs /\ i.c \in Regs
    BY <1>3, TwinStands DEF Twinned, Windows, FieldsOK
  <2> QED
    BY <1>2, <1>4, <2>1, SizesAssumption DEF TypeOK, Regs, ArgsFit, Twinned
<1> HIDE DEF i, q
<1>8. OldAt(old)' = q /\ Twin(old)!Goto(q)
  BY <1>2, <1>5, TwinGoto
<1>9. Twin(old)!DoTailCall
  <2>1. Twin(old)!Dispatch({"TAILCALL"})
    BY <1>2, <1>3, TwinDispatch DEF i
  <2>2. Twin(old)!ArgsFit
    BY <1>7 DEF Twin!ArgsFit, i
  <2>3. q = Twin(old)!Payload.a
    BY <1>1, <1>3 DEF q
  <2> QED
    BY <1>2, <1>6, <1>8, <2>1, <2>2, <2>3, TwinTables DEF Twin!DoTailCall, i
<1> DEFINE From(r) == IF r < i.c THEN i.b + r ELSE r
<1>10. ASSUME NEW r \in Regs, From(r) \in Regs
       PROVE  shadow'[base + r] = shadow[base + From(r)] /\ stack'[base + r] = stack[base + From(r)]
  <2> DEFINE s == base + r
  <2>1. r \in Nat /\ s \in Slot
    BY <1>7, <1>10, RegisterValue DEF Regs
  <2>2. (s - base \in 0 .. i.c - 1 <=> r < i.c) /\ s + i.b = base + (i.b + r)
    BY <1>7, <2>1
  <2> HIDE DEF s
  <2>3. /\ shadow'[s] = IF s - base \in 0 .. i.c - 1 THEN shadow[s + i.b] ELSE shadow[s]
        /\ stack'[s] = IF s - base \in 0 .. i.c - 1 THEN stack[s + i.b] ELSE stack[s]
    BY <1>2, <1>4, <1>6, <2>1 DEF i
  <2>4. shadow'[s] = IF r < i.c THEN shadow[base + (i.b + r)] ELSE shadow[s]
    BY <2>2, <2>3
  <2>5. stack'[s] = IF r < i.c THEN stack[base + (i.b + r)] ELSE stack[s]
    BY <2>2, <2>3
  <2> QED
    BY <2>4, <2>5 DEF s
<1>11. ASSUME NEW x, NEW y, <<q, x, y>> \in same
       PROVE  shadow'[base' + x] = stack'[base' + y]
  <2>1. <<ip, From(x), From(y)>> \in same
    BY <1>1, <1>5, <1>11 DEF CarriedDown, i
  <2>2. x \in Regs /\ y \in Regs /\ From(x) \in Regs /\ From(y) \in Regs
    BY <1>11, <2>1 DEF Rewritten
  <2>3. shadow[base + From(x)] = stack[base + From(y)]
    BY <2>1 DEF Twinned
  <2> HIDE DEF From
  <2> QED
    BY <1>2, <1>10, <2>2, <2>3
<1>12. shadow' \in [Slot -> Word]
  <2>1. ASSUME NEW s \in Slot, s - base \in 0 .. i.c - 1
        PROVE  s + i.b \in Slot
    BY <1>7, <2>1, SizesAssumption DEF Slot
  <2> QED
    BY <1>6, <1>7, <2>1
<1>13. ASSUME NEW s \in Slot, s < base
       PROVE  shadow'[s] = shadow[s] /\ stack'[s] = stack[s]
  <2>1. ~ (s - base \in 0 .. i.c - 1)
    BY <1>7, <1>13 DEF Slot
  <2> QED
    BY <1>2, <1>4, <1>6, <2>1
<1>14. \A f \in 0 .. fp' - 1 : WaitsAlike(old, new, same, here, f)'
  <2> SUFFICES ASSUME NEW f \in 0 .. fp - 1 PROVE WaitsAlike(old, new, same, here, f)'
    BY <1>2
  <2>1. BaseOf(f + 1) <= base
    BY FrameOK DEF Twinned
  <2> QED
    BY <1>2, <1>7, <1>13, <2>1, WaitingKept
<1>15. Twinned(old, new, same, here, valued)'
  BY <1>2, <1>5, <1>11, <1>12, <1>14, Onward
<1> QED
  BY <1>9, <1>15 DEF Twin!Handler

(* The frame on top, in both machines.                                     *)
LEMMA CallerTwins ==
  ASSUME NEW old, NEW new, NEW same, NEW here, NEW valued,
         Rewritten(old, new, same, here, valued), Twinned(old, new, same, here, valued), fp > 0,
         NEW c, c = CallOf(fp - 1)
  PROVE  /\ fp - 1 \in 0 .. fp - 1 /\ fp \in Nat
         /\ Twin(old)!Caller.return_ip = Caller.return_ip /\ Caller.return_ip = c + 2
         /\ Twin(old)!Caller.register_base = Caller.register_base
         /\ Caller.register_base \in 0 .. StackCapacity - RegWindow
         /\ c + 2 \in here
         /\ new.code[c].op \in {"CALL", "CALL_VOID"} /\ old.code[c].op \in {"CALL", "CALL_VOID"}
         /\ Caller.return_reg = IF new.code[c].op = "CALL" THEN new.code[c].a ELSE ACU_FRAME_NO_RET
         /\ Twin(old)!Caller.return_reg = IF old.code[c].op = "CALL" THEN old.code[c].a ELSE ACU_FRAME_NO_RET
         /\ old.code[c].op = "CALL" => old.code[c].a \in Regs
         /\ new.code[c].op = "CALL" => new.code[c].a \in Regs /\ OldAt(old) \in valued
         /\ \A x, y : <<c + 2, x, y>> \in same =>
              \/ x \in Writes(old.code[c]) /\ y \in Writes(new.code[c])
              \/ /\ x \notin Writes(old.code[c]) /\ y \notin Writes(new.code[c])
                 /\ shadow[Caller.register_base + x] = stack[Caller.register_base + y]
<1>1. /\ TypeOK /\ fp \in Nat /\ fp - 1 \in 0 .. fp - 1 /\ fp - 1 \in FrameIdx /\ fp - 1 + 1 = fp /\ fp - 1 # fp
  BY SizesAssumption DEF Twinned, Windows, TypeOK, FrameIdx
<1>2. frames[fp - 1] \in [return_ip : Nat, register_base : 0 .. StackCapacity - RegWindow,
                          return_reg : Regs \union {ACU_FRAME_NO_RET}]
  BY <1>1 DEF TypeOK
<1>3. WaitsAlike(old, new, same, here, fp - 1) /\ (new.code[c].op = "CALL" => OldAt(old) \in valued)
  BY <1>1 DEF Twinned, StandsAt
<1>4. /\ c \in 0 .. new.size - 1 /\ new.code[c].op \in {"CALL", "CALL_VOID"}
      /\ frames[fp - 1].return_reg = IF new.code[c].op = "CALL" THEN new.code[c].a ELSE ACU_FRAME_NO_RET
  BY <1>1 DEF Twinned, Windows, FramesMatchCalls, CallOf
<1>5. c \in here /\ ~ Dropped(old, new, c) /\ SameWork(old, new, same, c) /\ LeadsAlike(old, new, same, here, c)
  BY <1>3, <1>4 DEF WaitsAlike, Rewritten, Agrees, Dropped
<1>6. old.code[c].op \in {"CALL", "CALL_VOID"} /\ (new.code[c].op = "CALL" => old.code[c].op = "CALL")
  BY <1>4, <1>5 DEF SameWork, WideOps, Voided
<1>7. c \in 0 .. old.size - 1 /\ FieldsOK(old, old.code[c]) /\ FieldsOK(new, new.code[c])
  BY <1>4, NewSides DEF IsChunk, Rewritten
<1>8. /\ old.code[c].op = "CALL" => old.code[c].a \in Regs
      /\ new.code[c].op = "CALL" => new.code[c].a \in Regs
  BY <1>7 DEF FieldsOK, WriteOps
<1>9. c + 2 \in here /\ \A x, y : <<c + 2, x, y>> \in same => CarriedOver(old, new, same, c, x, y)
  BY <1>5, <1>6 DEF LeadsAlike
<1>10. Caller.return_ip = c + 2
  BY <1>2 DEF CallOf, Caller
<1>11. Twin(old)!Caller =
         [frames[fp - 1] EXCEPT !.return_reg = IF CallOf(fp - 1) \in 0 .. old.size - 1 /\ old.code[CallOf(fp - 1)].op = "CALL"
                                               THEN old.code[CallOf(fp - 1)].a ELSE frames[fp - 1].return_reg]
  BY <1>1 DEF Twin!Caller, OldFrames
<1>12. /\ Twin(old)!Caller.return_ip = Caller.return_ip /\ Twin(old)!Caller.register_base = Caller.register_base
       /\ Twin(old)!Caller.return_reg = IF old.code[c].op = "CALL" THEN old.code[c].a ELSE frames[fp - 1].return_reg
  BY <1>2, <1>7, <1>11 DEF Caller
<1>13. old.code[c].op # "CALL" => frames[fp - 1].return_reg = ACU_FRAME_NO_RET
  BY <1>4, <1>6
<1>14. ASSUME NEW x, NEW y, <<c + 2, x, y>> \in same
       PROVE  \/ x \in Writes(old.code[c]) /\ y \in Writes(new.code[c])
              \/ /\ x \notin Writes(old.code[c]) /\ y \notin Writes(new.code[c])
                 /\ shadow[Caller.register_base + x] = stack[Caller.register_base + y]
  <2>1. CarriedOver(old, new, same, c, x, y)
    BY <1>9, <1>14
  <2>2. \/ x \in Writes(old.code[c]) /\ y \in Writes(new.code[c])
        \/ x \notin Writes(old.code[c]) /\ y \notin Writes(new.code[c])
    BY <2>1 DEF CarriedOver
  <2> QED
    BY <1>3, <1>14, <2>2 DEF WaitsAlike, Caller
<1> QED
  BY <1>1, <1>2, <1>3, <1>4, <1>6, <1>8, <1>9, <1>10, <1>12, <1>13, <1>14 DEF Caller

(* A return, whatever has been written to the window of the caller.        *)
LEMMA Returned ==
  ASSUME NEW old, NEW new, NEW same, NEW here, NEW valued,
         Rewritten(old, new, same, here, valued), Twinned(old, new, same, here, valued), Windows',
         fp > 0, status = "RUNNING", PopFrame, shadow' \in [Slot -> Word],
         \A s \in Slot : s < Caller.register_base => shadow'[s] = shadow[s] /\ stack'[s] = stack[s],
         \A x, y : <<Caller.return_ip, x, y>> \in same =>
            shadow'[Caller.register_base + x] = stack'[Caller.register_base + y]
  PROVE  Twin(old)!PopFrame /\ Twinned(old, new, same, here, valued)'
<1> DEFINE c == CallOf(fp - 1)
           q == Caller.return_ip
<1>1. /\ fp - 1 \in 0 .. fp - 1 /\ fp \in Nat
      /\ Twin(old)!Caller.return_ip = q /\ q \in here
      /\ Twin(old)!Caller.register_base = Caller.register_base
      /\ Caller.register_base \in 0 .. StackCapacity - RegWindow
  <2>1. c = CallOf(fp - 1)
    OBVIOUS
  <2> HIDE DEF c
  <2> QED
    BY <2>1, CallerTwins
<1>2. /\ fp' = fp - 1 /\ ip' = q /\ base' = Caller.register_base
      /\ UNCHANGED <<chunk, frames, globals, status, exitCode, prng, out>>
  BY DEF PopFrame
<1>3. OldAt(old)' = q /\ InStep(old, new, here)' /\ OldFrames(old)' = OldFrames(old)
  BY <1>1, <1>2, OldAtIs, OldFramesStill
<1>4. Twin(old)!PopFrame
  BY <1>1, <1>2, <1>3 DEF Twin!PopFrame
<1>5. ASSUME NEW f \in 0 .. fp' - 1
      PROVE  /\ WaitsAlike(old, new, same, here, f)'
             /\ new.code[CallOf(f)'].op = "CALL" => StandsAt(old, f + 1)' \in valued
  <2>1. f \in 0 .. fp - 1 /\ f + 1 \in 0 .. fp - 1 /\ f + 1 <= fp - 1
    BY <1>1, <1>2
  <2>2. BaseOf(f + 1) <= Caller.register_base
    <3>1. BaseOf(f + 1) <= BaseOf(fp - 1)
      BY <1>1, <2>1 DEF Twinned, Windows, Sliding
    <3> QED
      BY <1>1, <3>1 DEF BaseOf, Caller
  <2>3. Caller.register_base \in Nat
    BY <1>1, SizesAssumption
  <2>4. WaitsAlike(old, new, same, here, f)'
    BY <1>2, <2>1, <2>2, <2>3, WaitingKept
  <2>5. StandsAt(old, f + 1)' = StandsAt(old, f + 1)
    BY <1>1, <1>2, <1>3, <2>1 DEF StandsAt, Caller
  <2>6. CallOf(f)' = CallOf(f)
    BY <1>2 DEF CallOf
  <2> QED
    BY <2>1, <2>4, <2>5, <2>6 DEF Twinned
<1>6. Twinned(old, new, same, here, valued)'
  BY <1>2, <1>3, <1>5 DEF Twinned
<1> QED
  BY <1>4, <1>6

LEMMA ReturnTwins ==
  ASSUME NEW old, NEW new, NEW same, NEW here, NEW valued,
         Rewritten(old, new, same, here, valued), Twinned(old, new, same, here, valued), Windows',
         ip = OldAt(old), SameWork(old, new, same, ip), Shadowed(old), DoRet \/ DoRetVoid
  PROVE  Twin(old)!Handler /\ Twinned(old, new, same, here, valued)'
<1> DEFINE i == Twin(old)!Instr
           c == CallOf(fp - 1)
           b == Caller.register_base
           bs == Twin(old)!Caller.register_base
           to == Caller.return_reg
           ts == Twin(old)!Caller.return_reg
<1>1. /\ Decodes /\ Instr = new.code[ip] /\ i = old.code[ip]
      /\ Instr.op = i.op \/ <<i.op, Instr.op>> \in Voided
      /\ \A x, y : <<ip, x, y>> \in same => Twin(old)!R(x) = R(y)
  BY Alongside, TwinStands
<1>2. status = "RUNNING" /\ Instr.op \in {"RET", "RET_VOID"} /\ fp > 0 /\ PopFrame /\ status' = "RUNNING"
  BY DEF DoRet, DoRetVoid, Dispatch, PopFrame
<1>3. i.op = Instr.op
  BY <1>1, <1>2 DEF Voided
<1>4. \A ops : Dispatch(ops) => Twin(old)!Dispatch(ops)
  BY <1>2, <1>3, TwinDispatch DEF Dispatch
<1>5. /\ fp - 1 \in 0 .. fp - 1 /\ fp \in Nat
      /\ Caller.return_ip = c + 2 /\ bs = b
      /\ b \in 0 .. StackCapacity - RegWindow
      /\ new.code[c].op \in {"CALL", "CALL_VOID"} /\ old.code[c].op \in {"CALL", "CALL_VOID"}
      /\ to = IF new.code[c].op = "CALL" THEN new.code[c].a ELSE ACU_FRAME_NO_RET
      /\ ts = IF old.code[c].op = "CALL" THEN old.code[c].a ELSE ACU_FRAME_NO_RET
      /\ old.code[c].op = "CALL" => old.code[c].a \in Regs
      /\ new.code[c].op = "CALL" => new.code[c].a \in Regs /\ OldAt(old) \in valued
      /\ \A x, y : <<c + 2, x, y>> \in same =>
           \/ x \in Writes(old.code[c]) /\ y \in Writes(new.code[c])
           \/ /\ x \notin Writes(old.code[c]) /\ y \notin Writes(new.code[c])
              /\ shadow[b + x] = stack[b + y]
  <2>1. c = CallOf(fp - 1)
    OBVIOUS
  <2> HIDE DEF c
  <2> QED
    BY <1>2, <2>1, CallerTwins
<1>6. /\ shadow \in [Slot -> Word] /\ stack \in [Slot -> Word] /\ b \in Nat /\ RegWindow \in Nat
      /\ \A r \in Regs : r \in Nat /\ b + r \in Slot
  <2>1. shadow \in [Slot -> Word] /\ stack \in [Slot -> Word]
    BY DEF Twinned, Windows, TypeOK
  <2>2. b \in 0 .. StackCapacity - RegWindow
    BY <1>5
  <2> HIDE DEF b
  <2> QED
    BY <2>1, <2>2, SizesAssumption DEF Regs, Slot
<1>7. shadow' = IF i.op = "RET" /\ ts >= 0 THEN [shadow EXCEPT ![bs + ts] = Twin(old)!R(i.a)] ELSE shadow
  <2>1. i.op \notin WriteOps \ {"CALL"} /\ i.op # "TAILCALL"
    BY <1>2, <1>3 DEF WriteOps
  <2>2. shadow' = CASE i.op \in WriteOps \ {"CALL"} /\ ip' = OldAt(old) + Slots(i.op)
                         -> [shadow EXCEPT ![base + i.a] = Computed(old)]
                    [] i.op = "TAILCALL"
                         -> [s \in Slot |-> IF s - base \in 0 .. i.c - 1 THEN shadow[s + i.b] ELSE shadow[s]]
                    [] i.op = "RET" /\ ts >= 0
                         -> [shadow EXCEPT ![bs + ts] = Twin(old)!R(i.a)]
                    [] OTHER -> shadow
    BY <1>2, Zenon DEF Shadowed
  <2> QED
    BY <2>1, <2>2
<1>8. \A x, y : <<c + 2, x, y>> \in same => x \in Regs /\ y \in Regs
  BY DEF Rewritten
<1>9. /\ Twin(old)!PopFrame /\ Twinned(old, new, same, here, valued)'
      /\ (DoRet => Twin(old)!DoRet) /\ (DoRetVoid => Twin(old)!DoRetVoid)
  <2>1. CASE DoRet
    <3>1. Instr.op = "RET" /\ stack' = IF to >= 0 THEN [stack EXCEPT ![b + to] = R(Instr.a)] ELSE stack
      BY <2>1 DEF DoRet, Dispatch
    <3>2. Twin(old)!R(i.a) = R(Instr.a)
      BY <1>1, <1>3, <3>1 DEF SameWork
    <3>3. R(Instr.a) \in Word
      BY <1>1, <3>1, OperandsOK, RegisterValue DEF FieldsOK, Reads, WideOps, Twinned, Windows
    <3> DEFINE v == R(Instr.a)
    <3>4. shadow' = IF old.code[c].op = "CALL" THEN [shadow EXCEPT ![b + old.code[c].a] = v] ELSE shadow
      <4>0. /\ ts = IF old.code[c].op = "CALL" THEN old.code[c].a ELSE -1
            /\ old.code[c].op = "CALL" => old.code[c].a \in Nat
        BY <1>5, <1>6 DEF ACU_FRAME_NO_RET
      <4>1. ts >= 0 <=> old.code[c].op = "CALL"
        <5> HIDE DEF ts, c
        <5> QED
          BY <4>0
      <4> HIDE DEF b, bs, ts, c, i
      <4> QED
        BY <1>3, <1>5, <1>7, <3>1, <3>2, <4>1
    <3>5. stack' = IF new.code[c].op = "CALL" THEN [stack EXCEPT ![b + new.code[c].a] = v] ELSE stack
      <4>0. /\ to = IF new.code[c].op = "CALL" THEN new.code[c].a ELSE -1
            /\ new.code[c].op = "CALL" => new.code[c].a \in Nat
        BY <1>5, <1>6 DEF ACU_FRAME_NO_RET
      <4>1. to >= 0 <=> new.code[c].op = "CALL"
        <5> HIDE DEF to, c
        <5> QED
          BY <4>0
      <4> HIDE DEF b, to, c, i
      <4> QED
        BY <1>5, <3>1, <4>1
    <3> HIDE DEF v
    <3>6. shadow' \in [Slot -> Word]
      BY <1>5, <1>6, <3>3, <3>4 DEF v
    <3>7. ASSUME NEW s \in Slot, s < b
          PROVE  shadow'[s] = shadow[s] /\ stack'[s] = stack[s]
      <4>1. s \in Int /\ \A r \in Regs : b + r # s
        BY <1>6, <3>7 DEF Slot
      <4> HIDE DEF b, c
      <4> QED
        BY <1>5, <1>6, <3>4, <3>5, <4>1
    <3>8. ASSUME NEW x, NEW y, <<c + 2, x, y>> \in same
          PROVE  shadow'[b + x] = stack'[b + y]
      <4>1. x \in Regs /\ y \in Regs
        BY <1>8, <3>8
      <4>2. b + x \in Slot /\ b + y \in Slot
        BY <1>6, <4>1
      <4>3. CASE x \in Writes(old.code[c]) /\ y \in Writes(new.code[c])
        <5>1. /\ x = old.code[c].a /\ old.code[c].op = "CALL"
              /\ y = new.code[c].a /\ new.code[c].op = "CALL"
          BY <1>5, <4>3 DEF Writes, WriteOps
        <5> HIDE DEF b, c
        <5> QED
          BY <1>6, <3>4, <3>5, <4>2, <5>1
      <4>4. CASE /\ x \notin Writes(old.code[c]) /\ y \notin Writes(new.code[c])
                 /\ shadow[b + x] = stack[b + y]
        <5>1. /\ old.code[c].op = "CALL" => x # old.code[c].a
              /\ new.code[c].op = "CALL" => y # new.code[c].a
          BY <1>5, <4>4 DEF Writes, WriteOps
        <5>2. /\ old.code[c].op = "CALL" => b + x # b + old.code[c].a
              /\ new.code[c].op = "CALL" => b + y # b + new.code[c].a
          BY <1>5, <1>6, <4>1, <5>1
        <5> HIDE DEF b, c
        <5> QED
          BY <1>6, <3>4, <3>5, <4>2, <4>4, <5>2
      <4> QED
        BY <1>5, <3>8, <4>3, <4>4
    <3>9. Twin(old)!PopFrame /\ Twinned(old, new, same, here, valued)'
      BY <1>2, <1>5, <3>6, <3>7, <3>8, Returned
    <3>10. Twin(old)!DoRet
      <4>1. shadow' = IF ts >= 0 THEN [shadow EXCEPT ![bs + ts] = Twin(old)!R(i.a)] ELSE shadow
        BY <1>3, <1>7, <3>1
      <4>2. Twin(old)!Dispatch({"RET"})
        BY <1>4, <2>1 DEF DoRet
      <4> QED
        BY <1>2, <3>9, <4>1, <4>2 DEF Twin!DoRet
    <3>11. ~ DoRetVoid
      BY <3>1 DEF DoRetVoid, Dispatch
    <3> QED
      BY <3>9, <3>10, <3>11
  <2>2. CASE DoRetVoid
    <3>1. Instr.op = "RET_VOID" /\ stack' = stack /\ shadow' = shadow
      BY <1>3, <1>7, <2>2 DEF DoRetVoid, Dispatch
    <3>2. new.code[c].op # "CALL"
      <4>1. OldAt(old) \in here
        BY TwinStands
      <4>2. ip \in valued => old.code[ip].op # "RET_VOID"
        BY <4>1 DEF Rewritten, Answers
      <4> QED
        BY <1>1, <1>3, <1>5, <3>1, <4>2
    <3>3. ASSUME NEW x, NEW y, <<c + 2, x, y>> \in same
          PROVE  shadow'[b + x] = stack'[b + y]
      <4>1. Writes(new.code[c]) = {}
        BY <1>5, <3>2 DEF Writes, WriteOps
      <4> QED
        BY <1>5, <3>1, <3>3, <4>1
    <3>4. Twin(old)!PopFrame /\ Twinned(old, new, same, here, valued)'
      BY <1>2, <1>5, <1>6, <3>1, <3>3, Returned
    <3>5. Twin(old)!DoRetVoid
      <4>1. Twin(old)!Dispatch({"RET_VOID"})
        BY <1>4, <2>2 DEF DoRetVoid
      <4> QED
        BY <1>2, <3>1, <3>4, <4>1 DEF Twin!DoRetVoid
    <3>6. ~ DoRet
      BY <3>1 DEF DoRet, Dispatch
    <3> QED
      BY <3>4, <3>5, <3>6
  <2> QED
    BY <2>1, <2>2
<1> QED
  BY <1>9 DEF Twin!Handler
-----------------------------------------------------------------------------
(* Syscalls, and what stops both machines.                                 *)

LEMMA StopTwins ==
  ASSUME NEW old, NEW new, NEW same, NEW here, NEW valued,
         Twinned(old, new, same, here, valued), Windows', Shadowed(old),
         status = "RUNNING", NEW s, s \notin {"HALT", "RUNNING"}, Stop(s)
  PROVE  Twin(old)!Stop(s) /\ Twinned(old, new, same, here, valued)'
<1>1. shadow' = shadow
  BY DEF Shadowed, Stop
<1>2. Twin(old)!Stop(s)
  BY <1>1, TwinStop
<1>3. Twinned(old, new, same, here, valued)'
  BY <1>1, StillTwinned DEF Stop
<1> QED
  BY <1>2, <1>3

(* A syscall, or the call of one whose result is dropped.                  *)
LEMMA SyscallAlongside ==
  ASSUME NEW old, NEW new, NEW same, NEW here, NEW valued,
         Rewritten(old, new, same, here, valued), Twinned(old, new, same, here, valued),
         ip = OldAt(old), SameWork(old, new, same, ip), status = "RUNNING", Instr.op \in WideOps,
         NEW i, i = Twin(old)!Instr
  PROVE  /\ i = old.code[ip] /\ Instr = new.code[ip] /\ i.op \in WideOps
         /\ i.op = Instr.op \/ <<i.op, Instr.op>> \in Voided
         /\ i.op \in SyscallOps <=> Instr.op \in SyscallOps
         /\ Instr.b = i.b /\ Instr.c = i.c
         /\ Payload = Twin(old)!Payload /\ Payload = old.code[ip + 1]
         /\ Twin(old)!ArgsFit <=> ArgsFit
         /\ Twin(old)!WindowFits <=> WindowFits
         /\ \A ids : Syscall(ids) => Twin(old)!Syscall(ids)
         /\ i.c > 0 => Twin(old)!R(i.b) = R(Instr.b)
         /\ i.op \in SyscallOps /\ Payload.fn \in {"math", "seed"} => Twin(old)!R(i.b) = R(Instr.b)
         /\ R(Instr.b) \in Word
<1>1. /\ Decodes /\ Instr = new.code[ip] /\ i = old.code[ip]
      /\ Instr.op = i.op \/ <<i.op, Instr.op>> \in Voided
      /\ i.op \in WideOps => Payload = Twin(old)!Payload
      /\ Twin(old)!Payload = old.code[ip + 1]
      /\ \A x, y : <<ip, x, y>> \in same => Twin(old)!R(x) = R(y)
  BY Alongside, TwinStands
<1>2. i.op \in WideOps /\ (i.op \in SyscallOps <=> Instr.op \in SyscallOps)
  BY <1>1 DEF Voided, WideOps, SyscallOps
<1>3. Instr.b = i.b /\ Instr.c = i.c /\ Payload = old.code[ip + 1] /\ \A r \in Reads(i) : <<ip, r, r>> \in same
  BY <1>1, <1>2 DEF SameWork
<1>4. /\ Twin(old)!ArgsFit <=> ArgsFit
      /\ Twin(old)!WindowFits <=> WindowFits
  BY <1>3 DEF Twin!ArgsFit, ArgsFit, Twin!WindowFits, WindowFits
<1>5. i.b \in Int /\ i.c \in Int /\ i.b \in Regs
  BY <1>1, <1>2, TwinStands DEF Words, FieldsOK
<1>6. i.c > 0 => i.b \in Reads(i)
  <2>1. i.op \notin {"RET", "JUMP_IF_TRUE", "JUMP_IF_FALSE", "JUMP_CMP_IMM", "STORE_GLOBAL", "JUMP_CMP",
                     "MOVE", "UNARY", "ALU_IMM", "ALU"}
    BY <1>2 DEF WideOps
  <2>2. Reads(i) = i.b .. (i.b + i.c - 1)
    BY <1>2, <2>1 DEF Reads
  <2> QED
    BY <1>5, <2>2
<1>7. i.c > 0 => Twin(old)!R(i.b) = R(Instr.b)
  BY <1>1, <1>3, <1>6
<1>8. i.op \in SyscallOps /\ Payload.fn \in {"math", "seed"} => Twin(old)!R(i.b) = R(Instr.b)
  BY <1>1, <1>3 DEF SameWork
<1>9. ASSUME NEW ids, Syscall(ids)
      PROVE  Twin(old)!Syscall(ids)
  <2>1. Dispatch(SyscallOps) /\ ArgsFit /\ Payload.fn \in ids
    BY <1>9 DEF Syscall
  <2>2. i.op \in SyscallOps
    BY <1>2, <2>1 DEF Dispatch
  <2>3. Twin(old)!Dispatch(SyscallOps)
    BY <2>2, TwinDispatch
  <2> QED
    BY <1>1, <1>2, <1>4, <2>1, <2>3, TwinTables DEF Twin!Syscall
<1>10. R(Instr.b) \in Word
  BY <1>3, <1>5, RegisterValue DEF Twinned, Windows
<1> QED
  BY <1>1, <1>2, <1>3, <1>4, <1>7, <1>8, <1>9, <1>10

LEMMA AnswerTwins ==
  ASSUME NEW old, NEW new, NEW same, NEW here, NEW valued,
         Rewritten(old, new, same, here, valued), Twinned(old, new, same, here, valued), Windows',
         ip = OldAt(old), SameWork(old, new, same, ip), Shadowed(old), Dispatch(SyscallOps),
         Payload.fn \notin {"exit", "panic"},
         NEW v, NEW w \in Word, Answer(v), w = Answered(old), Instr.op = "SYSCALL" => w = v
  PROVE  Twin(old)!Answer(w) /\ Twinned(old, new, same, here, valued)'
<1> DEFINE i == Twin(old)!Instr
           j == Instr
<1>1. status = "RUNNING" /\ j.op \in SyscallOps /\ j.op \in WideOps /\ Slots(j.op) = 2
  BY DEF Dispatch, SyscallOps, WideOps, Slots
<1>2. /\ i = old.code[ip] /\ j = new.code[ip] /\ i.op \in WideOps
      /\ i.op = j.op \/ <<i.op, j.op>> \in Voided
      /\ i.op \in SyscallOps /\ Payload = old.code[ip + 1]
  BY <1>1, SyscallAlongside
<1>3. FallsThrough(old, ip) /\ Slots(i.op) = 2
  BY <1>2 DEF FallsThrough, Slots
<1>4. /\ stack' = IF j.op = "SYSCALL" THEN [stack EXCEPT ![base + j.a] = v] ELSE stack
      /\ ip' = ip + 2 /\ Goto(ip + 2) /\ status' = "RUNNING" /\ UNCHANGED <<chunk, base, fp, frames, globals>>
  BY <1>1 DEF Answer, Advance, Goto
<1>5. /\ i.op \in {"SYSCALL", "SYSCALL_VOID"} /\ j.op \in {"SYSCALL", "SYSCALL_VOID"}
      /\ j.op = "SYSCALL" => i.op = "SYSCALL"
      /\ j.op \in WriteOps <=> j.op = "SYSCALL"
      /\ j.op # "MOVE"
  BY <1>1, <1>2 DEF SyscallOps, Voided, WriteOps
<1>6. i.op = "SYSCALL" => Computed(old) = w
  BY DEF Computed
<1>7. /\ shadow' = IF i.op = "SYSCALL" THEN [shadow EXCEPT ![base + i.a] = w] ELSE shadow
      /\ ip' \in here /\ Twinned(old, new, same, here, valued)'
  <2> DEFINE ii == old.code[OldAt(old)]
             jj == new.code[OldAt(old)]
  <2>e. ii = i /\ jj = j /\ (j.op = "SYSCALL" => w = v)
    BY <1>2
  <2>1. CASE i.op = "SYSCALL"
    <3>1. /\ ii = old.code[OldAt(old)] /\ jj = new.code[OldAt(old)]
          /\ ii.op \in WriteOps \ {"CALL", "TAILCALL"} /\ FallsThrough(old, OldAt(old))
          /\ status = "RUNNING" /\ status' = "RUNNING" /\ ip' = OldAt(old) + Slots(ii.op)
          /\ UNCHANGED <<chunk, base, fp, frames>>
          /\ stack' = IF jj.op \in WriteOps THEN [stack EXCEPT ![base + jj.a] = v] ELSE stack
          /\ jj.op \in WriteOps => v = Computed(old)
          /\ jj.op = "MOVE" => ii.op = "MOVE" /\ v = stack[base + jj.b]
          /\ Computed(old) \in Word
      <4>1. ii.op \in WriteOps \ {"CALL", "TAILCALL"}
        BY <2>1, <2>e DEF WriteOps
      <4> HIDE DEF i, j, ii, jj
      <4>2. ii = old.code[OldAt(old)] /\ jj = new.code[OldAt(old)]
        BY DEF ii, jj
      <4>3. FallsThrough(old, OldAt(old)) /\ status = "RUNNING" /\ status' = "RUNNING" /\ ip' = OldAt(old) + Slots(ii.op)
        BY <1>1, <1>3, <1>4, <2>e
      <4>4. stack' = IF jj.op \in WriteOps THEN [stack EXCEPT ![base + jj.a] = v] ELSE stack
        BY <1>4, <1>5, <2>e
      <4>5. /\ jj.op \in WriteOps => v = Computed(old)
            /\ jj.op = "MOVE" => ii.op = "MOVE" /\ v = stack[base + jj.b]
            /\ Computed(old) \in Word
        BY <1>5, <1>6, <2>1, <2>e
      <4>6. UNCHANGED <<chunk, base, fp, frames>>
        BY <1>4
      <4> QED
        BY <4>1, <4>2, <4>3, <4>4, <4>5, <4>6
    <3> HIDE DEF ii, jj, i, j
    <3>2. /\ shadow' = [shadow EXCEPT ![base + Twin(old)!Instr.a] = Computed(old)]
          /\ ip' \in here /\ Twinned(old, new, same, here, valued)'
      BY <3>1, WriteTwins
    <3> QED
      BY <1>6, <2>1, <3>2 DEF i
  <2>2. CASE i.op = "SYSCALL_VOID"
    <3>1. /\ ii = old.code[OldAt(old)] /\ ii.op \notin WriteOps \union {"TAILCALL", "RET"}
          /\ jj.op \notin WriteOps /\ stack' = stack
          /\ FallsThrough(old, OldAt(old)) /\ ip' = OldAt(old) + Slots(ii.op) /\ ii.op \notin BytecodeCalls
      BY <1>3, <1>4, <1>5, <2>2, <2>e DEF WriteOps, BytecodeCalls
    <3>2. UNCHANGED <<chunk, base, fp, frames>>
      BY <1>4
    <3>3. new.code[OldAt(old)].op \notin WriteOps
      BY <3>1
    <3> HIDE DEF ii, jj, i, j
    <3> QED
      BY <2>2, <3>1, <3>2, <3>3, PlainTwins
  <2> QED
    BY <1>5, <2>1, <2>2
<1>8. Twin(old)!Goto(ip + 2)
  BY <1>1, <1>4, <1>7, TwinGoto
<1> HIDE DEF j
<1>9. Twin(old)!Advance
  BY <1>3, <1>8, TwinTables DEF Twin!Advance
<1> QED
  BY <1>4, <1>7, <1>9 DEF Twin!Answer

LEMMA SyscallTwins ==
  ASSUME NEW old, NEW new, NEW same, NEW here, NEW valued,
         Rewritten(old, new, same, here, valued), Twinned(old, new, same, here, valued), Windows',
         ip = OldAt(old), SameWork(old, new, same, ip), Shadowed(old), Syscalls \/ WildSyscall
  PROVE  Twin(old)!Handler /\ Twinned(old, new, same, here, valued)'
<1> DEFINE i == Twin(old)!Instr
           fn == Twin(old)!Payload.fn
<1>1. Dispatch(SyscallOps) /\ status = "RUNNING" /\ Instr.op \in SyscallOps /\ Instr.op \in WideOps
  BY DEF Syscalls, SysPrint, SysPrintNoArgs, SysReadFails, SysMath, SysRandom, SysSeed, SysExit, SysPanic,
         SysRead, SysClock, Syscall, WildSyscall, Dispatch, SyscallOps, WideOps
<1>2. /\ i.op \in SyscallOps
      /\ i.op = Instr.op \/ <<i.op, Instr.op>> \in Voided
      /\ Instr.b = i.b /\ Instr.c = i.c
      /\ Payload = Twin(old)!Payload
      /\ Twin(old)!ArgsFit <=> ArgsFit
      /\ \A ids : Syscall(ids) => Twin(old)!Syscall(ids)
      /\ i.c > 0 => Twin(old)!R(i.b) = R(Instr.b)
      /\ Payload.fn \in {"math", "seed"} => Twin(old)!R(i.b) = R(Instr.b)
      /\ R(Instr.b) \in Word
  BY <1>1, SyscallAlongside
<1>3. i.c \in Int
  BY TwinStands DEF Words
<1>4. ASSUME NEW v, NEW w \in Word, Answer(v), w = Answered(old), Instr.op = "SYSCALL" => w = v,
             Payload.fn \notin {"exit", "panic"}
      PROVE  Twin(old)!Answer(w) /\ Twinned(old, new, same, here, valued)'
  BY <1>1, <1>4, AnswerTwins
<1>5. ASSUME NEW s, s \notin {"HALT", "RUNNING"}, Stop(s)
      PROVE  Twin(old)!Stop(s) /\ Twinned(old, new, same, here, valued)'
  BY <1>1, <1>5, StopTwins
<1>6. 0 \in Word /\ \A x \in Word : NextRandom(x) \in Word /\ Alu("NEG", x, 0) \in Word
  BY WordAssumption DEF Fns, UnaryFns
<1>7. ASSUME NEW v \in Word, Instr.op = "SYSCALL", Answer(v)
      PROVE  stack'[base + Instr.a] = v
  <2>1. TypeOK /\ Decodes
    BY <1>1 DEF Twinned, Windows, Dispatch
  <2>2. Instr.a \in Regs
    BY <1>7, <2>1, OperandsOK DEF FieldsOK, WriteOps
  <2>3. base + Instr.a \in Slot
    BY <2>1, <2>2, RegisterValue
  <2> QED
    BY <1>7, <2>1, <2>3 DEF Answer, TypeOK
<1> HIDE DEF i
<1>8. CASE SysPrint
  <2>1. Syscall({"print"}) /\ Payload.fn = "print" /\ Answer(0) /\ Instr.c >= 1
    BY <1>8 DEF SysPrint, Syscall
  <2>2. Answered(old) = 0
    BY <1>2, <2>1 DEF Answered
  <2>3. Twin(old)!Answer(0) /\ Twinned(old, new, same, here, valued)'
    BY <1>4, <1>6, <2>1, <2>2
  <2>4. Twin(old)!R(i.b) = R(Instr.b)
    BY <1>2, <1>3, <2>1
  <2>5. Twin(old)!SysPrint
    BY <1>2, <1>8, <2>1, <2>3, <2>4 DEF SysPrint, Twin!SysPrint, i
  <2> QED
    BY <2>3, <2>5 DEF Twin!Syscalls, Twin!Handler
<1>9. CASE SysPrintNoArgs
  <2>1. Twin(old)!Stop("INVALID_SYSCALL") /\ Twinned(old, new, same, here, valued)'
    BY <1>5, <1>9 DEF SysPrintNoArgs
  <2>2. Twin(old)!SysPrintNoArgs
    BY <1>2, <1>9, <2>1 DEF SysPrintNoArgs, Twin!SysPrintNoArgs, i
  <2> QED
    BY <2>1, <2>2 DEF Twin!Syscalls, Twin!Handler
<1>10. ASSUME NEW v \in Word, SysRead(v)
       PROVE  Twin(old)!Handler /\ Twinned(old, new, same, here, valued)'
  <2> DEFINE w == IF Instr.op = "SYSCALL" THEN v ELSE 0
  <2>1. Syscall({"read"}) /\ Payload.fn = "read" /\ Answer(v) /\ UNCHANGED <<prng, out>>
    BY <1>10 DEF SysRead, Syscall
  <2>2. Answered(old) = w /\ w \in Word
    BY <1>2, <1>6, <1>7, <2>1 DEF Answered
  <2>3. Twin(old)!Answer(w) /\ Twinned(old, new, same, here, valued)'
    <3>1. Instr.op = "SYSCALL" => w = v
      OBVIOUS
    <3> HIDE DEF w
    <3> QED
      BY <1>4, <2>1, <2>2, <3>1
  <2>4. Twin(old)!SysRead(w)
    <3> HIDE DEF w
    <3> QED
      BY <1>2, <2>1, <2>3 DEF Twin!SysRead
  <2> QED
    <3> HIDE DEF w
    <3> QED
      BY <2>2, <2>3, <2>4 DEF Twin!Syscalls, Twin!Handler
<1>11. CASE SysReadFails
  <2>1. Twin(old)!Stop("IO") /\ Twinned(old, new, same, here, valued)'
    BY <1>5, <1>11 DEF SysReadFails
  <2>2. Twin(old)!SysReadFails
    BY <1>2, <1>11, <2>1 DEF SysReadFails, Twin!SysReadFails
  <2> QED
    BY <2>1, <2>2 DEF Twin!Syscalls, Twin!Handler
<1>12. ASSUME NEW v \in Word, SysClock(v)
       PROVE  Twin(old)!Handler /\ Twinned(old, new, same, here, valued)'
  <2> DEFINE w == IF Instr.op = "SYSCALL" THEN v ELSE 0
  <2>1. Syscall({"clock"}) /\ Payload.fn = "clock" /\ Answer(v) /\ UNCHANGED <<prng, out>>
    BY <1>12 DEF SysClock, Syscall
  <2>2. Answered(old) = w /\ w \in Word
    BY <1>2, <1>6, <1>7, <2>1 DEF Answered
  <2>3. Twin(old)!Answer(w) /\ Twinned(old, new, same, here, valued)'
    <3>1. Instr.op = "SYSCALL" => w = v
      OBVIOUS
    <3> HIDE DEF w
    <3> QED
      BY <1>4, <2>1, <2>2, <3>1
  <2>4. Twin(old)!SysClock(w)
    <3> HIDE DEF w
    <3> QED
      BY <1>2, <2>1, <2>3 DEF Twin!SysClock
  <2> QED
    <3> HIDE DEF w
    <3> QED
      BY <2>2, <2>3, <2>4 DEF Twin!Syscalls, Twin!Handler
<1>13. CASE SysMath
  <2> DEFINE w == Alu("NEG", R(Instr.b), 0)
  <2>1. Syscall({"math"}) /\ Payload.fn = "math" /\ Answer(w) /\ UNCHANGED <<prng, out>>
    BY <1>13 DEF SysMath, Syscall
  <2>2. w = Alu("NEG", Twin(old)!R(i.b), 0) /\ w \in Word
    BY <1>2, <1>6, <2>1
  <2>3. Answered(old) = w
    BY <1>2, <2>1, <2>2 DEF Answered, i
  <2>4. Twin(old)!Answer(w) /\ Twinned(old, new, same, here, valued)'
    <3> HIDE DEF w
    <3> QED
      BY <1>4, <2>1, <2>2, <2>3
  <2>5. Twin(old)!SysMath
    <3> HIDE DEF w
    <3> QED
      BY <1>2, <2>1, <2>2, <2>4 DEF Twin!SysMath, i
  <2> QED
    BY <2>4, <2>5 DEF Twin!Syscalls, Twin!Handler
<1>14. CASE SysRandom
  <2> DEFINE w == NextRandom(prng)
  <2>1. Syscall({"random"}) /\ Payload.fn = "random" /\ Answer(w) /\ prng' = w /\ UNCHANGED out
    BY <1>14 DEF SysRandom, Syscall
  <2>2. w \in Word
    BY <1>6 DEF Twinned, Windows, TypeOK
  <2>3. Answered(old) = w
    BY <1>2, <2>1 DEF Answered
  <2>4. Twin(old)!Answer(w) /\ Twinned(old, new, same, here, valued)'
    <3> HIDE DEF w
    <3> QED
      BY <1>4, <2>1, <2>2, <2>3
  <2>5. Twin(old)!SysRandom
    BY <1>2, <2>1, <2>4 DEF Twin!SysRandom
  <2> QED
    BY <2>4, <2>5 DEF Twin!Syscalls, Twin!Handler
<1>15. CASE SysSeed
  <2>1. Syscall({"seed"}) /\ Payload.fn = "seed" /\ Answer(0) /\ prng' = R(Instr.b) /\ UNCHANGED out
    BY <1>15 DEF SysSeed, Syscall
  <2>2. Answered(old) = 0
    BY <1>2, <2>1 DEF Answered
  <2>3. Twin(old)!Answer(0) /\ Twinned(old, new, same, here, valued)'
    BY <1>4, <1>6, <2>1, <2>2
  <2>4. Twin(old)!R(i.b) = R(Instr.b)
    BY <1>2, <2>1
  <2>5. Twin(old)!SysSeed
    BY <1>2, <2>1, <2>3, <2>4 DEF Twin!SysSeed, i
  <2> QED
    BY <2>3, <2>5 DEF Twin!Syscalls, Twin!Handler
<1>16. CASE SysExit
  <2>1. /\ Syscall({"exit"}) /\ status' = "EXITED" /\ exitCode' = IF Instr.c > 0 THEN R(Instr.b) ELSE 0
        /\ UNCHANGED <<chunk, ip, base, stack, frames, fp, globals, prng, out>>
    BY <1>16 DEF SysExit
  <2>2. shadow' = shadow
    BY <2>1 DEF Shadowed
  <2>3. Twinned(old, new, same, here, valued)'
    BY <2>1, <2>2, StillTwinned
  <2>4. OldFrames(old)' = OldFrames(old) /\ OldAt(old)' = OldAt(old)
    BY <2>1, OldFramesStill DEF OldAt
  <2>5. exitCode' = IF i.c > 0 THEN Twin(old)!R(i.b) ELSE 0
    BY <1>2, <2>1
  <2>6. Twin(old)!SysExit
    BY <1>2, <2>1, <2>2, <2>4, <2>5 DEF Twin!SysExit, i
  <2> QED
    BY <2>3, <2>6 DEF Twin!Syscalls, Twin!Handler
<1>17. CASE SysPanic
  <2>1. Twin(old)!Stop("PANIC") /\ Twinned(old, new, same, here, valued)'
    BY <1>5, <1>17 DEF SysPanic
  <2>2. Twin(old)!SysPanic
    BY <1>2, <1>17, <2>1 DEF SysPanic, Twin!SysPanic
  <2> QED
    BY <2>1, <2>2 DEF Twin!Syscalls, Twin!Handler
<1>18. CASE WildSyscall
  <2>1. Twin(old)!Stop("UNDEFINED") /\ Twinned(old, new, same, here, valued)' /\ ArgsFit /\ Payload.fn \notin SyscallIds
    BY <1>5, <1>18 DEF WildSyscall
  <2>2. Twin(old)!Dispatch(SyscallOps)
    BY <1>1, <1>2, TwinDispatch DEF i
  <2>3. Twin(old)!WildSyscall
    BY <1>2, <2>1, <2>2, TwinTables DEF Twin!WildSyscall
  <2> QED
    BY <2>1, <2>3 DEF Twin!Handler
<1> QED
  BY <1>8, <1>9, <1>10, <1>11, <1>12, <1>13, <1>14, <1>15, <1>16, <1>17, <1>18 DEF Syscalls

LEMMA OverflowTwins ==
  ASSUME NEW old, NEW new, NEW same, NEW here, NEW valued,
         Rewritten(old, new, same, here, valued), Twinned(old, new, same, here, valued), Windows',
         ip = OldAt(old), SameWork(old, new, same, ip), Shadowed(old),
         DoCallOverflow \/ DoArgsOverflow \/ FrameUnderflow
  PROVE  Twin(old)!Handler /\ Twinned(old, new, same, here, valued)'
<1> DEFINE i == Twin(old)!Instr
<1>1. ASSUME NEW s, s \notin {"HALT", "RUNNING"}, Stop(s), status = "RUNNING"
      PROVE  Twin(old)!Stop(s) /\ Twinned(old, new, same, here, valued)'
  BY <1>1, StopTwins
<1>2. CASE DoCallOverflow
  <2> DEFINE s == IF WindowFits THEN "CALL_STACK_OVERFLOW" ELSE "STACK_OVERFLOW"
  <2>1. /\ Instr.op \in {"CALL", "CALL_VOID"} /\ Instr.op \in WideOps /\ status = "RUNNING"
        /\ ~ (WindowFits /\ fp < FrameCapacity) /\ Stop(s)
    BY <1>2 DEF DoCallOverflow, Dispatch, WideOps
  <2>2. Twin(old)!Stop(s) /\ Twinned(old, new, same, here, valued)'
    <3>1. s \notin {"HALT", "RUNNING"}
      OBVIOUS
    <3> HIDE DEF s
    <3> QED
      BY <1>1, <2>1, <3>1
  <2>3. (Twin(old)!WindowFits <=> WindowFits) /\ i.op \in {"CALL", "CALL_VOID"}
    <3>1. /\ i.op = Instr.op \/ <<i.op, Instr.op>> \in Voided
          /\ Twin(old)!WindowFits <=> WindowFits
      BY <2>1, SyscallAlongside
    <3> QED
      BY <2>1, <3>1 DEF Voided
  <2>4. Twin(old)!Dispatch({"CALL", "CALL_VOID"})
    BY <2>1, <2>3, TwinDispatch
  <2>5. Twin(old)!DoCallOverflow
    BY <2>1, <2>2, <2>3, <2>4 DEF Twin!DoCallOverflow
  <2> QED
    BY <2>2, <2>5 DEF Twin!Handler
<1>3. CASE DoArgsOverflow
  <2>1. /\ Instr.op \in {"TAILCALL", "SYSCALL", "SYSCALL_VOID"} /\ Instr.op \in WideOps /\ status = "RUNNING"
        /\ ~ ArgsFit /\ Stop("STACK_OVERFLOW")
    BY <1>3 DEF DoArgsOverflow, Dispatch, WideOps
  <2>2. Twin(old)!Stop("STACK_OVERFLOW") /\ Twinned(old, new, same, here, valued)'
    BY <1>1, <2>1
  <2>3. (Twin(old)!ArgsFit <=> ArgsFit) /\ i.op \in {"TAILCALL", "SYSCALL", "SYSCALL_VOID"}
    <3>1. /\ i.op = Instr.op \/ <<i.op, Instr.op>> \in Voided
          /\ Twin(old)!ArgsFit <=> ArgsFit
      BY <2>1, SyscallAlongside
    <3> QED
      BY <2>1, <3>1 DEF Voided
  <2>4. Twin(old)!Dispatch({"TAILCALL", "SYSCALL", "SYSCALL_VOID"})
    BY <2>1, <2>3, TwinDispatch
  <2>5. Twin(old)!DoArgsOverflow
    BY <2>1, <2>2, <2>3, <2>4 DEF Twin!DoArgsOverflow
  <2> QED
    BY <2>2, <2>5 DEF Twin!Handler
<1>4. CASE FrameUnderflow
  <2>1. Instr.op \in {"RET", "RET_VOID"} /\ status = "RUNNING" /\ fp = 0 /\ Stop("UNDEFINED")
    BY <1>4 DEF FrameUnderflow, Dispatch
  <2>2. Twin(old)!Stop("UNDEFINED") /\ Twinned(old, new, same, here, valued)'
    BY <1>1, <2>1
  <2>3. i.op \in {"RET", "RET_VOID"}
    <3>1. Instr.op = i.op \/ <<i.op, Instr.op>> \in Voided
      BY Alongside
    <3> QED
      BY <2>1, <3>1 DEF Voided
  <2>4. Twin(old)!Dispatch({"RET", "RET_VOID"})
    BY <2>1, <2>3, TwinDispatch
  <2>5. Twin(old)!FrameUnderflow
    BY <2>1, <2>2, <2>4 DEF Twin!FrameUnderflow
  <2> QED
    BY <2>2, <2>5 DEF Twin!Handler
<1> QED
  BY <1>2, <1>3, <1>4
-----------------------------------------------------------------------------
(* Dropped instructions.                                                   *)

LEMMA OldValue ==
  ASSUME NEW old, NEW new, NEW same, NEW here, NEW valued,
         Twinned(old, new, same, here, valued), NEW r \in Regs
  PROVE  Twin(old)!R(r) \in Word
<1>1. base + r \in Slot
  BY RegisterValue DEF Twinned, Windows
<1> QED
  BY <1>1 DEF Twinned, Twin!R

(* What a dropped instruction would have answered.                         *)
LEMMA DroppedValue ==
  ASSUME NEW old, NEW new, NEW same, NEW here, NEW valued,
         Rewritten(old, new, same, here, valued), Twinned(old, new, same, here, valued),
         Dropped(old, new, OldAt(old)), Instr.op = "NOP"
  PROVE  Computed(old) \in Word
<1> DEFINE i == Twin(old)!Instr
           Data == {"MOVE", "LOAD_IMM", "LOAD_CONST", "LOAD_STR", "LOAD_GLOBAL", "SYSCALL", "UNARY", "ALU", "ALU_IMM"}
<1>1. /\ i = old.code[OldAt(old)] /\ i \in Words /\ FieldsOK(old, i)
      /\ Twin(old)!Payload = old.code[OldAt(old) + 1] /\ i.op \in Data
  BY TwinStands DEF Dropped, WriteOps
<1>2. /\ TypeOK /\ chunk = new /\ new.slots = old.slots /\ IsChunk(old)
      /\ \A r \in Regs : Twin(old)!R(r) \in Word
  BY NewSides, OldValue DEF Twinned, Windows, Rewritten
<1> HIDE DEF i
<1>3. /\ i.op \in {"MOVE", "UNARY", "ALU", "ALU_IMM"} => i.b \in Regs
      /\ i.op = "ALU" => i.c \in Regs
      /\ i.op = "SYSCALL" => i.b \in Regs
  BY <1>1 DEF FieldsOK, Reads, WideOps
<1>4. i.op \in {"UNARY", "ALU", "ALU_IMM"} => i.fn \in Fns
  BY <1>1 DEF FieldsOK
<1>5. CASE i.op = "MOVE"
  BY <1>2, <1>3, <1>5 DEF Computed, i
<1>6. CASE i.op = "LOAD_IMM"
  BY <1>1, <1>6 DEF Computed, FieldsOK, i
<1>7. CASE i.op = "LOAD_CONST"
  <2>1. old.consts[i.b] \in Word
    BY <1>1, <1>2, <1>7 DEF FieldsOK, IsChunk
  <2> QED
    BY <1>7, <2>1 DEF Computed, i
<1>8. CASE i.op = "LOAD_STR"
  <2>1. old.strs[i.b] \in Word
    BY <1>1, <1>2, <1>8 DEF FieldsOK, IsChunk
  <2> QED
    BY <1>8, <2>1 DEF Computed, i
<1>9. CASE i.op = "LOAD_GLOBAL"
  <2>1. globals[i.b] \in Word
    BY <1>1, <1>2, <1>9 DEF FieldsOK, TypeOK
  <2> QED
    BY <1>9, <2>1 DEF Computed, i
<1>10. CASE i.op = "UNARY"
  <2>1. Alu(i.fn, Twin(old)!R(i.b), 0) \in Word
    BY <1>2, <1>3, <1>4, <1>10, WordAssumption
  <2> QED
    BY <1>10, <2>1 DEF Computed, i
<1>11. CASE i.op \in {"ALU", "ALU_IMM"}
  <2>1. Twin(old)!Right \in Word
    BY <1>1, <1>2, <1>3, <1>11 DEF Twin!Right, FieldsOK, i
  <2>2. Alu(i.fn, Twin(old)!R(i.b), Twin(old)!Right) \in Word
    BY <1>2, <1>3, <1>4, <1>11, <2>1, WordAssumption
  <2> QED
    BY <1>11, <2>2 DEF Computed, i
<1>12. CASE i.op = "SYSCALL"
  <2>1. Twin(old)!Payload.fn \in {"clock", "math"}
    BY <1>1, <1>12 DEF Dropped
  <2>2. Alu("NEG", Twin(old)!R(i.b), 0) \in Word /\ 0 \in Word
    BY <1>2, <1>3, <1>12, WordAssumption DEF Fns, UnaryFns
  <2>3. Answered(old) \in Word
    BY <2>1, <2>2 DEF Answered, i
  <2> QED
    BY <1>12, <2>3 DEF Computed, i
<1> QED
  BY <1>1, <1>5, <1>6, <1>7, <1>8, <1>9, <1>10, <1>11, <1>12

(* The old machine alone runs the instruction.                             *)
LEMMA OldAlone ==
  ASSUME NEW old, NEW new, NEW same, NEW here, NEW valued,
         Rewritten(old, new, same, here, valued), Twinned(old, new, same, here, valued),
         Dropped(old, new, OldAt(old)), Instr.op = "NOP", status = "RUNNING",
         shadow' = [shadow EXCEPT ![base + Twin(old)!Instr.a] = Computed(old)],
         Twin(old)!Goto(OldAt(old) + Slots(Twin(old)!Instr.op)), UNCHANGED <<globals, prng, out>>
  PROVE  Twin(old)!Handler
<1> DEFINE i == Twin(old)!Instr
           Data == {"MOVE", "LOAD_IMM", "LOAD_CONST", "LOAD_STR", "LOAD_GLOBAL", "SYSCALL", "UNARY", "ALU", "ALU_IMM"}
<1>1. /\ i = old.code[OldAt(old)] /\ FieldsOK(old, i)
      /\ Twin(old)!Payload = old.code[OldAt(old) + 1] /\ i.op \in Data
  BY TwinStands DEF Dropped, WriteOps
<1>2. Harmless(old, OldAt(old)) /\ chunk = new
  BY TwinStands DEF Rewritten, Twinned
<1>3. Twin(old)!Advance
  BY TwinTables DEF Twin!Advance
<1>4. Twin(old)!SetA(Computed(old))
  BY <1>3 DEF Twin!SetA
<1>5. \A ops : i.op \in ops => Twin(old)!Dispatch(ops)
  BY TwinDispatch
<1> HIDE DEF i
<1>6. CASE i.op = "MOVE"
  <2>1. Computed(old) = Twin(old)!R(i.b)
    BY <1>6 DEF Computed, i
  <2>2. Twin(old)!DoMove
    BY <1>4, <1>5, <1>6, <2>1 DEF Twin!DoMove, i
  <2> QED
    BY <2>2 DEF Twin!Handler
<1>7. CASE i.op = "LOAD_IMM"
  <2>1. Computed(old) = Imm(i.fn, i.b)
    BY <1>7 DEF Computed, i
  <2>2. Twin(old)!DoLoadImm
    BY <1>4, <1>5, <1>7, <2>1 DEF Twin!DoLoadImm, i
  <2> QED
    BY <2>2 DEF Twin!Handler
<1>8. CASE i.op \in {"LOAD_CONST", "LOAD_STR"}
  <2>1. Computed(old) = IF i.op = "LOAD_CONST" THEN old.consts[i.b] ELSE old.strs[i.b]
    BY <1>8 DEF Computed, i
  <2>2. Twin(old)!DoLoadPool
    BY <1>4, <1>5, <1>8, <2>1 DEF Twin!DoLoadPool, i
  <2> QED
    BY <2>2 DEF Twin!Handler
<1>9. CASE i.op = "LOAD_GLOBAL"
  <2>1. Computed(old) = globals[i.b]
    BY <1>9 DEF Computed, i
  <2>2. Twin(old)!DoLoadGlobal
    BY <1>4, <1>5, <1>9, <2>1 DEF Twin!DoLoadGlobal, i
  <2> QED
    BY <2>2 DEF Twin!Handler
<1>10. CASE i.op = "UNARY"
  <2>1. Computed(old) = Alu(i.fn, Twin(old)!R(i.b), 0)
    BY <1>10 DEF Computed, i
  <2>2. Twin(old)!DoUnary
    BY <1>4, <1>5, <1>10, <2>1 DEF Twin!DoUnary, i
  <2> QED
    BY <2>2 DEF Twin!Handler
<1>11. CASE i.op \in {"ALU", "ALU_IMM"}
  <2>1. Computed(old) = Alu(i.fn, Twin(old)!R(i.b), Twin(old)!Right)
    BY <1>11 DEF Computed, i
  <2>2. ~ Traps(i.fn, Twin(old)!Right)
    <3>1. i.op = "ALU" => i.c \in Regs
      BY <1>1 DEF FieldsOK, Reads, WideOps
    <3>2. i.op = "ALU" => Twin(old)!R(i.c) \in Word
      BY <3>1, OldValue
    <3> QED
      BY <1>1, <1>2, <1>11, <3>2 DEF Harmless, Twin!Right, i
  <2>3. Twin(old)!DoAlu
    BY <1>4, <1>5, <1>11, <2>1, <2>2 DEF Twin!DoAlu, i
  <2> QED
    BY <2>3 DEF Twin!Handler
<1>12. CASE i.op = "SYSCALL"
  <2>1. Twin(old)!Payload.fn \in {"clock", "math"}
    BY <1>1, <1>12 DEF Dropped
  <2>2. Computed(old) = IF Twin(old)!Payload.fn = "math" THEN Alu("NEG", Twin(old)!R(i.b), 0) ELSE 0
    <3>1. Computed(old) = Answered(old)
      BY <1>12 DEF Computed, i
    <3> QED
      BY <2>1, <3>1 DEF Answered, i
  <2>3. Twin(old)!ArgsFit
    BY <1>1, <1>2, <1>12 DEF Harmless, Twin!ArgsFit, i
  <2>4. \A ids : Twin(old)!Payload.fn \in ids => Twin(old)!Syscall(ids)
    <3>1. Twin(old)!Dispatch(SyscallOps)
      BY <1>5, <1>12 DEF SyscallOps
    <3> QED
      BY <2>3, <3>1, TwinTables DEF Twin!Syscall
  <2>5. Twin(old)!Answer(Computed(old))
    BY <1>3, <1>12 DEF Twin!Answer, i
  <2>6. CASE Twin(old)!Payload.fn = "math"
    <3>1. Twin(old)!SysMath
      BY <2>2, <2>4, <2>5, <2>6 DEF Twin!SysMath, i
    <3> QED
      BY <3>1 DEF Twin!Syscalls, Twin!Handler
  <2>7. CASE Twin(old)!Payload.fn = "clock"
    <3>1. Twin(old)!SysClock(0) /\ 0 \in Word
      BY <2>2, <2>4, <2>5, <2>7, WordAssumption DEF Twin!SysClock
    <3> QED
      BY <3>1 DEF Twin!Syscalls, Twin!Handler
  <2> QED
    BY <2>1, <2>6, <2>7
<1> QED
  BY <1>1, <1>6, <1>7, <1>8, <1>9, <1>10, <1>11, <1>12

LEMMA NopOnly ==
  ASSUME Handler, Decodes, Instr.op = "NOP"
  PROVE  DoNop
<1>1. \A ops : Dispatch(ops) => "NOP" \in ops
  BY DEF Dispatch
<1>2. ~ (DoHalt \/ DoJump \/ DoJumpIf \/ DoJumpCmp \/ DoJumpCmpImm)
  BY <1>1 DEF DoHalt, DoJump, DoJumpIf, DoJumpCmp, DoJumpCmpImm
<1>3. ~ (\/ DoMove \/ DoLoadImm \/ DoLoadPool \/ DoLoadGlobal \/ DoStoreGlobal
         \/ DoUnary \/ DoAlu \/ DoDivideByZero)
  BY <1>1 DEF DoMove, DoLoadImm, DoLoadPool, DoLoadGlobal, DoStoreGlobal, DoUnary, DoAlu, DoDivideByZero
<1>4. ~ (DoCall \/ DoCallOverflow \/ DoTailCall \/ DoArgsOverflow \/ DoRet \/ DoRetVoid \/ FrameUnderflow)
  BY <1>1 DEF DoCall, DoCallOverflow, DoTailCall, DoArgsOverflow, DoRet, DoRetVoid, FrameUnderflow
<1>5. ~ Dispatch(SyscallOps)
  BY <1>1 DEF SyscallOps
<1>6. ~ (Syscalls \/ WildSyscall)
  BY <1>5 DEF Syscalls, SysPrint, SysPrintNoArgs, SysReadFails, SysMath, SysRandom, SysSeed, SysExit, SysPanic,
              SysRead, SysClock, Syscall, WildSyscall
<1>7. ~ WildFetch
  BY DEF WildFetch
<1> QED
  BY <1>2, <1>3, <1>4, <1>6, <1>7 DEF Handler

(* At the first of the two words of a dropped SYSCALL nothing happens.     *)
LEMMA HalfwayTwins ==
  ASSUME NEW old, NEW new, NEW same, NEW here, NEW valued,
         Rewritten(old, new, same, here, valued), Twinned(old, new, same, here, valued), Windows',
         Dropped(old, new, OldAt(old)), Shadowed(old),
         ip = OldAt(old), old.code[ip].op = "SYSCALL", ip' = ip + 1, status' = status,
         UNCHANGED <<chunk, frames, fp, base, status, exitCode, stack, globals, prng, out>>
  PROVE  UNCHANGED Twin(old)!vars /\ Twinned(old, new, same, here, valued)'
<1>1. /\ Twin(old)!Instr = old.code[ip] /\ ip \in 0 .. old.size - 1 /\ ip \in here
      /\ old.code[ip + 1].op = "WORD"
  BY TwinStands, TwinTables DEF Twin!Decodes, WideOps
<1>2. OldAt(old)' = OldAt(old)
  <2>1. ip \in Int
    BY <1>1
  <2> QED
    BY <1>1, <2>1 DEF OldAt
<1>3. shadow' = shadow
  <2>1. /\ Slots(old.code[ip].op) = 2 /\ ip \in Int
        /\ old.code[ip].op # "TAILCALL" /\ old.code[ip].op # "RET"
    BY <1>1 DEF Slots, WideOps
  <2>2. ip' # OldAt(old) + Slots(old.code[ip].op)
    BY <2>1
  <2> QED
    BY <1>1, <2>1, <2>2 DEF Shadowed
<1>4. OldFrames(old)' = OldFrames(old) /\ \A f : CallOf(f)' = CallOf(f) /\ StandsAt(old, f)' = StandsAt(old, f)
  BY <1>2, OldFramesStill DEF CallOf, StandsAt
<1>5. UNCHANGED Twin(old)!vars
  BY <1>2, <1>3, <1>4 DEF Twin!vars
<1>6. InStep(old, new, here)'
  BY <1>1, <1>2 DEF InStep, Dropped
<1>7. \A f \in 0 .. fp' - 1 : WaitsAlike(old, new, same, here, f)'
  BY <1>3, <1>4 DEF Twinned, WaitsAlike
<1>8. Twinned(old, new, same, here, valued)'
  BY <1>2, <1>3, <1>4, <1>6, <1>7 DEF Twinned
<1> QED
  BY <1>5, <1>8

LEMMA DroppedTwins ==
  ASSUME NEW old, NEW new, NEW same, NEW here, NEW valued,
         Rewritten(old, new, same, here, valued), Twinned(old, new, same, here, valued), Windows',
         Dropped(old, new, OldAt(old)), Shadowed(old), Handler
  PROVE  /\ Twin(old)!Handler \/ UNCHANGED Twin(old)!vars
         /\ Twinned(old, new, same, here, valued)'
<1> DEFINE p == OldAt(old)
           i == old.code[p]
<1>1. /\ Twin(old)!Instr = i /\ p \in 0 .. old.size - 1 /\ p \in Int
      /\ i.op \in WriteOps \ {"CALL"} /\ new.code[p].op = "NOP"
      /\ i.op = "SYSCALL" => /\ new.code[p + 1].op = "NOP" /\ p + 1 \in 0 .. old.size - 1
                             /\ old.code[p + 1].fn \in {"clock", "math"}
      /\ chunk = new /\ new.size = old.size
  BY TwinStands, TwinTables, NewSides DEF Dropped, Twin!Decodes, WideOps, Twinned
<1>2. ip = p \/ (ip = p + 1 /\ i.op = "SYSCALL")
  BY DEF Twinned, InStep
<1>3. Instr.op = "NOP" /\ Decodes
  <2>1. Instr.op = "NOP" /\ ip \in 0 .. chunk.size - 1
    BY <1>1, <1>2 DEF Instr
  <2> QED
    BY <2>1 DEF Decodes, WideOps
<1>4. DoNop
  BY <1>3, NopOnly
<1>5. /\ status = "RUNNING" /\ ip' = ip + 1 /\ Goto(ip + 1)
      /\ UNCHANGED <<chunk, frames, fp, base, status, exitCode, stack, globals, prng, out>>
  BY <1>3, <1>4 DEF DoNop, Dispatch, Advance, Goto, Slots, WideOps
<1>6. CASE ip = p /\ i.op = "SYSCALL"
  BY <1>5, <1>6, HalfwayTwins
<1>7. CASE ~ (ip = p /\ i.op = "SYSCALL")
  <2>1. ip + 1 = p + Slots(i.op)
    BY <1>1, <1>2, <1>7 DEF Slots, WideOps, WriteOps
  <2>2. FallsThrough(old, p) /\ i.op \notin {"TAILCALL", "RET"}
    BY <1>1 DEF FallsThrough, WriteOps, Ops, Terminators, SyscallOps
  <2>3. Computed(old) \in Word
    BY <1>3, DroppedValue
  <2> DEFINE j == new.code[p]
             v == 0
  <2>4. /\ i.op \in WriteOps \ {"CALL", "TAILCALL"}
        /\ j.op \notin WriteOps /\ j.op # "MOVE"
        /\ stack' = IF j.op \in WriteOps THEN [stack EXCEPT ![base + j.a] = v] ELSE stack
    BY <1>1, <1>5, <2>2 DEF WriteOps
  <2>5. /\ shadow' = [shadow EXCEPT ![base + Twin(old)!Instr.a] = Computed(old)]
        /\ ip' \in here /\ Twinned(old, new, same, here, valued)'
    <3>1. i = old.code[OldAt(old)] /\ j = new.code[OldAt(old)]
      OBVIOUS
    <3>2. FallsThrough(old, OldAt(old)) /\ ip' = OldAt(old) + Slots(i.op)
      BY <1>5, <2>1, <2>2
    <3>3. /\ j.op \in WriteOps => v = Computed(old)
          /\ j.op = "MOVE" => i.op = "MOVE" /\ v = stack[base + j.b]
          /\ status = "RUNNING" /\ status' = "RUNNING"
          /\ UNCHANGED <<chunk, base, fp, frames>>
      BY <1>5, <2>4
    <3> HIDE DEF i, j, v, p
    <3> QED
      BY <2>3, <2>4, <3>1, <3>2, <3>3, WriteTwins
  <2>6. Twin(old)!Goto(p + Slots(i.op))
    <3> DEFINE q == p + Slots(i.op)
    <3>1. q \in here /\ Goto(q)
      BY <1>5, <2>1, <2>5
    <3> HIDE DEF q
    <3>2. Twin(old)!Goto(q)
      BY <1>5, <3>1, TwinGoto
    <3> QED
      BY <3>2 DEF q
  <2>7. Twin(old)!Handler
    BY <1>1, <1>3, <1>5, <2>5, <2>6, OldAlone
  <2> QED
    BY <2>5, <2>7
<1> QED
  BY <1>6, <1>7

(* A step of the new machine is a step of the old one or none.             *)
LEMMA StepTwins ==
  ASSUME NEW old, NEW new, NEW same, NEW here, NEW valued,
         Rewritten(old, new, same, here, valued), Twinned(old, new, same, here, valued),
         Run \/ Handler, Shadowed(old)
  PROVE  [Twin(old)!Next]_(Twin(old)!vars) /\ Twinned(old, new, same, here, valued)'
<1>1. Windows'
  <2>1. [Next]_vars /\ Windows
    BY DEF Next, Twinned
  <2> QED
    BY <2>1, NextType, NextFrames, NextSliding DEF Windows
<1>2. CASE Run
  <2>1. old.size > 0 /\ new.size = old.size /\ old.size # 0
    BY NewSides DEF Rewritten, Agrees, IsChunk, IsCode
  <2>2. /\ status = "LOADED" /\ status' = "RUNNING"
        /\ UNCHANGED <<chunk, ip, base, stack, frames, fp, globals, exitCode, prng, out>>
    BY <1>2, <2>1 DEF Run, Twinned
  <2>3. shadow' = shadow
    BY <2>2 DEF Shadowed
  <2>4. OldFrames(old)' = OldFrames(old) /\ OldAt(old)' = OldAt(old)
    BY <2>2, OldFramesStill DEF OldAt
  <2>5. Twin(old)!Run
    BY <2>1, <2>2, <2>3, <2>4 DEF Twin!Run
  <2>6. Twinned(old, new, same, here, valued)'
    BY <1>1, <2>2, <2>3, StillTwinned
  <2> QED
    BY <2>5, <2>6 DEF Twin!Next
<1>3. Twin(old)!Handler => Twin(old)!Next
  BY DEF Twin!Next
<1>4. CASE Handler /\ Dropped(old, new, OldAt(old))
  BY <1>1, <1>3, <1>4, DroppedTwins
<1>5. CASE Handler /\ ~ Dropped(old, new, OldAt(old))
  <2>1. ip = OldAt(old) /\ SameWork(old, new, same, ip)
    BY <1>5, TwinStands DEF Twinned, InStep
  <2>2. ~ WildFetch
    BY <2>1, Alongside DEF WildFetch
  <2>3. CASE DoNop \/ DoHalt \/ DoJump \/ DoJumpIf \/ DoJumpCmp \/ DoJumpCmpImm
    BY <1>1, <1>3, <2>1, <2>3, ControlTwins
  <2>4. CASE \/ DoMove \/ DoLoadImm \/ DoLoadPool \/ DoLoadGlobal \/ DoStoreGlobal
             \/ DoUnary \/ DoAlu \/ DoDivideByZero
    BY <1>1, <1>3, <2>1, <2>4, DataTwins
  <2>5. CASE DoCall
    BY <1>1, <1>3, <2>1, <2>5, CallTwins
  <2>6. CASE DoTailCall
    BY <1>1, <1>3, <2>1, <2>6, TailCallTwins
  <2>7. CASE DoRet \/ DoRetVoid
    BY <1>1, <1>3, <2>1, <2>7, ReturnTwins
  <2>8. CASE DoCallOverflow \/ DoArgsOverflow \/ FrameUnderflow
    BY <1>1, <1>3, <2>1, <2>8, OverflowTwins
  <2>9. CASE Syscalls \/ WildSyscall
    BY <1>1, <1>3, <2>1, <2>9, SyscallTwins
  <2> QED
    BY <1>5, <2>2, <2>3, <2>4, <2>5, <2>6, <2>7, <2>8, <2>9 DEF Handler
<1> QED
  BY <1>2, <1>4, <1>5

(* Code that has lost results nobody needs, that reads a register which    *)
(* holds the same, or that calls without wanting the answer, runs as the   *)
(* code it was made from: every run of the new one is, step by step, a run *)
(* of the old one with the same globals, output, random numbers, status    *)
(* and calls, and the registers hold the same wherever same says so        *)
(* (AcuVM_Run on the output of EliminateDeadStores).  shadow only records  *)
(* the registers of the old run.                                           *)
THEOREM AgreeingRuns ==
  ASSUME NEW old, NEW new, NEW same, NEW here, NEW valued, Rewritten(old, new, same, here, valued)
  PROVE  Recorded(old, new) => Twin(old)!Spec
<1>1. ASSUME Init, chunk = new, shadow = stack
      PROVE  Twinned(old, new, same, here, valued) /\ Twin(old)!Init
  <2>1. /\ ip = 0 /\ fp = 0 /\ base = 0 /\ 0 \in here /\ new.slots = old.slots /\ old.code[0].op # "WORD"
        /\ frames = [f \in FrameIdx |-> [return_ip |-> 0, register_base |-> 0, return_reg |-> 0]]
    BY <1>1, NewSides DEF Init, Rewritten, Agrees, Fetches
  <2>2. OldAt(old) = 0
    BY <2>1 DEF OldAt
  <2>3. OldFrames(old) = [f \in FrameIdx |-> [return_ip |-> 0, register_base |-> 0, return_reg |-> 0]]
    BY <2>1 DEF OldFrames, CallOf
  <2>4. Windows
    <3>1. FramesMatchCalls
      BY <2>1 DEF FramesMatchCalls
    <3>2. Sliding
      BY <2>1 DEF Sliding, BaseOf
    <3> QED
      BY <1>1, <3>1, <3>2, InitType DEF Windows
  <2>5. Twinned(old, new, same, here, valued)
    <3>1. \A x, y : <<0, x, y>> \in same => shadow[base + x] = stack[base + y]
      <4> SUFFICES ASSUME NEW x, NEW y, <<0, x, y>> \in same
                   PROVE  shadow[base + x] = stack[base + y]
        OBVIOUS
      <4>1. base + x \in Slot /\ base + y \in Slot
        BY <2>4, RegisterValue DEF Rewritten, Windows
      <4> QED
        BY <1>1, <4>1 DEF Init
    <3>2. shadow \in [Slot -> Word]
      BY <1>1, <2>4 DEF Windows, TypeOK
    <3> QED
      BY <1>1, <2>1, <2>2, <2>4, <3>1, <3>2 DEF Twinned, InStep
  <2>6. Twin(old)!Init
    BY <1>1, <2>1, <2>2, <2>3, TwinTables DEF Init, Twin!Init
  <2> QED
    BY <2>5, <2>6
<1>2. ASSUME Twinned(old, new, same, here, valued), [(Run \/ Handler) /\ Shadowed(old)]_<<vars, shadow>>
      PROVE  [Twin(old)!Next]_(Twin(old)!vars) /\ Twinned(old, new, same, here, valued)'
  <2>1. CASE UNCHANGED <<vars, shadow>>
    <3>1. UNCHANGED <<chunk, ip, base, stack, frames, fp, globals, status, exitCode, prng, out>> /\ shadow' = shadow
      BY <2>1 DEF vars
    <3>2. Windows'
      <4>1. [Next]_vars /\ Windows
        BY <1>2, <2>1 DEF Twinned
      <4> QED
        BY <4>1, NextType, NextFrames, NextSliding DEF Windows
    <3>3. Twinned(old, new, same, here, valued)'
      BY <1>2, <3>1, <3>2, StillTwinned
    <3>4. OldFrames(old)' = OldFrames(old) /\ OldAt(old)' = OldAt(old)
      BY <3>1, OldFramesStill DEF OldAt
    <3> QED
      BY <3>1, <3>3, <3>4 DEF Twin!vars
  <2> QED
    BY <1>2, <2>1, StepTwins
<1> QED
  BY <1>1, <1>2, PTL DEF Recorded, Twin!Spec
-----------------------------------------------------------------------------
(* The passes of the optimizer.  Of AcuOptimizer_proofs only what is said  *)
(* of its operators is used, whatever its variables are.                   *)

NeverShifts(c) == FALSE

Opt == INSTANCE AcuOptimizer_proofs
         WITH Programs <- Chunks, ShortMax <- 0, LongMax <- 0, MaxIterations <- 0, NoShift <- NeverShifts,
              work <- chunk, targets <- {}, phase <- "collect", pos <- ip, changed <- FALSE, iter <- fp

(* Both modules have the same instruction set.                             *)
LEMMA OptTables ==
  /\ Opt!WideOps = WideOps /\ Opt!SyscallOps = SyscallOps /\ Opt!BytecodeCalls = BytecodeCalls
  /\ Opt!CondJumps = CondJumps /\ Opt!Jumps = Jumps /\ Opt!WriteOps = WriteOps
  /\ Opt!Terminators = Terminators /\ Opt!Ops = Ops /\ Opt!SyscallIds = SyscallIds /\ Opt!Words = Words
  /\ Opt!Voided = Voided /\ Opt!Nop = Nop
  /\ \A op : Opt!Slots(op) = Slots(op)
  /\ \A i : Opt!Reads(i) = Reads(i) /\ Opt!Writes(i) = Writes(i) /\ Opt!JumpOffset(i) = JumpOffset(i)
  /\ \A p, i : Opt!JumpTarget(p, i) = JumpTarget(p, i)
  /\ \A ch, p : (Opt!FallsThrough(ch, p) <=> FallsThrough(ch, p)) /\ (Opt!Fetches(ch, p) <=> Fetches(ch, p))
<1>1. /\ Opt!WideOps = WideOps /\ Opt!SyscallOps = SyscallOps /\ Opt!BytecodeCalls = BytecodeCalls
      /\ Opt!CondJumps = CondJumps /\ Opt!WriteOps = WriteOps /\ Opt!Terminators = Terminators /\ Opt!Ops = Ops
      /\ Opt!SyscallIds = SyscallIds /\ Opt!Voided = Voided
  BY DEF Opt!WideOps, WideOps, Opt!SyscallOps, SyscallOps, Opt!BytecodeCalls, BytecodeCalls, Opt!CondJumps, CondJumps,
         Opt!WriteOps, WriteOps, Opt!Terminators, Terminators, Opt!Ops, Ops, Opt!SyscallIds, SyscallIds,
         Opt!Voided, Voided
<1>2. Opt!Jumps = Jumps
  BY <1>1 DEF Opt!Jumps, Jumps
<1>3. Opt!Fns = Fns
  BY DEF Opt!Fns, Fns, Opt!ImmFns, ImmFns, Opt!AluFns, AluFns, Opt!CmpFns, CmpFns, Opt!UnaryFns, UnaryFns
<1>4. Opt!Words = Words
  BY <1>1, <1>3 DEF Opt!Words, Words
<1>5. Opt!Nop = Nop
  BY DEF Opt!Nop, Nop, Opt!Inst, Inst
<1>6. \A op : Opt!Slots(op) = Slots(op)
  BY <1>1 DEF Opt!Slots, Slots
<1>7. \A i : Opt!Reads(i) = Reads(i)
  BY <1>1 DEF Opt!Reads, Reads
<1>8. \A i : Opt!Writes(i) = Writes(i) /\ Opt!JumpOffset(i) = JumpOffset(i)
  BY <1>1 DEF Opt!Writes, Writes, Opt!JumpOffset, JumpOffset
<1>9. \A p, i : Opt!JumpTarget(p, i) = JumpTarget(p, i)
  BY <1>8 DEF Opt!JumpTarget, JumpTarget
<1>10. \A ch, p : Opt!FallsThrough(ch, p) <=> FallsThrough(ch, p)
  BY <1>1 DEF Opt!FallsThrough, FallsThrough
<1>11. \A ch, p : Opt!Fetches(ch, p) <=> Fetches(ch, p)
  BY <1>1 DEF Opt!Fetches, Fetches
<1> QED
  BY <1>1, <1>2, <1>4, <1>5, <1>6, <1>7, <1>8, <1>9, <1>10, <1>11

LEMMA OptAgrees ==
  ASSUME NEW old, NEW new, NEW same, NEW here, Opt!Agrees(old, new, same, here)
  PROVE  Agrees(old, new, same, here)
<1>1. \A p : Opt!SameWork(old, new, same, p) <=> SameWork(old, new, same, p)
  BY OptTables DEF Opt!SameWork, SameWork
<1>2. \A p : Opt!Dropped(old, new, p) <=> Dropped(old, new, p)
  BY OptTables DEF Opt!Dropped, Dropped
<1>3. \A p, x, y : /\ Opt!Carried(old, new, same, p, x, y) <=> Carried(old, new, same, p, x, y)
                   /\ Opt!CarriedOver(old, new, same, p, x, y) <=> CarriedOver(old, new, same, p, x, y)
  BY OptTables DEF Opt!Carried, Carried, Opt!CarriedOver, CarriedOver
<1>4. \A p, x, y : /\ Opt!CarriedIn(old, same, p, x, y) <=> CarriedIn(old, same, p, x, y)
                   /\ Opt!CarriedDown(old, same, p, x, y) <=> CarriedDown(old, same, p, x, y)
  BY DEF Opt!CarriedIn, CarriedIn, Opt!CarriedDown, CarriedDown
<1>5. ASSUME NEW p, Opt!LeadsAlike(old, new, same, here, p) PROVE LeadsAlike(old, new, same, here, p)
  BY <1>3, <1>4, <1>5, OptTables DEF Opt!LeadsAlike, LeadsAlike
<1> QED
  BY <1>1, <1>2, <1>5, OptTables DEF Opt!Agrees, Agrees

LEMMA OptFollows ==
  ASSUME NEW old, NEW new, NEW at, NEW here, Opt!Follows(old, new, at, here)
  PROVE  Follows(old, new, at, here)
<1>1. \A i, j : Opt!SameButOffset(i, j) <=> SameButOffset(i, j)
  BY DEF Opt!SameButOffset, SameButOffset
<1>2. \A p : Opt!Moved(old, new, at, here, p) <=> Moved(old, new, at, here, p)
  BY <1>1, OptTables DEF Opt!Moved, Moved
<1>3. \A p : Opt!Idles(old, new, at, here, p) <=> Idles(old, new, at, here, p)
  BY OptTables DEF Opt!Idles, Idles
<1> QED
  BY <1>2, <1>3 DEF Opt!Follows, Follows

LEMMA OptWellFormed ==
  ASSUME NEW ch
  PROVE  /\ IsCode(ch) => Opt!IsCode(ch)
         /\ WellFormed(ch) => Opt!WellFormed(ch)
<1>1. IsCode(ch) => Opt!IsCode(ch)
  BY OptTables DEF Opt!IsCode, IsCode
<1>2. \A f, p : Opt!InstrOf(ch, f, p) <=> InstrOf(ch, f, p)
  BY OptTables DEF Opt!InstrOf, InstrOf
<1>3. \A p : Opt!WellFormedAt(ch, p) <=> WellFormedAt(ch, p)
  BY <1>2, OptTables DEF Opt!WellFormedAt, WellFormedAt
<1>4. WellFormed(ch) => Opt!WellFormed(ch)
  BY <1>2, <1>3, OptTables DEF Opt!WellFormed, WellFormed
<1> QED
  BY <1>1, <1>4

(* A chunk that has been through EliminateDeadCode, and through            *)
(* EliminateDeadStores after that.                                         *)
Cleared(ch) == Opt!DeadCode(ch, Opt!JumpTargets(ch))

Slimmed(ch) == Opt!DeadStores(Cleared(ch), Opt!JumpTargets(ch))

LEMMA ClearedIs ==
  ASSUME NEW ch, IsCode(ch), WellFormed(ch), ch.size > 0
  PROVE  /\ Opt!Sound(Cleared(ch)) /\ IsCode(Cleared(ch)) /\ Cleared(ch).size = ch.size
         /\ \A x \in DOMAIN ch \ {"code"} : Cleared(ch)[x] = ch[x]
         /\ \A p \in 0 .. ch.size - 1 : Cleared(ch).code[p] \in {Nop, ch.code[p]}
         /\ DOMAIN Cleared(ch) = DOMAIN ch
         /\ \E here : Follows(ch, Cleared(ch), Opt!Still(ch), here)
<1>1. Opt!Sound(ch)
  BY OptWellFormed, Opt!WellFormedIsSound
<1>2. Opt!Aimed(ch, Opt!JumpTargets(ch))
  BY <1>1, Opt!CollectedAim
<1>3. /\ Opt!Kept(ch, Cleared(ch), Opt!JumpTargets(ch))
      /\ \E here : Opt!Follows(ch, Cleared(ch), Opt!Still(ch), here)
  BY <1>1, <1>2, Opt!DeadCodeKeeps DEF Cleared
<1>4. Opt!Sound(Cleared(ch)) /\ Cleared(ch).size = ch.size
  BY <1>3 DEF Opt!Kept
<1>5. /\ \A x \in DOMAIN ch \ {"code"} : Cleared(ch)[x] = ch[x]
      /\ DOMAIN Cleared(ch) = DOMAIN ch
      /\ \A p \in 0 .. ch.size - 1 : Cleared(ch).code[p] \in {Nop, ch.code[p]}
  <2>1. ch.code \in [0 .. ch.size - 1 -> Words] /\ "code" \in DOMAIN ch
    BY DEF IsCode
  <2> QED
    BY <2>1, OptTables DEF Cleared, Opt!DeadCode
<1>6. IsCode(Cleared(ch))
  BY <1>4, OptTables DEF Opt!Sound, Opt!IsCode, IsCode
<1>7. \E here : Follows(ch, Cleared(ch), Opt!Still(ch), here)
  BY <1>3, OptFollows
<1> QED
  BY <1>4, <1>5, <1>6, <1>7

LEMMA ClearedIsChunk ==
  ASSUME NEW ch, IsChunk(ch), HasPools(ch), WellFormed(ch), ch.size > 0
  PROVE  IsChunk(Cleared(ch)) /\ HasPools(Cleared(ch))
<1>1. /\ IsCode(Cleared(ch)) /\ Cleared(ch).size = ch.size /\ DOMAIN Cleared(ch) = DOMAIN ch
      /\ \A p \in 0 .. ch.size - 1 : Cleared(ch).code[p] \in {Nop, ch.code[p]}
      /\ Cleared(ch).slots = ch.slots /\ Cleared(ch).consts = ch.consts /\ Cleared(ch).strs = ch.strs
  BY ClearedIs DEF IsChunk, HasPools
<1>2. FieldsOK(Cleared(ch), Nop)
  BY DEF FieldsOK, Nop, Inst, Reads, WriteOps, WideOps
<1>3. ASSUME NEW p \in 0 .. ch.size - 1 PROVE FieldsOK(Cleared(ch), Cleared(ch).code[p])
  <2>1. FieldsOK(ch, ch.code[p])
    BY DEF IsChunk
  <2>2. FieldsOK(Cleared(ch), ch.code[p])
    BY <1>1, <2>1 DEF FieldsOK
  <2> QED
    BY <1>1, <1>2, <2>2
<1> QED
  BY <1>1, <1>3 DEF IsChunk, HasPools

(* A well-formed chunk runs the same when what control does not come to    *)
(* has been taken out of it (AcuVM_Run on what EliminateDeadCode leaves).  *)
THEOREM ClearedRuns ==
  ASSUME NEW ch, IsCode(ch), HasPools(ch), WellFormed(ch), ch.size > 0
  PROVE  Process /\ chunk = ch => Machine(Cleared(ch), Opt!Still(ch))!Spec
<1>1. PICK here : Follows(ch, Cleared(ch), Opt!Still(ch), here)
  BY ClearedIs
<1> QED
  BY <1>1, RelocatedRuns

(* Whatever the rules of an iteration have left, it runs the same when the *)
(* NOPs have been squeezed out (AcuVM_Run on what StripNopsAndRelocate     *)
(* leaves).                                                                *)
THEOREM StrippedRuns ==
  ASSUME NEW ch, Opt!Sound(ch), HasPools(ch)
  PROVE  Process /\ chunk = ch => Machine(Opt!StripNops(ch), Opt!Places(ch))!Spec
<1>1. Follows(ch, Opt!StripNops(ch), Opt!Places(ch), Opt!Reached(ch))
  BY Opt!StripIs, OptFollows
<1> QED
  BY <1>1, RelocatedRuns

(* What the optimizer may drop never traps: CanDCE excludes the divisors   *)
(* that do.                                                                *)
PureIsTotal(ch) ==
  \A p \in 0 .. ch.size - 1 :
    LET i == ch.code[p]
    IN  Opt!CanDCE(i) => /\ i.op = "ALU" => \A y \in Word : ~ Traps(i.fn, y)
                         /\ i.op = "ALU_IMM" => ~ Traps(i.fn, Imm(i.fn, i.c))

LEMMA OptDisciplined ==
  ASSUME NEW ch, NEW live, NEW valued, Disciplined(ch, Regs, live, valued)
  PROVE  Opt!Disciplined(ch, Opt!Registers, live, valued)
<1>1. Opt!Registers = Regs
  BY DEF Opt!Registers, Regs
<1>2. \A p : Opt!WaysOn(ch, p) = WaysOn(ch, p)
  BY OptTables DEF Opt!WaysOn, WaysOn
<1>3. CoversReads(ch, live) => Opt!CoversReads(ch, live)
  BY <1>2, OptTables DEF Opt!CoversReads, CoversReads
<1>4. KeepsWindows(ch, live) => Opt!KeepsWindows(ch, live)
  BY OptTables DEF Opt!KeepsWindows, KeepsWindows
<1>5. \A here : Answers(ch, here, valued) => Opt!Answers(ch, here, valued)
  BY OptTables DEF Opt!Answers, Answers
<1> QED
  BY <1>1, <1>3, <1>4, <1>5 DEF Opt!Disciplined, Disciplined

LEMMA SlimmedRelies ==
  ASSUME NEW ch, IsChunk(ch), WellFormed(ch), ch.size > 0, PureIsTotal(ch),
         NEW live, NEW valued, Disciplined(ch, Regs, live, valued)
  PROVE  /\ Opt!TidyCalls(Slimmed(ch))
         /\ \E answers : Answers(Cleared(ch), Opt!Reached(Cleared(ch)), answers)
         /\ \A p \in Opt!Reached(Cleared(ch)) :
              Cleared(ch).code[p].op \in WriteOps /\ Opt!IsInstructionPure(Cleared(ch), p) => Harmless(Cleared(ch), p)
<1> DEFINE old == Cleared(ch)
<1>1. Opt!IsCode(ch) /\ Opt!WellFormed(ch)
  BY OptWellFormed DEF IsChunk
<1>2. Opt!Disciplined(ch, Opt!Registers, live, valued)
  BY OptDisciplined
<1>3. /\ Opt!TidyCalls(Slimmed(ch))
      /\ \E answers : Opt!Answers(old, Opt!Reached(old), answers)
      /\ \A p \in Opt!Ins(old) : /\ p \in 0 .. ch.size - 1 /\ old.code[p] = ch.code[p]
                                 /\ Opt!Reads(old.code[p]) \subseteq Opt!Registers
  BY <1>1, <1>2, Opt!DisciplinedIsTidy DEF Slimmed, Cleared
<1>4. Opt!IsCode(old)
  BY ClearedIs, OptWellFormed DEF IsChunk
<1> HIDE DEF old
<1>5. \E answers : Answers(old, Opt!Reached(old), answers)
  <2>1. \A here, answers : Opt!Answers(old, here, answers) => Answers(old, here, answers)
    BY OptTables DEF Opt!Answers, Answers
  <2> QED
    BY <1>3, <2>1
<1>6. ASSUME NEW p \in Opt!Reached(old), old.code[p].op \in WriteOps, Opt!IsInstructionPure(old, p)
      PROVE  Harmless(old, p)
  <2> DEFINE i == ch.code[p]
  <2>1. p \in Opt!Ins(old)
    BY <1>4, <1>6, Opt!ReachedIs DEF WriteOps
  <2>2. p \in 0 .. ch.size - 1 /\ old.code[p] = i /\ Reads(i) \subseteq Regs /\ FieldsOK(ch, i) /\ i \in Words
    BY <1>3, <2>1, OptTables DEF IsChunk, IsCode, Opt!Registers, Regs
  <2>3. i.op \in {"ALU", "ALU_IMM"} => Opt!CanDCE(i)
    BY <1>6, <2>2, OptTables DEF Opt!IsInstructionPure, SyscallOps
  <2>4. i.op = "SYSCALL" => i.b + i.c <= RegWindow
    <3> SUFFICES ASSUME i.op = "SYSCALL" PROVE i.b + i.c <= RegWindow
      OBVIOUS
    <3>1. i.b \in Regs /\ i.c \in Regs /\ RegWindow \in Nat
      BY <2>2, SizesAssumption DEF FieldsOK, WideOps
    <3>2. Reads(i) = i.b .. (i.b + i.c - 1)
      BY DEF Reads, WideOps
    <3> HIDE DEF i
    <3>3. CASE i.c = 0
      BY <3>1, <3>3 DEF Regs
    <3>4. CASE i.c > 0
      <4>1. i.b + i.c - 1 \in Reads(i)
        BY <3>1, <3>2, <3>4 DEF Regs
      <4> QED
        BY <2>2, <3>1, <4>1 DEF Regs
    <3> QED
      BY <3>1, <3>3, <3>4 DEF Regs
  <2> QED
    BY <2>2, <2>3, <2>4 DEF PureIsTotal, Harmless
<1> QED
  BY <1>3, <1>5, <1>6 DEF old

LEMMA SlimmedIsRewritten ==
  ASSUME NEW ch, IsChunk(ch), HasPools(ch), WellFormed(ch), ch.size > 0, Slimmed(ch) \in Chunks, PureIsTotal(ch),
         NEW live, NEW valued, Disciplined(ch, Regs, live, valued), Opt!KeepsRandom(Cleared(ch), Slimmed(ch))
  PROVE  \E same, here, answers : Rewritten(Cleared(ch), Slimmed(ch), same, here, answers)
<1> DEFINE old  == Cleared(ch)
           new  == Slimmed(ch)
           same == Opt!StillWanted(new)
           here == Opt!Reached(old)
<1>1. /\ Opt!Sound(old) /\ old.size > 0 /\ IsChunk(old) /\ HasPools(old)
      /\ new = Opt!DeadStores(old, Opt!JumpTargets(ch)) /\ new \in Chunks
  BY ClearedIs, ClearedIsChunk DEF IsChunk, Slimmed
<1>2. /\ Opt!TidyCalls(new) /\ Opt!KeepsRandom(old, new)
      /\ \E answers : Answers(old, here, answers)
      /\ \A p \in here : old.code[p].op \in WriteOps /\ Opt!IsInstructionPure(old, p) => Harmless(old, p)
  BY SlimmedRelies
<1> HIDE DEF old, new
<1>3. \A p \in here : /\ Opt!Fetches(old, p)
                      /\ Opt!SameWork(old, new, same, p) \/ Opt!Dropped(old, new, p)
                      /\ Opt!LeadsAlike(old, new, same, here, p)
                      /\ Opt!Dropped(old, new, p) => Opt!IsInstructionPure(old, p)
  BY <1>1, <1>2, Opt!StoresAgreeAt
<1>4. 0 \in here
  BY <1>1, Opt!ReachedOn
<1>5. \A x \in DOMAIN old \ {"code", "fn"} : new[x] = old[x]
  BY <1>1, Opt!StoresAre
<1>6. \A p, x, y : <<p, x, y>> \in same => x \in Regs /\ y \in Regs
  BY Opt!StillWantedIs DEF Opt!Registers, Regs
<1>7. \A p \in here : Dropped(old, new, p) => Harmless(old, p)
  <2>1. \A p : Opt!Dropped(old, new, p) <=> Dropped(old, new, p)
    BY OptTables DEF Opt!Dropped, Dropped
  <2> QED
    BY <1>2, <1>3, <2>1 DEF Dropped
<1> HIDE DEF same, here
<1>8. Agrees(old, new, same, here)
  BY <1>1, <1>3, <1>4, <1>5, OptAgrees DEF Opt!Agrees
<1>9. \E answers : Rewritten(old, new, same, here, answers)
  BY <1>1, <1>2, <1>6, <1>7, <1>8 DEF Rewritten
<1> QED
  BY <1>9 DEF old, new

(* A well-formed chunk that has been through EliminateDeadStores runs as   *)
(* it ran before, at every size of the stacks: what it no longer computes  *)
(* nobody misses (AcuVM_Run on what EliminateDeadStores leaves of what     *)
(* EliminateDeadCode has given it).  The chunk uses registers as the code  *)
(* generator lays them out, and no random number is left undrawn.          *)
THEOREM SlimmedRuns ==
  ASSUME NEW ch, IsChunk(ch), HasPools(ch), WellFormed(ch), ch.size > 0, Slimmed(ch) \in Chunks, PureIsTotal(ch),
         NEW live, NEW valued, Disciplined(ch, Regs, live, valued), Opt!KeepsRandom(Cleared(ch), Slimmed(ch))
  PROVE  Recorded(Cleared(ch), Slimmed(ch)) => Twin(Cleared(ch))!Spec
<1>1. PICK same, here, answers : Rewritten(Cleared(ch), Slimmed(ch), same, here, answers)
  BY SlimmedIsRewritten
<1> QED
  BY <1>1, AgreeingRuns
=============================================================================
