------------------------------- MODULE AcuVM -------------------------------
(***************************************************************************)
(* The register virtual machine of src/vm/vm.c: AcuVM_Init, AcuVM_Load and  *)
(* the dispatch loop of AcuVM_Run, one action per handler.                 *)
(*                                                                         *)
(* All calls share one value stack.  A function sees a window of RegWindow *)
(* registers starting at base; CALL slides the window up to the callee's   *)
(* arguments and pushes a frame, RET pops the frame and slides it back.    *)
(* Windows overlap, so nothing but the discipline of CALL and RET keeps    *)
(* the registers of a caller safe.                                         *)
(*                                                                         *)
(* A chunk is a record                                                     *)
(*   code    the words, a function on 0..size-1                            *)
(*   size    the number of words                                           *)
(*   consts  the constant pool, strs the string pool                       *)
(*   slots   the number of global variables                                *)
(*   fn      for each word, the function it was emitted for (0 is the      *)
(*           module-level code that AcuVM_Run starts in); the VM never     *)
(*           reads it, the properties do                                   *)
(***************************************************************************)
EXTENDS AcuBytecode, Sequences

CONSTANTS
  Chunks,         (* the chunks that may be loaded                         *)
  Reloads,        (* those a host may load after a run has ended           *)
  Word,           (* the values of a register                              *)
  RegWindow,      (* ACU_REG_WINDOW: registers addressable by a function   *)
  StackCapacity,  (* ACU_VM_DEFAULT_STACK_CAPACITY                         *)
  FrameCapacity,  (* ACU_VM_DEFAULT_FRAME_CAPACITY                         *)
  MaxOut,         (* bound on the number of values a run prints            *)
  Alu(_, _, _),   (* result of a two-operand or (second operand ignored)   *)
                  (*   one-operand operation                               *)
  Traps(_, _),    (* whether an operation divides by its zero operand      *)
  Imm(_, _),      (* the operand an operation makes of its immediate       *)
  Cmp(_, _, _),   (* the comparisons of the fused jumps                    *)
  JumpImm(_, _),  (* the operand a fused jump makes of its immediate       *)
  NextRandom(_)   (* the generator behind randomU64                        *)

Regs == 0 .. RegWindow - 1
Slot == 0 .. StackCapacity - 1
FrameIdx == 0 .. FrameCapacity - 1

(* return_reg of a frame whose caller wants no value                       *)
ACU_FRAME_NO_RET == -1

(* The operand fields an instruction uses have the widths of the encoding, *)
(* and its pool and slot indices are those of its chunk.                   *)
FieldsOK(ch, i) ==
  /\ i.op \in WriteOps => i.a \in Regs
  /\ Reads(i) # {} /\ i.op \notin WideOps => Reads(i) \subseteq Regs
  /\ i.op \in WideOps => i.b \in Regs /\ i.c \in Regs
  /\ i.op \in {"UNARY", "ALU", "ALU_IMM"} => i.fn \in Fns
  /\ i.op \in {"LOAD_IMM", "ALU_IMM"} => Imm(i.fn, IF i.op = "ALU_IMM" THEN i.c ELSE i.b) \in Word
  /\ i.op = "JUMP_CMP_IMM" => JumpImm(i.fn, i.b) \in Word
  /\ i.op = "LOAD_CONST" => i.b \in DOMAIN ch.consts
  /\ i.op = "LOAD_STR" => i.b \in DOMAIN ch.strs
  /\ i.op \in {"LOAD_GLOBAL", "STORE_GLOBAL"} => i.b \in 0 .. ch.slots - 1

IsChunk(ch) ==
  /\ IsCode(ch)
  /\ ch.slots \in Nat
  /\ ch.consts \in Seq(Word) /\ ch.strs \in Seq(Word)
  /\ \A p \in 0 .. ch.size - 1 : FieldsOK(ch, ch.code[p])

ASSUME SizesAssumption ==
  /\ RegWindow \in Nat \ {0}
  /\ StackCapacity \in Nat /\ StackCapacity >= RegWindow
  /\ FrameCapacity \in Nat
  /\ MaxOut \in Nat

ASSUME WordAssumption ==
  /\ 0 \in Word
  /\ \A f \in Fns, x \in Word, y \in Word : Alu(f, x, y) \in Word
  /\ \A x \in Word : NextRandom(x) \in Word

ASSUME ChunksAssumption ==
  /\ Reloads \subseteq Chunks
  /\ \A ch \in Chunks : IsChunk(ch)

VARIABLES
  chunk,     (* vm->chunk                                                  *)
  ip,        (* instruction pointer, as a word index                       *)
  base,      (* regs - stack_base                                          *)
  stack,     (* vm->stack                                                  *)
  frames,    (* vm->frames                                                 *)
  fp,        (* frame - frames_base: the number of frames pushed           *)
  globals,   (* vm->globals                                                *)
  status,    (* vm->last_status; RUNNING while AcuVM_Run loops             *)
  exitCode,  (* vm->exit_code                                              *)
  prng,      (* g_prng_state                                               *)
  out        (* the values printed since the chunk was loaded              *)

vars == <<chunk, ip, base, stack, frames, fp, globals, status, exitCode,
          prng, out>>

Frame == [return_ip : Nat, register_base : Nat,
          return_reg : Regs \union {ACU_FRAME_NO_RET}]

Errors == {"PANIC", "UNHANDLED_OPCODE", "STACK_OVERFLOW",
           "CALL_STACK_OVERFLOW", "DIVISION_BY_ZERO", "INVALID_SYSCALL", "IO"}

(* UNDEFINED: the C code has left its arrays.  EXITED: the process is gone.*)
Statuses == Errors \union {"LOADED", "RUNNING", "HALT", "EXITED", "UNDEFINED"}
-----------------------------------------------------------------------------
Init ==
  /\ chunk \in Chunks
  /\ ip = 0 /\ base = 0 /\ fp = 0
  /\ stack = [s \in Slot |-> 0]
  /\ frames = [f \in FrameIdx |-> [return_ip |-> 0, register_base |-> 0, return_reg |-> 0]]
  /\ globals = [g \in 0 .. chunk.slots - 1 |-> 0]
  /\ status = "LOADED" /\ exitCode = 0
  /\ prng = 0
  /\ out = <<>>

(* AcuVM_Load: once a run has ended, another chunk may be loaded.  Frames  *)
(* keep their stale contents; stack and globals are cleared.               *)
Load(ch) ==
  /\ status \in Errors \union {"HALT"}
  /\ chunk' = ch
  /\ ip' = 0 /\ base' = 0 /\ fp' = 0
  /\ stack' = [s \in Slot |-> 0]
  /\ globals' = [g \in 0 .. ch.slots - 1 |-> 0]
  /\ status' = "LOADED" /\ exitCode' = 0
  /\ out' = <<>>
  /\ UNCHANGED <<frames, prng>>

(* The head of AcuVM_Run: an empty chunk is refused.                       *)
Run ==
  /\ status = "LOADED"
  /\ status' = IF chunk.size = 0 THEN "UNHANDLED_OPCODE" ELSE "RUNNING"
  /\ UNCHANGED <<chunk, ip, base, stack, frames, fp, globals, exitCode, prng, out>>
-----------------------------------------------------------------------------
(* DISPATCH and the ways a handler ends.                                   *)

Instr == chunk.code[ip]

R(r) == stack[base + r]

(* The word at ip holds a whole instruction.                               *)
Decodes ==
  /\ ip \in 0 .. chunk.size - 1
  /\ Instr.op # "WORD"
  /\ Instr.op \in WideOps => /\ ip + 1 \in 0 .. chunk.size - 1
                             /\ chunk.code[ip + 1].op = "WORD"

Dispatch(ops) == status = "RUNNING" /\ Decodes /\ Instr.op \in ops

Payload == chunk.code[ip + 1]

Stop(s) ==
  /\ status' = s
  /\ UNCHANGED <<chunk, ip, base, stack, frames, fp, globals, exitCode, prng, out>>

Goto(p) ==
  /\ ip' = p
  /\ UNCHANGED <<chunk, frames, fp, base, status, exitCode>>

Advance == Goto(ip + Slots(Instr.op))

(* An instruction that does nothing but write register A.                  *)
SetA(v) ==
  /\ stack' = [stack EXCEPT ![base + Instr.a] = v]
  /\ Advance
  /\ UNCHANGED <<globals, prng, out>>

JumpWhen(taken) ==
  /\ Goto(IF taken THEN JumpTarget(ip, Instr) ELSE ip + 1)
  /\ UNCHANGED <<stack, globals, prng, out>>
-----------------------------------------------------------------------------
(* Control flow                                                            *)

DoNop ==
  /\ Dispatch({"NOP"})
  /\ Advance
  /\ UNCHANGED <<stack, globals, prng, out>>

DoHalt ==
  /\ Dispatch({"HALT"})
  /\ exitCode' = R(0)
  /\ status' = "HALT"
  /\ UNCHANGED <<chunk, ip, base, stack, frames, fp, globals, prng, out>>

DoJump ==
  /\ Dispatch({"JUMP"})
  /\ JumpWhen(TRUE)

DoJumpIf ==
  /\ Dispatch({"JUMP_IF_TRUE", "JUMP_IF_FALSE"})
  /\ JumpWhen((R(Instr.a) # 0) = (Instr.op = "JUMP_IF_TRUE"))

DoJumpCmp ==
  /\ Dispatch({"JUMP_CMP"})
  /\ JumpWhen(Cmp(Instr.fn, R(Instr.a), R(Instr.b)))

DoJumpCmpImm ==
  /\ Dispatch({"JUMP_CMP_IMM"})
  /\ JumpWhen(Cmp(Instr.fn, R(Instr.a), JumpImm(Instr.fn, Instr.b)))
-----------------------------------------------------------------------------
(* Data                                                                    *)

DoMove ==
  /\ Dispatch({"MOVE"})
  /\ SetA(R(Instr.b))

DoLoadImm ==
  /\ Dispatch({"LOAD_IMM"})
  /\ SetA(Imm(Instr.fn, Instr.b))

DoLoadPool ==
  /\ Dispatch({"LOAD_CONST", "LOAD_STR"})
  /\ SetA(IF Instr.op = "LOAD_CONST" THEN chunk.consts[Instr.b] ELSE chunk.strs[Instr.b])

DoLoadGlobal ==
  /\ Dispatch({"LOAD_GLOBAL"})
  /\ SetA(globals[Instr.b])

DoStoreGlobal ==
  /\ Dispatch({"STORE_GLOBAL"})
  /\ globals' = [globals EXCEPT ![Instr.b] = R(Instr.a)]
  /\ Advance
  /\ UNCHANGED <<stack, prng, out>>

DoUnary ==
  /\ Dispatch({"UNARY"})
  /\ SetA(Alu(Instr.fn, R(Instr.b), 0))

(* The second operand of an arithmetic instruction.                        *)
Right == IF Instr.op = "ALU" THEN R(Instr.c) ELSE Imm(Instr.fn, Instr.c)

DoAlu ==
  /\ Dispatch({"ALU", "ALU_IMM"})
  /\ ~ Traps(Instr.fn, Right)
  /\ SetA(Alu(Instr.fn, R(Instr.b), Right))

DoDivideByZero ==
  /\ Dispatch({"ALU", "ALU_IMM"})
  /\ Traps(Instr.fn, Right)
  /\ Stop("DIVISION_BY_ZERO")
-----------------------------------------------------------------------------
(* Calls                                                                   *)

(* CALL and CALL_VOID check the window of the callee before the frame.     *)
WindowFits == base + Instr.b <= StackCapacity - RegWindow

(* Mutant: the frame returns to the payload word of the call.              *)
DoCallNarrow ==
  /\ Dispatch({"CALL", "CALL_VOID"})
  /\ WindowFits
  /\ fp < FrameCapacity
  /\ frames' = [frames EXCEPT ![fp] =
                  [return_ip     |-> ip + 1,
                   register_base |-> base,
                   return_reg    |-> IF Instr.op = "CALL" THEN Instr.a ELSE ACU_FRAME_NO_RET]]
  /\ fp' = fp + 1
  /\ base' = base + Instr.b
  /\ ip' = Payload.a
  /\ UNCHANGED <<chunk, stack, globals, status, exitCode, prng, out>>

DoCall ==
  /\ Dispatch({"CALL", "CALL_VOID"})
  /\ WindowFits
  /\ fp < FrameCapacity
  /\ frames' = [frames EXCEPT ![fp] =
                  [return_ip     |-> ip + 2,
                   register_base |-> base,
                   return_reg    |-> IF Instr.op = "CALL" THEN Instr.a ELSE ACU_FRAME_NO_RET]]
  /\ fp' = fp + 1
  /\ base' = base + Instr.b
  /\ ip' = Payload.a
  /\ UNCHANGED <<chunk, stack, globals, status, exitCode, prng, out>>

DoCallOverflow ==
  /\ Dispatch({"CALL", "CALL_VOID"})
  /\ ~ (WindowFits /\ fp < FrameCapacity)
  /\ Stop(IF WindowFits THEN "CALL_STACK_OVERFLOW" ELSE "STACK_OVERFLOW")

(* The arguments of TAILCALL and SYSCALL end inside the window.            *)
ArgsFit == Instr.b + Instr.c <= RegWindow

(* TAILCALL moves the arguments to the bottom of the window it stays in,   *)
(* beginning with the lowest, so that each is read before it is written.   *)
DoTailCall ==
  /\ Dispatch({"TAILCALL"})
  /\ ArgsFit
  /\ stack' = [s \in Slot |-> IF s - base \in 0 .. Instr.c - 1 THEN stack[s + Instr.b]
                                                              ELSE stack[s]]
  /\ Goto(Payload.a)
  /\ UNCHANGED <<globals, prng, out>>

DoArgsOverflow ==
  /\ Dispatch({"TAILCALL", "SYSCALL", "SYSCALL_VOID"})
  /\ ~ ArgsFit
  /\ Stop("STACK_OVERFLOW")

Caller == frames[fp - 1]

(* Mutant: the window stays.                                               *)
PopFrameKeepBase ==
  /\ fp' = fp - 1
  /\ ip' = Caller.return_ip
  /\ UNCHANGED <<chunk, frames, base, globals, status, exitCode, prng, out>>

PopFrame ==
  /\ fp' = fp - 1
  /\ ip' = Caller.return_ip
  /\ base' = Caller.register_base
  /\ UNCHANGED <<chunk, frames, globals, status, exitCode, prng, out>>

(* Mutant: the result goes to the callee's register number.                *)
DoRetToSource ==
  /\ Dispatch({"RET"})
  /\ fp > 0
  /\ PopFrame
  /\ stack' = IF Caller.return_reg >= 0
              THEN [stack EXCEPT ![Caller.register_base + Instr.a] = R(Instr.a)]
              ELSE stack

DoRet ==
  /\ Dispatch({"RET"})
  /\ fp > 0
  /\ PopFrame
  /\ stack' = IF Caller.return_reg >= 0
              THEN [stack EXCEPT ![Caller.register_base + Caller.return_reg] = R(Instr.a)]
              ELSE stack

DoRetVoid ==
  /\ Dispatch({"RET_VOID"})
  /\ fp > 0
  /\ PopFrame
  /\ UNCHANGED stack
-----------------------------------------------------------------------------
(* Syscalls.  The payload word selects the handler; args are the registers *)
(* from B.                                                                 *)

Syscall(ids) == /\ Dispatch(SyscallOps)
                /\ ArgsFit
                /\ Payload.fn \in ids

(* The register write and the advance that follow a handler returning OK.  *)
Answer(v) ==
  /\ stack' = IF Instr.op = "SYSCALL" THEN [stack EXCEPT ![base + Instr.a] = v] ELSE stack
  /\ Advance
  /\ UNCHANGED globals

SysPrint ==
  /\ Syscall({"print"})
  /\ Instr.c >= 1
  /\ Len(out) < MaxOut
  /\ out' = Append(out, R(Instr.b))
  /\ Answer(0)
  /\ UNCHANGED prng

SysPrintNoArgs ==
  /\ Syscall({"print"})
  /\ Instr.c < 1
  /\ Stop("INVALID_SYSCALL")

SysRead(v) ==
  /\ Syscall({"read"})
  /\ Answer(v)
  /\ UNCHANGED <<prng, out>>

SysReadFails ==
  /\ Syscall({"read"})
  /\ Stop("IO")

SysClock(v) ==
  /\ Syscall({"clock"})
  /\ Answer(v)
  /\ UNCHANGED <<prng, out>>

SysMath ==
  /\ Syscall({"math"})
  /\ Answer(Alu("NEG", R(Instr.b), 0))
  /\ UNCHANGED <<prng, out>>

SysRandom ==
  /\ Syscall({"random"})
  /\ prng' = NextRandom(prng)
  /\ Answer(NextRandom(prng))
  /\ UNCHANGED out

SysSeed ==
  /\ Syscall({"seed"})
  /\ prng' = R(Instr.b)
  /\ Answer(0)
  /\ UNCHANGED out

SysExit ==
  /\ Syscall({"exit"})
  /\ exitCode' = IF Instr.c > 0 THEN R(Instr.b) ELSE 0
  /\ status' = "EXITED"
  /\ UNCHANGED <<chunk, ip, base, stack, frames, fp, globals, prng, out>>

SysPanic ==
  /\ Syscall({"panic"})
  /\ Stop("PANIC")
-----------------------------------------------------------------------------
(* What the C code does once it leaves its arrays is undefined.            *)

(* The fetch leaves the code or decodes a payload word as an instruction.  *)
WildFetch ==
  /\ status = "RUNNING"
  /\ ~ Decodes
  /\ Stop("UNDEFINED")

(* g_acu_syscall_table is indexed without a check of the id.               *)
WildSyscall ==
  /\ Dispatch(SyscallOps)
  /\ ArgsFit
  /\ Payload.fn \notin SyscallIds
  /\ Stop("UNDEFINED")

(* RET and RET_VOID decrement frame without comparing it to frames_base.   *)
FrameUnderflow ==
  /\ Dispatch({"RET", "RET_VOID"})
  /\ fp = 0
  /\ Stop("UNDEFINED")
-----------------------------------------------------------------------------
Syscalls ==
  \/ SysPrint \/ SysPrintNoArgs \/ SysReadFails \/ SysMath \/ SysRandom
  \/ SysSeed \/ SysExit \/ SysPanic
  \/ \E v \in Word : SysRead(v) \/ SysClock(v)

Handler ==
  \/ DoNop \/ DoHalt \/ DoJump \/ DoJumpIf \/ DoJumpCmp \/ DoJumpCmpImm
  \/ DoMove \/ DoLoadImm \/ DoLoadPool \/ DoLoadGlobal \/ DoStoreGlobal
  \/ DoUnary \/ DoAlu \/ DoDivideByZero
  \/ DoCall \/ DoCallOverflow \/ DoTailCall \/ DoArgsOverflow
  \/ DoRet \/ DoRetVoid
  \/ Syscalls
  \/ WildFetch \/ WildSyscall \/ FrameUnderflow

Next == Run \/ Handler \/ \E ch \in Reloads : Load(ch)

(* AcuVM_Run loops without yielding until it returns, so while the VM runs *)
(* a handler runs; nothing obliges a host to load another chunk.           *)
Spec == Init /\ [][Next]_vars

FairSpec == Spec /\ WF_vars(Run \/ Handler)
-----------------------------------------------------------------------------
(* Properties                                                              *)

TypeOK ==
  /\ chunk \in Chunks
  /\ ip \in Int
  /\ base \in 0 .. StackCapacity - RegWindow
  /\ stack \in [Slot -> Word]
  /\ frames \in [FrameIdx -> [return_ip : Nat,
                             register_base : 0 .. StackCapacity - RegWindow,
                             return_reg : Regs \union {ACU_FRAME_NO_RET}]]
  /\ fp \in 0 .. FrameCapacity
  /\ globals \in [0 .. chunk.slots - 1 -> Word]
  /\ status \in Statuses
  /\ exitCode \in Word
  /\ prng \in Word
  /\ out \in Seq(Word)

(* The window that was active when frame f was pushed, or the active one   *)
(* when f is the number of frames.                                         *)
BaseOf(f) == IF f = fp THEN base ELSE frames[f].register_base

(* Whatever the code does, every frame on the stack remembers one CALL of  *)
(* the chunk: it returns to the word after that CALL, into the register    *)
(* the CALL names, and the window above it starts exactly at the CALL's    *)
(* argument base - however many tail calls, syscalls and returns happened  *)
(* since (vm.c, the frame pushed by CALL and popped by RET).               *)
FramesMatchCalls ==
  /\ fp = 0 => base = 0
  /\ fp > 0 => frames[0].register_base = 0
  /\ \A f \in 0 .. fp - 1 :
       LET fr   == frames[f]
           call == chunk.code[fr.return_ip - 2]
       IN  /\ fr.return_ip - 2 \in 0 .. chunk.size - 1
           /\ call.op \in {"CALL", "CALL_VOID"}
           /\ fr.return_reg = IF call.op = "CALL" THEN call.a ELSE ACU_FRAME_NO_RET
           /\ BaseOf(f + 1) = fr.register_base + call.b

(* In well-formed code the frame stack is empty exactly while module-level *)
(* code runs, and only the oldest frame returns there: RET never finds an  *)
(* empty frame stack, although the VM does not look.                       *)
DepthMatchesCode ==
  status = "RUNNING" =>
    /\ InstrOf(chunk, chunk.fn[ip], ip)
    /\ chunk.fn[ip] = 0 <=> fp = 0
    /\ \A f \in 0 .. fp - 1 :
         /\ InstrOf(chunk, chunk.fn[frames[f].return_ip], frames[f].return_ip)
         /\ chunk.fn[frames[f].return_ip] = 0 <=> f = 0

(* Well-formed code never makes the VM leave its arrays: no frame          *)
(* underflow, no fetch outside the code, no unknown syscall.               *)
NoUndefined == status # "UNDEFINED"

(* Each activation has registers of its own: the shared stack and its      *)
(* overlapping windows implement the calls of AcuCalls.                    *)
Calls == INSTANCE AcuCalls WITH
           regs  <- [r \in Regs |-> stack[base + r]],
           depth <- fp,
           saved <- [f \in 0 .. fp - 1 |->
                       [dst |-> frames[f].return_reg,
                        low |-> [r \in 0 .. BaseOf(f + 1) - frames[f].register_base - 1
                                   |-> stack[frames[f].register_base + r]]]]

CallsSpec == Calls!Spec
=============================================================================
