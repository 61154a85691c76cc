------------------------- MODULE AcuChunkFile_proofs -------------------------
(***************************************************************************)
(* What AcuRawChunk_Validate buys the virtual machine, for every chunk it  *)
(* accepts and every capacity of the machine's stacks.                     *)
(***************************************************************************)
EXTENDS AcuChunkFile, AcuVM_proofs, SequenceTheorems, WellFoundedInduction

LEMMA BoundariesInside == \A ch : Boundaries(ch) \subseteq 0 .. ch.size
BY DEF Boundaries

(* The checks on the instruction that a boundary inside the code begins.   *)
LEMMA Checked ==
  ASSUME Validate(chunk), ip \in Boundaries(chunk), ip # chunk.size
  PROVE  /\ Instr.op # "WORD"
         /\ ip + Slots(Instr.op) \in Boundaries(chunk)
         /\ JumpOK(chunk, Boundaries(chunk), ip)
         /\ CallOK(chunk, Boundaries(chunk), ip)
         /\ SyscallOK(chunk, ip)
<1>1. chunk.size # 0
  BY BoundariesInside
<1> QED
  BY <1>1 DEF Validate, Instr

(* The machine stands at a boundary and its frames return to boundaries.   *)
AtBoundaries ==
  /\ ip \in Boundaries(chunk)
  /\ \A f \in 0 .. fp - 1 : frames[f].return_ip \in Boundaries(chunk)

CheckedInv ==
  /\ CheckedCodeStays
  /\ status = "LOADED" => ip = 0 /\ fp = 0

LEMMA GoingOn ==
  ASSUME NEW p \in Boundaries(chunk), Goto(p), status = "RUNNING", AtBoundaries
  PROVE  AtBoundaries' /\ status' = "RUNNING" /\ chunk' = chunk
BY DEF Goto, AtBoundaries

LEMMA Ending ==
  ASSUME status' \notin {"RUNNING", "LOADED", "UNDEFINED"}
  PROVE  CheckedInv'
BY DEF CheckedInv, CheckedCodeStays

(* A step that goes on running from a boundary to a boundary.              *)
LEMMA Standing ==
  ASSUME AtBoundaries', status' = "RUNNING"
  PROVE  CheckedInv'
BY DEF CheckedInv, CheckedCodeStays, AtBoundaries

LEMMA NextChecked == TypeOK /\ CheckedInv /\ [Next]_vars => CheckedInv'
<1> SUFFICES ASSUME TypeOK, CheckedInv, [Next]_vars
             PROVE  CheckedInv'
  OBVIOUS
<1> USE DEF Dispatch
<1>1. CASE Run
  <2>1. CASE chunk.size = 0
    BY <1>1, <2>1, Ending DEF Run
  <2>2. CASE chunk.size # 0
    <3>1. chunk' = chunk /\ ip' = 0 /\ fp' = 0 /\ status' = "RUNNING"
      BY <1>1, <2>2 DEF Run, CheckedInv
    <3>2. Validate(chunk) => 0 \in Boundaries(chunk)
      BY <2>2 DEF Validate
    <3> QED
      BY <3>1, <3>2 DEF CheckedInv, CheckedCodeStays
  <2> QED
    BY <2>1, <2>2
<1>2. CASE \E ch \in Reloads : Load(ch)
  BY <1>2 DEF Load, CheckedInv, CheckedCodeStays
<1>3. CASE DoHalt \/ DoDivideByZero \/ DoCallOverflow \/ DoArgsOverflow
  BY <1>3, Ending DEF DoHalt, DoDivideByZero, DoCallOverflow, DoArgsOverflow, Stop
<1>4. CASE UNCHANGED vars
  BY <1>4 DEF vars, CheckedInv, CheckedCodeStays
<1>5. CASE Handler /\ ~ Validate(chunk)
  <2>1. chunk' = chunk /\ status = "RUNNING" /\ status' # "LOADED"
    BY <1>5
    DEF Handler, DoNop, DoHalt, DoJump, DoJumpIf, DoJumpCmp, DoJumpCmpImm, DoMove, DoLoadImm,
        DoLoadPool, DoLoadGlobal, DoStoreGlobal, DoUnary, DoAlu, DoDivideByZero, DoCall,
        DoCallOverflow, DoTailCall, DoArgsOverflow, DoRet, DoRetVoid, PopFrame, Syscalls,
        Syscall, SysPrint, SysPrintNoArgs, SysRead, SysReadFails, SysClock, SysMath, SysRandom,
        SysSeed, SysExit, SysPanic, WildFetch, WildSyscall, FrameUnderflow, SetA, JumpWhen,
        Answer, Advance, Goto, Stop
  <2> QED
    BY <1>5, <2>1 DEF CheckedInv, CheckedCodeStays
<1>6. CASE Validate(chunk) /\ status = "RUNNING" /\ Decodes
           /\ ~ (\E ch \in Reloads : Load(ch)) /\ ~ UNCHANGED vars
           /\ ~ Run /\ ~ (DoHalt \/ DoDivideByZero \/ DoCallOverflow \/ DoArgsOverflow)
  <2>1. AtBoundaries /\ ip \in 0 .. chunk.size - 1 /\ ip # chunk.size
    BY <1>6, OperandsOK DEF CheckedInv, CheckedCodeStays, AtBoundaries, Decodes, IsChunk, IsCode
  <2>2. ip + Slots(Instr.op) \in Boundaries(chunk)
    BY <1>6, <2>1, Checked DEF AtBoundaries
  <2>3. CASE Advance
    BY <1>6, <2>1, <2>2, <2>3, GoingOn, Standing DEF Advance
  <2>4. ASSUME Instr.op \in Jumps, NEW taken, JumpWhen(taken)
        PROVE  CheckedInv'
    <3>1. JumpTarget(ip, Instr) \in Boundaries(chunk)
      BY <1>6, <2>1, <2>4, Checked DEF AtBoundaries, JumpOK, Instr
    <3>2. Slots(Instr.op) = 1
      BY <2>4 DEF Jumps, CondJumps, Slots, WideOps
    <3> DEFINE p == IF taken THEN JumpTarget(ip, Instr) ELSE ip + 1
    <3>3. p \in Boundaries(chunk)
      BY <2>2, <3>1, <3>2
    <3> QED
      BY <1>6, <2>1, <2>4, <3>3, GoingOn, Standing DEF JumpWhen
  <2>5. CASE DoJump \/ DoJumpIf
    BY <2>4, <2>5 DEF DoJump, DoJumpIf, Jumps, CondJumps
  <2>6. CASE DoJumpCmp
    BY <2>4, <2>6 DEF DoJumpCmp, Jumps, CondJumps
  <2>7. CASE DoJumpCmpImm
    BY <2>4, <2>7 DEF DoJumpCmpImm, Jumps, CondJumps
  <2>8. CASE DoNop \/ DoMove \/ DoLoadImm \/ DoLoadPool \/ DoLoadGlobal \/ DoStoreGlobal \/ DoUnary \/ DoAlu
    BY <2>3, <2>8
    DEF DoNop, DoMove, DoLoadImm, DoLoadPool, DoLoadGlobal, DoStoreGlobal, DoUnary, DoAlu, SetA
  <2>9. CASE DoCall
    <3>1. Payload.a \in Boundaries(chunk)
      BY <1>6, <2>1, <2>9, Checked DEF DoCall, AtBoundaries, CallOK, Instr, Payload, BytecodeCalls
    <3>2. ip + 2 \in Boundaries(chunk)
      BY <2>2, <2>9 DEF DoCall, Slots, WideOps
    <3>3. /\ fp \in Nat /\ fp' = fp + 1 /\ chunk' = chunk /\ ip' = Payload.a /\ status' = "RUNNING"
          /\ frames'[fp].return_ip = ip + 2
          /\ \A f \in 0 .. fp - 1 : frames'[f] = frames[f]
      BY <2>9, SizesAssumption DEF DoCall, TypeOK, FrameIdx
    <3>4. \A f \in 0 .. fp : f = fp \/ f \in 0 .. fp - 1
      BY <3>3
    <3>5. AtBoundaries'
      BY <2>1, <3>1, <3>2, <3>3, <3>4 DEF AtBoundaries
    <3> QED
      BY <3>3, <3>5, Standing
  <2>10. CASE DoTailCall
    <3>1. Payload.a \in Boundaries(chunk)
      BY <1>6, <2>1, <2>10, Checked DEF DoTailCall, AtBoundaries, CallOK, Instr, Payload, BytecodeCalls
    <3> QED
      BY <1>6, <2>1, <2>10, <3>1, GoingOn, Standing DEF DoTailCall
  <2>11. CASE DoRet \/ DoRetVoid
    <3>1. /\ fp \in Nat /\ fp > 0 /\ fp' = fp - 1 /\ status' = "RUNNING"
          /\ chunk' = chunk /\ frames' = frames /\ ip' = frames[fp - 1].return_ip
      BY <1>6, <2>11, SizesAssumption DEF DoRet, DoRetVoid, PopFrame, Caller, TypeOK
    <3>2. \A f \in 0 .. fp' - 1 : f \in 0 .. fp - 1
      BY <3>1
    <3>3. AtBoundaries'
      BY <2>1, <3>1, <3>2 DEF AtBoundaries
    <3> QED
      BY <3>1, <3>3, Standing
  <2>12. CASE SysPrintNoArgs \/ SysReadFails \/ SysExit \/ SysPanic
    BY <2>12, Ending DEF SysPrintNoArgs, SysReadFails, SysExit, SysPanic, Stop
  <2>13. CASE \/ SysPrint \/ SysMath \/ SysRandom \/ SysSeed
              \/ \E v \in Word : SysRead(v) \/ SysClock(v)
    BY <2>3, <2>13
    DEF SysPrint, SysMath, SysRandom, SysSeed, SysRead, SysClock, Answer
  <2>14. CASE WildSyscall
    <3>1. Instr.op = "SYSCALL_VOID"
      BY <1>6, <2>1, <2>14, Checked DEF WildSyscall, AtBoundaries, SyscallOK, SyscallOps, Instr, Payload
    <3> QED
      BY <2>1, <2>14, <3>1 DEF WildSyscall, Stop, CheckedInv, CheckedCodeStays, AtBoundaries, Instr
  <2>15. CASE FrameUnderflow
    BY <2>1, <2>15 DEF FrameUnderflow, Stop, CheckedInv, CheckedCodeStays, AtBoundaries, Instr
  <2>16. CASE WildFetch
    BY <1>6, <2>16 DEF WildFetch
  <2> QED
    BY <1>6, <2>5, <2>6, <2>7, <2>8, <2>9, <2>10, <2>11, <2>12, <2>13, <2>14, <2>15, <2>16
    DEF Next, Handler, Syscalls
<1>7. CASE WildFetch /\ Validate(chunk)
  <2>1. AtBoundaries /\ ip \in 0 .. chunk.size
    BY <1>7, BoundariesInside DEF WildFetch, CheckedInv, CheckedCodeStays, AtBoundaries
  <2>2. ip = chunk.size \/ Instr.op = "SYSCALL_VOID"
    <3> SUFFICES ASSUME ip # chunk.size, Instr.op # "SYSCALL_VOID"
                 PROVE  Decodes
      BY <1>7 DEF WildFetch
    <3>1. chunk.size \in Nat
      BY ChunksAssumption DEF TypeOK, IsChunk, IsCode
    <3>2. ip \in 0 .. chunk.size - 1
      BY <2>1, <3>1
    <3>3. /\ Instr.op # "WORD"
          /\ ip + Slots(Instr.op) \in 0 .. chunk.size
          /\ CallOK(chunk, Boundaries(chunk), ip)
          /\ SyscallOK(chunk, ip)
      BY <1>7, <2>1, Checked, BoundariesInside DEF AtBoundaries
    <3>4. ASSUME Instr.op \in WideOps
          PROVE  ip + 1 \in 0 .. chunk.size - 1 /\ chunk.code[ip + 1].op = "WORD"
      BY <3>1, <3>2, <3>3, <3>4
      DEF Slots, WideOps, CallOK, SyscallOK, BytecodeCalls, Instr
    <3> QED
      BY <3>2, <3>3, <3>4 DEF Decodes
  <2> QED
    BY <1>7, <2>1, <2>2 DEF WildFetch, Stop, CheckedInv, CheckedCodeStays, AtBoundaries, Instr
<1>8. ASSUME Handler, ~ WildFetch
      PROVE  status = "RUNNING" /\ Decodes
  BY <1>8
  DEF Handler, DoNop, DoHalt, DoJump, DoJumpIf, DoJumpCmp, DoJumpCmpImm, DoMove, DoLoadImm,
      DoLoadPool, DoLoadGlobal, DoStoreGlobal, DoUnary, DoAlu, DoDivideByZero, DoCall,
      DoCallOverflow, DoTailCall, DoArgsOverflow, DoRet, DoRetVoid, Syscalls,
      Syscall, SysPrint, SysPrintNoArgs, SysRead, SysReadFails, SysClock, SysMath, SysRandom,
      SysSeed, SysExit, SysPanic, WildSyscall, FrameUnderflow
<1> QED
  BY <1>1, <1>2, <1>3, <1>4, <1>5, <1>6, <1>7, <1>8 DEF Next

(* A chunk that the check of the file accepts keeps the machine at the     *)
(* beginnings of its instructions, at any capacity: what the handlers of   *)
(* vm.c read next is an instruction that was looked at, and what is left   *)
(* to go wrong is what AcuRawChunk_Validate does not look at.              *)
THEOREM CheckedCodeCorrect == Spec => []CheckedCodeStays
<1>1. Init => CheckedInv
  BY DEF Init, CheckedInv, CheckedCodeStays
<1>2. CheckedInv => CheckedCodeStays
  BY DEF CheckedInv
<1> QED
  BY <1>1, <1>2, InitType, NextType, NextChecked, PTL DEF Spec
-----------------------------------------------------------------------------
(* Writing and reading                                                     *)

(* The units of the file of a chunk.                                       *)
Units(ch) == {Header("ACU", "current", ch)} \union Word \union Words

LEMMA FileIs ==
  ASSUME NEW ch, IsChunk(ch)
  PROVE  /\ Serialize(ch) \in Seq(Units(ch))
         /\ Len(Serialize(ch)) = 1 + Len(ch.consts) + ch.size + Len(ch.strs)
         /\ Serialize(ch)[1] = Header("ACU", "current", ch)
         /\ \A k \in 1 .. Len(ch.consts) : Serialize(ch)[1 + k] = ch.consts[k]
         /\ \A k \in 1 .. ch.size : Serialize(ch)[1 + Len(ch.consts) + k] = ch.code[k - 1]
         /\ \A k \in 1 .. Len(ch.strs) : Serialize(ch)[1 + Len(ch.consts) + ch.size + k] = ch.strs[k]
<1> DEFINE T == Units(ch)
<1> DEFINE c == ch.consts
<1> DEFINE s == ch.strs
<1> DEFINE w == [k \in 1 .. ch.size |-> ch.code[k - 1]]
<1> DEFINE h == <<Header("ACU", "current", ch)>>
<1>1. c \in Seq(T) /\ s \in Seq(T) /\ Len(c) \in Nat /\ Len(s) \in Nat /\ ch.size \in Nat
  <2>1. Word \subseteq T /\ c \in Seq(Word) /\ s \in Seq(Word) /\ ch.size \in Nat
    BY DEF IsChunk, IsCode, Units
  <2> HIDE DEF T, c, s
  <2> QED
    BY <2>1
<1>2. w \in Seq(T) /\ Len(w) = ch.size /\ \A k \in 1 .. ch.size : w[k] = ch.code[k - 1]
  <2>1. ASSUME NEW k \in 1 .. ch.size PROVE ch.code[k - 1] \in T
    <3>1. k - 1 \in 0 .. ch.size - 1 /\ ch.code \in [0 .. ch.size - 1 -> Words]
      BY <1>1 DEF IsChunk, IsCode
    <3> QED
      BY <3>1 DEF Units
  <2>2. w \in [1 .. ch.size -> T] /\ \A k \in 1 .. ch.size : w[k] = ch.code[k - 1]
    BY <2>1
  <2> HIDE DEF w, T
  <2> QED
    BY <1>1, <2>2
<1>3. h \in Seq(T) /\ Len(h) = 1 /\ h[1] = Header("ACU", "current", ch)
  BY DEF Units
<1>4. Serialize(ch) = ((h \o c) \o w) \o s
  BY DEF Serialize
<1> HIDE DEF T, c, s, w, h
<1> DEFINE f1 == h \o c
<1>5. /\ f1 \in Seq(T) /\ Len(f1) = 1 + Len(c)
      /\ \A i \in 1 .. Len(h) + Len(c) : f1[i] = IF i <= Len(h) THEN h[i] ELSE c[i - Len(h)]
  BY <1>1, <1>3, ConcatProperties
<1> HIDE DEF f1
<1> DEFINE f2 == f1 \o w
<1>6. /\ f2 \in Seq(T) /\ Len(f2) = 1 + Len(c) + ch.size
      /\ \A i \in 1 .. Len(f1) + Len(w) : f2[i] = IF i <= Len(f1) THEN f1[i] ELSE w[i - Len(f1)]
  <2>1. f1 \in Seq(T) /\ w \in Seq(T)
    BY <1>2, <1>5
  <2>2. /\ f2 \in Seq(T) /\ Len(f2) = Len(f1) + Len(w)
        /\ \A i \in 1 .. Len(f1) + Len(w) : f2[i] = IF i <= Len(f1) THEN f1[i] ELSE w[i - Len(f1)]
    BY <2>1, ConcatProperties
  <2> QED
    BY <1>2, <1>5, <2>2
<1> HIDE DEF f2
<1> DEFINE f3 == f2 \o s
<1>7. /\ f3 \in Seq(T) /\ Len(f3) = 1 + Len(c) + ch.size + Len(s)
      /\ \A i \in 1 .. Len(f2) + Len(s) : f3[i] = IF i <= Len(f2) THEN f2[i] ELSE s[i - Len(f2)]
  <2>1. f2 \in Seq(T) /\ s \in Seq(T)
    BY <1>1, <1>6
  <2>2. /\ f3 \in Seq(T) /\ Len(f3) = Len(f2) + Len(s)
        /\ \A i \in 1 .. Len(f2) + Len(s) : f3[i] = IF i <= Len(f2) THEN f2[i] ELSE s[i - Len(f2)]
    BY <2>1, ConcatProperties
  <2> QED
    BY <1>6, <2>2
<1>8. Serialize(ch) = f3
  BY <1>4 DEF f1, f2
<1> HIDE DEF f3
<1>9. f3[1] = h[1]
  BY <1>1, <1>2, <1>3, <1>5, <1>6, <1>7
<1>10. ASSUME NEW k \in 1 .. Len(c) PROVE f3[1 + k] = c[k]
  <2>1. 1 + k \in 1 .. 1 + Len(c) /\ ~ (1 + k <= 1) /\ (1 + k) - 1 = k
    BY <1>1
  <2>2. f1[1 + k] = c[k]
    BY <1>3, <1>5, <2>1
  <2> QED
    BY <1>1, <1>2, <1>5, <1>6, <1>7, <2>1, <2>2
<1>11. ASSUME NEW k \in 1 .. ch.size PROVE f3[1 + Len(c) + k] = w[k]
  <2> DEFINE i == 1 + Len(c) + k
  <2>1. i \in 1 .. Len(f2) /\ ~ (i <= Len(f1)) /\ i - Len(f1) = k /\ i \in 1 .. Len(f1) + Len(w) /\ i \in 1 .. Len(f2) + Len(s)
    BY <1>1, <1>2, <1>5, <1>6
  <2> HIDE DEF i
  <2>2. f2[i] = w[k] /\ f3[i] = f2[i]
    BY <1>6, <1>7, <2>1
  <2> QED
    BY <2>2 DEF i
<1>12. ASSUME NEW k \in 1 .. Len(s) PROVE f3[1 + Len(c) + ch.size + k] = s[k]
  <2> DEFINE i == 1 + Len(c) + ch.size + k
  <2>1. ~ (i <= Len(f2)) /\ i - Len(f2) = k /\ i \in 1 .. Len(f2) + Len(s)
    BY <1>1, <1>6
  <2> HIDE DEF i
  <2>2. f3[i] = s[k]
    BY <1>7, <2>1
  <2> QED
    BY <2>2 DEF i
<1> QED
  BY <1>2, <1>3, <1>7, <1>8, <1>9, <1>10, <1>11, <1>12 DEF T, c, s

(* A read of n units takes what was written there.                         *)
LEMMA PartIs ==
  ASSUME NEW T, NEW file \in Seq(T), NEW from \in Nat, NEW n \in Nat, from + n <= Len(file),
         NEW part \in Seq(T), Len(part) = n, \A k \in 1 .. n : file[from + k] = part[k]
  PROVE  SubSeq(file, from + 1, from + n) = part
<1> DEFINE m == from + 1
<1> DEFINE l == from + n
<1>1. m \in Int /\ l \in Int /\ l - m + 1 = n /\ (m <= l <=> n # 0) /\ \A i \in m .. l : i \in 1 .. Len(file)
  OBVIOUS
<1>2. \A k \in 1 .. n : m + k - 1 = from + k
  OBVIOUS
<1>3. \A i \in m .. l : file[i] \in T
  BY <1>1
<1> HIDE DEF m, l
<1> DEFINE sub == SubSeq(file, m, l)
<1>4. /\ sub \in Seq(T) /\ Len(sub) = IF m <= l THEN l - m + 1 ELSE 0
      /\ \A i \in 1 .. l - m + 1 : sub[i] = file[m + i - 1]
  BY <1>1, <1>3, SubSeqProperties
<1> HIDE DEF sub
<1>5. Len(sub) = n
  BY <1>1, <1>4
<1>6. \A i \in 1 .. n : sub[i] = part[i]
  BY <1>1, <1>2, <1>4
<1>7. sub = part
  BY <1>4, <1>5, <1>6, SeqEqual
<1> QED
  BY <1>7 DEF sub, m, l

(* What is read is what was written.                                       *)
LEMMA ReadBack ==
  ASSUME NEW ch, IsChunk(ch)
  PROVE  ChunkIn(Serialize(ch)) = Raw(ch)
<1> DEFINE file == Serialize(ch)
<1> DEFINE h == file[1]
<1> DEFINE T == Units(ch)
<1> DEFINE w == [k \in 1 .. ch.size |-> ch.code[k - 1]]
<1>1. /\ file \in Seq(T)
      /\ Len(file) = 1 + Len(ch.consts) + ch.size + Len(ch.strs)
      /\ h = Header("ACU", "current", ch)
      /\ \A k \in 1 .. Len(ch.consts) : file[1 + k] = ch.consts[k]
      /\ \A k \in 1 .. ch.size : file[1 + Len(ch.consts) + k] = ch.code[k - 1]
      /\ \A k \in 1 .. Len(ch.strs) : file[1 + Len(ch.consts) + ch.size + k] = ch.strs[k]
  BY FileIs
<1>2. h.consts = Len(ch.consts) /\ h.code = ch.size /\ h.strs = Len(ch.strs) /\ h.slots = ch.slots
  BY <1>1 DEF Header
<1>3. /\ ch.size \in Nat /\ ch.consts \in Seq(Word) /\ ch.strs \in Seq(Word)
      /\ ch.code \in [0 .. ch.size - 1 -> Words]
  BY DEF IsChunk, IsCode
<1>4. ch.consts \in Seq(T) /\ ch.strs \in Seq(T) /\ Len(ch.consts) \in Nat /\ Len(ch.strs) \in Nat
  <2>1. Word \subseteq T
    BY DEF Units
  <2> HIDE DEF T
  <2> QED
    BY <1>3, <2>1
<1>5. w \in Seq(T) /\ Len(w) = ch.size /\ \A k \in 1 .. ch.size : w[k] = ch.code[k - 1]
  <2>1. ASSUME NEW k \in 1 .. ch.size PROVE ch.code[k - 1] \in T
    <3>1. k - 1 \in 0 .. ch.size - 1
      BY <1>3
    <3> QED
      BY <1>3, <3>1 DEF Units
  <2>2. w \in [1 .. ch.size -> T] /\ \A k \in 1 .. ch.size : w[k] = ch.code[k - 1]
    BY <2>1
  <2>3. ch.size \in Nat
    BY <1>3
  <2> HIDE DEF w, T
  <2> QED
    BY <2>2, <2>3
<1> HIDE DEF T, h, file, w
<1>6. SubSeq(file, 1 + 1, 1 + h.consts) = ch.consts
  <2>1. 1 + Len(ch.consts) <= Len(file) /\ 1 \in Nat
    BY <1>1, <1>3, <1>4
  <2> QED
    BY <1>1, <1>2, <1>4, <2>1, PartIs
<1>7. SubSeq(file, (1 + h.consts) + 1, (1 + h.consts) + h.code) = w
  <2> DEFINE from == 1 + h.consts
  <2>1. from \in Nat /\ from + ch.size <= Len(file)
    BY <1>1, <1>2, <1>3, <1>4
  <2>2. \A k \in 1 .. ch.size : file[from + k] = w[k]
    BY <1>1, <1>2, <1>5
  <2> HIDE DEF from
  <2>3. SubSeq(file, from + 1, from + ch.size) = w
    BY <1>1, <1>3, <1>5, <2>1, <2>2, PartIs
  <2> QED
    BY <1>2, <2>3 DEF from
<1>8. SubSeq(file, (1 + h.consts + h.code) + 1, (1 + h.consts + h.code) + h.strs) = ch.strs
  <2> DEFINE from == 1 + h.consts + h.code
  <2>1. from \in Nat /\ from + Len(ch.strs) <= Len(file)
    BY <1>1, <1>2, <1>3, <1>4
  <2>2. \A k \in 1 .. Len(ch.strs) : file[from + k] = ch.strs[k]
    BY <1>1, <1>2
  <2> HIDE DEF from
  <2>3. SubSeq(file, from + 1, from + Len(ch.strs)) = ch.strs
    BY <1>1, <1>4, <2>1, <2>2, PartIs
  <2> QED
    BY <1>2, <2>3 DEF from
<1>9. [p \in 0 .. h.code - 1 |-> w[p + 1]] = ch.code
  <2>1. \A p \in 0 .. ch.size - 1 : p + 1 \in 1 .. ch.size /\ (p + 1) - 1 = p
    BY <1>3
  <2>2. \A p \in 0 .. ch.size - 1 : w[p + 1] = ch.code[p]
    BY <1>5, <2>1
  <2> QED
    BY <1>2, <1>3, <2>2
<1>10. ChunkIn(file) = [size |-> h.code, slots |-> h.slots, code |-> [p \in 0 .. h.code - 1 |-> w[p + 1]],
                        consts |-> ch.consts, strs |-> ch.strs]
  BY <1>6, <1>7, <1>8 DEF ChunkIn, h
<1> QED
  BY <1>2, <1>9, <1>10 DEF Raw, file

(* The check looks at what is written.                                     *)
BoundariesOf(size, code) ==
  LET walk[n \in 0 .. size] ==
        IF n = 0 THEN {0}
        ELSE LET seen == walk[n - 1]
             IN  seen \union {p + Slots(code[p].op) : p \in seen \intersect (0 .. size - 1)}
  IN  walk[size] \intersect (0 .. size)

LEMMA RawIsChecked ==
  ASSUME NEW ch, Validate(ch)
  PROVE  Validate(Raw(ch))
<1>1. \A c : Boundaries(c) = BoundariesOf(c.size, c.code)
  BY DEF Boundaries, BoundariesOf
<1>2. /\ Raw(ch).size = ch.size /\ Raw(ch).code = ch.code /\ Raw(ch).consts = ch.consts
      /\ Raw(ch).strs = ch.strs /\ Raw(ch).slots = ch.slots
  BY DEF Raw
<1>3. Boundaries(Raw(ch)) = Boundaries(ch)
  BY <1>1, <1>2
<1> QED
  BY <1>2, <1>3 DEF Validate, JumpOK, CallOK, SyscallOK, PoolsOK

(* A chunk that the check accepts, be it compiled or not, is the same when *)
(* it has been written and read, and a part of its file is refused: what   *)
(* LoadsBack asks of compiled programs needs no more of the generator than *)
(* that Validate accepts what it makes.                                    *)
THEOREM CheckedFilesLoad == Spec => [](Validate(chunk) => LoadsBack)
<1>1. TypeOK => (Validate(chunk) => LoadsBack)
  <2> SUFFICES ASSUME TypeOK, Validate(chunk) PROVE LoadsBack
    OBVIOUS
  <2> DEFINE file == Serialize(chunk)
  <2> DEFINE h == Header("ACU", "current", chunk)
  <2>1. IsChunk(chunk)
    BY ChunksAssumption DEF TypeOK
  <2>2. /\ file \in Seq(Units(chunk)) /\ file[1] = h
        /\ Len(file) = 1 + Len(chunk.consts) + chunk.size + Len(chunk.strs)
    BY <2>1, FileIs
  <2>3. /\ h.magic = "ACU" /\ h.version = "current"
        /\ h.consts = Len(chunk.consts) /\ h.code = chunk.size /\ h.strs = Len(chunk.strs)
    BY DEF Header
  <2>4. Len(chunk.consts) \in Nat /\ chunk.size \in Nat /\ Len(chunk.strs) \in Nat
    BY <2>1 DEF IsChunk, IsCode
  <2>5. ChunkIn(file) = Raw(chunk)
    BY <2>1, ReadBack
  <2> HIDE DEF file, h
  <2>6. Deserialize(file) = Raw(chunk)
    <3>1. Complete(file) /\ file # <<>>
      BY <2>2, <2>3, <2>4 DEF Complete
    <3> QED
      BY <2>2, <2>3, <2>5, <3>1, RawIsChecked DEF Deserialize
  <2>7. ASSUME NEW n \in 0 .. Len(file) - 1 PROVE Deserialize(SubSeq(file, 1, n)) = Refused
    <3>1. n \in Int /\ 1 \in Int /\ \A i \in 1 .. n : file[i] \in Units(chunk)
      BY <2>2
    <3> DEFINE cut == SubSeq(file, 1, n)
    <3>2. /\ cut \in Seq(Units(chunk)) /\ Len(cut) = IF 1 <= n THEN n - 1 + 1 ELSE 0
          /\ \A i \in 1 .. n - 1 + 1 : cut[i] = file[1 + i - 1]
      BY <3>1, SubSeqProperties
    <3> HIDE DEF cut
    <3>3. CASE n = 0
      BY <3>2, <3>3 DEF Deserialize, cut
    <3>4. CASE n # 0
      <4>1. Len(cut) = n /\ cut[1] = h
        <5>1. 1 \in 1 .. n - 1 + 1 /\ 1 + 1 - 1 = 1 /\ 1 <= n
          BY <3>4
        <5> QED
          BY <2>2, <3>2, <5>1
      <4>2. ~ Complete(cut)
        BY <2>2, <2>3, <2>4, <4>1 DEF Complete
      <4> QED
        BY <4>2 DEF Deserialize, cut
    <3> QED
      BY <3>3, <3>4
  <2> QED
    BY <2>6, <2>7 DEF LoadsBack, file
<1> QED
  BY <1>1, InitType, NextType, PTL DEF Spec
-----------------------------------------------------------------------------
(* Well-formed chunks are accepted                                         *)

Less == {p \in Nat \X Nat : p[1] < p[2]}

LEMMA LeastNumber ==
  ASSUME NEW T, T \subseteq Nat, T # {}
  PROVE  \E x \in T : \A y \in T : x <= y
<1>1. IsWellFoundedOn(Less, Nat)
  BY NatLessThanWellFounded DEF OpToRel, Less
<1>2. PICK x \in T : \A y \in T : ~ (<<y, x>> \in Less)
  BY <1>1, WFMin
<1>3. \A y \in T : ~ (y < x)
  BY <1>2 DEF Less
<1> QED
  BY <1>3

(* A value that is made step by step exists.                               *)
Iterates(f, n, start, step) == f = [k \in 0 .. n |-> IF k = 0 THEN start ELSE step[f[k - 1]]]

LEMMA IterationExists ==
  ASSUME NEW S, NEW start \in S, NEW step \in [S -> S], NEW size \in Nat
  PROVE  \E f \in [0 .. size -> S] : Iterates(f, size, start, step)
<1> DEFINE B == {n \in Nat : ~ \E f \in [0 .. n -> S] : Iterates(f, n, start, step)}
<1>1. B = {}
  <2> SUFFICES ASSUME B # {} PROVE FALSE
    OBVIOUS
  <2>1. PICK n \in B : \A y \in B : n <= y
    <3>1. B \subseteq Nat
      OBVIOUS
    <3> HIDE DEF B
    <3> QED
      BY <3>1, LeastNumber
  <2>2. n \in Nat /\ ~ \E f \in [0 .. n -> S] : Iterates(f, n, start, step)
    BY <2>1
  <2>3. CASE n = 0
    <3> DEFINE f == [k \in 0 .. 0 |-> start]
    <3>1. f \in [0 .. n -> S] /\ Iterates(f, n, start, step)
      BY <2>3 DEF Iterates
    <3> QED
      BY <2>2, <3>1
  <2>4. CASE n # 0
    <3>1. n - 1 \in Nat /\ ~ (n <= n - 1)
      BY <2>2, <2>4
    <3>2. n - 1 \notin B
      BY <2>1, <3>1
    <3>3. PICK f \in [0 .. n - 1 -> S] : Iterates(f, n - 1, start, step)
      BY <3>1, <3>2
    <3>4. \A k \in 0 .. n - 1 : f[k] = IF k = 0 THEN start ELSE step[f[k - 1]]
      <4> DEFINE e == [k \in 0 .. n - 1 |-> IF k = 0 THEN start ELSE step[f[k - 1]]]
      <4>1. f = e
        BY <3>3 DEF Iterates
      <4>2. \A k \in 0 .. n - 1 : e[k] = IF k = 0 THEN start ELSE step[f[k - 1]]
        OBVIOUS
      <4> HIDE DEF e
      <4> QED
        BY <4>1, <4>2
    <3> DEFINE g == [k \in 0 .. n |-> IF k = n THEN step[f[n - 1]] ELSE f[k]]
    <3>5. \A k \in 0 .. n : k = n \/ k \in 0 .. n - 1
      BY <2>2
    <3>6. n - 1 \in 0 .. n - 1 /\ n - 1 \in 0 .. n /\ n - 1 # n
      BY <2>2, <2>4
    <3>7. g \in [0 .. n -> S]
      BY <3>5, <3>6
    <3>8. \A k \in 0 .. n : g[k] = IF k = 0 THEN start ELSE step[g[k - 1]]
      <4> TAKE k \in 0 .. n
      <4>1. CASE k = n
        BY <2>4, <3>6, <4>1
      <4>2. CASE k # n
        <5>1. k \in 0 .. n - 1 /\ (k # 0 => k - 1 \in 0 .. n /\ k - 1 # n)
          BY <2>2, <4>2
        <5> QED
          BY <3>4, <4>2, <5>1
      <4> QED
        BY <4>1, <4>2
    <3> HIDE DEF g
    <3>9. Iterates(g, n, start, step)
      BY <3>7, <3>8 DEF Iterates
    <3> QED
      BY <2>2, <3>7, <3>9
  <2> QED
    BY <2>3, <2>4
<1> QED
  BY <1>1

(* The walk over the code comes to the next instruction from each one.     *)
Following(ch, seen) == seen \union {p + Slots(ch.code[p].op) : p \in seen \intersect (0 .. ch.size - 1)}

Walks(ch, w) ==
  /\ DOMAIN w = 0 .. ch.size
  /\ \A n \in 0 .. ch.size : w[n] = IF n = 0 THEN {0} ELSE Following(ch, w[n - 1])
  /\ \A n \in 0 .. ch.size : w[n] \subseteq Nat

LEMMA BoundariesAre ==
  ASSUME NEW ch, ch.size \in Nat
  PROVE  \E w : Walks(ch, w) /\ Boundaries(ch) = w[ch.size] \intersect (0 .. ch.size)
<1> DEFINE S == SUBSET Nat
<1> DEFINE start == {0}
<1> DEFINE step == [seen \in S |-> Following(ch, seen)]
<1> DEFINE D == 0 .. ch.size
<1> DEFINE Body(w, n) == IF n = 0 THEN {0}
                         ELSE LET seen == w[n - 1]
                              IN  seen \union {p + Slots(ch.code[p].op) : p \in seen \intersect (0 .. ch.size - 1)}
<1>1. step \in [S -> S] /\ start \in S
  <2>1. ASSUME NEW seen \in S PROVE Following(ch, seen) \in S
    <3>1. \A p \in Nat : p + Slots(ch.code[p].op) \in Nat
      BY DEF Slots
    <3> QED
      BY <3>1 DEF Following
  <2> QED
    BY <2>1
<1>2. PICK f \in [D -> S] : Iterates(f, ch.size, start, step)
  <2> HIDE DEF S, start, step
  <2> QED
    BY <1>1, IterationExists
<1>3. \A n \in D : n # 0 => n - 1 \in D
  OBVIOUS
<1>4. f = [n \in D |-> Body(f, n)]
  <2>1. \A n \in D : (IF n = 0 THEN start ELSE step[f[n - 1]]) = Body(f, n)
    BY <1>2, <1>3 DEF Following
  <2> HIDE DEF Body, start, step
  <2> QED
    BY <1>2, <2>1 DEF Iterates
<1> DEFINE w == CHOOSE g : g = [n \in D |-> Body(g, n)]
<1>5. w = [n \in D |-> Body(w, n)]
  <2> HIDE DEF Body, D
  <2> QED
    BY <1>4
<1>6. Boundaries(ch) = w[ch.size] \intersect (0 .. ch.size)
  BY DEF Boundaries
<1> HIDE DEF w
<1>7. \A n \in 0 .. ch.size : w[n] = IF n = 0 THEN {0} ELSE Following(ch, w[n - 1])
  <2> DEFINE e == [n \in D |-> Body(w, n)]
  <2>1. \A n \in D : e[n] = Body(w, n)
    OBVIOUS
  <2>2. \A n \in D : Body(w, n) = IF n = 0 THEN {0} ELSE Following(ch, w[n - 1])
    BY DEF Following
  <2>3. w = e
    BY <1>5
  <2> HIDE DEF e, Body
  <2> QED
    BY <2>1, <2>2, <2>3
<1>8. DOMAIN w = 0 .. ch.size
  <2> HIDE DEF Body
  <2> QED
    BY <1>5
<1> HIDE DEF Body
<1>9. \A n \in 0 .. ch.size : w[n] \subseteq Nat
  <2> DEFINE B == {n \in 0 .. ch.size : ~ (w[n] \subseteq Nat)}
  <2> SUFFICES ASSUME B # {} PROVE FALSE
    OBVIOUS
  <2>1. PICK n \in B : \A y \in B : n <= y
    <3>1. B \subseteq Nat
      OBVIOUS
    <3> HIDE DEF B
    <3> QED
      BY <3>1, LeastNumber
  <2>2. n \in 0 .. ch.size /\ n # 0 /\ ~ (w[n] \subseteq Nat)
    BY <1>7, <2>1
  <2>3. n - 1 \in 0 .. ch.size /\ ~ (n <= n - 1)
    BY <2>2
  <2>4. w[n - 1] \in S
    BY <2>1, <2>3
  <2>5. Following(ch, w[n - 1]) = step[w[n - 1]]
    BY <2>4
  <2> QED
    BY <1>1, <1>7, <2>2, <2>4, <2>5
<1> QED
  BY <1>6, <1>7, <1>8, <1>9 DEF Walks

(* The words at which an instruction of well-formed code begins, and its   *)
(* end, are where the walk comes.                                          *)
Begins(ch) == {p \in 0 .. ch.size - 1 : ch.code[p].op # "WORD"} \union {ch.size}

LEMMA FollowingIs ==
  ASSUME NEW ch, WellFormed(ch), ch.size \in Nat, NEW p \in 0 .. ch.size - 1, ch.code[p].op # "WORD"
  PROVE  p + Slots(ch.code[p].op) \in Begins(ch)
<1> DEFINE op == ch.code[p].op
<1> DEFINE q == p + Slots(op)
<1>1. op \in WideOps => p + 1 \in 0 .. ch.size - 1 /\ ch.code[p + 1].op = "WORD"
  BY DEF WellFormed, WellFormedAt, InstrOf
<1>2. q \in 1 .. ch.size
  BY <1>1 DEF Slots
<1>3. q # ch.size => ch.code[q].op # "WORD"
  <2> SUFFICES ASSUME q # ch.size, ch.code[q].op = "WORD" PROVE FALSE
    OBVIOUS
  <2>1. q \in 0 .. ch.size - 1 /\ ch.code[q - 1].op \in WideOps
    BY <1>2 DEF WellFormed
  <2>2. CASE op \in WideOps
    <3>1. q - 1 = p + 1
      BY <2>2 DEF Slots
    <3> QED
      BY <1>1, <2>1, <2>2, <3>1 DEF WideOps
  <2>3. CASE op \notin WideOps
    <3>1. q - 1 = p
      BY <2>3 DEF Slots
    <3> QED
      BY <2>1, <2>3, <3>1
  <2> QED
    BY <2>2, <2>3
<1> QED
  BY <1>2, <1>3 DEF Begins

(* The instruction before another one.                                     *)
LEMMA PrecedingIs ==
  ASSUME NEW ch, WellFormed(ch), ch.size \in Nat, NEW q \in Begins(ch), q # 0
  PROVE  \E p \in Begins(ch) : p \in 0 .. ch.size - 1 /\ p < q /\ p + Slots(ch.code[p].op) = q
<1>1. q \in 1 .. ch.size /\ q - 1 \in 0 .. ch.size - 1 /\ q - 1 < q
  BY DEF Begins
<1>2. q # ch.size => ch.code[q].op # "WORD"
  BY <1>1 DEF Begins
<1>3. CASE ch.code[q - 1].op = "WORD"
  <2>1. q - 1 > 0 /\ ch.code[q - 2].op \in WideOps
    <3>1. (q - 1) - 1 = q - 2
      BY <1>1
    <3> QED
      BY <1>1, <1>3, <3>1 DEF WellFormed
  <2>2. q - 2 \in 0 .. ch.size - 1 /\ q - 2 < q /\ q - 2 + 2 = q
    BY <1>1, <2>1
  <2>3. q - 2 \in Begins(ch) /\ Slots(ch.code[q - 2].op) = 2
    BY <2>1, <2>2 DEF Begins, WideOps, Slots
  <2> QED
    BY <2>2, <2>3
<1>4. CASE ch.code[q - 1].op # "WORD"
  <2>1. ch.code[q - 1].op \notin WideOps
    <3>1. ch.code[q - 1].op \in WideOps => (q - 1) + 1 \in 0 .. ch.size - 1 /\ ch.code[(q - 1) + 1].op = "WORD"
      BY <1>1, <1>4 DEF WellFormed, WellFormedAt, InstrOf
    <3>2. (q - 1) + 1 = q
      BY <1>1
    <3> QED
      BY <1>1, <1>2, <3>1, <3>2
  <2>2. q - 1 \in Begins(ch) /\ Slots(ch.code[q - 1].op) = 1 /\ q - 1 + 1 = q
    BY <1>1, <1>4, <2>1 DEF Begins, Slots
  <2> QED
    BY <1>1, <2>2
<1> QED
  BY <1>3, <1>4

LEMMA WalkIs ==
  ASSUME NEW ch, WellFormed(ch), ch.size \in Nat, ch.size > 0
  PROVE  Boundaries(ch) = Begins(ch)
<1> DEFINE N == ch.size
<1>1. PICK w : Walks(ch, w) /\ Boundaries(ch) = w[N] \intersect (0 .. N)
  BY BoundariesAre
<1>2. /\ w[0] = {0}
      /\ \A n \in 1 .. N : n - 1 \in 0 .. N /\ w[n] = Following(ch, w[n - 1])
      /\ \A n \in 0 .. N : w[n] \subseteq Nat
  BY <1>1 DEF Walks
<1>3. \A p \in Nat : p + Slots(ch.code[p].op) \in Nat /\ p + Slots(ch.code[p].op) > p
  BY DEF Slots
(* Only begins are marked,                                                 *)
<1>4. \A n \in 0 .. N : w[n] \subseteq Begins(ch)
  <2> DEFINE B == {n \in 0 .. N : ~ (w[n] \subseteq Begins(ch))}
  <2> SUFFICES ASSUME B # {} PROVE FALSE
    OBVIOUS
  <2>1. PICK n \in B : \A y \in B : n <= y
    <3>1. B \subseteq Nat
      OBVIOUS
    <3> HIDE DEF B
    <3> QED
      BY <3>1, LeastNumber
  <2>2. n \in 0 .. N /\ ~ (w[n] \subseteq Begins(ch))
    BY <2>1
  <2>3. n # 0
    <3>1. 0 \in Begins(ch)
      BY DEF WellFormed, InstrOf, Begins
    <3> QED
      BY <1>2, <2>2, <3>1
  <2>4. n \in 1 .. N /\ n - 1 \in 0 .. N /\ ~ (n <= n - 1)
    BY <2>2, <2>3
  <2>5. w[n - 1] \subseteq Begins(ch)
    BY <2>1, <2>4
  <2>6. ASSUME NEW p \in w[n - 1] \intersect (0 .. N - 1) PROVE p + Slots(ch.code[p].op) \in Begins(ch)
    <3>1. ch.code[p].op # "WORD"
      BY <2>5, <2>6 DEF Begins
    <3> QED
      BY <3>1, FollowingIs
  <2> QED
    BY <1>2, <2>2, <2>4, <2>5, <2>6 DEF Following
(* in the round n none before n is new,                                    *)
<1>5. \A n \in 1 .. N : \A p \in w[n] : p < n => p \in w[n - 1]
  <2> DEFINE B == {n \in 1 .. N : ~ \A p \in w[n] : p < n => p \in w[n - 1]}
  <2> SUFFICES ASSUME B # {} PROVE FALSE
    OBVIOUS
  <2>1. PICK n \in B : \A y \in B : n <= y
    <3>1. B \subseteq Nat
      OBVIOUS
    <3> HIDE DEF B
    <3> QED
      BY <3>1, LeastNumber
  <2>2. n \in 1 .. N /\ n - 1 \in 0 .. N /\ ~ (n <= n - 1)
    BY <2>1
  <2>3. PICK p \in w[n] : p < n /\ p \notin w[n - 1]
    BY <2>1
  <2>4. PICK q \in w[n - 1] \intersect (0 .. N - 1) : p = q + Slots(ch.code[q].op)
    BY <1>2, <2>2, <2>3 DEF Following
  <2>5. q \in Nat /\ p \in Nat /\ p > q /\ q < n - 1
    BY <1>3, <2>2, <2>3, <2>4
  <2>6. n - 1 \in 1 .. N /\ (n - 1) - 1 \in 0 .. N
    BY <2>2, <2>5
  <2>7. q \in w[(n - 1) - 1]
    BY <2>1, <2>2, <2>4, <2>5, <2>6
  <2>8. p \in w[n - 1]
    BY <1>2, <2>4, <2>6, <2>7 DEF Following
  <2> QED
    BY <2>3, <2>8
(* and the walk does not stop before the end.                              *)
<1>6. \A p \in w[N] \intersect (0 .. N - 1) : p + Slots(ch.code[p].op) \in w[N]
  <2> TAKE p \in w[N] \intersect (0 .. N - 1)
  <2>1. N \in 1 .. N /\ p < N
    OBVIOUS
  <2>2. p \in w[N - 1]
    BY <1>5, <2>1
  <2> QED
    BY <1>2, <2>1, <2>2 DEF Following
<1>7. 0 \in w[N]
  <2> DEFINE B == {n \in 0 .. N : 0 \notin w[n]}
  <2>1. B = {}
    <3> SUFFICES ASSUME B # {} PROVE FALSE
      OBVIOUS
    <3>1. PICK n \in B : \A y \in B : n <= y
      <4>1. B \subseteq Nat
        OBVIOUS
      <4> HIDE DEF B
      <4> QED
        BY <4>1, LeastNumber
    <3>2. n \in 1 .. N /\ n - 1 \in 0 .. N /\ ~ (n <= n - 1) /\ 0 \notin w[n]
      BY <1>2, <3>1
    <3>3. 0 \in w[n - 1]
      BY <3>1, <3>2
    <3> QED
      BY <1>2, <3>2, <3>3 DEF Following
  <2> QED
    BY <2>1
<1>8. Begins(ch) \subseteq w[N]
  <2> DEFINE B == Begins(ch) \ w[N]
  <2> SUFFICES ASSUME B # {} PROVE FALSE
    OBVIOUS
  <2>1. Begins(ch) \subseteq 0 .. N
    BY DEF Begins
  <2>2. PICK q \in B : \A y \in B : q <= y
    <3>1. B \subseteq Nat
      BY <2>1
    <3> HIDE DEF B
    <3> QED
      BY <3>1, LeastNumber
  <2>3. q \in Begins(ch) /\ q \notin w[N] /\ q # 0
    BY <1>7, <2>2
  <2>4. PICK p \in Begins(ch) : p \in 0 .. N - 1 /\ p < q /\ p + Slots(ch.code[p].op) = q
    BY <2>3, PrecedingIs
  <2>5. ~ (q <= p)
    BY <2>1, <2>3, <2>4
  <2>6. p \in w[N]
    BY <2>2, <2>4, <2>5
  <2> QED
    BY <1>6, <2>3, <2>4, <2>6
<1>9. Begins(ch) \subseteq 0 .. N /\ w[N] \subseteq Begins(ch)
  BY <1>4 DEF Begins
<1> HIDE DEF N
<1> QED
  BY <1>1, <1>8, <1>9

(* The window of a call or of a system call with a result ends inside the  *)
(* registers of the caller.                                                *)
WindowsEnd(ch) ==
  \A p \in 0 .. ch.size - 1 :
    ch.code[p].op \in BytecodeCalls \union {"SYSCALL"} => ch.code[p].b + ch.code[p].c <= RegWindow

LEMMA WellFormedIsValid ==
  ASSUME NEW ch, IsChunk(ch), WellFormed(ch), WindowsEnd(ch)
  PROVE  Validate(ch)
<1>1. ch.size \in Nat
  BY DEF IsChunk, IsCode
<1> SUFFICES ASSUME ch.size > 0 PROVE Validate(ch)
  BY <1>1 DEF Validate
<1>2. Boundaries(ch) = Begins(ch)
  BY <1>1, WalkIs
<1>3. \A f, t : InstrOf(ch, f, t) => t \in Begins(ch) \ {ch.size}
  BY <1>1 DEF InstrOf, Begins
<1>4. {0, ch.size} \subseteq Begins(ch)
  BY <1>3 DEF WellFormed, Begins
<1>5. ASSUME NEW p \in Begins(ch) \ {ch.size}
      PROVE  /\ ch.code[p].op # "WORD"
             /\ p + Slots(ch.code[p].op) \in Begins(ch)
             /\ JumpOK(ch, Begins(ch), p)
             /\ CallOK(ch, Begins(ch), p)
             /\ SyscallOK(ch, p)
             /\ PoolsOK(ch, p)
  <2>1. p \in 0 .. ch.size - 1 /\ ch.code[p].op # "WORD"
    BY <1>5 DEF Begins
  <2>2. WellFormedAt(ch, p) /\ FieldsOK(ch, ch.code[p])
    BY <2>1 DEF WellFormed, IsChunk
  <2>3. p + Slots(ch.code[p].op) \in Begins(ch)
    BY <1>1, <2>1, FollowingIs
  <2>4. JumpOK(ch, Begins(ch), p)
    BY <1>3, <2>2 DEF WellFormedAt, JumpOK
  <2>5. ch.code[p].op \in WideOps => ch.code[p + 1].op = "WORD"
    BY <2>2 DEF WellFormedAt, InstrOf
  <2>6. CallOK(ch, Begins(ch), p)
    BY <1>3, <2>1, <2>2, <2>5 DEF WellFormedAt, CallOK, BytecodeCalls, WideOps, WindowsEnd
  <2>7. SyscallOK(ch, p)
    BY <2>1, <2>2, <2>5 DEF WellFormedAt, SyscallOK, SyscallOps, WideOps, WindowsEnd
  <2>8. PoolsOK(ch, p)
    BY <1>1, <2>2 DEF FieldsOK, PoolsOK, IsChunk
  <2> QED
    BY <2>1, <2>3, <2>4, <2>6, <2>7, <2>8
<1> QED
  BY <1>2, <1>4, <1>5 DEF Validate

(* The check refuses no compiled program, and no compiled program comes    *)
(* back changed: whatever chunk the code generator makes, it is accepted   *)
(* when it is whole and refused when it is not, as long as the generator   *)
(* keeps what the virtual machine relies on (serializer.c,                 *)
(* AcuChunk_Serialize, AcuRawChunk_Deserialize, AcuRawChunk_Validate).     *)
THEOREM CompiledFilesLoad ==
  ASSUME AllWellFormed, \A ch \in Chunks : WindowsEnd(ch)
  PROVE  Spec => []LoadsBack
<1>1. TypeOK => Validate(chunk)
  BY WellFormedIsValid, ChunksAssumption DEF TypeOK, AllWellFormed
<1>2. Spec => []TypeOK
  BY TypeCorrect
<1> QED
  BY <1>1, <1>2, CheckedFilesLoad, PTL
=============================================================================
