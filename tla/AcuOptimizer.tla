---------------------------- MODULE AcuOptimizer ----------------------------
(***************************************************************************)
(* The bytecode optimizer (src/optimizer/optimizer.c).  AcuChunk_Optimize   *)
(* iterates over a chunk until nothing changes: collect the jump targets,  *)
(* drop unreachable code, drop dead stores, run the peephole rules over    *)
(* every instruction, then squeeze out the NOPs and relocate jumps and     *)
(* calls.  The targets are collected once per iteration while every pass   *)
(* rewrites the code in place, and the peephole rules see each other's     *)
(* rewrites.                                                               *)
(*                                                                         *)
(* One action per pass, and one per peephole rule that ends the work on an *)
(* instruction; the rules that do not (2, 3, 4) are operators applied on   *)
(* the way (Forwarded).                                                    *)
(***************************************************************************)
EXTENDS AcuBytecode

CONSTANTS
  Programs,        (* the chunks the optimizer is given, as in AcuVM       *)
  RegWindow,       (* registers addressable by a function                  *)
  ShortMax,        (* largest offset of a fused jump, field sC (127)       *)
  LongMax,         (* largest offset of a conditional jump, sBx (32767)    *)
  MaxIterations,   (* MAX_ITERATIONS (32)                                  *)
  NoShift(_)       (* the shift immediates that shift by nothing           *)

VARIABLES
  work,       (* the chunk being optimized                                 *)
  targets,    (* is_target: the words control may jump to                  *)
  phase,      (* the pass that runs next                                   *)
  pos,        (* ip of the peephole pass                                   *)
  changed,    (* whether this iteration has changed the code               *)
  iter        (* iterations finished                                       *)

optVars == <<work, targets, phase, pos, changed, iter>>

Phases == {"collect", "dead code", "dead stores", "peephole", "strip", "done"}
-----------------------------------------------------------------------------
(* Tables.                                                                 *)

(* Mutant: a jump ends the liveness of a block as a return does.           *)
ExitsAndJumps == Terminators

FunctionExits == {"RET", "RET_VOID", "HALT", "TAILCALL"}

Exits == {"exit", "panic"}

(* purity <= ACU_PURITY_PURE in g_acu_syscall_table                        *)
PureSyscalls == {"clock", "math", "random"}

DivOps == {"DIV_S", "DIV_U", "REM_S", "REM_U"}

SelfZero == {"SUB", "XOR", "NEQ", "LT_S", "LT_U", "GT_S", "GT_U"}

SelfOne == {"EQ", "LTE_S", "LTE_U", "GTE_S", "GTE_U"}

Inverted(fn) ==
  CASE fn = "EQ"    -> "NEQ"   [] fn = "NEQ"   -> "EQ"
    [] fn = "LT_S"  -> "GTE_S" [] fn = "GTE_S" -> "LT_S"
    [] fn = "LT_U"  -> "GTE_U" [] fn = "GTE_U" -> "LT_U"
    [] fn = "LTE_S" -> "GT_S"  [] fn = "GT_S"  -> "LTE_S"
    [] fn = "LTE_U" -> "GT_U"  [] fn = "GT_U"  -> "LTE_U"

Opposite(op) == IF op = "JUMP_IF_TRUE" THEN "JUMP_IF_FALSE" ELSE "JUMP_IF_TRUE"
-----------------------------------------------------------------------------
(* Reading and rewriting the code of a chunk.                              *)

SysTerminator(ch, p) ==
  /\ ch.code[p].op \in SyscallOps
  /\ p + 1 < ch.size
  /\ ch.code[p + 1].fn \in Exits

IsInstructionTerminator(ch, p) ==
  ch.code[p].op \in Terminators \/ SysTerminator(ch, p)

(* The straight-line scans stop behind these.                              *)
EndsBlock(ch, p) == ch.code[p].op \in CondJumps \/ IsInstructionTerminator(ch, p)

CanDCE(i) ==
  \/ i.op \in {"NOP", "MOVE", "LOAD_IMM", "LOAD_CONST", "LOAD_STR", "LOAD_GLOBAL", "UNARY"}
  \/ i.op \in {"ALU", "ALU_IMM"} /\ i.fn \notin DivOps
  \/ i.op = "ALU_IMM" /\ i.fn \in {"DIV_S", "REM_S"} /\ i.c \notin {0, -1}
  \/ i.op = "ALU_IMM" /\ i.fn \in {"DIV_U", "REM_U"} /\ i.c # 0

IsInstructionPure(ch, p) ==
  IF ch.code[p].op \in SyscallOps
  THEN p + 1 < ch.size /\ ch.code[p + 1].fn \in PureSyscalls
  ELSE CanDCE(ch.code[p])

Write(ch, p, i) == [ch EXCEPT !.code[p] = i]

(* Every word of the instruction at p.                                     *)
Erase(ch, p) ==
  [ch EXCEPT !.code = [q \in DOMAIN @ |-> IF q \in p .. p + Slots(@[p].op) - 1 THEN Nop ELSE @[q]]]

WithOffset(i, d) ==
  CASE i.op = "JUMP"                              -> [i EXCEPT !.a = d]
    [] i.op \in {"JUMP_IF_TRUE", "JUMP_IF_FALSE"} -> [i EXCEPT !.b = d]
    [] OTHER                                      -> [i EXCEPT !.c = d]

(* The offsets an instruction can hold.                                    *)
Encodable(i, d) ==
  CASE i.op = "JUMP"                              -> TRUE
    [] i.op \in {"JUMP_IF_TRUE", "JUMP_IF_FALSE"} -> d \in -LongMax - 1 .. LongMax
    [] OTHER                                      -> d \in -ShortMax - 1 .. ShortMax

(* The jump at p lands on t instead, if its field can say so.              *)
Retarget(ch, p, t) ==
  LET i == ch.code[p]
      d == t - p - 1
  IN  IF Encodable(i, d) THEN Write(ch, p, WithOffset(i, d)) ELSE ch

TargetOf(ch, p) == JumpTarget(p, ch.code[p])

(* SubstituteReadReg: i reads register new wherever it read old.           *)
SubstituteReadReg(i, old, new) ==
  LET sub(r) == IF r = old THEN new ELSE r
  IN  CASE i.op \in WideOps -> IF i.c = 1 THEN [i EXCEPT !.b = sub(@)] ELSE i
        [] i.op \in {"RET", "JUMP_IF_TRUE", "JUMP_IF_FALSE", "JUMP_CMP_IMM", "STORE_GLOBAL"}
             -> [i EXCEPT !.a = sub(@)]
        [] i.op = "JUMP_CMP" -> [i EXCEPT !.a = sub(@), !.b = sub(@)]
        [] i.op \in {"MOVE", "UNARY", "ALU_IMM"} -> [i EXCEPT !.b = sub(@)]
        [] i.op = "ALU" -> [i EXCEPT !.b = sub(@), !.c = sub(@)]
        [] OTHER -> i

(* Mutant: the scan runs past conditional jumps.                           *)
IsRegDeadBelow(ch, T, from, reg) ==
  LET Dead[p \in Nat] ==
        IF p >= ch.size THEN TRUE
        ELSE LET i == ch.code[p]
             IN  CASE p \in T -> FALSE
                   [] OTHER ->
                        /\ reg \notin Reads(i)
                        /\ \/ reg \in Writes(i)
                           \/ i.op \in FunctionExits
                           \/ i.op \notin Terminators /\ Dead[p + Slots(i.op)]
  IN  Dead[from]

(* IsRegDeadAfter: a scan of the fall-through path only.                   *)
IsRegDeadAfter(ch, T, from, reg) ==
  LET Dead[p \in Nat] ==
        IF p >= ch.size THEN TRUE
        ELSE LET i == ch.code[p]
             IN  CASE p \in T -> FALSE
                   [] p \notin T /\ i.op = "NOP" -> Dead[p + 1]
                   [] OTHER ->
                        /\ reg \notin Reads(i)
                        /\ \/ reg \in Writes(i)
                           \/ i.op \in FunctionExits
                           \/ SysTerminator(ch, p)
                           \/ i.op \notin Terminators \union CondJumps /\ Dead[p + Slots(i.op)]
  IN  Dead[from]
-----------------------------------------------------------------------------
(* The passes.                                                             *)

JumpTargets(ch) ==
  {0} \union
  {t \in 0 .. ch.size :
     \E p \in 0 .. ch.size - 1 :
       \/ ch.code[p].op \in Jumps /\ t = TargetOf(ch, p)
       \/ ch.code[p].op \in BytecodeCalls /\ p + 1 < ch.size /\ t = ch.code[p + 1].a}

(* Mutant: jump targets do not end an unreachable stretch.                 *)
DeadText(ch, T) ==
  LET Prev(p) == IF ch.code[p - 1].op = "WORD" THEN p - 2 ELSE p - 1
      Unreachable[p \in Nat] ==
        p > 0 /\ (Unreachable[Prev(p)] \/ IsInstructionTerminator(ch, Prev(p)))
  IN  [ch EXCEPT !.code = [p \in DOMAIN @ |->
         IF Unreachable[IF @[p].op = "WORD" THEN p - 1 ELSE p] THEN Nop ELSE @[p]]]

(* What follows a terminator is unreachable up to the next target.         *)
DeadCode(ch, T) ==
  LET Prev(p) == IF ch.code[p - 1].op = "WORD" THEN p - 2 ELSE p - 1
      Unreachable[p \in Nat] ==
        /\ p > 0
        /\ p \notin T
        /\ Unreachable[Prev(p)] \/ IsInstructionTerminator(ch, Prev(p))
  IN  [ch EXCEPT !.code = [p \in DOMAIN @ |->
         IF Unreachable[IF @[p].op = "WORD" THEN p - 1 ELSE p] THEN Nop ELSE @[p]]]

(* Liveness backwards through each block; every register is live at its    *)
(* end unless the block leaves the function.  The instructions whose       *)
(* result is dead.                                                         *)
DeadResults(ch, T) ==
  LET AllRegs == 0 .. RegWindow - 1
      Leaves(p) == \/ ch.code[p].op \in FunctionExits
                   \/ ch.code[p].op = "SYSCALL" /\ SysTerminator(ch, p)
      Next(p) == p + Slots(ch.code[p].op)
      BlockEnd(p) == EndsBlock(ch, p) \/ Next(p) >= ch.size \/ Next(p) \in T
      Dead(p, out) == Writes(ch.code[p]) # {} /\ Writes(ch.code[p]) \cap out = {}
      LiveIn[p \in Nat] ==
        LET i   == ch.code[p]
            out == IF BlockEnd(p) THEN IF Leaves(p) THEN {} ELSE AllRegs ELSE LiveIn[Next(p)]
        IN  IF Dead(p, out) /\ IsInstructionPure(ch, p) THEN out
            ELSE (out \ Writes(i)) \union Reads(i)
      LiveOut(p) == IF BlockEnd(p) THEN IF Leaves(p) THEN {} ELSE AllRegs ELSE LiveIn[Next(p)]
  IN  {p \in 0 .. ch.size - 1 : ch.code[p].op # "WORD" /\ Dead(p, LiveOut(p))}

(* Pure ones are dropped, calls stay for what else they do.                *)
DeadStores(ch, T) ==
  LET dead == DeadResults(ch, T)
      drop == {p \in dead : IsInstructionPure(ch, p)}
      Rewrite(p) ==
        LET i == ch.code[p]
        IN  CASE p \in drop \/ (i.op = "WORD" /\ p - 1 \in drop) -> Nop
              [] p \in dead \ drop /\ i.op = "CALL"    -> [i EXCEPT !.op = "CALL_VOID", !.a = 0]
              [] p \in dead \ drop /\ i.op = "SYSCALL" -> [i EXCEPT !.op = "SYSCALL_VOID", !.a = 0]
              [] OTHER -> i
  IN  [ch EXCEPT !.code = [p \in DOMAIN @ |-> Rewrite(p)]]
-----------------------------------------------------------------------------
(* The peephole rules (ПРАВИЛО 1 - 11 of AcuOpt_PeepholePass).             *)

JumpsToNext(ch, p) == ch.code[p].op \in Jumps /\ TargetOf(ch, p) = p + 1

(* Rule 2: a JUMP_IF_FALSE to "r := 0; JUMP_IF_TRUE r" goes behind both.   *)
SkipFalseTest(ch, p) ==
  LET t == TargetOf(ch, p)
  IN  IF /\ ch.code[p].op = "JUMP_IF_FALSE"
         /\ t \in 0 .. ch.size - 2
         /\ ch.code[t].op = "LOAD_IMM" /\ ch.code[t].b = 0
         /\ ch.code[t + 1].op = "JUMP_IF_TRUE" /\ ch.code[t].a = ch.code[t + 1].a
      THEN Retarget(ch, p, t + 2)
      ELSE ch

(* Rule 3: a conditional jump to a JUMP goes where the JUMP goes.          *)
ChainConditional(ch, p) ==
  LET t == TargetOf(ch, p)
  IN  IF /\ ch.code[p].op \in CondJumps
         /\ t \in 0 .. ch.size - 1
         /\ ch.code[t].op = "JUMP"
         /\ TargetOf(ch, t) <= ch.size /\ TargetOf(ch, t) # t
      THEN Retarget(ch, p, TargetOf(ch, t))
      ELSE ch

(* Rule 4, TryForwardDefToMove: when the value the instruction at p writes *)
(* to tmp is later moved to final, write it to final and drop the MOVE.    *)
(* TheMove is where that MOVE is, or ch.size.                              *)
TheMove(ch, T, p) ==
  LET tmp == ch.code[p].a
      Scan[q \in Nat] ==
        IF q >= ch.size \/ q \in T THEN ch.size
        ELSE LET i == ch.code[q]
             IN  CASE i.op = "NOP"                                  -> Scan[q + 1]
                   [] i.op = "MOVE" /\ i.b = tmp /\ i.a = tmp       -> Scan[q + 1]
                   [] i.op = "MOVE" /\ i.b = tmp /\ i.a # tmp       -> q
                   [] OTHER -> IF tmp \in Reads(i) \union Writes(i) \/ EndsBlock(ch, q)
                               THEN ch.size ELSE Scan[q + Slots(i.op)]
  IN  Scan[p + Slots(ch.code[p].op)]

ForwardDefToMove(ch, T, p) ==
  LET i     == ch.code[p]
      m     == TheMove(ch, T, p)
      final == ch.code[m].a
  IN  IF /\ i.op \in WriteOps
         /\ m < ch.size
         /\ i.op \in BytecodeCalls => final \notin Reads(i)
         /\ \A q \in p + Slots(i.op) .. m - 1 :
              ch.code[q].op # "WORD" => final \notin Reads(ch.code[q]) \union Writes(ch.code[q])
         /\ IsRegDeadAfter(ch, T, m + 1, i.a)
      THEN Erase(Write(ch, p, [i EXCEPT !.a = final]), m)
      ELSE ch

Forwarded(ch, T, p) == ForwardDefToMove(ChainConditional(SkipFalseTest(ch, p), p), T, p)

(* Rule 5: a conditional jump over a JUMP.                                 *)
JumpsOverJump(ch, T, p) ==
  /\ ch.code[p].op \in {"JUMP_IF_TRUE", "JUMP_IF_FALSE"}
  /\ p + 1 < ch.size /\ p + 1 \notin T
  /\ ch.code[p + 1].op = "JUMP"
  /\ TargetOf(ch, p) = p + 2
  /\ TargetOf(ch, p + 1) <= ch.size /\ TargetOf(ch, p + 1) # p + 1
  /\ Encodable(ch.code[p], TargetOf(ch, p + 1) - p - 1)

(* Rule 6: a JUMP to a JUMP, or to a return.                               *)
ToReturn(ch, p) ==
  /\ ch.code[p].op = "JUMP"
  /\ TargetOf(ch, p) \in (0 .. ch.size - 1) \ {p}
  /\ ch.code[TargetOf(ch, p)].op \in {"RET", "RET_VOID"}

ToJump(ch, p) ==
  /\ ch.code[p].op = "JUMP"
  /\ TargetOf(ch, p) \in (0 .. ch.size - 1) \ {p}
  /\ LET t == TargetOf(ch, p)
     IN  /\ ch.code[t].op = "JUMP"
         /\ TargetOf(ch, t) <= ch.size /\ TargetOf(ch, t) \notin {t, p}

(* Rule 7: a call in tail position.                                        *)
TailCallAt(ch, T, p) ==
  /\ p + 2 < ch.size /\ p + 2 \notin T
  /\ LET call == ch.code[p]
         ret  == ch.code[p + 2]
     IN  \/ call.op = "CALL" /\ ret.op = "RET" /\ ret.a = call.a
         \/ call.op = "CALL_VOID" /\ ret.op = "RET_VOID"

(* The instruction at p and the conditional jump on its result.            *)
TestsResult(ch, T, p) ==
  /\ p + 1 < ch.size /\ p + 1 \notin T
  /\ ch.code[p + 1].op \in {"JUMP_IF_TRUE", "JUMP_IF_FALSE"}
  /\ ch.code[p + 1].a = ch.code[p].a

(* Rule 8: a comparison with zero and a jump on it test the operand.       *)
TestsZero(ch, T, p) ==
  /\ ch.code[p].op = "ALU_IMM" /\ ch.code[p].fn \in {"EQ", "NEQ"} /\ ch.code[p].c = 0
  /\ TestsResult(ch, T, p)


FuseZeroTest(ch, T, p) ==
  LET i     == ch.code[p]
      jump  == ch.code[p + 1]
      fused == [jump EXCEPT !.op = IF i.fn = "EQ" THEN Opposite(@) ELSE @, !.a = i.b]
      new   == Write(ch, p + 1, fused)
  IN  IF IsRegDeadAfter(new, T, p + 2, i.a) THEN Erase(new, p) ELSE new


(* Rule 9: copy propagation along the block behind a MOVE.                 *)
CopyRange(ch, T, p) ==
  LET dst == ch.code[p].a
      src == ch.code[p].b
      Scan[q \in Nat] ==
        IF q >= ch.size \/ q \in T THEN {}
        ELSE LET i == ch.code[q]
             IN  CASE i.op = "NOP" -> Scan[q + 1]
                   [] i.op # "NOP" /\ (Writes(i) \cap {src, dst} # {} \/ EndsBlock(ch, q)) -> {q}
                   [] OTHER -> {q} \union Scan[q + Slots(i.op)]
  IN  Scan[p + 1]

PropagateCopy(ch, T, p) ==
  [ch EXCEPT !.code = [q \in DOMAIN @ |->
     IF q \in CopyRange(ch, T, p) THEN SubstituteReadReg(@[q], ch.code[p].a, ch.code[p].b)
                                  ELSE @[q]]]

(* Rule 10: algebraic identities; an empty set when there is none.         *)
LoadImm(r, v) == Inst("LOAD_IMM", "NONE", r, v, 0)

MoveOrNop(d, s) == IF d = s THEN Nop ELSE Inst("MOVE", "NONE", d, s, 0)

Identity(i) ==
  CASE i.op = "ALU" /\ i.b = i.c /\ i.fn \in SelfZero -> {LoadImm(i.a, 0)}
    [] i.op = "ALU" /\ i.b = i.c /\ i.fn \in SelfOne  -> {LoadImm(i.a, 1)}
    [] \/ i.op = "ALU_IMM" /\ i.fn \in {"ADD", "SUB", "OR", "XOR"} /\ i.c = 0
       \/ i.op = "ALU_IMM" /\ i.fn = "MUL" /\ i.c = 1
       \/ i.op = "ALU_IMM" /\ i.fn \in {"SHL", "SHR_S", "SHR_U"} /\ NoShift(i.c)
         -> {MoveOrNop(i.a, i.b)}
    [] i.op = "ALU_IMM" /\ i.fn \in {"MUL", "AND"} /\ i.c = 0 -> {LoadImm(i.a, 0)}
    [] OTHER -> {}

(* Rule 11: a comparison and a jump on it become one instruction.          *)
FusedJump(ch, p) ==
  LET i    == ch.code[p]
      jump == ch.code[p + 1]
      fn   == IF jump.op = "JUMP_IF_TRUE" THEN i.fn ELSE Inverted(i.fn)
      d    == TargetOf(ch, p + 1) - p - 1
  IN  Inst(IF i.op = "ALU" THEN "JUMP_CMP" ELSE "JUMP_CMP_IMM", fn, i.b, i.c, d)

Fusible(ch, T, p) ==
  /\ ch.code[p].op \in {"ALU", "ALU_IMM"} /\ ch.code[p].fn \in CmpFns
  /\ TestsResult(ch, T, p)
  /\ IsRegDeadAfter(ch, T, p + 2, ch.code[p].a)
  /\ Encodable(FusedJump(ch, p), FusedJump(ch, p).c)

(* StripNopsAndRelocate: where the word at p goes.                         *)
Remap(ch, p) == Cardinality({q \in 0 .. p - 1 : q < ch.size /\ ch.code[q].op # "NOP"})

StripNops(ch) ==
  LET size   == Remap(ch, ch.size)
      old(n) == CHOOSE p \in 0 .. ch.size - 1 : ch.code[p].op # "NOP" /\ Remap(ch, p) = n
      move(n) ==
        LET p == old(n)
            i == ch.code[p]
            t == TargetOf(ch, p)
        IN  CASE i.op \in Jumps -> WithOffset(i, (IF t \in 0 .. ch.size THEN Remap(ch, t) ELSE size) - n - 1)
              [] i.op = "WORD" /\ ch.code[p - 1].op \in BytecodeCalls /\ i.a <= ch.size
                   -> [i EXCEPT !.a = Remap(ch, @)]
              [] OTHER -> i
  IN  [ch EXCEPT !.size = size,
                 !.code = [n \in 0 .. size - 1 |-> move(n)],
                 !.fn   = [n \in 0 .. size - 1 |-> @[old(n)]]]
-----------------------------------------------------------------------------
Start(ch) ==
  /\ work = ch
  /\ targets = {}
  /\ phase = IF work.size = 0 THEN "done" ELSE "collect"
  /\ pos = 0 /\ iter = 0
  /\ changed = FALSE

Init == \E ch \in Programs : Start(ch)

Pass(before, after, new) ==
  /\ phase = before /\ phase' = after
  /\ work' = new
  /\ changed' = (changed \/ new # work)

CollectJumpTargets ==
  /\ phase = "collect" /\ phase' = "dead code"
  /\ targets' = JumpTargets(work)
  /\ changed' = FALSE
  /\ UNCHANGED <<work, pos, iter>>

EliminateDeadCode ==
  /\ Pass("dead code", "dead stores", DeadCode(work, targets))
  /\ UNCHANGED <<targets, pos, iter>>

EliminateDeadStores ==
  /\ Pass("dead stores", "peephole", DeadStores(work, targets))
  /\ pos' = 0
  /\ UNCHANGED <<targets, iter>>

(* One round of the loop of PeepholePass.                                  *)
Peephole == phase = "peephole" /\ pos < work.size

Op == work.code[pos].op

(* The instruction at pos after the rules that let the others go on.       *)
Now == Forwarded(work, targets, pos)

Rewrite(new) ==
  /\ work' = new
  /\ pos' = pos + Slots(Op)
  /\ changed' = TRUE
  /\ UNCHANGED <<targets, phase, iter>>

SkipNop ==
  /\ Peephole /\ Op = "NOP"
  /\ pos' = pos + 1
  /\ UNCHANGED <<work, targets, phase, changed, iter>>

DropJumpToNext ==
  /\ Peephole /\ JumpsToNext(work, pos)
  /\ Rewrite(Erase(work, pos))

(* Rules 2 to 4 are done and none of 1 and 5 to 11 has been applied.       *)
Open == Peephole /\ Op # "NOP" /\ ~ JumpsToNext(work, pos)

InvertBranch ==
  /\ Open
  /\ JumpsOverJump(Now, targets, pos)
  /\ LET i == Now.code[pos]
         d == TargetOf(Now, pos + 1) - pos - 1
     IN  Rewrite(Erase(Write(Now, pos, [i EXCEPT !.op = Opposite(@), !.b = d]), pos + 1))

JumpToReturn ==
  /\ Open
  /\ ToReturn(Now, pos)
  /\ Rewrite(Write(Now, pos, Now.code[TargetOf(Now, pos)]))

ChainJumps ==
  /\ Open
  /\ ToJump(Now, pos)
  /\ Rewrite(Retarget(Now, pos, TargetOf(Now, TargetOf(Now, pos))))

MakeTailCall ==
  /\ Open
  /\ TailCallAt(Now, targets, pos)
  /\ Rewrite(Erase(Write(Now, pos, [Now.code[pos] EXCEPT !.op = "TAILCALL", !.a = 0]), pos + 2))

FuseTestOfZero ==
  /\ Open
  /\ TestsZero(Now, targets, pos)
  /\ Rewrite(FuseZeroTest(Now, targets, pos))

DropMove ==
  /\ Open /\ Op = "MOVE"
  /\ LET i   == Now.code[pos]
         new == PropagateCopy(Now, targets, pos)
     IN  /\ i.a = i.b \/ IsRegDeadAfter(new, targets, pos + 1, i.a)
         /\ Rewrite(Erase(IF i.a = i.b THEN Now ELSE new, pos))

PropagateMove ==
  /\ Open /\ Op = "MOVE"
  /\ LET i   == Now.code[pos]
         new == PropagateCopy(Now, targets, pos)
     IN  /\ i.a # i.b /\ ~ IsRegDeadAfter(new, targets, pos + 1, i.a)
         /\ new # Now
         /\ Rewrite(new)

Simplify ==
  /\ Open
  /\ ~ TestsZero(Now, targets, pos)
  /\ \E i \in Identity(Now.code[pos]) : Rewrite(Write(Now, pos, i))

FuseBranch ==
  /\ Open
  /\ ~ TestsZero(Now, targets, pos)
  /\ Identity(Now.code[pos]) = {}
  /\ Fusible(Now, targets, pos)
  /\ Rewrite(Erase(Write(Now, pos, FusedJump(Now, pos)), pos + 1))

(* No further rule applies.                                                *)
Keep ==
  /\ Open
  /\ ~ JumpsOverJump(Now, targets, pos) /\ ~ ToReturn(Now, pos) /\ ~ ToJump(Now, pos)
  /\ ~ TailCallAt(Now, targets, pos) /\ ~ TestsZero(Now, targets, pos)
  /\ Identity(Now.code[pos]) = {} /\ ~ Fusible(Now, targets, pos)
  /\ Op = "MOVE" => LET i   == Now.code[pos]
                        new == PropagateCopy(Now, targets, pos)
                    IN  i.a # i.b /\ new = Now /\ ~ IsRegDeadAfter(new, targets, pos + 1, i.a)
  /\ work' = Now
  /\ changed' = (changed \/ Now # work)
  /\ pos' = pos + Slots(Op)
  /\ UNCHANGED <<targets, phase, iter>>

EndPeephole ==
  /\ phase = "peephole" /\ pos >= work.size
  /\ phase' = "strip"
  /\ UNCHANGED <<work, targets, pos, changed, iter>>

(* The end of an iteration.                                                *)
Strip ==
  /\ phase = "strip"
  /\ work' = IF changed THEN StripNops(work) ELSE work
  /\ iter' = iter + 1
  /\ phase' = IF changed /\ iter + 1 < MaxIterations /\ work'.size > 0 THEN "collect" ELSE "done"
  /\ UNCHANGED <<targets, pos, changed>>

Rules ==
  \/ SkipNop \/ DropJumpToNext \/ InvertBranch \/ JumpToReturn \/ ChainJumps
  \/ MakeTailCall \/ FuseTestOfZero \/ DropMove \/ PropagateMove \/ Simplify
  \/ FuseBranch \/ Keep

Next ==
  \/ CollectJumpTargets \/ EliminateDeadCode \/ EliminateDeadStores
  \/ Rules \/ EndPeephole \/ Strip

(* AcuChunk_Optimize runs to its end in one call.                          *)
Spec == Init /\ [][Next]_optVars /\ WF_optVars(Next)
-----------------------------------------------------------------------------
(* Properties                                                              *)

(* Every iteration leaves code the VM can run: whole instructions, jumps   *)
(* and calls relocated to the instructions they meant, no function that    *)
(* runs into the next one (StripNopsAndRelocate after all the passes).     *)
StaysWellFormed == phase \in {"collect", "done"} => WellFormed(work)

Successors(ch, p) ==
  LET i == ch.code[p]
  IN  ((IF i.op \in Jumps THEN {TargetOf(ch, p)} ELSE {}) \union
       (IF IsInstructionTerminator(ch, p) THEN {} ELSE {p + Slots(i.op)}))
      \cap (0 .. ch.size - 1)

(* A MOVE of a register to itself, which the rules leave behind at times:  *)
(* nothing is lost when its register is.                                   *)
MovesNothing(i) == i.op = "MOVE" /\ i.a = i.b

Needs(i) == IF MovesNothing(i) THEN {} ELSE Reads(i)

Defines(i) == IF MovesNothing(i) THEN {} ELSE Writes(i)

(* Register r, as it is behind p, may be needed: the definition of         *)
(* liveness over all paths.                                                *)
LiveAfter(ch, p, r) ==
  LET Reach[n \in Nat] ==
        IF n = 0 THEN Successors(ch, p)
        ELSE LET before == Reach[n - 1]
             IN  before \union
                 UNION {Successors(ch, q) : q \in {q \in before : r \notin Defines(ch.code[q])}}
  IN  \E q \in Reach[ch.size] : r \in Needs(ch.code[q])

(* The definition of a register is taken away from an instruction only     *)
(* when no path needs it: by a peephole rule from the instruction it       *)
(* rewrites (what the comments of rules 4 and 9 call guaranteed dead, and  *)
(* what the straight scan of IsRegDeadAfter has to establish), and by      *)
(* EliminateDeadStores, which looks at one block at a time, from any.      *)
DropsOnlyDead ==
  [][/\ phase = "peephole" /\ phase' = "peephole" =>
          \A r \in Writes(work.code[pos]) \ Reads(work.code[pos]) :
            r \in Writes(work'.code[pos]) \/ ~ LiveAfter(work', pos, r)
     /\ phase = "dead stores" =>
          \A p \in 0 .. work.size - 1 : \A r \in Writes(work.code[p]) \cap (0 .. RegWindow - 1) :
            r \in Writes(work'.code[p]) \/ ~ LiveAfter(work', p, r)]_optVars
=============================================================================
