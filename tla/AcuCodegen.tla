----------------------------- MODULE AcuCodegen -----------------------------
(***************************************************************************)
(* The code generator (src/codegen): one walk over the tree that emits     *)
(* bytecode, allocates registers, folds constants and patches jumps as it  *)
(* goes.  Every Emit operator takes the generator's state cg, a record     *)
(*   code, owner  the words emitted and the function each belongs to       *)
(*   consts       the constant pool                                        *)
(*   pure         the functions flagged ACU_SYMBOL_FLAG_PURE               *)
(*   locals       bindings [sym, reg], innermost last                      *)
(*   loops        open loops [start, breaks, target, reg], innermost last  *)
(*   patches      calls [at, fn] whose target is not known yet             *)
(*   regs         the registers in use                                     *)
(*   cached, cachedReg   last_stored_global and last_stored_reg            *)
(*   fn           the function being compiled, 0 for module-level code     *)
(*   offsets      the first word of each function compiled so far          *)
(*   tail, tailed is_tail_pos and self_tail_emitted                        *)
(*   res          the target the last Emit has returned                    *)
(*   fault        the first assertion or panic that failed, "NONE" if none *)
(* and returns the state it leaves.  A target is a register, AUTO (any     *)
(* register) or NO_TARGET (no value wanted).                               *)
(***************************************************************************)
EXTENDS AcuTree, AcuBytecode, AcuAlu, FiniteSetsExt

CONSTANTS
  WideBits,    (* width of the Bx field of an instruction (16)             *)
  RegCount     (* registers a function can address (256)                   *)

AUTO == -1

NO_TARGET == -2

IsRealReg(t) == t >= 0

NoGlobal == -1

SMin == -(M \div 2)

(* What a signed field of w bits holds.                                    *)
Fits(w, s) == s \in -(2 ^ (w - 1)) .. 2 ^ (w - 1) - 1
-----------------------------------------------------------------------------
(* Opcode tables                                                           *)

Commutative == {"ADD", "MUL", "AND", "OR", "XOR", "EQ", "NEQ"}

InvertComparison ==
  [op \in {"LT", "LTE", "GT", "GTE"} |->
     CASE op = "LT" -> "GT" [] op = "LTE" -> "GTE" [] op = "GT" -> "LT" [] op = "GTE" -> "LTE"]

BinaryOpcode(op, u) ==
  CASE op = "DIV" -> IF u THEN "DIV_U" ELSE "DIV_S"
    [] op = "REM" -> IF u THEN "REM_U" ELSE "REM_S"
    [] op = "SHR" -> IF u THEN "SHR_U" ELSE "SHR_S"
    [] op = "LT"  -> IF u THEN "LT_U" ELSE "LT_S"
    [] op = "LTE" -> IF u THEN "LTE_U" ELSE "LTE_S"
    [] op = "GT"  -> IF u THEN "GT_U" ELSE "GT_S"
    [] op = "GTE" -> IF u THEN "GTE_U" ELSE "GTE_S"
    [] OTHER      -> op

(* Integer types: i64 and u64 are as wide as a register, i32 and u32 stand *)
(* for the narrower ones.                                                  *)
TypeBits(ty) == IF ty \in {"i64", "u64"} THEN WordBits ELSE HalfBits

IsSignedType(ty) == ty \in {"i64", "i32"}

CastOpcode(unsigned, bits, to) ==
  LET t == TypeBits(to)
  IN  CASE t < bits -> "TRUNC"
        [] t > bits -> IF unsigned THEN "ZEXT" ELSE "SEXT"
        [] t = bits /\ bits < WordBits /\ IsSignedType(to) = unsigned -> IF unsigned THEN "SEXT" ELSE "ZEXT"
        [] OTHER -> "NOP"
-----------------------------------------------------------------------------
(* const_eval.c: the value of a constant expression, computed in signed    *)
(* arithmetic.                                                             *)

NoConst == [kind |-> "none", val |-> 0]

ConstInt(x) == [kind |-> "int", val |-> x]

ConstBool(b) == [kind |-> "bool", val |-> Bit(b)]

FoldUnary(op, x) ==
  CASE op = "PLUS" -> x
    [] op = "NEG" /\ x.kind = "int" -> IF x.val = SMin THEN NoConst ELSE ConstInt(-x.val)
    [] op = "LNOT" /\ x.kind # "none" -> ConstBool(x.val = 0)
    [] op = "NOT" /\ x.kind = "int" -> ConstInt(-x.val - 1)
    [] OTHER -> NoConst

FoldBools(op, a, b) ==
  CASE op \in {"LAND", "AND"} -> ConstBool(a = 1 /\ b = 1)
    [] op \in {"LOR", "OR"}   -> ConstBool(a = 1 \/ b = 1)
    [] op \in {"XOR", "NEQ"}  -> ConstBool(a # b)
    [] op = "EQ"              -> ConstBool(a = b)
    [] OTHER                  -> NoConst

FoldInts(op, u, a, b) ==
  LET Folded(fn) == ConstInt(Signed(AluValue(fn, U(a), U(b))))
  IN  CASE op \in {"ADD", "SUB", "MUL", "AND", "OR", "XOR"} -> Folded(op)
        [] op \in {"DIV", "REM"} ->
             IF b = 0 \/ (a = SMin /\ b = -1) THEN NoConst ELSE Folded(BinaryOpcode(op, FALSE))
        [] op = "POW" -> IF b < 0 THEN NoConst ELSE Folded("POW")
        [] op = "SHL" -> IF b \notin 0 .. WordBits - 1 THEN NoConst ELSE Folded("SHL")
        [] op = "SHR" -> IF b \notin 0 .. WordBits - 1 THEN NoConst ELSE Folded(BinaryOpcode("SHR", u))
        [] op \in {"EQ", "NEQ", "LT", "LTE", "GT", "GTE"} ->
             ConstBool(CmpHolds(BinaryOpcode(op, FALSE), U(a), U(b)))
        [] OTHER -> NoConst

FoldCast(to, x) ==
  CASE x.kind = "none" -> NoConst
    [] TypeBits(to) = WordBits -> ConstInt(x.val)
    [] OTHER -> ConstInt(IF IsSignedType(to) THEN SignedLow(HalfBits, x.val) ELSE Low(HalfBits, x.val))

RECURSIVE EvalConst(_)
EvalConst(n) ==
  CASE n.k = "literal" -> ConstInt(Signed(n.v))
    [] n.k = "unary"   -> FoldUnary(n.op, EvalConst(n.kids[1]))
    [] n.k = "cast"    -> FoldCast(n.op, EvalConst(n.kids[1]))
    [] n.k = "binary"  ->
         LET l == EvalConst(n.kids[1])  r == EvalConst(n.kids[2])
         IN  CASE l.kind = "bool" /\ r.kind = "bool" -> FoldBools(n.op, l.val, r.val)
               [] l.kind = "int" /\ r.kind = "int"   -> FoldInts(n.op, n.u, l.val, r.val)
               [] OTHER                              -> NoConst
    [] n.k = "syscall" /\ n.op = "math" ->
         LET x == EvalConst(n.kids[1])
         IN  IF x.kind = "none" THEN NoConst ELSE ConstInt(Signed(AluValue("NEG", U(x.val), 0)))
    [] OTHER -> NoConst

(* A division is pure when its divisor is a constant that cannot trap.     *)
DivisorIsSafe(n) ==
  LET l == EvalConst(n.kids[1])  r == EvalConst(n.kids[2])
  IN  /\ r.kind = "int" /\ r.val # 0
      /\ ~ n.u /\ r.val = -1 => l.kind = "int" /\ l.val # SMin

RECURSIVE IsPure(_, _)
IsPure(pure, n) ==
  LET KidsPure == \A i \in KidIdx(n) : IsPure(pure, n.kids[i])
  IN  CASE n.k \in {"absent", "literal", "local", "global", "unary", "cast", "if"} -> KidsPure
        [] n.k = "binary" -> KidsPure /\ (n.op \in {"DIV", "REM"} => DivisorIsSafe(n))
        [] n.k = "while"  -> EvalConst(n.kids[1]) = ConstBool(FALSE) /\ IsPure(pure, n.kids[1])
        [] n.k = "call"   -> n.v \in pure /\ KidsPure
        [] OTHER          -> FALSE
-----------------------------------------------------------------------------
(* Words                                                                   *)

(* The address of the next word.                                           *)
Here(cg) == Len(cg.code)

Emit(cg, i) == [cg EXCEPT !.code = Append(@, i), !.owner = Append(@, cg.fn)]

EmitWide(cg, i, payload) == Emit(Emit(cg, i), payload)

(* A jump at word p to word q.                                             *)
JumpTo(i, p, q) ==
  IF i.op = "JUMP" THEN [i EXCEPT !.a = q - p - 1] ELSE [i EXCEPT !.b = q - p - 1]

EmitJump(cg, q) == Emit(cg, JumpTo(Inst("JUMP", "NONE", 0, 0, 0), Here(cg), q))

(* Mutant: the offset is counted from the jump itself.                     *)
PatchFromJump(cg, p) == [cg EXCEPT !.code[p + 1] = JumpTo(@, p - 1, Here(cg))]

(* The jump emitted at word p lands on the next word.                      *)
PatchJump(cg, p) == [cg EXCEPT !.code[p + 1] = JumpTo(@, p, Here(cg))]

(* AcuConstantPool_InternU64: the index of a constant, added when new.     *)
Intern(cg, x) ==
  IF \E i \in DOMAIN cg.consts : cg.consts[i] = x THEN cg ELSE [cg EXCEPT !.consts = Append(@, x)]

ConstIdx(cg, x) == CHOOSE i \in DOMAIN cg.consts : cg.consts[i] = x

EmitConst(cg, r, x) == LET c == Intern(cg, x) IN Emit(c, Inst("LOAD_CONST", "NONE", r, ConstIdx(c, x), 0))

EmitMove(cg, d, s) == IF d = s THEN cg ELSE Emit(cg, Inst("MOVE", "NONE", d, s, 0))

EmitLoadImm(cg, r, v) == Emit(cg, Inst("LOAD_IMM", "NONE", r, v, 0))
-----------------------------------------------------------------------------
(* Registers                                                               *)

Result(cg, t) == [cg EXCEPT !.res = t]

Fault(cg, what) == [cg EXCEPT !.fault = IF @ = "NONE" THEN what ELSE @]

InvalidateGlobalCache(cg) == [cg EXCEPT !.cached = NoGlobal]

MarkUsed(cg, r) == [cg EXCEPT !.regs = @ \union {r}]

FreeReg(cg, r) == [cg EXCEPT !.regs = @ \ {r}]

IsLocalReg(cg, r) == \E i \in DOMAIN cg.locals : cg.locals[i].reg = r

HasLocal(cg, x) == \E i \in DOMAIN cg.locals : cg.locals[i].sym = x

FindLocal(cg, x) == cg.locals[Max({i \in DOMAIN cg.locals : cg.locals[i].sym = x})].reg

(* A register that was only a temporary is given back.                     *)
FreeTemp(cg, r) == IF IsLocalReg(cg, r) THEN cg ELSE FreeReg(cg, r)

(* r is about to be overwritten: marked, and forgotten as a copy of a      *)
(* global.                                                                 *)
Claim(cg, r) ==
  LET c == [cg EXCEPT !.regs = @ \union {r}, !.res = r]
  IN  IF c.cachedReg = r THEN InvalidateGlobalCache(c) ELSE c

(* AcuRegSet_Alloc hands out register 0 when none is free.                 *)
AllocReg(cg) ==
  LET free == (0 .. RegCount - 1) \ cg.regs
  IN  Claim(cg, IF free = {} THEN 0 ELSE Min(free))

ResolveTarget(cg, t) == IF IsRealReg(t) THEN Claim(cg, t) ELSE AllocReg(cg)

(* AcuTarget_ToRealReg asserts that the result is a register; without      *)
(* assertions it returns the low byte of the target's code.                *)
ToRealReg(cg) ==
  CASE IsRealReg(cg.res) -> cg
    [] cg.res = AUTO      -> Fault(Result(cg, 0), "NOT_A_REGISTER")
    [] cg.res = NO_TARGET -> Fault(Result(cg, 1), "NOT_A_REGISTER")

(* Operands in temporaries are overwritten by the result, unless the       *)
(* caller names another register.                                          *)
ReuseOr(cg, t) == IF t = AUTO /\ ~ IsLocalReg(cg, cg.res) THEN cg ELSE ResolveTarget(cg, t)

(* Mutant: the window goes where there is room first, even below a         *)
(* register in use (AcuRegSet_AllocContiguous).                            *)
AllocCallWindowInGap(cg, count) ==
  LET free == {l \in 0 .. RegCount : (l .. l + count - 1) \cap cg.regs = {}}
      low  == Min(free)
      c    == [cg EXCEPT !.regs = @ \union (low .. low + count - 1), !.res = low % RegCount]
  IN  IF low + count > RegCount THEN Fault(c, "NO_REGISTERS") ELSE c

(* The window of a call lies above every register in use.                  *)
AllocCallWindow(cg, count) ==
  LET low == IF cg.regs = {} THEN 0 ELSE Max(cg.regs) + 1
      c   == [cg EXCEPT !.regs = @ \union (low .. low + count - 1), !.res = low % RegCount]
  IN  IF low + count > RegCount THEN Fault(c, "NO_REGISTERS") ELSE c

NotTail(cg) == [cg EXCEPT !.tail = FALSE]

InTail(cg, b) == [cg EXCEPT !.tail = b]
-----------------------------------------------------------------------------
RECURSIVE EmitExpr(_, _, _)

(* Only what the expression does is wanted.                                *)
EmitEffects(cg, n) ==
  Result(IF IsPure(cg.pure, n) THEN cg ELSE EmitExpr(cg, n, NO_TARGET), NO_TARGET)

(* The value of n is brought into register r, wherever it was.             *)
MoveInto(cg, r) ==
  LET c == ToRealReg(cg)
  IN  Result(IF c.res = r THEN c ELSE FreeTemp(EmitMove(c, r, c.res), c.res), r)

(* Results: the value of register r, where the caller wants it.            *)
Deliver(cg, r, t) ==
  CASE t = NO_TARGET      -> Result(cg, NO_TARGET)
    [] t \in {AUTO, r}    -> Result(cg, r)
    [] OTHER              -> LET c == ResolveTarget(cg, t) IN EmitMove(c, c.res, r)

(* An instruction on the value just compiled; its registers are filled in. *)
EmitOn(cg, t, i) ==
  LET src == ToRealReg(cg)
      d   == ReuseOr(src, t)
      c   == Emit(d, [i EXCEPT !.a = d.res, !.b = src.res])
  IN  IF d.res = src.res THEN c ELSE FreeTemp(c, src.res)

EmitConstImm(cg, v, t) ==
  IF t = NO_TARGET THEN Result(cg, NO_TARGET)
  ELSE LET c == ResolveTarget(cg, t) IN EmitLoadImm(c, c.res, v)

EmitImmOp(cg, n, fn, imm, t) ==
  IF t = NO_TARGET THEN EmitEffects(cg, n)
  ELSE EmitOn(EmitExpr(cg, n, AUTO), t, Inst("ALU_IMM", fn, 0, 0, imm))

EmitUnaryOp(cg, n, fn, t) ==
  IF t = NO_TARGET THEN EmitEffects(cg, n)
  ELSE LET c == EmitExpr(cg, n, AUTO)
       IN  IF Never(n) THEN c ELSE EmitOn(c, t, Inst("UNARY", fn, 0, 0, 0))

EmitLiteral(cg, v, t) ==
  IF t = NO_TARGET THEN Result(cg, NO_TARGET)
  ELSE LET c == ResolveTarget(cg, t)
       IN  IF v < 2 ^ (WideBits - 1) THEN EmitLoadImm(c, c.res, v) ELSE EmitConst(c, c.res, v)

EmitFoldedConstant(cg, x, t) ==
  IF t = NO_TARGET THEN Result(cg, NO_TARGET)
  ELSE LET c == ResolveTarget(cg, t)
       IN  IF Fits(WideBits, x.val) THEN EmitLoadImm(c, c.res, x.val) ELSE EmitConst(c, c.res, U(x.val))

EmitLocalRead(cg, x, t) ==
  IF t = NO_TARGET \/ ~ HasLocal(cg, x) THEN Result(cg, NO_TARGET) ELSE Deliver(cg, FindLocal(cg, x), t)

(* A global that was just stored is still in its register.                 *)
EmitGlobalRead(cg, g, t) ==
  CASE t = NO_TARGET -> Result(cg, NO_TARGET)
    [] t # NO_TARGET /\ cg.cached = g -> Deliver(MarkUsed(cg, cg.cachedReg), cg.cachedReg, t)
    [] OTHER -> LET c == ResolveTarget(cg, t) IN Emit(c, Inst("LOAD_GLOBAL", "NONE", c.res, g, 0))

StoreGlobal(cg, r, g) ==
  [Emit(cg, Inst("STORE_GLOBAL", "NONE", r, g, 0)) EXCEPT !.cached = g, !.cachedReg = r]
-----------------------------------------------------------------------------
(* Binary operators                                                        *)

(* A literal moves to the right where the operator allows it.              *)
Canonical(n) ==
  LET l == n.kids[1]  r == n.kids[2]
  IN  CASE ~ (l.k = "literal" /\ r.k # "literal") -> n
        [] n.op \in Commutative                   -> [n EXCEPT !.kids = <<r, l>>]
        [] n.op \in DOMAIN InvertComparison       -> [n EXCEPT !.kids = <<r, l>>, !.op = InvertComparison[n.op]]
        [] OTHER                                  -> n

IsSameExpr(l, r) == l.k \in {"local", "global"} /\ l = r

IsPowerOfTwo(x) == \E i \in 0 .. WordBits - 1 : x = 2 ^ i

Log2(x) == CHOOSE i \in 0 .. WordBits - 1 : x = 2 ^ i

(* What a binary node is reduced to: a constant k, one of its operands, or *)
(* one operation on it.                                                    *)
NotReduced == [how |-> "none", n |-> Absent, fn |-> "NONE", k |-> 0]

ToConst(n, k) == [how |-> "const", n |-> n, fn |-> "NONE", k |-> k]

ToOperand(n) == [how |-> "operand", n |-> n, fn |-> "NONE", k |-> 0]

ToUnary(n, fn) == [how |-> "unary", n |-> n, fn |-> fn, k |-> 0]

ToImm(n, fn, k) == [how |-> "imm", n |-> n, fn |-> fn, k |-> k]

ReduceSame(op, l) ==
  CASE op \in {"SUB", "XOR", "NEQ", "LT", "GT"} -> ToConst(l, 0)
    [] op \in {"EQ", "LTE", "GTE"}              -> ToConst(l, 1)
    [] op \in {"AND", "OR"}                     -> ToOperand(l)
    [] OTHER                                    -> NotReduced

ReduceLeft(op, l, r) ==
  LET s == Signed(l.v)
  IN  CASE op = "SUB" /\ s = 0 -> ToUnary(r, "NEG")
        [] op = "SUB" /\ s # 0 /\ Fits(ImmBits, s) -> ToImm(r, "RSUB", s)
        [] OTHER -> NotReduced

ReduceRight(op, u, l, v) ==
  CASE v = 0 /\ op \in {"ADD", "SUB", "SHL", "SHR", "OR", "XOR"} -> ToOperand(l)
    [] v = 0 /\ op \in {"MUL", "AND"}             -> ToConst(l, 0)
    [] v = 0 /\ op = "POW"                        -> ToConst(l, 1)
    [] v = 1 /\ op \in {"MUL", "DIV", "POW"}      -> ToOperand(l)
    [] v = M - 1 /\ op = "MUL"                    -> ToUnary(l, "NEG")
    [] v = M - 1 /\ op = "AND"                    -> ToOperand(l)
    [] v = M - 1 /\ op = "XOR"                    -> ToUnary(l, "NOT")
    [] op = "MUL" /\ v \in 2 .. M \div 2 - 1 /\ IsPowerOfTwo(v) -> ToImm(l, "SHL", Log2(v))
    [] op = "DIV" /\ u /\ v > 1 /\ IsPowerOfTwo(v) -> ToImm(l, "SHR_U", Log2(v))
    [] op = "REM" /\ u /\ IsPowerOfTwo(v)         ->
         IF v <= 2 ^ (ImmBits - 1) THEN ToImm(l, "AND", v - 1)
         ELSE [how |-> "mask", n |-> l, fn |-> "NONE", k |-> v - 1]
    [] op = "POW" /\ v = 2                        -> [how |-> "square", n |-> l, fn |-> "NONE", k |-> 0]
    [] OTHER                                      -> NotReduced

Reduction(n) ==
  LET l == n.kids[1]  r == n.kids[2]
      same == IF IsSameExpr(l, r) THEN ReduceSame(n.op, l) ELSE NotReduced
      left == IF l.k = "literal" THEN ReduceLeft(n.op, l, r) ELSE NotReduced
  IN  CASE same # NotReduced -> same
        [] same = NotReduced /\ left # NotReduced -> left
        [] same = NotReduced /\ left = NotReduced /\ r.k = "literal" -> ReduceRight(n.op, n.u, l, r.v)
        [] OTHER -> NotReduced

(* x ** 2: the square goes to a register of its own.                       *)
EmitSquare(cg, n, t) ==
  IF t = NO_TARGET THEN EmitEffects(cg, n)
  ELSE LET src == ToRealReg(EmitExpr(cg, n, AUTO))
           d   == ResolveTarget(src, t)
           c   == Emit(d, Inst("ALU", "MUL", d.res, src.res, src.res))
       IN  IF d.res = src.res THEN c ELSE FreeTemp(c, src.res)

(* x % 2^k where the mask is no immediate.                                 *)
EmitMask(cg, n, mask, t) ==
  IF t = NO_TARGET THEN EmitEffects(cg, n)
  ELSE LET src == ToRealReg(EmitExpr(cg, n, AUTO))
           d   == ReuseOr(src, t)
           m   == AllocReg(d)
           ld  == IF Fits(WideBits, mask) THEN EmitLoadImm(m, m.res, mask) ELSE EmitConst(m, m.res, mask)
           c   == Result(FreeReg(Emit(ld, Inst("ALU", "AND", d.res, src.res, m.res)), m.res), d.res)
       IN  IF d.res = src.res THEN c ELSE FreeTemp(c, src.res)

EmitReduced(cg, red, t) ==
  CASE red.how = "const"   -> EmitConstImm(EmitEffects(cg, red.n), red.k, t)
    [] red.how = "operand" -> EmitExpr(cg, red.n, t)
    [] red.how = "unary"   -> EmitUnaryOp(cg, red.n, red.fn, t)
    [] red.how = "imm"     -> EmitImmOp(cg, red.n, red.fn, red.k, t)
    [] red.how = "mask"    -> EmitMask(cg, red.n, red.k, t)
    [] red.how = "square"  -> EmitSquare(cg, red.n, t)

IsImm(n) == n.k = "literal" /\ Fits(ImmBits, Signed(n.v))

(* Both operands in registers; the result replaces the left one if it can. *)
EmitBinaryRegs(cg, n, t, tail) ==
  LET l   == ToRealReg(cg)
      r0  == EmitExpr(l, n.kids[2], AUTO)
      r   == ToRealReg(r0)
      d   == ReuseOr(Result(r, l.res), t)
      c   == Emit(d, Inst("ALU", BinaryOpcode(n.op, n.u), d.res, l.res, r.res))
      c1  == IF d.res = l.res THEN c ELSE FreeTemp(c, l.res)
  IN  IF Never(n.kids[2]) THEN FreeTemp(r0, l.res)
      ELSE InTail(IF r.res \in {d.res, l.res} THEN c1 ELSE FreeTemp(c1, r.res), tail)

EmitArithmetic(cg, node, t) ==
  LET n    == Canonical(node)
      red  == Reduction(n)
      imm  == IsImm(n.kids[2])
      i    == Inst("ALU_IMM", BinaryOpcode(n.op, n.u), 0, 0, Signed(n.kids[2].v))
      c    == NotTail(cg)
      left == EmitExpr(c, n.kids[1],
                IF imm /\ n.kids[1].k \notin {"local", "global"} THEN t ELSE AUTO)
  IN  IF t = NO_TARGET THEN EmitEffects(EmitEffects(c, node.kids[1]), node.kids[2])
      ELSE IF red # NotReduced THEN EmitReduced(c, red, t)
      ELSE IF Never(n.kids[1]) THEN left
      ELSE IF imm THEN EmitOn(left, t, i)
      ELSE EmitBinaryRegs(left, n, t, cg.tail)

(* a && b and a || b: the branch over b is taken when a decides.           *)
EmitLogical(cg, n, t) ==
  LET and    == n.op = "LAND"
      Branch(r) == Inst(IF and THEN "JUMP_IF_FALSE" ELSE "JUMP_IF_TRUE", "NONE", r, 0, 0)
      d      == IF t = NO_TARGET THEN cg ELSE ResolveTarget(cg, t)
      l      == ToRealReg(EmitExpr(NotTail(d), n.kids[1], AUTO))
      br     == FreeTemp(Emit(l, Branch(l.res)), l.res)
      noVal  == PatchJump(EmitExpr(br, n.kids[2], NO_TARGET), Here(l))
      r      == MoveInto(EmitExpr(br, n.kids[2], d.res), d.res)
      skip   == PatchJump(EmitJump(r, 0), Here(l))
      short  == PatchJump(EmitLoadImm(skip, d.res, IF and THEN 0 ELSE 1), Here(r))
  IN  InTail(IF t = NO_TARGET THEN Result(noVal, NO_TARGET)
             ELSE Result(MarkUsed(short, d.res), d.res), cg.tail)
-----------------------------------------------------------------------------
(* Casts, declarations and assignments                                     *)

EmitTypeCast(cg, n, t) ==
  LET e  == n.kids[1]
      op == CastOpcode(n.u, n.v, n.op)
  IN  IF op = "NOP" /\ t # NO_TARGET THEN EmitExpr(cg, e, t) ELSE EmitUnaryOp(cg, e, op, t)

EmitUnary(cg, n, t) ==
  IF n.op = "PLUS" THEN EmitExpr(cg, n.kids[1], t) ELSE EmitUnaryOp(cg, n.kids[1], n.op, t)

(* A declaration binds its variable before its initialiser is compiled.    *)
EmitVarDecl(cg, n, t) ==
  LET r == AllocReg(cg)
      b == [r EXCEPT !.locals = Append(@, [sym |-> n.v, reg |-> r.res])]
      c == EmitExpr(b, n.kids[1], r.res)
  IN  IF Never(n.kids[1]) THEN c ELSE Deliver(MoveInto(c, r.res), r.res, t)

(* Global declarations are always statements.                              *)
EmitGlobalDecl(cg, n) ==
  LET e == EmitExpr(cg, n.kids[1], AUTO)
      c == ToRealReg(e)
  IN  IF Never(n.kids[1]) THEN e
      ELSE Result(FreeTemp(StoreGlobal(c, c.res, n.v), c.res), NO_TARGET)

ImmAssigns == {"ADD", "SUB", "MUL", "POW", "AND", "OR", "XOR", "SHL", "SHR"}

(* r op= n, the operand an immediate if it can be.                         *)
EmitCompound(cg, n, r) ==
  LET e  == n.kids[1]
      fn == BinaryOpcode(n.op, n.u)
      v  == EmitExpr(cg, e, AUTO)
      c  == ToRealReg(v)
  IN  IF n.op \in ImmAssigns /\ e.k = "literal" /\ e.v < 2 ^ (ImmBits - 1)
      THEN Emit(cg, Inst("ALU_IMM", fn, r, r, e.v))
      ELSE IF Never(e) THEN v
      ELSE FreeTemp(Emit(c, Inst("ALU", fn, r, r, c.res)), c.res)

EmitAssign(cg, n, t) ==
  LET e == n.kids[1]
      r == FindLocal(cg, n.v)
      v == EmitExpr(cg, e, r)
  IN  IF ~ HasLocal(cg, n.v) THEN Result(cg, NO_TARGET)
      ELSE IF n.op = "EQ" THEN IF Never(e) THEN v ELSE Deliver(MoveInto(v, r), r, t)
      ELSE IF Never(e) THEN EmitCompound(cg, n, r)
      ELSE Deliver(EmitCompound(cg, n, r), r, t)

(* The value of an assignment to a global is left in the register it was   *)
(* stored from, which the cache keeps pointing to after it is freed.       *)
EmitGlobalAssign(cg, n, t) ==
  LET e    == n.kids[1]
      eq   == n.op = "EQ"
      a    == AllocReg(cg)
      load == Emit(a, Inst("LOAD_GLOBAL", "NONE", a.res, n.v, 0))
      v    == IF eq THEN EmitExpr(cg, e, AUTO) ELSE EmitCompound(load, n, a.res)
      w    == IF eq THEN ToRealReg(v) ELSE Result(v, a.res)
      s    == StoreGlobal(w, w.res, n.v)
      temp == ~ eq \/ ~ IsLocalReg(w, w.res)
      Done(c) == IF temp THEN FreeReg(c, w.res) ELSE c
      d    == ResolveTarget(s, t)
  IN  IF Never(e) THEN IF eq THEN v ELSE FreeReg(v, a.res)
      ELSE IF t = NO_TARGET THEN Result(Done(s), NO_TARGET)
      ELSE IF t \in {AUTO, w.res} THEN IF t = AUTO THEN Result(s, w.res) ELSE d
      ELSE Done(EmitMove(d, d.res, w.res))
-----------------------------------------------------------------------------
(* Blocks and branches                                                     *)

(* The statements of a block from the i-th on; only the last one may be in *)
(* tail position or deliver a value.                                       *)
RECURSIVE EmitStatements(_, _, _, _, _)
EmitStatements(cg, stmts, i, t, tail) ==
  LET last == i = Len(stmts)
      s    == stmts[i]
      c    == EmitExpr(InTail(cg, last /\ tail), s, IF last THEN t ELSE NO_TARGET)
  IN  IF ~ last /\ s.k # "var" /\ IsPure(cg.pure, s) THEN EmitStatements(cg, stmts, i + 1, t, tail)
      ELSE IF last \/ Never(s) THEN c
      ELSE EmitStatements(c, stmts, i + 1, t, tail)

(* The block's locals and temporaries are given back; its result stays.    *)
EmitBlock(cg, n, t) ==
  LET c    == EmitStatements(cg, n.kids, 1, t, cg.tail)
      keep == IF t # NO_TARGET /\ IsRealReg(c.res) THEN {c.res} ELSE {}
  IN  IF n.kids = <<>> THEN EmitConstImm(cg, 0, t)
      ELSE [c EXCEPT !.locals = SubSeq(@, 1, Len(cg.locals)),
                     !.regs = cg.regs \union keep, !.tail = cg.tail]

RetVoid == Inst("RET_VOID", "NONE", 0, 0, 0)

(* What ends a branch of an if in tail position, unless a call has.        *)
EmitReturnOf(cg, n) ==
  IF cg.tailed \/ Never(n) THEN cg
  ELSE Emit(cg, IF IsRealReg(cg.res) THEN Inst("RET", "NONE", cg.res, 0, 0) ELSE RetVoid)

(* The value of a branch ends in the register both branches share.         *)
EmitBranch(cg, n, t) ==
  LET c == EmitExpr(NotTail(cg), n, t)
  IN  IF t = NO_TARGET \/ Never(n) \/ ~ IsRealReg(c.res) THEN c ELSE MoveInto(c, t)

TailBranch(cg, n) == EmitReturnOf(EmitExpr([cg EXCEPT !.tail = TRUE, !.tailed = FALSE], n, AUTO), n)

(* Code for the second branch starts from the registers the condition left.*)
Rejoin(cg, regs) == [InvalidateGlobalCache(cg) EXCEPT !.regs = regs]

EmitBranches(cg, test, then, else, onTrue, t) ==
  LET c    == ToRealReg(EmitExpr(NotTail(cg), test, AUTO))
      at   == Here(c)
      br   == FreeTemp(Emit(c, Inst(IF onTrue THEN "JUMP_IF_TRUE" ELSE "JUMP_IF_FALSE", "NONE", c.res, 0, 0)),
                       c.res)
      (* both branches return *)
      ret  == TailBranch(Rejoin(PatchJump(TailBranch(br, then), at), br.regs), else)
      (* both branches meet *)
      d    == IF t = NO_TARGET THEN Result(br, NO_TARGET) ELSE ResolveTarget(br, t)
      yes  == EmitBranch(d, then, d.res)
      skip == IF Never(then) THEN yes ELSE EmitJump(yes, 0)
      no   == EmitBranch(Rejoin(PatchJump(skip, at), d.regs), else, d.res)
      over == CASE Never(then)          -> no
                [] ~ Never(then) /\ Here(no) = Here(skip) -> [no EXCEPT !.code[Here(yes) + 1] = Nop]
                [] OTHER                -> PatchJump(no, Here(yes))
      join == Rejoin(IF else = Absent THEN PatchJump(yes, at) ELSE over, d.regs)
  IN  IF cg.tail /\ else # Absent
      THEN Result([InvalidateGlobalCache(ret) EXCEPT !.tailed = TRUE, !.tail = TRUE], NO_TARGET)
      ELSE Result(InTail(join, cg.tail), d.res)

EmitIf(cg0, n, t) ==
  LET cg   == InvalidateGlobalCache(cg0)
      test == n.kids[1]  then == n.kids[2]  else == n.kids[3]
      k    == EvalConst(test)
      negated == test.k = "unary" /\ test.op = "LNOT"
  IN  IF k.kind # "none"
      THEN IF k.val # 0 THEN EmitExpr(cg, then, t)
           ELSE IF else # Absent THEN EmitExpr(cg, else, t) ELSE EmitConstImm(cg, 0, t)
      ELSE IF t = NO_TARGET /\ ~ cg.tail /\ IsPure(cg.pure, then) /\ IsPure(cg.pure, else)
      THEN EmitEffects(cg, test)
      ELSE IF ~ negated THEN EmitBranches(cg, test, then, else, FALSE, t)
      ELSE IF else = Absent THEN EmitBranches(cg, test.kids[1], then, Absent, TRUE, t)
      ELSE EmitBranches(cg, test.kids[1], else, then, FALSE, t)
-----------------------------------------------------------------------------
(* Loops                                                                   *)

OpenLoop(cg, t) ==
  [NotTail(cg) EXCEPT !.loops = Append(@, [start |-> Here(cg), breaks |-> <<>>, target |-> t, reg |-> cg.res])]

Innermost(cg) == cg.loops[Len(cg.loops)]

(* Mutant: the jump back tests the condition of the loop no more.          *)
CloseLoopPastTest(cg, body) ==
  IF Never(body) THEN cg ELSE EmitJump(cg, Innermost(cg).start + 2)

CloseLoop(cg, body) == IF Never(body) THEN cg ELSE EmitJump(cg, Innermost(cg).start)

RECURSIVE PatchAll(_, _)
PatchAll(cg, ps) == IF ps = <<>> THEN cg ELSE PatchAll(PatchJump(cg, Head(ps)), Tail(ps))

LeaveLoop(cg) ==
  [PatchAll(cg, Innermost(cg).breaks) EXCEPT !.loops = SubSeq(@, 1, Len(@) - 1)]

EmitBreak(cg, n) ==
  LET e    == n.kids[1]
      loop == Innermost(cg)
      v    == EmitExpr(cg, e, loop.reg)
      c    == CASE loop.target = NO_TARGET -> EmitEffects(cg, e)
                [] loop.target # NO_TARGET /\ e = Absent -> EmitLoadImm(cg, loop.reg, 0)
                [] OTHER -> MoveInto(v, loop.reg)
      j    == EmitJump(c, 0)
  IN  IF loop.target # NO_TARGET /\ Never(e) THEN v
      ELSE Result([j EXCEPT !.loops[Len(cg.loops)].breaks = Append(@, Here(c))], NO_TARGET)

EmitContinue(cg) == Result(EmitJump(cg, Innermost(cg).start), NO_TARGET)

EmitLoop(cg, n, t) ==
  LET d    == IF t = NO_TARGET THEN Result(cg, NO_TARGET) ELSE ResolveTarget(InvalidateGlobalCache(cg), t)
      o    == OpenLoop(InvalidateGlobalCache(d), d.res)
      body == CloseLoop(EmitExpr(o, n.kids[1], NO_TARGET), n.kids[1])
      some == Innermost(body).breaks # <<>>
      c    == InTail(Rejoin(LeaveLoop(body), d.regs), cg.tail)
      ret  == Emit(c, IF t = NO_TARGET THEN RetVoid ELSE Inst("RET", "NONE", d.res, 0, 0))
  IN  IF ~ some THEN Result(c, NO_TARGET)
      ELSE IF cg.tail THEN Result([ret EXCEPT !.tailed = TRUE], NO_TARGET)
      ELSE Result(c, d.res)

EmitWhile(cg0, n, t) ==
  LET cg     == InvalidateGlobalCache(cg0)
      test   == n.kids[1]  body == n.kids[2]
      k      == EvalConst(test)
      always == k = ConstBool(TRUE)
      negated == ~ always /\ test.k = "unary" /\ test.op = "LNOT"
      o      == OpenLoop(Result(cg, 0), NO_TARGET)
      c      == ToRealReg(EmitExpr(o, IF negated THEN test.kids[1] ELSE test, AUTO))
      exit   == Inst(IF negated THEN "JUMP_IF_TRUE" ELSE "JUMP_IF_FALSE", "NONE", c.res, 0, 0)
      head   == IF always THEN [o EXCEPT !.tail = cg.tail] ELSE FreeTemp(Emit(c, exit), c.res)
      loop   == CloseLoop(EmitExpr(NotTail(head), body, NO_TARGET), body)
      after  == Rejoin(LeaveLoop(IF always THEN loop ELSE PatchJump(loop, Here(c))), cg.regs)
  IN  IF k.kind # "none" /\ k.val = 0 THEN EmitConstImm(EmitEffects(cg, test), 0, t)
      ELSE EmitConstImm(after, 0, t)
-----------------------------------------------------------------------------
(* Calls                                                                   *)

(* The arguments from the i-th on, into the window that starts at low.     *)
RECURSIVE EmitArgsFrom(_, _, _, _)
EmitArgsFrom(cg, args, i, low) ==
  IF i > Len(args) THEN cg
  ELSE LET c == MoveInto(EmitExpr(cg, args[i], low + i - 1), low + i - 1)
       IN  IF Never(args[i]) THEN c ELSE EmitArgsFrom(c, args, i + 1, low)

EmitArgs(cg, args) ==
  LET w == AllocCallWindow(NotTail(cg), Len(args))
  IN  Result(InTail(EmitArgsFrom(w, args, 1, w.res), cg.tail), w.res)

SomeNever(args) == \E i \in DOMAIN args : Never(args[i])

(* A call whose target is filled in when all functions are compiled.       *)
EmitCallTo(cg, op, f, d, b, count) ==
  [EmitWide(cg, Inst(op, "NONE", d, b, count), Target(0))
     EXCEPT !.patches = Append(@, [at |-> Here(cg), fn |-> f])]

Tailed(cg) == Result([cg EXCEPT !.tailed = TRUE], NO_TARGET)

JumpToEntry(cg) == Tailed(EmitJump(cg, cg.offsets[cg.fn]))

(* Mutant: each argument is moved to its parameter as soon as it is known. *)
EmitSelfTailCallInPlace(cg, args) ==
  JumpToEntry([EmitArgsFrom(NotTail(cg), args, 1, 0) EXCEPT !.regs = cg.regs])

RECURSIVE EmitMoves(_, _, _, _)
EmitMoves(cg, i, low, count) ==
  IF i = count THEN cg ELSE EmitMoves(EmitMove(cg, i, low + i), i + 1, low, count)

(* The arguments are all known before the first parameter is overwritten.  *)
EmitSelfTailCall(cg, args) ==
  LET one == EmitExpr(NotTail(cg), args[1], AUTO)
      r   == ToRealReg(one)
      all == EmitArgs(cg, args)
      c   == [EmitMoves(all, 0, all.res, Len(args)) EXCEPT !.regs = cg.regs]
  IN  CASE args = <<>>     -> JumpToEntry(cg)
        [] Len(args) = 1   -> IF Never(args[1]) THEN one
                              ELSE JumpToEntry(FreeTemp(EmitMove(r, 0, r.res), r.res))
        [] Len(args) > 1   -> IF SomeNever(args) THEN Result([all EXCEPT !.regs = cg.regs], NO_TARGET)
                              ELSE JumpToEntry(c)

(* A single argument is compiled in tail position.                         *)
EmitTailCall(cg, f, args) ==
  LET one == EmitExpr(cg, args[1], AUTO)
      r   == ToRealReg(one)
      all == EmitArgs(cg, args)
      c   == [EmitCallTo(all, "TAILCALL", f, 0, all.res, Len(args)) EXCEPT !.regs = cg.regs]
  IN  CASE args = <<>>     -> Tailed(EmitCallTo(cg, "TAILCALL", f, 0, 0, 0))
        [] Len(args) = 1   -> IF Never(args[1]) THEN one
                              ELSE Tailed(FreeTemp(EmitCallTo(r, "TAILCALL", f, 0, r.res, 1), r.res))
        [] Len(args) > 1   -> IF SomeNever(args) THEN Result([all EXCEPT !.regs = cg.regs], NO_TARGET)
                              ELSE Tailed(c)

(* The result register is chosen before the arguments, the registers of    *)
(* which are given back after the call.                                    *)
EmitStandardCall(cg, f, args, t) ==
  LET void == t = NO_TARGET
      d    == IF void THEN Result(cg, 0) ELSE ResolveTarget(cg, t)
      a    == EmitArgs(d, args)
      c    == [EmitCallTo(a, IF void THEN "CALL_VOID" ELSE "CALL", f, d.res, a.res, Len(args))
                 EXCEPT !.regs = IF void THEN cg.regs ELSE cg.regs \union {d.res}]
  IN  IF SomeNever(args) THEN Result([a EXCEPT !.regs = cg.regs], NO_TARGET)
      ELSE Result(c, IF void THEN NO_TARGET ELSE d.res)

EmitSyscall(cg, id, args, t) ==
  LET void == t = NO_TARGET
      d    == IF void THEN Result(cg, 0) ELSE ResolveTarget(cg, t)
      a    == IF args = <<>> THEN Result(d, 0) ELSE EmitArgs(d, args)
      c    == EmitWide(a, Inst(IF void THEN "SYSCALL_VOID" ELSE "SYSCALL", "NONE", d.res, a.res, Len(args)),
                       SyscallId(id))
  IN  Result([c EXCEPT !.regs = d.regs], IF void THEN NO_TARGET ELSE d.res)

(* Whatever the callee may store, no register is a copy of a global after. *)
EmitCall(cg, n, t) ==
  LET pure == n.k = "call" /\ n.v \in cg.pure
      c    == IF pure THEN cg ELSE InvalidateGlobalCache(cg)
      made == CASE n.k = "syscall"                             -> EmitSyscall(c, n.op, n.kids, t)
                [] n.k = "call" /\ cg.tail /\ n.v = cg.fn      -> EmitSelfTailCall(c, n.kids)
                [] n.k = "call" /\ cg.tail /\ n.v # cg.fn      -> EmitTailCall(c, n.v, n.kids)
                [] OTHER                                       -> EmitStandardCall(c, n.v, n.kids, t)
  IN  IF t = NO_TARGET /\ IsPure(cg.pure, n) THEN Result(cg, NO_TARGET)
      ELSE IF pure THEN made ELSE InvalidateGlobalCache(made)

EmitReturn(cg, n) ==
  LET e == n.kids[1]
      c == EmitExpr([cg EXCEPT !.tail = TRUE, !.tailed = FALSE], e, AUTO)
  IN  IF e = Absent THEN Tailed(Emit(cg, RetVoid))
      ELSE IF c.tailed \/ Never(e) THEN Result(c, NO_TARGET)
      ELSE IF IsRealReg(c.res) THEN Tailed(FreeTemp(EmitReturnOf(c, e), c.res))
      ELSE Tailed(EmitReturnOf(c, e))

EmitExpr(cg, n, t) ==
  LET k == EvalConst(n)
  IN  CASE n.k = "absent" -> Result(cg, NO_TARGET)
        [] n.k \in {"binary", "unary", "cast", "call", "syscall"} /\ k.kind # "none" ->
             EmitFoldedConstant(cg, k, t)
        [] n.k \in {"call", "syscall"} /\ k.kind = "none" -> EmitCall(cg, n, t)
        [] n.k = "binary" /\ k.kind = "none" ->
             IF n.op \in {"LAND", "LOR"} THEN EmitLogical(cg, n, t) ELSE EmitArithmetic(cg, n, t)
        [] n.k = "unary" /\ k.kind = "none" -> EmitUnary(cg, n, t)
        [] n.k = "cast" /\ k.kind = "none"  -> EmitTypeCast(cg, n, t)
        [] n.k = "literal"       -> EmitLiteral(cg, n.v, t)
        [] n.k = "local"         -> EmitLocalRead(cg, n.v, t)
        [] n.k = "global"        -> EmitGlobalRead(cg, n.v, t)
        [] n.k = "var"           -> EmitVarDecl(cg, n, t)
        [] n.k = "global_var"    -> EmitGlobalDecl(cg, n)
        [] n.k = "assign"        -> EmitAssign(cg, n, t)
        [] n.k = "global_assign" -> EmitGlobalAssign(cg, n, t)
        [] n.k = "block"         -> EmitBlock(cg, n, t)
        [] n.k = "if"            -> EmitIf(cg, n, t)
        [] n.k = "loop"          -> EmitLoop(cg, n, t)
        [] n.k = "while"         -> EmitWhile(cg, n, t)
        [] n.k = "break"         -> EmitBreak(cg, n)
        [] n.k = "continue"      -> EmitContinue(cg)
        [] n.k = "return"        -> EmitReturn(cg, n)
        [] n.k = "discard"       -> EmitEffects(cg, n.kids[1])
-----------------------------------------------------------------------------
(* Programs                                                                *)

(* Statements of the module level, up to the first that never ends.        *)
RECURSIVE EmitModule(_, _)
EmitModule(cg, stmts) ==
  IF stmts = <<>> THEN cg
  ELSE LET s == Head(stmts)
           c == InvalidateGlobalCache(EmitExpr(NotTail(cg), s, NO_TARGET))
       IN  IF IsPure(cg.pure, s) THEN EmitModule(cg, Tail(stmts))
           ELSE IF Never(s) THEN c ELSE EmitModule(c, Tail(stmts))

(* Declarations keep the cache from one to the next.                       *)
RECURSIVE EmitInits(_, _)
EmitInits(cg, decls) ==
  IF decls = <<>> THEN cg
  ELSE LET c == EmitExpr(cg, Head(decls), NO_TARGET)
       IN  IF Never(Head(decls)) THEN c ELSE EmitInits(c, Tail(decls))

(* A function's parameters are its first registers.                        *)
EmitFunction(cg, f, fd) ==
  LET start == [InvalidateGlobalCache(cg) EXCEPT
                  !.fn = f, !.offsets[f] = Here(cg), !.tail = TRUE, !.tailed = FALSE,
                  !.locals = [i \in 1 .. fd.params |-> [sym |-> i - 1, reg |-> i - 1]],
                  !.regs = 0 .. fd.params - 1]
      c == EmitExpr(start, fd.body, IF fd.returns THEN AUTO ELSE NO_TARGET)
  IN  EmitReturnOf(IF fd.returns THEN c ELSE Result(c, NO_TARGET), fd.body)

RECURSIVE EmitFunctions(_, _, _)
EmitFunctions(cg, p, f) ==
  IF f > Len(p.fns) THEN cg
  ELSE EmitFunctions(IF f \in ReachableFns(p) THEN EmitFunction(cg, f, p.fns[f]) ELSE cg, p, f + 1)

EmptyState(p) ==
  [code |-> <<>>, owner |-> <<>>, consts |-> <<>>, pure |-> PureFns(p), locals |-> <<>>, loops |-> <<>>,
   patches |-> <<>>, regs |-> {}, cached |-> NoGlobal, cachedReg |-> 0, fn |-> 0,
   offsets |-> [f \in DOMAIN p.fns |-> 0], tail |-> FALSE, tailed |-> FALSE, res |-> NO_TARGET,
   fault |-> "NONE"]

Generate(p) ==
  LET main == EmitModule(EmitInits(EmptyState(p), p.inits), p.main)
  IN  EmitFunctions(Emit(main, Inst("HALT", "NONE", 0, 0, 0)), p, 1)

(* The chunk: calls get the addresses of their functions.                  *)
ChunkOf(p, cg) ==
  LET Patched(w) == {i \in DOMAIN cg.patches : cg.patches[i].at + 1 = w}
      size       == Len(cg.code)
  IN  [size   |-> size,
       code   |-> [w \in 0 .. size - 1 |->
                     IF Patched(w) = {} THEN cg.code[w + 1]
                     ELSE Target(cg.offsets[cg.patches[CHOOSE i \in Patched(w) : TRUE].fn])],
       fn     |-> [w \in 0 .. size - 1 |-> cg.owner[w + 1]],
       consts |-> cg.consts, strs |-> <<>>, slots |-> Len(p.inits)]
=============================================================================
