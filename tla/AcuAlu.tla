------------------------------- MODULE AcuAlu -------------------------------
(***************************************************************************)
(* The arithmetic of the VM's handlers (src/vm/vm.c) on WordBits-bit       *)
(* registers: 64 in the source.  Values are kept unsigned, 0 .. M-1; the   *)
(* i64 view of the union AcuValue is Signed.                               *)
(***************************************************************************)
EXTENDS Integers, Bitwise

CONSTANTS
  WordBits,   (* width of a register (64)                                  *)
  ImmBits,    (* width of the B and C fields of an instruction (8)         *)
  HalfBits    (* the width SEXT, ZEXT and TRUNC convert to (8, 16, 32)     *)

M == 2 ^ WordBits

RegWords == 0 .. M - 1

(* The low w bits of an integer, and the same bits read as signed.         *)
Low(w, x) == x % (2 ^ w)

SignedLow(w, x) == LET u == Low(w, x) IN IF u < 2 ^ (w - 1) THEN u ELSE u - 2 ^ w

U(x) == Low(WordBits, x)

Signed(x) == SignedLow(WordBits, x)

Bit(p) == IF p THEN 1 ELSE 0

AbsVal(x) == IF x < 0 THEN -x ELSE x

(* Division of C: towards zero.                                            *)
CDiv(x, y) == LET q == AbsVal(x) \div AbsVal(y) IN IF (x < 0) = (y < 0) THEN q ELSE -q

CRem(x, y) == x - y * CDiv(x, y)

CmpHolds(fn, x, y) ==
  CASE fn = "EQ"    -> x = y
    [] fn = "NEQ"   -> x # y
    [] fn = "LT_U"  -> x < y
    [] fn = "LTE_U" -> x <= y
    [] fn = "GT_U"  -> x > y
    [] fn = "GTE_U" -> x >= y
    [] fn = "LT_S"  -> Signed(x) < Signed(y)
    [] fn = "LTE_S" -> Signed(x) <= Signed(y)
    [] fn = "GT_S"  -> Signed(x) > Signed(y)
    [] fn = "GTE_S" -> Signed(x) >= Signed(y)

(* AcuValue_PowU64: square the base once per trailing zero of the exponent,*)
(* then square and multiply along its remaining bits.                      *)
RECURSIVE PowOdd(_, _, _)
PowOdd(b, e, res) ==
  IF e = 0 THEN res
  ELSE LET sq == U(b * b) IN PowOdd(sq, e \div 2, IF e % 2 = 1 THEN U(res * sq) ELSE res)

RECURSIVE PowU64(_, _)
PowU64(b, e) ==
  CASE e = 0          -> U(1)
    [] e > 0 /\ b = 2 -> IF e < WordBits THEN U(2 ^ e) ELSE 0
    [] e > 0 /\ b < 2 -> b
    [] OTHER          -> IF e % 2 = 0 THEN PowU64(U(b * b), e \div 2)
                                      ELSE PowOdd(b, e \div 2, b)

Shift(y) == y % WordBits

ArithValue(fn, x, y) ==
  CASE fn = "ADD"   -> U(x + y)
    [] fn = "SUB"   -> U(x - y)
    [] fn = "RSUB"  -> U(y - x)
    [] fn = "MUL"   -> U(x * y)
    [] fn = "POW"   -> PowU64(x, y)
    [] fn = "AND"   -> x & y
    [] fn = "OR"    -> x | y
    [] fn = "XOR"   -> x ^^ y
    [] fn = "SHL"   -> U(x * 2 ^ Shift(y))
    [] fn = "SHR_U" -> x \div (2 ^ Shift(y))
    [] fn = "SHR_S" -> U(Signed(x) \div (2 ^ Shift(y)))

(* Division: the handlers have trapped on zero, and -1 is a case of its    *)
(* own because INT64_MIN / -1 overflows.                                   *)
DivValue(fn, x, y) ==
  CASE y = 0        -> 0
    [] fn = "DIV_U" /\ y # 0 -> x \div y
    [] fn = "REM_U" /\ y # 0 -> x % y
    [] fn = "DIV_S" /\ y # 0 -> IF Signed(y) = -1 THEN U(-Signed(x))
                                                  ELSE U(CDiv(Signed(x), Signed(y)))
    [] fn = "REM_S" /\ y # 0 -> IF Signed(y) = -1 THEN 0
                                                  ELSE U(CRem(Signed(x), Signed(y)))

UnaryValue(fn, x) ==
  CASE fn = "NEG"   -> U(-x)
    [] fn = "NOT"   -> M - 1 - x
    [] fn = "LNOT"  -> Bit(x = 0)

ConvertValue(fn, x) ==
  CASE fn = "SEXT"              -> U(SignedLow(HalfBits, x))
    [] fn \in {"ZEXT", "TRUNC"} -> Low(HalfBits, x)

DivFns == {"DIV_S", "DIV_U", "REM_S", "REM_U"}

AluTraps(fn, y) == fn \in DivFns /\ y = 0

AluValue(fn, x, y) ==
  CASE fn \in {"EQ", "NEQ", "LT_S", "LT_U", "LTE_S", "LTE_U",
               "GT_S", "GT_U", "GTE_S", "GTE_U"} -> Bit(CmpHolds(fn, x, y))
    [] fn \in DivFns                             -> DivValue(fn, x, y)
    [] fn \in {"NEG", "NOT", "LNOT"}             -> UnaryValue(fn, x)
    [] fn \in {"SEXT", "ZEXT", "TRUNC"}          -> ConvertValue(fn, x)
    [] fn = "NONE"                               -> 0
    [] OTHER                                     -> ArithValue(fn, x, y)

(* The operand an *_IMM handler makes of field C: unsigned comparisons and *)
(* divisions, shifts and powers zero-extend it, the rest sign-extend it.   *)
(* LOAD_IMM (no operation) sign-extends field Bx.                          *)
ZeroExtended == {"DIV_U", "REM_U", "POW", "SHL", "SHR_S", "SHR_U",
                 "LT_U", "LTE_U", "GT_U", "GTE_U"}

ImmValue(fn, i) ==
  CASE fn = "NONE"          -> U(i)
    [] fn \in ZeroExtended  -> Low(ImmBits, i)
    [] OTHER                -> U(SignedLow(ImmBits, i))

(* The operand a fused JUMP_*_IMM handler makes of field B: EXEC_JUMP_IMM   *)
(* reads it as u8 for EQ, NEQ and the unsigned comparisons.                *)
JumpImmValue(fn, i) ==
  IF fn \in {"LT_S", "LTE_S", "GT_S", "GTE_S"} THEN U(SignedLow(ImmBits, i))
                                              ELSE Low(ImmBits, i)
=============================================================================
