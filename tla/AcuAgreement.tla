---------------------------- MODULE AcuAgreement ----------------------------
(***************************************************************************)
(* What a rewrite of code keeps that moves no word, but drops instructions *)
(* whose result nobody needs, or has instructions read and write other     *)
(* registers than before: EliminateDeadStores in src/optimizer/optimizer.c *)
(*                                                                         *)
(* here are the words of the old code that control may come to.  When      *)
(* <<p, x, y>> is in same and both machines stand at p, register x of the  *)
(* one that runs the old code holds what register y of the other one does. *)
(*                                                                         *)
(* Disciplined is what such a rewrite may rely on in generated code.       *)
(***************************************************************************)
EXTENDS AcuRelocation

(* A call whose result is dropped.                                         *)
Voided == {<<"CALL", "CALL_VOID">>, <<"SYSCALL", "SYSCALL_VOID">>}

(* The instructions at p do the same to values that are the same.          *)
SameWork(old, new, same, p) ==
  LET i == old.code[p]
      j == new.code[p]
      Alike(x, y) == <<p, x, y>> \in same
  IN  /\ j.op = i.op \/ <<i.op, j.op>> \in Voided
      /\ j.fn = i.fn
      /\ i.op \in {"RET", "JUMP_IF_TRUE", "JUMP_IF_FALSE", "JUMP_CMP", "JUMP_CMP_IMM", "STORE_GLOBAL"}
           => Alike(i.a, j.a)
      /\ i.op \in {"JUMP_CMP", "MOVE", "UNARY", "ALU", "ALU_IMM"} => Alike(i.b, j.b)
      /\ i.op = "ALU" => Alike(i.c, j.c)
      /\ i.op \in {"LOAD_IMM", "LOAD_CONST", "LOAD_STR", "LOAD_GLOBAL", "STORE_GLOBAL", "JUMP_CMP_IMM"}
           => j.b = i.b
      /\ i.op = "ALU_IMM" => j.c = i.c
      /\ i.op \in Jumps => JumpOffset(j) = JumpOffset(i)
      /\ i.op \in WideOps => /\ j.b = i.b /\ j.c = i.c /\ new.code[p + 1] = old.code[p + 1]
                             /\ \A r \in Reads(i) : Alike(r, r)
      /\ i.op \in SyscallOps /\ old.code[p + 1].fn \in {"math", "seed"} => Alike(i.b, i.b)

(* An instruction without effect but its result is not there any more.     *)
Dropped(old, new, p) ==
  /\ old.code[p].op \in WriteOps \ {"CALL"}
  /\ new.code[p].op = "NOP"
  /\ old.code[p].op = "SYSCALL" => /\ new.code[p + 1].op = "NOP"
                                   /\ old.code[p + 1].fn \in {"clock", "math"}

(* Behind the instructions at p register x is as register y is: both have  *)
(* been written, or none, or a MOVE has copied what was the same before.   *)
Carried(old, new, same, p, x, y) ==
  LET i == old.code[p]
      j == new.code[p]
  IN  \/ x \in Writes(i) /\ y \in Writes(j)
      \/ x \notin Writes(i) /\ y \notin Writes(j) /\ <<p, x, y>> \in same
      \/ i.op = "MOVE" /\ x = i.a /\ y \notin Writes(j) /\ <<p, i.b, y>> \in same
      \/ j.op = "MOVE" /\ y = j.a /\ x \notin Writes(i) /\ <<p, x, j.b>> \in same

(* The registers of a callee are those of the caller from b; a caller does *)
(* not rely on what the callee has left in them.                           *)
CarriedIn(old, same, p, x, y) == <<p, old.code[p].b + x, old.code[p].b + y>> \in same

CarriedOver(old, new, same, p, x, y) ==
  LET i == old.code[p]
      j == new.code[p]
  IN  \/ x \in Writes(i) /\ y \in Writes(j)
      \/ /\ x < i.b /\ x \notin Writes(i)
         /\ y < i.b /\ y \notin Writes(j)
         /\ <<p, x, y>> \in same

(* Behind a tail call the arguments are at the bottom of the window.       *)
CarriedDown(old, same, p, x, y) ==
  LET i == old.code[p]
      From(r) == IF r < i.c THEN i.b + r ELSE r
  IN  <<p, From(x), From(y)>> \in same

(* Wherever the instruction at p leads to.                                 *)
LeadsAlike(old, new, same, here, p) ==
  LET i == old.code[p]
      At(q) == q \in here /\ \A x, y : <<q, x, y>> \in same => Carried(old, new, same, p, x, y)
      callee == old.code[p + 1].a
  IN  /\ i.op \in Jumps => At(JumpTarget(p, i))
      /\ FallsThrough(old, p) /\ i.op \notin BytecodeCalls => At(p + Slots(i.op))
      /\ i.op \in {"CALL", "CALL_VOID"} =>
           /\ callee \in here /\ \A x, y : <<callee, x, y>> \in same => CarriedIn(old, same, p, x, y)
           /\ p + 2 \in here /\ \A x, y : <<p + 2, x, y>> \in same => CarriedOver(old, new, same, p, x, y)
      /\ i.op = "TAILCALL" =>
           callee \in here /\ \A x, y : <<callee, x, y>> \in same => CarriedDown(old, same, p, x, y)

(* The words of valued belong to functions that return a value to the CALL *)
(* that wants it.                                                          *)
Answers(ch, here, valued) ==
  \A p \in here :
    LET i == ch.code[p]
    IN  /\ i.op = "CALL" => ch.code[p + 1].a \in valued
        /\ p \in valued => /\ i.op # "RET_VOID"
                           /\ i.op \in Jumps => JumpTarget(p, i) \in valued
                           /\ FallsThrough(ch, p) => p + Slots(i.op) \in valued
                           /\ i.op = "TAILCALL" => ch.code[p + 1].a \in valued

(* Where the instruction at p leads to within its function.                *)
WaysOn(ch, p) ==
  LET i == ch.code[p]
  IN  {q \in 0 .. ch.size - 1 : \/ (i.op \in Jumps /\ q = JumpTarget(p, i))
                               \/ (FallsThrough(ch, p) /\ q = p + Slots(i.op))}

(* The registers in live[p] are all that a path from p may read before it  *)
(* writes them.                                                            *)
CoversReads(ch, live) ==
  \A p \in 0 .. ch.size - 1 :
    LET i == ch.code[p]
    IN  /\ Reads(i) \subseteq live[p]
        /\ \A q \in WaysOn(ch, p) : live[q] \ Writes(i) \subseteq live[p]

(* A function wants no register but its arguments, and behind a call none  *)
(* is wanted from the window of the callee but the answer.  A system       *)
(* function that looks at an argument gets one.                            *)
KeepsWindows(ch, live) ==
  \A p \in 0 .. ch.size - 1 :
    LET i == ch.code[p]
    IN  /\ i.op \in SyscallOps /\ ch.code[p + 1].fn \in {"math", "seed"} => i.c > 0
        /\ i.op \in BytecodeCalls => live[ch.code[p + 1].a] \subseteq 0 .. i.c - 1
        /\ i.op \in {"CALL", "CALL_VOID"} =>
             \A r \in live[p + 2] : r < i.b \/ r \in Writes(i)

(* How the code generator uses the registers.                              *)
Disciplined(ch, regs, live, valued) ==
  /\ live \in [0 .. ch.size - 1 -> SUBSET regs]
  /\ CoversReads(ch, live) /\ KeepsWindows(ch, live)
  /\ Answers(ch, {p \in 0 .. ch.size - 1 : ch.code[p].op # "WORD"}, valued)

(* Control starts at the first word of both; size, pools and globals stay. *)
Agrees(old, new, same, here) ==
  /\ old.size > 0
  /\ \A x \in DOMAIN old \ {"code", "fn"} : new[x] = old[x]
  /\ 0 \in here
  /\ \A p \in here : /\ Fetches(old, p)
                     /\ SameWork(old, new, same, p) \/ Dropped(old, new, p)
                     /\ LeadsAlike(old, new, same, here, p)
=============================================================================
