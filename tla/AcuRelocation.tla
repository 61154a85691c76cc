--------------------------- MODULE AcuRelocation ---------------------------
(***************************************************************************)
(* What a rewrite of code keeps that only moves instructions or drops what *)
(* does nothing or is never reached: EliminateDeadCode, rule 1 of the      *)
(* peephole pass and StripNopsAndRelocate in src/optimizer/optimizer.c.    *)
(*                                                                         *)
(* here are the words of the old code that control may come to and at says *)
(* where in the new code the machine stands when it stands at one of them. *)
(***************************************************************************)
EXTENDS AcuBytecode

(* There is a whole instruction at p.                                      *)
Fetches(ch, p) ==
  /\ p \in 0 .. ch.size - 1
  /\ ch.code[p].op # "WORD"
  /\ ch.code[p].op \in WideOps => /\ p + 1 \in 0 .. ch.size - 1
                                  /\ ch.code[p + 1].op = "WORD"

(* The same instruction, but for the offset of a jump.                     *)
SameButOffset(i, j) ==
  /\ j.op = i.op /\ j.fn = i.fn
  /\ i.op # "JUMP" => j.a = i.a
  /\ i.op \notin {"JUMP_IF_TRUE", "JUMP_IF_FALSE"} => j.b = i.b
  /\ i.op \notin {"JUMP_CMP", "JUMP_CMP_IMM"} => j.c = i.c

(* The instruction at p stands at at[p], and where it leads has moved too.  *)
Moved(old, new, at, here, p) ==
  LET i == old.code[p]
      n == at[p]
  IN  /\ Fetches(old, p) /\ Fetches(new, n)
      /\ SameButOffset(i, new.code[n])
      /\ FallsThrough(old, p) => /\ p + Slots(i.op) \in here
                                 /\ at[p + Slots(i.op)] = n + Slots(i.op)
      /\ i.op \in Jumps => /\ JumpTarget(p, i) \in here
                           /\ at[JumpTarget(p, i)] = JumpTarget(n, new.code[n])
      /\ i.op \in BytecodeCalls => /\ old.code[p + 1].a \in here
                                   /\ at[old.code[p + 1].a] = new.code[n + 1].a
      /\ i.op \in WideOps => new.code[n + 1].fn = old.code[p + 1].fn

(* All that the instruction at p does is to go on to a word where the new  *)
(* code either is already or comes to by a NOP.                            *)
Idles(old, new, at, here, p) ==
  \E q \in here :
    /\ Fetches(old, p)
    /\ \/ old.code[p].op = "NOP" /\ q = p + 1
       \/ old.code[p].op = "JUMP" /\ q = JumpTarget(p, old.code[p])
       \/ old.code[p].op \in CondJumps /\ q = p + 1 /\ q = JumpTarget(p, old.code[p])
    /\ \/ at[q] = at[p]
       \/ Fetches(new, at[p]) /\ new.code[at[p]].op = "NOP" /\ at[q] = at[p] + 1

(* Control starts at the first word of both; pools and globals stay.        *)
Follows(old, new, at, here) ==
  /\ new.size > 0 /\ old.size > 0
  /\ \A x \in DOMAIN old \ {"code", "size", "fn"} : new[x] = old[x]
  /\ 0 \in here /\ at[0] = 0
  /\ \A p \in here : /\ at[p] \in Nat
                     /\ Moved(old, new, at, here, p) \/ Idles(old, new, at, here, p)
=============================================================================
