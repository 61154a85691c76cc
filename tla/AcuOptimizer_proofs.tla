------------------------- MODULE AcuOptimizer_proofs -------------------------
(***************************************************************************)
(* AcuChunk_Optimize leaves code that the virtual machine can run, for     *)
(* every chunk that is well formed, every number of registers and every    *)
(* width of the offset fields.                                             *)
(*                                                                         *)
(* The argument.  Within an iteration the code is not well formed: what is *)
(* dropped leaves NOPs, and behind dead code they lead from one function   *)
(* into the next.  What holds between the passes is Sound: wherever an     *)
(* instruction goes on - to the next one, to the target of a jump, into a  *)
(* function that is called - the first word there that is no NOP belongs   *)
(* to the right function.  A pass may drop an instruction that falls       *)
(* through, because what leads to it then leads on (DropFalling), or one   *)
(* that nothing leads to (EraseUnled): unreachable code, and the return     *)
(* behind a tail call.  That nothing leads to the latter needs Aimed,      *)
(* since the rules look for targets where they were collected, before      *)
(* other rules made new ones.  StripNops makes Sound code well formed      *)
(* again (StripIs).                                                        *)
(*                                                                         *)
(* The steps that only move or drop also leave code that Follows the old   *)
(* code (AcuRelocation), so that it runs the same (RelocationFollows).     *)
(*                                                                         *)
(* What is dead: a register is dead behind an instruction if what follows  *)
(* lies in a Quiet set of words, closed under going on, where nobody needs *)
(* it.  The straight scans, the way from a definition to its MOVE and the  *)
(* walk up a block each find one (OnlyDeadDropped).  Code that has lost    *)
(* dead stores agrees with the old one in what is still wanted             *)
(* (AcuAgreement, DeadStoresAgree).                                        *)
(***************************************************************************)
EXTENDS AcuOptimizer, AcuAgreement, FiniteSetTheorems, WellFoundedInduction, TLAPS
-----------------------------------------------------------------------------
(* The inductive invariant                                                 *)

(* The words that begin an instruction that does something.                *)
Ins(ch) == {p \in 0 .. ch.size - 1 : ch.code[p].op \notin {"WORD", "NOP"}}

(* Control that comes to t goes on at q: in between nothing is done.       *)
Lands(ch, t, q) ==
  q \in Ins(ch) /\ t \in 0 .. q /\ \A r \in t .. q - 1 : ch.code[r].op = "NOP"

(* Control that comes to t goes on in function f.                          *)
Leads(ch, f, t) == \E q \in Ins(ch) : Lands(ch, t, q) /\ ch.fn[q] = f

(* Wide instructions have their second word, and nothing else has one.     *)
Whole(ch) ==
  \A p \in 0 .. ch.size - 1 :
    /\ ch.code[p].op \in WideOps => p + 1 < ch.size /\ ch.code[p + 1].op = "WORD"
    /\ ch.code[p].op = "WORD" => p > 0 /\ ch.code[p - 1].op \in WideOps

SoundAt(ch, p) ==
  LET i == ch.code[p]
      f == ch.fn[p]
  IN  /\ FallsThrough(ch, p) => Leads(ch, f, p + Slots(i.op))
      /\ i.op \in Jumps => Leads(ch, f, TargetOf(ch, p))
      /\ i.op \in BytecodeCalls => \E q \in Ins(ch) : Lands(ch, ch.code[p + 1].a, q) /\ ch.fn[q] # 0
      /\ i.op \in {"RET", "RET_VOID", "TAILCALL"} => f # 0
      /\ i.op \in SyscallOps => ch.code[p + 1].fn \in SyscallIds

(* Between the passes of an iteration, with the NOPs that they leave.      *)
Sound(ch) ==
  IsCode(ch) /\ Whole(ch) /\ Leads(ch, 0, 0) /\ \A p \in Ins(ch) : SoundAt(ch, p)

(* The targets were collected before the rules changed the jumps: a target *)
(* that is new is behind a word that is no payload.                        *)
Aimed(ch, T) ==
  \A p \in Ins(ch) :
    /\ ch.code[p].op \in Jumps =>
         TargetOf(ch, p) \in T \/ (TargetOf(ch, p) > 0 /\ ch.code[TargetOf(ch, p) - 1].op # "WORD")
    /\ ch.code[p].op \in BytecodeCalls => ch.code[p + 1].a \in T

IInv ==
  /\ IsCode(work) /\ pos \in Nat /\ phase \in Phases
  /\ phase # "done" => work.size > 0
  /\ phase \in {"collect", "dead code", "done"} \/ ~ changed => WellFormed(work)
  /\ phase = "dead code" => targets = JumpTargets(work)
  /\ phase \in {"dead stores", "peephole", "strip"} => Sound(work) /\ Aimed(work, targets)
  /\ phase = "peephole" /\ pos < work.size => work.code[pos].op # "WORD"
-----------------------------------------------------------------------------
(* Numbers                                                                 *)

Less == {p \in Nat \X Nat : p[1] < p[2]}

LEMMA LeastNumber ==
  ASSUME NEW S, S \subseteq Nat, S # {}
  PROVE  \E x \in S : \A y \in S : x <= y
<1>1. IsWellFoundedOn(Less, Nat)
  BY NatLessThanWellFounded DEF OpToRel, Less
<1>2. PICK x \in S : \A y \in S : ~ (<<y, x>> \in Less)
  BY <1>1, WFMin
<1>3. \A y \in S : ~ (y < x)
  BY <1>2 DEF Less
<1> QED
  BY <1>3

LEMMA GreatestNumber ==
  ASSUME NEW n \in Nat, NEW S, S \subseteq 0 .. n, S # {}
  PROVE  \E x \in S : \A y \in S : y <= x
<1> DEFINE R == {n - x : x \in S}
<1>1. R \subseteq Nat /\ R # {}
  <2>1. \A x \in S : x \in 0 .. n /\ n - x \in Nat
    OBVIOUS
  <2> QED
    BY <2>1
<1>2. PICK r \in R : \A y \in R : r <= y
  <2> HIDE DEF R
  <2> QED
    BY <1>1, LeastNumber
<1>3. PICK x \in S : r = n - x
  OBVIOUS
<1>4. ASSUME NEW y \in S PROVE y <= x
  <2>1. n - x <= n - y
    BY <1>2, <1>3
  <2> QED
    BY <2>1
<1> QED
  BY <1>4
-----------------------------------------------------------------------------
(* Words                                                                   *)

LEMMA WordIs ==
  ASSUME NEW ch, IsCode(ch), NEW p \in 0 .. ch.size - 1
  PROVE  /\ ch.code[p] \in Words /\ ch.fn[p] \in Nat /\ ch.size \in Nat
         /\ ch.code[p].op \in Ops \union {"WORD"} /\ ch.code[p].fn \in Fns \union SyscallIds
         /\ ch.code[p].a \in Int /\ ch.code[p].b \in Int /\ ch.code[p].c \in Int
         /\ TargetOf(ch, p) \in Int /\ p \in Int
         /\ Slots(ch.code[p].op) \in {1, 2} /\ (Slots(ch.code[p].op) = 2 <=> ch.code[p].op \in WideOps)
<1>1. ch.code[p] \in Words /\ ch.fn[p] \in Nat /\ ch.size \in Nat
  BY DEF IsCode
<1>2. /\ ch.code[p].op \in Ops \union {"WORD"} /\ ch.code[p].fn \in Fns \union SyscallIds
      /\ ch.code[p].a \in Int /\ ch.code[p].b \in Int /\ ch.code[p].c \in Int
  BY <1>1 DEF Words
<1>3. TargetOf(ch, p) \in Int
  BY <1>2 DEF TargetOf, JumpTarget, JumpOffset
<1> QED
  BY <1>1, <1>2, <1>3 DEF Slots

(* Code that is well formed leads to the function it stands in.            *)
LEMMA InstrLeads ==
  ASSUME NEW ch, IsCode(ch), WellFormed(ch), NEW f, NEW t, InstrOf(ch, f, t)
  PROVE  Leads(ch, f, t)
<1> DEFINE B == {p \in 0 .. ch.size - 1 : ch.code[p].op # "WORD" /\ ~ Leads(ch, ch.fn[p], p)}
<1> ch.size \in Nat
  BY DEF IsCode
<1>1. B = {}
  <2> SUFFICES ASSUME B # {} PROVE FALSE
    OBVIOUS
  <2>1. B \subseteq 0 .. ch.size
    OBVIOUS
  <2>2. PICK p \in B : \A y \in B : y <= p
    <3> HIDE DEF B
    <3> QED
      BY <2>1, GreatestNumber
  <2>3. p \in 0 .. ch.size - 1 /\ ch.code[p].op # "WORD" /\ ~ Leads(ch, ch.fn[p], p)
    BY <2>2
  <2>4. CASE ch.code[p].op # "NOP"
    <3>1. p \in Ins(ch) /\ Lands(ch, p, p)
      BY <2>3, <2>4 DEF Ins, Lands
    <3> QED
      BY <2>3, <3>1 DEF Leads
  <2>5. CASE ch.code[p].op = "NOP"
    <3>1. InstrOf(ch, ch.fn[p], p + 1)
      BY <2>3, <2>5 DEF WellFormed, WellFormedAt, FallsThrough, Ops, Terminators, SyscallOps, Slots, WideOps
    <3>2. p + 1 \in 0 .. ch.size - 1 /\ ch.code[p + 1].op # "WORD" /\ ch.fn[p + 1] = ch.fn[p] /\ ~ (p + 1 <= p)
      BY <2>3, <3>1 DEF InstrOf
    <3>3. Leads(ch, ch.fn[p], p + 1)
      BY <2>2, <3>2
    <3>4. PICK q \in Ins(ch) : Lands(ch, p + 1, q) /\ ch.fn[q] = ch.fn[p]
      BY <3>3 DEF Leads
    <3>5. q \in Int /\ \A r \in p .. q - 1 : r = p \/ r \in p + 1 .. q - 1
      BY <2>3 DEF Ins
    <3>6. Lands(ch, p, q)
      BY <2>3, <2>5, <3>4, <3>5 DEF Lands
    <3> QED
      BY <2>3, <3>4, <3>6 DEF Leads
  <2> QED
    BY <2>4, <2>5
<1> QED
  BY <1>1 DEF InstrOf

LEMMA WellFormedIsSound ==
  ASSUME NEW ch, IsCode(ch), WellFormed(ch), ch.size > 0
  PROVE  Sound(ch)
<1>1. ch.size \in Nat
  BY DEF IsCode
<1>2. Whole(ch)
  <2> SUFFICES ASSUME NEW p \in 0 .. ch.size - 1
               PROVE  /\ ch.code[p].op \in WideOps => p + 1 < ch.size /\ ch.code[p + 1].op = "WORD"
                      /\ ch.code[p].op = "WORD" => p > 0 /\ ch.code[p - 1].op \in WideOps
    BY DEF Whole
  <2>1. CASE ch.code[p].op = "WORD"
    BY <2>1 DEF WellFormed, WideOps
  <2>2. CASE ch.code[p].op # "WORD"
    <3>1. InstrOf(ch, ch.fn[p], p)
      BY <2>2 DEF WellFormed, WellFormedAt
    <3> QED
      BY <1>1, <2>2, <3>1 DEF InstrOf
  <2> QED
    BY <2>1, <2>2
<1>3. Leads(ch, 0, 0)
  BY InstrLeads DEF WellFormed
<1>4. ASSUME NEW p \in Ins(ch) PROVE SoundAt(ch, p)
  <2>1. WellFormedAt(ch, p)
    BY DEF Ins, WellFormed
  <2>2. ASSUME ch.code[p].op \in BytecodeCalls
        PROVE  \E q \in Ins(ch) : Lands(ch, ch.code[p + 1].a, q) /\ ch.fn[q] # 0
    <3> DEFINE t == ch.code[p + 1].a
    <3>1. ch.fn[t] # 0 /\ InstrOf(ch, ch.fn[t], t)
      BY <2>1, <2>2 DEF WellFormedAt
    <3>2. Leads(ch, ch.fn[t], t)
      BY <3>1, InstrLeads
    <3> QED
      BY <3>1, <3>2 DEF Leads
  <2> QED
    BY <2>1, <2>2, InstrLeads DEF WellFormedAt, SoundAt, TargetOf
<1> QED
  BY <1>2, <1>3, <1>4 DEF Sound
-----------------------------------------------------------------------------
(* Dropping instructions                                                   *)

(* new is old with NOPs for the instructions that begin in E.              *)
Drops(old, new, E) ==
  /\ IsCode(old) /\ IsCode(new) /\ new.size = old.size /\ new.fn = old.fn
  /\ \A p \in E : p \in 0 .. old.size - 1 /\ old.code[p].op # "WORD"
  /\ \A q \in 0 .. old.size - 1 :
       IF q \in E \/ (old.code[q].op = "WORD" /\ q - 1 \in E)
       THEN new.code[q].op = "NOP" ELSE new.code[q] = old.code[q]

LEMMA DropsIs ==
  ASSUME NEW old, NEW new, NEW E, Drops(old, new, E), Whole(old)
  PROVE  /\ Whole(new) /\ Ins(new) = Ins(old) \ E
         /\ \A p \in Ins(new) : new.code[p] = old.code[p] /\ TargetOf(new, p) = TargetOf(old, p)
         /\ \A p \in Ins(new) : new.code[p].op \in WideOps => new.code[p + 1] = old.code[p + 1]
         /\ \A q \in 0 .. old.size - 1 : new.code[q].op = "WORD" => old.code[q].op = "WORD"
         /\ \A q \in 0 .. old.size - 1 : old.code[q].op = "NOP" => new.code[q].op = "NOP"
<1>1. old.size \in Nat /\ new.size = old.size
  BY DEF Drops, IsCode
<1>2. ASSUME NEW p \in 0 .. old.size - 1
      PROVE  p \in Ins(new) <=> p \in Ins(old) /\ p \notin E
  BY <1>1 DEF Drops, Ins
<1>3. Ins(new) = Ins(old) \ E
  BY <1>1, <1>2 DEF Ins
<1>4. \A p \in Ins(new) : new.code[p] = old.code[p] /\ TargetOf(new, p) = TargetOf(old, p)
  BY <1>1 DEF Drops, Ins, TargetOf
<1>5. ASSUME NEW p \in 0 .. old.size - 1, new.code[p].op \in WideOps
      PROVE  p + 1 < old.size /\ new.code[p + 1] = old.code[p + 1] /\ old.code[p + 1].op = "WORD"
  <2>1. p \in Ins(new) /\ p \notin E /\ p \in Ins(old)
    BY <1>1, <1>3, <1>5 DEF Ins, WideOps
  <2>2. p + 1 \in 0 .. old.size - 1 /\ old.code[p + 1].op = "WORD" /\ (p + 1) - 1 = p
    BY <1>1, <1>4, <1>5, <2>1 DEF Whole
  <2>3. p + 1 \notin E
    BY <2>2 DEF Drops
  <2>4. IF p + 1 \in E \/ (old.code[p + 1].op = "WORD" /\ (p + 1) - 1 \in E)
        THEN new.code[p + 1].op = "NOP" ELSE new.code[p + 1] = old.code[p + 1]
    BY <2>2 DEF Drops
  <2> QED
    BY <1>1, <2>1, <2>2, <2>3, <2>4
<1>6. \A q \in 0 .. old.size - 1 : new.code[q].op = "WORD" => new.code[q] = old.code[q]
  BY DEF Drops
<1>7. \A q \in 0 .. old.size - 1 : old.code[q].op = "NOP" => new.code[q].op = "NOP"
  BY DEF Drops
<1>8. ASSUME NEW q \in 0 .. old.size - 1, new.code[q].op = "WORD"
      PROVE  q > 0 /\ new.code[q - 1].op \in WideOps
  <2>1. old.code[q].op = "WORD" /\ q \notin E /\ q - 1 \notin E
    BY <1>6, <1>8 DEF Drops
  <2>2. q > 0 /\ old.code[q - 1].op \in WideOps /\ q - 1 \in 0 .. old.size - 1
    BY <1>1, <2>1 DEF Whole
  <2>3. new.code[q - 1] = old.code[q - 1]
    BY <2>1, <2>2 DEF Drops, WideOps
  <2> QED
    BY <2>2, <2>3
<1>9. Whole(new)
  BY <1>1, <1>5, <1>8 DEF Whole
<1> QED
  BY <1>1, <1>3, <1>4, <1>5, <1>6, <1>7, <1>9 DEF Ins

LEMMA LandsStill ==
  ASSUME NEW old, NEW new, NEW E, Drops(old, new, E), Whole(old), NEW t, NEW q, Lands(old, t, q), q \notin E
  PROVE  Lands(new, t, q)
<1>1. q \in Ins(new) /\ q \in 0 .. old.size - 1 /\ old.size \in Nat
  BY DropsIs DEF Lands, Ins, Drops, IsCode
<1>2. \A r \in t .. q - 1 : r \in 0 .. old.size - 1
  BY <1>1 DEF Lands
<1> QED
  BY <1>1, <1>2, DropsIs DEF Lands

(* What is left is sound when it still leads where it led.                 *)
LEMMA LeftIsSound ==
  ASSUME NEW old, NEW new, NEW E, Drops(old, new, E), Sound(old), Leads(new, 0, 0),
         \A p \in Ins(new) :
           /\ FallsThrough(old, p) => Leads(new, old.fn[p], p + Slots(old.code[p].op))
           /\ old.code[p].op \in Jumps => Leads(new, old.fn[p], TargetOf(old, p))
           /\ old.code[p].op \in BytecodeCalls =>
                \E q \in Ins(new) : Lands(new, old.code[p + 1].a, q) /\ new.fn[q] # 0
  PROVE  Sound(new)
<1>1. /\ IsCode(new) /\ new.fn = old.fn /\ Whole(old)
  BY DEF Drops, Sound
<1>2. /\ Whole(new) /\ Ins(new) = Ins(old) \ E
      /\ \A p \in Ins(new) : new.code[p] = old.code[p] /\ TargetOf(new, p) = TargetOf(old, p)
      /\ \A p \in Ins(new) : new.code[p].op \in WideOps => new.code[p + 1] = old.code[p + 1]
  BY <1>1, DropsIs
<1>3. ASSUME NEW p \in Ins(new) PROVE SoundAt(new, p)
  <2>1. p \in Ins(old) /\ SoundAt(old, p) /\ new.code[p] = old.code[p] /\ TargetOf(new, p) = TargetOf(old, p)
    BY <1>2 DEF Sound
  <2>2. new.code[p].op \in WideOps => new.code[p + 1] = old.code[p + 1]
    BY <1>2
  <2>3. FallsThrough(new, p) => FallsThrough(old, p)
    BY <2>1, <2>2 DEF FallsThrough, SyscallOps, WideOps
  <2>4. new.code[p].op \in BytecodeCalls \union SyscallOps => new.code[p].op \in WideOps
    BY DEF BytecodeCalls, SyscallOps, WideOps
  <2> QED
    BY <1>1, <2>1, <2>2, <2>3, <2>4 DEF SoundAt
<1> QED
  BY <1>1, <1>2, <1>3 DEF Sound

(* Targets stay what they are.                                             *)
LEMMA LeftIsAimed ==
  ASSUME NEW old, NEW new, NEW E, NEW T, Drops(old, new, E), Sound(old), Aimed(old, T)
  PROVE  Aimed(new, T)
<1>0. Whole(old) /\ old.size \in Nat
  BY DEF Sound, Drops, IsCode
<1>1. /\ Ins(new) = Ins(old) \ E
      /\ \A p \in Ins(new) : new.code[p] = old.code[p] /\ TargetOf(new, p) = TargetOf(old, p)
      /\ \A p \in Ins(new) : new.code[p].op \in WideOps => new.code[p + 1] = old.code[p + 1]
      /\ \A q \in 0 .. old.size - 1 : new.code[q].op = "WORD" => old.code[q].op = "WORD"
  BY <1>0, DropsIs
<1>2. ASSUME NEW p \in Ins(new), new.code[p].op \in Jumps
      PROVE  TargetOf(new, p) \in T \/ (TargetOf(new, p) > 0 /\ new.code[TargetOf(new, p) - 1].op # "WORD")
  <2> DEFINE t == TargetOf(old, p)
  <2>1. p \in Ins(old) /\ t = TargetOf(new, p) /\ old.code[p].op \in Jumps
    BY <1>1, <1>2
  <2>2. t \in T \/ (t > 0 /\ old.code[t - 1].op # "WORD")
    BY <2>1 DEF Aimed
  <2>3. t \in 0 .. old.size - 1
    <3>1. Leads(old, old.fn[p], t)
      BY <2>1 DEF Sound, SoundAt
    <3> QED
      BY <1>0, <1>1, <3>1 DEF Leads, Lands, Ins
  <2> HIDE DEF t
  <2> QED
    BY <1>0, <1>1, <2>1, <2>2, <2>3
<1>3. ASSUME NEW p \in Ins(new), new.code[p].op \in BytecodeCalls
      PROVE  new.code[p + 1].a \in T
  BY <1>1, <1>3 DEF Aimed, BytecodeCalls, WideOps
<1> QED
  BY <1>2, <1>3 DEF Aimed

(* Control lands at one place.                                             *)
LEMMA UniqueLanding ==
  ASSUME NEW ch, ch.size \in Nat, NEW t, NEW p, NEW q, Lands(ch, t, p), Lands(ch, t, q)
  PROVE  p = q
<1>1. t \in Nat /\ p \in Nat /\ q \in Nat /\ t <= p /\ t <= q
  BY DEF Lands, Ins
<1>2. ~ (p < q) /\ ~ (q < p)
  <2>1. p < q => p \in t .. q - 1
    BY <1>1
  <2>2. q < p => q \in t .. p - 1
    BY <1>1
  <2> QED
    BY <2>1, <2>2 DEF Lands, Ins
<1> QED
  BY <1>1, <1>2

(* When what is dropped led on, control comes where it came.               *)
LEMMA FallsOn ==
  ASSUME NEW old, NEW new, NEW E, Drops(old, new, E), Whole(old),
         \A p \in Ins(old) : p \in E => Leads(old, old.fn[p], p + Slots(old.code[p].op)),
         NEW f, NEW t, Leads(old, f, t)
  PROVE  Leads(new, f, t)
<1> old.size \in Nat /\ new.size = old.size /\ new.fn = old.fn /\ IsCode(old)
  BY DEF Drops, IsCode
<1> DEFINE B == {s \in 0 .. old.size - 1 : \E g \in Nat : Leads(old, g, s) /\ ~ Leads(new, g, s)}
<1>1. B = {}
  <2> SUFFICES ASSUME B # {} PROVE FALSE
    OBVIOUS
  <2>1. B \subseteq 0 .. old.size
    OBVIOUS
  <2>2. PICK s \in B : \A y \in B : y <= s
    <3> HIDE DEF B
    <3> QED
      BY <2>1, GreatestNumber
  <2>3. PICK g \in Nat : Leads(old, g, s) /\ ~ Leads(new, g, s)
    BY <2>2
  <2>4. PICK q \in Ins(old) : Lands(old, s, q) /\ old.fn[q] = g
    BY <2>3 DEF Leads
  <2>5. CASE q \notin E
    <3>1. Lands(new, s, q)
      BY <2>4, <2>5, LandsStill
    <3> QED
      BY <2>3, <2>4, <3>1 DEF Leads, Lands
  <2>6. CASE q \in E
    <3> DEFINE n == q + Slots(old.code[q].op)
    <3>1. Leads(old, g, n)
      BY <2>4, <2>6
    <3>2. q \in 0 .. old.size - 1 /\ s \in 0 .. q /\ q \in Nat /\ s \in Nat
      BY <2>4 DEF Lands, Ins
    <3>3. n \in q + 1 .. q + 2
      BY <3>2, WordIs
    <3>4. PICK m \in Ins(old) : Lands(old, n, m) /\ old.fn[m] = g
      BY <3>1 DEF Leads
    <3>5. n \in 0 .. old.size - 1
      BY <3>4 DEF Lands, Ins
    <3>6. Leads(new, g, n)
      <4>1. ~ (n <= s)
        BY <3>2, <3>3
      <4>2. n \notin B
        BY <4>1, <2>2
      <4> QED
        BY <4>2, <3>1, <3>5
    <3>7. PICK k \in Ins(new) : Lands(new, n, k) /\ new.fn[k] = g
      BY <3>6 DEF Leads
    <3>8. k \in Nat /\ n <= k
      BY <3>7 DEF Lands, Ins
    <3>9. \A r \in s .. k - 1 : new.code[r].op = "NOP"
      <4> SUFFICES ASSUME NEW r \in s .. k - 1 PROVE new.code[r].op = "NOP"
        OBVIOUS
      <4>1. k \in 0 .. old.size - 1
        BY <3>7 DEF Ins
      <4>2. r \in 0 .. old.size - 1
        BY <4>1, <3>2
      <4>3. CASE r < q
        BY <2>4, <4>2, <4>3, <3>2, DropsIs DEF Lands
      <4>4. CASE r = q
        BY <2>6, <4>2, <4>4 DEF Drops
      <4>5. CASE r > q /\ r < n
        <5>1. r = q + 1 /\ n = q + 2
          BY <3>2, <3>3, <4>2, <4>5
        <5>2. old.code[q].op \in WideOps
          BY <3>2, <5>1, WordIs
        <5>3. old.code[r].op = "WORD" /\ r - 1 \in E
          BY <2>6, <3>2, <5>1, <5>2 DEF Whole
        <5> QED
          BY <5>3, <4>2 DEF Drops
      <4>6. CASE r >= n
        BY <3>7, <3>3, <3>2, <3>8, <4>6, <4>2 DEF Lands
      <4> QED
        BY <4>3, <4>4, <4>5, <4>6, <4>2, <3>2, <3>3
    <3>10. Lands(new, s, k)
      BY <3>2, <3>3, <3>7, <3>8, <3>9 DEF Lands
    <3> QED
      BY <2>3, <3>7, <3>10 DEF Leads
  <2> QED
    BY <2>5, <2>6
<1>2. PICK q \in Ins(old) : Lands(old, t, q) /\ old.fn[q] = f
  BY DEF Leads
<1>3. f \in Nat /\ t \in 0 .. old.size - 1
  BY <1>2, WordIs DEF Lands, Ins
<1> QED
  BY <1>1, <1>3

(* What a pass keeps: the code is sound, the jumps go to targets, and no   *)
(* word has become a payload.                                              *)
Kept(old, new, T) ==
  /\ Sound(new) /\ Aimed(new, T) /\ new.size = old.size
  /\ \A q \in 0 .. old.size - 1 : new.code[q].op = "WORD" => old.code[q].op = "WORD"

LEMMA DropFalling ==
  ASSUME NEW old, NEW new, NEW E, NEW T, Drops(old, new, E), Sound(old), Aimed(old, T),
         \A p \in Ins(old) : p \in E => Leads(old, old.fn[p], p + Slots(old.code[p].op))
  PROVE  Kept(old, new, T)
<1>1. Whole(old) /\ new.fn = old.fn /\ new.size = old.size
  BY DEF Sound, Drops
<1>2. /\ Ins(new) = Ins(old) \ E
      /\ \A q \in 0 .. old.size - 1 : new.code[q].op = "WORD" => old.code[q].op = "WORD"
  BY <1>1, DropsIs
<1>3. \A f, t : Leads(old, f, t) => Leads(new, f, t)
  BY <1>1, FallsOn
<1>4. ASSUME NEW p \in Ins(new)
      PROVE  /\ FallsThrough(old, p) => Leads(new, old.fn[p], p + Slots(old.code[p].op))
             /\ old.code[p].op \in Jumps => Leads(new, old.fn[p], TargetOf(old, p))
             /\ old.code[p].op \in BytecodeCalls =>
                  \E q \in Ins(new) : Lands(new, old.code[p + 1].a, q) /\ new.fn[q] # 0
  <2>1. SoundAt(old, p)
    BY <1>2 DEF Sound
  <2>2. ASSUME old.code[p].op \in BytecodeCalls
        PROVE  \E q \in Ins(new) : Lands(new, old.code[p + 1].a, q) /\ new.fn[q] # 0
    <3>1. PICK q \in Ins(old) : Lands(old, old.code[p + 1].a, q) /\ old.fn[q] # 0
      BY <2>1, <2>2 DEF SoundAt
    <3>2. Leads(new, old.fn[q], old.code[p + 1].a)
      BY <1>3, <3>1 DEF Leads
    <3> QED
      BY <3>1, <3>2 DEF Leads
  <2> QED
    BY <1>3, <2>1, <2>2 DEF SoundAt
<1>5. Leads(new, 0, 0)
  BY <1>3 DEF Sound
<1>6. Sound(new)
  BY <1>4, <1>5, LeftIsSound
<1> QED
  BY <1>1, <1>2, <1>6, LeftIsAimed DEF Kept

(* An instruction is erased with the word behind it.                       *)
LEMMA EraseDrops ==
  ASSUME NEW ch, Sound(ch), NEW p \in Ins(ch)
  PROVE  Drops(ch, Erase(ch, p), {p})
<1> DEFINE new == Erase(ch, p)
<1>1. /\ IsCode(ch) /\ Whole(ch) /\ ch.size \in Nat
      /\ p \in 0 .. ch.size - 1 /\ ch.code[p].op \notin {"WORD", "NOP"}
  BY DEF Sound, IsCode, Ins
<1>2. Nop \in Words /\ Nop.op = "NOP"
  BY DEF Nop, Inst, Words, Ops, Fns, ImmFns, UnaryFns
<1>3. new = [ch EXCEPT !.code =
         [q \in 0 .. ch.size - 1 |-> IF q \in p .. p + Slots(ch.code[p].op) - 1 THEN Nop ELSE ch.code[q]]]
  BY <1>1 DEF Erase, IsCode
<1>4. /\ new.size = ch.size /\ new.fn = ch.fn /\ DOMAIN new = DOMAIN ch
      /\ \A q \in 0 .. ch.size - 1 :
           new.code[q] = IF q \in p .. p + Slots(ch.code[p].op) - 1 THEN Nop ELSE ch.code[q]
      /\ DOMAIN new.code = 0 .. ch.size - 1
      /\ new.code = [q \in 0 .. ch.size - 1 |-> IF q \in p .. p + Slots(ch.code[p].op) - 1 THEN Nop ELSE ch.code[q]]
  BY <1>1, <1>3 DEF IsCode
<1>5. IsCode(new)
  BY <1>1, <1>2, <1>4 DEF IsCode
<1>6. ASSUME NEW q \in 0 .. ch.size - 1
      PROVE  q \in p .. p + Slots(ch.code[p].op) - 1 <=> q = p \/ (ch.code[q].op = "WORD" /\ q - 1 = p)
  <2>1. CASE ch.code[p].op \in WideOps
    BY <1>1, <2>1 DEF Whole, Slots
  <2>2. CASE ch.code[p].op \notin WideOps
    BY <1>1, <2>2 DEF Whole, Slots
  <2> QED
    BY <2>1, <2>2
<1> HIDE DEF new
<1>7. \A q \in 0 .. ch.size - 1 :
        IF q \in {p} \/ (ch.code[q].op = "WORD" /\ q - 1 \in {p})
        THEN new.code[q].op = "NOP" ELSE new.code[q] = ch.code[q]
  BY <1>2, <1>4, <1>6
<1>8. Drops(ch, new, {p})
  BY <1>1, <1>4, <1>5, <1>7 DEF Drops
<1> QED
  BY <1>8 DEF new

LEMMA EraseFalling ==
  ASSUME NEW ch, NEW T, Sound(ch), Aimed(ch, T), NEW p \in Ins(ch), Leads(ch, ch.fn[p], p + Slots(ch.code[p].op))
  PROVE  Kept(ch, Erase(ch, p), T) /\ Ins(Erase(ch, p)) = Ins(ch) \ {p}
<1>1. Drops(ch, Erase(ch, p), {p}) /\ Whole(ch)
  BY EraseDrops DEF Sound
<1>2. \A q \in Ins(ch) : q \in {p} => Leads(ch, ch.fn[q], q + Slots(ch.code[q].op))
  OBVIOUS
<1> QED
  BY <1>1, <1>2, DropFalling, DropsIs

LEMMA KeptIs ==
  ASSUME NEW old, NEW new, NEW T, Sound(old), Kept(old, new, T)
  PROVE  IsCode(new) /\ new.size = old.size /\ new.size \in Nat
BY DEF Kept, Sound, IsCode

LEMMA KeptBoth ==
  ASSUME NEW old, NEW mid, NEW new, NEW T, Kept(old, mid, T), Kept(mid, new, T)
  PROVE  Kept(old, new, T)
BY DEF Kept
-----------------------------------------------------------------------------
(* Rewriting instructions                                                  *)

(* Instructions are rewritten in place: where they begin stays.            *)
SameShape(old, new) ==
  /\ IsCode(old) /\ IsCode(new) /\ new.size = old.size /\ new.fn = old.fn
  /\ \A q \in 0 .. old.size - 1 :
       /\ new.code[q].op = "WORD" <=> old.code[q].op = "WORD"
       /\ new.code[q].op = "NOP" <=> old.code[q].op = "NOP"
       /\ new.code[q].op \in WideOps <=> old.code[q].op \in WideOps

LEMMA ShapeIs ==
  ASSUME NEW old, NEW new, SameShape(old, new)
  PROVE  /\ Ins(new) = Ins(old)
         /\ Whole(old) => Whole(new)
         /\ \A t, q : Lands(old, t, q) <=> Lands(new, t, q)
         /\ \A f, t : Leads(old, f, t) <=> Leads(new, f, t)
<1>1. old.size \in Nat /\ new.size = old.size /\ new.fn = old.fn
  BY DEF SameShape, IsCode
<1>2. Ins(new) = Ins(old)
  BY <1>1 DEF SameShape, Ins
<1>3. ASSUME NEW t, NEW q PROVE Lands(old, t, q) <=> Lands(new, t, q)
  <2>1. CASE q \in Ins(old) /\ t \in 0 .. q
    <3>1. \A r \in t .. q - 1 : r \in 0 .. old.size - 1
      BY <1>1, <2>1 DEF Ins
    <3> QED
      BY <1>2, <3>1 DEF Lands, SameShape
  <2> QED
    BY <1>2, <2>1 DEF Lands
<1>4. Whole(old) => Whole(new)
  <2> SUFFICES ASSUME Whole(old), NEW p \in 0 .. old.size - 1
               PROVE  /\ new.code[p].op \in WideOps => p + 1 < new.size /\ new.code[p + 1].op = "WORD"
                      /\ new.code[p].op = "WORD" => p > 0 /\ new.code[p - 1].op \in WideOps
    BY <1>1 DEF Whole
  <2>1. ASSUME new.code[p].op \in WideOps PROVE p + 1 < new.size /\ new.code[p + 1].op = "WORD"
    <3>1. p + 1 \in 0 .. old.size - 1 /\ old.code[p + 1].op = "WORD"
      BY <1>1, <2>1 DEF Whole, SameShape
    <3> QED
      BY <1>1, <3>1 DEF SameShape
  <2>2. ASSUME new.code[p].op = "WORD" PROVE p > 0 /\ new.code[p - 1].op \in WideOps
    <3>1. p > 0 /\ p - 1 \in 0 .. old.size - 1 /\ old.code[p - 1].op \in WideOps
      BY <1>1, <2>2 DEF Whole, SameShape
    <3> QED
      BY <1>1, <3>1 DEF SameShape
  <2> QED
    BY <2>1, <2>2
<1> QED
  BY <1>1, <1>2, <1>3, <1>4 DEF Leads

AimedAt(ch, T, p) ==
  /\ ch.code[p].op \in Jumps =>
       TargetOf(ch, p) \in T \/ (TargetOf(ch, p) > 0 /\ ch.code[TargetOf(ch, p) - 1].op # "WORD")
  /\ ch.code[p].op \in BytecodeCalls => ch.code[p + 1].a \in T

(* An instruction with the same way on, calls, returns and all.            *)
Alike(old, new, p) ==
  LET i == old.code[p]
      j == new.code[p]
  IN  /\ FallsThrough(new, p) => FallsThrough(old, p)
      /\ Slots(j.op) = Slots(i.op)
      /\ j.op \in Jumps => i.op \in Jumps /\ TargetOf(new, p) = TargetOf(old, p)
      /\ j.op \in BytecodeCalls => i.op \in BytecodeCalls /\ new.code[p + 1] = old.code[p + 1]
      /\ j.op \in {"RET", "RET_VOID", "TAILCALL"} => i.op \in {"RET", "RET_VOID", "TAILCALL"}
      /\ j.op \in SyscallOps => i.op \in SyscallOps /\ new.code[p + 1] = old.code[p + 1]

LEMMA RewriteKeeps ==
  ASSUME NEW old, NEW new, NEW T, Sound(old), Aimed(old, T), SameShape(old, new),
         \A p \in Ins(old) : Alike(old, new, p) \/ (SoundAt(new, p) /\ AimedAt(new, T, p))
  PROVE  Kept(old, new, T) /\ Ins(new) = Ins(old)
<1>1. /\ Ins(new) = Ins(old) /\ Whole(new) /\ new.size = old.size /\ new.fn = old.fn
      /\ \A t, q : Lands(old, t, q) <=> Lands(new, t, q)
      /\ \A f, t : Leads(old, f, t) <=> Leads(new, f, t)
      /\ IsCode(new) /\ old.size \in Nat
  BY ShapeIs DEF Sound, SameShape, IsCode
<1>2. ASSUME NEW p \in Ins(old), Alike(old, new, p) PROVE SoundAt(new, p)
  <2>1. SoundAt(old, p)
    BY DEF Sound
  <2> QED
    BY <1>1, <1>2, <2>1 DEF SoundAt, Alike
<1>3. ASSUME NEW p \in Ins(old), Alike(old, new, p) PROVE AimedAt(new, T, p)
  <2>1. AimedAt(old, T, p) /\ SoundAt(old, p)
    BY DEF Aimed, AimedAt, Sound
  <2>2. ASSUME new.code[p].op \in Jumps
        PROVE  TargetOf(new, p) \in T \/ (TargetOf(new, p) > 0 /\ new.code[TargetOf(new, p) - 1].op # "WORD")
    <3> DEFINE t == TargetOf(old, p)
    <3>1. t = TargetOf(new, p) /\ old.code[p].op \in Jumps
      BY <1>3, <2>2 DEF Alike
    <3>2. t \in T \/ (t > 0 /\ old.code[t - 1].op # "WORD")
      BY <2>1, <3>1 DEF AimedAt
    <3>3. t \in 0 .. old.size - 1
      <4>1. Leads(old, old.fn[p], t)
        BY <2>1, <3>1 DEF SoundAt
      <4> QED
        BY <1>1, <4>1 DEF Leads, Lands, Ins
    <3> HIDE DEF t
    <3>4. t > 0 => t - 1 \in 0 .. old.size - 1
      BY <1>1, <3>3
    <3> QED
      BY <3>1, <3>2, <3>3, <3>4 DEF SameShape
  <2> QED
    BY <1>3, <2>1, <2>2 DEF AimedAt, Alike
<1>4. \A p \in Ins(old) : SoundAt(new, p) /\ AimedAt(new, T, p)
  BY <1>2, <1>3
<1>5. Sound(new)
  BY <1>1, <1>4 DEF Sound
<1>6. Aimed(new, T)
  BY <1>1, <1>4 DEF Aimed, AimedAt
<1>7. \A q \in 0 .. old.size - 1 : new.code[q].op = "WORD" => old.code[q].op = "WORD"
  BY DEF SameShape
<1> QED
  BY <1>1, <1>5, <1>6, <1>7 DEF Kept

LEMMA LeadsIs ==
  ASSUME NEW ch, IsCode(ch), NEW f, NEW t, Leads(ch, f, t)
  PROVE  t \in 0 .. ch.size - 1 /\ f \in Nat /\ ch.code[t].op # "WORD"
<1>1. PICK q \in Ins(ch) : Lands(ch, t, q) /\ ch.fn[q] = f
  BY DEF Leads
<1>2. ch.size \in Nat /\ q \in 0 .. ch.size - 1 /\ t \in 0 .. q /\ ch.code[q].op # "WORD"
  BY <1>1 DEF Lands, Ins, IsCode
<1>3. t = q \/ t \in t .. q - 1
  BY <1>2
<1>4. ch.code[t].op # "WORD"
  BY <1>1, <1>2, <1>3 DEF Lands
<1> QED
  BY <1>1, <1>2, <1>4, WordIs

LEMMA LeadsHere ==
  ASSUME NEW ch, IsCode(ch), NEW f, NEW q \in Ins(ch), Leads(ch, f, q)
  PROVE  ch.fn[q] = f
<1>1. PICK p \in Ins(ch) : Lands(ch, q, p) /\ ch.fn[p] = f
  BY DEF Leads
<1>2. Lands(ch, q, q) /\ ch.size \in Nat
  BY DEF Lands, Ins, IsCode
<1> QED
  BY <1>1, <1>2, UniqueLanding

LEMMA WriteKeeps ==
  ASSUME NEW ch, NEW T, Sound(ch), Aimed(ch, T), NEW p \in Ins(ch), NEW i \in Words,
         i.op \notin {"WORD", "NOP"}, i.op \in WideOps <=> ch.code[p].op \in WideOps,
         LET new == Write(ch, p, i) IN Alike(ch, new, p) \/ (SoundAt(new, p) /\ AimedAt(new, T, p))
  PROVE  /\ Kept(ch, Write(ch, p, i), T) /\ Ins(Write(ch, p, i)) = Ins(ch)
         /\ \A f, t : Leads(ch, f, t) <=> Leads(Write(ch, p, i), f, t)
<1> DEFINE new == Write(ch, p, i)
<1>1. /\ IsCode(ch) /\ Whole(ch) /\ ch.size \in Nat
      /\ p \in 0 .. ch.size - 1 /\ ch.code[p].op \notin {"WORD", "NOP"}
  BY DEF Sound, IsCode, Ins
<1>2. /\ new.size = ch.size /\ new.fn = ch.fn /\ new.code = [ch.code EXCEPT ![p] = i]
      /\ DOMAIN new = DOMAIN ch
  BY <1>1 DEF Write, IsCode
<1>3. new.code \in [0 .. ch.size - 1 -> Words] /\ new.code[p] = i
      /\ \A q \in 0 .. ch.size - 1 : q # p => new.code[q] = ch.code[q]
  BY <1>1, <1>2 DEF IsCode
<1>4. IsCode(new)
  BY <1>1, <1>2, <1>3 DEF IsCode
<1>5. Alike(ch, new, p) \/ (SoundAt(new, p) /\ AimedAt(new, T, p))
  OBVIOUS
<1> HIDE DEF new
<1>6. SameShape(ch, new)
  BY <1>1, <1>2, <1>3, <1>4 DEF SameShape, WideOps
<1>7. ASSUME NEW q \in Ins(ch), q # p PROVE Alike(ch, new, q)
  <2>1. q \in 0 .. ch.size - 1 /\ new.code[q] = ch.code[q] /\ TargetOf(new, q) = TargetOf(ch, q)
    BY <1>3, <1>7 DEF Ins, TargetOf
  <2>2. ASSUME ch.code[q].op \in WideOps PROVE new.code[q + 1] = ch.code[q + 1]
    <3>1. q + 1 \in 0 .. ch.size - 1 /\ ch.code[q + 1].op = "WORD"
      BY <1>1, <2>1, <2>2 DEF Whole
    <3> QED
      BY <1>1, <1>3, <3>1
  <2> QED
    BY <2>1, <2>2 DEF Alike, FallsThrough, BytecodeCalls, SyscallOps, WideOps
<1>8. \A q \in Ins(ch) : Alike(ch, new, q) \/ (SoundAt(new, q) /\ AimedAt(new, T, q))
  BY <1>5, <1>7
<1>9. Kept(ch, new, T) /\ Ins(new) = Ins(ch) /\ \A f, t : Leads(ch, f, t) <=> Leads(new, f, t)
  BY <1>6, <1>8, RewriteKeeps, ShapeIs
<1> QED
  BY <1>9 DEF new

LEMMA WriteIs ==
  ASSUME NEW ch, IsCode(ch), NEW p \in 0 .. ch.size - 1, NEW i
  PROVE  /\ Write(ch, p, i).size = ch.size /\ Write(ch, p, i).fn = ch.fn
         /\ Write(ch, p, i).code[p] = i
         /\ \A q \in 0 .. ch.size - 1 : q # p => Write(ch, p, i).code[q] = ch.code[q]
BY DEF Write, IsCode

LEMMA OffsetIs ==
  ASSUME NEW i \in Words, i.op \in Jumps, NEW d \in Int
  PROVE  WithOffset(i, d) \in Words /\ WithOffset(i, d).op = i.op /\ JumpOffset(WithOffset(i, d)) = d
BY DEF WithOffset, JumpOffset, Words, Jumps, CondJumps

(* A jump lands elsewhere in its function.                                 *)
LEMMA RetargetKeeps ==
  ASSUME NEW ch, NEW T, Sound(ch), Aimed(ch, T), NEW p \in Ins(ch), ch.code[p].op \in Jumps,
         NEW t, Leads(ch, ch.fn[p], t), t \in T \/ (t > 0 /\ ch.code[t - 1].op # "WORD")
  PROVE  /\ Kept(ch, Retarget(ch, p, t), T) /\ p \in Ins(Retarget(ch, p, t))
         /\ Retarget(ch, p, t).code[p].op = ch.code[p].op
<1> DEFINE i   == ch.code[p]
           j   == WithOffset(i, t - p - 1)
           new == Write(ch, p, j)
<1>1. IsCode(ch) /\ p \in 0 .. ch.size - 1 /\ p \in Int /\ ch.size \in Nat
  BY DEF Sound, IsCode, Ins
<1>2. i \in Words /\ i.op \in Jumps
  BY <1>1, WordIs
<1>3. t \in 0 .. ch.size - 1
  BY <1>1, LeadsIs
<1>4. j \in Words /\ j.op = i.op /\ JumpOffset(j) = t - p - 1
  BY <1>1, <1>2, <1>3, OffsetIs
<1>5. /\ new.size = ch.size /\ new.fn = ch.fn /\ new.code[p] = j
      /\ \A q \in 0 .. ch.size - 1 : q # p => new.code[q] = ch.code[q]
  BY <1>1, WriteIs
<1>6. TargetOf(new, p) = t
  BY <1>1, <1>3, <1>4, <1>5 DEF TargetOf, JumpTarget
<1>7. \A q \in 0 .. ch.size - 1 : new.code[q].op = ch.code[q].op
  BY <1>4, <1>5
<1>8. Ins(new) = Ins(ch)
  BY <1>5, <1>7 DEF Ins
<1>9. \A f, s : Leads(ch, f, s) => Leads(new, f, s)
  <2> SUFFICES ASSUME NEW f, NEW s, NEW q \in Ins(ch), Lands(ch, s, q), ch.fn[q] = f
               PROVE  Leads(new, f, s)
    BY DEF Leads
  <2>1. \A r \in s .. q - 1 : r \in 0 .. ch.size - 1
    BY <1>1 DEF Lands, Ins
  <2>2. Lands(new, s, q)
    BY <1>7, <1>8, <2>1 DEF Lands
  <2> QED
    BY <1>5, <1>8, <2>2 DEF Leads
<1>10. SoundAt(new, p)
  <2>1. SoundAt(ch, p)
    BY DEF Sound
  <2>2. FallsThrough(new, p) => FallsThrough(ch, p)
    BY <1>2, <1>4, <1>5 DEF FallsThrough, Jumps, CondJumps, SyscallOps
  <2> QED
    BY <1>2, <1>4, <1>5, <1>6, <1>9, <2>1, <2>2
       DEF SoundAt, Jumps, CondJumps, SyscallOps, BytecodeCalls
<1>11. AimedAt(new, T, p)
  <2>1. t > 0 => t - 1 \in 0 .. ch.size - 1
    BY <1>1, <1>3
  <2> QED
    BY <1>2, <1>3, <1>4, <1>5, <1>6, <1>7, <2>1 DEF AimedAt, Jumps, CondJumps, BytecodeCalls
<1>12. i.op \notin {"WORD", "NOP"} /\ i.op \notin WideOps
  BY <1>2 DEF Jumps, CondJumps, WideOps
<1>13. Kept(ch, new, T) /\ Ins(new) = Ins(ch)
  <2> HIDE DEF j
  <2>1. LET n == Write(ch, p, j) IN SoundAt(n, p) /\ AimedAt(n, T, p)
    BY <1>10, <1>11
  <2> QED
    BY <1>4, <1>12, <2>1, WriteKeeps
<1>14. Kept(ch, ch, T)
  BY DEF Kept
<1> QED
  BY <1>4, <1>5, <1>13, <1>14 DEF Retarget
-----------------------------------------------------------------------------
(* The rules that let others follow (2, 3 and 4)                           *)

(* The instruction at p is still there, and does the same kind of thing.   *)
Prepared(ch, new, T, p) ==
  Kept(ch, new, T) /\ p \in Ins(new) /\ new.code[p].op = ch.code[p].op

LEMMA Unchanged ==
  ASSUME NEW ch, NEW T, Sound(ch), Aimed(ch, T), NEW p \in Ins(ch)
  PROVE  Prepared(ch, ch, T, p)
BY DEF Prepared, Kept

LEMMA BothPrepared ==
  ASSUME NEW old, NEW mid, NEW new, NEW T, NEW p, Prepared(old, mid, T, p), Prepared(mid, new, T, p)
  PROVE  Prepared(old, new, T, p)
BY DEF Prepared, Kept

(* Control that goes on to an instruction stays in the function.           *)
LEMMA Onward ==
  ASSUME NEW ch, Sound(ch), NEW p \in Ins(ch)
  PROVE  /\ FallsThrough(ch, p) => Leads(ch, ch.fn[p], p + Slots(ch.code[p].op))
         /\ ch.code[p].op \in Jumps => Leads(ch, ch.fn[p], TargetOf(ch, p))
         /\ \A q \in Ins(ch) :
              (FallsThrough(ch, p) /\ q = p + Slots(ch.code[p].op)) \/ (ch.code[p].op \in Jumps /\ q = TargetOf(ch, p))
              => ch.fn[q] = ch.fn[p]
<1>1. SoundAt(ch, p) /\ IsCode(ch)
  BY DEF Sound
<1> QED
  BY <1>1, LeadsHere DEF SoundAt

LEMMA SkipPrepares ==
  ASSUME NEW ch, NEW T, Sound(ch), Aimed(ch, T), NEW p \in Ins(ch)
  PROVE  Prepared(ch, SkipFalseTest(ch, p), T, p)
<1> DEFINE t == TargetOf(ch, p)
<1>1. CASE /\ ch.code[p].op = "JUMP_IF_FALSE"
           /\ t \in 0 .. ch.size - 2
           /\ ch.code[t].op = "LOAD_IMM" /\ ch.code[t].b = 0
           /\ ch.code[t + 1].op = "JUMP_IF_TRUE" /\ ch.code[t].a = ch.code[t + 1].a
  <2>1. SkipFalseTest(ch, p) = Retarget(ch, p, t + 2) /\ ch.code[p].op \in Jumps /\ ch.size \in Nat
    BY <1>1 DEF SkipFalseTest, Jumps, CondJumps, Sound, IsCode
  <2>2. t \in Ins(ch) /\ t + 1 \in Ins(ch) /\ t \in Nat
    BY <1>1, <2>1 DEF Ins
  <2>3. ch.fn[t] = ch.fn[p]
    BY <2>1, <2>2, Onward
  <2>4. FallsThrough(ch, t) /\ Slots(ch.code[t].op) = 1
    BY <1>1 DEF FallsThrough, Ops, Terminators, SyscallOps, Slots, WideOps
  <2>5. FallsThrough(ch, t + 1) /\ Slots(ch.code[t + 1].op) = 1
    BY <1>1 DEF FallsThrough, Ops, Terminators, SyscallOps, Slots, WideOps
  <2>6. ch.fn[t + 1] = ch.fn[p]
    BY <2>2, <2>3, <2>4, Onward
  <2>7. Leads(ch, ch.fn[p], (t + 1) + 1)
    BY <2>2, <2>5, <2>6, Onward
  <2>8. (t + 1) + 1 = t + 2 /\ t + 2 > 0 /\ (t + 2) - 1 = t + 1
    BY <2>2
  <2>9. ch.code[(t + 2) - 1].op # "WORD" /\ Leads(ch, ch.fn[p], t + 2)
    BY <1>1, <2>7, <2>8
  <2> HIDE DEF t
  <2> QED
    BY <2>1, <2>8, <2>9, RetargetKeeps DEF Prepared
<1>2. CASE ~ (/\ ch.code[p].op = "JUMP_IF_FALSE"
              /\ t \in 0 .. ch.size - 2
              /\ ch.code[t].op = "LOAD_IMM" /\ ch.code[t].b = 0
              /\ ch.code[t + 1].op = "JUMP_IF_TRUE" /\ ch.code[t].a = ch.code[t + 1].a)
  <2>1. SkipFalseTest(ch, p) = ch
    BY <1>2 DEF SkipFalseTest
  <2> QED
    BY <2>1, Unchanged
<1> QED
  BY <1>1, <1>2

(* A jump to a jump goes where that one goes.                              *)
LEMMA ChainKeeps ==
  ASSUME NEW ch, NEW T, Sound(ch), Aimed(ch, T), NEW p \in Ins(ch), ch.code[p].op \in Jumps,
         TargetOf(ch, p) \in 0 .. ch.size - 1, ch.code[TargetOf(ch, p)].op = "JUMP"
  PROVE  Prepared(ch, Retarget(ch, p, TargetOf(ch, TargetOf(ch, p))), T, p)
<1> DEFINE t == TargetOf(ch, p)
           u == TargetOf(ch, t)
<1>1. t \in Ins(ch) /\ ch.code[t].op \in Jumps
  BY DEF Ins, Jumps
<1>2. ch.fn[t] = ch.fn[p]
  BY <1>1, Onward
<1>3. Leads(ch, ch.fn[p], u)
  BY <1>1, <1>2, Onward
<1>4. u \in T \/ (u > 0 /\ ch.code[u - 1].op # "WORD")
  BY <1>1 DEF Aimed
<1> HIDE DEF u
<1>5. Prepared(ch, Retarget(ch, p, u), T, p)
  BY <1>3, <1>4, RetargetKeeps DEF Prepared
<1> QED
  BY <1>5 DEF u

LEMMA ChainPrepares ==
  ASSUME NEW ch, NEW T, Sound(ch), Aimed(ch, T), NEW p \in Ins(ch)
  PROVE  Prepared(ch, ChainConditional(ch, p), T, p)
<1> DEFINE t == TargetOf(ch, p)
           C == /\ ch.code[p].op \in CondJumps
                /\ t \in 0 .. ch.size - 1
                /\ ch.code[t].op = "JUMP"
                /\ TargetOf(ch, t) <= ch.size /\ TargetOf(ch, t) # t
<1>1. CASE C
  <2>1. ChainConditional(ch, p) = Retarget(ch, p, TargetOf(ch, t)) /\ ch.code[p].op \in Jumps
    BY <1>1 DEF ChainConditional, Jumps
  <2> QED
    BY <1>1, <2>1, ChainKeeps
<1>2. CASE ~ C
  <2>1. ChainConditional(ch, p) = ch
    BY <1>2 DEF ChainConditional
  <2> QED
    BY <2>1, Unchanged
<1> QED
  BY <1>1, <1>2
-----------------------------------------------------------------------------
(* Recursive functions.  One whose value at q depends on values of a lower *)
(* rank exists: it is solved up to every rank, in one way.                 *)

SolvesUpTo(S, rank, step, f, n) ==
  f \in [Nat -> S] /\ \A q \in Nat : rank[q] < n => f[q] = step[<<f, q>>]

(* A step looks at lower ranks only.                                       *)
Local(S, rank, step) ==
  \A f, g \in [Nat -> S] : \A q \in Nat :
    (\A r \in Nat : rank[r] < rank[q] => f[r] = g[r]) => step[<<f, q>>] = step[<<g, q>>]

Stepping(S, rank, step) ==
  /\ S # {} /\ rank \in [Nat -> Nat] /\ step \in [[Nat -> S] \X Nat -> S]
  /\ Local(S, rank, step)

Solves(S, step, f) == f \in [Nat -> S] /\ \A q \in Nat : f[q] = step[<<f, q>>]

LEMMA SolutionsAgree ==
  ASSUME NEW S, NEW rank \in [Nat -> Nat], NEW step, Local(S, rank, step),
         NEW n \in Nat, NEW f, NEW g, SolvesUpTo(S, rank, step, f, n), SolvesUpTo(S, rank, step, g, n)
  PROVE  \A q \in Nat : rank[q] < n => f[q] = g[q]
<1> DEFINE B == {k \in Nat : \E q \in Nat : rank[q] = k /\ k < n /\ f[q] # g[q]}
<1>1. B = {}
  <2> SUFFICES ASSUME B # {} PROVE FALSE
    OBVIOUS
  <2>1. PICK k \in B : \A y \in B : k <= y
    <3>1. B \subseteq Nat
      OBVIOUS
    <3> HIDE DEF B
    <3> QED
      BY <3>1, LeastNumber
  <2>2. PICK q \in Nat : rank[q] = k /\ k < n /\ f[q] # g[q]
    BY <2>1
  <2>3. ASSUME NEW r \in Nat, rank[r] < rank[q] PROVE f[r] = g[r]
    <3>1. rank[r] \in Nat /\ k \in Nat
      BY <2>1
    <3>2. ~ (k <= rank[r]) /\ rank[r] < n
      BY <2>2, <2>3, <3>1
    <3>3. rank[r] \notin B
      BY <2>1, <3>2
    <3> QED
      BY <3>1, <3>2, <3>3
  <2>4. step[<<f, q>>] = step[<<g, q>>]
    <3>1. f \in [Nat -> S] /\ g \in [Nat -> S]
      BY DEF SolvesUpTo
    <3> HIDE DEF B
    <3> QED
      BY <2>3, <3>1 DEF Local
  <2> QED
    BY <2>2, <2>4 DEF SolvesUpTo
<1> QED
  BY <1>1

LEMMA Solvable ==
  ASSUME NEW S, NEW rank, NEW step, Stepping(S, rank, step)
  PROVE  \E f : Solves(S, step, f)
<1>0. S # {} /\ rank \in [Nat -> Nat] /\ step \in [[Nat -> S] \X Nat -> S] /\ Local(S, rank, step)
  BY DEF Stepping
<1> DEFINE B == {n \in Nat : ~ \E f : SolvesUpTo(S, rank, step, f, n)}
<1>1. B = {}
  <2> SUFFICES ASSUME B # {} PROVE FALSE
    OBVIOUS
  <2>1. PICK n \in B : \A y \in B : n <= y
    <3>1. B \subseteq Nat
      OBVIOUS
    <3> HIDE DEF B
    <3> QED
      BY <3>1, LeastNumber
  <2>2. n \in Nat /\ ~ \E f : SolvesUpTo(S, rank, step, f, n)
    BY <2>1
  <2>3. CASE n = 0
    <3>1. PICK s \in S : TRUE
      BY <1>0
    <3>2. \A q \in Nat : ~ (rank[q] < 0)
      BY <1>0
    <3>3. SolvesUpTo(S, rank, step, [q \in Nat |-> s], n)
      BY <2>3, <3>2 DEF SolvesUpTo
    <3> QED
      BY <2>2, <3>3
  <2>4. CASE n # 0
    <3>1. n - 1 \in Nat /\ ~ (n <= n - 1)
      BY <2>2, <2>4
    <3>2. n - 1 \notin B
      BY <2>1, <3>1
    <3>3. PICK f : SolvesUpTo(S, rank, step, f, n - 1)
      BY <3>1, <3>2
    <3> DEFINE g == [q \in Nat |-> step[<<f, q>>]]
    <3>4. f \in [Nat -> S] /\ g \in [Nat -> S]
      BY <1>0, <3>3 DEF SolvesUpTo
    <3>5. ASSUME NEW q \in Nat, rank[q] < n PROVE g[q] = step[<<g, q>>]
      <4>1. ASSUME NEW r \in Nat, rank[r] < rank[q] PROVE f[r] = g[r]
        <5>1. rank[r] \in Nat /\ rank[q] \in Nat /\ n \in Nat
          BY <1>0, <2>2
        <5>2. rank[r] < n - 1
          BY <3>5, <4>1, <5>1
        <5> QED
          BY <3>3, <5>2 DEF SolvesUpTo
      <4>2. step[<<f, q>>] = step[<<g, q>>]
        <5> HIDE DEF g
        <5> QED
          BY <1>0, <3>4, <4>1 DEF Local
      <4> QED
        BY <4>2
    <3>6. SolvesUpTo(S, rank, step, g, n)
      <4> HIDE DEF g
      <4> QED
        BY <3>4, <3>5 DEF SolvesUpTo
    <3> QED
      BY <2>2, <3>6
  <2> QED
    BY <2>3, <2>4
<1> DEFINE F == [n \in Nat |-> CHOOSE f : SolvesUpTo(S, rank, step, f, n)]
           h == [q \in Nat |-> F[rank[q] + 1][q]]
<1>2. \A n \in Nat : SolvesUpTo(S, rank, step, F[n], n)
  BY <1>1
<1>3. h \in [Nat -> S]
  <2>1. \A n \in Nat : F[n] \in [Nat -> S]
    <3> HIDE DEF F
    <3> QED
      BY <1>2 DEF SolvesUpTo
  <2>2. \A q \in Nat : rank[q] + 1 \in Nat
    BY <1>0
  <2> HIDE DEF F
  <2> QED
    BY <2>1, <2>2
<1> HIDE DEF F
<1>4. ASSUME NEW q \in Nat PROVE h[q] = step[<<h, q>>]
  <2> DEFINE m == rank[q] + 1
  <2>0. m \in Nat /\ rank[q] \in Nat
    BY <1>0
  <2>1. m \in Nat /\ rank[q] \in Nat /\ SolvesUpTo(S, rank, step, F[m], m) /\ F[m] \in [Nat -> S]
    <3> HIDE DEF m, h
    <3> QED
      BY <1>2, <2>0 DEF SolvesUpTo
  <2>2. ASSUME NEW r \in Nat, rank[r] < rank[q] PROVE F[m][r] = h[r]
    <3> DEFINE k == rank[r] + 1
    <3>1. k \in Nat /\ rank[r] \in Nat /\ rank[r] < k /\ k < m
      BY <1>0, <2>1, <2>2
    <3>2. SolvesUpTo(S, rank, step, F[k], k)
      BY <1>2, <3>1
    <3>3. SolvesUpTo(S, rank, step, F[m], k)
      <4>1. ASSUME NEW s \in Nat, rank[s] < k PROVE rank[s] < m
        <5>1. rank[s] \in Nat
          BY <1>0
        <5> HIDE DEF k, m
        <5> QED
          BY <2>1, <3>1, <4>1, <5>1
      <4> HIDE DEF k, m
      <4> QED
        BY <2>1, <4>1 DEF SolvesUpTo
    <3>4. F[m][r] = F[k][r]
      <4> HIDE DEF k, m, h
      <4> QED
        BY <1>0, <3>1, <3>2, <3>3, SolutionsAgree
    <3> QED
      BY <3>4
  <2>3. step[<<F[m], q>>] = step[<<h, q>>]
    <3> HIDE DEF h, m
    <3> QED
      BY <1>0, <1>3, <2>1, <2>2 DEF Local
  <2>4. rank[q] < m
    BY <2>1
  <2>5. F[m][q] = step[<<F[m], q>>]
    <3> HIDE DEF m, h
    <3> QED
      BY <2>1, <2>4 DEF SolvesUpTo
  <2> QED
    BY <2>3, <2>5
<1> QED
  <2> HIDE DEF h
  <2> QED
    BY <1>3, <1>4 DEF Solves

(* F is the way from p to the MOVE at m: it does not branch, and nothing   *)
(* on it needs register tmp.                                               *)
OnTheWay(ch, p, tmp, m, F) ==
  /\ F \subseteq p + 1 .. ch.size - 1 /\ p + Slots(ch.code[p].op) \in F
  /\ \A q \in F : q # m => /\ q + Slots(ch.code[q].op) \in F /\ ~ EndsBlock(ch, q)
                          /\ tmp \notin Needs(ch.code[q])

(* The MOVE that the definition at p is forwarded to is behind p.          *)
LEMMA TheMoveIs ==
  ASSUME NEW ch, IsCode(ch), NEW T, NEW p \in 0 .. ch.size - 1, TheMove(ch, T, p) < ch.size
  PROVE  /\ TheMove(ch, T, p) \in p + 1 .. ch.size - 1 /\ ch.code[TheMove(ch, T, p)].op = "MOVE"
         /\ \E F : OnTheWay(ch, p, ch.code[p].a, TheMove(ch, T, p), F)
<1> DEFINE tmp == ch.code[p].a
           E(f, q) ==
             IF q >= ch.size \/ q \in T THEN ch.size
             ELSE LET i == ch.code[q]
                  IN  CASE i.op = "NOP"                                  -> f[q + 1]
                        [] i.op = "MOVE" /\ i.b = tmp /\ i.a = tmp       -> f[q + 1]
                        [] i.op = "MOVE" /\ i.b = tmp /\ i.a # tmp       -> q
                        [] OTHER -> IF tmp \in Reads(i) \union Writes(i) \/ EndsBlock(ch, q)
                                    THEN ch.size ELSE f[q + Slots(i.op)]
           scan == CHOOSE f : f = [q \in Nat |-> E(f, q)]
           rank == [q \in Nat |-> IF q < ch.size THEN ch.size - q ELSE 0]
           step == [x \in [Nat -> Nat] \X Nat |-> E(x[1], x[2])]
<1>1. TheMove(ch, T, p) = scan[p + Slots(ch.code[p].op)]
  BY DEF TheMove
<1>2. ch.size \in Nat /\ \A q \in Nat : Slots(ch.code[q].op) \in {1, 2}
  BY DEF IsCode, Slots
<1>3. rank \in [Nat -> Nat] /\ \A q \in Nat : q < ch.size => rank[q + 1] < rank[q] /\ rank[q + 2] < rank[q]
  BY <1>2
<1>4. ASSUME NEW f \in [Nat -> Nat], NEW q \in Nat
      PROVE  \/ E(f, q) \in {ch.size, f[q + 1], f[q + 2]}
             \/ E(f, q) = q /\ q < ch.size /\ ch.code[q].op = "MOVE"
  BY <1>2
<1>5. step \in [[Nat -> Nat] \X Nat -> Nat]
  <2>1. ASSUME NEW f \in [Nat -> Nat], NEW q \in Nat PROVE E(f, q) \in Nat
    <3>1. f[q + 1] \in Nat /\ f[q + 2] \in Nat
      OBVIOUS
    <3> HIDE DEF E
    <3> QED
      BY <1>2, <1>4, <3>1
  <2> HIDE DEF E
  <2> QED
    BY <2>1
<1>6. ASSUME NEW f \in [Nat -> Nat], NEW g \in [Nat -> Nat], NEW q \in Nat,
             \A r \in Nat : rank[r] < rank[q] => f[r] = g[r]
      PROVE  E(f, q) = E(g, q)
  <2>1. CASE q >= ch.size
    BY <2>1
  <2>2. CASE ~ (q >= ch.size)
    <3>1. q + 1 \in Nat /\ q + 2 \in Nat /\ q < ch.size
      BY <1>2, <2>2
    <3>2. f[q + 1] = g[q + 1] /\ f[q + 2] = g[q + 2]
      <4> HIDE DEF rank
      <4> QED
        BY <1>3, <1>6, <3>1
    <3>3. f[q + Slots(ch.code[q].op)] = g[q + Slots(ch.code[q].op)]
      BY <1>2, <3>2
    <3> QED
      BY <3>2, <3>3
  <2> QED
    BY <2>1, <2>2
<1>7. Local(Nat, rank, step)
  <2> SUFFICES ASSUME NEW f \in [Nat -> Nat], NEW g \in [Nat -> Nat], NEW q \in Nat,
                      \A r \in Nat : rank[r] < rank[q] => f[r] = g[r]
               PROVE  step[<<f, q>>] = step[<<g, q>>]
    BY DEF Local
  <2>1. E(f, q) = E(g, q)
    BY <1>6
  <2> HIDE DEF E
  <2> QED
    BY <2>1
<1>8. PICK f \in [Nat -> Nat] : \A q \in Nat : f[q] = step[<<f, q>>]
  <2>1. Stepping(Nat, rank, step)
    <3>1. Nat # {} /\ rank \in [Nat -> Nat]
      BY <1>3
    <3> HIDE DEF E, rank, step
    <3> QED
      BY <1>5, <1>7, <3>1 DEF Stepping
  <2> HIDE DEF rank, step
  <2>2. PICK f : Solves(Nat, step, f)
    BY <2>1, Solvable
  <2> QED
    BY <2>2 DEF Solves
<1>9. f = [q \in Nat |-> E(f, q)]
  <2> HIDE DEF E
  <2> QED
    BY <1>8
<1>10. scan = [q \in Nat |-> E(scan, q)]
  <2> HIDE DEF E
  <2> QED
    BY <1>9
<1> HIDE DEF scan
<1> DEFINE Fine(q) == scan[q] = ch.size \/ (scan[q] \in q .. ch.size - 1 /\ ch.code[scan[q]].op = "MOVE")
           B == {q \in 0 .. ch.size + 1 : ~ Fine(q)}
<1>11. ASSUME NEW q \in Nat
       PROVE  \/ scan[q] \in {ch.size, scan[q + 1], scan[q + 2]} /\ q < ch.size
              \/ scan[q] = q /\ q < ch.size /\ ch.code[q].op = "MOVE"
              \/ scan[q] = ch.size
  <2>1. scan[q] = E(scan, q)
    <3> HIDE DEF E
    <3> QED
      BY <1>10
  <2> QED
    BY <1>2, <2>1
<1>11a. ASSUME NEW q \in Nat, scan[q] # ch.size, scan[q] # q
        PROVE  /\ q < ch.size /\ scan[q + Slots(ch.code[q].op)] = scan[q]
               /\ ~ EndsBlock(ch, q) /\ tmp \notin Needs(ch.code[q])
  <2>1. scan[q] = E(scan, q)
    <3> HIDE DEF E
    <3> QED
      BY <1>10
  <2>2. ~ (q >= ch.size) /\ q \notin T
    BY <1>11a, <2>1
  <2>3. CASE ch.code[q].op = "NOP"
    <3>1. Slots(ch.code[q].op) = 1 /\ ~ EndsBlock(ch, q) /\ Reads(ch.code[q]) = {}
      BY <2>3 DEF Slots, WideOps, EndsBlock, IsInstructionTerminator, SysTerminator, SyscallOps, Terminators,
                  CondJumps, Reads
    <3>2. scan[q] = scan[q + 1]
      BY <2>1, <2>2, <2>3
    <3> QED
      BY <1>2, <2>2, <3>1, <3>2 DEF Needs
  <2>4. CASE ch.code[q].op = "MOVE" /\ ch.code[q].b = tmp
    <3>1. Slots(ch.code[q].op) = 1 /\ ~ EndsBlock(ch, q)
      BY <2>4 DEF Slots, WideOps, EndsBlock, IsInstructionTerminator, SysTerminator, SyscallOps, Terminators, CondJumps
    <3>2. scan[q] = scan[q + 1] /\ ch.code[q].a = tmp
      BY <1>11a, <2>1, <2>2, <2>4
    <3> QED
      BY <1>2, <2>2, <2>4, <3>1, <3>2 DEF Needs, MovesNothing
  <2>5. CASE ch.code[q].op # "NOP" /\ ~ (ch.code[q].op = "MOVE" /\ ch.code[q].b = tmp)
    <3>1. scan[q] = IF tmp \in Reads(ch.code[q]) \union Writes(ch.code[q]) \/ EndsBlock(ch, q)
                    THEN ch.size ELSE scan[q + Slots(ch.code[q].op)]
      BY <2>1, <2>2, <2>5
    <3> QED
      BY <1>2, <1>11a, <2>2, <3>1 DEF Needs
  <2> QED
    BY <2>3, <2>4, <2>5
<1> HIDE DEF E
<1>12. B = {}
  <2> SUFFICES ASSUME B # {} PROVE FALSE
    OBVIOUS
  <2>1. PICK q \in B : \A y \in B : y <= q
    <3>1. B \subseteq 0 .. ch.size + 1 /\ ch.size + 1 \in Nat
      BY <1>2
    <3> HIDE DEF B
    <3> QED
      BY <3>1, GreatestNumber
  <2>2. q \in 0 .. ch.size + 1 /\ q \in Nat /\ ~ Fine(q)
    BY <1>2, <2>1
  <2>3. ASSUME NEW d \in {1, 2}, q < ch.size PROVE Fine(q + d)
    <3>1. q + d \in 0 .. ch.size + 1 /\ ~ (q + d <= q)
      BY <1>2, <2>2, <2>3
    <3>2. q + d \notin B
      BY <2>1, <3>1
    <3> HIDE DEF Fine
    <3> QED
      BY <3>1, <3>2
  <2>4. q < ch.size => Fine(q + 1) /\ Fine(q + 2)
    <3> HIDE DEF B
    <3> QED
      BY <2>3
  <2>5. Fine(q)
    <3> HIDE DEF B
    <3> QED
      BY <1>2, <1>11, <2>2, <2>4
  <2> QED
    BY <2>2, <2>5
<1>13. p + Slots(ch.code[p].op) \in p + 1 .. ch.size + 1 /\ p \in Nat
  BY <1>2
<1>14. Fine(p + Slots(ch.code[p].op))
  <2>1. p + Slots(ch.code[p].op) \in 0 .. ch.size + 1
    BY <1>13
  <2> HIDE DEF Fine
  <2> QED
    BY <1>12, <2>1
<1> DEFINE m == scan[p + Slots(ch.code[p].op)]
           F == {q \in p + 1 .. ch.size - 1 : scan[q] = m}
<1>15. m = TheMove(ch, T, p) /\ m # ch.size /\ m \in p + 1 .. ch.size - 1 /\ ch.code[m].op = "MOVE"
  BY <1>1, <1>2, <1>13, <1>14
<1>16. \A q \in 0 .. ch.size + 1 : Fine(q)
  <2> HIDE DEF Fine
  <2> QED
    BY <1>12
<1>17. ASSUME NEW q \in Nat, q > p, scan[q] = m, q <= ch.size + 1 PROVE q \in F
  <2>1. scan[q] = ch.size \/ scan[q] \in q .. ch.size - 1
    BY <1>2, <1>16, <1>17
  <2> HIDE DEF m
  <2> QED
    BY <1>2, <1>13, <1>15, <1>17, <2>1
<1>18. p + Slots(ch.code[p].op) \in F
  BY <1>2, <1>13, <1>17
<1>19. ASSUME NEW q \in F, q # m
       PROVE  q + Slots(ch.code[q].op) \in F /\ ~ EndsBlock(ch, q) /\ tmp \notin Needs(ch.code[q])
  <2>1. q \in p + 1 .. ch.size - 1 /\ q \in Nat /\ q > p /\ scan[q] = m
    BY <1>2, <1>13
  <2> HIDE DEF m, F
  <2>2. scan[q + Slots(ch.code[q].op)] = m /\ ~ EndsBlock(ch, q) /\ tmp \notin Needs(ch.code[q])
    BY <1>11a, <1>15, <1>19, <2>1
  <2>3. q + Slots(ch.code[q].op) \in Nat /\ q + Slots(ch.code[q].op) > p /\ q + Slots(ch.code[q].op) <= ch.size + 1
    BY <1>2, <1>13, <2>1
  <2> QED
    BY <1>17, <2>2, <2>3
<1>20. OnTheWay(ch, p, tmp, m, F)
  <2>1. F \subseteq p + 1 .. ch.size - 1
    OBVIOUS
  <2> HIDE DEF m, F
  <2> QED
    BY <1>18, <1>19, <2>1 DEF OnTheWay
<1> HIDE DEF m, F
<1> QED
  BY <1>15, <1>20

LEMMA ForwardPrepares ==
  ASSUME NEW ch, NEW T, Sound(ch), Aimed(ch, T), NEW p \in Ins(ch)
  PROVE  Prepared(ch, ForwardDefToMove(ch, T, p), T, p)
<1> DEFINE i     == ch.code[p]
           m     == TheMove(ch, T, p)
           final == ch.code[m].a
           C == /\ i.op \in WriteOps
                /\ m < ch.size
                /\ i.op \in BytecodeCalls => final \notin Reads(i)
                /\ \A q \in p + Slots(i.op) .. m - 1 :
                     ch.code[q].op # "WORD" => final \notin Reads(ch.code[q]) \union Writes(ch.code[q])
                /\ IsRegDeadAfter(ch, T, m + 1, i.a)
           j   == [i EXCEPT !.a = final]
           mid == Write(ch, p, j)
           new == Erase(mid, m)
<1>1. IsCode(ch) /\ p \in 0 .. ch.size - 1 /\ p \in Nat /\ ch.size \in Nat
  BY DEF Sound, IsCode, Ins
<1>2. CASE C
  <2>1. ForwardDefToMove(ch, T, p) = new
    BY <1>2 DEF ForwardDefToMove
  <2>2. m \in p + 1 .. ch.size - 1 /\ ch.code[m].op = "MOVE"
    <3> HIDE DEF m
    <3>1. m < ch.size
      BY <1>2
    <3> QED
      BY <1>1, <3>1, TheMoveIs DEF m
  <2> HIDE DEF m
  <2>3. m \in Ins(ch) /\ m # p /\ m \in 0 .. ch.size - 1
    BY <1>1, <2>2 DEF Ins
  <2>4. i \in Words /\ ch.code[m] \in Words /\ final \in Int
    BY <1>1, <2>3, WordIs
  <2>5. j \in Words /\ j.op = i.op /\ j.fn = i.fn /\ j.b = i.b /\ j.c = i.c
    BY <2>4 DEF Words
  <2>6. /\ mid.size = ch.size /\ mid.fn = ch.fn /\ mid.code[p] = j
        /\ \A q \in 0 .. ch.size - 1 : q # p => mid.code[q] = ch.code[q]
    BY <1>1, WriteIs
  <2>7. Alike(ch, mid, p)
    <3>1. i.op \in WriteOps
      BY <1>2
    <3>2. i.op \notin Jumps
      BY <3>1 DEF WriteOps, Jumps, CondJumps
    <3>3. i.op \in WideOps => mid.code[p + 1] = ch.code[p + 1]
      <4>1. i.op \in WideOps => p + 1 \in 0 .. ch.size - 1
        BY <1>1 DEF Sound, Whole
      <4> QED
        BY <1>1, <2>6, <4>1
    <3> QED
      BY <2>5, <2>6, <3>2, <3>3 DEF Alike, FallsThrough, BytecodeCalls, SyscallOps, WideOps
  <2>8. i.op \notin {"WORD", "NOP"}
    BY DEF Ins
  <2>9. /\ Kept(ch, mid, T) /\ Ins(mid) = Ins(ch)
        /\ \A f, t : Leads(ch, f, t) <=> Leads(mid, f, t)
    <3> HIDE DEF j
    <3> QED
      BY <2>5, <2>7, <2>8, WriteKeeps
  <2>10. mid.code[m] = ch.code[m]
    BY <2>3, <2>6
  <2>11. Leads(mid, mid.fn[m], m + Slots(mid.code[m].op))
    <3>1. FallsThrough(ch, m)
      BY <2>2 DEF FallsThrough, Ops, Terminators, SyscallOps
    <3>2. Leads(ch, ch.fn[m], m + Slots(ch.code[m].op))
      BY <2>3, <3>1, Onward
    <3> QED
      BY <2>6, <2>9, <2>10, <3>2
  <2> HIDE DEF mid
  <2>12. Kept(mid, new, T) /\ Ins(new) = Ins(mid) \ {m}
    BY <2>3, <2>9, <2>11, EraseFalling DEF Kept
  <2>13. p \in Ins(new) /\ new.code[p] = mid.code[p]
    <3>1. Drops(mid, new, {m}) /\ Whole(mid) /\ p \in Ins(new)
      BY <2>3, <2>9, <2>12, EraseDrops DEF Kept, Sound
    <3> QED
      BY <3>1, DropsIs
  <2>14. Kept(ch, new, T)
    BY <2>9, <2>12, KeptBoth
  <2> QED
    BY <2>1, <2>5, <2>6, <2>13, <2>14 DEF Prepared
<1>3. CASE ~ C
  <2>1. ForwardDefToMove(ch, T, p) = ch
    BY <1>3 DEF ForwardDefToMove
  <2> QED
    BY <2>1, Unchanged
<1> QED
  BY <1>2, <1>3

LEMMA ForwardedIs ==
  ASSUME NEW ch, NEW T, Sound(ch), Aimed(ch, T), NEW p \in Ins(ch)
  PROVE  Prepared(ch, Forwarded(ch, T, p), T, p)
<1> DEFINE skip  == SkipFalseTest(ch, p)
           chain == ChainConditional(skip, p)
<1>1. Prepared(ch, skip, T, p)
  BY SkipPrepares
<1>2. Prepared(skip, chain, T, p)
  BY <1>1, ChainPrepares DEF Prepared, Kept
<1>3. Prepared(chain, ForwardDefToMove(chain, T, p), T, p)
  BY <1>2, ForwardPrepares DEF Prepared, Kept
<1> QED
  BY <1>1, <1>2, <1>3, BothPrepared DEF Forwarded
-----------------------------------------------------------------------------
(* The rules that end the work on an instruction                           *)

(* The instruction behind one that falls through.                          *)
LEMMA Behind ==
  ASSUME NEW ch, Sound(ch), NEW p \in Ins(ch), Slots(ch.code[p].op) = 1, FallsThrough(ch, p),
         p + 1 < ch.size, ch.code[p + 1].op \notin {"WORD", "NOP"}
  PROVE  p + 1 \in Ins(ch) /\ ch.fn[p + 1] = ch.fn[p] /\ Leads(ch, ch.fn[p], p + 1)
<1>1. p \in 0 .. ch.size - 1 /\ ch.size \in Nat
  BY DEF Ins, Sound, IsCode
<1>2. p + 1 \in Ins(ch)
  BY <1>1 DEF Ins
<1> QED
  BY <1>2, Onward

LEMMA OneSlot ==
  ASSUME NEW ch, NEW p, ch.code[p].op \notin WideOps
  PROVE  Slots(ch.code[p].op) = 1
BY DEF Slots

LEMMA InvertKeeps ==
  ASSUME NEW ch, NEW T, Sound(ch), Aimed(ch, T), NEW p \in Ins(ch), JumpsOverJump(ch, T, p)
  PROVE  LET i == ch.code[p]
             d == TargetOf(ch, p + 1) - p - 1
         IN  Kept(ch, Erase(Write(ch, p, [i EXCEPT !.op = Opposite(@), !.b = d]), p + 1), T)
<1> DEFINE i   == ch.code[p]
           u   == TargetOf(ch, p + 1)
           d   == u - p - 1
           j   == [i EXCEPT !.op = Opposite(@), !.b = d]
           mid == Write(ch, p, j)
<1>1. /\ i.op \in {"JUMP_IF_TRUE", "JUMP_IF_FALSE"} /\ p + 1 < ch.size
      /\ ch.code[p + 1].op = "JUMP" /\ TargetOf(ch, p) = p + 2
  BY DEF JumpsOverJump
<1>2. IsCode(ch) /\ p \in 0 .. ch.size - 1 /\ ch.size \in Nat /\ p + 1 \in 0 .. ch.size - 1
  BY <1>1 DEF Sound, IsCode, Ins
<1>3. FallsThrough(ch, p) /\ i.op \notin WideOps /\ i.op \in Jumps
  BY <1>1 DEF FallsThrough, Ops, Terminators, SyscallOps, WideOps, Jumps, CondJumps
<1>4. p + 1 \in Ins(ch) /\ ch.fn[p + 1] = ch.fn[p] /\ Leads(ch, ch.fn[p], p + 1)
  BY <1>1, <1>3, OneSlot, Behind
<1>5. Leads(ch, ch.fn[p], u) /\ Leads(ch, ch.fn[p], p + 2)
  BY <1>1, <1>3, <1>4, Onward DEF Jumps
<1>6. u \in 0 .. ch.size - 1 /\ u \in Int
  BY <1>2, <1>5, LeadsIs
<1>7. u \in T \/ (u > 0 /\ ch.code[u - 1].op # "WORD")
  BY <1>1, <1>4 DEF Aimed, Jumps
<1> HIDE DEF u
<1>8. i \in Words /\ d \in Int
  BY <1>2, <1>6, WordIs
<1>9. j \in Words /\ j.op \in {"JUMP_IF_TRUE", "JUMP_IF_FALSE"} /\ j.b = d
  BY <1>1, <1>8 DEF Words, Opposite, Ops
<1>10. /\ mid.size = ch.size /\ mid.fn = ch.fn /\ mid.code[p] = j
       /\ \A q \in 0 .. ch.size - 1 : q # p => mid.code[q] = ch.code[q]
  BY <1>2, WriteIs
<1> HIDE DEF j
<1>11. TargetOf(mid, p) = u
  BY <1>2, <1>6, <1>9, <1>10 DEF TargetOf, JumpTarget, JumpOffset
<1>12. SameShape(ch, mid)
  <2>1. mid.code \in [0 .. ch.size - 1 -> Words] /\ DOMAIN mid = DOMAIN ch
    BY <1>2, <1>9 DEF Write, IsCode
  <2>2. IsCode(mid)
    BY <1>2, <1>10, <2>1 DEF IsCode
  <2> QED
    BY <1>1, <1>2, <1>9, <1>10, <2>2 DEF SameShape, WideOps
<1>13. \A f, t : Leads(ch, f, t) <=> Leads(mid, f, t)
  BY <1>12, ShapeIs
<1>14. SoundAt(mid, p)
  BY <1>4, <1>5, <1>9, <1>10, <1>11, <1>13, OneSlot
     DEF SoundAt, Slots, WideOps, BytecodeCalls, SyscallOps
<1>15. AimedAt(mid, T, p)
  <2>1. u > 0 => u - 1 \in 0 .. ch.size - 1
    BY <1>2, <1>6
  <2>2. \A q \in 0 .. ch.size - 1 : ch.code[q].op # "WORD" => mid.code[q].op # "WORD"
    BY <1>12 DEF SameShape
  <2> QED
    BY <1>7, <1>9, <1>10, <1>11, <2>1, <2>2 DEF AimedAt, BytecodeCalls
<1>16. Kept(ch, mid, T) /\ Ins(mid) = Ins(ch)
  <2>1. LET n == Write(ch, p, j) IN SoundAt(n, p) /\ AimedAt(n, T, p)
    BY <1>14, <1>15
  <2>2. j.op \notin {"WORD", "NOP"} /\ (j.op \in WideOps <=> i.op \in WideOps)
    BY <1>1, <1>9 DEF WideOps
  <2> QED
    BY <1>9, <2>1, <2>2, WriteKeeps
<1>17. Leads(mid, mid.fn[p + 1], (p + 1) + Slots(mid.code[p + 1].op))
  <2>1. mid.code[p + 1] = ch.code[p + 1]
    BY <1>2, <1>10
  <2>2. (p + 1) + Slots(mid.code[p + 1].op) = p + 2
    BY <1>1, <1>2, <2>1 DEF Slots, WideOps
  <2> QED
    BY <1>4, <1>5, <1>10, <1>13, <2>2
<1> HIDE DEF mid
<1>18. Kept(mid, Erase(mid, p + 1), T)
  BY <1>4, <1>16, <1>17, EraseFalling DEF Kept
<1>19. Kept(ch, Erase(mid, p + 1), T)
  BY <1>16, <1>18, KeptBoth
<1> QED
  BY <1>19 DEF mid, j, u

LEMMA ReturnKeeps ==
  ASSUME NEW ch, NEW T, Sound(ch), Aimed(ch, T), NEW p \in Ins(ch), ToReturn(ch, p)
  PROVE  Kept(ch, Write(ch, p, ch.code[TargetOf(ch, p)]), T)
<1> DEFINE t   == TargetOf(ch, p)
           mid == Write(ch, p, ch.code[t])
<1>1. ch.code[p].op = "JUMP" /\ t \in 0 .. ch.size - 1 /\ ch.code[t].op \in {"RET", "RET_VOID"}
  BY DEF ToReturn
<1>2. IsCode(ch) /\ p \in 0 .. ch.size - 1
  BY DEF Sound, Ins
<1>3. t \in Ins(ch)
  BY <1>1 DEF Ins
<1>4. ch.fn[t] = ch.fn[p]
  BY <1>1, <1>3, Onward DEF Jumps
<1>5. ch.fn[p] # 0
  BY <1>1, <1>3, <1>4 DEF Sound, SoundAt
<1> HIDE DEF t
<1>6. ch.code[t] \in Words /\ mid.code[p] = ch.code[t] /\ mid.fn = ch.fn
  BY <1>1, <1>2, WordIs, WriteIs
<1>7. SoundAt(mid, p) /\ AimedAt(mid, T, p)
  BY <1>1, <1>5, <1>6
     DEF SoundAt, AimedAt, FallsThrough, Terminators, Jumps, CondJumps, BytecodeCalls, SyscallOps
<1>8. ch.code[t].op \notin {"WORD", "NOP"} /\ ch.code[t].op \notin WideOps /\ ch.code[p].op \notin WideOps
  BY <1>1 DEF WideOps
<1>9. Kept(ch, mid, T)
  BY <1>6, <1>7, <1>8, WriteKeeps
<1> QED
  BY <1>9 DEF t

(* Behind a tail call nothing goes on, unless it is a target.              *)
LEMMA EraseUnled ==
  ASSUME NEW ch, NEW T, Sound(ch), Aimed(ch, T), NEW h \in Ins(ch), ch.code[h].op = "TAILCALL",
         h + 2 \in Ins(ch), h + 2 \notin T
  PROVE  Kept(ch, Erase(ch, h + 2), T)
<1> DEFINE p   == h + 2
           new == Erase(ch, p)
<1>1. IsCode(ch) /\ Whole(ch) /\ ch.size \in Nat /\ h \in 0 .. ch.size - 1 /\ h + 1 \in 0 .. ch.size - 1 /\ p \in Nat
  BY DEF Sound, IsCode, Ins
<1>2. ch.code[h + 1].op = "WORD" /\ p - 1 = h + 1
  BY <1>1 DEF Whole, WideOps
<1>3. Drops(ch, new, {p})
  BY EraseDrops
<1> HIDE DEF new
<1>4. /\ Ins(new) = Ins(ch) \ {p} /\ new.size = ch.size /\ new.fn = ch.fn
      /\ \A q \in 0 .. ch.size - 1 : new.code[q].op = "WORD" => ch.code[q].op = "WORD"
  <2>1. new.size = ch.size /\ new.fn = ch.fn
    BY <1>3 DEF Drops
  <2> HIDE DEF p
  <2> QED
    BY <1>1, <1>3, <2>1, DropsIs
<1>5. ASSUME NEW t, Lands(ch, t, p) PROVE t = p
  <2>1. t \in 0 .. p /\ (t # p => h + 1 \in t .. p - 1)
    BY <1>1, <1>5 DEF Lands
  <2> QED
    BY <1>2, <1>5, <2>1 DEF Lands
<1>6. ASSUME NEW f, NEW t, Leads(ch, f, t), t # p PROVE Leads(new, f, t)
  <2>1. PICK q \in Ins(ch) : Lands(ch, t, q) /\ ch.fn[q] = f
    BY <1>6 DEF Leads
  <2>2. q \notin {p}
    BY <1>5, <1>6, <2>1
  <2>3. Lands(new, t, q)
    BY <1>1, <1>3, <2>1, <2>2, LandsStill
  <2> QED
    BY <1>4, <2>1, <2>2, <2>3 DEF Leads
<1>7. ASSUME NEW x \in Ins(new)
      PROVE  /\ FallsThrough(ch, x) => Leads(new, ch.fn[x], x + Slots(ch.code[x].op))
             /\ ch.code[x].op \in Jumps => Leads(new, ch.fn[x], TargetOf(ch, x))
             /\ ch.code[x].op \in BytecodeCalls =>
                  \E q \in Ins(new) : Lands(new, ch.code[x + 1].a, q) /\ new.fn[q] # 0
  <2>1. x \in Ins(ch) /\ SoundAt(ch, x) /\ x \in 0 .. ch.size - 1 /\ ch.code[x].op # "WORD"
    BY <1>4 DEF Sound, Ins
  <2>2. ASSUME FallsThrough(ch, x) PROVE Leads(new, ch.fn[x], x + Slots(ch.code[x].op))
    <3>1. x # h
      BY <2>2 DEF FallsThrough, Terminators, SyscallOps
    <3>2. Slots(ch.code[x].op) \in {1, 2}
      BY DEF Slots
    <3>3. x # h + 1
      BY <1>2, <2>1
    <3>4. x + Slots(ch.code[x].op) # p
      BY <1>1, <2>1, <3>1, <3>2, <3>3
    <3> QED
      BY <1>6, <2>1, <2>2, <3>4 DEF SoundAt
  <2>3. ASSUME ch.code[x].op \in Jumps PROVE Leads(new, ch.fn[x], TargetOf(ch, x))
    <3>1. TargetOf(ch, x) # p
      BY <1>2, <2>1, <2>3 DEF Aimed
    <3> QED
      BY <1>6, <2>1, <2>3, <3>1 DEF SoundAt
  <2>4. ASSUME ch.code[x].op \in BytecodeCalls
        PROVE  \E q \in Ins(new) : Lands(new, ch.code[x + 1].a, q) /\ new.fn[q] # 0
    <3>1. ch.code[x + 1].a # p
      BY <2>1, <2>4 DEF Aimed
    <3>2. PICK q \in Ins(ch) : Lands(ch, ch.code[x + 1].a, q) /\ ch.fn[q] # 0
      BY <2>1, <2>4 DEF SoundAt
    <3>3. Leads(new, ch.fn[q], ch.code[x + 1].a)
      BY <1>6, <3>1, <3>2 DEF Leads
    <3> QED
      BY <3>2, <3>3 DEF Leads
  <2> QED
    BY <2>2, <2>3, <2>4
<1>8. Leads(new, 0, 0)
  <2>1. 0 # p
    BY <1>1
  <2> QED
    BY <1>6, <2>1 DEF Sound
<1>9. Sound(new) /\ Aimed(new, T)
  BY <1>3, <1>7, <1>8, LeftIsSound, LeftIsAimed
<1>10. Kept(ch, new, T)
  BY <1>4, <1>9 DEF Kept
<1> QED
  BY <1>10 DEF new

LEMMA TailKeeps ==
  ASSUME NEW ch, NEW T, Sound(ch), Aimed(ch, T), NEW p \in Ins(ch), TailCallAt(ch, T, p)
  PROVE  Kept(ch, Erase(Write(ch, p, [ch.code[p] EXCEPT !.op = "TAILCALL", !.a = 0]), p + 2), T)
<1> DEFINE i   == ch.code[p]
           j   == [i EXCEPT !.op = "TAILCALL", !.a = 0]
           mid == Write(ch, p, j)
<1>1. /\ p + 2 < ch.size /\ p + 2 \notin T
      /\ i.op \in {"CALL", "CALL_VOID"} /\ ch.code[p + 2].op \in {"RET", "RET_VOID"}
  BY DEF TailCallAt
<1>2. /\ IsCode(ch) /\ Whole(ch) /\ ch.size \in Nat /\ p \in 0 .. ch.size - 1
      /\ p + 1 \in 0 .. ch.size - 1 /\ p + 2 \in 0 .. ch.size - 1
  BY <1>1 DEF Sound, IsCode, Ins
<1>3. FallsThrough(ch, p) /\ i.op \in WideOps /\ i.op \in BytecodeCalls /\ Slots(i.op) = 2
  BY <1>1 DEF FallsThrough, Ops, Terminators, SyscallOps, WideOps, BytecodeCalls, Slots
<1>4. p + 2 \in Ins(ch)
  BY <1>1, <1>2 DEF Ins
<1>5. ch.fn[p + 2] = ch.fn[p]
  BY <1>3, <1>4, Onward
<1>6. ch.fn[p] # 0
  BY <1>1, <1>4, <1>5 DEF Sound, SoundAt
<1>7. i \in Words
  BY <1>2, WordIs
<1>8. j \in Words /\ j.op = "TAILCALL"
  <2>1. "TAILCALL" \in Ops \union {"WORD"} /\ 0 \in Int
    BY DEF Ops
  <2>2. \A o \in Ops \union {"WORD"}, a \in Int : [i EXCEPT !.op = o, !.a = a] \in Words
    BY <1>7 DEF Words
  <2>3. j.op = "TAILCALL"
    BY <1>7 DEF Words
  <2> QED
    BY <2>1, <2>2, <2>3
<1> HIDE DEF j
<1>9. /\ mid.size = ch.size /\ mid.fn = ch.fn /\ mid.code[p] = j
      /\ \A q \in 0 .. ch.size - 1 : q # p => mid.code[q] = ch.code[q]
  BY <1>2, WriteIs
<1>10. mid.code[p + 1] = ch.code[p + 1]
  BY <1>2, <1>9
<1>11. SameShape(ch, mid)
  <2>1. mid.code \in [0 .. ch.size - 1 -> Words] /\ DOMAIN mid = DOMAIN ch
    BY <1>2, <1>8 DEF Write, IsCode
  <2>2. IsCode(mid)
    BY <1>2, <1>9, <2>1 DEF IsCode
  <2> QED
    BY <1>1, <1>2, <1>8, <1>9, <2>2 DEF SameShape, WideOps
<1>12. SoundAt(mid, p)
  <2>1. \E q \in Ins(mid) : Lands(mid, mid.code[p + 1].a, q) /\ mid.fn[q] # 0
    BY <1>3, <1>9, <1>10, <1>11, ShapeIs DEF Sound, SoundAt
  <2> QED
    BY <1>6, <1>8, <1>9, <2>1 DEF SoundAt, FallsThrough, Terminators, SyscallOps, Jumps, CondJumps
<1>13. AimedAt(mid, T, p)
  BY <1>3, <1>8, <1>9, <1>10 DEF AimedAt, Aimed, Jumps, CondJumps
<1>14. Kept(ch, mid, T) /\ Ins(mid) = Ins(ch)
  <2>1. LET n == Write(ch, p, j) IN SoundAt(n, p) /\ AimedAt(n, T, p)
    BY <1>12, <1>13
  <2>2. j.op \notin {"WORD", "NOP"} /\ (j.op \in WideOps <=> i.op \in WideOps)
    BY <1>3, <1>8 DEF WideOps
  <2> QED
    BY <1>8, <2>1, <2>2, WriteKeeps
<1> HIDE DEF mid
<1>15. Kept(mid, Erase(mid, p + 2), T)
  BY <1>1, <1>4, <1>8, <1>9, <1>14, EraseUnled DEF Kept
<1>16. Kept(ch, Erase(mid, p + 2), T)
  BY <1>14, <1>15, KeptBoth
<1> QED
  BY <1>16 DEF mid, j

LEMMA FuseZeroKeeps ==
  ASSUME NEW ch, NEW T, Sound(ch), Aimed(ch, T), NEW p \in Ins(ch), TestsZero(ch, T, p)
  PROVE  Kept(ch, FuseZeroTest(ch, T, p), T)
<1> DEFINE i     == ch.code[p]
           jump  == ch.code[p + 1]
           fused == [jump EXCEPT !.op = IF i.fn = "EQ" THEN Opposite(@) ELSE @, !.a = i.b]
           mid   == Write(ch, p + 1, fused)
<1>1. i.op = "ALU_IMM" /\ p + 1 < ch.size /\ jump.op \in {"JUMP_IF_TRUE", "JUMP_IF_FALSE"}
  BY DEF TestsZero, TestsResult
<1>2. IsCode(ch) /\ ch.size \in Nat /\ p \in 0 .. ch.size - 1 /\ p + 1 \in 0 .. ch.size - 1
  BY <1>1 DEF Sound, IsCode, Ins
<1>3. FallsThrough(ch, p) /\ i.op \notin WideOps
  BY <1>1 DEF FallsThrough, Ops, Terminators, SyscallOps, WideOps
<1>4. p + 1 \in Ins(ch) /\ Leads(ch, ch.fn[p], p + 1)
  BY <1>1, <1>3, OneSlot, Behind
<1>5. jump \in Words /\ i.b \in Int
  BY <1>2, WordIs
<1>6. fused \in Words /\ fused.op \in {"JUMP_IF_TRUE", "JUMP_IF_FALSE"} /\ fused.b = jump.b
  <2>1. \A o \in Ops \union {"WORD"}, a \in Int :
          LET f == [jump EXCEPT !.op = o, !.a = a] IN f \in Words /\ f.op = o /\ f.b = jump.b
    BY <1>5 DEF Words
  <2>2. Opposite(jump.op) \in {"JUMP_IF_TRUE", "JUMP_IF_FALSE"}
    BY DEF Opposite
  <2>3. {"JUMP_IF_TRUE", "JUMP_IF_FALSE"} \subseteq Ops
    BY DEF Ops
  <2> DEFINE o == IF i.fn = "EQ" THEN Opposite(jump.op) ELSE jump.op
  <2>4. fused = [jump EXCEPT !.op = o, !.a = i.b]
    BY <1>5 DEF Words
  <2>5. o \in {"JUMP_IF_TRUE", "JUMP_IF_FALSE"}
    BY <1>1, <2>2
  <2> HIDE DEF o, fused
  <2> QED
    BY <1>5, <2>1, <2>3, <2>4, <2>5
<1> HIDE DEF fused
<1>7. mid.code[p + 1] = fused /\ mid.fn = ch.fn /\ mid.code[p] = i
  BY <1>2, WriteIs
<1>8. Alike(ch, mid, p + 1)
  BY <1>1, <1>6, <1>7
     DEF Alike, FallsThrough, Ops, Terminators, Slots, WideOps, Jumps, CondJumps, BytecodeCalls, SyscallOps,
         TargetOf, JumpTarget, JumpOffset
<1>9. /\ Kept(ch, mid, T) /\ Ins(mid) = Ins(ch)
      /\ \A f, t : Leads(ch, f, t) <=> Leads(mid, f, t)
  <2>1. fused.op \notin {"WORD", "NOP"} /\ (fused.op \in WideOps <=> jump.op \in WideOps)
    BY <1>1, <1>6 DEF WideOps
  <2> QED
    BY <1>4, <1>6, <1>8, <2>1, WriteKeeps
<1> HIDE DEF mid
<1>10. Kept(mid, Erase(mid, p), T)
  <2>1. Leads(mid, mid.fn[p], p + Slots(mid.code[p].op))
    BY <1>3, <1>4, <1>7, <1>9, OneSlot
  <2> QED
    BY <1>9, <2>1, EraseFalling DEF Kept
<1>11. Kept(ch, Erase(mid, p), T)
  BY <1>9, <1>10, KeptBoth
<1>12. FuseZeroTest(ch, T, p) \in {Erase(mid, p), mid}
  BY DEF FuseZeroTest, fused, mid
<1> QED
  BY <1>9, <1>11, <1>12

LEMMA SubstituteIs ==
  ASSUME NEW i \in Words, NEW old, NEW new \in Int
  PROVE  LET j == SubstituteReadReg(i, old, new)
         IN  /\ j \in Words /\ j.op = i.op /\ j.fn = i.fn
             /\ i.op \in Jumps => JumpOffset(j) = JumpOffset(i)
             /\ i.op = "WORD" => j = i
<1> DEFINE j == SubstituteReadReg(i, old, new)
           sub(r) == IF r = old THEN new ELSE r
<1>1. /\ \A a \in Int : [i EXCEPT !.a = a] \in Words /\ [i EXCEPT !.b = a] \in Words
      /\ \A a, b \in Int : [i EXCEPT !.a = a, !.b = b] \in Words /\ [i EXCEPT !.b = a, !.c = b] \in Words
      /\ i.a \in Int /\ i.b \in Int /\ i.c \in Int
  BY DEF Words
<1>2. CASE i.op \in WideOps
  <2>1. j = IF i.c = 1 THEN [i EXCEPT !.b = sub(i.b)] ELSE i
    BY <1>2 DEF SubstituteReadReg, Words, WideOps
  <2> QED
    BY <1>1, <1>2, <2>1 DEF Jumps, CondJumps, WideOps, Words
<1>3. CASE i.op \in {"RET", "JUMP_IF_TRUE", "JUMP_IF_FALSE", "JUMP_CMP_IMM", "STORE_GLOBAL"}
  <2>1. j = [i EXCEPT !.a = sub(i.a)]
    BY <1>3 DEF SubstituteReadReg, Words, WideOps
  <2> QED
    BY <1>1, <1>3, <2>1 DEF JumpOffset, Jumps, CondJumps, Words
<1>4. CASE i.op = "JUMP_CMP"
  <2>1. j = [i EXCEPT !.a = sub(i.a), !.b = sub(i.b)]
    BY <1>4 DEF SubstituteReadReg, Words, WideOps
  <2> QED
    BY <1>1, <1>4, <2>1 DEF JumpOffset, Words
<1>5. CASE i.op \in {"MOVE", "UNARY", "ALU_IMM"}
  <2>1. j = [i EXCEPT !.b = sub(i.b)]
    BY <1>5 DEF SubstituteReadReg, Words, WideOps
  <2> QED
    BY <1>1, <1>5, <2>1 DEF Jumps, CondJumps, Words
<1>6. CASE i.op = "ALU"
  <2>1. j = [i EXCEPT !.b = sub(i.b), !.c = sub(i.c)]
    BY <1>6 DEF SubstituteReadReg, Words, WideOps
  <2> QED
    BY <1>1, <1>6, <2>1 DEF Jumps, CondJumps, Words
<1> QED
  <2>1. ASSUME i.op \notin WideOps \union {"RET", "JUMP_IF_TRUE", "JUMP_IF_FALSE", "JUMP_CMP_IMM", "STORE_GLOBAL",
                                        "JUMP_CMP", "MOVE", "UNARY", "ALU_IMM", "ALU"}
        PROVE  j = i
    BY <2>1 DEF SubstituteReadReg, WideOps
  <2> QED
    BY <1>2, <1>3, <1>4, <1>5, <1>6, <2>1 DEF WideOps

LEMMA CopyKeeps ==
  ASSUME NEW ch, NEW T, Sound(ch), Aimed(ch, T), NEW p \in Ins(ch)
  PROVE  /\ Kept(ch, PropagateCopy(ch, T, p), T) /\ Ins(PropagateCopy(ch, T, p)) = Ins(ch)
         /\ \A f, t : Leads(ch, f, t) <=> Leads(PropagateCopy(ch, T, p), f, t)
         /\ PropagateCopy(ch, T, p).fn = ch.fn /\ PropagateCopy(ch, T, p).code[p].op = ch.code[p].op
<1> DEFINE R      == CopyRange(ch, T, p)
           sub(i) == SubstituteReadReg(i, ch.code[p].a, ch.code[p].b)
           new    == PropagateCopy(ch, T, p)
<1>1. IsCode(ch) /\ Whole(ch) /\ ch.size \in Nat /\ p \in 0 .. ch.size - 1
  BY DEF Sound, IsCode, Ins
<1>2. /\ new.size = ch.size /\ new.fn = ch.fn /\ DOMAIN new = DOMAIN ch
      /\ new.code = [q \in 0 .. ch.size - 1 |-> IF q \in R THEN sub(ch.code[q]) ELSE ch.code[q]]
  BY <1>1 DEF PropagateCopy, IsCode
<1>3. ASSUME NEW q \in 0 .. ch.size - 1
      PROVE  /\ new.code[q] \in Words /\ new.code[q].op = ch.code[q].op /\ new.code[q].fn = ch.code[q].fn
             /\ ch.code[q].op \in Jumps => JumpOffset(new.code[q]) = JumpOffset(ch.code[q])
             /\ ch.code[q].op = "WORD" => new.code[q] = ch.code[q]
  <2>1. ch.code[q] \in Words /\ ch.code[p].b \in Int
    BY <1>1, WordIs
  <2>2. new.code[q] \in {sub(ch.code[q]), ch.code[q]}
    BY <1>2
  <2> HIDE DEF new
  <2> QED
    BY <2>1, <2>2, SubstituteIs
<1>4. new.code \in [0 .. ch.size - 1 -> Words]
  <2> HIDE DEF R, new
  <2> QED
    BY <1>2, <1>3
<1> HIDE DEF new
<1>5. SameShape(ch, new)
  <2>1. IsCode(new)
    BY <1>1, <1>2, <1>4 DEF IsCode
  <2> QED
    BY <1>1, <1>2, <1>3, <2>1 DEF SameShape
<1>6. ASSUME NEW q \in Ins(ch) PROVE Alike(ch, new, q)
  <2>1. q \in 0 .. ch.size - 1
    BY DEF Ins
  <2>2. ch.code[q].op \in WideOps => new.code[q + 1] = ch.code[q + 1]
    BY <1>1, <1>3, <2>1 DEF Whole
  <2> QED
    BY <1>3, <2>1, <2>2 DEF Alike, FallsThrough, SyscallOps, BytecodeCalls, WideOps, TargetOf, JumpTarget
<1>7. Kept(ch, new, T) /\ Ins(new) = Ins(ch) /\ \A f, t : Leads(ch, f, t) <=> Leads(new, f, t)
  BY <1>5, <1>6, RewriteKeeps, ShapeIs
<1> QED
  BY <1>1, <1>2, <1>3, <1>7 DEF new

LEMMA MoveKeeps ==
  ASSUME NEW ch, NEW T, Sound(ch), Aimed(ch, T), NEW p \in Ins(ch), ch.code[p].op = "MOVE"
  PROVE  Kept(ch, Erase(ch, p), T) /\ Kept(ch, Erase(PropagateCopy(ch, T, p), p), T)
<1> DEFINE new == PropagateCopy(ch, T, p)
<1>1. FallsThrough(ch, p) /\ Slots(ch.code[p].op) = 1
  BY DEF FallsThrough, Ops, Terminators, SyscallOps, Slots, WideOps
<1>2. Leads(ch, ch.fn[p], p + 1)
  BY <1>1, Onward
<1>3. Kept(ch, Erase(ch, p), T)
  BY <1>1, <1>2, EraseFalling
<1>4. /\ Kept(ch, new, T) /\ Ins(new) = Ins(ch) /\ Leads(new, new.fn[p], p + 1)
      /\ Slots(new.code[p].op) = 1
  BY <1>1, <1>2, CopyKeeps
<1> HIDE DEF new
<1>5. Kept(new, Erase(new, p), T)
  BY <1>4, EraseFalling DEF Kept
<1>6. Kept(ch, Erase(new, p), T)
  BY <1>4, <1>5, KeptBoth
<1> QED
  BY <1>3, <1>6 DEF new

LEMMA IdentityIs ==
  ASSUME NEW i \in Words, NEW j \in Identity(i)
  PROVE  i.op \in {"ALU", "ALU_IMM"} /\ j \in Words /\ (j = Nop \/ j.op \in {"LOAD_IMM", "MOVE"})
<1>1. i.a \in Int /\ i.b \in Int
  BY DEF Words
<1>2. /\ LoadImm(i.a, 0) \in Words /\ LoadImm(i.a, 0).op = "LOAD_IMM"
      /\ LoadImm(i.a, 1) \in Words /\ LoadImm(i.a, 1).op = "LOAD_IMM"
  BY <1>1 DEF LoadImm, Inst, Words, Ops, Fns, ImmFns, UnaryFns
<1>3. Nop \in Words
  BY DEF Nop, Inst, Words, Ops, Fns, ImmFns, UnaryFns
<1>4. MoveOrNop(i.a, i.b) \in Words /\ (MoveOrNop(i.a, i.b) = Nop \/ MoveOrNop(i.a, i.b).op = "MOVE")
  BY <1>1, <1>3 DEF MoveOrNop, Inst, Words, Ops, Fns, ImmFns, UnaryFns
<1>5. i.op \in {"ALU", "ALU_IMM"}
  BY DEF Identity
<1>6. j \in {LoadImm(i.a, 0), LoadImm(i.a, 1), MoveOrNop(i.a, i.b)}
  BY DEF Identity
<1> QED
  BY <1>2, <1>3, <1>4, <1>5, <1>6

LEMMA SimplifyKeeps ==
  ASSUME NEW ch, NEW T, Sound(ch), Aimed(ch, T), NEW p \in Ins(ch), NEW i \in Identity(ch.code[p])
  PROVE  Kept(ch, Write(ch, p, i), T)
<1> DEFINE new == Write(ch, p, i)
<1>1. IsCode(ch) /\ Whole(ch) /\ ch.size \in Nat /\ p \in 0 .. ch.size - 1
  BY DEF Sound, IsCode, Ins
<1>2. ch.code[p] \in Words
  BY <1>1, WordIs
<1>3. ch.code[p].op \in {"ALU", "ALU_IMM"} /\ i \in Words /\ (i = Nop \/ i.op \in {"LOAD_IMM", "MOVE"})
  BY <1>2, IdentityIs
<1>4. FallsThrough(ch, p) /\ ch.code[p].op \notin WideOps
  BY <1>3 DEF FallsThrough, Ops, Terminators, SyscallOps, WideOps
<1>5. /\ new.size = ch.size /\ new.fn = ch.fn /\ new.code[p] = i
      /\ \A q \in 0 .. ch.size - 1 : q # p => new.code[q] = ch.code[q]
  BY <1>1, WriteIs
<1>6. CASE i.op \in {"LOAD_IMM", "MOVE"}
  <2>1. Alike(ch, new, p)
    BY <1>4, <1>5, <1>6
       DEF Alike, Slots, WideOps, Jumps, CondJumps, BytecodeCalls, SyscallOps
  <2>2. i.op \notin {"WORD", "NOP"} /\ (i.op \in WideOps <=> ch.code[p].op \in WideOps)
    BY <1>4, <1>6 DEF WideOps
  <2> QED
    BY <1>3, <2>1, <2>2, WriteKeeps
<1>7. CASE i = Nop
  <2>1. IsCode(new)
    <3>1. new.code \in [0 .. ch.size - 1 -> Words] /\ DOMAIN new = DOMAIN ch
      BY <1>1, <1>3 DEF Write, IsCode
    <3> QED
      BY <1>1, <1>5, <3>1 DEF IsCode
  <2>2. Nop.op = "NOP"
    BY DEF Nop, Inst
  <2>3. ASSUME NEW q \in 0 .. ch.size - 1, ch.code[q].op = "WORD" PROVE q - 1 # p
    BY <1>1, <1>4, <2>3 DEF Whole
  <2> HIDE DEF new
  <2>4. Drops(ch, new, {p})
    <3>1. \A q \in 0 .. ch.size - 1 :
            IF q \in {p} \/ (ch.code[q].op = "WORD" /\ q - 1 \in {p})
            THEN new.code[q].op = "NOP" ELSE new.code[q] = ch.code[q]
      BY <1>5, <1>7, <2>2, <2>3
    <3>2. ch.code[p].op # "WORD"
      BY <1>3
    <3> QED
      BY <1>1, <1>5, <2>1, <3>1, <3>2 DEF Drops
  <2>5. \A q \in Ins(ch) : q \in {p} => Leads(ch, ch.fn[q], q + Slots(ch.code[q].op))
    BY <1>4, Onward
  <2>6. Kept(ch, new, T)
    BY <2>4, <2>5, DropFalling
  <2> QED
    BY <2>6 DEF new
<1> QED
  BY <1>3, <1>6, <1>7

LEMMA FuseKeeps ==
  ASSUME NEW ch, NEW T, Sound(ch), Aimed(ch, T), NEW p \in Ins(ch), Fusible(ch, T, p)
  PROVE  Kept(ch, Erase(Write(ch, p, FusedJump(ch, p)), p + 1), T)
<1> DEFINE i   == ch.code[p]
           u   == TargetOf(ch, p + 1)
           j   == FusedJump(ch, p)
           mid == Write(ch, p, j)
<1>1. /\ i.op \in {"ALU", "ALU_IMM"} /\ i.fn \in CmpFns /\ p + 1 < ch.size
      /\ ch.code[p + 1].op \in {"JUMP_IF_TRUE", "JUMP_IF_FALSE"}
  BY DEF Fusible, TestsResult
<1>2. IsCode(ch) /\ p \in 0 .. ch.size - 1 /\ ch.size \in Nat /\ p + 1 \in 0 .. ch.size - 1
  BY <1>1 DEF Sound, IsCode, Ins
<1>3. FallsThrough(ch, p) /\ i.op \notin WideOps
  BY <1>1 DEF FallsThrough, Ops, Terminators, SyscallOps, WideOps
<1>4. p + 1 \in Ins(ch) /\ ch.fn[p + 1] = ch.fn[p] /\ Leads(ch, ch.fn[p], p + 1)
  BY <1>1, <1>3, OneSlot, Behind
<1>5. FallsThrough(ch, p + 1) /\ ch.code[p + 1].op \in Jumps /\ Slots(ch.code[p + 1].op) = 1
  BY <1>1 DEF FallsThrough, Ops, Terminators, SyscallOps, Slots, WideOps, Jumps, CondJumps
<1>6. Leads(ch, ch.fn[p], u) /\ Leads(ch, ch.fn[p], (p + 1) + 1)
  BY <1>4, <1>5, Onward
<1>7. u \in 0 .. ch.size - 1 /\ u \in Int
  BY <1>2, <1>6, LeadsIs
<1>8. u \in T \/ (u > 0 /\ ch.code[u - 1].op # "WORD")
  BY <1>4, <1>5 DEF Aimed
<1>9. j \in Words /\ j.op \in {"JUMP_CMP", "JUMP_CMP_IMM"} /\ j.c = u - p - 1
  <2>1. i.b \in Int /\ i.c \in Int /\ u - p - 1 \in Int
    BY <1>2, <1>7, WordIs
  <2>2. Inverted(i.fn) \in CmpFns
    BY <1>1 DEF Inverted, CmpFns
  <2>3. CmpFns \subseteq Fns
    BY DEF Fns, ImmFns, AluFns
  <2> DEFINE fn == IF ch.code[p + 1].op = "JUMP_IF_TRUE" THEN i.fn ELSE Inverted(i.fn)
             op == IF i.op = "ALU" THEN "JUMP_CMP" ELSE "JUMP_CMP_IMM"
  <2>4. fn \in Fns /\ op \in {"JUMP_CMP", "JUMP_CMP_IMM"}
    BY <1>1, <2>2, <2>3
  <2>5. j = Inst(op, fn, i.b, i.c, u - p - 1)
    BY DEF FusedJump
  <2> HIDE DEF fn, op, u, j
  <2> QED
    BY <2>1, <2>4, <2>5 DEF Inst, Words, Ops
<1> HIDE DEF u, j
<1>10. /\ mid.size = ch.size /\ mid.fn = ch.fn /\ mid.code[p] = j
       /\ \A q \in 0 .. ch.size - 1 : q # p => mid.code[q] = ch.code[q]
  BY <1>2, WriteIs
<1>11. TargetOf(mid, p) = u
  BY <1>2, <1>7, <1>9, <1>10 DEF TargetOf, JumpTarget, JumpOffset
<1>12. SameShape(ch, mid)
  <2>1. mid.code \in [0 .. ch.size - 1 -> Words] /\ DOMAIN mid = DOMAIN ch
    BY <1>2, <1>9 DEF Write, IsCode
  <2>2. IsCode(mid)
    BY <1>2, <1>10, <2>1 DEF IsCode
  <2> QED
    BY <1>1, <1>2, <1>9, <1>10, <2>2 DEF SameShape, WideOps
<1>13. \A f, t : Leads(ch, f, t) <=> Leads(mid, f, t)
  BY <1>12, ShapeIs
<1>14. SoundAt(mid, p)
  BY <1>4, <1>6, <1>9, <1>10, <1>11, <1>13
     DEF SoundAt, Slots, WideOps, BytecodeCalls, SyscallOps
<1>15. AimedAt(mid, T, p)
  <2>1. u > 0 => u - 1 \in 0 .. ch.size - 1
    BY <1>2, <1>7
  <2>2. \A q \in 0 .. ch.size - 1 : ch.code[q].op # "WORD" => mid.code[q].op # "WORD"
    BY <1>12 DEF SameShape
  <2> QED
    BY <1>8, <1>9, <1>10, <1>11, <2>1, <2>2 DEF AimedAt, BytecodeCalls
<1>16. Kept(ch, mid, T) /\ Ins(mid) = Ins(ch)
  <2>1. LET n == Write(ch, p, j) IN SoundAt(n, p) /\ AimedAt(n, T, p)
    BY <1>14, <1>15
  <2>2. j.op \notin {"WORD", "NOP"} /\ (j.op \in WideOps <=> i.op \in WideOps)
    BY <1>3, <1>9 DEF WideOps
  <2> QED
    BY <1>9, <2>1, <2>2, WriteKeeps
<1>17. Leads(mid, mid.fn[p + 1], (p + 1) + Slots(mid.code[p + 1].op))
  <2>1. mid.code[p + 1] = ch.code[p + 1]
    BY <1>2, <1>10
  <2> QED
    BY <1>4, <1>5, <1>6, <1>10, <1>13, <2>1
<1> HIDE DEF mid
<1>18. Kept(mid, Erase(mid, p + 1), T)
  BY <1>4, <1>16, <1>17, EraseFalling DEF Kept
<1>19. Kept(ch, Erase(mid, p + 1), T)
  BY <1>16, <1>18, KeptBoth
<1> QED
  BY <1>19 DEF mid, j
-----------------------------------------------------------------------------
(* Code that only loses what it does not need                              *)

(* The words that control may come to.                                     *)
Reached(ch) == {t \in 0 .. ch.size - 1 : \E q \in Ins(ch) : Lands(ch, t, q)}

(* Words stay where they are.                                              *)
Still(ch) == [p \in 0 .. ch.size |-> p]

(* NOPs for what control does not come to, or for jumps to the next word:  *)
(* the rest still leads where it led.                                      *)
LEMMA DropsFollow ==
  ASSUME NEW old, NEW new, NEW E, Drops(old, new, E), Sound(old),
         \A x \in DOMAIN old \ {"code", "size", "fn"} : new[x] = old[x],
         NEW here, here \subseteq Reached(old), 0 \in here,
         \A p \in here : old.code[p].op = "NOP" => p + 1 \in here,
         \A p \in here \cap Ins(old) :
           \/ p \in E /\ old.code[p].op \in Jumps /\ TargetOf(old, p) = p + 1 /\ p + 1 \in here
           \/ /\ p \notin E
              /\ FallsThrough(old, p) => p + Slots(old.code[p].op) \in here
              /\ old.code[p].op \in Jumps => TargetOf(old, p) \in here
              /\ old.code[p].op \in BytecodeCalls => old.code[p + 1].a \in here
  PROVE  Follows(old, new, Still(old), here)
<1>1. IsCode(old) /\ Whole(old) /\ old.size \in Nat /\ new.size = old.size
  BY DEF Sound, IsCode, Drops
<1>2. \A p \in here : p \in 0 .. old.size - 1 /\ p \in 0 .. old.size /\ Still(old)[p] = p /\ p \in Nat
  BY <1>1 DEF Still, Reached
<1>3. ASSUME NEW p \in here PROVE p \in Ins(old) \/ old.code[p].op = "NOP"
  <2>1. PICK q \in Ins(old) : Lands(old, p, q)
    BY DEF Reached
  <2> QED
    BY <1>1, <1>2, <2>1 DEF Lands, Ins
<1>4. /\ Whole(new) /\ Ins(new) = Ins(old) \ E
      /\ \A p \in Ins(new) : new.code[p] = old.code[p]
      /\ \A p \in Ins(new) : new.code[p].op \in WideOps => new.code[p + 1] = old.code[p + 1]
      /\ \A q \in 0 .. old.size - 1 : old.code[q].op = "NOP" => new.code[q].op = "NOP"
  BY <1>1, DropsIs
<1>5. ASSUME NEW ch, Whole(ch), ch.size = old.size, NEW p \in Ins(ch) PROVE Fetches(ch, p)
  BY <1>1, <1>5 DEF Whole, Ins, Fetches
<1>6. ASSUME NEW ch, ch.size = old.size, NEW p \in here, ch.code[p].op = "NOP" PROVE Fetches(ch, p)
  BY <1>2, <1>6 DEF Fetches, WideOps
<1>7. ASSUME NEW p \in here, old.code[p].op = "NOP" PROVE Idles(old, new, Still(old), here, p)
  <2>1. p + 1 \in here /\ new.code[p].op = "NOP"
    BY <1>2, <1>4, <1>7
  <2>2. Still(old)[p] = p /\ Still(old)[p + 1] = p + 1
    BY <1>2, <2>1
  <2>3. Fetches(old, p) /\ Fetches(new, p)
    BY <1>1, <1>6, <1>7, <2>1
  <2> QED
    BY <1>7, <2>1, <2>2, <2>3 DEF Idles
<1>8. ASSUME NEW p \in here \cap Ins(old), p \in E, old.code[p].op \in Jumps, TargetOf(old, p) = p + 1, p + 1 \in here
      PROVE  Idles(old, new, Still(old), here, p)
  <2>1. new.code[p].op = "NOP"
    BY <1>2, <1>8 DEF Drops
  <2>2. Still(old)[p] = p /\ Still(old)[p + 1] = p + 1
    BY <1>2, <1>8
  <2>3. Fetches(old, p) /\ Fetches(new, p)
    BY <1>1, <1>5, <1>6, <2>1
  <2>4. JumpTarget(p, old.code[p]) = p + 1
    BY <1>8 DEF TargetOf
  <2> QED
    BY <1>8, <2>1, <2>2, <2>3, <2>4 DEF Idles, Jumps
<1>9. ASSUME NEW p \in here \cap Ins(old), p \notin E,
             FallsThrough(old, p) => p + Slots(old.code[p].op) \in here,
             old.code[p].op \in Jumps => TargetOf(old, p) \in here,
             old.code[p].op \in BytecodeCalls => old.code[p + 1].a \in here
      PROVE  Moved(old, new, Still(old), here, p)
  <2>1. p \in Ins(new) /\ new.code[p] = old.code[p]
    BY <1>4, <1>9
  <2>2. Fetches(old, p) /\ Fetches(new, p)
    BY <1>1, <1>4, <1>5, <2>1
  <2>3. SameButOffset(old.code[p], new.code[p])
    BY <2>1 DEF SameButOffset
  <2>4. old.code[p].op \in WideOps => new.code[p + 1] = old.code[p + 1]
    BY <1>4, <2>1
  <2>5. old.code[p].op \in BytecodeCalls => old.code[p].op \in WideOps
    BY DEF BytecodeCalls, WideOps
  <2>6. Still(old)[p] = p /\ \A t \in here : Still(old)[t] = t
    BY <1>2
  <2> QED
    BY <1>9, <2>1, <2>2, <2>3, <2>4, <2>5, <2>6 DEF Moved, TargetOf
<1>10. \A p \in here : Moved(old, new, Still(old), here, p) \/ Idles(old, new, Still(old), here, p)
  BY <1>3, <1>7, <1>8, <1>9
<1>11. old.size > 0
  BY <1>1, <1>2
<1> QED
  BY <1>1, <1>2, <1>10, <1>11 DEF Follows

(* What control comes to goes on to what it comes to.                      *)
LEMMA ReachedOn ==
  ASSUME NEW ch, Sound(ch)
  PROVE  /\ 0 \in Reached(ch)
         /\ \A p \in Reached(ch) : ch.code[p].op = "NOP" => p + 1 \in Reached(ch)
         /\ \A f, t : Leads(ch, f, t) => t \in Reached(ch)
         /\ \A p \in Ins(ch) :
              /\ FallsThrough(ch, p) => p + Slots(ch.code[p].op) \in Reached(ch)
              /\ ch.code[p].op \in Jumps => TargetOf(ch, p) \in Reached(ch)
              /\ ch.code[p].op \in BytecodeCalls => ch.code[p + 1].a \in Reached(ch)
<1>1. IsCode(ch) /\ ch.size \in Nat
  BY DEF Sound, IsCode
<1>2. ASSUME NEW f, NEW t, Leads(ch, f, t) PROVE t \in Reached(ch)
  <2>1. t \in 0 .. ch.size - 1
    BY <1>1, <1>2, LeadsIs
  <2> QED
    BY <1>2, <2>1 DEF Leads, Reached
<1>3. ASSUME NEW p \in Reached(ch), ch.code[p].op = "NOP" PROVE p + 1 \in Reached(ch)
  <2>1. PICK q \in Ins(ch) : Lands(ch, p, q)
    BY DEF Reached
  <2>2. /\ p \in 0 .. q - 1 /\ p + 1 \in 0 .. q /\ p + 1 \in 0 .. ch.size - 1
        /\ \A r \in p .. q - 1 : ch.code[r].op = "NOP"
    BY <1>1, <1>3, <2>1 DEF Lands, Ins, Reached
  <2>3. Lands(ch, p + 1, q)
    BY <2>2 DEF Lands
  <2> QED
    BY <2>2, <2>3 DEF Reached
<1>4. ASSUME NEW p \in Ins(ch)
      PROVE  /\ FallsThrough(ch, p) => p + Slots(ch.code[p].op) \in Reached(ch)
             /\ ch.code[p].op \in Jumps => TargetOf(ch, p) \in Reached(ch)
             /\ ch.code[p].op \in BytecodeCalls => ch.code[p + 1].a \in Reached(ch)
  <2>1. SoundAt(ch, p)
    BY DEF Sound
  <2>2. ASSUME ch.code[p].op \in BytecodeCalls PROVE ch.code[p + 1].a \in Reached(ch)
    <3>1. PICK q \in Ins(ch) : Lands(ch, ch.code[p + 1].a, q) /\ ch.fn[q] # 0
      BY <2>1, <2>2 DEF SoundAt
    <3>2. Leads(ch, ch.fn[q], ch.code[p + 1].a)
      BY <3>1 DEF Leads
    <3> QED
      BY <1>2, <3>2
  <2> QED
    BY <1>2, <2>1, <2>2 DEF SoundAt
<1> QED
  BY <1>2, <1>3, <1>4 DEF Sound

-----------------------------------------------------------------------------
(* The passes over the whole code                                          *)

(* A terminator does not fall through.                                     *)
LEMMA FallingIsNoEnd ==
  ASSUME NEW ch, Sound(ch), NEW p \in 0 .. ch.size - 1, FallsThrough(ch, p)
  PROVE  ~ IsInstructionTerminator(ch, p)
BY DEF FallsThrough, IsInstructionTerminator, SysTerminator, Terminators, SyscallOps, Exits

LEMMA NoEndFalls ==
  ASSUME NEW ch, IsCode(ch), Whole(ch), NEW p \in Ins(ch), ~ IsInstructionTerminator(ch, p)
  PROVE  FallsThrough(ch, p)
<1>1. p \in 0 .. ch.size - 1 /\ ch.code[p].op \in Ops /\ ch.size \in Nat
  BY DEF Ins, IsCode, Words
<1>2. ch.code[p].op \in SyscallOps => p + 1 < ch.size
  BY <1>1 DEF Whole, SyscallOps, WideOps
<1> QED
  BY <1>1, <1>2 DEF FallsThrough, IsInstructionTerminator, SysTerminator, Exits

LEMMA InsReached ==
  ASSUME NEW ch, IsCode(ch), NEW p \in Ins(ch)
  PROVE  p \in Reached(ch)
<1>1. ch.size \in Nat /\ p \in 0 .. ch.size - 1
  BY DEF IsCode, Ins
<1>2. Lands(ch, p, p)
  BY <1>1 DEF Lands
<1> QED
  BY <1>1, <1>2 DEF Reached

LEMMA ReachedIs ==
  ASSUME NEW ch, IsCode(ch), NEW p \in Reached(ch)
  PROVE  p \in Ins(ch) \/ ch.code[p].op = "NOP"
<1>1. ch.size \in Nat
  BY DEF IsCode
<1>2. PICK q \in Ins(ch) : Lands(ch, p, q)
  BY DEF Reached
<1>3. q \in Nat /\ p \in 0 .. q /\ (p = q \/ p \in p .. q - 1)
  BY <1>1, <1>2 DEF Lands, Ins
<1> QED
  BY <1>2, <1>3 DEF Lands

(* In here nothing changes, nothing leads out of it, and outside nothing   *)
(* is left.                                                                *)
LeavesAlone(old, new, here) ==
  /\ Ins(new) \subseteq here
  /\ \A p \in here : /\ p \in 0 .. old.size - 1 /\ old.code[p].op # "WORD"
                     /\ new.code[p] = old.code[p]
                     /\ old.code[p].op \in WideOps => new.code[p + 1] = old.code[p + 1]
                     /\ Successors(old, p) \subseteq here
                     /\ old.code[p].op \in BytecodeCalls => old.code[p + 1].a \in here

LEMMA DeadCodeKeeps ==
  ASSUME NEW ch, Sound(ch), Aimed(ch, JumpTargets(ch))
  PROVE  /\ Kept(ch, DeadCode(ch, JumpTargets(ch)), JumpTargets(ch))
         /\ \E here : Follows(ch, DeadCode(ch, JumpTargets(ch)), Still(ch), here)
         /\ \E here : LeavesAlone(ch, DeadCode(ch, JumpTargets(ch)), here)
<1> DEFINE T       == JumpTargets(ch)
           Prev(p) == IF ch.code[p - 1].op = "WORD" THEN p - 2 ELSE p - 1
           E(f, p) == /\ p > 0
                      /\ p \notin T
                      /\ f[Prev(p)] \/ IsInstructionTerminator(ch, Prev(p))
           dead    == CHOOSE f : f = [p \in Nat |-> E(f, p)]
           rank    == [p \in Nat |-> p]
           step    == [x \in [Nat -> BOOLEAN] \X Nat |-> E(x[1], x[2])]
           new     == DeadCode(ch, T)
<1>1. IsCode(ch) /\ Whole(ch) /\ ch.size \in Nat /\ ch.size > 0
  BY DEF Sound, IsCode, Leads, Ins
<1>2. new = [ch EXCEPT !.code = [p \in DOMAIN @ |->
               IF dead[IF @[p].op = "WORD" THEN p - 1 ELSE p] THEN Nop ELSE @[p]]]
  BY DEF DeadCode
(* The recursion has a solution.                                           *)
<1>3. \A p \in Nat : p > 0 => Prev(p) \in Nat /\ Prev(p) < p
  BY <1>1 DEF Whole
<1>4. step \in [[Nat -> BOOLEAN] \X Nat -> BOOLEAN]
  <2>1. \A f, p : E(f, p) \in BOOLEAN
    OBVIOUS
  <2> HIDE DEF E
  <2> QED
    BY <2>1
<1>5. ASSUME NEW f \in [Nat -> BOOLEAN], NEW g \in [Nat -> BOOLEAN], NEW p \in Nat,
             \A r \in Nat : rank[r] < rank[p] => f[r] = g[r]
      PROVE  E(f, p) = E(g, p)
  <2>1. p > 0 => f[Prev(p)] = g[Prev(p)]
    <3>1. \A r \in Nat : r < p => f[r] = g[r]
      BY <1>5
    <3> HIDE DEF Prev
    <3> QED
      BY <1>3, <3>1
  <2> QED
    BY <2>1
<1>6. Local(BOOLEAN, rank, step)
  <2> SUFFICES ASSUME NEW f \in [Nat -> BOOLEAN], NEW g \in [Nat -> BOOLEAN], NEW p \in Nat,
                      \A r \in Nat : rank[r] < rank[p] => f[r] = g[r]
               PROVE  step[<<f, p>>] = step[<<g, p>>]
    BY DEF Local
  <2>1. E(f, p) = E(g, p)
    BY <1>5
  <2> HIDE DEF E
  <2> QED
    BY <2>1
<1>7. PICK f \in [Nat -> BOOLEAN] : \A p \in Nat : f[p] = step[<<f, p>>]
  <2>1. Stepping(BOOLEAN, rank, step)
    <3>1. BOOLEAN # {} /\ rank \in [Nat -> Nat]
      OBVIOUS
    <3> HIDE DEF E, rank, step
    <3> QED
      BY <1>4, <1>6, <3>1 DEF Stepping
  <2> HIDE DEF rank, step
  <2>2. PICK f : Solves(BOOLEAN, step, f)
    BY <2>1, Solvable
  <2> QED
    BY <2>2 DEF Solves
<1>8. f = [p \in Nat |-> E(f, p)]
  <2> HIDE DEF E
  <2> QED
    BY <1>7
<1>9. dead = [p \in Nat |-> E(dead, p)]
  <2> HIDE DEF E
  <2> QED
    BY <1>8
<1> HIDE DEF dead
<1>10. \A p \in Nat : dead[p] <=> E(dead, p)
  <2> HIDE DEF E
  <2> QED
    BY <1>9
(* What it drops.                                                          *)
<1> DEFINE D == {p \in 0 .. ch.size - 1 : ch.code[p].op # "WORD" /\ dead[p]}
<1>11. Nop \in Words /\ Nop.op = "NOP"
  BY DEF Nop, Inst, Words, Ops, Fns, ImmFns, UnaryFns
<1>12. /\ new.size = ch.size /\ new.fn = ch.fn /\ DOMAIN new = DOMAIN ch
       /\ new.code = [p \in 0 .. ch.size - 1 |->
                        IF dead[IF ch.code[p].op = "WORD" THEN p - 1 ELSE p] THEN Nop ELSE ch.code[p]]
  <2> HIDE DEF new
  <2> QED
    BY <1>1, <1>2 DEF IsCode
<1>13. Drops(ch, new, D)
  <2> HIDE DEF new
  <2>1. ASSUME NEW q \in 0 .. ch.size - 1
        PROVE  IF q \in D \/ (ch.code[q].op = "WORD" /\ q - 1 \in D)
               THEN new.code[q].op = "NOP" ELSE new.code[q] = ch.code[q]
    <3>1. ch.code[q].op = "WORD" => q - 1 \in 0 .. ch.size - 1 /\ ch.code[q - 1].op # "WORD"
      BY <1>1 DEF Whole, WideOps
    <3> QED
      BY <1>11, <1>12, <3>1
  <2>2. new.code \in [0 .. ch.size - 1 -> Words]
    BY <1>1, <1>11, <1>12 DEF IsCode
  <2>3. IsCode(new)
    BY <1>1, <1>12, <2>2 DEF IsCode
  <2> QED
    BY <1>1, <1>12, <2>1, <2>3 DEF Drops
(* Where control comes is not dropped.                                     *)
<1>14. ASSUME NEW t \in Nat, NEW q, Lands(ch, t, q), ~ dead[t] PROVE q \notin D
  <2> DEFINE B == {r \in Nat : r \in t .. q /\ dead[r]}
  <2>1. q \in 0 .. ch.size - 1 /\ t \in 0 .. q /\ \A r \in t .. q - 1 : ch.code[r].op = "NOP"
    BY <1>14 DEF Lands, Ins
  <2>2. B = {}
    <3> SUFFICES ASSUME B # {} PROVE FALSE
      OBVIOUS
    <3>1. PICK r \in B : \A y \in B : r <= y
      <4>1. B \subseteq Nat
        OBVIOUS
      <4> HIDE DEF B
      <4> QED
        BY <4>1, LeastNumber
    <3>2. r \in Nat /\ r \in t .. q /\ dead[r] /\ r # t
      BY <1>14, <3>1
    <3>3. r - 1 \in t .. q - 1 /\ r - 1 \in Nat /\ ~ (r <= r - 1)
      BY <2>1, <3>2
    <3>4. ch.code[r - 1].op = "NOP"
      BY <2>1, <3>3
    <3>5. Prev(r) = r - 1 /\ ~ IsInstructionTerminator(ch, r - 1)
      BY <3>4 DEF IsInstructionTerminator, SysTerminator, Terminators, SyscallOps
    <3>6. dead[r - 1]
      BY <1>10, <3>2, <3>5
    <3>7. r - 1 \in B
      BY <2>1, <3>3, <3>6
    <3> QED
      BY <3>1, <3>3, <3>7
  <2>3. ~ dead[q]
    BY <2>1, <2>2
  <2> QED
    BY <2>3
<1>15. ASSUME NEW g, NEW t, Leads(ch, g, t), ~ dead[t] PROVE Leads(new, g, t)
  <2>1. PICK q \in Ins(ch) : Lands(ch, t, q) /\ ch.fn[q] = g
    BY <1>15 DEF Leads
  <2>2. t \in Nat
    BY <2>1 DEF Lands
  <2>3. q \notin D
    BY <1>14, <1>15, <2>1, <2>2
  <2> HIDE DEF new, D
  <2>4. Lands(new, t, q)
    BY <1>1, <1>13, <2>1, <2>3, LandsStill
  <2> QED
    BY <1>12, <2>1, <2>4 DEF Leads, Lands
<1>16. \A t \in Nat : t = 0 \/ t \in T => ~ dead[t]
  BY <1>10
<1>17. Ins(new) = Ins(ch) \ D /\ \A q \in 0 .. ch.size - 1 : new.code[q].op = "WORD" => ch.code[q].op = "WORD"
  <2> HIDE DEF new, D
  <2> QED
    BY <1>1, <1>13, DropsIs
<1>18. ASSUME NEW x \in Ins(ch), ~ dead[x], FallsThrough(ch, x)
       PROVE  Leads(ch, ch.fn[x], x + Slots(ch.code[x].op)) /\ ~ dead[x + Slots(ch.code[x].op)]
  <2> DEFINE n == x + Slots(ch.code[x].op)
  <2>1. x \in 0 .. ch.size - 1 /\ ch.code[x].op # "WORD" /\ SoundAt(ch, x)
    BY DEF Sound, Ins
  <2>2. Leads(ch, ch.fn[x], n)
    BY <1>18, <2>1 DEF SoundAt
  <2>3. n \in 0 .. ch.size - 1 /\ x \in Nat
    BY <1>1, <2>1, <2>2, LeadsIs
  <2>4. n > 0 /\ Prev(n) = x
    <3>1. CASE ch.code[x].op \in WideOps
      <4>1. n = x + 2 /\ ch.code[x + 1].op = "WORD"
        BY <1>1, <2>1, <3>1 DEF Slots, Whole
      <4>2. n - 1 = x + 1 /\ n - 2 = x
        BY <2>3, <4>1
      <4> QED
        BY <2>3, <4>1, <4>2
    <3>2. CASE ch.code[x].op \notin WideOps
      <4>1. n = x + 1
        BY <3>2 DEF Slots
      <4>2. n - 1 = x
        BY <2>3, <4>1
      <4> QED
        BY <2>1, <2>3, <4>1, <4>2
    <3> QED
      BY <3>1, <3>2
  <2> HIDE DEF n, Prev, new, D
  <2>5. ~ IsInstructionTerminator(ch, x)
    BY <1>18, <2>1, FallingIsNoEnd
  <2>6. ~ dead[n]
    BY <1>10, <1>18, <2>3, <2>4, <2>5
  <2> QED
    BY <2>2, <2>6 DEF n
<1>19. ASSUME NEW x \in Ins(new)
       PROVE  /\ FallsThrough(ch, x) => Leads(new, ch.fn[x], x + Slots(ch.code[x].op))
              /\ ch.code[x].op \in Jumps => Leads(new, ch.fn[x], TargetOf(ch, x))
              /\ ch.code[x].op \in BytecodeCalls =>
                   \E q \in Ins(new) : Lands(new, ch.code[x + 1].a, q) /\ new.fn[q] # 0
  <2>1. x \in Ins(ch) /\ SoundAt(ch, x) /\ x \in 0 .. ch.size - 1 /\ ch.code[x].op # "WORD" /\ ~ dead[x]
    BY <1>17 DEF Sound, Ins
  <2>2. ASSUME FallsThrough(ch, x) PROVE Leads(new, ch.fn[x], x + Slots(ch.code[x].op))
    <3>1. Leads(ch, ch.fn[x], x + Slots(ch.code[x].op)) /\ ~ dead[x + Slots(ch.code[x].op)]
      BY <1>18, <2>1, <2>2
    <3> HIDE DEF new
    <3> QED
      BY <1>15, <3>1
  <2>3. ASSUME ch.code[x].op \in Jumps PROVE Leads(new, ch.fn[x], TargetOf(ch, x))
    <3>1. Leads(ch, ch.fn[x], TargetOf(ch, x))
      BY <2>1, <2>3 DEF SoundAt
    <3>2. TargetOf(ch, x) \in 0 .. ch.size /\ TargetOf(ch, x) \in Nat
      BY <1>1, <3>1, LeadsIs
    <3>3. TargetOf(ch, x) \in T
      BY <2>1, <2>3, <3>2 DEF JumpTargets
    <3> QED
      BY <1>15, <1>16, <3>1, <3>2, <3>3
  <2>4. ASSUME ch.code[x].op \in BytecodeCalls
        PROVE  \E q \in Ins(new) : Lands(new, ch.code[x + 1].a, q) /\ new.fn[q] # 0
    <3> DEFINE t == ch.code[x + 1].a
    <3>1. PICK q \in Ins(ch) : Lands(ch, t, q) /\ ch.fn[q] # 0
      BY <2>1, <2>4 DEF SoundAt
    <3>2. Leads(ch, ch.fn[q], t)
      BY <3>1 DEF Leads
    <3>3. t \in 0 .. ch.size /\ t \in Nat
      BY <1>1, <3>2, LeadsIs
    <3>4. x + 1 < ch.size
      BY <1>1, <2>1, <2>4 DEF Whole, BytecodeCalls, WideOps
    <3>5. t \in T
      BY <2>1, <2>4, <3>3, <3>4 DEF JumpTargets
    <3>6. Leads(new, ch.fn[q], t)
      BY <1>15, <1>16, <3>2, <3>3, <3>5
    <3> QED
      BY <3>1, <3>6 DEF Leads
  <2> QED
    BY <2>2, <2>3, <2>4
<1>20. Leads(new, 0, 0)
  BY <1>15, <1>16 DEF Sound
(* Control does not come to what it drops.                                 *)
<1> DEFINE here == {t \in Reached(ch) : ~ dead[t]}
<1>24. 0 \in here /\ \A t \in T : t \in Reached(ch) => t \in here
  <2> HIDE DEF T
  <2> QED
    BY <1>16, ReachedOn DEF Reached
<1>25. ASSUME NEW p \in here, ch.code[p].op = "NOP" PROVE p + 1 \in here
  <2>1. p + 1 \in Reached(ch) /\ p \in Nat /\ p + 1 \in Nat /\ p + 1 > 0 /\ (p + 1) - 1 = p
    BY <1>25, ReachedOn DEF Reached
  <2>2. Prev(p + 1) = p /\ ~ IsInstructionTerminator(ch, p)
    BY <1>25, <2>1 DEF IsInstructionTerminator, SysTerminator, Terminators, SyscallOps
  <2> HIDE DEF Prev
  <2>3. ~ dead[p + 1]
    BY <1>10, <2>1, <2>2
  <2> QED
    BY <2>1, <2>3
<1>26. ASSUME NEW p \in here \cap Ins(ch)
       PROVE  /\ p \notin D
              /\ FallsThrough(ch, p) => p + Slots(ch.code[p].op) \in here
              /\ ch.code[p].op \in Jumps => TargetOf(ch, p) \in here
              /\ ch.code[p].op \in BytecodeCalls => ch.code[p + 1].a \in here
  <2>1. p \in Ins(ch) /\ p \in 0 .. ch.size - 1 /\ ~ dead[p]
    BY DEF Ins
  <2>2. /\ ch.code[p].op \in Jumps => TargetOf(ch, p) \in T
        /\ ch.code[p].op \in BytecodeCalls => ch.code[p + 1].a \in T
    <3>1. ch.code[p].op \in BytecodeCalls => p + 1 < ch.size
      BY <1>1, <2>1 DEF Whole, BytecodeCalls, WideOps
    <3>2. \A t \in Reached(ch) : t \in 0 .. ch.size
      BY <1>1 DEF Reached
    <3> QED
      BY <2>1, <3>1, <3>2, ReachedOn DEF JumpTargets
  <2> HIDE DEF T
  <2>3. /\ ch.code[p].op \in Jumps => TargetOf(ch, p) \in here
        /\ ch.code[p].op \in BytecodeCalls => ch.code[p + 1].a \in here
    BY <1>24, <2>1, <2>2, ReachedOn
  <2>4. FallsThrough(ch, p) => p + Slots(ch.code[p].op) \in here
    BY <1>18, <2>1, ReachedOn
  <2> QED
    BY <2>1, <2>3, <2>4
<1>27. Follows(ch, new, Still(ch), here)
  <2>1. \A x \in DOMAIN ch \ {"code", "size", "fn"} : new[x] = ch[x]
    BY <1>2
  <2>2. here \subseteq Reached(ch)
    OBVIOUS
  <2> HIDE DEF D, T, new, here
  <2> QED
    BY <1>13, <1>24, <1>25, <1>26, <2>1, <2>2, DropsFollow
<1>28. LeavesAlone(ch, new, here)
  <2>1. Ins(new) \subseteq here
    <3> HIDE DEF new
    <3>1. \A q \in Ins(ch) : q \in Reached(ch) /\ (~ dead[q] \/ q \in D)
      BY <1>1, InsReached DEF Ins
    <3> HIDE DEF D
    <3> QED
      BY <1>17, <3>1
  <2>2. ASSUME NEW p \in here
        PROVE  /\ p \in 0 .. ch.size - 1 /\ p \notin D
               /\ p \in Ins(ch) \/ ch.code[p].op = "NOP"
               /\ ch.code[p].op # "WORD"
    <3>1. p \in 0 .. ch.size - 1 /\ p \notin D
      BY DEF Reached
    <3>2. p \in Ins(ch) \/ ch.code[p].op = "NOP"
      BY <1>1, ReachedIs
    <3> QED
      BY <3>1, <3>2 DEF Ins
  <2>3. ASSUME NEW p \in here
        PROVE  /\ new.code[p] = ch.code[p]
               /\ ch.code[p].op \in WideOps => new.code[p + 1] = ch.code[p + 1]
    <3> HIDE DEF D, new, here
    <3>1. ch.code[p].op \in WideOps => p + 1 \in 0 .. ch.size - 1 /\ (p + 1) - 1 = p /\ p + 1 \notin D
      BY <1>1, <1>13, <2>2 DEF Whole, Drops
    <3> QED
      BY <1>13, <2>2, <3>1 DEF Drops
  <2>4. ASSUME NEW p \in here
        PROVE  /\ Successors(ch, p) \subseteq here
               /\ ch.code[p].op \in BytecodeCalls => ch.code[p + 1].a \in here
    <3>1. CASE ch.code[p].op = "NOP"
      <4>1. Slots(ch.code[p].op) = 1 /\ ch.code[p].op \notin Jumps /\ ch.code[p].op \notin BytecodeCalls
        BY <3>1 DEF Slots, WideOps, Jumps, CondJumps, BytecodeCalls
      <4> QED
        BY <1>25, <3>1, <4>1 DEF Successors
    <3>2. CASE p \in Ins(ch)
      <4>1. ~ IsInstructionTerminator(ch, p) => FallsThrough(ch, p)
        BY <3>2, NoEndFalls DEF Sound
      <4> QED
        BY <1>26, <3>2, <4>1 DEF Successors
    <3> QED
      BY <2>2, <3>1, <3>2
  <2> HIDE DEF D, new, here
  <2> QED
    BY <2>1, <2>2, <2>3, <2>4 DEF LeavesAlone
<1> HIDE DEF D, T, new, here
<1>21. Sound(new)
  BY <1>13, <1>19, <1>20, LeftIsSound
<1>22. Aimed(new, T)
  BY <1>13, LeftIsAimed DEF T
<1>23. Kept(ch, new, T)
  BY <1>12, <1>17, <1>21, <1>22 DEF Kept
<1> QED
  BY <1>23, <1>27, <1>28 DEF new, T

LEMMA DeadResultsIs ==
  ASSUME NEW ch, NEW T, NEW p \in DeadResults(ch, T)
  PROVE  p \in 0 .. ch.size - 1 /\ ch.code[p].op \in WriteOps
<1>1. p \in 0 .. ch.size - 1 /\ Writes(ch.code[p]) # {}
  BY DEF DeadResults
<1> QED
  BY <1>1 DEF Writes

(* What is pure and writes a register falls through.                       *)
LEMMA PureFalls ==
  ASSUME NEW ch, Sound(ch), NEW p \in Ins(ch), ch.code[p].op \in WriteOps, IsInstructionPure(ch, p)
  PROVE  FallsThrough(ch, p) /\ ch.code[p].op # "CALL"
<1>1. CASE ch.code[p].op \in SyscallOps
  <2>1. ch.code[p + 1].fn \in PureSyscalls
    BY <1>1 DEF IsInstructionPure
  <2> QED
    BY <1>1, <2>1 DEF FallsThrough, PureSyscalls, SyscallOps
<1>2. CASE ch.code[p].op \notin SyscallOps
  BY <1>2 DEF IsInstructionPure, CanDCE, FallsThrough, WriteOps, Ops, Terminators, SyscallOps
<1> QED
  BY <1>1, <1>2

LEMMA DeadStoresKeeps ==
  ASSUME NEW ch, NEW T, Sound(ch), Aimed(ch, T)
  PROVE  Kept(ch, DeadStores(ch, T), T)
<1> DEFINE dead == DeadResults(ch, T)
           drop == {p \in dead : IsInstructionPure(ch, p)}
           call(p) == p \in dead \ drop /\ ch.code[p].op = "CALL"
           sys(p)  == p \in dead \ drop /\ ch.code[p].op = "SYSCALL"
           void(p) == CASE call(p) -> [ch.code[p] EXCEPT !.op = "CALL_VOID", !.a = 0]
                        [] sys(p)  -> [ch.code[p] EXCEPT !.op = "SYSCALL_VOID", !.a = 0]
                        [] OTHER   -> ch.code[p]
           gone(p) == p \in drop \/ (ch.code[p].op = "WORD" /\ p - 1 \in drop)
           mid == [ch EXCEPT !.code = [p \in 0 .. ch.size - 1 |-> void(p)]]
           new == DeadStores(ch, T)
<1>1. IsCode(ch) /\ Whole(ch) /\ ch.size \in Nat
  BY DEF Sound, IsCode
<1>2. ASSUME NEW p \in dead
      PROVE  p \in Ins(ch) /\ p \in 0 .. ch.size - 1 /\ ch.code[p].op \in WriteOps /\ ch.code[p].op # "WORD"
  BY DeadResultsIs DEF Ins, WriteOps
<1>3. Nop \in Words /\ Nop.op = "NOP"
  BY DEF Nop, Inst, Words, Ops, Fns, ImmFns, UnaryFns
<1>4. /\ new.size = ch.size /\ new.fn = ch.fn /\ DOMAIN new = DOMAIN ch
      /\ new.code = [p \in 0 .. ch.size - 1 |->
           CASE p \in drop \/ (ch.code[p].op = "WORD" /\ p - 1 \in drop) -> Nop
             [] p \in dead \ drop /\ ch.code[p].op = "CALL"    -> [ch.code[p] EXCEPT !.op = "CALL_VOID", !.a = 0]
             [] p \in dead \ drop /\ ch.code[p].op = "SYSCALL" -> [ch.code[p] EXCEPT !.op = "SYSCALL_VOID", !.a = 0]
             [] OTHER -> ch.code[p]]
  BY <1>1 DEF DeadStores, IsCode
<1> HIDE DEF new
<1>5. ASSUME NEW p \in 0 .. ch.size - 1
      PROVE  new.code[p] = IF gone(p) THEN Nop ELSE void(p)
  <2>1. gone(p) => ~ call(p) /\ ~ sys(p)
    OBVIOUS
  <2> HIDE DEF dead, drop
  <2> QED
    BY <1>4, <2>1
<1> HIDE DEF dead
(* Calls whose result is dead.                                             *)
<1>6. ASSUME NEW p \in 0 .. ch.size - 1
      PROVE  /\ void(p) \in Words /\ void(p).fn = ch.code[p].fn
             /\ void(p).op = IF call(p) THEN "CALL_VOID" ELSE IF sys(p) THEN "SYSCALL_VOID" ELSE ch.code[p].op
             /\ ~ call(p) /\ ~ sys(p) => void(p) = ch.code[p]
  <2>1. \A o \in Ops \union {"WORD"} :
          LET j == [ch.code[p] EXCEPT !.op = o, !.a = 0] IN j \in Words /\ j.op = o /\ j.fn = ch.code[p].fn
    <3>1. ch.code[p] \in Words /\ 0 \in Int
      BY <1>1, WordIs
    <3> QED
      BY <3>1 DEF Words
  <2>2. {"CALL_VOID", "SYSCALL_VOID"} \subseteq Ops /\ ch.code[p] \in Words
    BY <1>1, WordIs DEF Ops
  <2>3. call(p) => void(p) = [ch.code[p] EXCEPT !.op = "CALL_VOID", !.a = 0]
    OBVIOUS
  <2>4. sys(p) => void(p) = [ch.code[p] EXCEPT !.op = "SYSCALL_VOID", !.a = 0]
    OBVIOUS
  <2>5. ~ call(p) /\ ~ sys(p) => void(p) = ch.code[p]
    OBVIOUS
  <2>6. ~ (call(p) /\ sys(p))
    OBVIOUS
  <2> HIDE DEF call, sys, void
  <2>7. CASE call(p)
    <3>1. void(p) = [ch.code[p] EXCEPT !.op = "CALL_VOID", !.a = 0] /\ "CALL_VOID" \in Ops \union {"WORD"}
      BY <2>2, <2>3, <2>7
    <3> QED
      BY <2>1, <2>7, <3>1
  <2>8. CASE sys(p)
    <3>1. void(p) = [ch.code[p] EXCEPT !.op = "SYSCALL_VOID", !.a = 0] /\ "SYSCALL_VOID" \in Ops \union {"WORD"}
      BY <2>2, <2>4, <2>8
    <3> QED
      BY <2>1, <2>6, <2>8, <3>1
  <2>9. CASE ~ call(p) /\ ~ sys(p)
    BY <2>2, <2>5, <2>9
  <2> QED
    BY <2>7, <2>8, <2>9
<1>7. \A p \in 0 .. ch.size - 1 : (call(p) => ch.code[p].op = "CALL") /\ (sys(p) => ch.code[p].op = "SYSCALL")
  OBVIOUS
<1> HIDE DEF void, call, sys
<1>8. /\ mid.size = ch.size /\ mid.fn = ch.fn /\ DOMAIN mid = DOMAIN ch
      /\ mid.code = [p \in 0 .. ch.size - 1 |-> void(p)]
  BY <1>1 DEF IsCode
<1> HIDE DEF mid
<1>9. SameShape(ch, mid)
  <2>1. mid.code \in [0 .. ch.size - 1 -> Words]
    BY <1>6, <1>8
  <2>2. IsCode(mid)
    BY <1>1, <1>8, <2>1 DEF IsCode
  <2> QED
    BY <1>1, <1>6, <1>7, <1>8, <2>2 DEF SameShape, WideOps
<1>10. ASSUME NEW p \in Ins(ch) PROVE Alike(ch, mid, p)
  <2>1. p \in 0 .. ch.size - 1
    BY DEF Ins
  <2>2. ch.code[p].op \in WideOps => mid.code[p + 1] = ch.code[p + 1]
    <3> SUFFICES ASSUME ch.code[p].op \in WideOps PROVE mid.code[p + 1] = ch.code[p + 1]
      OBVIOUS
    <3>1. p + 1 \in 0 .. ch.size - 1 /\ ch.code[p + 1].op = "WORD"
      BY <1>1, <2>1 DEF Whole
    <3>2. ~ call(p + 1) /\ ~ sys(p + 1)
      BY <1>7, <3>1
    <3> QED
      BY <1>6, <1>8, <3>1, <3>2
  <2>3. CASE call(p)
    <3>1. ch.code[p].op = "CALL" /\ mid.code[p].op = "CALL_VOID"
      BY <1>6, <1>7, <1>8, <2>1, <2>3
    <3> QED
      BY <2>2, <3>1 DEF Alike, FallsThrough, Ops, Terminators, Slots, WideOps, Jumps, CondJumps, BytecodeCalls, SyscallOps
  <2>4. CASE sys(p) /\ ~ call(p)
    <3>1. ch.code[p].op = "SYSCALL" /\ mid.code[p].op = "SYSCALL_VOID"
      BY <1>6, <1>7, <1>8, <2>1, <2>4
    <3> QED
      BY <2>2, <3>1 DEF Alike, FallsThrough, Ops, Terminators, Slots, WideOps, Jumps, CondJumps, BytecodeCalls, SyscallOps
  <2>5. CASE ~ call(p) /\ ~ sys(p)
    <3>1. mid.code[p] = ch.code[p]
      BY <1>6, <1>8, <2>1, <2>5
    <3> QED
      BY <2>2, <3>1 DEF Alike, FallsThrough, WideOps, BytecodeCalls, SyscallOps, TargetOf
  <2> QED
    BY <2>3, <2>4, <2>5
<1>11. Kept(ch, mid, T) /\ Ins(mid) = Ins(ch) /\ \A f, t : Leads(ch, f, t) <=> Leads(mid, f, t)
  BY <1>9, <1>10, RewriteKeeps, ShapeIs
(* Pure instructions whose result is dead.                                 *)
<1>12. ASSUME NEW p \in drop
       PROVE  /\ p \in Ins(ch) /\ p \in 0 .. ch.size - 1 /\ FallsThrough(ch, p) /\ mid.code[p] = ch.code[p]
  <2>1. p \in Ins(ch) /\ p \in 0 .. ch.size - 1 /\ FallsThrough(ch, p)
    BY <1>2, PureFalls
  <2>2. ~ call(p) /\ ~ sys(p)
    BY DEF call, sys
  <2> QED
    BY <1>6, <1>8, <2>1, <2>2
<1>13. Drops(mid, new, drop)
  <2>1. ASSUME NEW q \in 0 .. ch.size - 1
        PROVE  /\ gone(q) <=> q \in drop \/ (mid.code[q].op = "WORD" /\ q - 1 \in drop)
               /\ IF gone(q) THEN new.code[q].op = "NOP" ELSE new.code[q] = mid.code[q]
    <3>1. mid.code[q].op = "WORD" <=> ch.code[q].op = "WORD"
      BY <1>9 DEF SameShape
    <3>2. gone(q) <=> q \in drop \/ (mid.code[q].op = "WORD" /\ q - 1 \in drop)
      BY <3>1
    <3> HIDE DEF gone
    <3> QED
      BY <1>3, <1>5, <1>8, <3>2
  <2>2. IsCode(new)
    <3>1. \A q \in 0 .. ch.size - 1 : new.code[q] \in Words
      <4> HIDE DEF gone
      <4> QED
        BY <1>3, <1>5, <1>6
    <3>2. new.code \in [0 .. ch.size - 1 -> Words]
      <4> HIDE DEF drop, dead
      <4> QED
        BY <1>4, <3>1
    <3> QED
      BY <1>1, <1>4, <3>2 DEF IsCode
  <2>3. IsCode(mid) /\ new.size = mid.size /\ new.fn = mid.fn
    BY <1>4, <1>8, <1>9 DEF SameShape
  <2>4. \A p \in drop : p \in 0 .. mid.size - 1 /\ mid.code[p].op # "WORD"
    BY <1>8, <1>12 DEF Ins
  <2> HIDE DEF drop, gone
  <2> QED
    BY <1>8, <2>1, <2>2, <2>3, <2>4 DEF Drops
<1>14. ASSUME NEW p \in Ins(mid), p \in drop PROVE Leads(mid, mid.fn[p], p + Slots(mid.code[p].op))
  <2>1. p \in Ins(ch) /\ FallsThrough(ch, p) /\ mid.code[p] = ch.code[p]
    BY <1>12, <1>14
  <2>2. Leads(ch, ch.fn[p], p + Slots(ch.code[p].op))
    BY <2>1, Onward
  <2> QED
    BY <1>8, <1>11, <2>1, <2>2
<1>15. Kept(mid, new, T)
  <2>1. Sound(mid) /\ Aimed(mid, T)
    BY <1>11 DEF Kept
  <2> HIDE DEF drop
  <2>2. \A p \in Ins(mid) : p \in drop => Leads(mid, mid.fn[p], p + Slots(mid.code[p].op))
    BY <1>14
  <2> QED
    BY <1>13, <2>1, <2>2, DropFalling
<1>16. Kept(ch, new, T)
  BY <1>11, <1>15, KeptBoth
<1> QED
  BY <1>16 DEF new
-----------------------------------------------------------------------------
(* Stripping the NOPs                                                      *)

Busy(ch, p) == {q \in 0 .. p - 1 : q < ch.size /\ ch.code[q].op # "NOP"}

LEMMA BusyIs ==
  ASSUME NEW ch, NEW p \in Int
  PROVE  IsFiniteSet(Busy(ch, p)) /\ Remap(ch, p) = Cardinality(Busy(ch, p)) /\ Remap(ch, p) \in Nat
<1>1. 0 \in Int /\ p - 1 \in Int
  OBVIOUS
<1>2. IsFiniteSet(0 .. p - 1)
  BY <1>1, FS_Interval
<1>3. Busy(ch, p) \subseteq 0 .. p - 1
  BY DEF Busy
<1>4. IsFiniteSet(Busy(ch, p))
  BY <1>2, <1>3, FS_Subset
<1> QED
  BY <1>4, FS_CardinalityType DEF Remap, Busy

LEMMA RemapStart ==
  ASSUME NEW ch
  PROVE  Remap(ch, 0) = 0
<1>1. Busy(ch, 0) = {}
  BY DEF Busy
<1>2. Remap(ch, 0) = Cardinality(Busy(ch, 0))
  BY BusyIs
<1> QED
  BY <1>1, <1>2, FS_EmptySet

LEMMA RemapNext ==
  ASSUME NEW ch, ch.size \in Nat, NEW p \in 0 .. ch.size - 1
  PROVE  Remap(ch, p + 1) = IF ch.code[p].op = "NOP" THEN Remap(ch, p) ELSE Remap(ch, p) + 1
<1>1. p \in Int /\ p + 1 \in Int
  OBVIOUS
<1>2. /\ IsFiniteSet(Busy(ch, p)) /\ Remap(ch, p) = Cardinality(Busy(ch, p))
      /\ Remap(ch, p + 1) = Cardinality(Busy(ch, p + 1))
  BY <1>1, BusyIs
<1>3. CASE ch.code[p].op = "NOP"
  <2>1. Busy(ch, p + 1) = Busy(ch, p)
    BY <1>3 DEF Busy
  <2> QED
    BY <1>2, <1>3, <2>1
<1>4. CASE ch.code[p].op # "NOP"
  <2>1. Busy(ch, p + 1) = Busy(ch, p) \union {p} /\ p \notin Busy(ch, p)
    BY <1>4 DEF Busy
  <2>2. Cardinality(Busy(ch, p) \union {p}) = Cardinality(Busy(ch, p)) + 1
    BY <1>2, <2>1, FS_AddElement
  <2> QED
    BY <1>2, <1>4, <2>1, <2>2
<1> QED
  BY <1>3, <1>4

LEMMA RemapGrows ==
  ASSUME NEW ch, NEW p \in Int, NEW q \in Int, p <= q
  PROVE  Remap(ch, p) <= Remap(ch, q)
<1>1. Busy(ch, p) \subseteq Busy(ch, q)
  BY DEF Busy
<1>2. Cardinality(Busy(ch, p)) <= Cardinality(Busy(ch, q))
  BY <1>1, BusyIs, FS_Subset
<1> QED
  BY <1>2, BusyIs

LEMMA RemapOne ==
  ASSUME NEW ch, ch.size \in Nat, NEW p \in 0 .. ch.size - 1, NEW q \in 0 .. ch.size - 1,
         ch.code[p].op # "NOP", ch.code[q].op # "NOP", Remap(ch, p) = Remap(ch, q)
  PROVE  p = q
<1>1. ASSUME NEW a \in 0 .. ch.size - 1, NEW b \in 0 .. ch.size - 1, a < b, ch.code[a].op # "NOP"
      PROVE  Remap(ch, a) < Remap(ch, b)
  <2>1. a \in Int /\ b \in Int /\ a + 1 \in Int /\ a + 1 <= b
    BY <1>1
  <2>2. Remap(ch, a + 1) = Remap(ch, a) + 1 /\ Remap(ch, a + 1) <= Remap(ch, b)
    BY <1>1, <2>1, RemapNext, RemapGrows
  <2>3. Remap(ch, a) \in Nat /\ Remap(ch, b) \in Nat
    BY <2>1, BusyIs
  <2> QED
    BY <2>2, <2>3
<1>2. p \in Int /\ q \in Int /\ Remap(ch, p) \in Nat
  BY BusyIs
<1>3. ~ (p < q) /\ ~ (q < p)
  BY <1>1, <1>2
<1> QED
  BY <1>2, <1>3

LEMMA RemapOnto ==
  ASSUME NEW ch, ch.size \in Nat, NEW n \in 0 .. Remap(ch, ch.size) - 1
  PROVE  \E p \in 0 .. ch.size - 1 : ch.code[p].op # "NOP" /\ Remap(ch, p) = n
<1> DEFINE B == {x \in Nat : Remap(ch, x) > n}
<1>1. \A x \in Nat : x \in Int /\ Remap(ch, x) \in Nat
  BY BusyIs
<1>2. n \in Nat /\ ch.size \in B
  BY <1>1
<1>3. PICK x \in B : \A y \in B : x <= y
  <2>1. B \subseteq Nat /\ B # {}
    BY <1>2
  <2> HIDE DEF B
  <2> QED
    BY <2>1, LeastNumber
<1>4. x \in Nat /\ Remap(ch, x) > n /\ x <= ch.size /\ x # 0
  BY <1>2, <1>3, RemapStart
<1> DEFINE p == x - 1
<1>5. p \in 0 .. ch.size - 1 /\ p \in Nat /\ p + 1 = x /\ ~ (x <= p)
  BY <1>4
<1>6. ~ (Remap(ch, p) > n)
  BY <1>3, <1>5
<1> HIDE DEF p
<1>7. Remap(ch, x) = IF ch.code[p].op = "NOP" THEN Remap(ch, p) ELSE Remap(ch, p) + 1
  BY <1>5, RemapNext
<1>8. Remap(ch, p) \in Nat
  BY <1>1, <1>5
<1> QED
  BY <1>2, <1>4, <1>5, <1>6, <1>7, <1>8

LEMMA RemapLands ==
  ASSUME NEW ch, ch.size \in Nat, NEW t, NEW q, Lands(ch, t, q)
  PROVE  Remap(ch, t) = Remap(ch, q)
<1>1. q \in 0 .. ch.size - 1 /\ t \in 0 .. q /\ \A r \in t .. q - 1 : ch.code[r].op = "NOP"
  BY DEF Lands, Ins
<1>2. Busy(ch, t) = Busy(ch, q)
  BY <1>1 DEF Busy
<1> QED
  BY <1>1, <1>2, BusyIs

(* Where a word is when the NOPs are gone.                                 *)
Places(ch) == [p \in 0 .. ch.size |-> Remap(ch, p)]

(* Sound code without its NOPs is well formed, and its instructions lead   *)
(* where they led.                                                         *)
LEMMA StripIs ==
  ASSUME NEW ch, Sound(ch)
  PROVE  /\ IsCode(StripNops(ch)) /\ WellFormed(StripNops(ch))
         /\ Follows(ch, StripNops(ch), Places(ch), Reached(ch))
<1> DEFINE size   == Remap(ch, ch.size)
           old(n) == CHOOSE p \in 0 .. ch.size - 1 : ch.code[p].op # "NOP" /\ Remap(ch, p) = n
           to(t, n) == (IF t \in 0 .. ch.size THEN Remap(ch, t) ELSE size) - n - 1
           move(n) ==
             LET p == old(n)
                 i == ch.code[p]
                 t == TargetOf(ch, p)
             IN  CASE i.op \in Jumps -> WithOffset(i, (IF t \in 0 .. ch.size THEN Remap(ch, t) ELSE size) - n - 1)
                   [] i.op = "WORD" /\ ch.code[p - 1].op \in BytecodeCalls /\ i.a <= ch.size
                        -> [i EXCEPT !.a = Remap(ch, @)]
                   [] OTHER -> i
           new    == StripNops(ch)
<1>1. IsCode(ch) /\ Whole(ch) /\ ch.size \in Nat
  BY DEF Sound, IsCode
<1>2. size \in Nat /\ \A x \in Int : Remap(ch, x) \in Nat
  BY <1>1, BusyIs
<1>3. /\ new.size = size /\ DOMAIN new = DOMAIN ch
      /\ new.code = [n \in 0 .. size - 1 |-> move(n)]
      /\ new.fn = [n \in 0 .. size - 1 |-> ch.fn[old(n)]]
  BY <1>1 DEF StripNops, IsCode
<1> HIDE DEF new
(* Where a word comes from and where it goes.                              *)
<1>4. ASSUME NEW n \in 0 .. size - 1
      PROVE  old(n) \in 0 .. ch.size - 1 /\ ch.code[old(n)].op # "NOP" /\ Remap(ch, old(n)) = n
  BY <1>1, RemapOnto
<1>5. ASSUME NEW p \in 0 .. ch.size - 1, ch.code[p].op # "NOP"
      PROVE  Remap(ch, p) \in 0 .. size - 1 /\ old(Remap(ch, p)) = p /\ Remap(ch, p + 1) = Remap(ch, p) + 1
  <2>1. p \in Int /\ p + 1 \in Int /\ p + 1 <= ch.size /\ ch.size \in Int
    BY <1>1
  <2>2. Remap(ch, p + 1) = Remap(ch, p) + 1 /\ Remap(ch, p + 1) <= size
    BY <1>1, <1>5, <2>1, RemapNext, RemapGrows
  <2>3. Remap(ch, p) \in 0 .. size - 1
    BY <1>2, <2>1, <2>2
  <2> DEFINE n == Remap(ch, p)
  <2> HIDE DEF n, old, size
  <2>4. n \in 0 .. size - 1
    BY <2>3 DEF n
  <2>5. old(n) \in 0 .. ch.size - 1 /\ ch.code[old(n)].op # "NOP" /\ Remap(ch, old(n)) = Remap(ch, p)
    BY <1>4, <2>4 DEF n
  <2>6. old(n) = p
    BY <1>1, <1>5, <2>5, RemapOne
  <2> QED
    BY <2>2, <2>3, <2>6 DEF n
<1> HIDE DEF old, size
<1>6. ASSUME NEW n \in 0 .. size - 1
      PROVE  LET p == old(n)
                 i == ch.code[p]
             IN  /\ new.code[n] \in Words /\ new.code[n].op = i.op /\ new.code[n].fn = i.fn
                 /\ new.fn[n] = ch.fn[p] /\ ch.fn[p] \in Nat
                 /\ i.op \in Jumps => JumpOffset(new.code[n]) = to(TargetOf(ch, p), n)
                 /\ i.op # "WORD" => SameButOffset(i, new.code[n])
                 /\ i.op = "WORD" /\ ch.code[p - 1].op \in BytecodeCalls /\ i.a <= ch.size
                      => new.code[n].a = Remap(ch, i.a)
  <2> DEFINE p == old(n)
             i == ch.code[p]
             d == to(TargetOf(ch, p), n)
  <2>1. p \in 0 .. ch.size - 1 /\ new.code[n] = move(n) /\ new.fn[n] = ch.fn[p]
    BY <1>3, <1>4
  <2> HIDE DEF p
  <2>2. i \in Words /\ ch.fn[p] \in Nat /\ TargetOf(ch, p) \in Int /\ i.a \in Int
    BY <1>1, <2>1, WordIs
  <2>3. d \in Int
    <3>1. \A t \in 0 .. ch.size : Remap(ch, t) \in Int
      BY <1>1, <1>2
    <3> QED
      BY <1>2, <3>1
  <2> HIDE DEF d
  <2>4. CASE i.op \in Jumps
    <3>1. new.code[n] = WithOffset(i, d)
      BY <2>1, <2>4 DEF p, d, Jumps, CondJumps
    <3>2. WithOffset(i, d).fn = i.fn
      BY <2>2, <2>4 DEF WithOffset, Jumps, CondJumps, Words
    <3>3. SameButOffset(i, new.code[n])
      BY <2>2, <2>4, <3>1 DEF WithOffset, Jumps, CondJumps, Words, SameButOffset
    <3> QED
      BY <2>1, <2>2, <2>3, <2>4, <3>1, <3>2, <3>3, OffsetIs DEF d, p, Jumps, CondJumps
  <2>5. CASE i.op = "WORD" /\ ch.code[p - 1].op \in BytecodeCalls /\ i.a <= ch.size
    <3>1. new.code[n] = [i EXCEPT !.a = Remap(ch, i.a)]
      BY <2>1, <2>2, <2>5 DEF p, Jumps, CondJumps, Words
    <3>2. Remap(ch, i.a) \in Int
      BY <1>2, <2>2
    <3>3. \A r \in Int : LET j == [i EXCEPT !.a = r]
                         IN  j \in Words /\ j.op = i.op /\ j.fn = i.fn /\ j.a = r
      BY <2>2 DEF Words
    <3> QED
      BY <2>1, <2>2, <2>5, <3>1, <3>2, <3>3 DEF p, Jumps, CondJumps
  <2>6. CASE ~ (i.op \in Jumps) /\ ~ (i.op = "WORD" /\ ch.code[p - 1].op \in BytecodeCalls /\ i.a <= ch.size)
    <3>1. new.code[n] = i
      BY <2>1, <2>6 DEF p
    <3>2. SameButOffset(i, new.code[n])
      BY <3>1 DEF SameButOffset
    <3> QED
      BY <2>1, <2>2, <2>6, <3>1, <3>2 DEF p
  <2> QED
    BY <2>4, <2>5, <2>6
<1> HIDE DEF move
<1>7. IsCode(new)
  <2>1. new.code \in [0 .. size - 1 -> Words] /\ new.fn \in [0 .. size - 1 -> Nat]
    <3>1. \A n \in 0 .. size - 1 : new.code[n] \in Words /\ new.fn[n] \in Nat
      BY <1>6
    <3> QED
      BY <1>3, <3>1
  <2> QED
    BY <1>1, <1>2, <1>3, <2>1 DEF IsCode
(* An instruction is still an instruction of its function.                 *)
<1>8. ASSUME NEW p \in Ins(ch)
      PROVE  /\ InstrOf(new, ch.fn[p], Remap(ch, p))
             /\ Remap(ch, p + Slots(ch.code[p].op)) = Remap(ch, p) + Slots(ch.code[p].op)
             /\ ch.code[p].op \in WideOps =>
                  old(Remap(ch, p) + 1) = p + 1 /\ Remap(ch, p) + 1 \in 0 .. size - 1 /\ ch.code[p + 1].op = "WORD"
  <2> DEFINE n == Remap(ch, p)
  <2>1. p \in 0 .. ch.size - 1 /\ ch.code[p].op # "NOP" /\ ch.code[p].op # "WORD"
    BY DEF Ins
  <2>2. n \in 0 .. size - 1 /\ old(n) = p /\ Remap(ch, p + 1) = n + 1
    BY <1>5, <2>1
  <2>3. new.code[n].op = ch.code[p].op /\ new.fn[n] = ch.fn[p]
    BY <1>6, <2>2
  <2>4. CASE ch.code[p].op \in WideOps
    <3>1. p + 1 \in 0 .. ch.size - 1 /\ ch.code[p + 1].op = "WORD"
      BY <1>1, <2>1, <2>4 DEF Whole
    <3>2. Remap(ch, p + 1) \in 0 .. size - 1 /\ old(Remap(ch, p + 1)) = p + 1
          /\ Remap(ch, (p + 1) + 1) = Remap(ch, p + 1) + 1
      BY <1>5, <3>1
    <3> HIDE DEF n
    <3>3. n + 1 \in 0 .. size - 1 /\ old(n + 1) = p + 1
      BY <2>2, <3>2
    <3>4. new.code[n + 1].op = "WORD"
      BY <1>6, <3>1, <3>3
    <3>5. Slots(ch.code[p].op) = 2 /\ (p + 1) + 1 = p + 2 /\ n \in Int
      BY <2>1, <2>2, <2>4 DEF Slots
    <3>6. Remap(ch, p + 2) = n + 2
      BY <2>2, <3>2, <3>5
    <3>7. InstrOf(new, ch.fn[p], n)
      BY <1>3, <2>1, <2>2, <2>3, <3>3, <3>4 DEF InstrOf
    <3> QED
      BY <3>1, <3>3, <3>5, <3>6, <3>7 DEF n
  <2>5. CASE ch.code[p].op \notin WideOps
    <3>1. InstrOf(new, ch.fn[p], n)
      BY <1>3, <2>1, <2>2, <2>3, <2>5 DEF InstrOf
    <3> QED
      BY <2>2, <2>5, <3>1 DEF Slots
  <2> QED
    BY <2>4, <2>5
<1>9. ASSUME NEW f, NEW t, Leads(ch, f, t) PROVE InstrOf(new, f, Remap(ch, t))
  <2>1. PICK q \in Ins(ch) : Lands(ch, t, q) /\ ch.fn[q] = f
    BY <1>9 DEF Leads
  <2>2. Remap(ch, t) = Remap(ch, q)
    BY <1>1, <2>1, RemapLands
  <2> QED
    BY <1>8, <2>1, <2>2
<1>10. ASSUME NEW n \in 0 .. size - 1, new.code[n].op = "WORD"
       PROVE  n > 0 /\ new.code[n - 1].op \in WideOps
  <2> DEFINE p == old(n)
  <2>1. p \in 0 .. ch.size - 1 /\ ch.code[p].op = "WORD" /\ Remap(ch, p) = n
    BY <1>4, <1>6, <1>10
  <2> HIDE DEF p
  <2>2. p > 0 /\ p - 1 \in 0 .. ch.size - 1 /\ ch.code[p - 1].op \in WideOps /\ (p - 1) + 1 = p
    BY <1>1, <2>1 DEF Whole
  <2>3. ch.code[p - 1].op # "NOP"
    BY <2>2 DEF WideOps
  <2>4. Remap(ch, p - 1) \in 0 .. size - 1 /\ old(Remap(ch, p - 1)) = p - 1 /\ n = Remap(ch, p - 1) + 1
    BY <1>5, <2>1, <2>2, <2>3
  <2>5. n > 0 /\ n - 1 = Remap(ch, p - 1)
    BY <2>4
  <2>6. new.code[n - 1].op = ch.code[p - 1].op
    BY <1>6, <2>4, <2>5
  <2> QED
    BY <2>2, <2>5, <2>6
<1>11. ASSUME NEW n \in 0 .. size - 1, new.code[n].op # "WORD"
       PROVE  WellFormedAt(new, n)
  <2> DEFINE p == old(n)
             i == ch.code[p]
             f == ch.fn[p]
  <2>1. /\ p \in 0 .. ch.size - 1 /\ i.op # "NOP" /\ Remap(ch, p) = n
        /\ new.code[n].op = i.op /\ new.fn[n] = f
        /\ i.op \in Jumps => JumpOffset(new.code[n]) = to(TargetOf(ch, p), n)
    BY <1>4, <1>6
  <2> HIDE DEF p
  <2>2. p \in Ins(ch)
    BY <1>11, <2>1 DEF Ins
  <2>3. SoundAt(ch, p)
    BY <2>2 DEF Sound
  <2>4. /\ InstrOf(new, f, n) /\ Remap(ch, p + Slots(i.op)) = n + Slots(i.op)
        /\ i.op \in WideOps => old(n + 1) = p + 1 /\ n + 1 \in 0 .. size - 1 /\ ch.code[p + 1].op = "WORD"
    BY <1>8, <2>1, <2>2
  <2>5. i.op \in WideOps =>
          /\ new.code[n + 1].fn = ch.code[p + 1].fn
          /\ i.op \in BytecodeCalls /\ ch.code[p + 1].a <= ch.size => new.code[n + 1].a = Remap(ch, ch.code[p + 1].a)
    <3>1. (p + 1) - 1 = p
      BY <2>1
    <3> QED
      BY <1>6, <2>4, <3>1
  <2>6. i.op \in BytecodeCalls \union SyscallOps => i.op \in WideOps
    BY DEF BytecodeCalls, SyscallOps, WideOps
  <2>7. FallsThrough(new, n) => InstrOf(new, f, n + Slots(i.op))
    <3>1. FallsThrough(new, n) => FallsThrough(ch, p)
      BY <2>1, <2>5, <2>6 DEF FallsThrough
    <3> QED
      BY <1>9, <2>3, <2>4, <3>1 DEF SoundAt
  <2>8. ASSUME i.op \in Jumps PROVE InstrOf(new, f, JumpTarget(n, new.code[n]))
    <3> DEFINE t == TargetOf(ch, p)
    <3>1. Leads(ch, f, t)
      BY <2>3, <2>8 DEF SoundAt
    <3>2. t \in 0 .. ch.size
      BY <1>1, <3>1, LeadsIs
    <3>3. JumpOffset(new.code[n]) = Remap(ch, t) - n - 1
      BY <2>1, <2>8, <3>2
    <3>4. Remap(ch, t) \in Int /\ n \in Int
      BY <1>2, <3>2
    <3>5. JumpTarget(n, new.code[n]) = Remap(ch, t)
      <4> HIDE DEF t
      <4> QED
        BY <3>3, <3>4 DEF JumpTarget
    <3> QED
      BY <1>9, <3>1, <3>5
  <2>9. ASSUME i.op \in BytecodeCalls
        PROVE  LET t == new.code[n + 1].a
               IN  t \in 0 .. new.size - 1 /\ new.fn[t] # 0 /\ InstrOf(new, new.fn[t], t)
    <3> DEFINE t == ch.code[p + 1].a
    <3>1. PICK q \in Ins(ch) : Lands(ch, t, q) /\ ch.fn[q] # 0
      BY <2>3, <2>9 DEF SoundAt
    <3>2. Leads(ch, ch.fn[q], t)
      BY <3>1 DEF Leads
    <3>3. t <= ch.size
      BY <1>1, <3>2, LeadsIs
    <3>4. new.code[n + 1].a = Remap(ch, t)
      BY <2>5, <2>6, <2>9, <3>3
    <3>5. InstrOf(new, ch.fn[q], Remap(ch, t))
      BY <1>9, <3>2
    <3> HIDE DEF t
    <3> QED
      BY <3>1, <3>4, <3>5 DEF InstrOf
  <2>10. i.op \in {"RET", "RET_VOID", "TAILCALL"} => f # 0
    BY <2>3 DEF SoundAt
  <2>11. i.op \in SyscallOps => new.code[n + 1].fn \in SyscallIds
    BY <2>3, <2>5, <2>6 DEF SoundAt
  <2> HIDE DEF f, i
  <2> QED
    BY <2>1, <2>4, <2>7, <2>8, <2>9, <2>10, <2>11 DEF WellFormedAt
<1>12. InstrOf(new, 0, 0)
  BY <1>9, RemapStart DEF Sound
<1>13. WellFormed(new)
  BY <1>3, <1>10, <1>11, <1>12 DEF WellFormed
(* Where control comes and what it finds there.                            *)
<1>14. ASSUME NEW f, NEW t, Leads(ch, f, t)
       PROVE  t \in Reached(ch) /\ t \in 0 .. ch.size /\ Places(ch)[t] = Remap(ch, t)
  <2>1. t \in 0 .. ch.size - 1
    BY <1>1, <1>14, LeadsIs
  <2>2. t \in 0 .. ch.size
    BY <1>1, <2>1
  <2>3. t \in Reached(ch)
    BY <1>14, <2>1 DEF Reached, Leads
  <2> QED
    BY <2>2, <2>3 DEF Places
<1>15. ASSUME NEW p \in Ins(ch)
       PROVE  Moved(ch, new, Places(ch), Reached(ch), p)
  <2> DEFINE i == ch.code[p]
             n == Remap(ch, p)
             u == p + Slots(ch.code[p].op)
  <2>1. /\ p \in 0 .. ch.size - 1 /\ i.op \notin {"WORD", "NOP"} /\ Places(ch)[p] = n /\ SoundAt(ch, p)
    BY <1>1 DEF Ins, Places, Sound
  <2>2. n \in 0 .. size - 1 /\ old(n) = p
    BY <1>5, <2>1
  <2>3. /\ InstrOf(new, ch.fn[p], n) /\ Remap(ch, p + Slots(i.op)) = n + Slots(i.op)
        /\ i.op \in WideOps => old(n + 1) = p + 1 /\ n + 1 \in 0 .. size - 1 /\ ch.code[p + 1].op = "WORD"
    BY <1>8
  <2>4. /\ SameButOffset(i, new.code[n])
        /\ i.op \in Jumps => JumpOffset(new.code[n]) = to(TargetOf(ch, p), n)
    BY <1>6, <2>1, <2>2
  <2> HIDE DEF n
  <2>5. i.op \in WideOps =>
          /\ new.code[n + 1].fn = ch.code[p + 1].fn
          /\ i.op \in BytecodeCalls /\ ch.code[p + 1].a <= ch.size => new.code[n + 1].a = Remap(ch, ch.code[p + 1].a)
    <3>1. (p + 1) - 1 = p
      BY <2>1
    <3> QED
      BY <1>6, <2>3, <3>1
  <2>6. Fetches(ch, p) /\ Fetches(new, n)
    <3>1. i.op \in WideOps => p + 1 \in 0 .. ch.size - 1 /\ ch.code[p + 1].op = "WORD"
      BY <1>1, <2>1 DEF Whole
    <3> QED
      BY <2>1, <2>3, <3>1 DEF Fetches, InstrOf
  <2>7. ASSUME FallsThrough(ch, p)
        PROVE  u \in Reached(ch) /\ Places(ch)[u] = n + Slots(i.op)
    BY <1>14, <2>1, <2>3, <2>7 DEF SoundAt
  <2>8. ASSUME i.op \in Jumps
        PROVE  /\ JumpTarget(p, i) \in Reached(ch)
               /\ Places(ch)[JumpTarget(p, i)] = JumpTarget(n, new.code[n])
    <3> DEFINE t == TargetOf(ch, p)
    <3>1. Leads(ch, ch.fn[p], t)
      BY <2>1, <2>8 DEF SoundAt
    <3>2. t \in Reached(ch) /\ t \in 0 .. ch.size /\ Places(ch)[t] = Remap(ch, t)
      BY <1>14, <3>1
    <3>3. JumpOffset(new.code[n]) = Remap(ch, t) - n - 1
      BY <2>4, <2>8, <3>2
    <3>4. Remap(ch, t) \in Int /\ n \in Int
      BY <1>2, <2>2, <3>2
    <3>5. t = JumpTarget(p, i)
      BY DEF TargetOf
    <3> HIDE DEF t
    <3>6. JumpTarget(n, new.code[n]) = Remap(ch, t)
      BY <3>3, <3>4 DEF JumpTarget
    <3> QED
      BY <3>2, <3>5, <3>6
  <2>9. ASSUME i.op \in BytecodeCalls
        PROVE  ch.code[p + 1].a \in Reached(ch) /\ Places(ch)[ch.code[p + 1].a] = new.code[n + 1].a
    <3>1. PICK q \in Ins(ch) : Lands(ch, ch.code[p + 1].a, q) /\ ch.fn[q] # 0
      BY <2>1, <2>9 DEF SoundAt
    <3>2. Leads(ch, ch.fn[q], ch.code[p + 1].a)
      BY <3>1 DEF Leads
    <3>3. ch.code[p + 1].a <= ch.size
      BY <1>1, <3>2, LeadsIs
    <3>4. i.op \in WideOps
      BY <2>9 DEF BytecodeCalls, WideOps
    <3> QED
      BY <1>14, <2>5, <2>9, <3>2, <3>3, <3>4
  <2> HIDE DEF i
  <2> QED
    BY <2>1, <2>4, <2>5, <2>6, <2>7, <2>8, <2>9 DEF Moved, i
<1>16. ASSUME NEW p \in Reached(ch), ch.code[p].op = "NOP"
       PROVE  Idles(ch, new, Places(ch), Reached(ch), p)
  <2>1. PICK q \in Ins(ch) : Lands(ch, p, q)
    BY DEF Reached
  <2>2. /\ p \in 0 .. q - 1 /\ p + 1 \in 0 .. q /\ p + 1 \in 0 .. ch.size - 1 /\ q \in 0 .. ch.size - 1
        /\ \A r \in p .. q - 1 : ch.code[r].op = "NOP"
    BY <1>1, <1>16, <2>1 DEF Lands, Ins, Reached
  <2>3. Lands(ch, p + 1, q)
    BY <2>2 DEF Lands
  <2>4. p + 1 \in Reached(ch)
    BY <2>2, <2>3 DEF Reached
  <2>5. Places(ch)[p + 1] = Places(ch)[p]
    BY <1>1, <1>16, <2>2, RemapNext DEF Places
  <2>6. Fetches(ch, p)
    <3>1. p \in 0 .. ch.size - 1
      BY DEF Reached
    <3> QED
      BY <1>16, <3>1 DEF Fetches, WideOps
  <2> QED
    BY <1>16, <2>4, <2>5, <2>6 DEF Idles
<1>17. ASSUME NEW p \in Reached(ch)
       PROVE  /\ Places(ch)[p] \in Nat
              /\ Moved(ch, new, Places(ch), Reached(ch), p) \/ Idles(ch, new, Places(ch), Reached(ch), p)
  <2>1. PICK q \in Ins(ch) : Lands(ch, p, q)
    BY DEF Reached
  <2>2. p \in 0 .. ch.size /\ Places(ch)[p] \in Nat
    BY <1>1, <1>2 DEF Reached, Places
  <2>3. p = q \/ ch.code[p].op = "NOP"
    BY <1>1, <2>1 DEF Lands, Ins
  <2> QED
    BY <1>15, <1>16, <2>2, <2>3
<1>18. Follows(ch, new, Places(ch), Reached(ch))
  <2>1. \A x \in DOMAIN ch \ {"code", "size", "fn"} : new[x] = ch[x]
    BY DEF StripNops, new
  <2>2. Leads(ch, 0, 0)
    BY DEF Sound
  <2>3. 0 \in Reached(ch) /\ Places(ch)[0] = 0
    BY <1>14, <2>2, RemapStart
  <2>4. new.size > 0 /\ ch.size > 0
    BY <1>1, <1>2, <1>3, <1>12, <2>3 DEF InstrOf, Reached
  <2> QED
    BY <1>17, <2>1, <2>3, <2>4 DEF Follows
<1> QED
  BY <1>7, <1>13, <1>18 DEF new
-----------------------------------------------------------------------------
(* The steps                                                               *)

LEMMA NextHead ==
  ASSUME NEW ch, Sound(ch), NEW p \in 0 .. ch.size - 1, ch.code[p].op # "WORD",
         p + Slots(ch.code[p].op) < ch.size
  PROVE  ch.code[p + Slots(ch.code[p].op)].op # "WORD"
<1>1. Whole(ch) /\ ch.size \in Nat
  BY DEF Sound, IsCode
<1>2. CASE ch.code[p].op \in WideOps
  <2>1. Slots(ch.code[p].op) = 2 /\ ch.code[p + 1].op = "WORD" /\ p + 2 \in 0 .. ch.size - 1 /\ (p + 2) - 1 = p + 1
    BY <1>1, <1>2 DEF Slots, Whole
  <2>2. ch.code[p + 1].op \notin WideOps
    BY <2>1 DEF WideOps
  <2> QED
    BY <1>1, <2>1, <2>2 DEF Whole
<1>3. CASE ch.code[p].op \notin WideOps
  <2>1. Slots(ch.code[p].op) = 1 /\ p + 1 \in 0 .. ch.size - 1 /\ (p + 1) - 1 = p
    BY <1>1, <1>3 DEF Slots
  <2> QED
    BY <1>1, <1>3, <2>1 DEF Whole
<1> QED
  BY <1>2, <1>3

LEMMA CollectedAim ==
  ASSUME NEW ch, Sound(ch)
  PROVE  Aimed(ch, JumpTargets(ch))
<1>1. IsCode(ch) /\ Whole(ch) /\ ch.size \in Nat
  BY DEF Sound, IsCode
<1> SUFFICES ASSUME NEW p \in Ins(ch)
             PROVE  /\ ch.code[p].op \in Jumps => TargetOf(ch, p) \in JumpTargets(ch)
                    /\ ch.code[p].op \in BytecodeCalls => ch.code[p + 1].a \in JumpTargets(ch)
  BY DEF Aimed
<1>2. p \in 0 .. ch.size - 1 /\ SoundAt(ch, p)
  BY DEF Ins, Sound
<1>3. ASSUME ch.code[p].op \in Jumps PROVE TargetOf(ch, p) \in JumpTargets(ch)
  <2>1. Leads(ch, ch.fn[p], TargetOf(ch, p))
    BY <1>2, <1>3 DEF SoundAt
  <2>2. TargetOf(ch, p) \in 0 .. ch.size
    BY <1>1, <2>1, LeadsIs
  <2> QED
    BY <1>2, <1>3, <2>2 DEF JumpTargets
<1>4. ASSUME ch.code[p].op \in BytecodeCalls PROVE ch.code[p + 1].a \in JumpTargets(ch)
  <2> DEFINE t == ch.code[p + 1].a
  <2>1. PICK q \in Ins(ch) : Lands(ch, t, q) /\ ch.fn[q] # 0
    BY <1>2, <1>4 DEF SoundAt
  <2>2. Leads(ch, ch.fn[q], t)
    BY <2>1 DEF Leads
  <2>3. t \in 0 .. ch.size
    BY <1>1, <2>2, LeadsIs
  <2>4. p + 1 < ch.size
    BY <1>1, <1>2, <1>4 DEF Whole, BytecodeCalls, WideOps
  <2> QED
    BY <1>2, <1>4, <2>3, <2>4 DEF JumpTargets
<1> QED
  BY <1>3, <1>4

(* A rule rewrites the code at pos and goes on behind the instruction.     *)
LEMMA RuleStep ==
  ASSUME IInv, Peephole, Kept(work, work', targets), pos' = pos + Slots(Op),
         UNCHANGED <<targets, phase>>, changed' \/ (work' = work /\ ~ changed)
  PROVE  IInv'
<1>1. /\ Sound(work) /\ IsCode(work) /\ work.size \in Nat /\ pos \in Nat /\ pos < work.size
      /\ phase = "peephole" /\ work.code[pos].op # "WORD" /\ pos \in 0 .. work.size - 1
  BY DEF IInv, Peephole, Sound, IsCode
<1>2. /\ Sound(work') /\ Aimed(work', targets) /\ work'.size = work.size /\ IsCode(work')
      /\ \A q \in 0 .. work.size - 1 : work'.code[q].op = "WORD" => work.code[q].op = "WORD"
  BY DEF Kept, Sound
<1>3. pos' \in Nat /\ pos' = pos + Slots(work.code[pos].op)
  BY <1>1, WordIs DEF Op
<1>4. ASSUME pos' < work.size PROVE work'.code[pos'].op # "WORD"
  <2>1. work.code[pos'].op # "WORD"
    BY <1>1, <1>3, <1>4, NextHead
  <2>2. pos' \in 0 .. work.size - 1
    BY <1>1, <1>3, <1>4
  <2> QED
    BY <1>2, <2>1, <2>2
<1>5. ~ changed' => WellFormed(work')
  BY DEF IInv
<1> QED
  BY <1>1, <1>2, <1>3, <1>4, <1>5 DEF IInv

LEMMA OpenIs ==
  ASSUME IInv, Open
  PROVE  /\ Peephole /\ Prepared(work, Now, targets, pos) /\ Sound(Now) /\ Aimed(Now, targets)
         /\ pos \in Ins(Now) /\ Now.code[pos].op = Op
<1>1. Sound(work) /\ Aimed(work, targets) /\ pos \in Ins(work)
  <2>1. /\ phase = "peephole" /\ pos < work.size /\ work.code[pos].op \notin {"WORD", "NOP"}
        /\ work.size \in Nat /\ pos \in Nat
    BY DEF IInv, Open, Peephole, Op, IsCode
  <2> QED
    BY <2>1 DEF IInv, Ins
<1>2. Prepared(work, Now, targets, pos)
  BY <1>1, ForwardedIs DEF Now
<1> QED
  BY <1>2 DEF Prepared, Kept, Open, Op

LEMMA RulesStep ==
  ASSUME IInv, Rules
  PROVE  IInv'
<1>1. CASE SkipNop
  <2>1. Slots(Op) = 1 /\ Kept(work, work', targets) /\ (changed' \/ (work' = work /\ ~ changed))
    BY <1>1 DEF SkipNop, Slots, WideOps, Peephole, IInv, Kept
  <2> QED
    BY <1>1, <2>1, RuleStep DEF SkipNop
<1>2. CASE DropJumpToNext
  <2>1. Sound(work) /\ Aimed(work, targets) /\ work.code[pos].op \in Jumps /\ TargetOf(work, pos) = pos + 1
    BY <1>2 DEF DropJumpToNext, JumpsToNext, IInv, Peephole
  <2>2. pos \in Ins(work) /\ Slots(work.code[pos].op) = 1
    BY <1>2, <2>1 DEF DropJumpToNext, Peephole, IInv, IsCode, Ins, Jumps, CondJumps, Slots, WideOps
  <2>3. Leads(work, work.fn[pos], pos + 1)
    BY <2>1, <2>2, Onward
  <2>4. Kept(work, Erase(work, pos), targets)
    BY <2>1, <2>2, <2>3, EraseFalling
  <2> QED
    BY <1>2, <2>4, RuleStep DEF DropJumpToNext, Rewrite
<1>3. ASSUME Open, Kept(Now, work', targets), pos' = pos + Slots(Op), UNCHANGED <<targets, phase>>,
             changed' \/ (work' = work /\ ~ changed)
      PROVE  IInv'
  <2>1. Peephole /\ Kept(work, work', targets)
    BY <1>3, OpenIs, KeptBoth DEF Prepared
  <2> QED
    BY <1>3, <2>1, RuleStep
<1>4. ASSUME Open, NEW new, Kept(Now, new, targets), Rewrite(new) PROVE IInv'
  BY <1>3, <1>4 DEF Rewrite
<1>5. CASE InvertBranch
  BY <1>4, <1>5, OpenIs, InvertKeeps DEF InvertBranch
<1>6. CASE JumpToReturn
  BY <1>4, <1>6, OpenIs, ReturnKeeps DEF JumpToReturn
<1>7. CASE ChainJumps
  <2>1. /\ Now.code[pos].op \in Jumps /\ TargetOf(Now, pos) \in 0 .. Now.size - 1
        /\ Now.code[TargetOf(Now, pos)].op = "JUMP"
    BY <1>7 DEF ChainJumps, ToJump, Jumps
  <2>2. Kept(Now, Retarget(Now, pos, TargetOf(Now, TargetOf(Now, pos))), targets)
    BY <1>7, <2>1, OpenIs, ChainKeeps DEF ChainJumps, Prepared
  <2> QED
    BY <1>4, <1>7, <2>2 DEF ChainJumps
<1>8. CASE MakeTailCall
  BY <1>4, <1>8, OpenIs, TailKeeps DEF MakeTailCall
<1>9. CASE FuseTestOfZero
  BY <1>4, <1>9, OpenIs, FuseZeroKeeps DEF FuseTestOfZero
<1>10. CASE DropMove
  <2>1. /\ Kept(Now, Erase(Now, pos), targets)
        /\ Kept(Now, Erase(PropagateCopy(Now, targets, pos), pos), targets)
    BY <1>10, OpenIs, MoveKeeps DEF DropMove
  <2> DEFINE i   == Now.code[pos]
             new == PropagateCopy(Now, targets, pos)
  <2>2. Kept(Now, Erase(IF i.a = i.b THEN Now ELSE new, pos), targets)
    BY <2>1
  <2>3. Rewrite(Erase(IF i.a = i.b THEN Now ELSE new, pos))
    BY <1>10 DEF DropMove
  <2> HIDE DEF i, new
  <2> QED
    BY <1>4, <1>10, <2>2, <2>3 DEF DropMove
<1>11. CASE PropagateMove
  BY <1>4, <1>11, OpenIs, CopyKeeps DEF PropagateMove
<1>12. CASE Simplify
  BY <1>4, <1>12, OpenIs, SimplifyKeeps DEF Simplify
<1>13. CASE FuseBranch
  BY <1>4, <1>13, OpenIs, FuseKeeps DEF FuseBranch
<1>14. CASE Keep
  <2>1. Open /\ work' = Now /\ pos' = pos + Slots(Op) /\ UNCHANGED <<targets, phase>>
    BY <1>14 DEF Keep
  <2>2. Kept(Now, work', targets)
    BY <2>1, OpenIs DEF Kept
  <2>3. changed' \/ (work' = work /\ ~ changed)
    BY <1>14 DEF Keep
  <2> QED
    BY <1>3, <2>1, <2>2, <2>3
<1> QED
  BY <1>1, <1>2, <1>5, <1>6, <1>7, <1>8, <1>9, <1>10, <1>11, <1>12, <1>13, <1>14 DEF Rules

LEMMA PassesStep ==
  ASSUME IInv, CollectJumpTargets \/ EliminateDeadCode \/ EliminateDeadStores \/ EndPeephole \/ Strip
  PROVE  IInv'
<1>1. CASE CollectJumpTargets
  BY <1>1 DEF CollectJumpTargets, IInv, Phases
<1>2. CASE EliminateDeadCode
  <2>1. phase = "dead code" /\ phase' = "dead stores" /\ work' = DeadCode(work, targets) /\ UNCHANGED <<targets, pos>>
    BY <1>2 DEF EliminateDeadCode, Pass
  <2>2. IsCode(work) /\ WellFormed(work) /\ work.size > 0 /\ targets = JumpTargets(work)
    BY <2>1 DEF IInv
  <2>3. Kept(work, work', targets)
    BY <2>1, <2>2, WellFormedIsSound, CollectedAim, DeadCodeKeeps
  <2>4. ~ changed' => WellFormed(work')
    BY <1>2, <2>1, <2>2 DEF EliminateDeadCode, Pass
  <2> QED
    BY <2>1, <2>2, <2>3, <2>4 DEF IInv, Kept, Sound, Phases
<1>3. CASE EliminateDeadStores
  <2>1. /\ phase = "dead stores" /\ phase' = "peephole" /\ work' = DeadStores(work, targets)
        /\ UNCHANGED targets /\ pos' = 0
    BY <1>3 DEF EliminateDeadStores, Pass
  <2>2. Sound(work) /\ Aimed(work, targets) /\ work.size > 0
    BY <2>1 DEF IInv
  <2>3. Kept(work, work', targets)
    BY <2>1, <2>2, DeadStoresKeeps
  <2>4. ~ changed' => WellFormed(work')
    BY <1>3, <2>1 DEF EliminateDeadStores, Pass, IInv
  <2>5. pos' < work'.size => work'.code[pos'].op # "WORD"
    <3>1. Whole(work') /\ work'.size \in Nat
      BY <2>3 DEF Kept, Sound, IsCode
    <3>2. 0 < work'.size => work'.code[0].op # "WORD"
      BY <3>1 DEF Whole
    <3> QED
      BY <2>1, <3>2
  <2> QED
    BY <2>1, <2>2, <2>3, <2>4, <2>5 DEF IInv, Kept, Sound, Phases
<1>4. CASE EndPeephole
  BY <1>4 DEF EndPeephole, IInv, Phases
<1>5. CASE Strip
  <2>1. phase = "strip" /\ Sound(work) /\ IsCode(work) /\ UNCHANGED <<targets, pos, changed>>
    BY <1>5 DEF Strip, IInv, Sound
  <2>2. IsCode(work') /\ WellFormed(work')
    <3>1. CASE changed
      BY <1>5, <2>1, <3>1, StripIs DEF Strip
    <3>2. CASE ~ changed
      BY <1>5, <2>1, <3>2 DEF Strip, IInv
    <3> QED
      BY <3>1, <3>2
  <2>3. phase' \in {"collect", "done"} /\ (phase' = "collect" => work'.size > 0)
    BY <1>5 DEF Strip
  <2> QED
    BY <2>1, <2>2, <2>3 DEF IInv, Phases
<1> QED
  BY <1>1, <1>2, <1>3, <1>4, <1>5
-----------------------------------------------------------------------------
LEMMA OptimizerInv ==
  ASSUME \A ch \in Programs : IsCode(ch) /\ WellFormed(ch)
  PROVE  Spec => []IInv
<1>1. Init => IInv
  <2> SUFFICES ASSUME NEW ch \in Programs, Start(ch) PROVE IInv
    BY DEF Init
  <2> QED
    BY DEF Start, IInv, Phases, IsCode
<1>2. IInv /\ [Next]_optVars => IInv'
  <2> SUFFICES ASSUME IInv, [Next]_optVars PROVE IInv'
    OBVIOUS
  <2>1. CASE Next
    BY <2>1, RulesStep, PassesStep DEF Next
  <2>2. CASE UNCHANGED optVars
    BY <2>2 DEF optVars, IInv
  <2> QED
    BY <2>1, <2>2
<1> QED
  BY <1>1, <1>2, PTL DEF Spec

(* Whatever the program, the registers and the widths of the offsets: at   *)
(* the end of every iteration AcuChunk_Optimize has code the machine can   *)
(* run, all instructions whole, every jump, call and fall-through on an    *)
(* instruction of the function it means (StripNopsAndRelocate), if it was  *)
(* given such code.  AcuVM needs no more of a chunk (ChunksAssumption).    *)
THEOREM OptimizedWellFormed ==
  ASSUME \A ch \in Programs : IsCode(ch) /\ WellFormed(ch)
  PROVE  Spec => []StaysWellFormed
<1>1. IInv => StaysWellFormed
  BY DEF IInv, StaysWellFormed
<1> QED
  BY <1>1, OptimizerInv, PTL

(* Nothing changes.                                                        *)
LEMMA SameFollows ==
  ASSUME NEW ch, Sound(ch)
  PROVE  Follows(ch, ch, Still(ch), Reached(ch))
<1>1. Drops(ch, ch, {})
  <2>1. \A q \in 0 .. ch.size - 1 : ch.code[q].op = "WORD" /\ q - 1 \in {} => FALSE
    OBVIOUS
  <2> QED
    BY <2>1 DEF Drops, Sound
<1> QED
  BY <1>1, ReachedOn, DropsFollow

(* Rule 1.                                                                 *)
LEMMA JumpFollows ==
  ASSUME NEW ch, Sound(ch), NEW p \in Ins(ch), JumpsToNext(ch, p)
  PROVE  Follows(ch, Erase(ch, p), Still(ch), Reached(ch))
<1>1. Drops(ch, Erase(ch, p), {p})
  BY EraseDrops
<1>2. \A x \in DOMAIN ch \ {"code", "size", "fn"} : Erase(ch, p)[x] = ch[x]
  BY DEF Erase
<1>3. ch.code[p].op \in Jumps /\ TargetOf(ch, p) = p + 1 /\ p + 1 \in Reached(ch)
  BY ReachedOn DEF JumpsToNext
<1>4. \A r \in Reached(ch) \cap Ins(ch) :
        \/ r \in {p} /\ ch.code[r].op \in Jumps /\ TargetOf(ch, r) = r + 1 /\ r + 1 \in Reached(ch)
        \/ /\ r \notin {p}
           /\ FallsThrough(ch, r) => r + Slots(ch.code[r].op) \in Reached(ch)
           /\ ch.code[r].op \in Jumps => TargetOf(ch, r) \in Reached(ch)
           /\ ch.code[r].op \in BytecodeCalls => ch.code[r + 1].a \in Reached(ch)
  BY <1>3, ReachedOn
<1> QED
  BY <1>1, <1>2, <1>4, ReachedOn, DropsFollow

(* The steps that move code or drop what is not needed change nothing      *)
(* else: unreachable code goes, a jump to the next word goes, and the      *)
(* stripped code has every instruction that control comes to, at its       *)
(* place, with every jump, call, return and fall-through relocated to the  *)
(* place of the word it led to (EliminateDeadCode, rule 1 and              *)
(* StripNopsAndRelocate).                                                  *)
OnlyMoves ==
  [][EliminateDeadCode \/ DropJumpToNext \/ Strip =>
       \E at, here : Follows(work, work', at, here)]_optVars

(* Whatever the program, these three steps leave code that follows the     *)
(* code they were given: RelocatedRuns of AcuVM_proofs says that it then   *)
(* runs the same.                                                          *)
THEOREM RelocationFollows ==
  ASSUME \A ch \in Programs : IsCode(ch) /\ WellFormed(ch)
  PROVE  Spec => OnlyMoves
<1>1. ASSUME IInv, EliminateDeadCode
      PROVE  \E at, here : Follows(work, work', at, here)
  <2>1. phase = "dead code" /\ work' = DeadCode(work, targets)
    BY <1>1 DEF EliminateDeadCode, Pass
  <2>2. IsCode(work) /\ WellFormed(work) /\ work.size > 0 /\ targets = JumpTargets(work)
    BY <1>1, <2>1 DEF IInv
  <2>3. \E here : Follows(work, work', Still(work), here)
    BY <2>1, <2>2, WellFormedIsSound, CollectedAim, DeadCodeKeeps
  <2> QED
    BY <2>3
<1>2. ASSUME IInv, DropJumpToNext
      PROVE  \E at, here : Follows(work, work', at, here)
  <2>1. Sound(work) /\ JumpsToNext(work, pos) /\ work' = Erase(work, pos)
    BY <1>2 DEF DropJumpToNext, Rewrite, IInv, Peephole
  <2>2. pos \in Ins(work)
    BY <1>2, <2>1 DEF DropJumpToNext, JumpsToNext, Peephole, IInv, IsCode, Ins, Jumps, CondJumps
  <2>3. Follows(work, work', Still(work), Reached(work))
    BY <2>1, <2>2, JumpFollows
  <2> QED
    BY <2>3
<1>3. ASSUME IInv, Strip
      PROVE  \E at, here : Follows(work, work', at, here)
  <2>1. Sound(work) /\ work' = IF changed THEN StripNops(work) ELSE work
    BY <1>3 DEF Strip, IInv
  <2>2. CASE changed
    <3>1. Follows(work, work', Places(work), Reached(work))
      BY <2>1, <2>2, StripIs
    <3> QED
      BY <3>1
  <2>3. CASE ~ changed
    <3>1. Follows(work, work', Still(work), Reached(work))
      BY <2>1, <2>3, SameFollows
    <3> QED
      BY <3>1
  <2> QED
    BY <2>2, <2>3
<1>4. IInv /\ [Next]_optVars => [EliminateDeadCode \/ DropJumpToNext \/ Strip =>
                                  \E at, here : Follows(work, work', at, here)]_optVars
  BY <1>1, <1>2, <1>3
<1> QED
  BY <1>4, OptimizerInv, PTL DEF Spec, OnlyMoves
-----------------------------------------------------------------------------
(* What is dead                                                            *)

(* No path that starts in D needs register r, and none leaves D before it  *)
(* defines r.                                                              *)
Quiet(ch, D, r) ==
  \A q \in D : /\ r \notin Needs(ch.code[q])
               /\ r \in Defines(ch.code[q]) \/ Successors(ch, q) \subseteq D

(* No path from t needs register r: t is off the code or in such a set.    *)
Unread(ch, t, r) ==
  t \in 0 .. ch.size - 1 => \E D \in SUBSET (0 .. ch.size - 1) : t \in D /\ Quiet(ch, D, r)

Silent(ch, p, r) == \E D : Quiet(ch, D, r) /\ Successors(ch, p) \subseteq D

(* The union over all paths stays in a quiet set.                          *)
LEMMA SilentIsDead ==
  ASSUME NEW ch, ch.size \in Nat, NEW p, NEW r, Silent(ch, p, r)
  PROVE  ~ LiveAfter(ch, p, r)
<1> DEFINE grow(s) == s \union UNION {Successors(ch, q) : q \in {q \in s : r \notin Defines(ch.code[q])}}
           E(f, n) == IF n = 0 THEN Successors(ch, p) ELSE grow(f[n - 1])
           reach   == CHOOSE f : f = [n \in Nat |-> E(f, n)]
           S       == SUBSET (0 .. ch.size - 1)
           rank    == [n \in Nat |-> n]
           step    == [x \in [Nat -> S] \X Nat |-> E(x[1], x[2])]
<1>1. \A q : Successors(ch, q) \in S
  BY DEF Successors
<1>2. ASSUME NEW f \in [Nat -> S], NEW n \in Nat PROVE E(f, n) \in S
  <2>1. CASE n = 0
    BY <1>1, <2>1
  <2>2. CASE n # 0
    <3>1. n - 1 \in Nat
      BY <2>2
    <3>2. f[n - 1] \in S
      BY <3>1
    <3>3. grow(f[n - 1]) \in S
      BY <1>1, <3>2
    <3> QED
      BY <2>2, <3>3
  <2> QED
    BY <2>1, <2>2
<1>3. step \in [[Nat -> S] \X Nat -> S]
  <2> HIDE DEF E, S
  <2> QED
    BY <1>2
<1>4. ASSUME NEW f \in [Nat -> S], NEW g \in [Nat -> S], NEW n \in Nat,
             \A m \in Nat : rank[m] < rank[n] => f[m] = g[m]
      PROVE  E(f, n) = E(g, n)
  <2>1. n # 0 => n - 1 \in Nat /\ n - 1 < n
    OBVIOUS
  <2>2. n # 0 => f[n - 1] = g[n - 1]
    <3> HIDE DEF S
    <3> QED
      BY <1>4, <2>1
  <2> HIDE DEF grow
  <2> QED
    BY <2>2
<1>5. Local(S, rank, step)
  <2> SUFFICES ASSUME NEW f \in [Nat -> S], NEW g \in [Nat -> S], NEW n \in Nat,
                      \A m \in Nat : rank[m] < rank[n] => f[m] = g[m]
               PROVE  step[<<f, n>>] = step[<<g, n>>]
    BY DEF Local
  <2>1. E(f, n) = E(g, n)
    BY <1>4
  <2> HIDE DEF E, S
  <2> QED
    BY <2>1
<1>6. PICK f \in [Nat -> S] : \A n \in Nat : f[n] = step[<<f, n>>]
  <2>1. Stepping(S, rank, step)
    <3>1. S # {} /\ rank \in [Nat -> Nat]
      BY <1>1
    <3> HIDE DEF E, S, rank, step
    <3> QED
      BY <1>3, <1>5, <3>1 DEF Stepping
  <2> HIDE DEF S, rank, step
  <2>2. PICK f : Solves(S, step, f)
    BY <2>1, Solvable
  <2> QED
    BY <2>2 DEF Solves
<1>7. f = [n \in Nat |-> E(f, n)]
  <2> HIDE DEF E, S
  <2> QED
    BY <1>6
<1>8. reach = [n \in Nat |-> E(reach, n)]
  <2> HIDE DEF E
  <2> QED
    BY <1>7
<1> HIDE DEF reach
<1>9. \A n \in Nat : reach[n] = E(reach, n)
  <2> HIDE DEF E
  <2> QED
    BY <1>8
<1>10. PICK D : Quiet(ch, D, r) /\ Successors(ch, p) \subseteq D
  BY DEF Silent
<1> DEFINE B == {n \in Nat : ~ (reach[n] \subseteq D)}
<1>11. B = {}
  <2> SUFFICES ASSUME B # {} PROVE FALSE
    OBVIOUS
  <2>1. PICK n \in B : \A y \in B : n <= y
    <3>1. B \subseteq Nat
      OBVIOUS
    <3> HIDE DEF B
    <3> QED
      BY <3>1, LeastNumber
  <2>2. n \in Nat /\ ~ (reach[n] \subseteq D)
    BY <2>1
  <2>3. n # 0
    BY <1>9, <1>10, <2>2
  <2>4. n - 1 \in Nat /\ ~ (n <= n - 1)
    BY <2>2, <2>3
  <2>5. n - 1 \notin B
    BY <2>1, <2>4
  <2>6. reach[n - 1] \subseteq D
    BY <2>4, <2>5
  <2>7. grow(reach[n - 1]) \subseteq D
    BY <1>10, <2>6 DEF Quiet
  <2>8. reach[n] = grow(reach[n - 1])
    <3> HIDE DEF grow
    <3> QED
      BY <1>9, <2>2, <2>3
  <2> QED
    BY <2>2, <2>7, <2>8
<1>12. reach[ch.size] \subseteq D
  BY <1>11
<1>13. LiveAfter(ch, p, r) <=> \E q \in reach[ch.size] : r \in Needs(ch.code[q])
  BY DEF LiveAfter, reach
<1> QED
  BY <1>10, <1>12, <1>13 DEF Quiet

(* Where an instruction goes that is no jump.                              *)
LEMMA SuccessorsAre ==
  ASSUME NEW ch, NEW p
  PROVE  /\ ch.code[p].op \notin Jumps => Successors(ch, p) \subseteq {p + Slots(ch.code[p].op)}
         /\ ch.code[p].op \in CondJumps => Successors(ch, p) \subseteq {p + 1, TargetOf(ch, p)}
         /\ ch.code[p].op \in FunctionExits \/ SysTerminator(ch, p) => Successors(ch, p) = {}
         /\ Successors(ch, p) \subseteq 0 .. ch.size - 1
<1>1. ch.code[p].op \in CondJumps => Slots(ch.code[p].op) = 1
  BY DEF CondJumps, Slots, WideOps
<1>2. ch.code[p].op \in FunctionExits \/ SysTerminator(ch, p) =>
        ch.code[p].op \notin Jumps /\ IsInstructionTerminator(ch, p)
  BY DEF FunctionExits, SysTerminator, SyscallOps, Jumps, CondJumps, IsInstructionTerminator, Terminators
<1> QED
  BY <1>1, <1>2 DEF Successors

(* The straight scan finds what no path needs: it stops where two paths    *)
(* begin, and at every place where a path may come in.                     *)
LEMMA ScanIsDead ==
  ASSUME NEW ch, IsCode(ch), NEW T, NEW from \in Nat, NEW reg, IsRegDeadAfter(ch, T, from, reg)
  PROVE  \E D : /\ Quiet(ch, D, reg) /\ {from} \cap (0 .. ch.size - 1) \subseteq D
                /\ \A q \in D : reg \notin Reads(ch.code[q])
<1> DEFINE E(f, p) ==
             IF p >= ch.size THEN TRUE
             ELSE LET i == ch.code[p]
                  IN  CASE p \in T -> FALSE
                        [] p \notin T /\ i.op = "NOP" -> f[p + 1]
                        [] OTHER ->
                             /\ reg \notin Reads(i)
                             /\ \/ reg \in Writes(i)
                                \/ i.op \in FunctionExits
                                \/ SysTerminator(ch, p)
                                \/ i.op \notin Terminators \union CondJumps /\ f[p + Slots(i.op)]
           dead == CHOOSE f : f = [p \in Nat |-> E(f, p)]
           rank == [p \in Nat |-> IF p < ch.size THEN ch.size - p ELSE 0]
           step == [x \in [Nat -> BOOLEAN] \X Nat |-> E(x[1], x[2])]
<1>1. IsRegDeadAfter(ch, T, from, reg) = dead[from]
  BY DEF IsRegDeadAfter
<1>2. ch.size \in Nat /\ \A p \in Nat : Slots(ch.code[p].op) \in {1, 2}
  BY DEF IsCode, Slots
<1>3. rank \in [Nat -> Nat] /\ \A p \in Nat : p < ch.size => rank[p + 1] < rank[p] /\ rank[p + 2] < rank[p]
  BY <1>2
<1>4. step \in [[Nat -> BOOLEAN] \X Nat -> BOOLEAN]
  <2>1. ASSUME NEW f \in [Nat -> BOOLEAN], NEW p \in Nat PROVE E(f, p) \in BOOLEAN
    <3>1. p + 1 \in Nat /\ p + Slots(ch.code[p].op) \in Nat
      BY <1>2
    <3>2. f[p + 1] \in BOOLEAN /\ f[p + Slots(ch.code[p].op)] \in BOOLEAN
      BY <3>1
    <3> QED
      BY <3>2
  <2> HIDE DEF E
  <2> QED
    BY <2>1
<1>5. ASSUME NEW f \in [Nat -> BOOLEAN], NEW g \in [Nat -> BOOLEAN], NEW p \in Nat,
             \A r \in Nat : rank[r] < rank[p] => f[r] = g[r]
      PROVE  E(f, p) = E(g, p)
  <2>1. CASE p >= ch.size
    BY <2>1
  <2>2. CASE ~ (p >= ch.size)
    <3>1. p + 1 \in Nat /\ p + 2 \in Nat /\ p < ch.size
      BY <1>2, <2>2
    <3>2. f[p + 1] = g[p + 1] /\ f[p + 2] = g[p + 2]
      <4> HIDE DEF rank
      <4> QED
        BY <1>3, <1>5, <3>1
    <3>3. f[p + Slots(ch.code[p].op)] = g[p + Slots(ch.code[p].op)]
      BY <1>2, <3>2
    <3> QED
      BY <3>2, <3>3
  <2> QED
    BY <2>1, <2>2
<1>6. Local(BOOLEAN, rank, step)
  <2> SUFFICES ASSUME NEW f \in [Nat -> BOOLEAN], NEW g \in [Nat -> BOOLEAN], NEW p \in Nat,
                      \A r \in Nat : rank[r] < rank[p] => f[r] = g[r]
               PROVE  step[<<f, p>>] = step[<<g, p>>]
    BY DEF Local
  <2>1. E(f, p) = E(g, p)
    BY <1>5
  <2> HIDE DEF E
  <2> QED
    BY <2>1
<1>7. PICK f \in [Nat -> BOOLEAN] : \A p \in Nat : f[p] = step[<<f, p>>]
  <2>1. Stepping(BOOLEAN, rank, step)
    <3>1. BOOLEAN # {} /\ rank \in [Nat -> Nat]
      BY <1>3
    <3> HIDE DEF E, rank, step
    <3> QED
      BY <1>4, <1>6, <3>1 DEF Stepping
  <2> HIDE DEF rank, step
  <2>2. PICK f : Solves(BOOLEAN, step, f)
    BY <2>1, Solvable
  <2> QED
    BY <2>2 DEF Solves
<1>8. f = [p \in Nat |-> E(f, p)]
  <2> HIDE DEF E
  <2> QED
    BY <1>7
<1>9. dead = [p \in Nat |-> E(dead, p)]
  <2> HIDE DEF E
  <2> QED
    BY <1>8
<1> HIDE DEF dead
<1>10. \A p \in Nat : dead[p] <=> E(dead, p)
  <2> HIDE DEF E
  <2> QED
    BY <1>9
<1> DEFINE D == {p \in 0 .. ch.size - 1 : dead[p]}
<1>11. ASSUME NEW q \in D
       PROVE  /\ reg \notin Reads(ch.code[q])
              /\ reg \in Writes(ch.code[q]) \/ Successors(ch, q) \subseteq D
  <2>1. q \in Nat /\ q \in 0 .. ch.size - 1 /\ ~ (q >= ch.size) /\ E(dead, q)
    BY <1>2, <1>10
  <2>2. ASSUME NEW d \in {1, 2}, dead[q + d] PROVE {q + d} \cap (0 .. ch.size - 1) \subseteq D
    BY <2>2
  <2>3. CASE ch.code[q].op = "NOP"
    <3>1. dead[q + 1]
      BY <2>1, <2>3
    <3>2. Reads(ch.code[q]) = {} /\ Slots(ch.code[q].op) = 1 /\ ch.code[q].op \notin Jumps
      BY <2>3 DEF Reads, Slots, WideOps, Jumps, CondJumps
    <3> HIDE DEF D
    <3> QED
      BY <2>2, <3>1, <3>2, SuccessorsAre
  <2>4. CASE ch.code[q].op # "NOP"
    <3>1. /\ reg \notin Reads(ch.code[q])
          /\ \/ reg \in Writes(ch.code[q])
             \/ ch.code[q].op \in FunctionExits
             \/ SysTerminator(ch, q)
             \/ ch.code[q].op \notin Terminators \union CondJumps /\ dead[q + Slots(ch.code[q].op)]
      BY <2>1, <2>4
    <3>2. CASE ch.code[q].op \in FunctionExits \/ SysTerminator(ch, q)
      BY <3>1, <3>2, SuccessorsAre
    <3>3. CASE ch.code[q].op \notin Terminators \union CondJumps /\ dead[q + Slots(ch.code[q].op)]
      <4>1. ch.code[q].op \notin Jumps
        BY <3>3 DEF Jumps, Terminators
      <4> HIDE DEF D
      <4> QED
        BY <1>2, <2>1, <2>2, <3>1, <3>3, <4>1, SuccessorsAre
    <3> QED
      BY <3>1, <3>2, <3>3
  <2> QED
    BY <2>3, <2>4
<1>12. ASSUME NEW q \in D PROVE reg \notin Needs(ch.code[q]) /\ (reg \in Defines(ch.code[q]) \/ Successors(ch, q) \subseteq D)
  <2>1. MovesNothing(ch.code[q]) => Writes(ch.code[q]) = Reads(ch.code[q])
    BY DEF MovesNothing, Writes, Reads, WriteOps, WideOps
  <2> HIDE DEF D
  <2> QED
    BY <1>11, <2>1 DEF Needs, Defines
<1>13. {from} \cap (0 .. ch.size - 1) \subseteq D
  BY <1>1
<1> HIDE DEF D
<1> QED
  BY <1>11, <1>12, <1>13 DEF Quiet

(* Rewriting instructions leaves the ways of the others.                   *)
LEMMA SuccessorsStay ==
  ASSUME NEW ch, NEW new, NEW E, Whole(ch), ch.size \in Nat, new.size = ch.size,
         \A q \in E : ch.code[q].op # "WORD",
         \A q \in 0 .. ch.size - 1 : q \notin E => new.code[q] = ch.code[q],
         NEW p \in 0 .. ch.size - 1, p \notin E
  PROVE  Successors(new, p) = Successors(ch, p)
<1>1. new.code[p] = ch.code[p]
  OBVIOUS
<1>2. ch.code[p].op \in SyscallOps => p + 1 \in 0 .. ch.size - 1 /\ new.code[p + 1] = ch.code[p + 1]
  <2>1. ch.code[p].op \in SyscallOps => p + 1 \in 0 .. ch.size - 1 /\ ch.code[p + 1].op = "WORD"
    BY DEF Whole, SyscallOps, WideOps
  <2> QED
    BY <2>1
<1>3. SysTerminator(new, p) <=> SysTerminator(ch, p)
  BY <1>1, <1>2 DEF SysTerminator
<1>4. TargetOf(new, p) = TargetOf(ch, p) /\ (IsInstructionTerminator(new, p) <=> IsInstructionTerminator(ch, p))
  BY <1>1, <1>3 DEF TargetOf, IsInstructionTerminator
<1> QED
  BY <1>1, <1>4 DEF Successors

(* The instruction at p is rewritten to one that goes no further and needs *)
(* no more: what is dead behind it stays dead.                             *)
LEMMA StaysSilent ==
  ASSUME NEW ch, NEW new, Whole(ch), ch.size \in Nat, new.size = ch.size,
         NEW p \in Ins(ch), \A q \in 0 .. ch.size - 1 : q # p => new.code[q] = ch.code[q],
         Successors(new, p) \subseteq Successors(ch, p), NEW r, r \notin Needs(new.code[p]), Silent(ch, p, r)
  PROVE  Silent(new, p, r)
<1>1. PICK D : Quiet(ch, D, r) /\ Successors(ch, p) \subseteq D
  BY DEF Silent
<1> DEFINE F == D \cap (0 .. ch.size - 1)
<1>2. \A q : Successors(ch, q) \subseteq 0 .. ch.size - 1
  BY SuccessorsAre
<1>3. ASSUME NEW q \in F PROVE r \notin Needs(new.code[q]) /\ (r \in Defines(new.code[q]) \/ Successors(new, q) \subseteq F)
  <2>1. CASE q = p
    BY <1>1, <1>2, <2>1
  <2>2. CASE q # p
    <3>1. new.code[q] = ch.code[q] /\ Successors(new, q) = Successors(ch, q)
      <4>1. q \in 0 .. ch.size - 1 /\ q \notin {p} /\ \A x \in {p} : ch.code[x].op # "WORD"
        BY <2>2 DEF Ins
      <4>2. \A x \in 0 .. ch.size - 1 : x \notin {p} => new.code[x] = ch.code[x]
        OBVIOUS
      <4> HIDE DEF F
      <4> QED
        BY <4>1, <4>2, SuccessorsStay
    <3> QED
      BY <1>1, <1>2, <3>1 DEF Quiet
  <2> QED
    BY <2>1, <2>2
<1>4. Successors(new, p) \subseteq F
  BY <1>1, <1>2
<1> HIDE DEF F
<1> QED
  BY <1>3, <1>4 DEF Silent, Quiet

(* Copy propagation reads the source of the copy in more places, and       *)
(* nothing else.                                                           *)
LEMMA SubstituteLooks ==
  ASSUME NEW i \in Words, NEW old, NEW new \in Int, NEW r, r # new
  PROVE  LET j == SubstituteReadReg(i, old, new)
         IN  /\ r \notin Needs(i) => r \notin Needs(j)
             /\ r \in Defines(i) => r \in Defines(j)
<1> DEFINE j == SubstituteReadReg(i, old, new)
           sub(x) == IF x = old THEN new ELSE x
<1>1. j.op = i.op
  BY SubstituteIs
<1>2. /\ \A a : [i EXCEPT !.a = a].a = a /\ [i EXCEPT !.b = a].b = a
      /\ \A a, b : [i EXCEPT !.a = a, !.b = b].a = a /\ [i EXCEPT !.a = a, !.b = b].b = b
      /\ \A a, b : [i EXCEPT !.b = a, !.c = b].b = a /\ [i EXCEPT !.b = a, !.c = b].c = b
      /\ \A a : [i EXCEPT !.b = a].a = i.a /\ [i EXCEPT !.b = a].c = i.c
      /\ \A a, b : [i EXCEPT !.b = a, !.c = b].a = i.a
      /\ i.a \in Int /\ i.b \in Int /\ i.c \in Int
  BY DEF Words
<1>3. Reads(j) \subseteq Reads(i) \union {new}
  <2>1. CASE i.op \in WideOps
    <3>1. Reads(i) = i.b .. (i.b + i.c - 1) /\ Reads(j) = j.b .. (j.b + j.c - 1)
      BY <1>1, <2>1 DEF Reads, WideOps
    <3>2. CASE i.c = 1
      <4>1. j = [i EXCEPT !.b = sub(i.b)]
        BY <2>1, <3>2 DEF SubstituteReadReg, Words, WideOps
      <4>2. j.b = sub(i.b) /\ j.c = 1
        BY <1>2, <3>2, <4>1
      <4>3. Reads(i) = {i.b} /\ Reads(j) = {sub(i.b)}
        <5>1. sub(i.b) \in Int
          BY <1>2
        <5> HIDE DEF sub, j
        <5> QED
          BY <1>2, <3>1, <3>2, <4>2, <5>1
      <4> QED
        BY <4>3
    <3>3. CASE i.c # 1
      <4>1. j = i
        BY <2>1, <3>3 DEF SubstituteReadReg, Words, WideOps
      <4> QED
        BY <4>1
    <3> QED
      BY <3>2, <3>3
  <2>2. CASE i.op \in {"RET", "JUMP_IF_TRUE", "JUMP_IF_FALSE", "JUMP_CMP_IMM", "STORE_GLOBAL"}
    <3>1. j = [i EXCEPT !.a = sub(i.a)]
      BY <2>2 DEF SubstituteReadReg, Words, WideOps
    <3>2. j.a = sub(i.a)
      BY <1>2, <3>1
    <3> HIDE DEF j
    <3> QED
      BY <1>1, <2>2, <3>2 DEF Reads, WideOps
  <2>3. CASE i.op = "JUMP_CMP"
    <3>1. j = [i EXCEPT !.a = sub(i.a), !.b = sub(i.b)]
      BY <2>3 DEF SubstituteReadReg, Words, WideOps
    <3>2. j.a = sub(i.a) /\ j.b = sub(i.b)
      BY <1>2, <3>1
    <3> HIDE DEF j
    <3> QED
      BY <1>1, <2>3, <3>2 DEF Reads, WideOps
  <2>4. CASE i.op \in {"MOVE", "UNARY", "ALU_IMM"}
    <3>1. j = [i EXCEPT !.b = sub(i.b)]
      BY <2>4 DEF SubstituteReadReg, Words, WideOps
    <3>2. j.b = sub(i.b)
      BY <1>2, <3>1
    <3> HIDE DEF j
    <3> QED
      BY <1>1, <2>4, <3>2 DEF Reads, WideOps
  <2>5. CASE i.op = "ALU"
    <3>1. j = [i EXCEPT !.b = sub(i.b), !.c = sub(i.c)]
      BY <2>5 DEF SubstituteReadReg, Words, WideOps
    <3>2. j.b = sub(i.b) /\ j.c = sub(i.c)
      BY <1>2, <3>1
    <3> HIDE DEF j
    <3> QED
      BY <1>1, <2>5, <3>2 DEF Reads, WideOps
  <2>6. ASSUME i.op \notin WideOps \union {"RET", "JUMP_IF_TRUE", "JUMP_IF_FALSE", "JUMP_CMP_IMM", "STORE_GLOBAL",
                                        "JUMP_CMP", "MOVE", "UNARY", "ALU_IMM", "ALU"}
        PROVE  j = i
    BY <2>6 DEF SubstituteReadReg, WideOps
  <2> QED
    BY <2>1, <2>2, <2>3, <2>4, <2>5, <2>6
<1>4. i.op \in WriteOps => j.a = i.a
  <2>1. CASE i.op \in WideOps
    <3>1. j = IF i.c = 1 THEN [i EXCEPT !.b = sub(i.b)] ELSE i
      BY <2>1 DEF SubstituteReadReg, Words, WideOps
    <3> QED
      BY <1>2, <3>1
  <2>2. CASE i.op \in {"MOVE", "UNARY", "ALU_IMM"}
    <3>1. j = [i EXCEPT !.b = sub(i.b)]
      BY <2>2 DEF SubstituteReadReg, Words, WideOps
    <3> QED
      BY <1>2, <3>1
  <2>3. CASE i.op = "ALU"
    <3>1. j = [i EXCEPT !.b = sub(i.b), !.c = sub(i.c)]
      BY <2>3 DEF SubstituteReadReg, Words, WideOps
    <3> QED
      BY <1>2, <3>1
  <2>4. CASE i.op \in {"LOAD_IMM", "LOAD_CONST", "LOAD_STR", "LOAD_GLOBAL"}
    <3>1. j = i
      BY <2>4 DEF SubstituteReadReg, Words, WideOps
    <3> QED
      BY <3>1
  <2> QED
    BY <2>1, <2>2, <2>3, <2>4 DEF WriteOps, WideOps
<1>5. Writes(j) = Writes(i)
  <2> HIDE DEF j
  <2> QED
    BY <1>1, <1>4 DEF Writes
<1>6. i.op = "MOVE" => /\ Reads(i) = {i.b} /\ Writes(i) = {i.a} /\ j.a = i.a /\ j.b = sub(i.b)
                       /\ Reads(j) = {j.b} /\ Writes(j) = {j.a}
  <2>1. ASSUME i.op = "MOVE" PROVE j = [i EXCEPT !.b = sub(i.b)]
    BY <2>1 DEF SubstituteReadReg, Words, WideOps
  <2>2. ASSUME i.op = "MOVE" PROVE j.a = i.a /\ j.b = sub(i.b)
    <3>1. j = [i EXCEPT !.b = sub(i.b)]
      BY <2>1, <2>2
    <3> QED
      BY <1>2, <3>1
  <2> HIDE DEF j, sub
  <2> QED
    BY <1>1, <2>2 DEF Reads, Writes, WriteOps, WideOps
<1>7. ASSUME r \notin Needs(i) PROVE r \notin Needs(j)
  <2> HIDE DEF j
  <2> QED
    BY <1>1, <1>3, <1>6, <1>7 DEF Needs, MovesNothing
<1>8. ASSUME r \in Defines(i) PROVE r \in Defines(j)
  <2> HIDE DEF j
  <2> QED
    BY <1>1, <1>5, <1>6, <1>8 DEF Defines, MovesNothing
<1> QED
  BY <1>7, <1>8

LEMMA CopySilent ==
  ASSUME NEW ch, Sound(ch), NEW T, NEW p \in Ins(ch), NEW r, r # ch.code[p].b, Silent(ch, p, r)
  PROVE  Silent(PropagateCopy(ch, T, p), p, r)
<1> DEFINE R      == CopyRange(ch, T, p)
           sub(i) == SubstituteReadReg(i, ch.code[p].a, ch.code[p].b)
           new    == PropagateCopy(ch, T, p)
<1>1. IsCode(ch) /\ Whole(ch) /\ ch.size \in Nat /\ p \in 0 .. ch.size - 1
  BY DEF Sound, IsCode, Ins
<1>2. /\ new.size = ch.size
      /\ new.code = [q \in 0 .. ch.size - 1 |-> IF q \in R THEN sub(ch.code[q]) ELSE ch.code[q]]
  BY <1>1 DEF PropagateCopy, IsCode
<1>3. ch.code[p].b \in Int
  BY <1>1, WordIs
<1>4. ASSUME NEW q \in 0 .. ch.size - 1
      PROVE  /\ new.code[q].op = ch.code[q].op /\ new.code[q].fn = ch.code[q].fn
             /\ ch.code[q].op \in Jumps => JumpOffset(new.code[q]) = JumpOffset(ch.code[q])
             /\ r \notin Needs(ch.code[q]) => r \notin Needs(new.code[q])
             /\ r \in Defines(ch.code[q]) => r \in Defines(new.code[q])
  <2>1. ch.code[q] \in Words
    BY <1>1, WordIs
  <2>2. new.code[q] \in {sub(ch.code[q]), ch.code[q]}
    BY <1>2
  <2> HIDE DEF new
  <2> QED
    BY <1>3, <2>1, <2>2, SubstituteIs, SubstituteLooks
<1> HIDE DEF new, R, sub
<1>5. ASSUME NEW q \in 0 .. ch.size - 1 PROVE Successors(new, q) = Successors(ch, q)
  <2>1. ch.code[q].op \in SyscallOps => p + 1 \in Int /\ (q + 1 < ch.size => q + 1 \in 0 .. ch.size - 1)
    BY <1>1
  <2>2. SysTerminator(new, q) <=> SysTerminator(ch, q)
    <3>1. q + 1 < ch.size => new.code[q + 1].fn = ch.code[q + 1].fn
      BY <1>1, <1>4
    <3> QED
      BY <1>2, <1>4, <3>1 DEF SysTerminator
  <2>3. ch.code[q].op \in Jumps => TargetOf(new, q) = TargetOf(ch, q)
    BY <1>4 DEF TargetOf, JumpTarget
  <2>4. IsInstructionTerminator(new, q) <=> IsInstructionTerminator(ch, q)
    BY <1>4, <2>2 DEF IsInstructionTerminator
  <2> QED
    BY <1>2, <1>4, <2>3, <2>4 DEF Successors
<1>6. PICK D : Quiet(ch, D, r) /\ Successors(ch, p) \subseteq D
  BY DEF Silent
<1> DEFINE F == D \cap (0 .. ch.size - 1)
<1>7. \A q : Successors(ch, q) \subseteq 0 .. ch.size - 1
  BY SuccessorsAre
<1>8. ASSUME NEW q \in F PROVE r \notin Needs(new.code[q]) /\ (r \in Defines(new.code[q]) \/ Successors(new, q) \subseteq F)
  BY <1>4, <1>5, <1>6, <1>7 DEF Quiet
<1>9. Successors(new, p) \subseteq F
  BY <1>1, <1>5, <1>6, <1>7
<1> HIDE DEF F
<1>10. Silent(new, p, r)
  BY <1>8, <1>9 DEF Silent, Quiet
<1> QED
  BY <1>10 DEF new

(* Rule 4 moves the result elsewhere: the register it was in is dead, on   *)
(* the way to the MOVE and behind it.                                      *)
LEMMA ForwardSilent ==
  ASSUME NEW ch, NEW T, Sound(ch), NEW p \in Ins(ch), ForwardDefToMove(ch, T, p) # ch
  PROVE  /\ ch.code[p].a \notin Reads(ch.code[p]) => Silent(ForwardDefToMove(ch, T, p), p, ch.code[p].a)
         /\ p + Slots(ch.code[p].op) < ch.size
         /\ ForwardDefToMove(ch, T, p).code[p + Slots(ch.code[p].op)].op \notin CondJumps
         /\ LET j == ForwardDefToMove(ch, T, p).code[p]
            IN  j.op = ch.code[p].op /\ j.b = ch.code[p].b /\ j.c = ch.code[p].c
<1> DEFINE i     == ch.code[p]
           tmp   == i.a
           m     == TheMove(ch, T, p)
           final == ch.code[m].a
           j     == [i EXCEPT !.a = final]
           mid   == Write(ch, p, j)
           new   == Erase(mid, m)
<1>1. IsCode(ch) /\ Whole(ch) /\ p \in 0 .. ch.size - 1 /\ p \in Nat /\ ch.size \in Nat
  BY DEF Sound, IsCode, Ins
<1>2. /\ ForwardDefToMove(ch, T, p) = new
      /\ i.op \in WriteOps /\ m < ch.size /\ IsRegDeadAfter(ch, T, m + 1, tmp)
  BY DEF ForwardDefToMove
<1>3. PICK F : m \in p + 1 .. ch.size - 1 /\ ch.code[m].op = "MOVE" /\ OnTheWay(ch, p, tmp, m, F)
  <2> HIDE DEF m
  <2>1. m < ch.size
    BY <1>2
  <2> QED
    BY <1>1, <2>1, TheMoveIs DEF m
<1> HIDE DEF m
<1>4. m \in Ins(ch) /\ m # p /\ m \in 0 .. ch.size - 1 /\ m + 1 \in Nat
  BY <1>1, <1>3 DEF Ins
<1>5. PICK D : /\ Quiet(ch, D, tmp) /\ {m + 1} \cap (0 .. ch.size - 1) \subseteq D
               /\ \A q \in D : tmp \notin Reads(ch.code[q])
  BY <1>1, <1>2, <1>4, ScanIsDead
(* The code after it.                                                      *)
<1>6. /\ mid.size = ch.size /\ mid.code[p] = j
      /\ \A q \in 0 .. ch.size - 1 : q # p => mid.code[q] = ch.code[q]
  BY <1>1, WriteIs
<1>7. DOMAIN mid.code = 0 .. ch.size - 1
  BY <1>1 DEF Write, IsCode
<1>8. mid.code[m] = ch.code[m] /\ Slots(mid.code[m].op) = 1
  BY <1>3, <1>4, <1>6 DEF Slots, WideOps
<1> HIDE DEF mid
<1>9. /\ new.size = ch.size /\ new.code[m] = Nop /\ new.code[p] = j
      /\ \A q \in 0 .. ch.size - 1 : q \notin {p, m} => new.code[q] = ch.code[q]
  <2>1. \A q \in 0 .. ch.size - 1 : new.code[q] = IF q \in m .. m + Slots(mid.code[m].op) - 1 THEN Nop ELSE mid.code[q]
    BY <1>7 DEF Erase
  <2>2. \A q \in 0 .. ch.size - 1 : q \in m .. m + Slots(mid.code[m].op) - 1 <=> q = m
    BY <1>4, <1>8
  <2>3. new.size = ch.size
    BY <1>6 DEF Erase
  <2> HIDE DEF new
  <2> QED
    BY <1>1, <1>4, <1>6, <2>1, <2>2, <2>3
<1> HIDE DEF new
<1>10. \A q \in 0 .. ch.size - 1 : q \notin {p, m} => Successors(new, q) = Successors(ch, q)
  <2>1. (\A q \in {p, m} : ch.code[q].op # "WORD") /\ Whole(ch) /\ ch.size \in Nat /\ new.size = ch.size
    BY <1>1, <1>4, <1>9 DEF Ins
  <2>2. \A q \in 0 .. ch.size - 1 : q \notin {p, m} => new.code[q] = ch.code[q]
    BY <1>9
  <2> SUFFICES ASSUME NEW q \in 0 .. ch.size - 1, q \notin {p, m} PROVE Successors(new, q) = Successors(ch, q)
    OBVIOUS
  <2> QED
    BY <2>1, <2>2, SuccessorsStay
<1>11. i \in Words /\ j.op = i.op /\ j.a = final /\ j.b = i.b /\ j.c = i.c /\ i.op \notin Jumps
  <2>1. i \in Words
    BY <1>1, WordIs
  <2> QED
    BY <1>2, <2>1 DEF Words, WriteOps, Jumps, CondJumps
<1>12. Successors(new, p) \subseteq F /\ {p + Slots(i.op)} \subseteq F /\ F \subseteq 0 .. ch.size - 1
  <2>1. F \subseteq p + 1 .. ch.size - 1 /\ p + Slots(i.op) \in F
    BY <1>3 DEF OnTheWay
  <2>2. F \subseteq 0 .. ch.size - 1
    BY <1>1, <2>1
  <2>3. Successors(new, p) \subseteq {p + Slots(i.op)}
    BY <1>9, <1>11, SuccessorsAre
  <2> QED
    BY <2>1, <2>2, <2>3
<1>13. Successors(new, m) \subseteq D
  <2>1. new.code[m].op \notin Jumps /\ Slots(new.code[m].op) = 1
    BY <1>9 DEF Nop, Inst, Jumps, CondJumps, Slots, WideOps
  <2> QED
    BY <1>5, <1>9, <2>1, SuccessorsAre
<1>14. ASSUME tmp \notin Reads(i) PROVE Silent(new, p, tmp)
  <2> DEFINE G == F \union (D \cap (0 .. ch.size - 1))
  <2>1. \A q : Successors(new, q) \subseteq 0 .. ch.size - 1
    BY <1>9, SuccessorsAre
  <2>2. Needs(new.code[m]) = {}
    BY <1>9 DEF Needs, Nop, Inst, Reads, WideOps
  <2>3. tmp \notin Needs(new.code[p])
    <3>1. Reads(j) = Reads(i)
      BY <1>2, <1>11 DEF Reads, WriteOps, WideOps
    <3> QED
      BY <1>9, <1>14, <3>1 DEF Needs
  <2>4. ASSUME NEW q \in G, q \notin {p, m}
        PROVE  tmp \notin Needs(new.code[q]) /\ (tmp \in Defines(new.code[q]) \/ Successors(new, q) \subseteq G)
    <3>1. q \in 0 .. ch.size - 1
      BY <1>12
    <3>2. new.code[q] = ch.code[q] /\ Successors(new, q) = Successors(ch, q)
      BY <1>9, <1>10, <2>4, <3>1
    <3>3. CASE q \in F
      <4>1. q + Slots(ch.code[q].op) \in F /\ ~ EndsBlock(ch, q) /\ tmp \notin Needs(ch.code[q])
        BY <1>3, <2>4, <3>3 DEF OnTheWay
      <4>2. ch.code[q].op \notin Jumps
        BY <4>1 DEF EndsBlock, IsInstructionTerminator, Jumps, Terminators
      <4> QED
        BY <3>2, <4>1, <4>2, SuccessorsAre
    <3>4. CASE q \in D
      BY <1>5, <2>1, <3>2, <3>4 DEF Quiet
    <3> QED
      BY <3>3, <3>4
  <2>5. \A q \in G : tmp \notin Needs(new.code[q]) /\ (tmp \in Defines(new.code[q]) \/ Successors(new, q) \subseteq G)
    BY <1>12, <1>13, <2>1, <2>2, <2>3, <2>4
  <2>6. Successors(new, p) \subseteq G
    BY <1>12
  <2> HIDE DEF G
  <2> QED
    BY <2>5, <2>6 DEF Silent, Quiet
<1>15. new.code[p + Slots(i.op)].op \notin CondJumps /\ p + Slots(i.op) < ch.size
  <2> DEFINE n == p + Slots(i.op)
  <2>1. n \in F /\ n \in p + 1 .. ch.size - 1 /\ n # p /\ n \in 0 .. ch.size - 1 /\ n < ch.size
    <3>1. F \subseteq p + 1 .. ch.size - 1 /\ n \in F
      BY <1>3 DEF OnTheWay
    <3> HIDE DEF n
    <3> QED
      BY <1>1, <3>1
  <2> HIDE DEF n
  <2>2. CASE n = m
    BY <1>9, <2>1, <2>2 DEF Nop, Inst, CondJumps, n
  <2>3. CASE n # m
    <3>1. ~ EndsBlock(ch, n) /\ new.code[n] = ch.code[n]
      BY <1>3, <1>9, <2>1, <2>3 DEF OnTheWay
    <3> QED
      BY <2>1, <3>1 DEF EndsBlock, n
  <2> QED
    BY <2>2, <2>3
<1> HIDE DEF j
<1> QED
  BY <1>2, <1>9, <1>11, <1>14, <1>15
-----------------------------------------------------------------------------
(* A comparison that is fused with the jump on its result is dropped when  *)
(* its register is dead on the way that falls through (rules 8 and 11):    *)
(* what the scan does not look at is the way the jump takes.               *)
TakenUnread ==
  FuseTestOfZero \/ FuseBranch =>
    \A r \in Writes(work.code[pos]) \ Writes(work'.code[pos]) : Unread(work', TargetOf(work, pos + 1), r)

LEMMA NowIs ==
  ASSUME IInv, Open, Op \in WriteOps
  PROVE  /\ Now = ForwardDefToMove(work, targets, pos) /\ Sound(work) /\ pos \in Ins(work)
         /\ pos \in 0 .. work.size - 1 /\ pos \in Nat /\ work.size \in Nat /\ work.code[pos] \in Words
         /\ Writes(work.code[pos]) = {work.code[pos].a} /\ work.code[pos].op = Op
<1>1. Sound(work) /\ phase = "peephole" /\ pos \in Nat /\ pos < work.size /\ IsCode(work) /\ work.size \in Nat
  BY DEF IInv, Open, Peephole, IsCode
<1>2. pos \in 0 .. work.size - 1
  BY <1>1
<1>3. pos \in Ins(work)
  BY <1>1, <1>2 DEF IInv, Open, Op, Ins
<1>4. work.code[pos].op \notin CondJumps \union {"JUMP_IF_FALSE"}
  BY DEF Op, WriteOps, CondJumps
<1>5. SkipFalseTest(work, pos) = work
  BY <1>4 DEF SkipFalseTest
<1>6. ChainConditional(work, pos) = work
  BY <1>4 DEF ChainConditional
<1> QED
  BY <1>1, <1>2, <1>3, <1>5, <1>6, WordIs DEF Now, Forwarded, Writes, Op

(* new differs from old in the instructions that begin in E.               *)
Differs(old, new, E) ==
  /\ Whole(old) /\ old.size \in Nat /\ new.size = old.size
  /\ \A q \in E : old.code[q].op # "WORD"
  /\ \A q \in 0 .. old.size - 1 : q \notin E => new.code[q] = old.code[q]

Joined(ch, D, H, F) == (D \union H \union F) \cap (0 .. ch.size - 1)

(* The way that falls through was scanned in the old code, the way taken   *)
(* is unread in the new one, and F leads into both.                        *)
LEMMA BothWays ==
  ASSUME NEW old, NEW new, NEW E, Differs(old, new, E), NEW r,
         NEW D, Quiet(old, D, r), NEW H, Quiet(new, H, r), NEW F, E \subseteq F,
         \A q \in F : r \notin Needs(new.code[q]) /\ Successors(new, q) \subseteq Joined(old, D, H, F)
  PROVE  Quiet(new, Joined(old, D, H, F), r)
<1>1. \A q : Successors(new, q) \subseteq 0 .. old.size - 1
  BY SuccessorsAre DEF Differs
<1>2. \A q \in 0 .. old.size - 1 : q \notin E => new.code[q] = old.code[q] /\ Successors(new, q) = Successors(old, q)
  <2> SUFFICES ASSUME NEW q \in 0 .. old.size - 1, q \notin E PROVE Successors(new, q) = Successors(old, q)
    BY DEF Differs
  <2> QED
    BY SuccessorsStay DEF Differs
<1> DEFINE G == Joined(old, D, H, F)
<1>3. G = (D \union H \union F) \cap (0 .. old.size - 1)
  BY DEF Joined
<1> HIDE DEF G
<1>4. ASSUME NEW q \in G
      PROVE  r \notin Needs(new.code[q]) /\ (r \in Defines(new.code[q]) \/ Successors(new, q) \subseteq G)
  <2>1. CASE q \in F
    BY <2>1 DEF G
  <2>2. CASE q \in H
    BY <1>1, <1>3, <2>2 DEF Quiet
  <2>3. CASE q \in D /\ q \notin F
    BY <1>1, <1>2, <1>3, <1>4, <2>3 DEF Quiet
  <2> QED
    BY <1>3, <1>4, <2>1, <2>2, <2>3
<1>5. Quiet(new, G, r)
  BY <1>4 DEF Quiet
<1> QED
  BY <1>5 DEF G

(* The words at t, if any, do not need r.                                  *)
LEMMA UnreadIs ==
  ASSUME NEW ch, NEW t, NEW r, Unread(ch, t, r)
  PROVE  \E H : Quiet(ch, H, r) /\ {t} \cap (0 .. ch.size - 1) \subseteq H
<1>1. CASE t \in 0 .. ch.size - 1
  BY <1>1 DEF Unread
<1>2. CASE t \notin 0 .. ch.size - 1
  <2>1. Quiet(ch, {}, r) /\ {t} \cap (0 .. ch.size - 1) \subseteq {}
    BY <1>2 DEF Quiet
  <2> QED
    BY <2>1
<1> QED
  BY <1>1, <1>2

(* A short instruction is dropped, or rewritten.                           *)
LEMMA EraseIs ==
  ASSUME NEW ch, IsCode(ch), NEW p \in 0 .. ch.size - 1, ch.code[p].op \notin WideOps
  PROVE  /\ Erase(ch, p).size = ch.size /\ Erase(ch, p).code[p] = Nop
         /\ \A q \in 0 .. ch.size - 1 : q # p => Erase(ch, p).code[q] = ch.code[q]
<1>1. DOMAIN ch.code = 0 .. ch.size - 1 /\ ch.size \in Nat /\ Slots(ch.code[p].op) = 1
  BY DEF IsCode, Slots
<1>2. p .. p + Slots(ch.code[p].op) - 1 = {p}
  BY <1>1
<1> QED
  BY <1>1, <1>2 DEF Erase

LEMMA NopIs ==
  /\ Reads(Nop) = {} /\ Writes(Nop) = {} /\ Needs(Nop) = {}
  /\ Slots(Nop.op) = 1 /\ Nop.op \notin Jumps /\ Nop.op = "NOP"
BY DEF Nop, Inst, Reads, Writes, WriteOps, WideOps, Needs, Slots, Jumps, CondJumps

(* The instruction at p falls through, and so does what replaces it.       *)
LEMMA ReplacedSilent ==
  ASSUME NEW ch, NEW new, Sound(ch), new.size = ch.size, NEW p \in Ins(ch),
         ch.code[p].op \in {"MOVE", "ALU", "ALU_IMM"}, new.code[p].op \notin Jumps \union WideOps,
         \A q \in 0 .. ch.size - 1 : q # p => new.code[q] = ch.code[q],
         NEW r, r \notin Needs(new.code[p]), Silent(ch, p, r)
  PROVE  Silent(new, p, r)
<1>1. Whole(ch) /\ ch.size \in Nat
  BY DEF Sound, IsCode
<1>2. Successors(new, p) \subseteq Successors(ch, p)
  <2>1. Successors(new, p) \subseteq {p + 1} \cap (0 .. ch.size - 1)
    BY SuccessorsAre DEF Slots
  <2>2. ~ IsInstructionTerminator(ch, p) /\ Slots(ch.code[p].op) = 1
    BY DEF IsInstructionTerminator, SysTerminator, SyscallOps, Terminators, Slots, WideOps
  <2>3. Successors(ch, p) = {p + 1} \cap (0 .. ch.size - 1)
    BY <2>2 DEF Successors, Jumps, CondJumps
  <2> QED
    BY <2>1, <2>3
<1> QED
  BY <1>1, <1>2, StaysSilent

(* What a rule takes from an instruction that writes a register is what    *)
(* rule 4 moved elsewhere, or what its own scan found dead.                *)
Taken(r) == r \in Writes(work.code[pos]) \ (Reads(work.code[pos]) \union Writes(work'.code[pos]))

LEMMA TakenIs ==
  ASSUME IInv, Open, NEW r \in Writes(work.code[pos]) \ Reads(work.code[pos])
  PROVE  /\ Op \in WriteOps /\ r = work.code[pos].a
         /\ Sound(Now) /\ IsCode(Now) /\ Whole(Now) /\ Now.size \in Nat /\ pos \in Ins(Now)
         /\ pos \in 0 .. Now.size - 1 /\ pos \in Nat /\ Now.code[pos] \in Words /\ Now.code[pos].op = Op
         /\ Reads(Now.code[pos]) = Reads(work.code[pos])
         /\ \/ Now = work
            \/ /\ Silent(Now, pos, r)
               /\ Slots(Op) = 1 => ~ TestsResult(Now, targets, pos)
<1>1. Op \in WriteOps /\ r = work.code[pos].a
  BY DEF Writes, Op
<1>2. /\ Now = ForwardDefToMove(work, targets, pos) /\ Sound(work) /\ pos \in Ins(work)
      /\ pos \in 0 .. work.size - 1 /\ pos \in Nat /\ work.size \in Nat /\ work.code[pos] \in Words
  BY <1>1, NowIs
<1>3. Sound(Now) /\ pos \in Ins(Now) /\ Now.code[pos].op = Op
  BY OpenIs
<1>4. /\ IsCode(Now) /\ Whole(Now) /\ Now.size \in Nat /\ pos \in 0 .. Now.size - 1
  BY <1>3 DEF Sound, IsCode, Ins
<1>5. Now.code[pos] \in Words
  BY <1>4, WordIs
<1>6. CASE Now = work
  BY <1>1, <1>2, <1>3, <1>4, <1>5, <1>6
<1>7. CASE Now # work
  <2>1. /\ Silent(Now, pos, r)
        /\ Now.code[pos + Slots(Op)].op \notin CondJumps
        /\ Now.code[pos].op = work.code[pos].op /\ Now.code[pos].b = work.code[pos].b
        /\ Now.code[pos].c = work.code[pos].c
    <3> DEFINE new == ForwardDefToMove(work, targets, pos)
    <3>1. Sound(work) /\ pos \in Ins(work) /\ new # work
      BY <1>2, <1>7
    <3>2. /\ work.code[pos].a \notin Reads(work.code[pos]) => Silent(new, pos, work.code[pos].a)
          /\ new.code[pos + Slots(work.code[pos].op)].op \notin CondJumps
          /\ new.code[pos].op = work.code[pos].op /\ new.code[pos].b = work.code[pos].b
          /\ new.code[pos].c = work.code[pos].c
      BY <3>1, ForwardSilent
    <3>3. new = Now
      BY <1>2
    <3> HIDE DEF new
    <3> QED
      BY <1>1, <3>2, <3>3 DEF Op
  <2>2. Slots(Op) = 1 => ~ TestsResult(Now, targets, pos)
    BY <2>1 DEF TestsResult, CondJumps
  <2>3. Reads(Now.code[pos]) = Reads(work.code[pos])
    BY <1>1, <2>1 DEF Reads, WriteOps, WideOps, Op
  <2> QED
    BY <1>1, <1>2, <1>3, <1>4, <1>5, <2>1, <2>2, <2>3
<1> QED
  BY <1>6, <1>7

LEMMA TailDropsDead ==
  ASSUME IInv, MakeTailCall, NEW r, Taken(r)
  PROVE  Silent(work', pos, r)
<1>1. /\ Now.code[pos].op \in WideOps /\ pos + 2 < Now.size
      /\ work' = Erase(Write(Now, pos, [Now.code[pos] EXCEPT !.op = "TAILCALL", !.a = 0]), pos + 2)
  BY DEF MakeTailCall, TailCallAt, Rewrite, WideOps
<1>2. IsCode(Now) /\ pos \in 0 .. Now.size - 1 /\ Now.code[pos] \in Words /\ Now.size \in Nat /\ pos \in Nat
  BY TakenIs DEF MakeTailCall, Taken
<1> DEFINE mid == Write(Now, pos, [Now.code[pos] EXCEPT !.op = "TAILCALL", !.a = 0])
<1>3. mid.code[pos].op = "TAILCALL" /\ DOMAIN mid.code = 0 .. Now.size - 1
  BY <1>2 DEF Write, IsCode, Words
<1> HIDE DEF mid
<1>4. work'.code[pos] = mid.code[pos]
  <2>1. work' = Erase(mid, pos + 2)
    BY <1>1 DEF mid
  <2>2. pos \notin pos + 2 .. pos + 2 + Slots(mid.code[pos + 2].op) - 1
    BY <1>2
  <2> QED
    BY <1>2, <1>3, <2>1, <2>2 DEF Erase
<1>5. Successors(work', pos) = {}
  BY <1>3, <1>4, SuccessorsAre DEF FunctionExits
<1> QED
  BY <1>5 DEF Silent, Quiet

LEMMA ZeroTestDropsDead ==
  ASSUME IInv, FuseTestOfZero, TakenUnread, NEW r, Taken(r)
  PROVE  Silent(work', pos, r)
<1> DEFINE i     == Now.code[pos]
           jump  == Now.code[pos + 1]
           fused == [jump EXCEPT !.op = IF i.fn = "EQ" THEN Opposite(@) ELSE @, !.a = i.b]
           mid   == Write(Now, pos + 1, fused)
           t     == TargetOf(work, pos + 1)
<1>1. Open /\ TestsZero(Now, targets, pos) /\ work' = FuseZeroTest(Now, targets, pos)
  BY DEF FuseTestOfZero, Rewrite
<1>2. /\ i.op = "ALU_IMM" /\ pos + 1 < Now.size /\ jump.op \in {"JUMP_IF_TRUE", "JUMP_IF_FALSE"}
      /\ TestsResult(Now, targets, pos)
  BY <1>1 DEF TestsZero, TestsResult
<1>3. /\ r = work.code[pos].a /\ IsCode(Now) /\ Whole(Now) /\ Now.size \in Nat
      /\ pos \in 0 .. Now.size - 1 /\ pos \in Nat /\ i \in Words /\ Now = work
      /\ r \notin Reads(i) /\ r \in Writes(i)
  <2>1. r \in Writes(work.code[pos]) \ Reads(work.code[pos])
    BY DEF Taken
  <2>2. i.op = "ALU_IMM" => Slots(Op) = 1
    BY <1>1, OpenIs DEF Slots, WideOps
  <2> QED
    BY <1>1, <1>2, <2>1, <2>2, TakenIs
<1>4. r # i.b /\ Reads(i) = {i.b} /\ i.op \notin WideOps /\ i.op # "WORD"
  BY <1>2, <1>3 DEF Reads, WideOps
<1>5. pos + 1 \in 0 .. Now.size - 1 /\ pos + 2 \in Nat /\ jump \in Words
  <2>1. pos + 1 \in 0 .. Now.size - 1 /\ pos + 2 \in Nat
    BY <1>2, <1>3
  <2> QED
    BY <1>3, <2>1, WordIs
<1>6. fused.op \in {"JUMP_IF_TRUE", "JUMP_IF_FALSE"} /\ fused.b = jump.b /\ fused.a = i.b
  BY <1>2, <1>5 DEF Opposite, Words
<1> HIDE DEF fused
<1>7. /\ mid.size = Now.size /\ mid.code[pos + 1] = fused
      /\ \A q \in 0 .. Now.size - 1 : q # pos + 1 => mid.code[q] = Now.code[q]
  BY <1>3, <1>5, WriteIs
<1>8. IsCode(mid)
  <2>1. fused \in Words
    <3>1. \A o \in Ops, a \in Int : [jump EXCEPT !.op = o, !.a = a] \in Words
      BY <1>5 DEF Words
    <3>2. i.b \in Int
      BY <1>3 DEF Words
    <3> DEFINE o == IF i.fn = "EQ" THEN Opposite(jump.op) ELSE jump.op
    <3>3. fused = [jump EXCEPT !.op = o, !.a = i.b]
      BY <1>5 DEF Words, fused
    <3>4. o \in Ops
      BY <1>2 DEF Opposite, Ops
    <3> HIDE DEF o
    <3> QED
      BY <3>1, <3>2, <3>3, <3>4
  <2>2. mid.code \in [0 .. Now.size - 1 -> Words] /\ DOMAIN mid = DOMAIN Now /\ mid.fn = Now.fn
    BY <1>3, <1>5, <2>1 DEF Write, IsCode
  <2> QED
    BY <1>3, <1>7, <2>2 DEF IsCode
<1>9. mid.code[pos] = i /\ pos \in 0 .. mid.size - 1
  BY <1>3, <1>7
<1>10. work' = IF IsRegDeadAfter(mid, targets, pos + 2, i.a) THEN Erase(mid, pos) ELSE mid
  BY <1>1 DEF FuseZeroTest, mid, fused
<1> HIDE DEF mid
<1>11. IsRegDeadAfter(mid, targets, pos + 2, r) /\ work' = Erase(mid, pos)
  BY <1>3, <1>9, <1>10 DEF Taken
<1>12. /\ work'.size = mid.size /\ work'.code[pos] = Nop
       /\ \A q \in 0 .. mid.size - 1 : q # pos => work'.code[q] = mid.code[q]
  BY <1>4, <1>8, <1>9, <1>11, EraseIs
<1>13. PICK D : Quiet(mid, D, r) /\ {pos + 2} \cap (0 .. mid.size - 1) \subseteq D
  BY <1>5, <1>8, <1>11, ScanIsDead
<1>14. PICK H : Quiet(work', H, r) /\ {t} \cap (0 .. mid.size - 1) \subseteq H
  <2>1. Unread(work', t, r)
    BY DEF TakenUnread, Taken
  <2> HIDE DEF t
  <2> QED
    BY <1>12, <2>1, UnreadIs
<1>15. Whole(mid)
  <2>1. \A q \in 0 .. Now.size - 1 : mid.code[q].op \in WideOps <=> Now.code[q].op \in WideOps
    BY <1>2, <1>6, <1>7 DEF WideOps
  <2>2. \A q \in 0 .. Now.size - 1 : mid.code[q].op = "WORD" <=> Now.code[q].op = "WORD"
    BY <1>2, <1>6, <1>7
  <2>3. \A q \in 0 .. Now.size - 1 : (q + 1 < Now.size => q + 1 \in 0 .. Now.size - 1)
                                    /\ (q > 0 => q - 1 \in 0 .. Now.size - 1)
    BY <1>3
  <2> QED
    BY <1>3, <1>7, <2>1, <2>2, <2>3 DEF Whole
<1>16. work'.code[pos + 1] = fused /\ pos + 1 # pos
  BY <1>3, <1>5, <1>7, <1>12
<1>17. Successors(work', pos) \subseteq {pos + 1} /\ r \notin Needs(work'.code[pos])
  BY <1>12, NopIs, SuccessorsAre
<1>18. r \notin Needs(work'.code[pos + 1])
  BY <1>4, <1>6, <1>16 DEF Needs, Reads, WideOps
<1>19. Successors(work', pos + 1) \subseteq {pos + 2, t}
  <2>1. TargetOf(work', pos + 1) = t
    BY <1>2, <1>3, <1>6, <1>16 DEF TargetOf, JumpTarget, JumpOffset
  <2>2. Successors(work', pos + 1) \subseteq {pos + 1 + 1, TargetOf(work', pos + 1)}
    BY <1>6, <1>16, SuccessorsAre DEF CondJumps
  <2> QED
    BY <1>3, <2>1, <2>2
<1> HIDE DEF t, i
<1> DEFINE F == {pos, pos + 1}
           G == Joined(mid, D, H, F)
<1>20. Differs(mid, work', {pos})
  BY <1>3, <1>4, <1>7, <1>9, <1>12, <1>15 DEF Differs, i
<1>21. F \union ({pos + 2, t} \cap (0 .. mid.size - 1)) \subseteq G
  BY <1>3, <1>5, <1>7, <1>13, <1>14 DEF Joined
<1>22. \A q : Successors(work', q) \subseteq 0 .. mid.size - 1
  BY <1>12, SuccessorsAre
<1>23. \A q \in F : r \notin Needs(work'.code[q]) /\ Successors(work', q) \subseteq G
  BY <1>17, <1>18, <1>19, <1>21, <1>22
<1>24. {pos} \subseteq F
  OBVIOUS
<1>25. Quiet(work', G, r)
  <2> HIDE DEF F
  <2> QED
    BY <1>13, <1>14, <1>20, <1>23, <1>24, BothWays
<1> QED
  BY <1>23, <1>25 DEF Silent

LEMMA FusedDropsDead ==
  ASSUME IInv, FuseBranch, TakenUnread, NEW r, Taken(r)
  PROVE  Silent(work', pos, r)
<1> DEFINE i     == Now.code[pos]
           fused == FusedJump(Now, pos)
           mid   == Write(Now, pos, fused)
           t     == TargetOf(work, pos + 1)
<1>1. Open /\ Fusible(Now, targets, pos) /\ work' = Erase(mid, pos + 1)
  BY DEF FuseBranch, Rewrite
<1>2. /\ i.op \in {"ALU", "ALU_IMM"} /\ pos + 1 < Now.size
      /\ Now.code[pos + 1].op \in {"JUMP_IF_TRUE", "JUMP_IF_FALSE"}
      /\ TestsResult(Now, targets, pos) /\ IsRegDeadAfter(Now, targets, pos + 2, i.a)
  BY <1>1 DEF Fusible, TestsResult
<1>3. /\ r = work.code[pos].a /\ IsCode(Now) /\ Whole(Now) /\ Now.size \in Nat
      /\ pos \in 0 .. Now.size - 1 /\ pos \in Nat /\ i \in Words /\ Now = work
      /\ r \notin Reads(i) /\ r = i.a
  <2>1. r \in Writes(work.code[pos]) \ Reads(work.code[pos])
    BY DEF Taken
  <2>2. i.op \in {"ALU", "ALU_IMM"} => Slots(Op) = 1
    BY <1>1, OpenIs DEF Slots, WideOps
  <2> QED
    BY <1>1, <1>2, <2>1, <2>2, TakenIs
<1>4. i.op # "WORD" /\ i.op \notin WideOps
  BY <1>2 DEF WideOps
<1>5. pos + 1 \in 0 .. Now.size - 1 /\ pos + 2 \in Nat /\ Now.code[pos + 1] \in Words /\ t \in Int
  <2>1. pos + 1 \in 0 .. Now.size - 1 /\ pos + 2 \in Nat
    BY <1>2, <1>3
  <2> QED
    BY <1>3, <2>1, WordIs
<1>6. /\ fused.op = (IF i.op = "ALU" THEN "JUMP_CMP" ELSE "JUMP_CMP_IMM")
      /\ fused.a = i.b /\ fused.b = i.c /\ fused.c = t - pos - 1
  BY <1>3 DEF FusedJump, Inst
<1> HIDE DEF fused
<1>7. /\ mid.size = Now.size /\ mid.code[pos] = fused
      /\ \A q \in 0 .. Now.size - 1 : q # pos => mid.code[q] = Now.code[q]
      /\ DOMAIN mid.code = 0 .. Now.size - 1
  BY <1>3, WriteIs DEF Write, IsCode
<1> HIDE DEF mid
<1>8. mid.code[pos + 1] = Now.code[pos + 1]
  BY <1>3, <1>5, <1>7
<1>9. /\ work'.size = Now.size /\ work'.code[pos] = fused /\ work'.code[pos + 1] = Nop
      /\ \A q \in 0 .. Now.size - 1 : q \notin {pos, pos + 1} => work'.code[q] = Now.code[q]
  <2>1. Slots(mid.code[pos + 1].op) = 1
    BY <1>2, <1>8 DEF Slots, WideOps
  <2>2. pos + 1 .. pos + 1 + Slots(mid.code[pos + 1].op) - 1 = {pos + 1}
    BY <1>3, <2>1
  <2>3. /\ work'.size = mid.size
        /\ \A q \in 0 .. Now.size - 1 : work'.code[q] = IF q \in {pos + 1} THEN Nop ELSE mid.code[q]
    BY <1>1, <1>7, <2>2 DEF Erase
  <2>4. pos # pos + 1
    BY <1>3
  <2> QED
    BY <1>3, <1>5, <1>7, <2>3, <2>4
<1> DEFINE F == {pos, pos + 1}
<1>10. Differs(Now, work', F)
  <2>1. \A q \in F : Now.code[q].op # "WORD"
    BY <1>2, <1>4
  <2>2. \A q \in 0 .. Now.size - 1 : q \notin F => work'.code[q] = Now.code[q]
    BY <1>9
  <2> HIDE DEF F
  <2> QED
    BY <1>3, <1>9, <2>1, <2>2 DEF Differs
<1>11. PICK D : Quiet(Now, D, r) /\ {pos + 2} \cap (0 .. Now.size - 1) \subseteq D
  <2>1. IsRegDeadAfter(Now, targets, pos + 2, r)
    BY <1>2, <1>3
  <2> HIDE DEF i
  <2> QED
    BY <1>3, <1>5, <2>1, ScanIsDead
<1>12. PICK H : Quiet(work', H, r) /\ {t} \cap (0 .. Now.size - 1) \subseteq H
  <2>1. Unread(work', t, r)
    BY DEF TakenUnread, Taken
  <2> HIDE DEF t
  <2> QED
    BY <1>9, <2>1, UnreadIs
<1>13. Successors(work', pos) \subseteq {pos + 1, t} /\ r \notin Needs(work'.code[pos])
  <2>1. TargetOf(work', pos) = t
    BY <1>3, <1>5, <1>6, <1>9 DEF TargetOf, JumpTarget, JumpOffset
  <2>2. fused.op \in CondJumps
    BY <1>6 DEF CondJumps
  <2>3. r \notin Reads(fused)
    BY <1>2, <1>3, <1>6 DEF Reads, WideOps
  <2> QED
    BY <1>9, <2>1, <2>2, <2>3, SuccessorsAre DEF Needs
<1>14. Successors(work', pos + 1) \subseteq {pos + 2} /\ r \notin Needs(work'.code[pos + 1])
  <2>1. Successors(work', pos + 1) \subseteq {pos + 1 + 1}
    BY <1>9, NopIs, SuccessorsAre
  <2> QED
    BY <1>3, <1>9, <2>1, NopIs
<1> DEFINE G == Joined(Now, D, H, F)
<1>15. F \union ({pos + 2, t} \cap (0 .. Now.size - 1)) \subseteq G
  BY <1>3, <1>5, <1>11, <1>12 DEF Joined
<1>16. \A q : Successors(work', q) \subseteq 0 .. Now.size - 1
  BY <1>9, SuccessorsAre
<1>17. \A q \in F : r \notin Needs(work'.code[q]) /\ Successors(work', q) \subseteq G
  BY <1>13, <1>14, <1>15, <1>16
<1>18. F \subseteq F
  OBVIOUS
<1>19. Quiet(work', G, r)
  <2> HIDE DEF t
  <2> QED
    BY <1>10, <1>11, <1>12, <1>17, <1>18, BothWays
<1> QED
  BY <1>17, <1>19 DEF Silent

LEMMA MoveDropsDead ==
  ASSUME IInv, DropMove \/ PropagateMove, NEW r, Taken(r)
  PROVE  Silent(work', pos, r)
<1> DEFINE i    == Now.code[pos]
           copy == PropagateCopy(Now, targets, pos)
<1>1. Open /\ i.op = "MOVE" /\ r \in Writes(work.code[pos]) \ Reads(work.code[pos])
  BY OpenIs DEF DropMove, PropagateMove, Taken
<1>2. /\ r = work.code[pos].a /\ Sound(Now) /\ IsCode(Now) /\ Now.size \in Nat
      /\ pos \in Ins(Now) /\ pos \in 0 .. Now.size - 1 /\ pos \in Nat /\ i \in Words
      /\ Reads(i) = Reads(work.code[pos]) /\ (Now = work \/ Silent(Now, pos, r))
  BY <1>1, TakenIs
<1>3. Reads(i) = {i.b} /\ r # i.b /\ Writes(i) = {i.a}
  BY <1>1, <1>2 DEF Reads, Writes, WriteOps, WideOps
<1>4. /\ Sound(copy) /\ pos \in Ins(copy) /\ copy.code[pos].op = "MOVE" /\ copy.size = Now.size /\ IsCode(copy)
  BY <1>1, <1>2, OpenIs, CopyKeeps DEF Kept, Sound
<1>5. copy.code[pos].a = i.a
  <2>1. copy.code[pos] \in {i, SubstituteReadReg(i, i.a, i.b)}
    BY <1>2 DEF PropagateCopy, IsCode
  <2>2. SubstituteReadReg(i, i.a, i.b).a = i.a
    BY <1>1, <1>2 DEF SubstituteReadReg, Words, WideOps
  <2> HIDE DEF copy, i
  <2> QED
    BY <2>1, <2>2
<1>6. Silent(Now, pos, r) => Silent(copy, pos, r)
  BY <1>2, <1>3, CopySilent
<1>7. ASSUME NEW new, Sound(new), pos \in Ins(new), new.code[pos].op = "MOVE", new.size = Now.size, Silent(new, pos, r)
      PROVE  Silent(Erase(new, pos), pos, r)
  <2>1. IsCode(new) /\ pos \in 0 .. new.size - 1 /\ new.code[pos].op \notin WideOps
    BY <1>2, <1>7 DEF Sound, WideOps
  <2>2. /\ Erase(new, pos).size = new.size /\ Erase(new, pos).code[pos] = Nop
        /\ \A q \in 0 .. new.size - 1 : q # pos => Erase(new, pos).code[q] = new.code[q]
    BY <2>1, EraseIs
  <2>3. Nop.op \notin Jumps \union WideOps /\ r \notin Needs(Nop)
    BY NopIs DEF WideOps
  <2> QED
    BY <1>7, <2>2, <2>3, ReplacedSilent
<1>8. CASE DropMove
  <2>1. /\ i.a = i.b \/ IsRegDeadAfter(copy, targets, pos + 1, i.a)
        /\ work' = Erase(IF i.a = i.b THEN Now ELSE copy, pos)
    BY <1>8 DEF DropMove, Rewrite
  <2>2. CASE i.a = i.b
    <3>1. Now # work
      BY <1>2, <1>3, <2>2
    <3>2. Silent(Now, pos, r)
      BY <1>2, <3>1
    <3> QED
      BY <1>1, <1>2, <1>7, <2>1, <2>2, <3>2
  <2>3. CASE i.a # i.b
    <3> HIDE DEF copy
    <3>1. Silent(copy, pos, r)
      <4>1. CASE Now = work
        <5>1. r = i.a
          BY <1>2, <4>1
        <5>2. PICK D : Quiet(copy, D, r) /\ {pos + 1} \cap (0 .. copy.size - 1) \subseteq D
          BY <1>2, <1>4, <2>1, <2>3, <5>1, ScanIsDead
        <5>3. Successors(copy, pos) \subseteq {pos + 1} \cap (0 .. copy.size - 1)
          BY <1>4, SuccessorsAre DEF Slots, WideOps, Jumps, CondJumps
        <5> QED
          BY <5>2, <5>3 DEF Silent
      <4>2. CASE Now # work
        BY <1>2, <1>6, <4>2
      <4> QED
        BY <4>1, <4>2
    <3> HIDE DEF i
    <3> QED
      BY <1>4, <1>7, <2>1, <2>3, <3>1
  <2> QED
    BY <2>2, <2>3
<1>9. CASE PropagateMove
  <2>1. work' = copy
    BY <1>9 DEF PropagateMove, Rewrite
  <2> HIDE DEF copy
  <2>2. Now # work
    <3> SUFFICES ASSUME Now = work PROVE FALSE
      OBVIOUS
    <3>1. r = i.a
      BY <1>2
    <3>2. r \in Writes(work'.code[pos])
      BY <1>4, <1>5, <2>1, <3>1 DEF Writes, WriteOps
    <3> QED
      BY <3>2 DEF Taken
  <2> QED
    BY <1>2, <1>6, <2>1, <2>2
<1> QED
  BY <1>8, <1>9

LEMMA SimplifyDropsDead ==
  ASSUME IInv, Simplify \/ Keep, NEW r, Taken(r)
  PROVE  Silent(work', pos, r)
<1> DEFINE i == Now.code[pos]
<1>1. Open /\ r \in Writes(work.code[pos]) \ Reads(work.code[pos]) /\ r \notin Writes(work'.code[pos])
  BY DEF Simplify, Keep, Taken
<1>2. /\ r = work.code[pos].a /\ Sound(Now) /\ IsCode(Now) /\ Now.size \in Nat /\ Op \in WriteOps
      /\ pos \in Ins(Now) /\ pos \in 0 .. Now.size - 1 /\ pos \in Nat /\ i \in Words /\ i.op = Op
      /\ Reads(i) = Reads(work.code[pos]) /\ (Now = work \/ Silent(Now, pos, r))
  BY <1>1, TakenIs
<1>3. CASE Keep
  <2>1. work' = Now
    BY <1>3 DEF Keep
  <2> QED
    BY <1>1, <1>2, <2>1
<1>4. CASE Simplify
  <2>1. PICK j \in Identity(i) : work' = Write(Now, pos, j)
    BY <1>4 DEF Simplify, Rewrite
  <2>2. i.op \in {"ALU", "ALU_IMM"} /\ j.op \in {"NOP", "LOAD_IMM", "MOVE"} /\ (j = Nop \/ j.op \in {"LOAD_IMM", "MOVE"})
    BY <1>2, <2>1, IdentityIs, NopIs
  <2>3. /\ work'.size = Now.size /\ work'.code[pos] = j
        /\ \A q \in 0 .. Now.size - 1 : q # pos => work'.code[q] = Now.code[q]
    BY <1>2, <2>1, WriteIs
  <2>4. /\ j.op = "MOVE" => i.op = "ALU_IMM" /\ j.a = i.a /\ j.b = i.b
        /\ j.op = "LOAD_IMM" => j.a = i.a
        /\ j = Nop => i.op = "ALU_IMM" /\ i.a = i.b
    BY <2>1, NopIs DEF Identity, LoadImm, MoveOrNop, Inst
  <2>5. i.op = "ALU_IMM" => Reads(i) = {i.b}
    BY DEF Reads, WideOps
  <2>6. r \notin Needs(j)
    <3>1. j.op = "MOVE" => Reads(j) = {j.b}
      BY DEF Reads, WideOps
    <3>2. j.op \in {"NOP", "LOAD_IMM"} => Reads(j) = {}
      BY DEF Reads, WideOps
    <3> QED
      BY <1>1, <1>2, <2>2, <2>4, <2>5, <3>1, <3>2 DEF Needs
  <2>7. Now # work
    <3> SUFFICES ASSUME Now = work PROVE FALSE
      OBVIOUS
    <3>1. r = i.a
      BY <1>2
    <3>2. CASE j = Nop
      BY <1>1, <1>2, <2>4, <2>5, <3>1, <3>2
    <3>3. CASE j.op \in {"LOAD_IMM", "MOVE"}
      <4>1. Writes(j) = {i.a}
        BY <2>4, <3>3 DEF Writes, WriteOps
      <4> QED
        BY <1>1, <2>3, <3>1, <4>1
    <3> QED
      BY <2>2, <3>2, <3>3
  <2>8. j.op \notin Jumps \union WideOps
    BY <2>2 DEF Jumps, CondJumps, WideOps
  <2> QED
    BY <1>2, <2>2, <2>3, <2>6, <2>7, <2>8, ReplacedSilent
<1> QED
  BY <1>3, <1>4

LEMMA RulesDropDead ==
  ASSUME IInv, Rules, TakenUnread, NEW r, Taken(r)
  PROVE  ~ LiveAfter(work', pos, r)
<1>1. work.code[pos].op \in WriteOps
  BY DEF Taken, Writes
<1>2. CASE Open
  <2>1. pos \in Ins(Now) /\ Now.code[pos].op = work.code[pos].op
    BY <1>2, OpenIs DEF Op
  <2>2. Now.code[pos].op \notin Jumps
    BY <1>1, <2>1 DEF WriteOps, Jumps, CondJumps
  <2>3. ~ JumpsOverJump(Now, targets, pos) /\ ~ ToReturn(Now, pos) /\ ~ ToJump(Now, pos)
    BY <2>2 DEF JumpsOverJump, ToReturn, ToJump, Jumps, CondJumps
  <2>4. MakeTailCall \/ FuseTestOfZero \/ DropMove \/ PropagateMove \/ Simplify \/ FuseBranch \/ Keep
    BY <1>2, <2>3 DEF Rules, SkipNop, DropJumpToNext, InvertBranch, JumpToReturn, ChainJumps, Open
  <2>5. Silent(work', pos, r)
    BY <2>4, TailDropsDead, ZeroTestDropsDead, MoveDropsDead, SimplifyDropsDead, FusedDropsDead
  <2>6. work'.size \in Nat
    <3>1. IInv'
      BY RulesStep
    <3> QED
      BY <3>1 DEF IInv, IsCode
  <2> QED
    BY <2>5, <2>6, SilentIsDead
<1>3. CASE ~ Open
  <2>1. CASE SkipNop
    BY <1>1, <2>1 DEF SkipNop, Op, WriteOps
  <2>2. CASE DropJumpToNext
    BY <1>1, <2>2 DEF DropJumpToNext, JumpsToNext, WriteOps, Jumps, CondJumps
  <2> QED
    BY <1>3, <2>1, <2>2 DEF Rules, InvertBranch, JumpToReturn, ChainJumps, MakeTailCall, FuseTestOfZero, DropMove,
                            PropagateMove, Simplify, FuseBranch, Keep
<1> QED
  BY <1>2, <1>3
-----------------------------------------------------------------------------
(* No path that starts in D reads register r before it writes it.          *)
Settled(ch, D, r) ==
  \A q \in D : /\ r \notin Reads(ch.code[q])
               /\ r \in Writes(ch.code[q]) \/ Successors(ch, q) \subseteq D

LEMMA SettledIsQuiet ==
  ASSUME NEW ch, NEW D, NEW r, Settled(ch, D, r)
  PROVE  Quiet(ch, D, r)
<1> SUFFICES ASSUME NEW q \in D
             PROVE  r \notin Needs(ch.code[q]) /\ (r \in Defines(ch.code[q]) \/ Successors(ch, q) \subseteq D)
  BY DEF Quiet
<1>1. r \notin Reads(ch.code[q]) /\ (r \in Writes(ch.code[q]) \/ Successors(ch, q) \subseteq D)
  BY DEF Settled
<1>2. MovesNothing(ch.code[q]) => Writes(ch.code[q]) = Reads(ch.code[q])
  BY DEF MovesNothing, Writes, Reads, WriteOps, WideOps
<1> QED
  BY <1>1, <1>2 DEF Needs, Defines

(* EliminateDeadStores: where a block ends every register is live, unless  *)
(* the function is left there; what is not live is not needed on any path. *)
LEMMA StoresDropDead ==
  ASSUME NEW ch, NEW T, Sound(ch), NEW p \in 0 .. ch.size - 1,
         NEW r \in Writes(ch.code[p]) \cap (0 .. RegWindow - 1), r \notin Writes(DeadStores(ch, T).code[p])
  PROVE  \E D : Settled(DeadStores(ch, T), D, r) /\ Successors(DeadStores(ch, T), p) \subseteq D
<1> DEFINE AllRegs   == 0 .. RegWindow - 1
           Leaves(q) == \/ ch.code[q].op \in FunctionExits
                        \/ ch.code[q].op = "SYSCALL" /\ SysTerminator(ch, q)
           Then(q)   == q + Slots(ch.code[q].op)
           BlockEnd(q)  == EndsBlock(ch, q) \/ Then(q) >= ch.size \/ Then(q) \in T
           Dead(q, out) == Writes(ch.code[q]) # {} /\ Writes(ch.code[q]) \cap out = {}
           Out(f, q)    == IF BlockEnd(q) THEN IF Leaves(q) THEN {} ELSE AllRegs ELSE f[Then(q)]
           E(f, q)      == IF Dead(q, Out(f, q)) /\ IsInstructionPure(ch, q) THEN Out(f, q)
                           ELSE (Out(f, q) \ Writes(ch.code[q])) \union Reads(ch.code[q])
           live == CHOOSE f : f = [q \in Nat |-> E(f, q)]
           S    == SUBSET (AllRegs \union UNION {Reads(ch.code[q]) : q \in Nat})
           rank == [q \in Nat |-> IF q < ch.size THEN ch.size - q ELSE 0]
           step == [x \in [Nat -> S] \X Nat |-> E(x[1], x[2])]
<1>1. DeadResults(ch, T) = {q \in 0 .. ch.size - 1 : ch.code[q].op # "WORD" /\ Dead(q, Out(live, q))}
  BY DEF DeadResults
<1>2. IsCode(ch) /\ Whole(ch) /\ ch.size \in Nat /\ \A q \in Nat : Slots(ch.code[q].op) \in {1, 2}
  BY DEF Sound, IsCode, Slots
<1>3. rank \in [Nat -> Nat] /\ \A q \in Nat : q < ch.size => rank[q + 1] < rank[q] /\ rank[q + 2] < rank[q]
  BY <1>2
<1>4. \A q \in Nat : ~ BlockEnd(q) => Then(q) \in Nat /\ q < ch.size /\ Then(q) < ch.size /\ rank[Then(q)] < rank[q]
  <2> SUFFICES ASSUME NEW q \in Nat, ~ BlockEnd(q)
               PROVE  Then(q) \in Nat /\ q < ch.size /\ Then(q) < ch.size /\ rank[Then(q)] < rank[q]
    OBVIOUS
  <2>1. ~ (Then(q) >= ch.size) /\ Then(q) \in {q + 1, q + 2}
    BY <1>2
  <2> HIDE DEF BlockEnd, rank
  <2> QED
    BY <1>2, <1>3, <2>1
<1> HIDE DEF BlockEnd, Leaves, Dead
<1>5. ASSUME NEW f \in [Nat -> S], NEW q \in Nat PROVE E(f, q) \in S
  <2>1. ~ BlockEnd(q) => f[Then(q)] \in S
    <3> HIDE DEF S, Then
    <3> QED
      BY <1>4
  <2>2. Out(f, q) \in S
    BY <2>1
  <2>3. Reads(ch.code[q]) \in S
    OBVIOUS
  <2> HIDE DEF Out
  <2> QED
    BY <2>2, <2>3
<1>6. step \in [[Nat -> S] \X Nat -> S]
  <2> HIDE DEF E, S
  <2> QED
    BY <1>5
<1>7. ASSUME NEW f \in [Nat -> S], NEW g \in [Nat -> S], NEW q \in Nat,
             \A s \in Nat : rank[s] < rank[q] => f[s] = g[s]
      PROVE  E(f, q) = E(g, q)
  <2>1. ~ BlockEnd(q) => f[Then(q)] = g[Then(q)]
    <3> HIDE DEF S, Then, rank
    <3> QED
      BY <1>4, <1>7
  <2>2. Out(f, q) = Out(g, q)
    BY <2>1
  <2> HIDE DEF Out
  <2> QED
    BY <2>2
<1>8. Local(S, rank, step)
  <2> SUFFICES ASSUME NEW f \in [Nat -> S], NEW g \in [Nat -> S], NEW q \in Nat,
                      \A s \in Nat : rank[s] < rank[q] => f[s] = g[s]
               PROVE  step[<<f, q>>] = step[<<g, q>>]
    BY DEF Local
  <2>1. E(f, q) = E(g, q)
    <3> HIDE DEF E, S, rank
    <3> QED
      BY <1>7
  <2> HIDE DEF E, S
  <2> QED
    BY <2>1
<1>9. PICK f \in [Nat -> S] : \A q \in Nat : f[q] = step[<<f, q>>]
  <2>1. Stepping(S, rank, step)
    <3>1. {} \in S
      OBVIOUS
    <3>2. S # {} /\ rank \in [Nat -> Nat]
      BY <1>3, <3>1
    <3> HIDE DEF E, S, rank, step
    <3> QED
      BY <1>6, <1>8, <3>2 DEF Stepping
  <2> HIDE DEF S, rank, step
  <2>2. PICK f : Solves(S, step, f)
    BY <2>1, Solvable
  <2> QED
    BY <2>2 DEF Solves
<1>10. f = [q \in Nat |-> E(f, q)]
  <2> HIDE DEF E, S
  <2> QED
    BY <1>9
<1>11. live = [q \in Nat |-> E(live, q)]
  <2> HIDE DEF E
  <2> QED
    BY <1>10
<1> HIDE DEF live
<1>12. \A q \in Nat : live[q] = E(live, q)
  <2> HIDE DEF E
  <2> QED
    BY <1>11
(* What may leave a word, and what it is rewritten to.                     *)
<1> DEFINE dead == DeadResults(ch, T)
           drop == {q \in dead : IsInstructionPure(ch, q)}
           new  == DeadStores(ch, T)
<1>13. ASSUME NEW q \in Nat, r \notin Out(live, q) PROVE Leaves(q) \/ (~ BlockEnd(q) /\ r \notin live[Then(q)])
  BY <1>13
<1>14. new.size = ch.size /\ \A q \in 0 .. ch.size - 1 : new.code[q] =
           CASE q \in drop \/ (ch.code[q].op = "WORD" /\ q - 1 \in drop) -> Nop
             [] q \in dead \ drop /\ ch.code[q].op = "CALL"    -> [ch.code[q] EXCEPT !.op = "CALL_VOID", !.a = 0]
             [] q \in dead \ drop /\ ch.code[q].op = "SYSCALL" -> [ch.code[q] EXCEPT !.op = "SYSCALL_VOID", !.a = 0]
             [] OTHER -> ch.code[q]
  BY <1>2 DEF DeadStores, IsCode
<1>15. \A q \in dead : q \in 0 .. ch.size - 1 /\ q \in Nat /\ ch.code[q].op # "WORD" /\ Dead(q, Out(live, q))
                       /\ ch.code[q].op \in WriteOps
  BY <1>1, <1>2, DeadResultsIs
<1> HIDE DEF new, dead
<1>16. /\ Reads(Nop) = {} /\ Nop.op \notin Jumps /\ Slots(Nop.op) = 1
       /\ \A q : ch.code[q].op = "WORD" =>
            /\ Reads(ch.code[q]) = {} /\ Writes(ch.code[q]) = {} /\ Slots(ch.code[q].op) = 1
            /\ ~ EndsBlock(ch, q)
  BY NopIs DEF Reads, Writes, WriteOps, WideOps, Slots, EndsBlock, IsInstructionTerminator, SysTerminator, SyscallOps,
               Terminators, CondJumps
<1>17. ASSUME NEW q \in 0 .. ch.size - 1
       PROVE  /\ q \in drop => new.code[q] = Nop
              /\ q \notin dead /\ ~ (ch.code[q].op = "WORD" /\ q - 1 \in drop) => new.code[q] = ch.code[q]
              /\ q \in dead \ drop => /\ new.code[q].b = ch.code[q].b /\ new.code[q].c = ch.code[q].c
                                      /\ \/ ch.code[q].op = "CALL" /\ new.code[q].op = "CALL_VOID"
                                         \/ ch.code[q].op = "SYSCALL" /\ new.code[q].op = "SYSCALL_VOID"
                                         \/ ch.code[q].op \notin {"CALL", "SYSCALL"} /\ new.code[q] = ch.code[q]
              /\ ch.code[q].op = "WORD" => new.code[q] \in {Nop, ch.code[q]}
  <2>1. ch.code[q] \in Words
    BY <1>2, WordIs
  <2>2. \A o : LET j == [ch.code[q] EXCEPT !.op = o, !.a = 0] IN j.op = o /\ j.b = ch.code[q].b /\ j.c = ch.code[q].c
    BY <2>1 DEF Words
  <2>3. q \in drop => q \in dead
    OBVIOUS
  <2>4. ch.code[q].op = "WORD" => q \notin dead
    BY <1>15
  <2> HIDE DEF drop
  <2>5. CASE q \in drop
    BY <1>14, <2>3, <2>4, <2>5
  <2>6. CASE q \in dead \ drop
    <3>1. CASE ch.code[q].op = "CALL"
      <4>1. new.code[q] = [ch.code[q] EXCEPT !.op = "CALL_VOID", !.a = 0]
        BY <1>14, <2>6, <3>1
      <4> QED
        BY <2>2, <2>6, <3>1, <4>1
    <3>2. CASE ch.code[q].op = "SYSCALL"
      <4>1. new.code[q] = [ch.code[q] EXCEPT !.op = "SYSCALL_VOID", !.a = 0]
        BY <1>14, <2>6, <3>2
      <4> QED
        BY <2>2, <2>6, <3>2, <4>1
    <3>3. CASE ch.code[q].op \notin {"CALL", "SYSCALL"}
      BY <1>14, <2>4, <2>6, <3>3
    <3> QED
      BY <3>1, <3>2, <3>3
  <2>7. CASE q \notin dead
    BY <1>14, <2>3, <2>7
  <2> QED
    BY <2>5, <2>6, <2>7
<1> DEFINE D == {q \in 0 .. ch.size - 1 : r \notin live[q]}
<1>18. ASSUME NEW q \in 0 .. ch.size - 1, r \notin Out(live, q)
       PROVE  Successors(new, q) \subseteq D
  <2>0. q \in Nat /\ drop \subseteq dead
    BY <1>2
  <2>1. CASE ch.code[q].op \in FunctionExits
    <3>1. ch.code[q].op \notin WriteOps \union {"WORD"}
      BY <2>1 DEF FunctionExits, WriteOps
    <3>2. new.code[q] = ch.code[q]
      BY <1>15, <1>17, <3>1
    <3> QED
      BY <2>1, <3>2, SuccessorsAre
  <2>2. CASE ch.code[q].op = "SYSCALL" /\ SysTerminator(ch, q)
    <3>1. q + 1 \in 0 .. ch.size - 1 /\ ch.code[q + 1].op = "WORD" /\ (q + 1) - 1 = q
      BY <1>2, <2>0, <2>2 DEF Whole, WideOps
    <3>2. q \notin drop
      BY <2>2 DEF SysTerminator, IsInstructionPure, Exits, PureSyscalls
    <3>3. new.code[q].op \in SyscallOps
      BY <1>17, <2>2, <3>2 DEF SyscallOps
    <3>4. q + 1 \notin dead
      BY <1>15, <3>1
    <3>5. new.code[q + 1] = ch.code[q + 1]
      BY <1>17, <3>1, <3>2, <3>4
    <3>6. SysTerminator(new, q)
      BY <1>14, <2>2, <3>3, <3>5 DEF SysTerminator
    <3> QED
      BY <3>6, SuccessorsAre
  <2>3. CASE ~ Leaves(q)
    <3>1. ~ BlockEnd(q) /\ r \notin live[Then(q)]
      BY <1>13, <1>18, <2>0, <2>3
    <3>2. Then(q) \in D /\ Then(q) \in Nat /\ Then(q) < ch.size /\ Then(q) \notin T /\ ~ EndsBlock(ch, q)
      <4>1. Then(q) \in Nat /\ Then(q) < ch.size
        BY <1>4, <2>0, <3>1
      <4>2. Then(q) \notin T /\ ~ EndsBlock(ch, q)
        BY <3>1 DEF BlockEnd
      <4> HIDE DEF Then
      <4> QED
        BY <1>2, <3>1, <4>1, <4>2
    <3>3. ch.code[q].op \notin Jumps
      BY <3>2 DEF EndsBlock, IsInstructionTerminator, Jumps, Terminators
    <3>4. CASE new.code[q].op \notin Jumps /\ Slots(new.code[q].op) = Slots(ch.code[q].op)
      BY <3>2, <3>4, SuccessorsAre
    <3>5. CASE q \in drop /\ Slots(ch.code[q].op) = 2
      <4>1. q + 1 \in 0 .. ch.size - 1 /\ ch.code[q + 1].op = "WORD" /\ q + 1 \in Nat
        BY <1>2, <2>0, <3>5 DEF Whole, Slots
      <4>2. Then(q + 1) = Then(q)
        BY <1>16, <2>0, <3>5, <4>1
      <4>3. ~ BlockEnd(q + 1)
        <5>1. ~ (Then(q) >= ch.size)
          BY <1>2, <3>2
        <5> HIDE DEF Then
        <5> QED
          BY <1>16, <3>2, <4>1, <4>2, <5>1 DEF BlockEnd
      <4>4. r \notin Out(live, q + 1)
        BY <3>1, <4>2, <4>3
      <4>5. r \notin live[q + 1]
        <5> HIDE DEF Out
        <5> QED
          BY <1>12, <1>16, <4>1, <4>4
      <4>6. Successors(new, q) \subseteq {q + 1}
        BY <1>16, <1>17, <3>5, SuccessorsAre
      <4> QED
        BY <4>1, <4>5, <4>6
    <3>6. CASE q \in drop /\ Slots(ch.code[q].op) = 1
      <4>1. Slots(new.code[q].op) = 1 /\ new.code[q].op \notin Jumps
        BY <1>16, <1>17, <3>6
      <4> QED
        BY <3>4, <3>6, <4>1
    <3>7. CASE q \notin drop
      <4>1. \/ new.code[q] = ch.code[q]
            \/ new.code[q] = Nop /\ ch.code[q].op = "WORD"
            \/ ch.code[q].op = "CALL" /\ new.code[q].op = "CALL_VOID"
            \/ ch.code[q].op = "SYSCALL" /\ new.code[q].op = "SYSCALL_VOID"
        <5> HIDE DEF drop
        <5> QED
          BY <1>17, <3>7
      <4>2. new.code[q].op \notin Jumps /\ Slots(new.code[q].op) = Slots(ch.code[q].op)
        BY <1>16, <3>3, <4>1 DEF Jumps, CondJumps, Slots, WideOps
      <4> QED
        BY <3>4, <4>2
    <3> QED
      BY <1>2, <2>0, <3>5, <3>6, <3>7
  <2> QED
    BY <2>1, <2>2, <2>3 DEF Leaves
<1>19. ASSUME NEW q \in D
       PROVE  r \notin Reads(new.code[q]) /\ (r \in Writes(new.code[q]) \/ Successors(new, q) \subseteq D)
  <2>1. q \in 0 .. ch.size - 1 /\ q \in Nat /\ r \notin E(live, q)
    <3> HIDE DEF E
    <3> QED
      BY <1>2, <1>12
  <2>2. CASE Dead(q, Out(live, q)) /\ IsInstructionPure(ch, q)
    <3>1. r \notin Out(live, q)
      <4> HIDE DEF Out
      <4> QED
        BY <2>1, <2>2
    <3>2. ch.code[q].op # "WORD"
      BY <1>16, <2>2 DEF Dead
    <3>3. q \in drop
      BY <1>1, <2>1, <2>2, <3>2 DEF dead
    <3>4. new.code[q] = Nop
      BY <1>17, <2>1, <3>3
    <3> HIDE DEF D, Out
    <3> QED
      BY <1>16, <1>18, <2>1, <3>1, <3>4
  <2>3. CASE ~ (Dead(q, Out(live, q)) /\ IsInstructionPure(ch, q))
    <3>1. r \notin Reads(ch.code[q]) /\ (r \notin Out(live, q) \/ r \in Writes(ch.code[q]))
      <4> HIDE DEF Out
      <4> QED
        BY <2>1, <2>3
    <3>2. q \notin drop
      BY <1>15, <2>3
    <3>3. r \notin Reads(new.code[q])
      <4>1. \/ new.code[q] \in {Nop, ch.code[q]}
            \/ /\ new.code[q].b = ch.code[q].b /\ new.code[q].c = ch.code[q].c
               /\ ch.code[q].op \in WideOps /\ new.code[q].op \in WideOps
        <5> HIDE DEF drop
        <5> QED
          BY <1>17, <2>1, <3>2 DEF WideOps
      <4>2. Reads(new.code[q]) \subseteq Reads(ch.code[q])
        BY <1>16, <4>1 DEF Reads, WideOps
      <4> QED
        BY <3>1, <4>2
    <3>4. CASE r \notin Out(live, q)
      <4> HIDE DEF D, Out
      <4> QED
        BY <1>18, <2>1, <3>3, <3>4
    <3>5. CASE r \in Out(live, q)
      <4>1. r \in Writes(ch.code[q])
        BY <3>1, <3>5
      <4>2. ~ Dead(q, Out(live, q)) /\ ch.code[q].op # "WORD"
        <5> HIDE DEF Out
        <5> QED
          BY <1>16, <3>5, <4>1 DEF Dead
      <4>3. new.code[q] = ch.code[q]
        BY <1>15, <1>17, <2>1, <4>2
      <4> QED
        BY <3>3, <4>1, <4>3
    <3> QED
      BY <3>4, <3>5
  <2> QED
    BY <2>2, <2>3
<1>20. r \notin Out(live, p)
  <2>1. ch.code[p].op # "WORD"
    BY <1>16
  <2>2. p \in dead
    BY <1>17, <2>1 DEF new
  <2>3. Dead(p, Out(live, p))
    BY <1>15, <2>2
  <2> HIDE DEF Out
  <2> QED
    BY <2>3 DEF Dead
<1>21. Successors(new, p) \subseteq D
  BY <1>18, <1>20
<1> HIDE DEF D
<1>22. Settled(new, D, r)
  BY <1>19 DEF Settled
<1> QED
  BY <1>21, <1>22 DEF new

(* Whatever the program and the number of registers: no rule and no dead   *)
(* store takes a definition away that some path needs, if the ways taken   *)
(* by the jumps that comparisons are fused with do not need it either      *)
(* (IsRegDeadAfter, EliminateDeadStores, rules 4 and 7 to 11).  That is    *)
(* the one thing the straight scans do not establish: the optimizer relies *)
(* on code that tests a comparison once.                                   *)
THEOREM OnlyDeadDropped ==
  ASSUME \A ch \in Programs : IsCode(ch) /\ WellFormed(ch)
  PROVE  Spec /\ [][TakenUnread]_optVars => DropsOnlyDead
<1> DEFINE Rule == phase = "peephole" /\ phase' = "peephole" =>
                     \A r \in Writes(work.code[pos]) \ Reads(work.code[pos]) :
                       r \in Writes(work'.code[pos]) \/ ~ LiveAfter(work', pos, r)
           Store == phase = "dead stores" =>
                      \A p \in 0 .. work.size - 1 : \A r \in Writes(work.code[p]) \cap (0 .. RegWindow - 1) :
                        r \in Writes(work'.code[p]) \/ ~ LiveAfter(work', p, r)
<1>1. ASSUME IInv, Next, TakenUnread PROVE Rule
  <2> SUFFICES ASSUME phase = "peephole", phase' = "peephole",
                      NEW r \in Writes(work.code[pos]) \ Reads(work.code[pos]), r \notin Writes(work'.code[pos])
               PROVE  ~ LiveAfter(work', pos, r)
    OBVIOUS
  <2>1. Rules
    BY <1>1 DEF Next, CollectJumpTargets, EliminateDeadCode, EliminateDeadStores, Pass, EndPeephole, Strip
  <2> QED
    BY <1>1, <2>1, RulesDropDead DEF Taken
<1>2. ASSUME IInv, Next PROVE Store
  <2> SUFFICES ASSUME phase = "dead stores", NEW p \in 0 .. work.size - 1,
                      NEW r \in Writes(work.code[p]) \cap (0 .. RegWindow - 1), r \notin Writes(work'.code[p])
               PROVE  ~ LiveAfter(work', p, r)
    OBVIOUS
  <2>1. EliminateDeadStores
    BY <1>2 DEF Next, Rules, Open, Peephole, SkipNop, DropJumpToNext, InvertBranch, JumpToReturn, ChainJumps,
                MakeTailCall, FuseTestOfZero, DropMove, PropagateMove, Simplify, FuseBranch, Keep,
                CollectJumpTargets, EliminateDeadCode, Pass, EndPeephole, Strip
  <2>2. work' = DeadStores(work, targets) /\ Sound(work)
    BY <1>2, <2>1 DEF EliminateDeadStores, Pass, IInv
  <2>3. Silent(work', p, r)
    BY <2>2, StoresDropDead, SettledIsQuiet DEF Silent
  <2>4. work'.size \in Nat
    BY <1>2, <2>1, PassesStep DEF IInv, IsCode
  <2> QED
    BY <2>3, <2>4, SilentIsDead
<1>3. IInv /\ [Next]_optVars /\ [TakenUnread]_optVars =>
        [/\ phase = "peephole" /\ phase' = "peephole" =>
              \A r \in Writes(work.code[pos]) \ Reads(work.code[pos]) :
                r \in Writes(work'.code[pos]) \/ ~ LiveAfter(work', pos, r)
         /\ phase = "dead stores" =>
              \A p \in 0 .. work.size - 1 : \A r \in Writes(work.code[p]) \cap (0 .. RegWindow - 1) :
                r \in Writes(work'.code[p]) \/ ~ LiveAfter(work', p, r)]_optVars
  BY <1>1, <1>2
<1> QED
  BY <1>3, OptimizerInv, PTL DEF Spec, DropsOnlyDead
-----------------------------------------------------------------------------
(* EliminateDeadStores leaves code that agrees with what it was given.     *)

Registers == 0 .. RegWindow - 1

(* Some path from p reads r before it writes it.                           *)
Wanted(ch, p, r) == ~ \E D : p \in D /\ Settled(ch, D, r)

(* What the code that is left wants is there as before.                    *)
StillWanted(ch) ==
  {w \in (0 .. ch.size - 1) \X Registers \X Registers : w[2] = w[3] /\ Wanted(ch, w[1], w[2])}

(* What the code generator promises of the registers: operands are in the  *)
(* window, a function wants no register but its arguments, and behind a    *)
(* call none is wanted from the window of the callee but the answer.       *)
TidyCalls(ch) ==
  \A p \in Ins(ch) :
    LET i == ch.code[p]
    IN  /\ Reads(i) \subseteq Registers
        /\ i.op \in SyscallOps /\ ch.code[p + 1].fn \in {"math", "seed"} => i.c > 0
        /\ i.op \in BytecodeCalls => \A r \in Registers : Wanted(ch, ch.code[p + 1].a, r) => r < i.c
        /\ i.op \in {"CALL", "CALL_VOID"} =>
             \A r \in Registers : Wanted(ch, p + 2, r) => r < i.b \/ r \in Writes(i)

(* A random number that is not drawn is one that the next call gets.       *)
KeepsRandom(old, new) ==
  \A p \in Ins(old) : old.code[p].op = "SYSCALL" /\ old.code[p + 1].fn = "random" => new.code[p] # Nop

LEMMA StillWantedIs ==
  ASSUME NEW ch, NEW p, NEW x, NEW y
  PROVE  <<p, x, y>> \in StillWanted(ch) <=>
           p \in 0 .. ch.size - 1 /\ x \in Registers /\ y = x /\ Wanted(ch, p, x)
BY DEF StillWanted

LEMMA WantedOn ==
  ASSUME NEW ch, NEW p, NEW r
  PROVE  /\ r \in Reads(ch.code[p]) => Wanted(ch, p, r)
         /\ r \notin Writes(ch.code[p]) => \A q \in Successors(ch, p) : Wanted(ch, q, r) => Wanted(ch, p, r)
BY DEF Wanted, Settled

(* Where an instruction goes on.                                           *)
LEMMA GoesOn ==
  ASSUME NEW ch, NEW p
  PROVE  /\ FallsThrough(ch, p) /\ p + Slots(ch.code[p].op) \in 0 .. ch.size - 1
              => p + Slots(ch.code[p].op) \in Successors(ch, p)
         /\ ch.code[p].op \in Jumps /\ TargetOf(ch, p) \in 0 .. ch.size - 1 => TargetOf(ch, p) \in Successors(ch, p)
<1>1. FallsThrough(ch, p) => ~ IsInstructionTerminator(ch, p)
  BY DEF FallsThrough, IsInstructionTerminator, SysTerminator, Terminators, SyscallOps, Exits
<1> QED
  BY <1>1 DEF Successors

(* What becomes of the words.                                              *)
Left(old, new, p) ==
  /\ new.code[p] = old.code[p]
  /\ old.code[p].op \in WideOps => new.code[p + 1] = old.code[p + 1]

MadeVoid(old, new, p) ==
  LET i == old.code[p]
      j == new.code[p]
  IN  /\ i.op \in {"CALL", "SYSCALL"}
      /\ <<i.op, j.op>> \in Voided
      /\ j.fn = i.fn /\ j.b = i.b /\ j.c = i.c
      /\ new.code[p + 1] = old.code[p + 1]

LeftOut(old, new, p) ==
  /\ old.code[p].op \in WriteOps /\ IsInstructionPure(old, p)
  /\ new.code[p] = Nop
  /\ old.code[p].op \in WideOps => new.code[p + 1] = Nop

LEMMA StoresAre ==
  ASSUME NEW ch, NEW T, Sound(ch)
  PROVE  LET new == DeadStores(ch, T)
         IN  /\ new.size = ch.size /\ \A x \in DOMAIN ch \ {"code", "fn"} : new[x] = ch[x]
             /\ \A p \in 0 .. ch.size - 1 : ch.code[p].op # "WORD" =>
                  Left(ch, new, p) \/ MadeVoid(ch, new, p) \/ LeftOut(ch, new, p)
<1> DEFINE dead == DeadResults(ch, T)
           drop == {q \in dead : IsInstructionPure(ch, q)}
           new  == DeadStores(ch, T)
<1>1. IsCode(ch) /\ Whole(ch) /\ ch.size \in Nat
  BY DEF Sound, IsCode
<1>2. /\ new.size = ch.size /\ \A x \in DOMAIN ch \ {"code", "fn"} : new[x] = ch[x]
      /\ \A q \in 0 .. ch.size - 1 : new.code[q] =
           CASE q \in drop \/ (ch.code[q].op = "WORD" /\ q - 1 \in drop) -> Nop
             [] q \in dead \ drop /\ ch.code[q].op = "CALL"    -> [ch.code[q] EXCEPT !.op = "CALL_VOID", !.a = 0]
             [] q \in dead \ drop /\ ch.code[q].op = "SYSCALL" -> [ch.code[q] EXCEPT !.op = "SYSCALL_VOID", !.a = 0]
             [] OTHER -> ch.code[q]
  BY <1>1 DEF DeadStores, IsCode
<1>3. \A q \in dead : q \in 0 .. ch.size - 1 /\ ch.code[q].op \in WriteOps /\ ch.code[q].op # "WORD"
  BY DeadResultsIs DEF WriteOps
<1> HIDE DEF new, dead
<1>4. ASSUME NEW p \in 0 .. ch.size - 1, ch.code[p].op # "WORD"
      PROVE  Left(ch, new, p) \/ MadeVoid(ch, new, p) \/ LeftOut(ch, new, p)
  <2>1. ch.code[p].op \in WideOps => p + 1 \in 0 .. ch.size - 1 /\ ch.code[p + 1].op = "WORD" /\ (p + 1) - 1 = p
    BY <1>1, <1>4 DEF Whole
  <2>2. \A q \in 0 .. ch.size - 1 : ch.code[q].op = "WORD" => q \notin dead /\ q \notin drop
    BY <1>3
  <2>3. ch.code[p].op \in WideOps => new.code[p + 1] = IF p \in drop THEN Nop ELSE ch.code[p + 1]
    <3> SUFFICES ASSUME ch.code[p].op \in WideOps
                 PROVE  new.code[p + 1] = IF p \in drop THEN Nop ELSE ch.code[p + 1]
      OBVIOUS
    <3> HIDE DEF drop
    <3>1. CASE p \in drop
      BY <1>2, <2>1, <3>1
    <3>2. CASE p \notin drop
      BY <1>2, <2>1, <2>2, <3>2
    <3> QED
      BY <3>1, <3>2
  <2>4. CASE p \in drop
    <3>1. new.code[p] = Nop
      <4> HIDE DEF drop
      <4> QED
        BY <1>2, <2>4
    <3>2. LeftOut(ch, new, p)
      BY <1>3, <2>3, <2>4, <3>1 DEF LeftOut
    <3> QED
      BY <3>2
  <2>5. CASE p \in dead \ drop /\ ch.code[p].op \in {"CALL", "SYSCALL"}
    <3>1. ch.code[p] \in Words
      BY <1>1 DEF IsCode
    <3>2. \A o : LET j == [ch.code[p] EXCEPT !.op = o, !.a = 0]
                 IN  j.op = o /\ j.fn = ch.code[p].fn /\ j.b = ch.code[p].b /\ j.c = ch.code[p].c
      BY <3>1 DEF Words
    <3>3. new.code[p] = [ch.code[p] EXCEPT !.op = IF ch.code[p].op = "CALL" THEN "CALL_VOID" ELSE "SYSCALL_VOID", !.a = 0]
      <4> HIDE DEF drop
      <4>1. CASE ch.code[p].op = "CALL"
        BY <1>2, <1>4, <2>5, <4>1
      <4>2. CASE ch.code[p].op = "SYSCALL"
        BY <1>2, <1>4, <2>5, <4>2
      <4> QED
        BY <2>5, <4>1, <4>2
    <3>4. new.code[p + 1] = ch.code[p + 1]
      <4> HIDE DEF drop
      <4> QED
        BY <2>3, <2>5 DEF WideOps
    <3> QED
      BY <2>5, <3>2, <3>3, <3>4 DEF MadeVoid, Voided
  <2>6. CASE p \notin drop /\ (p \notin dead \/ ch.code[p].op \notin {"CALL", "SYSCALL"})
    <3> HIDE DEF drop
    <3>1. new.code[p] = ch.code[p]
      BY <1>2, <1>4, <2>6
    <3> QED
      BY <2>3, <2>6, <3>1 DEF Left
  <2> QED
    BY <2>4, <2>5, <2>6
<1> QED
  BY <1>2, <1>4 DEF new

(* Where a definition has been taken away nobody wants its register.       *)
LEMMA TakenUnwanted ==
  ASSUME NEW ch, NEW T, Sound(ch), NEW p \in 0 .. ch.size - 1,
         NEW r \in Writes(ch.code[p]) \cap Registers, r \notin Writes(DeadStores(ch, T).code[p])
  PROVE  LET new == DeadStores(ch, T)
         IN  \A q \in Successors(new, p) :
               /\ ~ Wanted(new, q, r)
               /\ r \notin Writes(new.code[q]) => \A s \in Successors(new, q) : ~ Wanted(new, s, r)
<1> DEFINE new == DeadStores(ch, T)
<1>1. \E D : Settled(new, D, r) /\ Successors(new, p) \subseteq D
  BY StoresDropDead DEF Registers
<1> HIDE DEF new
<1>2. PICK D : Settled(new, D, r) /\ Successors(new, p) \subseteq D
  BY <1>1
<1>3. \A q \in Successors(new, p) : /\ ~ Wanted(new, q, r)
                                    /\ r \notin Writes(new.code[q]) => \A s \in Successors(new, q) : ~ Wanted(new, s, r)
  BY <1>2 DEF Settled, Wanted
<1> QED
  BY <1>3 DEF new

(* From an instruction to where it goes on: what is wanted there was       *)
(* written by both or is as it was.                                        *)
Bridged(old, new, p, q) ==
  \A r \in Registers : Wanted(new, q, r) =>
    \/ r \in Writes(old.code[p]) /\ r \in Writes(new.code[p])
    \/ r \notin Writes(old.code[p]) /\ r \notin Writes(new.code[p]) /\ Wanted(new, p, r)

LEMMA StoresBridge ==
  ASSUME NEW ch, NEW T, Sound(ch), NEW p \in 0 .. ch.size - 1, ch.code[p].op # "WORD"
  PROVE  LET new == DeadStores(ch, T)
         IN  /\ FallsThrough(ch, p) /\ p + Slots(ch.code[p].op) \in 0 .. ch.size - 1
                  => Bridged(ch, new, p, p + Slots(ch.code[p].op))
             /\ ch.code[p].op \in Jumps /\ TargetOf(ch, p) \in 0 .. ch.size - 1
                  => Bridged(ch, new, p, TargetOf(ch, p))
<1> DEFINE new == DeadStores(ch, T)
           t   == p + Slots(ch.code[p].op)
<1>1. /\ new.size = ch.size
      /\ Left(ch, new, p) \/ MadeVoid(ch, new, p) \/ LeftOut(ch, new, p)
  BY StoresAre
<1>2. \A r \in Writes(ch.code[p]) \cap Registers : r \notin Writes(new.code[p]) =>
        \A q \in Successors(new, p) :
          /\ ~ Wanted(new, q, r)
          /\ r \notin Writes(new.code[q]) => \A s \in Successors(new, q) : ~ Wanted(new, s, r)
  BY TakenUnwanted
<1> HIDE DEF new
<1>3. /\ Writes(Nop) = {} /\ Nop.op = "NOP" /\ Nop.op \notin Jumps /\ Slots(Nop.op) = 1
      /\ \A s : new.code[s] = Nop => FallsThrough(new, s)
  BY NopIs DEF Writes, WriteOps, WideOps, Slots, FallsThrough, Ops, Terminators, SyscallOps, Jumps, CondJumps
<1>4. Writes(new.code[p]) \subseteq Writes(ch.code[p])
  BY <1>1, <1>3 DEF Left, MadeVoid, LeftOut, Voided, Writes, WriteOps
<1>5. ASSUME NEW q \in Successors(new, p) PROVE Bridged(ch, new, p, q)
  BY <1>2, <1>4, <1>5, WantedOn DEF Bridged
<1>6. CASE Left(ch, new, p) \/ MadeVoid(ch, new, p)
  <2>1. /\ Slots(new.code[p].op) = Slots(ch.code[p].op)
        /\ ch.code[p].op \in Jumps => new.code[p] = ch.code[p]
        /\ FallsThrough(ch, p) => FallsThrough(new, p)
    <3>1. CASE Left(ch, new, p)
      BY <3>1 DEF Left, FallsThrough, SyscallOps, WideOps
    <3>2. CASE MadeVoid(ch, new, p)
      BY <3>2 DEF MadeVoid, Voided, Slots, WideOps, Jumps, CondJumps, FallsThrough, SyscallOps, Ops, Terminators
    <3> QED
      BY <1>6, <3>1, <3>2
  <2>2. ch.code[p].op \in Jumps => TargetOf(new, p) = TargetOf(ch, p)
    BY <2>1 DEF TargetOf
  <2>3. FallsThrough(ch, p) /\ t \in 0 .. ch.size - 1 => t \in Successors(new, p)
    BY <1>1, <2>1, GoesOn
  <2>4. ch.code[p].op \in Jumps /\ TargetOf(ch, p) \in 0 .. ch.size - 1 => TargetOf(ch, p) \in Successors(new, p)
    BY <1>1, <2>1, <2>2, GoesOn
  <2> QED
    BY <1>5, <2>3, <2>4 DEF new
<1>7. CASE LeftOut(ch, new, p)
  <2>1. new.code[p] = Nop /\ ch.code[p].op \notin Jumps
    BY <1>7 DEF LeftOut, WriteOps, Jumps, CondJumps
  <2>2. CASE ch.code[p].op \notin WideOps
    <3>1. t = p + 1
      BY <2>2 DEF Slots
    <3>2. t \in 0 .. ch.size - 1 => t \in Successors(new, p)
      BY <1>1, <1>3, <2>1, <3>1, GoesOn
    <3> QED
      BY <1>5, <2>1, <3>2 DEF new
  <2>3. CASE ch.code[p].op \in WideOps
    <3>1. t = p + 2 /\ new.code[p + 1] = Nop /\ p + 1 \in 0 .. ch.size - 1 /\ ch.size \in Nat /\ p \in Nat
      BY <1>7, <2>3 DEF LeftOut, Slots, Sound, Whole, IsCode
    <3>2. p + 1 \in Successors(new, p)
      BY <1>1, <1>3, <2>1, <3>1, GoesOn
    <3>3. t \in 0 .. ch.size - 1 => t \in Successors(new, p + 1)
      <4>1. (p + 1) + 1 = t
        BY <3>1
      <4> HIDE DEF t
      <4> QED
        BY <1>1, <1>3, <3>1, <4>1, GoesOn
    <3>4. t \in 0 .. ch.size - 1 => Bridged(ch, new, p, t)
      <4> SUFFICES ASSUME t \in 0 .. ch.size - 1, NEW r \in Registers, Wanted(new, t, r)
                   PROVE  r \notin Writes(ch.code[p]) /\ r \notin Writes(new.code[p]) /\ Wanted(new, p, r)
        BY DEF Bridged
      <4> HIDE DEF t
      <4>1. r \notin Writes(new.code[p]) /\ r \notin Writes(new.code[p + 1])
        BY <1>3, <2>1, <3>1
      <4>2. Wanted(new, p + 1, r)
        BY <3>3, <4>1, WantedOn
      <4>3. Wanted(new, p, r)
        BY <3>2, <4>1, <4>2, WantedOn
      <4> QED
        BY <1>2, <3>2, <4>1, <4>2, <4>3
    <3> QED
      BY <2>1, <3>4 DEF new
  <2> QED
    BY <2>2, <2>3
<1> QED
  BY <1>1, <1>6, <1>7

LEMMA StoresAgreeAt ==
  ASSUME NEW ch, NEW T, Sound(ch), NEW p \in Reached(ch),
         TidyCalls(DeadStores(ch, T)), KeepsRandom(ch, DeadStores(ch, T))
  PROVE  LET new == DeadStores(ch, T)
         IN  /\ Fetches(ch, p)
             /\ SameWork(ch, new, StillWanted(new), p) \/ Dropped(ch, new, p)
             /\ LeadsAlike(ch, new, StillWanted(new), Reached(ch), p)
             /\ Dropped(ch, new, p) => IsInstructionPure(ch, p)
<1> DEFINE new  == DeadStores(ch, T)
           same == StillWanted(new)
           i    == ch.code[p]
           j    == new.code[p]
           t    == p + Slots(i.op)
           callee == ch.code[p + 1].a
<1>1. IsCode(ch) /\ Whole(ch) /\ ch.size \in Nat /\ p \in 0 .. ch.size - 1 /\ p \in Nat
  BY DEF Sound, IsCode, Reached
<1>2. p \in Ins(ch) \/ i.op = "NOP"
  <2>1. PICK q \in Ins(ch) : Lands(ch, p, q)
    BY DEF Reached
  <2> QED
    BY <1>1, <2>1 DEF Lands, Ins
<1>3. i.op # "WORD" /\ i \in Words /\ Fetches(ch, p)
  BY <1>1, <1>2, WordIs DEF Ins, Whole, Fetches, WideOps
<1>4. new.size = ch.size /\ (Left(ch, new, p) \/ MadeVoid(ch, new, p) \/ LeftOut(ch, new, p))
  BY <1>1, <1>3, StoresAre
<1>5. /\ FallsThrough(ch, p) => t \in Reached(ch) /\ t \in 0 .. ch.size - 1
      /\ i.op \in Jumps => TargetOf(ch, p) \in Reached(ch) /\ TargetOf(ch, p) \in 0 .. ch.size - 1
      /\ i.op \in BytecodeCalls => callee \in Reached(ch) /\ callee \in 0 .. ch.size - 1
  <2>1. CASE p \in Ins(ch)
    <3>1. \A q \in Reached(ch) : q \in 0 .. ch.size - 1
      BY DEF Reached
    <3> QED
      BY <2>1, <3>1, ReachedOn
  <2>2. CASE i.op = "NOP"
    <3>1. p + 1 \in Reached(ch) /\ p + 1 \in 0 .. ch.size - 1 /\ t = p + 1
      BY <2>2, ReachedOn DEF Slots, WideOps, Reached
    <3> QED
      BY <2>2, <3>1 DEF Jumps, CondJumps, BytecodeCalls
  <2> QED
    BY <1>2, <2>1, <2>2
<1>6. /\ FallsThrough(ch, p) => Bridged(ch, new, p, t)
      /\ i.op \in Jumps => Bridged(ch, new, p, TargetOf(ch, p))
  BY <1>1, <1>3, <1>5, StoresBridge
<1>7. \A q, x, y : <<q, x, y>> \in same <=> q \in 0 .. ch.size - 1 /\ x \in Registers /\ y = x /\ Wanted(new, q, x)
  BY <1>4, StillWantedIs
<1>8. TidyCalls(new) /\ KeepsRandom(ch, new)
  OBVIOUS
<1> HIDE DEF new, same
<1>9. ASSUME Left(ch, new, p) \/ MadeVoid(ch, new, p)
      PROVE  /\ \A r \in Reads(i) : <<p, r, r>> \in same
             /\ Reads(j) = Reads(i)
             /\ i.op \in SyscallOps /\ ch.code[p + 1].fn \in {"math", "seed"} => i.c > 0
             /\ i.op \in BytecodeCalls => \A r \in Registers : Wanted(new, callee, r) => r < i.c
             /\ i.op \in {"CALL", "CALL_VOID"} =>
                  \A r \in Registers : Wanted(new, p + 2, r) => r < i.b \/ r \in Writes(j)
  <2>1. Reads(j) = Reads(i)
    BY <1>9 DEF Left, MadeVoid, Voided, Reads, WideOps
  <2>2. CASE i.op = "NOP"
    <3>1. Reads(i) = {}
      BY <2>2 DEF Reads, WideOps
    <3> QED
      BY <2>1, <2>2, <3>1 DEF SyscallOps, BytecodeCalls
  <2>3. CASE i.op # "NOP"
    <3>1. /\ j.op \notin {"NOP", "WORD"} /\ j.b = i.b /\ j.c = i.c
          /\ i.op \in SyscallOps => j.op \in SyscallOps
          /\ i.op \in BytecodeCalls => j.op \in BytecodeCalls
          /\ i.op \in {"CALL", "CALL_VOID"} => j.op \in {"CALL", "CALL_VOID"}
          /\ i.op \in WideOps => new.code[p + 1] = ch.code[p + 1]
      BY <1>3, <1>9, <2>3 DEF Left, MadeVoid, Voided, SyscallOps, BytecodeCalls, WideOps
    <3>2. p \in Ins(new)
      BY <1>1, <1>4, <3>1 DEF Ins
    <3>3. /\ Reads(j) \subseteq Registers
          /\ j.op \in SyscallOps /\ new.code[p + 1].fn \in {"math", "seed"} => j.c > 0
          /\ j.op \in BytecodeCalls => \A r \in Registers : Wanted(new, new.code[p + 1].a, r) => r < j.c
          /\ j.op \in {"CALL", "CALL_VOID"} =>
               \A r \in Registers : Wanted(new, p + 2, r) => r < j.b \/ r \in Writes(j)
      BY <1>8, <3>2 DEF TidyCalls
    <3>4. \A r \in Reads(i) : <<p, r, r>> \in same
      BY <1>1, <1>7, <2>1, <3>3, WantedOn
    <3> QED
      BY <2>1, <3>1, <3>3, <3>4 DEF SyscallOps, BytecodeCalls, WideOps
  <2> QED
    BY <2>2, <2>3
<1>10. LeftOut(ch, new, p) => Dropped(ch, new, p)
  <2> SUFFICES ASSUME LeftOut(ch, new, p) PROVE Dropped(ch, new, p)
    OBVIOUS
  <2>1. i.op \in WriteOps /\ IsInstructionPure(ch, p) /\ j.op = "NOP" /\ i.op # "NOP" /\ i.op # "CALL"
    <3>1. i.op \in WriteOps /\ IsInstructionPure(ch, p) /\ j.op = "NOP"
      BY NopIs DEF LeftOut
    <3> QED
      BY <3>1 DEF WriteOps, IsInstructionPure, CanDCE, SyscallOps
  <2>2. ASSUME i.op = "SYSCALL" PROVE new.code[p + 1].op = "NOP" /\ ch.code[p + 1].fn \in {"clock", "math"}
    <3>1. new.code[p + 1] = Nop /\ new.code[p] = Nop
      BY <2>2 DEF LeftOut, WideOps
    <3>2. ch.code[p + 1].fn \in PureSyscalls
      BY <2>1, <2>2 DEF IsInstructionPure, SyscallOps
    <3>3. ch.code[p + 1].fn # "random"
      BY <1>2, <1>8, <2>2, <3>1 DEF KeepsRandom
    <3> QED
      BY <3>1, <3>2, <3>3, NopIs DEF PureSyscalls
  <2> QED
    BY <2>1, <2>2 DEF Dropped
<1>11. Dropped(ch, new, p) => IsInstructionPure(ch, p)
  <2>1. CASE LeftOut(ch, new, p)
    BY <2>1 DEF LeftOut
  <2>2. CASE Left(ch, new, p) \/ MadeVoid(ch, new, p)
    BY <2>2 DEF Left, MadeVoid, Voided, Dropped, WriteOps
  <2> QED
    BY <1>4, <2>1, <2>2
<1>12. Left(ch, new, p) \/ MadeVoid(ch, new, p) => SameWork(ch, new, same, p)
  <2> SUFFICES ASSUME Left(ch, new, p) \/ MadeVoid(ch, new, p) PROVE SameWork(ch, new, same, p)
    OBVIOUS
  <2>1. \A r \in Reads(i) : <<p, r, r>> \in same
    BY <1>9
  <2>2. i.op \in SyscallOps /\ ch.code[p + 1].fn \in {"math", "seed"} => <<p, i.b, i.b>> \in same
    <3> SUFFICES ASSUME i.op \in SyscallOps, ch.code[p + 1].fn \in {"math", "seed"}
                 PROVE  i.b \in Reads(i)
      BY <2>1
    <3>1. i.c > 0 /\ i.b \in Int /\ i.c \in Int
      BY <1>3, <1>9 DEF Words
    <3>2. i.b \in i.b .. (i.b + i.c - 1)
      BY <3>1
    <3> QED
      BY <3>2 DEF Reads, SyscallOps, WideOps
  <2>3. CASE Left(ch, new, p)
    <3>1. /\ i.op \in {"RET", "JUMP_IF_TRUE", "JUMP_IF_FALSE", "JUMP_CMP", "JUMP_CMP_IMM", "STORE_GLOBAL"}
               => i.a \in Reads(i)
          /\ i.op \in {"JUMP_CMP", "MOVE", "UNARY", "ALU", "ALU_IMM"} => i.b \in Reads(i)
          /\ i.op = "ALU" => i.c \in Reads(i)
      BY DEF Reads, WideOps
    <3> QED
      BY <2>1, <2>2, <2>3, <3>1 DEF SameWork, Left
  <2>4. CASE MadeVoid(ch, new, p)
    <3>1. /\ <<i.op, j.op>> \in Voided /\ j.fn = i.fn /\ j.b = i.b /\ j.c = i.c /\ new.code[p + 1] = ch.code[p + 1]
          /\ i.op \in {"CALL", "SYSCALL"}
      BY <2>4 DEF MadeVoid
    <3> QED
      BY <2>1, <2>2, <3>1 DEF SameWork, Jumps, CondJumps
  <2> QED
    BY <2>3, <2>4
<1>13. ASSUME NEW q, Bridged(ch, new, p, q), q \in 0 .. ch.size - 1
       PROVE  \A x, y : <<q, x, y>> \in same => Carried(ch, new, same, p, x, y)
  <2> SUFFICES ASSUME NEW x, NEW y, <<q, x, y>> \in same PROVE Carried(ch, new, same, p, x, y)
    OBVIOUS
  <2>1. x \in Registers /\ y = x /\ Wanted(new, q, x)
    BY <1>7
  <2>2. \/ x \in Writes(i) /\ x \in Writes(j)
        \/ x \notin Writes(i) /\ x \notin Writes(j) /\ Wanted(new, p, x)
    BY <1>13, <2>1 DEF Bridged
  <2> QED
    BY <1>1, <1>7, <2>1, <2>2 DEF Carried
<1>14. BytecodeCalls \cap WriteOps = {"CALL"}
  BY DEF BytecodeCalls, WriteOps
<1>15. i.op \in BytecodeCalls => Left(ch, new, p) \/ MadeVoid(ch, new, p)
  BY <1>4, <1>10, <1>14 DEF Dropped
<1>16. ASSUME i.op \in {"CALL", "CALL_VOID"}
       PROVE  /\ \A x, y : <<callee, x, y>> \in same => CarriedIn(ch, same, p, x, y)
              /\ t = p + 2 /\ \A x, y : <<t, x, y>> \in same => CarriedOver(ch, new, same, p, x, y)
  <2>1. i.op \in BytecodeCalls /\ i.op \in WideOps /\ FallsThrough(ch, p) /\ t = p + 2
    BY <1>16 DEF BytecodeCalls, WideOps, FallsThrough, Slots, Ops, Terminators, SyscallOps
  <2>2. Left(ch, new, p) \/ MadeVoid(ch, new, p)
    BY <1>15, <2>1
  <2>3. /\ \A r \in Reads(i) : <<p, r, r>> \in same
        /\ \A r \in Registers : Wanted(new, callee, r) => r < i.c
        /\ \A r \in Registers : Wanted(new, t, r) => r < i.b \/ r \in Writes(j)
    BY <1>9, <1>16, <2>1, <2>2
  <2>4. Reads(i) = i.b .. (i.b + i.c - 1) /\ i.b \in Int /\ i.c \in Int
    BY <1>3, <2>1 DEF Reads, WideOps, Words
  <2>5. ASSUME NEW x, NEW y, <<callee, x, y>> \in same PROVE CarriedIn(ch, same, p, x, y)
    <3>1. y = x /\ x \in Nat /\ x < i.c
      BY <1>7, <2>3, <2>5 DEF Registers
    <3>2. i.b + x \in i.b .. (i.b + i.c - 1)
      BY <2>4, <3>1
    <3> QED
      BY <2>3, <2>4, <3>1, <3>2 DEF CarriedIn
  <2>6. ASSUME NEW x, NEW y, <<t, x, y>> \in same PROVE CarriedOver(ch, new, same, p, x, y)
    <3>1. x \in Registers /\ y = x /\ Wanted(new, t, x)
      BY <1>7, <2>6
    <3>2. \/ x \in Writes(i) /\ x \in Writes(j)
          \/ x \notin Writes(i) /\ x \notin Writes(j) /\ Wanted(new, p, x)
      BY <1>6, <2>1, <3>1 DEF Bridged
    <3>3. x < i.b \/ x \in Writes(j)
      BY <2>3, <3>1
    <3>4. Wanted(new, p, x) => <<p, x, x>> \in same
      BY <1>1, <1>7, <3>1
    <3> QED
      BY <3>1, <3>2, <3>3, <3>4 DEF CarriedOver
  <2> QED
    BY <2>1, <2>5, <2>6
<1>17. ASSUME i.op = "TAILCALL"
       PROVE  \A x, y : <<callee, x, y>> \in same => CarriedDown(ch, same, p, x, y)
  <2>1. i.op \in BytecodeCalls /\ i.op \in WideOps
    BY <1>17 DEF BytecodeCalls, WideOps
  <2>2. Left(ch, new, p) \/ MadeVoid(ch, new, p)
    BY <1>15, <2>1
  <2>3. /\ \A r \in Reads(i) : <<p, r, r>> \in same
        /\ \A r \in Registers : Wanted(new, callee, r) => r < i.c
    BY <1>9, <2>1, <2>2
  <2>4. Reads(i) = i.b .. (i.b + i.c - 1) /\ i.b \in Int /\ i.c \in Int
    BY <1>3, <2>1 DEF Reads, WideOps, Words
  <2> SUFFICES ASSUME NEW x, NEW y, <<callee, x, y>> \in same PROVE CarriedDown(ch, same, p, x, y)
    OBVIOUS
  <2>5. y = x /\ x \in Nat /\ x < i.c
    BY <1>7, <2>3 DEF Registers
  <2>6. i.b + x \in i.b .. (i.b + i.c - 1)
    BY <2>4, <2>5
  <2> QED
    BY <2>3, <2>4, <2>5, <2>6 DEF CarriedDown
<1>18. LeadsAlike(ch, new, same, Reached(ch), p)
  <2>1. i.op \in Jumps => /\ JumpTarget(p, i) \in Reached(ch)
                          /\ \A x, y : <<JumpTarget(p, i), x, y>> \in same => Carried(ch, new, same, p, x, y)
    BY <1>5, <1>6, <1>13 DEF TargetOf
  <2>2. FallsThrough(ch, p) => /\ t \in Reached(ch)
                               /\ \A x, y : <<t, x, y>> \in same => Carried(ch, new, same, p, x, y)
    BY <1>5, <1>6, <1>13
  <2>3. /\ i.op \in {"CALL", "CALL_VOID"} => i.op \in BytecodeCalls /\ FallsThrough(ch, p)
        /\ i.op = "TAILCALL" => i.op \in BytecodeCalls
    BY DEF BytecodeCalls, FallsThrough, Ops, Terminators, SyscallOps
  <2> HIDE DEF i
  <2> QED
    BY <1>5, <1>16, <1>17, <2>1, <2>2, <2>3 DEF LeadsAlike, i
<1> QED
  BY <1>3, <1>4, <1>10, <1>11, <1>12, <1>18 DEF new, same

(* What EliminateDeadStores leaves agrees with what it was given on every  *)
(* register that is still wanted, and what it drops is pure.               *)
StoresAgree ==
  [][EliminateDeadStores =>
       \E same, here :
         /\ Agrees(work, work', same, here)
         /\ \A p, x, y : <<p, x, y>> \in same => x \in Registers /\ y \in Registers
         /\ \A p \in here : Dropped(work, work', p) => IsInstructionPure(work, p)]_optVars

(* Whatever the program and the number of registers: code that has been    *)
(* through EliminateDeadStores agrees with the code before, wherever       *)
(* control comes to, if calls use the registers as the code generator lays *)
(* them out and no random number that was drawn is left out.               *)
(* AgreeingRuns of AcuVM_proofs says that it then runs the same.           *)
THEOREM DeadStoresAgree ==
  ASSUME \A ch \in Programs : IsCode(ch) /\ WellFormed(ch)
  PROVE  Spec /\ [][EliminateDeadStores => TidyCalls(work') /\ KeepsRandom(work, work')]_optVars => StoresAgree
<1>1. ASSUME IInv, EliminateDeadStores, TidyCalls(work'), KeepsRandom(work, work')
      PROVE  \E same, here :
               /\ Agrees(work, work', same, here)
               /\ \A p, x, y : <<p, x, y>> \in same => x \in Registers /\ y \in Registers
               /\ \A p \in here : Dropped(work, work', p) => IsInstructionPure(work, p)
  <2>1. work' = DeadStores(work, targets) /\ Sound(work) /\ work.size > 0
    BY <1>1 DEF EliminateDeadStores, Pass, IInv, Phases
  <2> DEFINE same == StillWanted(work')
             here == Reached(work)
  <2>2. \A p \in here : /\ Fetches(work, p)
                        /\ SameWork(work, work', same, p) \/ Dropped(work, work', p)
                        /\ LeadsAlike(work, work', same, here, p)
                        /\ Dropped(work, work', p) => IsInstructionPure(work, p)
    BY <1>1, <2>1, StoresAgreeAt
  <2>3. \A x \in DOMAIN work \ {"code", "fn"} : work'[x] = work[x]
    BY <2>1, StoresAre
  <2>4. 0 \in here
    BY <2>1, ReachedOn
  <2>5. \A p, x, y : <<p, x, y>> \in same => x \in Registers /\ y \in Registers
    BY StillWantedIs
  <2> HIDE DEF same, here
  <2>6. Agrees(work, work', same, here)
    BY <2>1, <2>2, <2>3, <2>4 DEF Agrees
  <2> QED
    BY <2>2, <2>5, <2>6
<1>2. /\ IInv /\ [Next]_optVars
      /\ [EliminateDeadStores => TidyCalls(work') /\ KeepsRandom(work, work')]_optVars
      => [EliminateDeadStores =>
            \E same, here :
              /\ Agrees(work, work', same, here)
              /\ \A p, x, y : <<p, x, y>> \in same => x \in Registers /\ y \in Registers
              /\ \A p \in here : Dropped(work, work', p) => IsInstructionPure(work, p)]_optVars
  BY <1>1
<1> QED
  BY <1>2, OptimizerInv, PTL DEF Spec, StoresAgree
-----------------------------------------------------------------------------
(* Code that uses registers as the code generator does is tidy after       *)
(* EliminateDeadCode and EliminateDeadStores.                              *)

LEMMA SuccessorsGoOn ==
  ASSUME NEW ch, IsCode(ch), Whole(ch), NEW p \in 0 .. ch.size - 1, ch.code[p].op # "WORD"
  PROVE  Successors(ch, p) \subseteq WaysOn(ch, p)
<1>1. ~ IsInstructionTerminator(ch, p) => FallsThrough(ch, p)
  <2>1. CASE p \in Ins(ch)
    BY <2>1, NoEndFalls
  <2>2. CASE ch.code[p].op = "NOP"
    BY <2>2 DEF FallsThrough, Ops, Terminators, SyscallOps
  <2> QED
    BY <2>1, <2>2 DEF Ins
<1> QED
  BY <1>1 DEF Successors, WaysOn, TargetOf

(* The same instruction goes on to the same words.                         *)
LEMMA SameSuccessors ==
  ASSUME NEW old, NEW new, NEW p, new.size = old.size, new.code[p] = old.code[p],
         old.code[p].op \in WideOps => new.code[p + 1] = old.code[p + 1]
  PROVE  Successors(new, p) = Successors(old, p)
<1>1. IsInstructionTerminator(new, p) = IsInstructionTerminator(old, p)
  BY DEF IsInstructionTerminator, SysTerminator, WideOps, SyscallOps
<1> QED
  BY <1>1 DEF Successors, TargetOf

LEMMA ClearedWants ==
  ASSUME NEW old, NEW new, NEW here, NEW live, IsCode(old), Whole(old), new.size = old.size,
         LeavesAlone(old, new, here), CoversReads(old, live),
         NEW p \in here, NEW r, Wanted(new, p, r)
  PROVE  r \in live[p]
<1> SUFFICES ASSUME r \notin live[p] PROVE FALSE
  OBVIOUS
<1> DEFINE D == {q \in here : r \notin live[q]}
<1>1. ASSUME NEW q \in D
      PROVE  r \notin Reads(new.code[q]) /\ (r \in Writes(new.code[q]) \/ Successors(new, q) \subseteq D)
  <2>1. /\ q \in 0 .. old.size - 1 /\ old.code[q].op # "WORD" /\ new.code[q] = old.code[q]
        /\ Successors(new, q) = Successors(old, q) /\ Successors(old, q) \subseteq here
    BY SameSuccessors DEF LeavesAlone
  <2>2. Successors(old, q) \subseteq WaysOn(old, q)
    BY <2>1, SuccessorsGoOn
  <2>3. /\ Reads(old.code[q]) \subseteq live[q]
        /\ \A s \in WaysOn(old, q) : live[s] \ Writes(old.code[q]) \subseteq live[q]
    BY <2>1 DEF CoversReads
  <2> QED
    BY <2>1, <2>2, <2>3
<1>2. Settled(new, D, r)
  BY <1>1 DEF Settled
<1> HIDE DEF D
<1>3. p \in D
  BY DEF D
<1> QED
  BY <1>2, <1>3 DEF Wanted

LEMMA StoresOnPayloads ==
  ASSUME NEW ch, NEW T, Sound(ch), NEW q \in 0 .. ch.size - 1, ch.code[q].op = "WORD"
  PROVE  DeadStores(ch, T).code[q] \in {Nop, ch.code[q]}
<1> DEFINE new == DeadStores(ch, T)
<1>1. /\ q - 1 \in 0 .. ch.size - 1 /\ ch.code[q - 1].op \in WideOps /\ (q - 1) + 1 = q
      /\ ch.code[q - 1].op # "WORD"
  BY DEF Sound, Whole, IsCode, WideOps
<1>2. Left(ch, new, q - 1) \/ MadeVoid(ch, new, q - 1) \/ LeftOut(ch, new, q - 1)
  BY <1>1, StoresAre
<1> HIDE DEF new
<1>3. new.code[q] \in {Nop, ch.code[q]}
  BY <1>1, <1>2 DEF Left, MadeVoid, LeftOut
<1> QED
  BY <1>3 DEF new

(* What is left wants no more than what was there.                         *)
LEMMA StoresWantLess ==
  ASSUME NEW ch, NEW T, Sound(ch), NEW p \in 0 .. ch.size - 1,
         NEW r \in Registers, Wanted(DeadStores(ch, T), p, r)
  PROVE  Wanted(ch, p, r)
<1> SUFFICES ASSUME NEW D, p \in D, Settled(ch, D, r) PROVE FALSE
  BY DEF Wanted
<1> DEFINE new == DeadStores(ch, T)
           N   == 0 .. ch.size - 1
           E   == {q \in N : ~ Wanted(new, q, r)}
           H   == {q \in N : \E s \in D \cap N : /\ q = s + 1 /\ ch.code[s].op = "SYSCALL" /\ r \notin Writes(ch.code[s])
                                               /\ new.code[q] = Nop}
           G   == (D \cap N) \union E \union H
<1>1. IsCode(ch) /\ Whole(ch) /\ ch.size \in Nat /\ new.size = ch.size
  BY StoresAre DEF Sound, IsCode
<1>2. Reads(Nop) = {} /\ Writes(Nop) = {} /\ Nop.op = "NOP"
  BY DEF Nop, Inst, Reads, Writes, WriteOps, WideOps
<1>3. \A q \in N : new.code[q] = Nop => Successors(new, q) = {q + 1} \cap N
  BY <1>1, <1>2 DEF Successors, IsInstructionTerminator, SysTerminator, Terminators, SyscallOps, Jumps, CondJumps,
                    Slots, WideOps
<1>4. \A q \in N : r \in Writes(ch.code[q]) /\ r \notin Writes(new.code[q]) => Successors(new, q) \subseteq E
  <2> SUFFICES ASSUME NEW q \in N, r \in Writes(ch.code[q]), r \notin Writes(new.code[q])
               PROVE  Successors(new, q) \subseteq E
    OBVIOUS
  <2>1. \A s \in Successors(new, q) : ~ Wanted(new, s, r)
    BY TakenUnwanted
  <2>2. Successors(new, q) \subseteq N
    BY <1>1 DEF Successors
  <2> HIDE DEF new, N
  <2> QED
    BY <2>1, <2>2
<1>5. ASSUME NEW q \in E
      PROVE  r \notin Reads(new.code[q]) /\ (r \in Writes(new.code[q]) \/ Successors(new, q) \subseteq G)
  <2> HIDE DEF new
  <2>1. PICK F : q \in F /\ Settled(new, F, r)
    BY DEF Wanted
  <2>2. r \notin Reads(new.code[q]) /\ (r \in Writes(new.code[q]) \/ Successors(new, q) \subseteq F)
    BY <2>1 DEF Settled
  <2>3. \A s \in F : ~ Wanted(new, s, r)
    BY <2>1 DEF Wanted
  <2>4. Successors(new, q) \subseteq N
    BY <1>1 DEF Successors
  <2> QED
    BY <2>2, <2>3, <2>4
<1>6. ASSUME NEW q \in D \cap N
      PROVE  r \notin Reads(new.code[q]) /\ (r \in Writes(new.code[q]) \/ Successors(new, q) \subseteq G)
  <2>1. /\ r \notin Reads(ch.code[q]) /\ (r \in Writes(ch.code[q]) \/ Successors(ch, q) \subseteq D)
        /\ Successors(ch, q) \subseteq N
    BY DEF Settled, Successors
  <2>2. ASSUME ch.code[q].op # "WORD", Left(ch, new, q)
        PROVE  r \notin Reads(new.code[q]) /\ (r \in Writes(new.code[q]) \/ Successors(new, q) \subseteq G)
    <3> HIDE DEF new
    <3>1. Successors(new, q) = Successors(ch, q) /\ new.code[q] = ch.code[q]
      BY <1>1, <2>2, SameSuccessors DEF Left
    <3> QED
      BY <2>1, <3>1
  <2>3. ASSUME MadeVoid(ch, new, q)
        PROVE  r \notin Reads(new.code[q]) /\ (r \in Writes(new.code[q]) \/ Successors(new, q) \subseteq G)
    <3> HIDE DEF new
    <3>1. Successors(new, q) = Successors(ch, q)
      <4>1. IsInstructionTerminator(new, q) = IsInstructionTerminator(ch, q)
        BY <1>1, <2>3 DEF MadeVoid, Voided, IsInstructionTerminator, SysTerminator, Terminators, SyscallOps
      <4> QED
        BY <1>1, <2>3, <4>1 DEF MadeVoid, Voided, Successors, Slots, WideOps, Jumps, CondJumps
    <3>2. Reads(new.code[q]) = Reads(ch.code[q])
      BY <2>3 DEF MadeVoid, Voided, Reads, WideOps
    <3>3. CASE r \in Writes(ch.code[q])
      BY <1>4, <2>1, <3>2, <3>3
    <3>4. CASE r \notin Writes(ch.code[q])
      BY <2>1, <3>1, <3>2, <3>4
    <3> QED
      BY <3>3, <3>4
  <2>4. ASSUME LeftOut(ch, new, q)
        PROVE  r \notin Reads(new.code[q]) /\ (r \in Writes(new.code[q]) \/ Successors(new, q) \subseteq G)
    <3>1. new.code[q] = Nop /\ Successors(new, q) = {q + 1} \cap N /\ ch.code[q].op \in WriteOps
      BY <1>3, <2>4 DEF LeftOut
    <3>2. CASE r \in Writes(ch.code[q])
      <4> HIDE DEF new
      <4> QED
        BY <1>2, <1>4, <3>1, <3>2
    <3>3. CASE r \notin Writes(ch.code[q])
      <4>1. q \in Ins(ch) /\ IsInstructionPure(ch, q)
        BY <2>4, <3>1 DEF LeftOut, Ins, WriteOps
      <4>2. FallsThrough(ch, q) /\ ch.code[q].op # "CALL"
        BY <3>1, <4>1, PureFalls
      <4>3. CASE ch.code[q].op = "SYSCALL"
        <5>1. new.code[q + 1] = Nop
          BY <2>4, <4>3 DEF LeftOut, WideOps
        <5> HIDE DEF new
        <5>2. \A s \in N : s = q + 1 => s \in H
          BY <3>3, <4>3, <5>1
        <5> HIDE DEF H
        <5> QED
          BY <1>2, <3>1, <5>2
      <4>4. CASE ch.code[q].op # "SYSCALL"
        <5>1. Slots(ch.code[q].op) = 1
          BY <3>1, <4>2, <4>4 DEF Slots, WideOps, WriteOps
        <5>2. ~ IsInstructionTerminator(ch, q)
          BY <4>2, FallingIsNoEnd
        <5>3. {q + 1} \cap N \subseteq Successors(ch, q)
          BY <5>1, <5>2 DEF Successors
        <5> HIDE DEF new
        <5> QED
          BY <1>2, <2>1, <3>1, <3>3, <5>3
      <4> QED
        BY <4>3, <4>4
    <3> QED
      BY <3>2, <3>3
  <2>5. CASE ch.code[q].op # "WORD"
    <3>1. Left(ch, new, q) \/ MadeVoid(ch, new, q) \/ LeftOut(ch, new, q)
      BY <2>5, StoresAre
    <3> HIDE DEF new, G
    <3> QED
      BY <2>2, <2>3, <2>4, <2>5, <3>1
  <2>6. CASE ch.code[q].op = "WORD"
    <3>1. new.code[q] \in {Nop, ch.code[q]}
      BY <2>6, StoresOnPayloads
    <3> HIDE DEF new
    <3>2. CASE new.code[q] = ch.code[q]
      <4>1. Successors(new, q) = Successors(ch, q)
        BY <1>1, <2>6, <3>2, SameSuccessors DEF WideOps
      <4> QED
        BY <2>1, <3>2, <4>1
    <3>3. CASE new.code[q] = Nop
      <4>1. {q + 1} \cap N \subseteq Successors(ch, q) /\ Writes(ch.code[q]) = {}
        BY <2>6 DEF Successors, IsInstructionTerminator, SysTerminator, Terminators, SyscallOps, Slots, WideOps,
                    Writes, WriteOps
      <4> QED
        BY <1>2, <1>3, <2>1, <3>3, <4>1
    <3> QED
      BY <3>1, <3>2, <3>3
  <2> QED
    BY <2>5, <2>6
<1>7. ASSUME NEW q \in H
      PROVE  r \notin Reads(new.code[q]) /\ (r \in Writes(new.code[q]) \/ Successors(new, q) \subseteq G)
  <2>1. PICK s \in D \cap N : q = s + 1 /\ ch.code[s].op = "SYSCALL" /\ r \notin Writes(ch.code[s]) /\ new.code[q] = Nop
    OBVIOUS
  <2>2. Successors(ch, s) \subseteq D
    BY <2>1 DEF Settled
  <2>3. q \in N /\ Successors(new, q) = {s + 2} \cap N
    <3>1. (s + 1) + 1 = s + 2 /\ q \in N
      BY <1>1, <2>1
    <3> HIDE DEF new, N, H
    <3> QED
      BY <1>3, <2>1, <3>1
  <2>4. {s + 2} \cap N \subseteq Successors(ch, s)
    <3>1. Left(ch, new, s) \/ MadeVoid(ch, new, s) \/ LeftOut(ch, new, s)
      BY <2>1, StoresAre
    <3>2. ch.code[s + 1].op = "WORD"
      BY <1>1, <2>1 DEF Whole, WideOps
    <3>3. LeftOut(ch, new, s)
      <4> HIDE DEF new
      <4> QED
        BY <1>2, <2>1, <3>1, <3>2 DEF Left, MadeVoid, WideOps
    <3>4. s \in Ins(ch) /\ IsInstructionPure(ch, s) /\ ch.code[s].op \in WriteOps
      BY <2>1, <3>3 DEF LeftOut, Ins
    <3>5. ~ IsInstructionTerminator(ch, s)
      BY <3>4, PureFalls, FallingIsNoEnd
    <3> QED
      BY <2>1, <3>5 DEF Successors, Slots, WideOps
  <2> HIDE DEF new, N
  <2> QED
    BY <1>2, <2>1, <2>2, <2>3, <2>4
<1> HIDE DEF new, E, H, N
<1>8. Settled(new, G, r)
  BY <1>5, <1>6, <1>7 DEF Settled
<1>9. p \in G
  BY DEF N
<1> QED
  BY <1>8, <1>9 DEF Wanted, new

(* The answers that are wanted of cleared code are those of the code.      *)
LEMMA ClearedAnswers ==
  ASSUME NEW old, NEW new, NEW here, NEW valued, IsCode(old), WellFormed(old), new.size = old.size, IsCode(new),
         LeavesAlone(old, new, here), Answers(old, {p \in 0 .. old.size - 1 : old.code[p].op # "WORD"}, valued)
  PROVE  Answers(new, Reached(new), valued \cap here)
<1> SUFFICES ASSUME NEW p \in Reached(new)
             PROVE  LET i == new.code[p]
                        answer == valued \cap here
                    IN  /\ i.op = "CALL" => new.code[p + 1].a \in answer
                        /\ p \in answer => /\ i.op # "RET_VOID"
                                           /\ i.op \in Jumps => JumpTarget(p, i) \in answer
                                           /\ FallsThrough(new, p) => p + Slots(i.op) \in answer
                                           /\ i.op = "TAILCALL" => new.code[p + 1].a \in answer
  BY DEF Answers
<1>1. CASE p \in here
  <2>1. /\ p \in 0 .. old.size - 1 /\ old.code[p].op # "WORD" /\ new.code[p] = old.code[p]
        /\ old.code[p].op \in WideOps => new.code[p + 1] = old.code[p + 1]
        /\ Successors(old, p) \subseteq here
        /\ old.code[p].op \in BytecodeCalls => old.code[p + 1].a \in here
    BY <1>1 DEF LeavesAlone
  <2>2. /\ old.code[p].op = "CALL" => old.code[p + 1].a \in valued
        /\ p \in valued => /\ old.code[p].op # "RET_VOID"
                           /\ old.code[p].op \in Jumps => JumpTarget(p, old.code[p]) \in valued
                           /\ FallsThrough(old, p) => p + Slots(old.code[p].op) \in valued
                           /\ old.code[p].op = "TAILCALL" => old.code[p + 1].a \in valued
    BY <2>1 DEF Answers
  <2>3. FallsThrough(new, p) => FallsThrough(old, p)
    BY <2>1 DEF FallsThrough, SyscallOps, WideOps
  <2>4. /\ FallsThrough(old, p) => p + Slots(old.code[p].op) \in 0 .. old.size - 1
        /\ old.code[p].op \in Jumps => TargetOf(old, p) \in 0 .. old.size - 1
    BY <2>1 DEF WellFormed, WellFormedAt, InstrOf, TargetOf
  <2>5. /\ FallsThrough(old, p) => p + Slots(old.code[p].op) \in here
        /\ old.code[p].op \in Jumps => TargetOf(old, p) \in here
    BY <2>1, <2>4, GoesOn
  <2> QED
    BY <2>1, <2>2, <2>3, <2>5 DEF TargetOf, WideOps, BytecodeCalls
<1>2. CASE p \notin here
  <2>1. new.code[p].op = "NOP"
    BY <1>2, ReachedIs DEF LeavesAlone
  <2> QED
    BY <1>2, <2>1
<1> QED
  BY <1>1, <1>2

(* With such code EliminateDeadStores can be relied on.                    *)
LEMMA DisciplinedIsTidy ==
  ASSUME NEW ch, IsCode(ch), WellFormed(ch), ch.size > 0,
         NEW live, NEW valued, Disciplined(ch, Registers, live, valued)
  PROVE  LET old == DeadCode(ch, JumpTargets(ch))
             new == DeadStores(old, JumpTargets(ch))
         IN  /\ TidyCalls(new)
             /\ \E answers : Answers(old, Reached(old), answers)
             /\ \A p \in Ins(old) : /\ p \in 0 .. ch.size - 1 /\ old.code[p] = ch.code[p]
                                    /\ Reads(old.code[p]) \subseteq Registers
<1> DEFINE T   == JumpTargets(ch)
           old == DeadCode(ch, T)
           new == DeadStores(old, T)
<1>1. Sound(ch) /\ Aimed(ch, T) /\ ch.size \in Nat /\ Whole(ch)
  BY WellFormedIsSound, CollectedAim DEF Sound, IsCode
<1>2. Kept(ch, old, T) /\ \E here : LeavesAlone(ch, old, here)
  BY <1>1, DeadCodeKeeps
<1>3. /\ Sound(old) /\ old.size = ch.size
      /\ IsCode(old)
  BY <1>2 DEF Kept, Sound
<1>4. PICK here : LeavesAlone(ch, old, here)
  BY <1>2
<1>5. /\ new.size = old.size
      /\ \A p \in 0 .. old.size - 1 : old.code[p].op # "WORD" =>
           Left(old, new, p) \/ MadeVoid(old, new, p) \/ LeftOut(old, new, p)
      /\ \A p \in 0 .. old.size - 1 : old.code[p].op = "WORD" => new.code[p] \in {Nop, old.code[p]}
  BY <1>3, StoresAre, StoresOnPayloads
<1>6. \A p \in 0 .. old.size - 1 : \A r \in Registers : Wanted(new, p, r) => Wanted(old, p, r)
  BY <1>3, StoresWantLess
<1>7. \A p \in 0 .. old.size - 1 : \A r \in Writes(old.code[p]) \cap Registers : r \notin Writes(new.code[p]) =>
        \A q \in Successors(new, p) : ~ Wanted(new, q, r)
  BY <1>3, TakenUnwanted
<1> HIDE DEF T, old, new
<1>8. ASSUME NEW p \in here, NEW r \in Registers, Wanted(new, p, r) PROVE r \in live[p]
  <2>1. CoversReads(ch, live) /\ p \in 0 .. old.size - 1
    BY <1>3, <1>4 DEF Disciplined, LeavesAlone
  <2>2. Wanted(old, p, r)
    BY <1>6, <1>8, <2>1
  <2> QED
    BY <1>1, <1>3, <1>4, <2>1, <2>2, ClearedWants
<1>9. ASSUME NEW p \in here
      PROVE  /\ p \in 0 .. ch.size - 1 /\ ch.code[p].op # "WORD" /\ old.code[p] = ch.code[p]
             /\ ch.code[p].op \in WideOps => old.code[p + 1] = ch.code[p + 1]
             /\ ch.code[p].op \in BytecodeCalls => ch.code[p + 1].a \in here
             /\ Reads(ch.code[p]) \subseteq Registers
  <2>1. p \in 0 .. ch.size - 1 /\ live \in [0 .. ch.size - 1 -> SUBSET Registers]
    BY <1>4 DEF LeavesAlone, Disciplined
  <2>2. Reads(ch.code[p]) \subseteq live[p]
    BY <2>1 DEF Disciplined, CoversReads
  <2> QED
    BY <1>4, <2>1, <2>2 DEF LeavesAlone
<1>10. ASSUME NEW p \in Ins(new)
       PROVE  LET i == new.code[p]
              IN  /\ Reads(i) \subseteq Registers
                  /\ i.op \in SyscallOps /\ new.code[p + 1].fn \in {"math", "seed"} => i.c > 0
                  /\ i.op \in BytecodeCalls => \A r \in Registers : Wanted(new, new.code[p + 1].a, r) => r < i.c
                  /\ i.op \in {"CALL", "CALL_VOID"} =>
                       \A r \in Registers : Wanted(new, p + 2, r) => r < i.b \/ r \in Writes(i)
  <2> DEFINE i == ch.code[p]
             j == new.code[p]
  <2>1. p \in 0 .. old.size - 1 /\ j.op \notin {"WORD", "NOP"} /\ j # Nop
    BY <1>5 DEF Ins, Nop, Inst
  <2>2. /\ Left(old, new, p) \/ MadeVoid(old, new, p)
        /\ old.code[p].op \notin {"WORD", "NOP"}
    <3>1. old.code[p].op # "WORD"
      BY <1>5, <2>1
    <3> QED
      BY <1>5, <2>1, <3>1 DEF LeftOut, Left, MadeVoid
  <2>3. p \in here
    BY <1>4, <2>1, <2>2 DEF LeavesAlone, Ins
  <2>4. /\ p \in 0 .. ch.size - 1 /\ old.code[p] = i
        /\ i.op \in WideOps => new.code[p + 1] = ch.code[p + 1]
        /\ i.op \in BytecodeCalls => ch.code[p + 1].a \in here
        /\ Reads(i) \subseteq Registers
    BY <1>9, <2>2, <2>3 DEF Left, MadeVoid, WideOps
  <2>5. /\ j.b = i.b /\ j.c = i.c /\ Reads(j) = Reads(i)
        /\ j.op = i.op \/ (i.op = "CALL" /\ j.op = "CALL_VOID") \/ (i.op = "SYSCALL" /\ j.op = "SYSCALL_VOID")
        /\ j.op = i.op => j = i
    <3>1. CASE Left(old, new, p)
      BY <2>4, <3>1 DEF Left
    <3>2. CASE MadeVoid(old, new, p)
      BY <2>4, <3>2 DEF MadeVoid, Voided, Reads, WideOps
    <3> QED
      BY <2>2, <3>1, <3>2
  <2>6. /\ i.op \in SyscallOps /\ ch.code[p + 1].fn \in {"math", "seed"} => i.c > 0
        /\ i.op \in BytecodeCalls => live[ch.code[p + 1].a] \subseteq 0 .. i.c - 1
        /\ i.op \in {"CALL", "CALL_VOID"} => \A r \in live[p + 2] : r < i.b \/ r \in Writes(i)
    BY <2>4 DEF Disciplined, KeepsWindows
  <2>7. i \in Words
    BY <2>4 DEF IsCode
  <2>8. j.op \in SyscallOps /\ new.code[p + 1].fn \in {"math", "seed"} => j.c > 0
    BY <2>4, <2>5, <2>6 DEF SyscallOps, WideOps
  <2>9. ASSUME j.op \in BytecodeCalls, NEW r \in Registers, Wanted(new, new.code[p + 1].a, r) PROVE r < j.c
    <3>1. i.op \in BytecodeCalls /\ i.op \in WideOps
      BY <2>5, <2>9 DEF BytecodeCalls, WideOps
    <3>2. r \in live[ch.code[p + 1].a]
      BY <1>8, <2>4, <2>9, <3>1
    <3>3. r \in 0 .. i.c - 1 /\ i.c \in Int
      BY <2>6, <2>7, <3>1, <3>2 DEF Words
    <3> QED
      BY <2>5, <3>3
  <2>10. ASSUME j.op \in {"CALL", "CALL_VOID"}, NEW r \in Registers, Wanted(new, p + 2, r)
         PROVE  r < j.b \/ r \in Writes(j)
    <3>1. i.op \in {"CALL", "CALL_VOID"} /\ Slots(i.op) = 2 /\ Slots(j.op) = 2
      BY <2>5, <2>10 DEF Slots, WideOps
    <3>2. p + 2 \in 0 .. ch.size - 1 /\ p + 2 \in here
      <4>1. FallsThrough(ch, p)
        BY <3>1 DEF FallsThrough, Ops, Terminators, SyscallOps
      <4>2. p + 2 \in 0 .. ch.size - 1
        BY <2>4, <2>2, <3>1, <4>1 DEF WellFormed, WellFormedAt, InstrOf
      <4>3. p + 2 \in Successors(ch, p)
        BY <3>1, <4>1, <4>2, GoesOn
      <4> QED
        BY <1>4, <2>3, <4>2, <4>3 DEF LeavesAlone
    <3>3. r \in live[p + 2]
      BY <1>8, <2>10, <3>2
    <3>4. r < i.b \/ r \in Writes(i)
      BY <2>6, <3>1, <3>3
    <3>5. r \in Writes(i) => r \in Writes(j)
      <4> SUFFICES ASSUME r \in Writes(i), r \notin Writes(j) PROVE FALSE
        OBVIOUS
      <4>1. p + 2 \in Successors(new, p)
        <5>1. ~ IsInstructionTerminator(new, p)
          BY <2>10 DEF IsInstructionTerminator, SysTerminator, Terminators, SyscallOps
        <5> QED
          BY <1>3, <1>5, <3>1, <3>2, <5>1 DEF Successors
      <4> QED
        BY <1>7, <2>1, <2>4, <2>10, <4>1
    <3> QED
      BY <2>5, <3>4, <3>5
  <2> QED
    BY <2>4, <2>5, <2>8, <2>9, <2>10
<1>11. TidyCalls(new)
  BY <1>10 DEF TidyCalls
<1>12. Answers(old, Reached(old), valued \cap here)
  BY <1>3, <1>4, ClearedAnswers DEF Disciplined
<1>13. \A p \in Ins(old) : /\ p \in 0 .. ch.size - 1 /\ old.code[p] = ch.code[p]
                          /\ Reads(old.code[p]) \subseteq Registers
  BY <1>4, <1>9 DEF LeavesAlone
<1> QED
  BY <1>11, <1>12, <1>13 DEF new, old, T
=============================================================================
