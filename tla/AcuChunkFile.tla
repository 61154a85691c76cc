---------------------------- MODULE AcuChunkFile ----------------------------
(***************************************************************************)
(* The file between the compiler and the virtual machine                   *)
(* (src/serializer/serializer.c): AcuChunk_Serialize writes a header, the  *)
(* constants, the code and the strings; AcuRawChunk_Deserialize reads them *)
(* back and hands the chunk to AcuRawChunk_Validate, the only look anybody *)
(* takes at the code before AcuVM_Run trusts it.                           *)
(*                                                                         *)
(* A file is a sequence of units: the header, the pool entries and the     *)
(* words of the code.  A write that fails leaves a prefix of it.  A word   *)
(* that is the payload of a wide instruction is no opcode of the table,    *)
(* and an instruction is no payload that a check accepts.                  *)
(***************************************************************************)
EXTENDS AcuVM

(* The part of a chunk that is written: AcuRawChunk.                       *)
Raw(ch) == [size |-> ch.size, code |-> ch.code, consts |-> ch.consts,
            strs |-> ch.strs, slots |-> ch.slots]

(* What AcuRawChunk_Deserialize leaves when it answers false.              *)
Refused == [size |-> -1]

(* Mutant: the number of globals keeps the zero of the cleared header.     *)
HeaderWithoutSlots(magic, version, ch) ==
  [magic |-> magic, version |-> version, slots |-> 0,
   consts |-> Len(ch.consts), code |-> ch.size, strs |-> Len(ch.strs)]

Header(magic, version, ch) ==
  [magic |-> magic, version |-> version, slots |-> ch.slots,
   consts |-> Len(ch.consts), code |-> ch.size, strs |-> Len(ch.strs)]

Serialize(ch) ==
  <<Header("ACU", "current", ch)>> \o ch.consts \o [k \in 1 .. ch.size |-> ch.code[k - 1]] \o ch.strs
-----------------------------------------------------------------------------
(* AcuRawChunk_Validate.  Pass 1 walks the code from word 0, instruction   *)
(* by instruction, and marks where each begins, and the end of the code.   *)
Boundaries(ch) ==
  LET walk[n \in 0 .. ch.size] ==
        IF n = 0 THEN {0}
        ELSE LET seen == walk[n - 1]
             IN  seen \union {p + Slots(ch.code[p].op) : p \in seen \intersect (0 .. ch.size - 1)}
  IN  walk[ch.size] \intersect (0 .. ch.size)

(* Mutant: a jump is only compared with the size of the code.              *)
JumpInside(ch, bs, p) ==
  ch.code[p].op \in Jumps => JumpTarget(p, ch.code[p]) \in 0 .. ch.size

JumpOK(ch, bs, p) ==
  ch.code[p].op \in Jumps => JumpTarget(p, ch.code[p]) \in bs

CallOK(ch, bs, p) ==
  ch.code[p].op \in BytecodeCalls =>
    /\ ch.code[p + 1].op = "WORD"
    /\ ch.code[p + 1].a \in bs \ {ch.size}
    /\ ch.code[p].b + ch.code[p].c <= RegWindow

(* Only the syscalls that answer a value are looked at.                    *)
SyscallOK(ch, p) ==
  ch.code[p].op = "SYSCALL" =>
    /\ ch.code[p + 1].op = "WORD"
    /\ ch.code[p + 1].fn \in SyscallIds
    /\ ch.code[p].b + ch.code[p].c <= RegWindow

(* A string is named by the constant that holds its slice of the pool, so *)
(* that its index here stands for both checks.                             *)
PoolsOK(ch, p) ==
  /\ ch.code[p].op \in {"LOAD_GLOBAL", "STORE_GLOBAL"} => ch.code[p].b < ch.slots
  /\ ch.code[p].op = "LOAD_CONST" => ch.code[p].b \in DOMAIN ch.consts
  /\ ch.code[p].op = "LOAD_STR" => ch.code[p].b \in DOMAIN ch.strs

(* Every instruction of the walk is one, ends where the next one begins or *)
(* the code ends, and refers to what is there.                             *)
Validate(ch) ==
  LET bs == Boundaries(ch)
  IN  \/ ch.size = 0
      \/ /\ {0, ch.size} \subseteq bs
         /\ \A p \in bs \ {ch.size} :
              /\ ch.code[p].op # "WORD"
              /\ p + Slots(ch.code[p].op) \in bs
              /\ JumpOK(ch, bs, p)
              /\ CallOK(ch, bs, p)
              /\ SyscallOK(ch, p)
              /\ PoolsOK(ch, p)
-----------------------------------------------------------------------------
(* The parts in the order of the reads, each as long as the header says.   *)
ChunkIn(file) ==
  LET h == file[1]
      Part(from, n) == SubSeq(file, from + 1, from + n)
      code == Part(1 + h.consts, h.code)
  IN  [size |-> h.code, slots |-> h.slots, code |-> [p \in 0 .. h.code - 1 |-> code[p + 1]],
       consts |-> Part(1, h.consts), strs |-> Part(1 + h.consts + h.code, h.strs)]

(* A read that comes up short refuses the file; what follows the strings   *)
(* is not read.                                                            *)
Complete(file) == Len(file) >= 1 + file[1].consts + file[1].code + file[1].strs

Deserialize(file) ==
  IF /\ file # <<>>
     /\ file[1].magic = "ACU" /\ file[1].version = "current"
     /\ Complete(file)
     /\ Validate(ChunkIn(file))
  THEN ChunkIn(file)
  ELSE Refused
-----------------------------------------------------------------------------
(* Properties                                                              *)

(* What the check of a file buys, whatever the code does: the machine only *)
(* ever stands at the beginning of an instruction, only ever returns to    *)
(* one, and leaves its arrays in three ways that the check does not look   *)
(* at - it runs off the end of the code, returns from module-level code,   *)
(* or makes a call without result of a syscall that does not exist         *)
(* (serializer.c, AcuRawChunk_Validate; vm.c trusts the rest).             *)
CheckedCodeStays ==
  Validate(chunk) =>
    /\ status \in {"RUNNING", "UNDEFINED"} =>
         /\ ip \in Boundaries(chunk)
         /\ \A f \in 0 .. fp - 1 : frames[f].return_ip \in Boundaries(chunk)
    /\ status = "UNDEFINED" =>
         \/ ip = chunk.size
         \/ chunk.code[ip].op \in {"RET", "RET_VOID"} /\ fp = 0
         \/ chunk.code[ip].op = "SYSCALL_VOID"

(* The virtual machine runs what the compiler made: a chunk that is        *)
(* written comes back the same, so the check refuses no compiled program;  *)
(* and a file whose write stopped anywhere before its end is refused       *)
(* (serializer.c, AcuChunk_Serialize and AcuRawChunk_Deserialize).         *)
LoadsBack ==
  status = "LOADED" =>
    LET file == Serialize(chunk)
    IN  /\ Deserialize(file) = Raw(chunk)
        /\ \A n \in 0 .. Len(file) - 1 : Deserialize(SubSeq(file, 1, n)) = Refused
=============================================================================
