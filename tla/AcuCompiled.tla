----------------------------- MODULE AcuCompiled -----------------------------
(***************************************************************************)
(* Programs compiled by AcuCodegen and run by AcuVM, next to what they     *)
(* mean (AcuMeaning): the path from AcuCodeGen_CompileWorkspace to         *)
(* AcuVM_Run without the optimizer, which AcuPipeline has.                 *)
(***************************************************************************)
EXTENDS AcuChunkFile, AcuAgreement, AcuCodegen, AcuMeaning, TLC

ASSUME SameRegistersAssumption == RegWindow = RegCount

(* The chunks of programs, each with its program, the assertion of the     *)
(* generator that failed first, if one did, and what the program means.    *)
Compilations(ps) ==
  {ChunkOf(p, cg) @@ [program |-> p, fault |-> cg.fault, meaning |-> Meaning(p)]
     : <<p, cg>> \in {<<q, Generate(q)>> : q \in ps}}

(* A program is compiled, then its chunk is loaded and run: the            *)
(* specification is that of the VM, Chunks being Compilations.             *)
CompiledSpec == FairSpec

meaning == chunk.meaning
-----------------------------------------------------------------------------
(* Properties                                                              *)

(* No assertion of the code generator fails and it never runs out of       *)
(* registers (bytecode.h:37, emit_expr.c:60).                              *)
NoFault == chunk.fault = "NONE"

(* No assertion of the code generator fails, and it keeps what the VM      *)
(* relies on without checking: every jump, once patched, lands on an       *)
(* instruction of its own function, every path ends in a return, and calls *)
(* go to functions.                                                        *)
CompiledIsWellFormed == NoFault /\ WellFormed(chunk)

(* The registers read from each word on before they are written: sweeps    *)
(* from the end of the code to its beginning, as many as loops are deep.   *)
LiveRegisters(ch) ==
  LET In(live, p) ==
        LET i == ch.code[p]
        IN  Reads(i) \union (UNION {live[q] : q \in WaysOn(ch, p)} \ Writes(i))
      Sweep[n \in Nat] ==
        IF n = 0 THEN [p \in 0 .. ch.size - 1 |-> {}]
        ELSE LET Down[p \in Nat] ==
                   IF p = ch.size THEN Sweep[n - 1]
                   ELSE LET below == Down[p + 1] IN [below EXCEPT ![p] = In(below, p)]
             IN  Down[0]
  IN  Sweep[3]

(* The words of the functions that answer a CALL, also by a tail call.     *)
AnsweringWords(ch) ==
  LET Called(op, from) == {ch.fn[ch.code[p + 1].a] :
                             p \in {q \in 0 .. ch.size - 1 : ch.code[q].op = op /\ ch.fn[q] \in from}}
      asked  == Called("CALL", Range(ch.fn))
      tails  == Called("TAILCALL", asked)
      answer == asked \union tails \union Called("TAILCALL", tails)
  IN  {p \in 0 .. ch.size - 1 : ch.fn[p] \in answer}

(* The code generator keeps what the optimizer relies on without checking: *)
(* windows of calls lie above every register that is wanted later, no      *)
(* function reads a register that is neither an argument nor written, and  *)
(* functions that are asked for a value return one (AcuCodeGen_EmitCall,   *)
(* the register set).                                                      *)
CompiledIsDisciplined ==
  status = "LOADED" => Disciplined(chunk, Regs, LiveRegisters(chunk), AnsweringWords(chunk))

Ended == status \in Errors \union {"HALT", "EXITED"}

(* The stack of the VM is finite, the program's recursion need not be.     *)
Comparable ==
  /\ meaning.status # "UNKNOWN"
  /\ status \notin {"STACK_OVERFLOW", "CALL_STACK_OVERFLOW"}

(* A run ends as the program means it to and prints and stores the same    *)
(* values on the way: register allocation, the global cache, folding,      *)
(* strength reduction, jump patching and tail calls change nothing that    *)
(* can be observed.                                                        *)
SameOutcome ==
  Ended /\ Comparable =>
    /\ status = meaning.status
    /\ out = meaning.out
    /\ globals = meaning.globals
    /\ status = "EXITED" => exitCode = meaning.code

(* The code of a program that ends does end: no loop misses its exit and   *)
(* no jump of a break or of a tail call leads back for ever.               *)
Terminates == meaning.status # "UNKNOWN" ~> Ended
=============================================================================
