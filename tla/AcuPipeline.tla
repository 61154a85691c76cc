---------------------------- MODULE AcuPipeline ----------------------------
(***************************************************************************)
(* What a chunk does must not depend on whether it was optimized           *)
(* (the --no-peephole switch of the driver): the optimizer rewrites a      *)
(* chunk, the virtual machine of one process runs the chunk as it was      *)
(* compiled, and that of another process runs the optimized one.           *)
(***************************************************************************)
EXTENDS AcuOptimizer

CONSTANTS      (* as in AcuVM                                              *)
  Reloads, Word, StackCapacity, FrameCapacity, MaxOut,
  Alu(_, _, _), Traps(_, _), Imm(_, _), Cmp(_, _, _), JumpImm(_, _), NextRandom(_),
  MaxSteps     (* bound on the instructions that are counted               *)

VARIABLES
  chunk, ip, base, stack, frames, fp, globals, status, exitCode, prng, out,
  first,     (* what the chunk did before it was optimized                 *)
  steps      (* instructions the present run has executed                  *)

VM == INSTANCE AcuVM WITH Chunks <- Programs

vmVars == <<chunk, ip, base, stack, frames, fp, globals, status, exitCode, prng, out>>

pipelineVars == <<vmVars, optVars, first, steps>>

(* What a host sees of a run.  The exit code of a HALT is never read: the  *)
(* main function of the VM returns a code of its own.                      *)
Outcome ==
  [status |-> status, out |-> out, steps |-> steps, globals |-> globals,
   code   |-> IF status = "EXITED" THEN exitCode ELSE 0]

NoOutcome == [status |-> "LOADED", out |-> <<>>, steps |-> 0,
              globals |-> <<>>, code |-> 0]

Ended == status \notin {"LOADED", "RUNNING"}

PipelineInit ==
  /\ VM!Init
  /\ Start(chunk)
  /\ first = NoOutcome /\ steps = 0

Optimize ==
  /\ Next
  /\ UNCHANGED <<vmVars, first, steps>>

Execute ==
  /\ phase = "done"
  /\ VM!Run \/ VM!Handler
  /\ steps' = IF steps < MaxSteps THEN steps + 1 ELSE steps
  /\ UNCHANGED <<optVars, first>>

(* A fresh process loads the optimized chunk.                              *)
RunOptimized ==
  /\ Ended /\ first = NoOutcome
  /\ first' = Outcome
  /\ chunk' = work
  /\ ip' = 0 /\ base' = 0 /\ fp' = 0
  /\ stack' = [s \in VM!Slot |-> 0]
  /\ frames' = [f \in VM!FrameIdx |-> [return_ip |-> 0, register_base |-> 0, return_reg |-> 0]]
  /\ globals' = [g \in 0 .. work.slots - 1 |-> 0]
  /\ status' = "LOADED" /\ exitCode' = 0 /\ prng' = 0
  /\ out' = <<>> /\ steps' = 0
  /\ UNCHANGED optVars

PipelineNext == Optimize \/ Execute \/ RunOptimized

PipelineSpec == PipelineInit /\ [][PipelineNext]_pipelineVars

(* AcuVM_Run loops without yielding.                                       *)
FairPipelineSpec == PipelineSpec /\ WF_pipelineVars(Execute)
-----------------------------------------------------------------------------
Overflows == {"STACK_OVERFLOW", "CALL_STACK_OVERFLOW"}

(* An optimized chunk ends as the compiled one does, prints the same and    *)
(* leaves the same globals; only a compiled chunk that overflows the stacks *)
(* may do better, because tail calls need no frames.  All the passes and   *)
(* rules of AcuChunk_Optimize must agree with the VM on what the code      *)
(* means, in every order in which they meet.                               *)
SameOutcome ==
  Ended /\ first # NoOutcome /\ first.status \notin Overflows =>
    /\ status = first.status
    /\ out = first.out /\ globals = first.globals
    /\ Outcome.code = first.code


(* A chunk whose compiled form ends also ends when it is optimized.        *)
OptimizedEnds == first # NoOutcome ~> Ended
=============================================================================
