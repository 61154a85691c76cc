------------------------------ MODULE AcuCalls ------------------------------
(***************************************************************************)
(* What a call promises its caller, with no stack and no windows: every    *)
(* activation has a register file of its own.  A call hands the registers  *)
(* from b up to the callee and puts those below b aside; a return brings   *)
(* them back as they were, except that the destination register receives   *)
(* the value of one of the callee's registers.  Registers from b up belong *)
(* to the callee and come back with whatever it left there.                *)
(*                                                                         *)
(* This is the contract CALL and RET of src/vm/vm.c owe the code           *)
(* generator, which keeps the live values of a caller below the window of  *)
(* every call it makes (AcuCodeGen_AllocCallWindow).                       *)
(***************************************************************************)
EXTENDS Integers

CONSTANTS Word, RegWindow

VARIABLES
  regs,   (* the registers of the running activation                       *)
  depth,  (* the number of activations waiting for a call to return        *)
  saved   (* for each of them, the registers it keeps and the destination  *)

vars == <<regs, depth, saved>>

Regs == 0 .. RegWindow - 1

Zeros == [r \in Regs |-> 0]

Init == regs = Zeros /\ depth = 0 /\ saved = [f \in 0 .. -1 |-> 0]

(* A fresh run.                                                            *)
Reset == regs' = Zeros /\ depth' = 0 /\ saved' = [f \in 0 .. -1 |-> 0]

(* Any computation on the registers of the running activation.             *)
Compute ==
  /\ regs' \in [Regs -> Word]
  /\ UNCHANGED <<depth, saved>>

Call(b, dst) ==
  /\ depth' = depth + 1
  /\ saved' = [f \in 0 .. depth |->
                 IF f = depth THEN [dst |-> dst, low |-> [r \in 0 .. b - 1 |-> regs[r]]]
                              ELSE saved[f]]
  /\ regs' \in [Regs -> Word]
  /\ \A r \in Regs : r + b \in Regs => regs'[r] = regs[r + b]

(* The caller's registers come back; v is what its destination holds.      *)
Resume(v) ==
  LET top == saved[depth - 1]
  IN  /\ depth' = depth - 1
      /\ saved' = [f \in 0 .. depth - 2 |-> saved[f]]
      /\ regs' \in [Regs -> Word]
      /\ \A r \in DOMAIN top.low \ {top.dst} : regs'[r] = top.low[r]
      /\ top.dst \in Regs => regs'[top.dst] = v

Return(s) ==
  /\ depth > 0
  /\ Resume(regs[s])

(* A return without a value leaves the destination alone as well.          *)
ReturnVoid ==
  /\ depth > 0
  /\ \E v \in Word : /\ Resume(v)
                     /\ saved[depth - 1].dst \in DOMAIN saved[depth - 1].low
                          => v = saved[depth - 1].low[saved[depth - 1].dst]

Next ==
  \/ Reset
  \/ Compute
  \/ \E b \in Regs, dst \in Regs \union {-1} : Call(b, dst)
  \/ \E s \in Regs : Return(s)
  \/ ReturnVoid

Spec == Init /\ [][Next]_vars
=============================================================================
