\* Arbitrary code: what CALL and RET guarantee whatever the code does.
CONSTANTS
  WordBits = 2
  ImmBits = 2
  HalfBits = 1
  RegWindow = 4
  StackCapacity = 9
  FrameCapacity = 3
  MaxOut = 2
  Word <- MCWord
  Chunks <- AnyChunks
  Reloads <- NoChunks
  Alu <- AluValue
  Traps <- AluTraps
  Imm <- ImmValue
  Cmp <- CmpHolds
  JumpImm <- JumpImmValue
  NextRandom <- MCNextRandom
SPECIFICATION Spec
INVARIANTS
  FramesMatchCalls
  CheckedCodeStays
PROPERTIES
  CallsSpec
\* A run may leave the arrays of the VM, exit, or stop at MaxOut.
CHECK_DEADLOCK FALSE
