\* Compiled programs run like the trees they were compiled from.
CONSTANTS
  WordBits = 4
  ImmBits = 2
  WideBits = 3
  HalfBits = 3
  RegCount = 8
  RegWindow = 8
  StackCapacity = 17
  FrameCapacity = 4
  MaxOut = 6
  Fuel = 12
  Word <- MCWord
  Chunks <- MCChunks
  Reloads <- MCReloads
  Alu <- AluValue
  Traps <- AluTraps
  Imm <- ImmValue
  Cmp <- CmpHolds
  JumpImm <- JumpImmValue
  NextRandom <- MCNextRandom
  OpcodeOf <- BinaryOpcode
SPECIFICATION CompiledSpec
INVARIANTS
  CompiledIsWellFormed
  CompiledIsDisciplined
  NoUndefined
  SameOutcome
  LoadsBack
PROPERTIES
  Terminates
\* The process may exit, and a run that has printed MaxOut values stops there.
CHECK_DEADLOCK FALSE
