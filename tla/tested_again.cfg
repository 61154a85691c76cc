\* Branch fusion drops a condition that the branch target reads.
CONSTANTS
  WordBits = 3
  ImmBits = 2
  HalfBits = 2
  RegWindow = 6
  StackCapacity = 14
  FrameCapacity = 3
  MaxOut = 3
  ShortMax = 4
  LongMax = 7
  MaxIterations = 32
  MaxSteps = 64
  NoShift <- MCNoShift
  Word <- MCWord
  Programs <- TestedAgain
  Reloads <- NoChunks
  Alu <- AluValue
  Traps <- AluTraps
  Imm <- ImmValue
  Cmp <- CmpHolds
  JumpImm <- JumpImmValue
  NextRandom <- MCNextRandom
SPECIFICATION PipelineSpec
PROPERTIES
  DropsOnlyDead
\* A run ends, and a loop that prints stops at MaxOut.
CHECK_DEADLOCK FALSE
