\* Every family: an optimized chunk does what the compiled one does.
CONSTANTS
  WordBits = 3
  ImmBits = 2
  HalfBits = 2
  RegWindow = 6
  StackCapacity = 14
  FrameCapacity = 3
  MaxOut = 3
  ShortMax = 4
  LongMax = 7
  MaxIterations = 32
  MaxSteps = 64
  NoShift <- MCNoShift
  Word <- MCWord
  Programs <- Families
  Reloads <- NoChunks
  Alu <- AluValue
  Traps <- AluTraps
  Imm <- ImmValue
  Cmp <- CmpHolds
  JumpImm <- JumpImmValue
  NextRandom <- MCNextRandom
SPECIFICATION FairPipelineSpec
INVARIANTS
  
  StaysWellFormed
  
PROPERTIES
  DropsOnlyDead
  OptimizedEnds
\* A run ends, and a loop that prints stops at MaxOut.
CHECK_DEADLOCK FALSE
