CONSTANTS
  Letters <- MCLetters
  MaxDepth = 9
  MaxBranches = 3
  MaxTypes = 3
  UintMax = 255
  MaxErrors = 4
  Sources <- MCSources
  Turns <- MCTurns
  Written <- MCWritten
  Damaged <- MCDamaged
  Counted <- MCCounted
SPECIFICATION Spec
INVARIANTS
  LongestTokens
  ParsesBack
  NothingLost
  NumbersExact
  Recovers
PROPERTY
  ParsingEnds
CHECK_DEADLOCK FALSE
