CONSTANTS
  Letters <- MCLetters
  MaxDepth = 40
  MaxBranches = 4
  MaxTypes = 8
  UintMax = 255
  Programs <- MCPrograms
  Steps <- MCSteps
  Correct <- MCCorrect
SPECIFICATION Spec
INVARIANTS
  SoundTypes
  NeverLeaves
  AcceptsCorrect
  NamedBefore
CHECK_DEADLOCK FALSE
