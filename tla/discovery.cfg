CONSTANTS
  a = a
  b = b
  c = c
  Missing = Missing
  ACU_NULL_IDX = ACU_NULL_IDX
  Files <- MCFiles
  Names <- MCNames
  Idents <- MCIdents
  VirtualNames <- MCVirtualNames
  Programs <- MCPrograms
SPECIFICATION Spec
INVARIANTS
  ModulesAreImports
  ErrorsExact
  ImportsBound
PROPERTY DiscoveryEnds
\* The analysis ends.
CHECK_DEADLOCK FALSE
