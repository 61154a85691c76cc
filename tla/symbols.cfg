CONSTANTS
  a = a
  b = b
  c = c
  ACU_NULL_IDX = ACU_NULL_IDX
  Names <- MCNames
  InitialCapacity = 4
  Hashes <- MCHashes
  MaxScopes = 2
  MaxSymbols = 4
SPECIFICATION FairSpec
INVARIANTS
  WellProbed
PROPERTIES
  ScopesSpec
  CallsReturn
