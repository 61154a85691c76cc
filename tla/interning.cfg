\* Interning constants, strings and types.
CONSTANTS
  InitialCapacity = 4
  NullId = 7
  MaxEntries = 7
  Kinds <- MCKinds
  Contents <- MCContents
  Preloaded <- MCPreloaded
  Hashes <- MCHashes
  Hash <- MCHash
SPECIFICATION Spec
INVARIANTS
  EntriesFound
PROPERTIES
  PoolSpec
\* A full table answers only for what it has.
CHECK_DEADLOCK FALSE
