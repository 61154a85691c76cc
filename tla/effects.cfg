CONSTANTS
  SymbolCount = 5
  Programs <- Programs3
SPECIFICATION FairSpec
INVARIANTS
  PureIsEffectFree
  KeepsEffectFree
  ReachableIsLeast
  DropsNoEffects
PROPERTIES
  AnalysisEnds
\* The passes stop at phase "done".
CHECK_DEADLOCK FALSE
