CONSTANTS
  g1 = g1
  g2 = g2
  g3 = g3
  ACU_NULL_IDX = ACU_NULL_IDX
  Globals <- MCGlobals
  Sources <- MCSources
SPECIFICATION Spec
INVARIANTS
  InitOrder
  CyclesReported
\* The pass stops behind the last statement.
CHECK_DEADLOCK FALSE
