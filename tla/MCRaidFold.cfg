\* Words of two lanes of the code's own bytes, three sources.
CONSTANTS
  Bits = 8
  Poly = {0, 2, 3, 4}
  LaneCount = 2
  SourceCount = 3
  Other = {0, 3, 7, 8, 12, 15}
  Inputs <- MCInputs
SPECIFICATION FoldSpec
INVARIANTS
  LanesIndependent
\* The fold ends with source 0.
CHECK_DEADLOCK FALSE
