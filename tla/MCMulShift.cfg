\* The code's own field, every pair of operands.
CONSTANTS
  Bits = 8
  Poly = {0, 2, 3, 4}
SPECIFICATION MulShiftSpec
INVARIANTS
  LoopMatchesTables
  DivisionUndoesProduct
  NibbleTableMultiplies
  AffineMatrixMultiplies
\* The call returns once b is 0.
CHECK_DEADLOCK FALSE
