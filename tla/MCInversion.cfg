\* The code's own field: 3 x 3 matrices over the subfield of 0, 1, 0xd6 and
\* 0xd7, and all selections of k rows of the Vandermonde matrices at the edge
\* of the safe region for four and five sources.
CONSTANTS
  Bits = 8
  Poly = {0, 2, 3, 4}
  Inputs <- MCInputs
  Scalars = {{}, {0}, {1, 2, 4, 6, 7}, {0, 1, 2, 4, 6, 7}}
  Shapes <- EdgeShapes
SPECIFICATION Spec
INVARIANTS
  InverseTracksWork
  PassedColumnsReduced
  SingularHasKernel
  CallAgrees
  SafeRegionHolds
\* The call returns.
CHECK_DEADLOCK FALSE
