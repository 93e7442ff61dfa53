\* Two sources, two parity rows (the second and third of the matrix, which unlike
\* the first two are not their own transpose) over GF(8); one construction after the other,
\* table buffers one table short, parity rows one byte longer than a stripe.
CONSTANTS
  Bits = 3
  Poly = {0, 1}
  Lost = Lost
  None = None
  K = 2
  P = 2
  Skip = 1
  Unit = 2
  Lens = {2, 3}
  Sources <- TwoOrThree
  DataLists <- SomeLists
  Shapes <- TwoShapes
  KernelSet <- NibbleSimd
SPECIFICATION Spec
INVARIANTS
  RowsTrackFolds
  DecodeReturnsSources
PROPERTIES
  ErrorFoldsPrefix
