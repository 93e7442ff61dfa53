\* A SIMD set and a recovery asked to rebuild nothing.
CONSTANTS
  Bits = 2
  Poly = {0, 1}
  Lost = Lost
  NoPlan = NoPlan
  K = 2
  P = 1
  EncodeMatrix <- Vandermonde
  KernelSet = "affine"
  PlannerSets = {"affine"}
  Messages <- TwoMessages
  RebuildLists <- SomeLists
  OutShapes <- FullShapes
SPECIFICATION Spec
INVARIANTS
  NeverPanics
