\* What a plan reports once one of its survivors is gone.
CONSTANTS
  Bits = 2
  Poly = {0, 1}
  Lost = Lost
  NoPlan = NoPlan
  K = 2
  P = 1
  EncodeMatrix <- Cauchy
  KernelSet = "scalar"
  PlannerSets = {"scalar"}
  Messages <- TwoMessages
  RebuildLists <- NonEmptyLists
  OutShapes <- FullShapes
SPECIFICATION Spec
INVARIANTS
  TooManyMeansTooMany
