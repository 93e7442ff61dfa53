\* Two sources, two parity shards: all four elements of GF(4), the most the
\* reed-solomon-erasure matrix takes.  A coder on the nibble set, plans of its own
\* and of a coder of the same matrix on the affine set, stripes of no byte and of
\* one, rebuild lists of up to two targets and every shape of the output buffers.
CONSTANTS
  Bits = 2
  Poly = {0, 1}
  Lost = Lost
  NoPlan = NoPlan
  K = 2
  P = 2
  EncodeMatrix <- Compat
  KernelSet = "nibble"
  PlannerSets = {"nibble", "affine"}
  Messages <- FewMessages
  RebuildLists <- SomeLists
  OutShapes <- SomeShapes
SPECIFICATION Spec
INVARIANTS
  SlotsTruthful
  RecoveredIsOriginal
  AnyKSuffice
  PlanNeedsItsSurvivors
PROPERTIES
  KeepsPromise
