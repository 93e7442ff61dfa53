\* Two sources and two parity shards of zero or one byte, every call shape.
CONSTANTS
  Bits = 3
  Poly = {0, 1}
  Lost = Lost
  Sourced = 2
  Redundant = 2
  Values = {{}, {0}, {1, 2}}
  Coding <- CauchyCoder
  Sources <- UpToOneByte
  Lens = {0, 1}
SPECIFICATION Spec
INVARIANTS
  TypeOK
  ParityTracksFolds
  VerifyAnswer
