\* Two sources of three bytes over GF(4): one word of two bytes and one byte
\* after it; every byte value, up to three writes.
CONSTANTS
  Bits = 2
  Poly = {0, 1}
  N = 2
  Length = 3
  WordBytes = 2
  Values = {{}, {0}, {1}, {0, 1}}
  Starts <- MCStarts
  MaxWrites = 3
SPECIFICATION StripeSpec
INVARIANTS
  PqCheckNamesDamage
  XorCheckSeesDamage
