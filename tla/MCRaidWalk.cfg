\* Vectors of two bytes: lengths around one and two chunks of four vectors, of
\* two and of one; none, one, two and four sources; one length off by a byte.
CONSTANTS
  Lane = 2
  SourceCounts = {0, 1, 2, 4}
  Lengths = {0, 1, 2, 4, 7, 8, 9, 19}
  Calls <- AllCalls
SPECIFICATION Spec
INVARIANTS
  TypeOK
  AccessesInBounds
  StoredOnce
  ContractMet
  NeverPanicsFromFacade
PROPERTY
  Returns
\* The call ends.
CHECK_DEADLOCK FALSE
