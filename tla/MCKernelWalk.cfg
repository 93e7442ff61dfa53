\* Vectors of two bytes: stripes up to one quad, one double and one single
\* vector and a tail byte, row groups up to one above the largest, and calls
\* that break the contract by one byte or one table.
CONSTANTS
  Lane = 2
  Ks = {0, 1, 4, 5}
  RowCounts = {0, 1, 3, 4, 5, 9}
  Lengths = {0, 1, 2, 7, 15}
  SlipKs = {1, 2}
  SlipRowCounts = {0, 1, 2, 3}
  SlipLengths = {1, 2, 4}
  Calls <- AllCalls
SPECIFICATION Spec
INVARIANTS
  TypeOK
  AccessesInBounds
  StoredOnce
  ContractMet
PROPERTY
  Returns
CHECK_DEADLOCK FALSE
