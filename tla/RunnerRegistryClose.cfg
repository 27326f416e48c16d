SPECIFICATION Spec
CONSTANTS
  Key = {k1, k2}
  Caller = {c1, c2}
  Runner = {r1, r2}
  NoOne = NoOne
  MaxEntries = 2
  MaxInvalidations = 1
INVARIANT CloseWaitsForLeases
CHECK_DEADLOCK FALSE
