SPECIFICATION FairSpec
CONSTANTS
  Key = {k1, k2, k3}
  Caller = {c1, c2}
  Runner = {r1, r2}
  NoOne = NoOne
  MaxEntries = 2
  MaxInvalidations = 1
INVARIANTS
  LeasedIsOpen
  SlotsBounded
  RunnersAccounted
PROPERTIES
  InvalidatedIsNotReused
  DroppedIsClosed
CHECK_DEADLOCK FALSE
