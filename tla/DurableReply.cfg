SPECIFICATION PathSpec
CONSTANTS
  d1 = d1
  short = short
  long = long
  Event = {"e"}
  Segment = {1, 2}
  Content = {short, long}
  NoContent = NoContent
  SegmentsOf <- MCSegmentsOf
  Dispatch = {g1, g2}
  CallName <- MCCallName
  MaxLapses = 2
  Deliverer = {d1}
  DelivererName <- MCDelivererName
  MaxDeliveries = 2
  MaxMishaps = 1
SYMMETRY MCSymmetry
CHECK_DEADLOCK FALSE
INVARIANTS
  InboundFencing
  RunsNeedLapses
  CompletedReplyIsOwn
  DeliveredWasProduced
  RepliedEndToEnd
