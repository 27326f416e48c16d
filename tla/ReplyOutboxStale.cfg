SPECIFICATION OutboxSpec
CONSTANTS
  d1 = d1
  d2 = d2
  short = short
  long = long
  Event = {"e"}
  Segment = {1, 2}
  Content = {short, long}
  NoContent = NoContent
  SegmentsOf <- MCSegmentsOf
  Deliverer = {d1, d2}
  DelivererName <- MCOwnName
  MaxDeliveries = 2
  MaxMishaps = 1
CHECK_DEADLOCK FALSE
INVARIANTS
  ExpiredIsReconciled
