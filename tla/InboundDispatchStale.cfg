SPECIFICATION GatewaySpec
CONSTANTS
  g1 = g1
  g2 = g2
  g3 = g3
  short = short
  long = long
  Event = {"e"}
  Segment = {1, 2}
  Content = {short, long}
  NoContent = NoContent
  SegmentsOf <- MCSegmentsOf
  Dispatch = {g1, g2, g3}
  CallName <- MCCallName
  MaxLapses = 2
CHECK_DEADLOCK FALSE
PROPERTIES
  OutboxWritesAreFenced
