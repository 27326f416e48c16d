SPECIFICATION FairPathSpec
CONSTANTS
  d1 = d1
  short = short
  long = long
  Event = {"e"}
  Segment = {1, 2}
  Content = {short, long}
  NoContent = NoContent
  SegmentsOf <- MCSegmentsOf
  Dispatch = {g1}
  CallName <- MCCallName
  MaxLapses = 0
  Deliverer = {d1}
  DelivererName <- MCDelivererName
  MaxDeliveries = 2
  MaxMishaps = 0
CHECK_DEADLOCK FALSE
PROPERTIES
  AllSentLeadsToReplied
