SPECIFICATION ChatSpec
CONSTANTS
  Requests = {r1}
  r1 = r1
  r2 = r2
  RequestIds = {i1}
  i1 = i1
  i2 = i2
  Keys = {k1}
  k1 = k1
  k2 = k2
  NoId = NoId
  ChannelSize = 1
  MaxRequests = 1
  Situations <- MCOneRequest
CHECK_DEADLOCK FALSE
INVARIANTS
  AnswerIsRecorded
