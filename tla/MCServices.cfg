SPECIFICATION ServicesSpec
CONSTANTS
  Temps = {40, 41, 43}
  NoTemp = NoTemp
  Capacity = 3
  Window = 2
  Settling = 2
  Margin = 2
  Fallback = 41
  Waits = {w1, w2}
  Targets = {0, 40}
  Patience = 2
  MaxPolls = 5
  Requests = {q1, q2}
  Sub = sub
  Newline = newline
  MaxPushes = 1
  Browsers = {b1, b2}
  First = b1
  Ip <- MCIp
  Slots = {s1, s2, s3}
  MaxTotal = 2
  MaxPerIp = 1
  MaxDrops = 1
  MaxSignIns = 2
  Addresses = {a1, a2}
  WindowMs = 2
  MaxRequests = 2
  MaxNow = 4
  MaxAsks = 5
INVARIANTS
  ReadingsAreSound
  WaitIsBounded
  ClientIsFaithful
  SocketsAccounted
  LimitIsExact
PROPERTIES
  BaselineSettled
  AnswerSettles
  DashboardReturns
CHECK_DEADLOCK FALSE
