CONSTANTS
  Delay = 5
  Timeout = 20
  Grace = 30
  MaxOutages = 1
  Requests = {q1, q2}
  Drain = 15
  Lag = 4
  CallTime = 3
  BatchTime = 16
  Clients = {ws1, ws2}
  MaySilence = {ws1}
  CloseTimeout = 30
  ConnectTime = 10
  LeaveTime = 9
  MaxBackoff = 10
CHECK_DEADLOCK FALSE
SPECIFICATION FairSpec
INVARIANTS
  NothingRefused
  NothingCut
  NeverKilled
  NothingLeftRunning
  ForcedByOthersOnly
PROPERTIES
  EventuallyConsuming
