CONSTANTS
  pod1 = pod1  pod2 = pod2
  e1 = e1
  Consumers = {pod1, pod2}
  Log <- Resent
  MaxFaults = 1
  MaxRetried = 1
  MaxRebalances = 1
  WindowMs = 2
  MaxTransfers = 4
  NoTime = {3}
  MaxRedelivered = 1
  MaxClock = 6
CHECK_DEADLOCK FALSE
SPECIFICATION FraudSpec
SYMMETRY Symmetric
INVARIANTS
  RaisedAgainOnlyAfterFault
  LargeIsAlerted
  SkippedOnlyAfterFault
  NeverOvercounts
  ExactWhenPrompt
