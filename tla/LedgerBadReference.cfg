CONSTANTS
  c1 = c1  c2 = c2
  e1 = e1  e2 = e2  e3 = e3
  wallet1 = "wallet1"  wallet2 = "wallet2"
  Consumers = {c1, c2}
  Log <- BadReference
  Wallets = {"wallet1", "wallet2"}
  MaxFaults = 0
  NoLane = NoLane
CHECK_DEADLOCK FALSE
SPECIFICATION FairSpec
PROPERTIES
  LagReachesZero
