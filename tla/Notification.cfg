CONSTANTS
  pod1 = pod1  pod2 = pod2
  Ann = Ann  Bob = Bob
  e1 = e1  e2 = e2
  Consumers = {pod1, pod2}
  Users = {Ann, Bob}
  Log <- Mixed
  MessagesFor <- Addressed
  Connections <- OnBothPods
  NoLane = NoLane
  MaxFaults = 1
  MaxResends = 1
  MaxRebalances = 1
CHECK_DEADLOCK FALSE
SPECIFICATION FairSpec
INVARIANTS
  PublishedOnce
  NothingIgnored
PROPERTIES
  EveryoneIsTold
