CONSTANTS
  pod1 = pod1  pod2 = pod2
  Ann = Ann  Bob = Bob
  e1 = e1  e2 = e2
  Consumers = {pod1, pod2}
  Users = {Ann, Bob}
  Log <- NoValueFirst
  MessagesFor <- Addressed
  Connections <- OnBothPods
  NoLane = NoLane
  MaxFaults = 0
  MaxResends = 0
  MaxRebalances = 1
CHECK_DEADLOCK FALSE
SPECIFICATION FairSpec
PROPERTIES
  MalformedGoToDlq
