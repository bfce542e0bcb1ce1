SPECIFICATION FairSpec
CONSTANTS
  n1 = n1
  s1 = s1
  s2 = s2
  s3 = s3
  r1 = r1
  r2 = r2
  r3 = r3
  r4 = r4
  m1 = m1
  m2 = m2
  Node <- MCNode
  MaxSlotPerNode = 2
  CurrentTakenSlot <- MCTaken
  ShareCpu = TRUE
  LowPort = 1
  HighPort = 3
  LocalManagerPort = 0
  Holder <- OneSet
  Demand <- EvenDemand
  Request <- FourRequests
  Manager <- TwoManagers
  ManagerOf <- SplitRequests
  DemandOf <- SplitDemand
  QueueLength = 1
  IdleLimit = 1
  RunMayFail = FALSE
  NoSet = NoSet
PROPERTIES EveryRequestServed IdleSetsReturned
CHECK_DEADLOCK FALSE
