SPECIFICATION Spec
CONSTANTS
  n1 = n1
  s1 = s1
  s2 = s2
  s3 = s3
  r1 = r1
  r2 = r2
  r3 = r3
  r4 = r4
  m1 = m1
  m2 = m2
  Node <- MCNode
  MaxSlotPerNode = 4
  CurrentTakenSlot <- MCTaken
  ShareCpu = TRUE
  LowPort = 1
  HighPort = 4
  LocalManagerPort = 0
  Holder <- TwoSets
  Demand <- BothDemands
  Request <- FourRequests
  Manager <- TwoManagers
  ManagerOf <- SplitRequests
  DemandOf <- MixedDemand
  QueueLength = 2
  IdleLimit = 1
  RunMayFail = TRUE
  NoSet = NoSet
SYMMETRY SplitSymmetry
INVARIANTS TypeOK SingleUser PoolsAgree NoLostWaiter RunsOnLoadedSet HostMatchesLedger
PROPERTIES ImplementsLease
CHECK_DEADLOCK FALSE
