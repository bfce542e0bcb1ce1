SPECIFICATION Spec
CONSTANTS
  n1 = n1
  s1 = s1
  s2 = s2
  s3 = s3
  r1 = r1
  r2 = r2
  r3 = r3
  r4 = r4
  m1 = m1
  m2 = m2
  Node <- MCNode
  MaxSlotPerNode = 6
  CurrentTakenSlot <- MCTaken
  ShareCpu = TRUE
  LowPort = 1
  HighPort = 6
  LocalManagerPort = 0
  Holder <- ThreeSets
  Demand <- EvenDemand
  Request <- FourRequests
  Manager <- OneManager
  ManagerOf <- OneManagerRequests
  DemandOf <- OneManagerDemand
  QueueLength = 1
  IdleLimit = 1
  RunMayFail = FALSE
  NoSet = NoSet
SYMMETRY ScalingSymmetry
INVARIANTS BoundedScaling
CHECK_DEADLOCK FALSE
