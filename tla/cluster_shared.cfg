SPECIFICATION ClusterSpec
CONSTANTS
  n1 = n1
  n2 = n2
  h1 = h1
  h2 = h2
  h3 = h3
  Node <- MCNode
  MaxSlotPerNode = 6
  CurrentTakenSlot <- MCTaken
  ShareCpu = TRUE
  LowPort = 1
  HighPort = 4
  LocalManagerPort = 0
  Holder <- MCHolder
  Demand <- EvenDemand
SYMMETRY HolderSymmetry
INVARIANTS ClusterTypeOK CpuExclusive PortExclusive NothingLost EachPartitionHasCore
PROPERTIES PanicsOnlyForPorts
CHECK_DEADLOCK FALSE
