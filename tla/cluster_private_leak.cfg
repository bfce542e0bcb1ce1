SPECIFICATION ClusterSpec
CONSTANTS
  n1 = n1
  n2 = n2
  h1 = h1
  h2 = h2
  h3 = h3
  Node <- MCNode
  MaxSlotPerNode = 4
  CurrentTakenSlot <- MCTaken
  ShareCpu = FALSE
  LowPort = 1
  HighPort = 8
  LocalManagerPort = 0
  Holder <- TwoHolders
  Demand <- MixedDemand
SYMMETRY TwoHolderSymmetry
INVARIANTS EachPartitionHasCore
CHECK_DEADLOCK FALSE
