SPECIFICATION ClusterSpec
CONSTANTS
  n1 = n1
  n2 = n2
  h1 = h1
  h2 = h2
  h3 = h3
  Node <- MCNode
  MaxSlotPerNode = 4
  CurrentTakenSlot <- MCTaken
  ShareCpu = TRUE
  LowPort = 19995
  HighPort = 20000
  LocalManagerPort = 20000
  Holder <- TwoHolders
  Demand <- EvenDemand
SYMMETRY TwoHolderSymmetry
INVARIANTS ManagerPortIsReserved
CHECK_DEADLOCK FALSE
