SPECIFICATION FairSpec
CONSTANTS
  n1 = n1
  n2 = n2
  h1 = h1
  h2 = h2
  Node <- MCNode
  MaxSlotPerNode = 4
  CurrentTakenSlot <- MCTaken
  ShareCpu = FALSE
  LowPort = 1
  HighPort = 3
  LocalManagerPort = 0
  Holder <- MCHolder
  Demand <- MCDemand
  PartCounts = {1, 4}
INVARIANTS TypeOK OneOwner KeysLoadedOnce PushesFindPartition
PROPERTIES LoadReturns
CHECK_DEADLOCK FALSE
