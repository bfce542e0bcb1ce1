SPECIFICATION FairSpec
CONSTANTS
  p1 = p1
  p2 = p2
  p3 = p3
  a = a
  b = b
  Vertex <- PathVertices
  OutEdge <- PathEdges
  OutWeight <- PathWeights
  Partition <- ThreePartitions
  PartitionOf <- PathPartition
  Host <- TwoHosts
  Query <- PathQueries
  SendThreshold = 5
INVARIANTS TypeOK NoLostWork AgreeAtBarrier ValuesJustified ResultFound
PROPERTIES Terminates
CHECK_DEADLOCK FALSE
