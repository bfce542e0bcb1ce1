SPECIFICATION Spec
CONSTANTS
  p1 = p1
  p2 = p2
  p3 = p3
  p4 = p4
  c1 = c1
  c2 = c2
  a = a
  b = b
  Partition <- FourParts
  Out <- FourOut
  Container <- TwoContainers
  ContainerOf <- PairedIn
  Host = {a, b}
  HostOf <- PairedHost
  App <- Applications
  RoundLimit <- Limits
  MaxQuery = 2
  NoTag = NoTag
INVARIANTS TypeOK ReadsPreviousRound TagsAgree
CHECK_DEADLOCK FALSE
