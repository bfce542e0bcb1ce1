SPECIFICATION Spec
CONSTANTS
  p1 = p1
  p2 = p2
  p3 = p3
  p4 = p4
  c1 = c1
  c2 = c2
  a = a
  b = b
  Partition <- TwoParts
  Out <- TwoOut
  Container <- TwoContainers
  ContainerOf <- SingleIn
  Host = {a}
  HostOf <- SingleHost
  App <- OnlyPull
  RoundLimit <- PullLimit
  MaxQuery = 1
  NoTag = NoTag
INVARIANTS ReadsPreviousRound
CHECK_DEADLOCK FALSE
