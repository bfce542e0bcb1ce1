SPECIFICATION FairSpec
CONSTANTS
  q1 = q1
  q2 = q2
  q3 = q3
  q4 = q4
  sa = sa
  sb = sb
  sc = sc
  a1 = a1
  a2 = a2
  b1 = b1
  b2 = b2
  c1 = c1
  c2 = c2
  c3 = c3
  ca1 = ca1
  ca2 = ca2
  cb = cb
  cc1 = cc1
  cc2 = cc2
  h1 = h1
  h2 = h2
  u1 = u1
  u2 = u2
  v1 = v1
  v2 = v2
  v3 = v3
  w1 = w1
  w2 = w2
  w3 = w3
  Query <- MCQuery
  ContainerSet <- MCContainerSet
  SetOf <- MCSetOf
  Executor <- MCExecutor
  ExecutorsOf <- MCExecutorsOf
  Container <- MCContainer
  ContainerOf <- MCContainerOf
  Host <- MCHost
  HostOf <- MCHostOf
  HostsOf <- MCHostsOf
  Word <- MCWord
  WordsOf <- MCWordsOf
  GraphOf <- MCGraphOf
  RoundLimit <- MCRoundLimit
  NoChange <- MCNoChange
  Workload <- MCWorkload
  MapRaces = TRUE
  NoPool = NoPool
INVARIANTS TypeOK PushHasPool ArraysAttached NothingLeft
PROPERTIES ImplementsSharedArray QueryEnds
CHECK_DEADLOCK FALSE
