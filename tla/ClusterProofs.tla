---------------------------- MODULE ClusterProofs ----------------------------
(***************************************************************************)
(* Theorems about the cluster ledger for every number of nodes, CPUs,      *)
(* ports, container sets and demands, with or without SHARE_CPU: no CPU    *)
(* and no port is granted twice, Get hands out as many slots as were asked *)
(* for, currentSlot is the sum of the hosts' free slots, and, where the    *)
(* sizes are multiples of MAX_SLOT_PER_CONTAINER and CPUs are shared       *)
(* within a set, Put gives back exactly what Get took.                     *)
(***************************************************************************)
EXTENDS Cluster, FiniteSums, FiniteSetTheorems, TLAPS

-----------------------------------------------------------------------------
(***************************************************************************)
(* Arithmetic of Get.                                                      *)
(***************************************************************************)

\* Rounding u / s up gives a natural number, and 0 for 0.
LEMMA CeilingType ==
  ASSUME NEW u \in Nat, NEW s \in Nat \ {0}
  PROVE  /\ (u + s - 1) \div s \in Nat
         /\ u = 0 => (u + s - 1) \div s = 0
  BY SMT

\* The rank intervals of two different containers of a host do not overlap.
LEMMA RankIntervals ==
  ASSUME NEW i \in Nat, NEW j \in Nat, NEW s \in Nat \ {0}, NEW r \in Int,
         r \in i * s .. (i + 1) * s - 1, r \in j * s .. (j + 1) * s - 1
  PROVE  i = j
  BY SMT

\* A cluster has a number of nodes.
LEMMA NodeCountType == NodeCount \in Nat
  BY FS_CardinalityType, ClusterAssumption DEF NodeCount

\* A demand asks for at least one slot.
LEMMA DemandType ==
  ASSUME NEW d \in Demand
  PROVE  /\ d.slotPerContainer \in Nat \ {0}
         /\ TotalSlot(d) \in Nat
         /\ TotalSlot(d) > 0
  BY ClusterAssumption DEF TotalSlot

\* Get takes from a node no more slots than it has, and none from a node it
\* does not reach.
LEMMA UseSlotBounds ==
  ASSUME NEW pos \in SortedPositions, NEW total \in Nat, NEW rest \in Fills(pos, total),
         NEW n \in Node, ClusterTypeOK
  PROVE  /\ pos[n] \in 1 .. NodeCount
         /\ rest[pos[n] - 1] \in 0 .. total
         /\ pos[n] = 1 => rest[pos[n] - 1] = total
         /\ UseSlot(pos, rest, n) \in 0 .. slot[n]
         /\ rest[pos[n] - 1] = 0 => UseSlot(pos, rest, n) = 0
<1>1. pos[n] \in 1 .. NodeCount
  BY DEF SortedPositions
<1>2. /\ rest \in [0 .. NodeCount -> 0 .. total]
      /\ rest[0] = total
      /\ rest[pos[n]] = IF rest[pos[n] - 1] < slot[n] THEN 0 ELSE rest[pos[n] - 1] - slot[n]
  BY DEF Fills
<1>3. rest[pos[n] - 1] \in 0 .. total /\ rest[pos[n]] \in 0 .. total
  BY <1>1, <1>2, NodeCountType
<1>4. slot[n] \in Nat
  BY DEF ClusterTypeOK
<1>5. PICK a, b \in Nat : a = rest[pos[n] - 1] /\ b = rest[pos[n]]
  BY <1>3
<1>6. UseSlot(pos, rest, n) = a - b /\ b = IF a < slot[n] THEN 0 ELSE a - slot[n]
  BY <1>2, <1>5 DEF UseSlot
<1>7. UseSlot(pos, rest, n) \in 0 .. slot[n] /\ (a = 0 => UseSlot(pos, rest, n) = 0)
  BY <1>4, <1>6
<1>8. pos[n] = 1 => rest[pos[n] - 1] = total
  BY <1>2
<1>9. QED
  BY <1>1, <1>3, <1>5, <1>7, <1>8

\* So the number of new containers on a node is a natural number too.
LEMMA NewContainersType ==
  ASSUME NEW pos \in SortedPositions, NEW total \in Nat, NEW rest \in Fills(pos, total),
         NEW n \in Node, NEW spc \in Nat \ {0}, ClusterTypeOK
  PROVE  /\ NewContainers(pos, rest, spc, n) \in Nat
         /\ rest[pos[n] - 1] = 0 => NewContainers(pos, rest, spc, n) = 0
<1>1. /\ UseSlot(pos, rest, n) \in 0 .. slot[n]
      /\ rest[pos[n] - 1] = 0 => UseSlot(pos, rest, n) = 0
  BY UseSlotBounds
<1>2. UseSlot(pos, rest, n) \in Nat
  BY <1>1
<1>3. QED
  BY <1>1, <1>2, CeilingType DEF NewContainers

\* A Get that does not panic finds a port for every container and for the
\* coordinator.
LEMMA PortsSuffice ==
  ASSUME NEW pos \in SortedPositions, NEW total \in Nat \ {0}, NEW rest \in Fills(pos, total),
         NEW n \in Node, NEW spc \in Nat \ {0}, ClusterTypeOK,
         ~PanicsAt(pos, rest, spc, n)
  PROVE  LET k == NewContainers(pos, rest, spc, n)
         IN  /\ k \in 0 .. Len(ports[n])
             /\ pos[n] = 1 => k + 1 \in 1 .. Len(ports[n])
             /\ PortsTaken(pos, n, k) \in 0 .. Len(ports[n])
<1> DEFINE k == NewContainers(pos, rest, spc, n)
<1>1. Len(ports[n]) \in Nat
  BY DEF ClusterTypeOK
<1>2. k \in Nat /\ (rest[pos[n] - 1] = 0 => k = 0)
  BY NewContainersType
<1>3. rest[pos[n] - 1] \in 0 .. total /\ (pos[n] = 1 => rest[pos[n] - 1] = total)
  BY UseSlotBounds
<1>4. CASE rest[pos[n] - 1] = 0
  BY <1>1, <1>2, <1>3, <1>4 DEF PortsTaken
<1>5. CASE rest[pos[n] - 1] > 0
  <2>1. PortsTaken(pos, n, k) <= Len(ports[n])
    BY <1>1, <1>2, <1>5 DEF PanicsAt, PortsTaken
  <2>2. QED
    BY <1>1, <1>2, <2>1 DEF PortsTaken
<1>6. QED
  BY <1>3, <1>4, <1>5

-----------------------------------------------------------------------------
(***************************************************************************)
(* Types.                                                                  *)
(***************************************************************************)
LEMMA CpuArrSubset ==
  ASSUME NEW n \in Node, NEW spc, NEW i
  PROVE  CpuArr(n, spc, i) \subseteq Cpu \ cpuMask[n]
  BY DEF CpuArr, FreeCpu

\* getCpuStr takes CPUs of the node that are free.
LEMMA CpuStrSubset ==
  ASSUME NEW n \in Node, NEW spc, NEW k
  PROVE  CpuStr(n, spc, k) \subseteq Cpu \ cpuMask[n]
  BY CpuArrSubset DEF CpuStr

\* What a Get that does not panic writes down as the grant of a node.
LEMMA NewGrantType ==
  ASSUME NEW pos \in SortedPositions, NEW total \in Nat \ {0}, NEW rest \in Fills(pos, total),
         NEW n \in Node, NEW spc \in Nat \ {0}, ClusterTypeOK,
         ~PanicsAt(pos, rest, spc, n)
  PROVE  NewGrant(pos, rest, spc, n) \subseteq Container
<1> DEFINE k == NewContainers(pos, rest, spc, n)
<1>1. k \in 0 .. Len(ports[n])
  BY PortsSuffice
<1>2. SUFFICES ASSUME NEW i \in 0 .. k - 1
               PROVE  [ip |-> n, port |-> ports[n][i + 1],
                       cpuSet |-> IF ShareCpu THEN CpuStr(n, spc, k) ELSE CpuArr(n, spc, i)]
                        \in Container
  BY DEF NewGrant
<1>3. ports[n] \in Seq(Port)
  BY DEF ClusterTypeOK
<1>4. i + 1 \in 1 .. Len(ports[n])
  BY <1>1, <1>2, <1>3
<1>5. ports[n][i + 1] \in Port
  BY <1>3, <1>4
<1>6. (IF ShareCpu THEN CpuStr(n, spc, k) ELSE CpuArr(n, spc, i)) \in SUBSET Cpu
  BY CpuStrSubset, CpuArrSubset
<1>7. QED
  BY <1>5, <1>6 DEF Container

\* A Get that does not panic leaves the ledger well typed.
LEMMA GetTypes ==
  ASSUME ClusterTypeOK, NEW h \in Holder, NEW d \in Demand, Get(h, d)
  PROVE  ClusterTypeOK'
<1> DEFINE spc == d.slotPerContainer
<1>1. spc \in Nat \ {0} /\ TotalSlot(d) \in Nat \ {0}
  BY DemandType
<1>2. PICK pos \in SortedPositions : \E rest \in Fills(pos, TotalSlot(d)) :
        /\ \A n \in Node : ~PanicsAt(pos, rest, spc, n)
        /\ Take(h, pos, rest, spc)
  BY DEF Get
<1>3. PICK rest \in Fills(pos, TotalSlot(d)) :
        /\ \A n \in Node : ~PanicsAt(pos, rest, spc, n)
        /\ Take(h, pos, rest, spc)
  BY <1>2
<1> DEFINE K(n) == NewContainers(pos, rest, spc, n)
<1>4. slot' \in [Node -> Nat]
  <2>1. ASSUME NEW n \in Node PROVE slot[n] - UseSlot(pos, rest, n) \in Nat
    <3>1. UseSlot(pos, rest, n) \in 0 .. slot[n]
      BY <1>1, UseSlotBounds
    <3>2. slot[n] \in Nat
      BY DEF ClusterTypeOK
    <3>3. QED
      BY <3>1, <3>2
  <2>2. QED
    BY <1>3, <2>1 DEF Take
<1>5. cpuMask' \in [Node -> SUBSET Cpu]
  <2>1. ASSUME NEW n \in Node
        PROVE cpuMask[n] \cup CpuStr(n, spc, K(n)) \in SUBSET Cpu
    BY CpuStrSubset DEF ClusterTypeOK
  <2>2. QED
    BY <1>3, <2>1 DEF Take
<1>6. ports' \in [Node -> Seq(Port)]
  <2>1. ASSUME NEW n \in Node
        PROVE SubSeq(ports[n], PortsTaken(pos, n, K(n)) + 1, Len(ports[n])) \in Seq(Port)
    <3>1. ports[n] \in Seq(Port)
      BY DEF ClusterTypeOK
    <3>2. PortsTaken(pos, n, K(n)) \in 0 .. Len(ports[n])
      BY <1>1, <1>3, PortsSuffice
    <3>3. QED
      BY <3>1, <3>2
  <2>2. QED
    BY <1>3, <2>1 DEF Take
<1>7. granted' \in [Holder -> SUBSET Container]
  <2>1. UNION { NewGrant(pos, rest, spc, n) : n \in Node } \subseteq Container
    BY <1>1, <1>3, NewGrantType
  <2>2. QED
    BY <1>3, <2>1 DEF ClusterTypeOK, Take
<1>8. coordinator' \in [Holder -> SUBSET Address]
  <2>1. ASSUME NEW n \in Node, pos[n] = 1
        PROVE [ip |-> n, port |-> ports[n][K(n) + 1]] \in Address
    <3>1. ports[n] \in Seq(Port)
      BY DEF ClusterTypeOK
    <3>2. K(n) + 1 \in 1 .. Len(ports[n])
      BY <1>1, <1>3, <2>1, <3>1, PortsSuffice
    <3>3. QED
      BY <3>1, <3>2 DEF Address
  <2>2. QED
    BY <1>3, <2>1 DEF ClusterTypeOK, Take
<1>9. /\ demand' \in [Holder -> Demand \cup {NoDemand}]
      /\ clusterLock' \in {"free", "stuck"}
  BY DEF Get, ClusterTypeOK
<1>10. QED
  BY <1>4, <1>5, <1>6, <1>7, <1>8, <1>9 DEF ClusterTypeOK

\* A host has finitely many ports and CPUs, so a set holds finitely many containers.
LEMMA ContainersFinite ==
  ASSUME NEW S \in SUBSET Container
  PROVE  IsFiniteSet(S) /\ Cardinality(S) \in Nat
<1> DEFINE Fields == (Node \X Port) \X (SUBSET Cpu)
           rec == [f \in Fields |-> [ip |-> f[1][1], port |-> f[1][2], cpuSet |-> f[2]]]
<1>1. IsFiniteSet(Port) /\ IsFiniteSet(Cpu)
  <2>1. LowPort \in Int /\ HighPort \in Int /\ 0 \in Int /\ MaxSlotPerNode - 1 \in Int
    BY ClusterAssumption
  <2>2. QED
    BY <2>1, FS_Interval DEF Port, Cpu
<1>2. IsFiniteSet(SUBSET Cpu)
  BY <1>1, FS_SUBSET
<1>3. IsFiniteSet(Node \X Port)
  BY <1>1, FS_Product, ClusterAssumption
<1>4. IsFiniteSet(Fields)
  BY <1>2, <1>3, FS_Product
<1>5. rec \in Surjection(Fields, Container)
  <2>1. rec \in [Fields -> Container]
    BY DEF Container
  <2>2. ASSUME NEW c \in Container
        PROVE \E f \in Fields : rec[f] = c
    <3>1. << << c.ip, c.port >>, c.cpuSet >> \in Fields
      BY DEF Container
    <3>2. c = [ip |-> c.ip, port |-> c.port, cpuSet |-> c.cpuSet]
      BY DEF Container
    <3>3. QED
      BY <3>1, <3>2
  <2>3. QED
    BY <2>1, <2>2 DEF Surjection
<1>6. IsFiniteSet(Container)
  BY <1>4, <1>5, FS_Surjection
<1>7. QED
  BY <1>6, FS_Subset, FS_CardinalityType

\* A walk lists the containers of a host, each once.
LEMMA WalkType ==
  ASSUME ClusterTypeOK, NEW h \in Holder, NEW walk \in Walks(h), NEW n \in Node
  PROVE  /\ walk[n] \in Seq(Container)
         /\ \A i \in 1 .. Len(walk[n]) : walk[n][i] \in OnNode(h, n)
         /\ \A i, j \in 1 .. Len(walk[n]) : walk[n][i] = walk[n][j] => i = j
<1> DEFINE S == OnNode(h, n)
<1>1. S \subseteq Container
  BY DEF OnNode, ClusterTypeOK
<1>2. Cardinality(S) \in Nat
  BY <1>1, ContainersFinite
<1>3. walk[n] \in SetToSeqs(S)
  BY DEF Walks
<1>4. /\ walk[n] \in [1 .. Cardinality(S) -> S]
      /\ \A i, j \in 1 .. Cardinality(S) : i # j => walk[n][i] # walk[n][j]
  BY <1>3 DEF SetToSeqs
<1>5. walk[n] \in Seq(S) /\ Len(walk[n]) = Cardinality(S)
  BY <1>2, <1>4
<1>6. walk[n] \in Seq(Container)
  BY <1>1, <1>5
<1>7. QED
  BY <1>4, <1>5, <1>6

\* The ports Put returns for a host.
LEMMA ReturnedPortsType ==
  ASSUME ClusterTypeOK, NEW h \in Holder, NEW walk \in Walks(h), NEW n \in Node
  PROVE  /\ WalkedPorts(walk[n]) \in Seq(Port)
         /\ Len(WalkedPorts(walk[n])) = Len(walk[n])
         /\ CoordinatorPort(h, n) \in Seq(Port)
<1>1. walk[n] \in Seq(Container)
  BY WalkType
<1>2. WalkedPorts(walk[n]) \in Seq(Port) /\ Len(WalkedPorts(walk[n])) = Len(walk[n])
  <2>1. DOMAIN walk[n] = 1 .. Len(walk[n]) /\ Len(walk[n]) \in Nat
    BY <1>1
  <2>2. ASSUME NEW i \in 1 .. Len(walk[n]) PROVE walk[n][i].port \in Port
    <3>1. walk[n][i] \in Container
      BY <1>1
    <3>2. QED
      BY <3>1 DEF Container
  <2>3. WalkedPorts(walk[n]) \in [1 .. Len(walk[n]) -> Port]
    BY <2>1, <2>2 DEF WalkedPorts
  <2>4. QED
    BY <2>1, <2>3
<1>3. CoordinatorPort(h, n) \in Seq(Port)
  <2>1. CASE \E a \in coordinator[h] : a.ip = n
    <3>1. PICK a \in coordinator[h] : a = (CHOOSE x \in coordinator[h] : x.ip = n)
      BY <2>1
    <3>2. a.port \in Port
      BY <3>1 DEF ClusterTypeOK, Address
    <3>3. QED
      BY <2>1, <3>1, <3>2 DEF CoordinatorPort
  <2>2. CASE ~\E a \in coordinator[h] : a.ip = n
    BY <2>2 DEF CoordinatorPort
  <2>3. QED
    BY <2>1, <2>2
<1>4. QED
  BY <1>2, <1>3

\* Put leaves the ledger well typed.
LEMMA PutTypes ==
  ASSUME ClusterTypeOK, NEW h \in Holder, Put(h)
  PROVE  ClusterTypeOK'
<1> DEFINE spc == demand[h].slotPerContainer
<1>1. PICK walk \in Walks(h) :
        /\ ports' = [n \in Node |-> ports[n] \o Returned(h, walk, n)]
        /\ cpuMask' = [n \in Node |-> cpuMask[n] \ FreedCpu(walk[n])]
  BY DEF Put
<1>2. slot' \in [Node -> Nat]
  <2>1. spc \in Nat
    BY ClusterAssumption DEF ClusterTypeOK, NoDemand
  <2>2. ASSUME NEW n \in Node
        PROVE slot[n] + Cardinality(OnNode(h, n)) * spc \in Nat
    <3>1. Cardinality(OnNode(h, n)) \in Nat
      BY ContainersFinite DEF OnNode, ClusterTypeOK
    <3>2. slot[n] \in Nat
      BY DEF ClusterTypeOK
    <3>3. QED
      BY <2>1, <3>1, <3>2
  <2>3. QED
    BY <2>2 DEF Put
<1>3. ports' \in [Node -> Seq(Port)]
  <2>1. ASSUME NEW n \in Node
        PROVE ports[n] \o Returned(h, walk, n) \in Seq(Port)
    <3>1. ports[n] \in Seq(Port)
      BY DEF ClusterTypeOK
    <3>2. Returned(h, walk, n) \in Seq(Port)
      BY ReturnedPortsType DEF Returned
    <3>3. QED
      BY <3>1, <3>2
  <2>2. QED
    BY <1>1, <2>1
<1>4. cpuMask' \in [Node -> SUBSET Cpu]
  BY <1>1 DEF ClusterTypeOK
<1>5. /\ granted' \in [Holder -> SUBSET Container]
      /\ coordinator' \in [Holder -> SUBSET Address]
      /\ demand' \in [Holder -> Demand \cup {NoDemand}]
      /\ clusterLock' \in {"free", "stuck"}
  BY DEF Put, ClusterTypeOK
<1>6. QED
  BY <1>2, <1>3, <1>4, <1>5 DEF ClusterTypeOK

\* The ledger starts well typed.
LEMMA InitTypes == ClusterInit => ClusterTypeOK
<1> SUFFICES ASSUME ClusterInit PROVE ClusterTypeOK
  OBVIOUS
<1>1. slot \in [Node -> Nat]
  BY ClusterAssumption DEF ClusterInit, Capacity
<1>2. ports \in [Node -> Seq(Port)]
  <2>1. [i \in 1 .. HighPort - LowPort + 1 |-> LowPort + i - 1] \in Seq(Port)
    BY ClusterAssumption DEF Port
  <2>2. QED
    BY <2>1 DEF ClusterInit
<1>3. QED
  BY <1>1, <1>2 DEF ClusterInit, ClusterTypeOK

\* No step of the ledger leaves its types.
LEMMA LedgerTypeStep ==
  ASSUME ClusterTypeOK, [ClusterNext]_clusterVars
  PROVE  ClusterTypeOK'
<1>1. CASE \E h \in Holder, d \in Demand : granted[h] = {} /\ Get(h, d)
  BY <1>1, GetTypes
<1>2. CASE \E d \in Demand : GetPanics(d)
  BY <1>2 DEF GetPanics, ClusterTypeOK
<1>3. CASE \E h \in Holder : Put(h)
  BY <1>3, PutTypes
<1>4. CASE UNCHANGED clusterVars
  BY <1>4 DEF clusterVars, ClusterTypeOK
<1>5. QED
  BY <1>1, <1>2, <1>3, <1>4 DEF ClusterNext

\* Every field of the ledger keeps its type, whatever the demands are: no
\* port list, mask or slot count is ever corrupted by a Get or a Put.
THEOREM LedgerTypeCorrect == ClusterSpec => []ClusterTypeOK
  BY LedgerTypeStep, InitTypes, PTL DEF ClusterSpec

-----------------------------------------------------------------------------
(***************************************************************************)
(* No two sets share a CPU.  That the CPUs of every live container are     *)
(* still marked is what makes the exclusion inductive: Get chooses among   *)
(* the unmarked ones, and Put unmarks only those of its own containers.    *)
(***************************************************************************)

\* The containers a Get creates are on CPUs it marks and that were not marked.
LEMMA NewGrantCpus ==
  ASSUME NEW pos, NEW rest, NEW spc \in Nat \ {0}, NEW n \in Node,
         NEW c \in NewGrant(pos, rest, spc, n)
  PROVE  /\ c.ip = n
         /\ c.cpuSet \subseteq CpuStr(n, spc, NewContainers(pos, rest, spc, n))
         /\ c.cpuSet \cap cpuMask[n] = {}
<1> DEFINE k == NewContainers(pos, rest, spc, n)
<1>1. PICK i \in 0 .. k - 1 :
        c = [ip |-> n, port |-> ports[n][i + 1],
             cpuSet |-> IF ShareCpu THEN CpuStr(n, spc, k) ELSE CpuArr(n, spc, i)]
  BY DEF NewGrant
<1>2. c.ip = n /\ c.cpuSet = IF ShareCpu THEN CpuStr(n, spc, k) ELSE CpuArr(n, spc, i)
  BY <1>1
<1>3. CpuArr(n, spc, i) \subseteq CpuStr(n, spc, k)
  BY DEF CpuStr
<1>4. CpuStr(n, spc, k) \cap cpuMask[n] = {}
  BY CpuStrSubset
<1>5. QED
  BY <1>2, <1>3, <1>4

\* Without SHARE_CPU two new containers of a host have different CPUs.
LEMMA NewGrantDisjoint ==
  ASSUME NEW pos, NEW rest, NEW spc \in Nat \ {0}, NEW n \in Node, ~ShareCpu,
         NEW b \in NewGrant(pos, rest, spc, n), NEW c \in NewGrant(pos, rest, spc, n),
         b # c
  PROVE  b.cpuSet \cap c.cpuSet = {}
<1> DEFINE k == NewContainers(pos, rest, spc, n)
           made(i) == [ip |-> n, port |-> ports[n][i + 1], cpuSet |-> CpuArr(n, spc, i)]
<1>1. PICK i \in 0 .. k - 1 : b = made(i)
  BY DEF NewGrant
<1>2. PICK j \in 0 .. k - 1 : c = made(j)
  BY DEF NewGrant
<1>3. i \in Nat /\ j \in Nat /\ i # j
  BY <1>1, <1>2
<1>4. ASSUME NEW cpu \in CpuArr(n, spc, i) \cap CpuArr(n, spc, j)
      PROVE  FALSE
  <2>1. Rank(n, cpu) \in i * spc .. (i + 1) * spc - 1 /\ Rank(n, cpu) \in j * spc .. (j + 1) * spc - 1
    BY DEF CpuArr
  <2>2. i * spc \in Int /\ (i + 1) * spc - 1 \in Int
    BY <1>3
  <2>3. Rank(n, cpu) \in Int
    BY <2>1, <2>2
  <2>4. QED
    BY <1>3, <2>1, <2>3, RankIntervals
<1>5. QED
  BY <1>1, <1>2, <1>4

\* Get gives no CPU that another set holds.
LEMMA GetExclusive ==
  ASSUME ClusterTypeOK, CpuExclusive, NEW h \in Holder, NEW d \in Demand, Get(h, d)
  PROVE  CpuExclusive'
<1> DEFINE spc == d.slotPerContainer
<1>1. spc \in Nat \ {0}
  BY DemandType
<1>2. PICK pos \in SortedPositions : \E rest \in Fills(pos, TotalSlot(d)) : Take(h, pos, rest, spc)
  BY DEF Get
<1>3. PICK rest \in Fills(pos, TotalSlot(d)) : Take(h, pos, rest, spc)
  BY <1>2
<1> DEFINE K(n) == NewContainers(pos, rest, spc, n)
           New == UNION { NewGrant(pos, rest, spc, n) : n \in Node }
<1>4. /\ granted'[h] = New
      /\ \A g \in Holder \ {h} : granted'[g] = granted[g]
  BY <1>3 DEF Take, ClusterTypeOK
<1>5. \A n \in Node : cpuMask'[n] = cpuMask[n] \cup CpuStr(n, spc, K(n))
  BY <1>3 DEF Take
<1>6. ASSUME NEW c \in New
      PROVE  /\ c.ip \in Node
             /\ c \in NewGrant(pos, rest, spc, c.ip)
             /\ c.cpuSet \subseteq cpuMask'[c.ip]
             /\ c.cpuSet \cap cpuMask[c.ip] = {}
  <2>1. PICK n \in Node : c \in NewGrant(pos, rest, spc, n)
    OBVIOUS
  <2>2. /\ c.ip = n
        /\ c.cpuSet \subseteq CpuStr(n, spc, K(n))
        /\ c.cpuSet \cap cpuMask[n] = {}
    BY <1>1, <2>1, NewGrantCpus
  <2>3. QED
    BY <1>5, <2>1, <2>2
<1>7. ASSUME NEW g \in Holder, g # h, NEW c \in granted[g]
      PROVE  c.ip \in Node /\ c.cpuSet \subseteq cpuMask[c.ip] /\ c.cpuSet \subseteq cpuMask'[c.ip]
  <2>1. c.ip \in Node
    BY DEF ClusterTypeOK, Container
  <2>2. c.cpuSet \subseteq cpuMask[c.ip]
    BY DEF CpuExclusive
  <2>3. QED
    BY <1>5, <2>1, <2>2
<1>8. ASSUME NEW g \in Holder, NEW c \in granted'[g]
      PROVE  c.cpuSet \subseteq cpuMask'[c.ip]
  BY <1>4, <1>6, <1>7
<1>9. ASSUME NEW f \in Holder, NEW g \in Holder, NEW b \in granted'[f], NEW c \in granted'[g],
             b.ip = c.ip, f # g \/ (b # c /\ ~ShareCpu)
      PROVE  b.cpuSet \cap c.cpuSet = {}
  <2>1. CASE f = h /\ g = h
    <3>1. b \in NewGrant(pos, rest, spc, b.ip) /\ c \in NewGrant(pos, rest, spc, b.ip) /\ b.ip \in Node
      BY <1>4, <1>6, <1>9, <2>1
    <3>2. QED
      BY <1>1, <1>9, <2>1, <3>1, NewGrantDisjoint
  <2>2. CASE f = h /\ g # h
    BY <1>4, <1>6, <1>7, <1>9, <2>2
  <2>3. CASE f # h /\ g = h
    BY <1>4, <1>6, <1>7, <1>9, <2>3
  <2>4. CASE f # h /\ g # h
    BY <1>4, <1>9, <2>4 DEF CpuExclusive
  <2>5. QED
    BY <2>1, <2>2, <2>3, <2>4
<1>10. QED
  BY <1>8, <1>9 DEF CpuExclusive

\* Put frees only the CPUs of its own set.
LEMMA PutExclusive ==
  ASSUME ClusterTypeOK, CpuExclusive, NEW h \in Holder, Put(h)
  PROVE  CpuExclusive'
<1>1. PICK walk \in Walks(h) : cpuMask' = [n \in Node |-> cpuMask[n] \ FreedCpu(walk[n])]
  BY DEF Put
<1>2. granted'[h] = {} /\ \A g \in Holder \ {h} : granted'[g] = granted[g]
  BY DEF Put, ClusterTypeOK
<1>3. ASSUME NEW g \in Holder, NEW c \in granted'[g]
      PROVE  c.cpuSet \subseteq cpuMask'[c.ip]
  <2>1. g # h /\ c \in granted[g]
    BY <1>2
  <2>2. c.ip \in Node
    BY <2>1 DEF ClusterTypeOK, Container
  <2>3. c.cpuSet \subseteq cpuMask[c.ip]
    BY <2>1 DEF CpuExclusive
  <2> DEFINE w == walk[c.ip]
  <2>4. FreedCpu(w) \cap c.cpuSet = {}
    <3>1. CASE w = << >>
      BY <3>1 DEF FreedCpu
    <3>2. CASE w # << >>
      <4>1. Len(w) \in 1 .. Len(w)
        BY <2>2, <3>2, WalkType
      <4>2. w[Len(w)] \in OnNode(h, c.ip)
        BY <2>2, <4>1, WalkType
      <4>3. w[Len(w)] \in granted[h] /\ w[Len(w)].ip = c.ip
        BY <4>2 DEF OnNode
      <4>4. w[Len(w)].cpuSet \cap c.cpuSet = {}
        BY <2>1, <4>3 DEF CpuExclusive
      <4>5. QED
        BY <3>2, <4>4 DEF FreedCpu
    <3>3. QED
      BY <3>1, <3>2
  <2>5. cpuMask'[c.ip] = cpuMask[c.ip] \ FreedCpu(w)
    BY <1>1, <2>2
  <2>6. QED
    BY <2>3, <2>4, <2>5
<1>4. ASSUME NEW f \in Holder, NEW g \in Holder, NEW b \in granted'[f], NEW c \in granted'[g],
             b.ip = c.ip, f # g \/ (b # c /\ ~ShareCpu)
      PROVE  b.cpuSet \cap c.cpuSet = {}
  BY <1>2, <1>4 DEF CpuExclusive
<1>5. QED
  BY <1>3, <1>4 DEF CpuExclusive

\* For every cluster and every sequence of requests and recycles, two live
\* container sets never run on one CPU of a host; without SHARE_CPU, nor do
\* two containers of one set.  This holds even where Put forgets CPUs.
THEOREM NoCpuGrantedTwice == ClusterSpec => []CpuExclusive
<1>1. ClusterInit => CpuExclusive
  BY DEF ClusterInit, CpuExclusive
<1>2. ASSUME ClusterTypeOK, CpuExclusive, [ClusterNext]_clusterVars
      PROVE  CpuExclusive'
  <2>1. CASE \E h \in Holder, d \in Demand : granted[h] = {} /\ Get(h, d)
    BY <1>2, <2>1, GetExclusive
  <2>2. CASE \E d \in Demand : GetPanics(d)
    BY <1>2, <2>2 DEF GetPanics, CpuExclusive
  <2>3. CASE \E h \in Holder : Put(h)
    BY <1>2, <2>3, PutExclusive
  <2>4. CASE UNCHANGED clusterVars
    BY <1>2, <2>4 DEF clusterVars, CpuExclusive
  <2>5. QED
    BY <1>2, <2>1, <2>2, <2>3, <2>4 DEF ClusterNext
<1>3. QED
  BY <1>1, <1>2, LedgerTypeCorrect, PTL DEF ClusterSpec

-----------------------------------------------------------------------------
(***************************************************************************)
(* No two containers are published on one port.  The ports in use and the  *)
(* free list of a host have to be disjoint, and the list without           *)
(* duplicates, for Get's new ports to be new.                              *)
(***************************************************************************)

\* The addresses a Get hands out come from the part of the free lists it cuts off.
LEMMA NewAddresses ==
  ASSUME ClusterTypeOK, PortExclusive,
         NEW pos \in SortedPositions, NEW total \in Nat \ {0}, NEW rest \in Fills(pos, total),
         NEW n \in Node, NEW spc \in Nat \ {0}, ~PanicsAt(pos, rest, spc, n)
  PROVE  LET k == NewContainers(pos, rest, spc, n)
             t == PortsTaken(pos, n, k)
         IN  /\ t \in 0 .. Len(ports[n])
             /\ \A c \in NewGrant(pos, rest, spc, n) :
                  /\ c.ip = n
                  /\ \E i \in 1 .. k : i <= t /\ c.port = ports[n][i]
             /\ pos[n] = 1 => k + 1 = t
             /\ k \in 0 .. Len(ports[n])
             /\ \A b, c \in NewGrant(pos, rest, spc, n) : b.port = c.port => b = c
<1> DEFINE k == NewContainers(pos, rest, spc, n)
           t == PortsTaken(pos, n, k)
           made(i) == [ip |-> n, port |-> ports[n][i + 1],
                       cpuSet |-> IF ShareCpu THEN CpuStr(n, spc, k) ELSE CpuArr(n, spc, i)]
<1>1. k \in 0 .. Len(ports[n]) /\ t \in 0 .. Len(ports[n])
  BY PortsSuffice
<1>2. k <= t /\ (pos[n] = 1 => k + 1 = t)
  BY <1>1 DEF PortsTaken
<1>3. ASSUME NEW c \in NewGrant(pos, rest, spc, n)
      PROVE  \E i \in 0 .. k - 1 : c = made(i)
  BY DEF NewGrant
<1>4. ASSUME NEW c \in NewGrant(pos, rest, spc, n)
      PROVE  c.ip = n /\ \E i \in 1 .. k : i <= t /\ c.port = ports[n][i]
  <2>1. PICK i \in 0 .. k - 1 : c = made(i)
    BY <1>3
  <2>2. i + 1 \in 1 .. k /\ i + 1 <= t
    BY <1>1, <1>2
  <2>3. c.ip = n /\ c.port = ports[n][i + 1]
    BY <2>1
  <2>4. QED
    BY <2>2, <2>3
<1>5. ASSUME NEW b \in NewGrant(pos, rest, spc, n), NEW c \in NewGrant(pos, rest, spc, n),
             b.port = c.port
      PROVE  b = c
  <2>1. PICK i \in 0 .. k - 1 : b = made(i)
    BY <1>3
  <2>2. PICK j \in 0 .. k - 1 : c = made(j)
    BY <1>3
  <2>3. i + 1 \in 1 .. Len(ports[n]) /\ j + 1 \in 1 .. Len(ports[n])
    BY <1>1
  <2>4. ports[n][i + 1] = ports[n][j + 1]
    BY <1>5, <2>1, <2>2
  <2>5. i + 1 = j + 1
    BY <2>3, <2>4 DEF PortExclusive
  <2>6. i = j
    BY <2>5
  <2>7. QED
    BY <2>1, <2>2, <2>6
<1>6. QED
  BY <1>1, <1>2, <1>4, <1>5

\* The ports Get takes from the free lists are in no other grant.
LEMMA GetPorts ==
  ASSUME ClusterTypeOK, PortExclusive, NEW h \in Holder, NEW d \in Demand, Get(h, d)
  PROVE  PortExclusive'
<1> DEFINE spc == d.slotPerContainer
<1>1. spc \in Nat \ {0} /\ TotalSlot(d) \in Nat \ {0}
  BY DemandType
<1>2. PICK pos \in SortedPositions : \E rest \in Fills(pos, TotalSlot(d)) :
        /\ \A n \in Node : ~PanicsAt(pos, rest, spc, n)
        /\ Take(h, pos, rest, spc)
  BY DEF Get
<1>3. PICK rest \in Fills(pos, TotalSlot(d)) :
        /\ \A n \in Node : ~PanicsAt(pos, rest, spc, n)
        /\ Take(h, pos, rest, spc)
  BY <1>2
<1> DEFINE K(n) == NewContainers(pos, rest, spc, n)
           T(n) == PortsTaken(pos, n, K(n))
           Made(n) == NewGrant(pos, rest, spc, n)
           New == UNION { Made(n) : n \in Node }
           Head1 == { n \in Node : pos[n] = 1 }
           Coord == { [ip |-> n, port |-> ports[n][K(n) + 1]] : n \in Head1 }
<1>4. ASSUME NEW n \in Node
      PROVE  /\ T(n) \in 0 .. Len(ports[n])
             /\ K(n) \in 0 .. Len(ports[n])
             /\ pos[n] = 1 => K(n) + 1 = T(n)
             /\ \A c \in Made(n) : c.ip = n /\ \E i \in 1 .. K(n) : i <= T(n) /\ c.port = ports[n][i]
             /\ \A b, c \in Made(n) : b.port = c.port => b = c
  BY <1>1, <1>3, NewAddresses
<1>5. /\ granted'[h] = New /\ coordinator'[h] = Coord
      /\ \A g \in Holder \ {h} : granted'[g] = granted[g] /\ coordinator'[g] = coordinator[g]
  BY <1>3 DEF Take, ClusterTypeOK
<1>6. /\ Addresses(h)' = { AddressOf(c) : c \in New } \cup Coord
      /\ \A g \in Holder \ {h} : Addresses(g)' = Addresses(g)
  BY <1>5 DEF Addresses
<1>7. ASSUME NEW c \in New
      PROVE  /\ c.ip \in Node /\ c \in Made(c.ip)
             /\ \E i \in 1 .. K(c.ip) : i <= T(c.ip) /\ c.port = ports[c.ip][i]
  <2>1. PICK n \in Node : c \in Made(n)
    OBVIOUS
  <2>2. QED
    BY <1>4, <2>1
<1>8. ASSUME NEW a \in Coord
      PROVE  /\ a.ip \in Node /\ K(a.ip) + 1 = T(a.ip) /\ T(a.ip) \in 1 .. Len(ports[a.ip])
             /\ a.port = ports[a.ip][T(a.ip)]
  <2>1. PICK n \in Node : pos[n] = 1 /\ a = [ip |-> n, port |-> ports[n][K(n) + 1]]
    OBVIOUS
  <2>2. a.ip = n /\ a.port = ports[n][K(n) + 1]
    BY <2>1
  <2>3. K(n) + 1 = T(n) /\ T(n) \in 0 .. Len(ports[n]) /\ K(n) \in 0 .. Len(ports[n])
    BY <1>4, <2>1
  <2>4. T(n) \in 1 .. Len(ports[n])
    BY <2>3
  <2>5. QED
    BY <2>2, <2>3, <2>4
<1>9. ASSUME NEW a \in Addresses(h)'
      PROVE  a.ip \in Node /\ \E i \in 1 .. T(a.ip) : a.port = ports[a.ip][i]
  <2>1. CASE a \in Coord
    BY <1>8, <2>1
  <2>2. CASE a \in { AddressOf(c) : c \in New }
    <3>1. PICK c \in New : a.ip = c.ip /\ a.port = c.port
      BY <2>2 DEF AddressOf
    <3>2. PICK i \in 1 .. K(c.ip) : i <= T(c.ip) /\ c.port = ports[c.ip][i]
      BY <1>7
    <3>3. c.ip \in Node /\ T(c.ip) \in Int
      BY <1>4, <1>7
    <3>4. i \in 1 .. T(c.ip)
      BY <3>2, <3>3
    <3>5. QED
      BY <3>1, <3>2, <3>3, <3>4
  <2>3. QED
    BY <1>6, <1>9, <2>1, <2>2
<1>10. ASSUME NEW n \in Node
       PROVE  /\ Len(ports'[n]) = Len(ports[n]) - T(n)
              /\ \A i \in 1 .. Len(ports'[n]) : ports'[n][i] = ports[n][i + T(n)]
  <2>1. ports[n] \in Seq(Port) /\ T(n) \in 0 .. Len(ports[n])
    BY <1>4 DEF ClusterTypeOK
  <2>2. ports'[n] = SubSeq(ports[n], T(n) + 1, Len(ports[n]))
    BY <1>3 DEF Take
  <2>3. QED
    BY <2>1, <2>2, SMTT(30)
<1>11. ASSUME NEW n \in Node, NEW i \in 1 .. Len(ports'[n])
       PROVE  i \in Nat /\ T(n) \in Nat /\ i + T(n) \in T(n) + 1 .. Len(ports[n])
  BY <1>4, <1>10
<1>12. ASSUME NEW n \in Node, NEW i \in 1 .. Len(ports[n]), NEW j \in 1 .. Len(ports[n]),
              ports[n][i] = ports[n][j]
       PROVE  i = j
  BY <1>12 DEF PortExclusive
<1>13. ASSUME NEW g \in Holder, g # h, NEW a \in Addresses(g), a \in Addresses(h)'
       PROVE  FALSE
  <2>1. PICK i \in 1 .. T(a.ip) : a.port = ports[a.ip][i]
    BY <1>9, <1>13
  <2>2. i \in 1 .. Len(ports[a.ip])
    BY <1>4, <1>9, <1>13, <2>1
  <2>3. QED
    BY <2>1, <2>2 DEF PortExclusive
<1>14. \A f, g \in Holder : f # g => Addresses(f)' \cap Addresses(g)' = {}
  <2> SUFFICES ASSUME NEW f \in Holder, NEW g \in Holder, f # g
               PROVE  Addresses(f)' \cap Addresses(g)' = {}
    OBVIOUS
  <2>1. CASE f = h
    BY <1>6, <1>13, <2>1
  <2>2. CASE g = h
    BY <1>6, <1>13, <2>2
  <2>3. CASE f # h /\ g # h
    BY <1>6, <2>3 DEF PortExclusive
  <2>4. QED
    BY <2>1, <2>2, <2>3
<1>15. ASSUME NEW g \in Holder, NEW b \in granted'[g], NEW c \in granted'[g],
              AddressOf(b) = AddressOf(c)
       PROVE  b = c
  <2>1. b.ip = c.ip /\ b.port = c.port
    BY <1>15 DEF AddressOf
  <2>2. CASE g = h
    <3>1. b \in Made(b.ip) /\ c \in Made(b.ip) /\ b.ip \in Node
      BY <1>5, <1>7, <2>1, <2>2
    <3>2. QED
      BY <1>4, <2>1, <3>1
  <2>3. CASE g # h
    BY <1>5, <1>15, <2>3 DEF PortExclusive
  <2>4. QED
    BY <2>2, <2>3
<1>16. ASSUME NEW g \in Holder, NEW c \in granted'[g], AddressOf(c) \in coordinator'[g]
       PROVE  FALSE
  <2>1. CASE g = h
    <3> DEFINE a == AddressOf(c)
               n == c.ip
    <3>1. a.ip = n /\ a.port = c.port
      BY DEF AddressOf
    <3>2. n \in Node /\ K(n) + 1 = T(n) /\ T(n) \in 1 .. Len(ports[n]) /\ c.port = ports[n][T(n)]
      BY <1>5, <1>8, <1>16, <2>1, <3>1
    <3>3. PICK i \in 1 .. K(n) : c.port = ports[n][i]
      BY <1>5, <1>7, <2>1
    <3>4. K(n) \in 0 .. Len(ports[n])
      BY <1>4, <3>2
    <3>5. i \in 1 .. Len(ports[n]) /\ i # T(n)
      BY <3>2, <3>4
    <3>6. QED
      BY <1>12, <3>2, <3>3, <3>5
  <2>2. CASE g # h
    BY <1>5, <1>16, <2>2 DEF PortExclusive
  <2>3. QED
    BY <2>1, <2>2
<1>17. ASSUME NEW g \in Holder, NEW a \in Addresses(g)', NEW i \in 1 .. Len(ports'[a.ip]),
              ports'[a.ip][i] = a.port
       PROVE  FALSE
  <2>1. a.ip \in Node
    <3>1. CASE g = h
      BY <1>9, <3>1
    <3>2. CASE g # h
      <4>1. a \in Addresses(g)
        BY <1>6, <3>2
      <4>2. QED
        BY <4>1 DEF Addresses, AddressOf, ClusterTypeOK, Container, Address
    <3>3. QED
      BY <3>1, <3>2
  <2> DEFINE n == a.ip
             j == i + T(n)
  <2>2. ports[n][j] = a.port /\ j \in T(n) + 1 .. Len(ports[n]) /\ T(n) \in Nat
    BY <1>10, <1>11, <1>17, <2>1
  <2>3. j \in 1 .. Len(ports[n])
    BY <2>2
  <2>4. CASE g = h
    <3>1. PICK m \in 1 .. T(n) : a.port = ports[n][m]
      BY <1>9, <2>4
    <3>2. T(n) \in 0 .. Len(ports[n])
      BY <1>4, <2>1
    <3>3. m \in 1 .. Len(ports[n]) /\ m # j
      BY <2>2, <3>1, <3>2
    <3>4. QED
      BY <1>12, <2>1, <2>2, <2>3, <3>1, <3>3
  <2>5. CASE g # h
    <3>1. a \in Addresses(g)
      BY <1>6, <2>5
    <3>2. QED
      BY <2>2, <2>3, <3>1 DEF PortExclusive
  <2>6. QED
    BY <2>4, <2>5
<1>18. ASSUME NEW n \in Node, NEW i \in 1 .. Len(ports'[n]), NEW j \in 1 .. Len(ports'[n]),
              ports'[n][i] = ports'[n][j]
       PROVE  i = j
  <2>1. /\ i + T(n) \in 1 .. Len(ports[n]) /\ j + T(n) \in 1 .. Len(ports[n])
        /\ i \in Nat /\ j \in Nat /\ T(n) \in Nat
    BY <1>11
  <2>2. ports[n][i + T(n)] = ports[n][j + T(n)]
    BY <1>10, <1>18
  <2>3. i + T(n) = j + T(n)
    BY <1>12, <2>1, <2>2
  <2>4. QED
    BY <2>1, <2>3
<1>19. QED
  BY <1>14, <1>15, <1>16, <1>17, <1>18 DEF PortExclusive

\* What Put appends to a free list: ports of the recycled set, each once.
LEMMA ReturnedPorts ==
  ASSUME ClusterTypeOK, PortExclusive, NEW h \in Holder, NEW walk \in Walks(h), NEW n \in Node
  PROVE  LET r == Returned(h, walk, n)
         IN  /\ r \in Seq(Port)
             /\ \A i \in 1 .. Len(r) : \E a \in Addresses(h) : a.ip = n /\ a.port = r[i]
             /\ \A i, j \in 1 .. Len(r) : r[i] = r[j] => i = j
<1> DEFINE u == WalkedPorts(walk[n])
           v == CoordinatorPort(h, n)
           r == Returned(h, walk, n)
<1>1. u \in Seq(Port) /\ Len(u) = Len(walk[n]) /\ v \in Seq(Port)
  BY ReturnedPortsType
<1>2. ASSUME NEW i \in 1 .. Len(u)
      PROVE  /\ walk[n][i] \in granted[h]
             /\ u[i] = walk[n][i].port
             /\ AddressOf(walk[n][i]) = [ip |-> n, port |-> u[i]]
  <2>1. walk[n] \in Seq(Container) /\ i \in 1 .. Len(walk[n])
    BY <1>1, WalkType
  <2>2. walk[n][i] \in OnNode(h, n)
    BY <2>1, WalkType
  <2>3. u[i] = walk[n][i].port
    BY <2>1 DEF WalkedPorts
  <2>4. walk[n][i] \in granted[h] /\ walk[n][i].ip = n
    BY <2>2 DEF OnNode
  <2>5. QED
    BY <2>3, <2>4 DEF AddressOf
<1>3. Len(v) \in {0, 1} /\ \A i \in 1 .. Len(v) : i = 1 /\ [ip |-> n, port |-> v[i]] \in coordinator[h]
  <2>1. CASE \E a \in coordinator[h] : a.ip = n
    <3>1. PICK a \in coordinator[h] : a.ip = n /\ a = (CHOOSE x \in coordinator[h] : x.ip = n)
      BY <2>1
    <3>2. v = << a.port >>
      BY <2>1, <3>1 DEF CoordinatorPort
    <3>3. a \in Address
      BY DEF ClusterTypeOK
    <3>4. a = [ip |-> n, port |-> a.port]
      BY <3>1, <3>3 DEF Address
    <3>5. QED
      BY <3>2, <3>4
  <2>2. CASE ~\E a \in coordinator[h] : a.ip = n
    BY <2>2 DEF CoordinatorPort
  <2>3. QED
    BY <2>1, <2>2
<1>4. /\ r \in Seq(Port) /\ Len(r) = Len(u) + Len(v)
      /\ \A i \in 1 .. Len(r) : r[i] = IF i <= Len(u) THEN u[i] ELSE v[i - Len(u)]
  BY <1>1 DEF Returned
<1>5. Len(u) \in Nat /\ Len(v) \in Nat
  BY <1>1
<1>6. ASSUME NEW i \in 1 .. Len(r)
      PROVE  \E a \in Addresses(h) : a.ip = n /\ a.port = r[i]
  <2>1. CASE i <= Len(u)
    <3>1. i \in 1 .. Len(u) /\ r[i] = u[i]
      BY <1>4, <1>5, <2>1
    <3>2. [ip |-> n, port |-> u[i]] \in Addresses(h)
      BY <1>2, <3>1 DEF Addresses
    <3>3. QED
      BY <3>1, <3>2
  <2>2. CASE i > Len(u)
    <3>1. i - Len(u) \in 1 .. Len(v) /\ r[i] = v[i - Len(u)]
      BY <1>4, <1>5, <2>2
    <3>2. [ip |-> n, port |-> v[i - Len(u)]] \in Addresses(h)
      BY <1>3, <3>1 DEF Addresses
    <3>3. QED
      BY <3>1, <3>2
  <2>3. QED
    BY <1>4, <1>5, <2>1, <2>2
\* A container's port is not the coordinator's.
<1>7. ASSUME NEW i \in 1 .. Len(u), NEW j \in 1 .. Len(v)
      PROVE  u[i] # v[j]
  <2>1. AddressOf(walk[n][i]) \notin coordinator[h]
    BY <1>2 DEF PortExclusive
  <2>2. QED
    BY <1>2, <1>3, <2>1
<1>8. ASSUME NEW i \in 1 .. Len(u), NEW j \in 1 .. Len(u), u[i] = u[j]
      PROVE  i = j
  <2>1. AddressOf(walk[n][i]) = AddressOf(walk[n][j])
    BY <1>2, <1>8
  <2>2. walk[n][i] = walk[n][j]
    BY <1>2, <2>1 DEF PortExclusive
  <2>3. QED
    BY <1>1, <2>2, WalkType
<1>9. ASSUME NEW i \in 1 .. Len(r), NEW j \in 1 .. Len(r), r[i] = r[j]
      PROVE  i = j
  <2>1. CASE i <= Len(u) /\ j <= Len(u)
    <3>1. i \in 1 .. Len(u) /\ j \in 1 .. Len(u) /\ u[i] = u[j]
      BY <1>4, <1>5, <1>9, <2>1
    <3>2. QED
      BY <1>8, <3>1
  <2>2. CASE i <= Len(u) /\ j > Len(u)
    <3>1. i \in 1 .. Len(u) /\ j - Len(u) \in 1 .. Len(v) /\ u[i] = v[j - Len(u)]
      BY <1>4, <1>5, <1>9, <2>2
    <3>2. QED
      BY <1>7, <3>1
  <2>3. CASE i > Len(u) /\ j <= Len(u)
    <3>1. j \in 1 .. Len(u) /\ i - Len(u) \in 1 .. Len(v) /\ u[j] = v[i - Len(u)]
      BY <1>4, <1>5, <1>9, <2>3
    <3>2. QED
      BY <1>7, <3>1
  <2>4. CASE i > Len(u) /\ j > Len(u)
    <3>1. i - Len(u) \in 1 .. Len(v) /\ j - Len(u) \in 1 .. Len(v)
      BY <1>4, <1>5, <2>4
    <3>2. i - Len(u) = 1 /\ j - Len(u) = 1
      BY <1>3, <3>1
    <3>3. QED
      BY <1>4, <1>5, <3>2
  <2>5. QED
    BY <1>4, <1>5, <2>1, <2>2, <2>3, <2>4
<1>10. QED
  BY <1>4, <1>6, <1>9

\* The ports Put returns are in no free list and in no other grant.
LEMMA PutPorts ==
  ASSUME ClusterTypeOK, PortExclusive, NEW h \in Holder, Put(h)
  PROVE  PortExclusive'
<1>1. PICK walk \in Walks(h) :
        ports' = [n \in Node |-> ports[n] \o Returned(h, walk, n)]
  BY DEF Put
<1>2. /\ granted'[h] = {} /\ coordinator'[h] = {}
      /\ \A g \in Holder \ {h} : granted'[g] = granted[g] /\ coordinator'[g] = coordinator[g]
  BY DEF Put, ClusterTypeOK
<1>3. Addresses(h)' = {} /\ \A g \in Holder \ {h} : Addresses(g)' = Addresses(g)
  BY <1>2 DEF Addresses
<1>4. ASSUME NEW n \in Node
      PROVE  /\ Returned(h, walk, n) \in Seq(Port)
             /\ \A i \in 1 .. Len(Returned(h, walk, n)) : \E a \in Addresses(h) : a.ip = n /\ a.port = Returned(h, walk, n)[i]
             /\ \A i, j \in 1 .. Len(Returned(h, walk, n)) : Returned(h, walk, n)[i] = Returned(h, walk, n)[j] => i = j
  BY ReturnedPorts
<1>5. ASSUME NEW n \in Node
      PROVE  /\ Len(ports[n]) \in Nat /\ Len(Returned(h, walk, n)) \in Nat
             /\ Len(ports'[n]) = Len(ports[n]) + Len(Returned(h, walk, n))
             /\ \A i \in 1 .. Len(ports'[n]) :
                  ports'[n][i] = IF i <= Len(ports[n]) THEN ports[n][i]
                                                       ELSE Returned(h, walk, n)[i - Len(ports[n])]
  <2>1. ports[n] \in Seq(Port) /\ Returned(h, walk, n) \in Seq(Port)
    BY <1>4 DEF ClusterTypeOK
  <2>2. ports'[n] = ports[n] \o Returned(h, walk, n)
    BY <1>1
  <2>3. QED
    BY <2>1, <2>2
<1>6. ASSUME NEW g \in Holder, NEW a \in Addresses(g)
      PROVE  a.ip \in Node /\ a = [ip |-> a.ip, port |-> a.port]
  BY DEF Addresses, AddressOf, ClusterTypeOK, Container, Address
\* A returned port is not in the free list already.
<1>7. ASSUME NEW n \in Node, NEW i \in 1 .. Len(ports[n]), NEW j \in 1 .. Len(Returned(h, walk, n))
      PROVE  ports[n][i] # Returned(h, walk, n)[j]
  <2>1. PICK a \in Addresses(h) : a.ip = n /\ a.port = Returned(h, walk, n)[j]
    BY <1>4
  <2>2. QED
    BY <2>1 DEF PortExclusive
<1>8. ASSUME NEW g \in Holder, NEW a \in Addresses(g)', NEW i \in 1 .. Len(ports'[a.ip])
      PROVE  ports'[a.ip][i] # a.port
  <2>1. g # h /\ a \in Addresses(g)
    BY <1>3
  <2> DEFINE n == a.ip
  <2>2. n \in Node
    BY <1>6, <2>1
  <2>3. CASE i <= Len(ports[n])
    <3>1. i \in 1 .. Len(ports[n]) /\ ports'[n][i] = ports[n][i]
      BY <1>5, <1>8, <2>2, <2>3
    <3>2. QED
      BY <2>1, <3>1 DEF PortExclusive
  <2>4. CASE i > Len(ports[n])
    <3>1. i - Len(ports[n]) \in 1 .. Len(Returned(h, walk, n)) /\ ports'[n][i] = Returned(h, walk, n)[i - Len(ports[n])]
      BY <1>5, <2>2, <2>4, SMTT(30)
    <3>2. PICK b \in Addresses(h) : b.ip = n /\ b.port = ports'[n][i]
      BY <1>4, <2>2, <3>1
    <3>3. b # a
      BY <2>1 DEF PortExclusive
    <3>4. QED
      BY <1>6, <2>1, <3>2, <3>3
  <2>5. QED
    BY <1>5, <2>2, <2>3, <2>4
<1>9. ASSUME NEW n \in Node, NEW i \in 1 .. Len(ports'[n]), NEW j \in 1 .. Len(ports'[n]),
             ports'[n][i] = ports'[n][j]
      PROVE  i = j
  <2> DEFINE m == Len(ports[n])
  <2>1. m \in Nat /\ i \in Int /\ j \in Int /\ Len(ports'[n]) = m + Len(Returned(h, walk, n)) /\ Len(Returned(h, walk, n)) \in Nat
    BY <1>5
  <2>2. CASE i <= m /\ j <= m
    <3>1. i \in 1 .. m /\ j \in 1 .. m /\ ports[n][i] = ports[n][j]
      BY <1>5, <1>9, <2>1, <2>2
    <3>2. QED
      BY <3>1 DEF PortExclusive
  <2>3. CASE i <= m /\ j > m
    <3>1. i \in 1 .. m /\ j - m \in 1 .. Len(Returned(h, walk, n)) /\ ports[n][i] = Returned(h, walk, n)[j - m]
      BY <1>5, <1>9, <2>1, <2>3
    <3>2. QED
      BY <1>7, <3>1
  <2>4. CASE i > m /\ j <= m
    <3>1. j \in 1 .. m /\ i - m \in 1 .. Len(Returned(h, walk, n)) /\ ports[n][j] = Returned(h, walk, n)[i - m]
      BY <1>5, <1>9, <2>1, <2>4
    <3>2. QED
      BY <1>7, <3>1
  <2>5. CASE i > m /\ j > m
    <3>1. /\ i - m \in 1 .. Len(Returned(h, walk, n)) /\ j - m \in 1 .. Len(Returned(h, walk, n))
          /\ Returned(h, walk, n)[i - m] = Returned(h, walk, n)[j - m]
      <4>1. i - m \in 1 .. Len(Returned(h, walk, n)) /\ j - m \in 1 .. Len(Returned(h, walk, n))
        BY <2>1, <2>5
      <4>2. ~(i <= m) /\ ~(j <= m)
        BY <2>1, <2>5
      <4>3. ports'[n][i] = Returned(h, walk, n)[i - m] /\ ports'[n][j] = Returned(h, walk, n)[j - m]
        BY <1>5, <4>2
      <4> QED
        BY <1>9, <4>1, <4>3
    <3>2. i - m = j - m
      BY <1>4, <3>1
    <3>3. QED
      BY <2>1, <3>2
  <2>6. QED
    BY <2>1, <2>2, <2>3, <2>4, <2>5
<1>10. \A f, g \in Holder : f # g => Addresses(f)' \cap Addresses(g)' = {}
  BY <1>3 DEF PortExclusive
<1>11. \A g \in Holder : \A b, c \in granted'[g] : AddressOf(b) = AddressOf(c) => b = c
  BY <1>2 DEF PortExclusive
<1>12. \A g \in Holder : \A c \in granted'[g] : AddressOf(c) \notin coordinator'[g]
  BY <1>2 DEF PortExclusive
<1>13. QED
  BY <1>8, <1>9, <1>10, <1>11, <1>12 DEF PortExclusive

\* For every cluster and every sequence of requests and recycles, no two
\* containers or coordinators of a host are ever published on one port, and a
\* port in use is never offered again before its own Put.
THEOREM NoPortGrantedTwice == ClusterSpec => []PortExclusive
<1>1. ClusterInit => PortExclusive
  <2> SUFFICES ASSUME ClusterInit PROVE PortExclusive
    OBVIOUS
  <2>1. \A h \in Holder : granted[h] = {} /\ coordinator[h] = {} /\ Addresses(h) = {}
    BY DEF ClusterInit, Addresses
  <2>2. ASSUME NEW n \in Node, NEW i \in 1 .. Len(ports[n]), NEW j \in 1 .. Len(ports[n]),
               ports[n][i] = ports[n][j]
        PROVE  i = j
    <3> DEFINE all == [k \in 1 .. HighPort - LowPort + 1 |-> LowPort + k - 1]
    <3>1. ports[n] = all /\ Len(all) = HighPort - LowPort + 1
      BY ClusterAssumption DEF ClusterInit
    <3>2. LowPort + i - 1 = LowPort + j - 1
      BY <2>2, <3>1
    <3>3. QED
      BY <3>1, <3>2, ClusterAssumption
  <2>3. QED
    BY <2>1, <2>2 DEF PortExclusive
<1>2. ASSUME ClusterTypeOK, PortExclusive, [ClusterNext]_clusterVars
      PROVE  PortExclusive'
  <2>1. CASE \E h \in Holder, d \in Demand : granted[h] = {} /\ Get(h, d)
    BY <1>2, <2>1, GetPorts
  <2>2. CASE \E d \in Demand : GetPanics(d)
    BY <1>2, <2>2 DEF GetPanics, PortExclusive, Addresses
  <2>3. CASE \E h \in Holder : Put(h)
    BY <1>2, <2>3, PutPorts
  <2>4. CASE UNCHANGED clusterVars
    BY <1>2, <2>4 DEF clusterVars, PortExclusive, Addresses
  <2>5. QED
    BY <1>2, <2>1, <2>2, <2>3, <2>4 DEF ClusterNext
<1>3. QED
  BY <1>1, <1>2, LedgerTypeCorrect, PTL DEF ClusterSpec

-----------------------------------------------------------------------------
(***************************************************************************)
(* What the components that use the ledger need to know of a grant.        *)
(***************************************************************************)
\* The hosts take up all places of Get's order.
LEMMA EveryPlace ==
  ASSUME NEW pos \in SortedPositions, NEW i \in 1 .. NodeCount
  PROVE  \E n \in Node : pos[n] = i
<1>1. IsFiniteSet(Node) /\ NodeCount \in Nat
  BY ClusterAssumption, NodeCountType
<1>2. pos \in Injection(Node, 1 .. NodeCount)
  BY DEF SortedPositions, Injection, IsInjective
<1>3. IsFiniteSet(1 .. NodeCount) /\ Cardinality(1 .. NodeCount) = NodeCount
  BY <1>1, FS_Interval
<1>4. pos \in Surjection(Node, 1 .. NodeCount)
  BY <1>2, <1>3, FS_Injection DEF NodeCount
<1>5. QED
  BY <1>4 DEF Surjection

\* The sort of Get puts some node first.
LEMMA FirstNode ==
  ASSUME NEW pos \in SortedPositions
  PROVE  \E n \in Node : pos[n] = 1
<1>1. NodeCount \in Nat /\ NodeCount # 0
  BY NodeCountType, ClusterAssumption, FS_EmptySet DEF NodeCount
<1>2. 1 \in 1 .. NodeCount
  BY <1>1
<1>3. QED
  BY <1>2, EveryPlace

\* A Get that returns grants at least one container, and touches no other set.
LEMMA GetGrants ==
  ASSUME ClusterTypeOK, NEW h \in Holder, NEW d \in Demand, Get(h, d)
  PROVE  /\ granted'[h] # {}
         /\ \A g \in Holder : g # h => granted'[g] = granted[g] /\ coordinator'[g] = coordinator[g]
<1> DEFINE spc == d.slotPerContainer
<1>1. spc \in Nat \ {0} /\ TotalSlot(d) \in Nat \ {0}
  BY DemandType
<1>2. PICK pos \in SortedPositions : \E rest \in Fills(pos, TotalSlot(d)) :
        /\ \A n \in Node : ~PanicsAt(pos, rest, spc, n)
        /\ Take(h, pos, rest, spc)
  BY DEF Get
<1>3. PICK rest \in Fills(pos, TotalSlot(d)) :
        /\ \A n \in Node : ~PanicsAt(pos, rest, spc, n)
        /\ Take(h, pos, rest, spc)
  BY <1>2
<1>4. PICK n \in Node : pos[n] = 1
  BY FirstNode
<1> DEFINE k == NewContainers(pos, rest, spc, n)
<1>5. rest[pos[n] - 1] > 0
  BY <1>1, <1>4, UseSlotBounds
<1>6. k \in Nat /\ k # 0
  BY <1>1, <1>3, <1>5, NewContainersType DEF PanicsAt
<1>7. 0 \in 0 .. k - 1
  BY <1>6
<1>8. NewGrant(pos, rest, spc, n) # {}
  BY <1>7 DEF NewGrant
<1>9. granted'[h] = UNION { NewGrant(pos, rest, spc, x) : x \in Node }
  BY <1>3 DEF Take, ClusterTypeOK
<1>10. QED
  BY <1>3, <1>8, <1>9 DEF Take, ClusterTypeOK

-----------------------------------------------------------------------------
(***************************************************************************)
(* Get walks the hosts until it has enough slots.                          *)
(***************************************************************************)
Reached(pos, i) == { n \in Node : pos[n] <= i }
Used(pos, rest) == [n \in Node |-> UseSlot(pos, rest, n)]

\* What the first i hosts give is what they reduce the demand by; a host that
\* leaves something to be wanted gives all its free slots.
LEMMA WalkSums ==
  ASSUME ClusterTypeOK, NEW pos \in SortedPositions, NEW total \in Nat,
         NEW rest \in Fills(pos, total), NEW i \in 0 .. NodeCount
  PROVE  /\ SumFunctionOnSet(Used(pos, rest), Reached(pos, i)) = total - rest[i]
         /\ rest[i] > 0 => \A n \in Reached(pos, i) : UseSlot(pos, rest, n) = slot[n]
<1> DEFINE Sums(k) == /\ SumFunctionOnSet(Used(pos, rest), Reached(pos, k)) = total - rest[k]
                      /\ rest[k] > 0 => \A n \in Reached(pos, k) : UseSlot(pos, rest, n) = slot[n]
           P == { k \in Nat : k <= NodeCount => Sums(k) }
<1>1. /\ pos \in [Node -> 1 .. NodeCount]
      /\ \A m, n \in Node : m # n => pos[m] # pos[n]
      /\ NodeCount \in Nat
  BY NodeCountType DEF SortedPositions
<1>2. /\ rest \in [0 .. NodeCount -> 0 .. total] /\ rest[0] = total
      /\ \A n \in Node : rest[pos[n]] = IF rest[pos[n] - 1] < slot[n]
                                          THEN 0 ELSE rest[pos[n] - 1] - slot[n]
  BY DEF Fills
<1>3. ASSUME NEW n \in Node
      PROVE  UseSlot(pos, rest, n) \in Nat /\ slot[n] \in Nat
  <2>1. slot[n] \in Nat
    BY DEF ClusterTypeOK
  <2>2. UseSlot(pos, rest, n) \in 0 .. slot[n]
    BY UseSlotBounds
  <2> QED
    BY <2>1, <2>2
<1>4. 0 \in P
  <2>1. Reached(pos, 0) = {}
    BY <1>1 DEF Reached
  <2>2. SumFunctionOnSet(Used(pos, rest), Reached(pos, 0)) = total - rest[0]
    <3>1. SumFunctionOnSet(Used(pos, rest), Reached(pos, 0)) = SumFunctionOnSet(Used(pos, rest), {})
      BY <2>1
    <3>2. SumFunctionOnSet(Used(pos, rest), {}) = 0
      BY SumEmpty
    <3>3. total - rest[0] = 0
      BY <1>2
    <3> QED
      BY <3>1, <3>2, <3>3
  <2>3. \A n \in Reached(pos, 0) : UseSlot(pos, rest, n) = slot[n]
    BY <2>1
  <2> QED
    BY <2>2, <2>3
<1>5. ASSUME NEW k \in Nat, k \in P
      PROVE  k + 1 \in P
  <2> SUFFICES ASSUME k + 1 <= NodeCount PROVE Sums(k + 1)
    OBVIOUS
  <2>1. Sums(k)
    BY <1>1, <1>5
  <2>2. PICK m \in Node : pos[m] = k + 1
    <3>1. k + 1 \in 1 .. NodeCount
      BY <1>1
    <3> QED
      BY <3>1, EveryPlace
  <2>3. /\ Reached(pos, k + 1) = Reached(pos, k) \cup {m}
        /\ m \notin Reached(pos, k)
    BY <1>1, <2>2 DEF Reached
  <2>4. IsFiniteSet(Reached(pos, k))
    BY ClusterAssumption, FS_Subset DEF Reached
  <2>5. rest[k] \in 0 .. total /\ rest[k + 1] \in 0 .. total
    BY <1>1, <1>2
  <2>6. rest[k + 1] = IF rest[k] < slot[m] THEN 0 ELSE rest[k] - slot[m]
    BY <1>2, <2>2
  <2>7. UseSlot(pos, rest, m) = rest[k] - rest[k + 1]
    BY <2>2 DEF UseSlot
  <2>8. SumFunctionOnSet(Used(pos, rest), Reached(pos, k) \cup {m})
          = UseSlot(pos, rest, m) + SumFunctionOnSet(Used(pos, rest), Reached(pos, k))
    <3>1. \A x \in Reached(pos, k) \cup {m} : Used(pos, rest)[x] \in Int
      BY <1>3 DEF Used, Reached
    <3>2. Used(pos, rest)[m] = UseSlot(pos, rest, m)
      BY DEF Used
    <3> QED
      BY <2>3, <2>4, <3>1, <3>2, SumAdd
  <2>9. SumFunctionOnSet(Used(pos, rest), Reached(pos, k + 1)) = total - rest[k + 1]
    <3>1. SumFunctionOnSet(Used(pos, rest), Reached(pos, k + 1))
            = (rest[k] - rest[k + 1]) + (total - rest[k])
      BY <2>1, <2>3, <2>7, <2>8
    <3> QED
      BY <2>5, <3>1
  <2>10. rest[k + 1] > 0 => \A n \in Reached(pos, k + 1) : UseSlot(pos, rest, n) = slot[n]
    <3> SUFFICES ASSUME rest[k + 1] > 0, NEW n \in Reached(pos, k + 1)
                 PROVE  UseSlot(pos, rest, n) = slot[n]
      OBVIOUS
    <3>1. rest[k] > 0 /\ rest[k + 1] = rest[k] - slot[m]
      BY <1>3, <2>5, <2>6
    <3>2. CASE n = m
      BY <1>3, <2>5, <2>7, <3>1, <3>2
    <3>3. CASE n # m
      BY <2>1, <2>3, <3>1, <3>3
    <3> QED
      BY <3>2, <3>3
  <2> QED
    BY <2>9, <2>10
<1>6. Nat \subseteq P
  <2> HIDE DEF P
  <2> QED
    BY <1>4, <1>5, Induction
<1>7. i \in Nat /\ i <= NodeCount
  BY <1>1
<1> QED
  BY <1>6, <1>7

\* When the cluster has the slots, Get finds all it was asked for.
LEMMA GetFindsAll ==
  ASSUME ClusterTypeOK, NEW pos \in SortedPositions, NEW total \in Nat,
         NEW rest \in Fills(pos, total), total <= SumFunctionOnSet(slot, Node)
  PROVE  /\ rest[NodeCount] = 0
         /\ SumFunctionOnSet(Used(pos, rest), Node) = total
<1>1. NodeCount \in Nat /\ NodeCount \in 0 .. NodeCount
  BY NodeCountType
<1>2. Reached(pos, NodeCount) = Node
  BY <1>1 DEF Reached, SortedPositions
<1>3. /\ SumFunctionOnSet(Used(pos, rest), Node) = total - rest[NodeCount]
      /\ rest[NodeCount] > 0 => \A n \in Node : UseSlot(pos, rest, n) = slot[n]
  BY <1>1, <1>2, WalkSums
<1>4. rest[NodeCount] \in 0 .. total
  BY <1>1 DEF Fills
<1>5. ASSUME rest[NodeCount] > 0
      PROVE  FALSE
  <2>1. \A n \in Node : slot[n] \in Int /\ Used(pos, rest)[n] = slot[n]
    BY <1>3, <1>5 DEF Used, ClusterTypeOK
  <2>2. SumFunctionOnSet(Used(pos, rest), Node) = SumFunctionOnSet(slot, Node)
    BY <2>1, SumSame, ClusterAssumption
  <2> QED
    BY <1>3, <1>4, <1>5, <2>2
<1> QED
  BY <1>3, <1>4, <1>5

-----------------------------------------------------------------------------
(***************************************************************************)
(* Containers are counted host by host.                                    *)
(***************************************************************************)

\* Slots are rounded up to whole containers, and divide evenly when they can.
LEMMA Ceiling ==
  ASSUME NEW u \in Nat, NEW s \in Nat \ {0}
  PROVE  /\ (u + s - 1) \div s \in Nat
         /\ u <= ((u + s - 1) \div s) * s
         /\ \A q \in Nat : u = q * s => (u + s - 1) \div s = q
<1> DEFINE c == (u + s - 1) \div s
<1>1. c \in Nat
  BY CeilingType
<1>2. c * s <= u + s - 1 /\ u + s - 1 < c * s + s
  BY SMT
<1>3. c * s \in Int
  BY <1>1
<1>4. u <= c * s
  BY <1>2, <1>3
<1>5. ASSUME NEW q \in Nat, u = q * s
      PROVE  c = q
  <2> HIDE DEF c
  <2>1. c * s < (q + 1) * s /\ q * s < (c + 1) * s
    BY <1>1, <1>2, <1>3, <1>5
  <2>2. c < q + 1 /\ q < c + 1
    BY <1>1, <2>1
  <2> QED
    BY <1>1, <2>2
<1> QED
  BY <1>1, <1>4, <1>5

At(S, n) == { c \in S : c.ip = n }
CountAt(S) == [n \in Node |-> Cardinality(At(S, n))]

\* The containers of a set are those it has on each host.
LEMMA CountByPlace ==
  ASSUME NEW S \in SUBSET Container
  PROVE  SumFunctionOnSet(CountAt(S), Node) = Cardinality(S)
<1> DEFINE Q == { T \in SUBSET S : SumFunctionOnSet(CountAt(T), Node) = Cardinality(T) }
<1>1. IsFiniteSet(S) /\ IsFiniteSet(Node)
  BY ContainersFinite, ClusterAssumption
<1>2. {} \in Q
  <2>1. \A n \in Node : CountAt({})[n] = 0 * 0
    BY FS_EmptySet DEF CountAt, At
  <2>2. SumFunctionOnSet(CountAt({}), Node) = SumFunctionOnSet([n \in Node |-> 0], Node) * 0
    BY <1>1, <2>1, SumTimes
  <2>3. SumFunctionOnSet([n \in Node |-> 0], Node) \in Int
    BY <1>1, SumType
  <2>4. SumFunctionOnSet(CountAt({}), Node) = 0 /\ Cardinality({}) = 0
    BY <2>2, <2>3, FS_EmptySet
  <2> QED
    BY <2>4
<1>3. ASSUME NEW T \in SUBSET S, NEW x \in S \ T, T \in Q
      PROVE  T \cup {x} \in Q
  <2>1. PICK U \in SUBSET S : U = T \cup {x}
    OBVIOUS
  <2>2. x.ip \in Node
    BY DEF Container
  <2>3. \A n \in Node : /\ IsFiniteSet(At(T, n)) /\ Cardinality(At(T, n)) \in Nat
                        /\ IsFiniteSet(At(U, n)) /\ Cardinality(At(U, n)) \in Nat
    BY <1>1, FS_Subset, FS_CardinalityType DEF At
  <2>4. \A n \in Node \ {x.ip} : At(U, n) = At(T, n)
    BY <2>1 DEF At
  <2>5. At(U, x.ip) = At(T, x.ip) \cup {x} /\ x \notin At(T, x.ip)
    BY <2>1 DEF At
  <2>6. Cardinality(At(U, x.ip)) = Cardinality(At(T, x.ip)) + 1
    <3>1. IsFiniteSet(At(T, x.ip))
      BY <2>2, <2>3
    <3>2. Cardinality(At(T, x.ip) \cup {x}) = Cardinality(At(T, x.ip)) + 1
      BY <2>5, <3>1, FS_AddElement
    <3> QED
      BY <2>5, <3>2
  <2>7. /\ \A n \in Node : CountAt(T)[n] \in Int /\ CountAt(U)[n] \in Int
        /\ \A n \in Node \ {x.ip} : CountAt(U)[n] = CountAt(T)[n]
        /\ CountAt(U)[x.ip] = CountAt(T)[x.ip] + 1
    BY <2>2, <2>3, <2>4, <2>6 DEF CountAt
  <2>8. SumFunctionOnSet(CountAt(U), Node)
          = SumFunctionOnSet(CountAt(T), Node) - CountAt(T)[x.ip] + CountAt(U)[x.ip]
    <3>1. PICK f : f = CountAt(T)
      OBVIOUS
    <3>2. PICK g : g = CountAt(U)
      OBVIOUS
    <3>3. PICK y \in Node : y = x.ip
      BY <2>2
    <3>4. /\ \A n \in Node : f[n] \in Int
          /\ g[y] \in Int
          /\ \A n \in Node \ {y} : g[n] = f[n]
      BY <2>7, <3>1, <3>2, <3>3
    <3>5. SumFunctionOnSet(g, Node) = SumFunctionOnSet(f, Node) - f[y] + g[y]
      BY <1>1, <3>4, SumChange
    <3> QED
      BY <3>1, <3>2, <3>3, <3>5
  <2>9. SumFunctionOnSet(CountAt(T), Node) \in Int
    BY <1>1, <2>7, SumType
  <2>10. Cardinality(U) = Cardinality(T) + 1
    <3>1. IsFiniteSet(T)
      BY <1>1, FS_Subset
    <3> QED
      BY <2>1, <3>1, FS_AddElement
  <2>11. SumFunctionOnSet(CountAt(U), Node) = Cardinality(U)
    BY <1>3, <2>2, <2>7, <2>8, <2>9, <2>10
  <2> QED
    BY <2>1, <2>11
<1> HIDE DEF Q
<1>4. S \in Q
  BY <1>1, <1>2, <1>3, SetInduction
<1> QED
  BY <1>4 DEF Q

\* Get gives a host as many containers as its loop makes iterations: each
\* has a port of its own.
LEMMA NewGrantSize ==
  ASSUME ClusterTypeOK, PortExclusive,
         NEW pos \in SortedPositions, NEW total \in Nat \ {0}, NEW rest \in Fills(pos, total),
         NEW n \in Node, NEW spc \in Nat \ {0}, ~PanicsAt(pos, rest, spc, n)
  PROVE  Cardinality(NewGrant(pos, rest, spc, n)) = NewContainers(pos, rest, spc, n)
<1> DEFINE k == NewContainers(pos, rest, spc, n)
           made == [i \in 0 .. k - 1 |->
                      [ip |-> n, port |-> ports[n][i + 1],
                       cpuSet |-> IF ShareCpu THEN CpuStr(n, spc, k) ELSE CpuArr(n, spc, i)]]
<1>1. k \in Nat /\ k \in 0 .. Len(ports[n]) /\ Len(ports[n]) \in Nat
  <2>1. Len(ports[n]) \in Nat
    BY DEF ClusterTypeOK
  <2>2. k \in Nat
    BY NewContainersType
  <2>3. k \in 0 .. Len(ports[n])
    BY PortsSuffice
  <2> QED
    BY <2>1, <2>2, <2>3
<1>2. \A i, j \in 0 .. k - 1 : made[i] = made[j] => i = j
  <2> SUFFICES ASSUME NEW i \in 0 .. k - 1, NEW j \in 0 .. k - 1, made[i] = made[j]
               PROVE  i = j
    OBVIOUS
  <2>1. made[i].port = ports[n][i + 1] /\ made[j].port = ports[n][j + 1]
    OBVIOUS
  <2>2. i + 1 \in 1 .. Len(ports[n]) /\ j + 1 \in 1 .. Len(ports[n])
    BY <1>1
  <2>3. i + 1 = j + 1
    BY <2>1, <2>2 DEF PortExclusive
  <2> QED
    BY <2>3
<1>3. NewGrant(pos, rest, spc, n) = { made[i] : i \in 0 .. k - 1 }
  BY DEF NewGrant
<1> HIDE DEF made, k
<1>4. PICK D : D = 0 .. k - 1
  OBVIOUS
<1>5. IsFiniteSet(D) /\ Cardinality(D) = k
  BY <1>1, <1>4, FS_Interval
<1>6. made \in Bijection(D, NewGrant(pos, rest, spc, n))
  BY <1>2, <1>3, <1>4 DEF Bijection, Injection, IsInjective, Surjection, made
<1> QED
  <2>1. ExistsBijection(D, NewGrant(pos, rest, spc, n))
    BY <1>6 DEF ExistsBijection
  <2>2. Cardinality(NewGrant(pos, rest, spc, n)) = k
    BY <1>5, <2>1, FS_Bijection
  <2> QED
    BY <2>2 DEF k

-----------------------------------------------------------------------------
(***************************************************************************)
(* The books balance: Get and Put move slots between the hosts' counters,  *)
(* the cluster's counter and the sets' grants without a remainder.         *)
(***************************************************************************)

\* currentSlot, which decides whether Get refuses, is what the hosts have free.
BooksBalance == currentSlot = SumFunction(slot)

\* Only a set that holds containers has a demand, and its containers have the
\* slots that were asked for.
Demanded ==
  \A h \in Holder : IF granted[h] = {} THEN demand[h] = NoDemand ELSE demand[h] \in Demand
EnoughSlots ==
  \A h \in Holder : granted[h] # {} =>
    TotalSlot(demand[h]) <= Cardinality(granted[h]) * demand[h].slotPerContainer

Books == ClusterTypeOK /\ PortExclusive /\ BooksBalance /\ Demanded /\ EnoughSlots

\* The sum of all slots is the sum over the nodes.
LEMMA SumOfSlots ==
  ASSUME ClusterTypeOK
  PROVE  SumFunction(slot) = SumFunctionOnSet(slot, Node)
<1>1. DOMAIN slot = Node
  BY DEF ClusterTypeOK
<1> QED
  BY <1>1 DEF SumFunction

\* What a Get that returns writes, host by host.
LEMMA GetByHost ==
  ASSUME ClusterTypeOK, PortExclusive, NEW h \in Holder, NEW d \in Demand, Get(h, d)
  PROVE  \E pos \in SortedPositions : \E rest \in Fills(pos, TotalSlot(d)) :
           LET K(n) == NewContainers(pos, rest, d.slotPerContainer, n)
           IN  \A n \in Node :
                 /\ UseSlot(pos, rest, n) \in 0 .. slot[n]
                 /\ slot'[n] = slot[n] - UseSlot(pos, rest, n)
                 /\ cpuMask'[n] = cpuMask[n] \cup CpuStr(n, d.slotPerContainer, K(n))
                 /\ At(granted'[h], n) = NewGrant(pos, rest, d.slotPerContainer, n)
                 /\ Cardinality(At(granted'[h], n)) = K(n)
                 /\ K(n) \in Nat
                 /\ UseSlot(pos, rest, n) <= K(n) * d.slotPerContainer
<1> DEFINE spc == d.slotPerContainer
<1>1. spc \in Nat \ {0} /\ TotalSlot(d) \in Nat \ {0}
  BY DemandType
<1>2. PICK pos \in SortedPositions : \E rest \in Fills(pos, TotalSlot(d)) :
        /\ \A n \in Node : ~PanicsAt(pos, rest, spc, n)
        /\ Take(h, pos, rest, spc)
  BY DEF Get
<1>3. PICK rest \in Fills(pos, TotalSlot(d)) :
        /\ \A n \in Node : ~PanicsAt(pos, rest, spc, n)
        /\ Take(h, pos, rest, spc)
  BY <1>2
<1> DEFINE K(n) == NewContainers(pos, rest, spc, n)
<1>4. ASSUME NEW n \in Node
      PROVE  /\ UseSlot(pos, rest, n) \in 0 .. slot[n]
             /\ slot'[n] = slot[n] - UseSlot(pos, rest, n)
             /\ cpuMask'[n] = cpuMask[n] \cup CpuStr(n, spc, K(n))
             /\ At(granted'[h], n) = NewGrant(pos, rest, spc, n)
             /\ Cardinality(At(granted'[h], n)) = K(n)
             /\ K(n) \in Nat
             /\ UseSlot(pos, rest, n) <= K(n) * spc
  <2>1. UseSlot(pos, rest, n) \in 0 .. slot[n] /\ slot[n] \in Nat
    BY <1>1, UseSlotBounds DEF ClusterTypeOK
  <2>2. /\ slot'[n] = slot[n] - UseSlot(pos, rest, n)
        /\ cpuMask'[n] = cpuMask[n] \cup CpuStr(n, spc, K(n))
    BY <1>3 DEF Take
  <2>3. granted'[h] = UNION { NewGrant(pos, rest, spc, m) : m \in Node }
    BY <1>3 DEF Take, ClusterTypeOK
  <2>4. ASSUME NEW m \in Node, NEW c \in NewGrant(pos, rest, spc, m)
        PROVE  c.ip = m
    BY DEF NewGrant
  <2>5. At(granted'[h], n) = NewGrant(pos, rest, spc, n)
    BY <2>3, <2>4 DEF At
  <2>6. Cardinality(NewGrant(pos, rest, spc, n)) = K(n)
    BY <1>1, <1>3, NewGrantSize
  <2>7. K(n) \in Nat /\ UseSlot(pos, rest, n) <= K(n) * spc
    <3>1. UseSlot(pos, rest, n) \in Nat
      BY <2>1
    <3> QED
      BY <1>1, <3>1, Ceiling DEF NewContainers
  <2> QED
    BY <2>1, <2>2, <2>5, <2>6, <2>7
<1> QED
  BY <1>4

\* What Get takes from the counter it takes from the nodes.
LEMMA GetBooks ==
  ASSUME Books, NEW h \in Holder, NEW d \in Demand, Get(h, d)
  PROVE  BooksBalance' /\ Demanded' /\ EnoughSlots'
<1> DEFINE spc == d.slotPerContainer
           total == TotalSlot(d)
<1>1. spc \in Nat \ {0} /\ total \in Nat \ {0}
  BY DemandType
<1>2. ClusterTypeOK' /\ IsFiniteSet(Node)
  BY GetTypes, ClusterAssumption DEF Books
<1>3. PICK pos \in SortedPositions : \E rest \in Fills(pos, total) :
        \A n \in Node :
          /\ UseSlot(pos, rest, n) \in 0 .. slot[n]
          /\ slot'[n] = slot[n] - UseSlot(pos, rest, n)
          /\ Cardinality(At(granted'[h], n)) \in Nat
          /\ UseSlot(pos, rest, n) <= Cardinality(At(granted'[h], n)) * spc
  BY GetByHost DEF Books
<1>4. PICK rest \in Fills(pos, total) :
        \A n \in Node :
          /\ UseSlot(pos, rest, n) \in 0 .. slot[n]
          /\ slot'[n] = slot[n] - UseSlot(pos, rest, n)
          /\ Cardinality(At(granted'[h], n)) \in Nat
          /\ UseSlot(pos, rest, n) <= Cardinality(At(granted'[h], n)) * spc
  BY <1>3
<1>5. PICK used : used = Used(pos, rest)
  OBVIOUS
<1>6. PICK after : after = slot'
  OBVIOUS
<1>7. \A n \in Node : /\ slot[n] \in Int /\ after[n] \in Int /\ used[n] \in Int
                      /\ used[n] = UseSlot(pos, rest, n)
                      /\ slot[n] = after[n] + used[n]
  BY <1>2, <1>4, <1>5, <1>6 DEF Books, ClusterTypeOK, Used
<1>8. /\ total <= SumFunctionOnSet(slot, Node)
      /\ currentSlot = SumFunctionOnSet(slot, Node)
      /\ currentSlot' = currentSlot - total
  BY SumOfSlots DEF Get, Books, BooksBalance
<1>9. SumFunctionOnSet(used, Node) = total
  BY <1>1, <1>5, <1>8, GetFindsAll DEF Books
<1>10. BooksBalance'
  <2>1. SumFunctionOnSet(slot, Node) = SumFunctionOnSet(after, Node) + SumFunctionOnSet(used, Node)
    BY <1>2, <1>7, SumPlus
  <2>2. SumFunctionOnSet(after, Node) \in Int
    BY <1>2, <1>7, SumType
  <2>3. currentSlot' = SumFunctionOnSet(after, Node)
    BY <1>1, <1>8, <1>9, <2>1, <2>2
  <2>4. SumFunction(slot)' = SumFunctionOnSet(after, Node)
    BY <1>2, <1>6 DEF ClusterTypeOK, SumFunction
  <2> QED
    BY <2>3, <2>4 DEF BooksBalance
<1>11. PICK S \in SUBSET Container : S = granted'[h]
  BY <1>2 DEF ClusterTypeOK
<1>12. total <= Cardinality(S) * spc
  <2>1. PICK count : count = CountAt(S)
    OBVIOUS
  <2>2. PICK room : room = [n \in Node |-> count[n] * spc]
    OBVIOUS
  <2>3. \A n \in Node : /\ count[n] \in Int /\ room[n] = count[n] * spc
                        /\ used[n] \in Int /\ used[n] <= count[n] * spc
    BY <1>4, <1>7, <1>11, <2>1, <2>2 DEF CountAt
  <2>4. SumFunctionOnSet(room, Node) = Cardinality(S) * spc
    <3>1. SumFunctionOnSet(count, Node) = Cardinality(S)
      BY <2>1, CountByPlace
    <3>2. SumFunctionOnSet(room, Node) = SumFunctionOnSet(count, Node) * spc
      BY <1>1, <1>2, <2>3, SumTimes
    <3> QED
      BY <3>1, <3>2
  <2>5. SumFunctionOnSet(used, Node) <= SumFunctionOnSet(room, Node)
    <3>1. \A n \in Node : used[n] \in Int /\ room[n] \in Int /\ used[n] <= room[n]
      BY <1>1, <2>3
    <3> QED
      BY <1>2, <3>1, SumMonotone
  <2> QED
    BY <1>9, <2>4, <2>5
<1>13. /\ demand'[h] = d
       /\ granted'[h] # {}
       /\ \A g \in Holder : g # h => demand'[g] = demand[g] /\ granted'[g] = granted[g]
  BY GetGrants DEF Get, Books, ClusterTypeOK
<1>14. Demanded'
  BY <1>13 DEF Books, Demanded
<1>15. ASSUME NEW g \in Holder, granted'[g] # {}
       PROVE  TotalSlot(demand'[g]) <= Cardinality(granted'[g]) * demand'[g].slotPerContainer
  <2>1. CASE g = h
    BY <1>11, <1>12, <1>13, <2>1
  <2>2. CASE g # h
    BY <1>13, <1>15, <2>2 DEF Books, EnoughSlots
  <2> QED
    BY <2>1, <2>2
<1>16. EnoughSlots'
  BY <1>15 DEF EnoughSlots, TotalSlot
<1> QED
  BY <1>10, <1>14, <1>16

\* What Put adds to the counter it adds to the nodes.
LEMMA PutBooks ==
  ASSUME Books, NEW h \in Holder, Put(h)
  PROVE  BooksBalance' /\ Demanded' /\ EnoughSlots'
<1> DEFINE spc == demand[h].slotPerContainer
<1>1. spc \in Nat
  BY DemandType DEF Put, Books, Demanded
<1>2. ClusterTypeOK' /\ IsFiniteSet(Node)
  BY PutTypes, ClusterAssumption DEF Books
<1>3. PICK S \in SUBSET Container : S = granted[h]
  BY DEF Books, ClusterTypeOK
<1>4. PICK count : count = CountAt(S)
  OBVIOUS
<1>5. PICK back : back = [n \in Node |-> count[n] * spc]
  OBVIOUS
<1>6. PICK after : after = slot'
  OBVIOUS
<1>7. ASSUME NEW n \in Node
      PROVE  /\ count[n] \in Int /\ slot[n] \in Int /\ back[n] = count[n] * spc
             /\ after[n] = slot[n] + count[n] * spc
  <2>1. OnNode(h, n) = At(S, n) /\ At(S, n) \in SUBSET Container
    BY <1>3 DEF OnNode, At
  <2>2. Cardinality(At(S, n)) \in Nat
    BY <2>1, ContainersFinite
  <2> QED
    BY <1>4, <1>5, <1>6, <2>1, <2>2 DEF CountAt, Put, Books, ClusterTypeOK
<1>8. BooksBalance'
  <2>1. SumFunctionOnSet(back, Node) = Cardinality(S) * spc
    <3>1. SumFunctionOnSet(count, Node) = Cardinality(S)
      BY <1>4, CountByPlace
    <3>2. SumFunctionOnSet(back, Node) = SumFunctionOnSet(count, Node) * spc
      BY <1>1, <1>2, <1>7, SumTimes
    <3> QED
      BY <3>1, <3>2
  <2>2. SumFunctionOnSet(after, Node) = SumFunctionOnSet(slot, Node) + SumFunctionOnSet(back, Node)
    <3>1. \A n \in Node : /\ slot[n] \in Int /\ back[n] \in Int
                          /\ after[n] = slot[n] + back[n]
      BY <1>1, <1>7
    <3> QED
      BY <1>2, <3>1, SumPlus
  <2>3. currentSlot = SumFunctionOnSet(slot, Node)
    BY SumOfSlots DEF Books, BooksBalance
  <2>4. currentSlot' = currentSlot + Cardinality(S) * spc
    BY <1>3 DEF Put
  <2>5. SumFunction(slot)' = SumFunctionOnSet(after, Node)
    BY <1>2, <1>6 DEF ClusterTypeOK, SumFunction
  <2> QED
    BY <2>1, <2>2, <2>3, <2>4, <2>5 DEF BooksBalance
<1>9. /\ demand'[h] = NoDemand /\ granted'[h] = {}
      /\ \A g \in Holder : g # h => demand'[g] = demand[g] /\ granted'[g] = granted[g]
  BY DEF Put, Books, ClusterTypeOK
<1>10. Demanded'
  BY <1>9 DEF Books, Demanded
<1>11. \A g \in Holder : granted'[g] # {} =>
         TotalSlot(demand'[g]) <= Cardinality(granted'[g]) * demand'[g].slotPerContainer
  BY <1>9 DEF Books, EnoughSlots
<1> QED
  BY <1>8, <1>10, <1>11 DEF EnoughSlots, TotalSlot

\* The books balance in every state of the ledger.
LEMMA BooksKept == ClusterSpec => []Books
<1>1. ClusterInit => BooksBalance /\ Demanded /\ EnoughSlots
  BY DEF ClusterInit, BooksBalance, Demanded, EnoughSlots
<1>2. ASSUME Books, [ClusterNext]_clusterVars
      PROVE  BooksBalance' /\ Demanded' /\ EnoughSlots'
  <2>1. CASE \E h \in Holder, d \in Demand : granted[h] = {} /\ Get(h, d)
    BY <1>2, <2>1, GetBooks
  <2>2. CASE \E d \in Demand : GetPanics(d)
    BY <1>2, <2>2 DEF GetPanics, Books, BooksBalance, Demanded, EnoughSlots, TotalSlot
  <2>3. CASE \E h \in Holder : Put(h)
    BY <1>2, <2>3, PutBooks
  <2>4. CASE UNCHANGED clusterVars
    BY <1>2, <2>4 DEF clusterVars, Books, BooksBalance, Demanded, EnoughSlots, TotalSlot
  <2> QED
    BY <1>2, <2>1, <2>2, <2>3, <2>4 DEF ClusterNext
<1> QED
  BY <1>1, <1>2, LedgerTypeCorrect, NoPortGrantedTwice, PTL DEF ClusterSpec, Books

\* The cluster's counter of free slots is the sum of the hosts' counters, so
\* Get refuses exactly the requests the hosts cannot satisfy.
THEOREM SlotsAddUp == ClusterSpec => []BooksBalance
  BY BooksKept, PTL DEF Books

\* However Get spreads a set over the hosts, its containers have at least the
\* slots that were asked for.
THEOREM SetsHaveTheirSlots == ClusterSpec => []EnoughSlots
  BY BooksKept, PTL DEF Books

-----------------------------------------------------------------------------
(***************************************************************************)
(* No port is lost: what is not free is in use.  That a set has at most    *)
(* one coordinator is needed, because Put returns one coordinator port.    *)
(***************************************************************************)

\* A sequence without its first t members.
LEMMA Dropped ==
  ASSUME NEW S, NEW s \in Seq(S), NEW t \in 0 .. Len(s)
  PROVE  /\ Len(SubSeq(s, t + 1, Len(s))) = Len(s) - t
         /\ \A i \in 1 .. Len(s) : i > t => SubSeq(s, t + 1, Len(s))[i - t] = s[i]
  OBVIOUS

\* The members of a concatenation.
LEMMA Joined ==
  ASSUME NEW S, NEW s \in Seq(S), NEW t \in Seq(S)
  PROVE  /\ s \o t \in Seq(S)
         /\ Len(s \o t) = Len(s) + Len(t)
         /\ \A i \in 1 .. Len(s) : (s \o t)[i] = s[i]
         /\ \A i \in 1 .. Len(t) : (s \o t)[Len(s) + i] = t[i]
  OBVIOUS

Found(n, p) ==
  \/ \E i \in 1 .. Len(ports[n]) : ports[n][i] = p
  \/ \E h \in Holder : \E a \in Addresses(h) : a.ip = n /\ a.port = p

PortsFound == \A n \in Node, p \in Port : Found(n, p)
OneCoordinator ==
  \A h \in Holder : /\ \A a, b \in coordinator[h] : a = b
                    /\ granted[h] = {} => coordinator[h] = {}

\* A port that Get takes off the free list is in the new grant, which has one coordinator at most.
LEMMA GetFinds ==
  ASSUME ClusterTypeOK, PortExclusive, OneCoordinator, PortsFound,
         NEW h \in Holder, NEW d \in Demand, granted[h] = {}, Get(h, d)
  PROVE  PortsFound' /\ OneCoordinator'
<1> DEFINE spc == d.slotPerContainer
<1>1. spc \in Nat \ {0} /\ TotalSlot(d) \in Nat \ {0}
  BY DemandType
<1>2. PICK pos \in SortedPositions : \E rest \in Fills(pos, TotalSlot(d)) :
        /\ \A n \in Node : ~PanicsAt(pos, rest, spc, n)
        /\ Take(h, pos, rest, spc)
  BY DEF Get
<1>3. PICK rest \in Fills(pos, TotalSlot(d)) :
        /\ \A n \in Node : ~PanicsAt(pos, rest, spc, n)
        /\ Take(h, pos, rest, spc)
  BY <1>2
<1> DEFINE K(n) == NewContainers(pos, rest, spc, n)
<1>4. /\ granted'[h] = UNION { NewGrant(pos, rest, spc, n) : n \in Node }
      /\ coordinator'[h] = { [ip |-> n, port |-> ports[n][K(n) + 1]]
                               : n \in { m \in Node : pos[m] = 1 } }
  BY <1>3 DEF Take, ClusterTypeOK
<1>5. \A g \in Holder : g # h => granted'[g] = granted[g] /\ coordinator'[g] = coordinator[g]
  BY GetGrants
<1>6. granted'[h] # {}
  BY GetGrants
<1>7. ASSUME NEW n \in Node, NEW p \in Port
      PROVE  Found(n, p)'
  <2> DEFINE t == PortsTaken(pos, n, K(n))
  <2>1. /\ K(n) \in 0 .. Len(ports[n]) /\ t \in 0 .. Len(ports[n])
        /\ Len(ports[n]) \in Nat
        /\ t = IF pos[n] = 1 THEN K(n) + 1 ELSE K(n)
    <3>1. Len(ports[n]) \in Nat
      BY DEF ClusterTypeOK
    <3>2. K(n) \in 0 .. Len(ports[n]) /\ t \in 0 .. Len(ports[n])
      BY <1>1, <1>3, PortsSuffice
    <3>3. t = IF pos[n] = 1 THEN K(n) + 1 ELSE K(n)
      BY DEF PortsTaken
    <3> QED
      BY <3>1, <3>2, <3>3
  <2>2. ports'[n] = SubSeq(ports[n], t + 1, Len(ports[n]))
    BY <1>3 DEF Take
  <2>3. CASE \E g \in Holder : \E a \in Addresses(g) : a.ip = n /\ a.port = p
    <3>1. PICK g \in Holder : \E a \in Addresses(g) : a.ip = n /\ a.port = p
      BY <2>3
    <3>2. g # h
      BY <3>1 DEF OneCoordinator, Addresses
    <3>3. Addresses(g)' = Addresses(g)
      BY <1>5, <3>2 DEF Addresses
    <3> QED
      BY <3>1, <3>3 DEF Found
  <2>4. ASSUME NEW i \in 1 .. Len(ports[n]), ports[n][i] = p, i > t
        PROVE  Found(n, p)'
    <3>1. ports[n] \in Seq(Port)
      BY DEF ClusterTypeOK
    <3>2. /\ Len(ports'[n]) = Len(ports[n]) - t
          /\ i - t \in 1 .. Len(ports[n]) - t
          /\ ports'[n][i - t] = ports[n][i]
      <4>1. PICK s \in Seq(Port) : s = ports[n]
        BY <3>1
      <4>2. PICK u \in 0 .. Len(s) : u = t
        BY <2>1, <4>1
      <4> HIDE DEF t
      <4>3. /\ Len(SubSeq(s, u + 1, Len(s))) = Len(s) - u
            /\ SubSeq(s, u + 1, Len(s))[i - u] = s[i]
        BY <2>4, <4>1, <4>2, Dropped
      <4>4. ports'[n] = SubSeq(s, u + 1, Len(s))
        BY <2>2, <4>1, <4>2
      <4>5. i - u \in 1 .. Len(s) - u
        BY <2>1, <2>4, <4>1, <4>2
      <4> QED
        BY <4>1, <4>2, <4>3, <4>4, <4>5
    <3> QED
      BY <2>4, <3>2 DEF Found
  <2>5. ASSUME NEW i \in 1 .. Len(ports[n]), ports[n][i] = p, i <= K(n)
        PROVE  Found(n, p)'
    <3> DEFINE c == [ip |-> n, port |-> ports[n][i],
                     cpuSet |-> IF ShareCpu THEN CpuStr(n, spc, K(n)) ELSE CpuArr(n, spc, i - 1)]
    <3>1. i - 1 \in 0 .. K(n) - 1 /\ (i - 1) + 1 = i
      BY <2>1, <2>5
    <3>2. c \in NewGrant(pos, rest, spc, n)
      BY <3>1 DEF NewGrant
    <3>3. c \in granted'[h] /\ AddressOf(c) = [ip |-> n, port |-> p]
      BY <1>4, <2>5, <3>2 DEF AddressOf
    <3>4. [ip |-> n, port |-> p] \in Addresses(h)'
      BY <3>3 DEF Addresses
    <3> QED
      BY <3>4 DEF Found
  <2>6. ASSUME NEW i \in 1 .. Len(ports[n]), ports[n][i] = p, i = K(n) + 1, pos[n] = 1
        PROVE  Found(n, p)'
    <3>1. [ip |-> n, port |-> p] \in coordinator'[h]
      BY <1>4, <2>6
    <3>2. [ip |-> n, port |-> p] \in Addresses(h)'
      BY <3>1 DEF Addresses
    <3> QED
      BY <3>2 DEF Found
  <2>7. ASSUME NEW i \in 1 .. Len(ports[n]), ports[n][i] = p
        PROVE  i > t \/ i <= K(n) \/ (i = K(n) + 1 /\ pos[n] = 1)
    BY <2>1
  <2> QED
    BY <2>3, <2>4, <2>5, <2>6, <2>7 DEF PortsFound, Found
<1>8. \A m, n \in Node : pos[m] = 1 /\ pos[n] = 1 => m = n
  BY DEF SortedPositions
<1>9. OneCoordinator'
  BY <1>4, <1>5, <1>6, <1>8 DEF OneCoordinator
<1> QED
  BY <1>7, <1>9 DEF PortsFound

\* Put's walk of the containers of a host meets every one of them.
LEMMA WalkCovers ==
  ASSUME ClusterTypeOK, NEW h \in Holder, NEW walk \in Walks(h), NEW n \in Node,
         NEW c \in OnNode(h, n)
  PROVE  \E i \in 1 .. Len(walk[n]) : walk[n][i] = c
<1>1. PICK S \in SUBSET Container : S = OnNode(h, n)
  BY DEF OnNode, ClusterTypeOK
<1>2. IsFiniteSet(S) /\ Cardinality(S) \in Nat
  BY ContainersFinite
<1>3. walk[n] \in SetToSeqs(S)
  BY <1>1 DEF Walks
<1>4. PICK w : w = walk[n]
  OBVIOUS
<1>5. w \in Injection(1 .. Cardinality(S), S)
  BY <1>3, <1>4 DEF SetToSeqs, Injection, IsInjective
<1>6. Cardinality(1 .. Cardinality(S)) = Cardinality(S)
  BY <1>2, FS_Interval
<1>7. w \in Surjection(1 .. Cardinality(S), S)
  BY <1>2, <1>5, <1>6, FS_Injection
<1>8. Len(w) = Cardinality(S)
  BY <1>2, <1>5 DEF Injection
<1> QED
  BY <1>1, <1>4, <1>7, <1>8 DEF Surjection

\* Put returns every port of the retired grant.
LEMMA PutFinds ==
  ASSUME ClusterTypeOK, OneCoordinator, PortsFound, NEW h \in Holder, Put(h)
  PROVE  PortsFound' /\ OneCoordinator'
<1>1. PICK walk \in Walks(h) :
        ports' = [n \in Node |-> ports[n] \o Returned(h, walk, n)]
  BY DEF Put
<1>2. /\ granted'[h] = {} /\ coordinator'[h] = {}
      /\ \A g \in Holder : g # h => granted'[g] = granted[g] /\ coordinator'[g] = coordinator[g]
  BY DEF Put, ClusterTypeOK
<1>3. ASSUME NEW n \in Node, NEW p \in Port
      PROVE  Found(n, p)'
  <2> DEFINE w == WalkedPorts(walk[n])
             v == CoordinatorPort(h, n)
  <2>1. /\ ports[n] \in Seq(Port) /\ w \in Seq(Port) /\ v \in Seq(Port)
        /\ Len(w) = Len(walk[n]) /\ walk[n] \in Seq(Container)
    BY ReturnedPortsType, WalkType DEF ClusterTypeOK
  <2>2. ports'[n] = ports[n] \o (w \o v)
    BY <1>1 DEF Returned
  <2>8. PICK s \in Seq(Port) : s = ports[n]
    BY <2>1
  <2>9. PICK u \in Seq(Port) : u = w
    BY <2>1
  <2>10. PICK x \in Seq(Port) : x = v
    BY <2>1
  <2>11. /\ Len(ports'[n]) = Len(s) + Len(u) + Len(x)
         /\ \A i \in 1 .. Len(s) : ports'[n][i] = s[i]
         /\ \A i \in 1 .. Len(u) : ports'[n][Len(s) + i] = u[i]
         /\ \A i \in 1 .. Len(x) : ports'[n][Len(s) + Len(u) + i] = x[i]
    <3>1. ports'[n] = s \o (u \o x)
      BY <2>2, <2>8, <2>9, <2>10
    <3>2. PICK y \in Seq(Port) : y = u \o x
      BY Joined
    <3>3. /\ Len(y) = Len(u) + Len(x)
          /\ \A i \in 1 .. Len(u) : y[i] = u[i]
          /\ \A i \in 1 .. Len(x) : y[Len(u) + i] = x[i]
      BY <3>2, Joined
    <3>4. /\ Len(s \o y) = Len(s) + Len(y)
          /\ \A i \in 1 .. Len(s) : (s \o y)[i] = s[i]
          /\ \A i \in 1 .. Len(y) : (s \o y)[Len(s) + i] = y[i]
      BY Joined
    <3>5. Len(s) \in Nat /\ Len(u) \in Nat /\ Len(x) \in Nat
      OBVIOUS
    <3>6. ASSUME NEW i \in 1 .. Len(x)
          PROVE  (s \o y)[Len(s) + Len(u) + i] = x[i]
      <4>1. Len(u) + i \in 1 .. Len(y) /\ Len(s) + (Len(u) + i) = Len(s) + Len(u) + i
        BY <3>3, <3>5
      <4> QED
        BY <3>3, <3>4, <4>1
    <3> QED
      BY <3>1, <3>2, <3>3, <3>4, <3>5, <3>6
  <2>3. ASSUME NEW g \in Holder, g # h, \E a \in Addresses(g) : a.ip = n /\ a.port = p
        PROVE  Found(n, p)'
    <3>1. Addresses(g)' = Addresses(g)
      BY <1>2, <2>3 DEF Addresses
    <3> QED
      BY <2>3, <3>1 DEF Found
  <2>4. ASSUME NEW i \in 1 .. Len(ports[n]), ports[n][i] = p
        PROVE  Found(n, p)'
    <3>1. i \in 1 .. Len(ports'[n]) /\ ports'[n][i] = p
      <4>1. Len(s) \in Nat /\ Len(u) \in Nat /\ Len(x) \in Nat /\ i \in 1 .. Len(s) /\ s[i] = p
        BY <2>4, <2>8
      <4> QED
        BY <2>11, <4>1
    <3> QED
      BY <3>1 DEF Found
  <2>5. ASSUME NEW c \in granted[h], c.ip = n, c.port = p
        PROVE  Found(n, p)'
    <3>1. \E i \in 1 .. Len(walk[n]) : walk[n][i] = c
      <4>1. c \in OnNode(h, n)
        BY <2>5 DEF OnNode
      <4> QED
        BY <4>1, WalkCovers
    <3>4. PICK i \in 1 .. Len(walk[n]) : walk[n][i] = c
      BY <3>1
    <3>5. i \in DOMAIN walk[n]
      BY <2>1
    <3>6. w[i] = p
      BY <2>5, <3>4, <3>5 DEF WalkedPorts
    <3>2. i \in 1 .. Len(u) /\ u[i] = p
      BY <2>1, <2>9, <3>6
    <3>3. Len(s) + i \in 1 .. Len(ports'[n]) /\ ports'[n][Len(s) + i] = p
      BY <2>9, <2>11, <3>2
    <3> QED
      BY <3>3 DEF Found
  <2>6. ASSUME NEW a \in coordinator[h], a.ip = n, a.port = p
        PROVE  Found(n, p)'
    <3>1. v = << p >>
      <4>1. \A b \in coordinator[h] : b.ip = n => b = a
        BY DEF OneCoordinator
      <4>2. (CHOOSE b \in coordinator[h] : b.ip = n) = a
        BY <2>6, <4>1
      <4> QED
        BY <2>6, <4>2 DEF CoordinatorPort
    <3>2. Len(x) = 1 /\ x[1] = p
      BY <2>10, <3>1
    <3>3. /\ Len(s) + Len(u) + 1 \in 1 .. Len(ports'[n])
          /\ ports'[n][Len(s) + Len(u) + 1] = p
      BY <2>11, <3>2
    <3> QED
      BY <3>3 DEF Found
  <2>7. ASSUME NEW a \in Addresses(h), a.ip = n, a.port = p
        PROVE  \/ \E c \in granted[h] : c.ip = n /\ c.port = p
               \/ a \in coordinator[h]
    BY <2>7 DEF Addresses, AddressOf
  <2> QED
    BY <2>3, <2>4, <2>5, <2>6, <2>7 DEF PortsFound, Found
<1>4. OneCoordinator'
  BY <1>2 DEF OneCoordinator
<1> QED
  BY <1>3, <1>4 DEF PortsFound

\* No port is lost in any state of the ledger.
LEMMA PortsKept == ClusterSpec => [](PortsFound /\ OneCoordinator)
<1>1. ClusterInit => PortsFound /\ OneCoordinator
  <2> SUFFICES ASSUME ClusterInit PROVE PortsFound /\ OneCoordinator
    OBVIOUS
  <2>1. ASSUME NEW n \in Node, NEW p \in Port
        PROVE  Found(n, p)
    <3> DEFINE all == [k \in 1 .. HighPort - LowPort + 1 |-> LowPort + k - 1]
    <3>1. ports[n] = all /\ Len(all) = HighPort - LowPort + 1
      BY ClusterAssumption DEF ClusterInit
    <3>2. p - LowPort + 1 \in 1 .. Len(all) /\ all[p - LowPort + 1] = p
      BY <3>1, ClusterAssumption DEF Port
    <3> QED
      BY <3>1, <3>2 DEF Found
  <2> QED
    BY <2>1 DEF PortsFound, OneCoordinator, ClusterInit
<1>2. ASSUME ClusterTypeOK, PortExclusive, PortsFound, OneCoordinator, [ClusterNext]_clusterVars
      PROVE  PortsFound' /\ OneCoordinator'
  <2>1. CASE \E h \in Holder, d \in Demand : granted[h] = {} /\ Get(h, d)
    BY <1>2, <2>1, GetFinds
  <2>2. CASE UNCHANGED << ports, granted, coordinator >>
    BY <1>2, <2>2 DEF PortsFound, OneCoordinator, Found, Addresses
  <2>3. CASE \E h \in Holder : Put(h)
    BY <1>2, <2>3, PutFinds
  <2> QED
    BY <1>2, <2>1, <2>2, <2>3 DEF ClusterNext, GetPanics, clusterVars
<1> QED
  BY <1>1, <1>2, LedgerTypeCorrect, NoPortGrantedTwice, PTL DEF ClusterSpec

-----------------------------------------------------------------------------
(***************************************************************************)
(* The cluster as config/config.json sizes it: one number of cores per     *)
(* container, every PARTITION and every host a multiple of it, and the     *)
(* CPUs of a set shared by its containers of a host.  Without sharing, or  *)
(* with sizes that leave a remainder, Put does not give back what Get took *)
(* (see the run cluster_private_leak).                                     *)
(***************************************************************************)
Multiples(s) == { q * s : q \in Nat }

WholeContainers(s) ==
  /\ ShareCpu
  /\ s \in Nat \ {0}
  /\ \A d \in Demand : d.slotPerContainer = s /\ TotalSlot(d) \in Multiples(s)
  /\ \A n \in Node : Capacity[n] \in Multiples(s)

\* Differences of multiples are multiples.
LEMMA MultiplesClosed ==
  ASSUME NEW s \in Nat \ {0}, NEW x \in Multiples(s), NEW y \in Multiples(s)
  PROVE  /\ x \in Nat
         /\ y <= x => x - y \in Multiples(s)
         /\ x + y \in Multiples(s)
<1>1. PICK p \in Nat : x = p * s
  BY DEF Multiples
<1>2. PICK q \in Nat : y = q * s
  BY DEF Multiples
<1>3. x \in Nat
  BY <1>1
<1>4. x + y \in Multiples(s)
  <2>1. p + q \in Nat /\ x + y = (p + q) * s
    BY <1>1, <1>2
  <2> QED
    BY <2>1 DEF Multiples
<1>5. ASSUME y <= x
      PROVE  x - y \in Multiples(s)
  <2>1. q <= p
    BY <1>1, <1>2, <1>5
  <2>2. p - q \in Nat /\ x - y = (p - q) * s
    BY <1>1, <1>2, <2>1
  <2> QED
    BY <2>2 DEF Multiples
<1> QED
  BY <1>3, <1>4, <1>5

\* Ranks number the members of a finite set of numbers without a gap.
LEMMA RankOnto ==
  ASSUME NEW F \in SUBSET Nat, IsFiniteSet(F), NEW k \in 0 .. Cardinality(F)
  PROVE  Cardinality({ x \in F : Cardinality({ c \in F : c < x }) < k }) = k
<1> DEFINE Below(x) == { c \in F : c < x }
           rk == [x \in F |-> Cardinality(Below(x))]
<1>1. Cardinality(F) \in Nat
  BY FS_CardinalityType
<1>2. ASSUME NEW x \in F
      PROVE  /\ IsFiniteSet(Below(x))
             /\ rk[x] \in 0 .. Cardinality(F) - 1
  <2>1. Below(x) \in SUBSET F /\ Below(x) # F
    OBVIOUS
  <2> HIDE DEF Below
  <2>2. IsFiniteSet(Below(x)) /\ Cardinality(Below(x)) \in Nat
    BY <2>1, FS_Subset, FS_CardinalityType
  <2>3. Cardinality(Below(x)) <= Cardinality(F) /\ Cardinality(Below(x)) # Cardinality(F)
    BY <2>1, FS_Subset
  <2> QED
    BY <1>1, <2>2, <2>3
<1>3. ASSUME NEW x \in F, NEW y \in F, x < y
      PROVE  rk[x] < rk[y]
  <2>1. Below(x) \in SUBSET Below(y) /\ Below(x) # Below(y)
    <3>1. x \in Below(y) /\ x \notin Below(x)
      BY <1>3
    <3>2. ASSUME NEW c \in Below(x)
          PROVE  c \in Below(y)
      <4>1. c \in F /\ c < x /\ c \in Nat /\ x \in Nat /\ y \in Nat
        OBVIOUS
      <4> QED
        BY <1>3, <4>1
    <3> HIDE DEF Below
    <3> QED
      BY <3>1, <3>2
  <2>2. rk[x] \in Int /\ rk[y] \in Int /\ IsFiniteSet(Below(y))
    BY <1>2
  <2> HIDE DEF Below
  <2>3. Cardinality(Below(x)) <= Cardinality(Below(y)) /\ Cardinality(Below(x)) # Cardinality(Below(y))
    BY <2>1, <2>2, FS_Subset
  <2> QED
    BY <2>2, <2>3
<1>14. rk = [x \in F |-> rk[x]]
  OBVIOUS
<1> HIDE DEF rk, Below
<1>4. \A x, y \in F : rk[x] = rk[y] => x = y
  <2> SUFFICES ASSUME NEW x \in F, NEW y \in F, rk[x] = rk[y], x # y PROVE FALSE
    OBVIOUS
  <2>1. x < y \/ y < x
    OBVIOUS
  <2>2. rk[x] \in 0 .. Cardinality(F) - 1 /\ rk[y] \in 0 .. Cardinality(F) - 1
    BY <1>2
  <2> QED
    BY <1>1, <1>3, <2>1, <2>2
<1>5. rk \in Injection(F, 0 .. Cardinality(F) - 1)
  BY <1>2, <1>4, <1>14 DEF Injection, IsInjective
<1>6. /\ IsFiniteSet(0 .. Cardinality(F) - 1)
      /\ Cardinality(0 .. Cardinality(F) - 1) = Cardinality(F)
  <2>1. PICK b \in Int : b = Cardinality(F) - 1
    BY <1>1
  <2>2. IsFiniteSet(0 .. b) /\ Cardinality(0 .. b) = IF 0 > b THEN 0 ELSE b - 0 + 1
    BY FS_Interval
  <2> QED
    BY <1>1, <2>1, <2>2
<1>7. rk \in Surjection(F, 0 .. Cardinality(F) - 1)
  BY <1>5, <1>6, FS_Injection
<1> DEFINE G == { x \in F : rk[x] < k }
<1>8. G \in SUBSET F /\ IsFiniteSet(G)
  BY FS_Subset
<1>9. [x \in G |-> rk[x]] \in Bijection(G, 0 .. k - 1)
  <2>1. \A x \in G : rk[x] \in 0 .. k - 1
    <3> SUFFICES ASSUME NEW x \in G PROVE rk[x] \in 0 .. k - 1
      OBVIOUS
    <3>1. rk[x] \in 0 .. Cardinality(F) - 1 /\ rk[x] < k /\ k \in Nat
      BY <1>1, <1>2
    <3> QED
      BY <1>1, <3>1
  <2>2. \A i \in 0 .. k - 1 : \E x \in G : rk[x] = i
    <3> SUFFICES ASSUME NEW i \in 0 .. k - 1 PROVE \E x \in G : rk[x] = i
      OBVIOUS
    <3>1. i \in 0 .. Cardinality(F) - 1 /\ i < k
      BY <1>1
    <3>2. PICK x \in F : rk[x] = i
      BY <1>7, <3>1 DEF Surjection
    <3> QED
      BY <3>1, <3>2
  <2> QED
    BY <1>4, <1>8, <2>1, <2>2 DEF Bijection, Injection, IsInjective, Surjection
<1>10. ExistsBijection(G, 0 .. k - 1)
  BY <1>9 DEF ExistsBijection
<1> HIDE DEF G
<1>11. Cardinality(0 .. k - 1) = Cardinality(G)
  BY <1>8, <1>10, FS_Bijection
<1>12. Cardinality(0 .. k - 1) = k
  <2>1. k \in Nat
    BY <1>1
  <2> QED
    BY <2>1, FS_Interval
<1>13. G = { x \in F : Cardinality({ c \in F : c < x }) < k }
  BY DEF G, rk, Below
<1> QED
  BY <1>11, <1>12, <1>13

\* The CPUs a host gives for k containers are k * s of its free ones.
LEMMA CpuStrSize ==
  ASSUME NEW n \in Node, NEW s \in Nat \ {0}, NEW k \in Nat,
         IsFiniteSet(FreeCpu(n)), k * s <= Cardinality(FreeCpu(n))
  PROVE  Cardinality(CpuStr(n, s, k)) = k * s
<1>1. FreeCpu(n) \in SUBSET Nat
  BY ClusterAssumption DEF FreeCpu, Cpu
<1>2. \A x \in FreeCpu(n) : Rank(n, x) \in Nat
  <2> SUFFICES ASSUME NEW x \in FreeCpu(n) PROVE Rank(n, x) \in Nat
    OBVIOUS
  <2>1. PICK B \in SUBSET FreeCpu(n) : B = { c \in FreeCpu(n) : c < x }
    OBVIOUS
  <2>2. Cardinality(B) \in Nat
    BY FS_Subset, FS_CardinalityType
  <2> QED
    BY <2>1, <2>2 DEF Rank
<1>3. CpuStr(n, s, k) = { x \in FreeCpu(n) : Rank(n, x) < k * s }
  <2>1. ASSUME NEW x \in FreeCpu(n), NEW i \in 0 .. k - 1, Rank(n, x) \in i * s .. (i + 1) * s - 1
        PROVE  Rank(n, x) < k * s
    <3>1. (i + 1) * s <= k * s
      BY SMT
    <3>2. Rank(n, x) <= (i + 1) * s - 1 /\ (i + 1) * s \in Int /\ k * s \in Int /\ Rank(n, x) \in Int
      BY <1>2, <2>1
    <3> QED
      BY <3>1, <3>2
  <2>2. ASSUME NEW x \in FreeCpu(n), Rank(n, x) < k * s
        PROVE  \E i \in 0 .. k - 1 : Rank(n, x) \in i * s .. (i + 1) * s - 1
    <3>1. PICK r \in Nat : r = Rank(n, x)
      BY <1>2
    <3>2. PICK i \in Nat : i * s <= r /\ r < (i + 1) * s
      <4>1. r \div s \in Nat /\ (r \div s) * s <= r /\ r < (r \div s + 1) * s
        BY SMT
      <4> QED
        BY <4>1
    <3>3. i < k
      <4>1. i * s < k * s
        BY <2>2, <3>1, <3>2
      <4> QED
        BY <4>1
    <3>4. r \in i * s .. (i + 1) * s - 1
      BY <3>2
    <3> QED
      BY <3>1, <3>3, <3>4
  <2> QED
    BY <2>1, <2>2 DEF CpuStr, CpuArr
<1>4. PICK F \in SUBSET Nat : F = FreeCpu(n)
  BY <1>1
<1>5. k * s \in 0 .. Cardinality(F)
  BY <1>4, FS_CardinalityType
<1>6. Cardinality({ x \in F : Cardinality({ c \in F : c < x }) < k * s }) = k * s
  BY <1>4, <1>5, RankOnto
<1> QED
  BY <1>3, <1>4, <1>6 DEF Rank

\* Get's walk leaves whole containers to be wanted on every host.
LEMMA WholeWalk ==
  ASSUME ClusterTypeOK, NEW s \in Nat \ {0},
         NEW pos \in SortedPositions, NEW total \in Multiples(s),
         NEW rest \in Fills(pos, total), \A n \in Node : slot[n] \in Multiples(s),
         NEW n \in Node
  PROVE  /\ UseSlot(pos, rest, n) \in Multiples(s)
         /\ NewContainers(pos, rest, s, n) \in Nat
         /\ UseSlot(pos, rest, n) = NewContainers(pos, rest, s, n) * s
<1> DEFINE P == { k \in Nat : k <= NodeCount => rest[k] \in Multiples(s) }
<1>1. /\ pos \in [Node -> 1 .. NodeCount]
      /\ NodeCount \in Nat
  BY NodeCountType DEF SortedPositions
<1>2. /\ rest \in [0 .. NodeCount -> 0 .. total] /\ rest[0] = total
      /\ \A m \in Node : rest[pos[m]] = IF rest[pos[m] - 1] < slot[m]
                                          THEN 0 ELSE rest[pos[m] - 1] - slot[m]
  BY DEF Fills
<1>3. 0 \in Multiples(s)
  <2>1. 0 \in Nat /\ 0 = 0 * s
    OBVIOUS
  <2> QED
    BY <2>1 DEF Multiples
<1>4. 0 \in P
  BY <1>2
<1>5. ASSUME NEW k \in Nat, k \in P
      PROVE  k + 1 \in P
  <2> SUFFICES ASSUME k + 1 <= NodeCount PROVE rest[k + 1] \in Multiples(s)
    OBVIOUS
  <2>1. rest[k] \in Multiples(s)
    BY <1>1, <1>5
  <2>2. PICK m \in Node : pos[m] = k + 1
    <3>1. k + 1 \in 1 .. NodeCount
      BY <1>1
    <3> QED
      BY <3>1, EveryPlace
  <2>3. rest[k + 1] = IF rest[k] < slot[m] THEN 0 ELSE rest[k] - slot[m]
    BY <1>2, <2>2
  <2>4. CASE rest[k] < slot[m]
    BY <1>3, <2>3, <2>4
  <2>5. CASE ~ (rest[k] < slot[m])
    <3>1. PICK y \in Multiples(s) : y = slot[m]
      OBVIOUS
    <3>2. PICK x \in Multiples(s) : x = rest[k]
      BY <2>1
    <3>3. y <= x
      BY <2>5, <3>1, <3>2, MultiplesClosed
    <3> QED
      BY <2>3, <2>5, <3>1, <3>2, <3>3, MultiplesClosed
  <2> QED
    BY <2>4, <2>5
<1>6. Nat \subseteq P
  <2> HIDE DEF P
  <2> QED
    BY <1>4, <1>5, Induction
<1>7. /\ pos[n] \in Nat /\ pos[n] <= NodeCount
      /\ pos[n] - 1 \in Nat /\ pos[n] - 1 <= NodeCount
  BY <1>1
<1>8. rest[pos[n]] \in Multiples(s) /\ rest[pos[n] - 1] \in Multiples(s)
  BY <1>6, <1>7
<1>9. total \in Nat
  BY MultiplesClosed
<1>10. PICK u \in Nat : u = UseSlot(pos, rest, n)
  <2>1. UseSlot(pos, rest, n) \in 0 .. slot[n] /\ slot[n] \in Nat
    BY <1>9, UseSlotBounds DEF ClusterTypeOK
  <2> QED
    BY <2>1
<1>11. u \in Multiples(s)
  <2>1. PICK x \in Multiples(s) : x = rest[pos[n] - 1]
    BY <1>8
  <2>2. PICK y \in Multiples(s) : y = rest[pos[n]]
    BY <1>8
  <2>3. x \in Nat /\ y \in Nat /\ u = x - y
    BY <1>10, <2>1, <2>2, MultiplesClosed DEF UseSlot
  <2>4. y <= x
    BY <2>3
  <2> QED
    BY <2>3, <2>4, MultiplesClosed
<1>12. PICK q \in Nat : u = q * s
  BY <1>11 DEF Multiples
<1>13. NewContainers(pos, rest, s, n) = q
  BY <1>10, <1>12, Ceiling DEF NewContainers
<1> QED
  BY <1>10, <1>11, <1>12, <1>13

\* What a set holds of a host, in slots.
ShareOf(n) == [h \in Holder |-> Cardinality(OnNode(h, n)) * demand[h].slotPerContainer]

WholeSlots(s) == \A n \in Node : slot[n] \in Multiples(s)
SetsShareCpus(s) ==
  /\ \A h \in Holder : \A n \in Node : \A c \in OnNode(h, n) :
       Cardinality(c.cpuSet) = Cardinality(OnNode(h, n)) * s
  /\ \A h \in Holder : \A b, c \in granted[h] : b.ip = c.ip => b.cpuSet = c.cpuSet
MarksAreSlots == \A n \in Node : Cardinality(cpuMask[n]) + slot[n] = Capacity[n]
SharesAddUp == \A n \in Node : slot[n] + SumFunction(ShareOf(n)) = Capacity[n]
MarksOwned ==
  \A n \in Node : \A cpu \in cpuMask[n] :
    \E h \in Holder : \E c \in OnNode(h, n) : cpu \in c.cpuSet

Even(s) == WholeSlots(s) /\ SetsShareCpus(s) /\ MarksAreSlots /\ SharesAddUp /\ MarksOwned

\* A host has a CPU free for each of its free slots.
LEMMA FreeCpus ==
  ASSUME ClusterTypeOK, MarksAreSlots, NEW n \in Node
  PROVE  /\ IsFiniteSet(cpuMask[n]) /\ Cardinality(cpuMask[n]) \in Nat
         /\ IsFiniteSet(FreeCpu(n)) /\ Cardinality(FreeCpu(n)) \in Nat
         /\ slot[n] <= Cardinality(FreeCpu(n))
<1>1. IsFiniteSet(Cpu) /\ Cardinality(Cpu) = MaxSlotPerNode
  <2>1. PICK b \in Int : b = MaxSlotPerNode - 1
    BY ClusterAssumption
  <2>2. IsFiniteSet(0 .. b) /\ Cardinality(0 .. b) = IF 0 > b THEN 0 ELSE b - 0 + 1
    BY FS_Interval
  <2> QED
    BY <2>1, <2>2, ClusterAssumption DEF Cpu
<1>2. cpuMask[n] \in SUBSET Cpu
  BY DEF ClusterTypeOK
<1>3. IsFiniteSet(cpuMask[n]) /\ Cardinality(cpuMask[n]) \in Nat
  BY <1>1, <1>2, FS_Subset, FS_CardinalityType
<1>4. FreeCpu(n) \in SUBSET Cpu
  BY DEF FreeCpu
<1>5. IsFiniteSet(FreeCpu(n)) /\ Cardinality(FreeCpu(n)) \in Nat
  BY <1>1, <1>4, FS_Subset, FS_CardinalityType
<1>6. Cardinality(FreeCpu(n)) = MaxSlotPerNode - Cardinality(cpuMask[n])
  <2>1. Cpu \cap cpuMask[n] = cpuMask[n]
    BY <1>2
  <2>2. Cardinality(Cpu \ cpuMask[n]) = Cardinality(Cpu) - Cardinality(Cpu \cap cpuMask[n])
    BY <1>1, FS_Difference
  <2> QED
    BY <1>1, <2>1, <2>2 DEF FreeCpu
<1>7. slot[n] <= MaxSlotPerNode - Cardinality(cpuMask[n])
  <2>1. CurrentTakenSlot[n] \in Nat /\ MaxSlotPerNode \in Nat /\ slot[n] \in Nat
    BY ClusterAssumption DEF ClusterTypeOK
  <2>2. Cardinality(cpuMask[n]) + slot[n] = MaxSlotPerNode - CurrentTakenSlot[n]
    BY DEF MarksAreSlots, Capacity
  <2> QED
    BY <1>3, <2>1, <2>2
<1> QED
  BY <1>3, <1>5, <1>6, <1>7

\* What Get writes on a host when the sizes are whole.
LEMMA GetWhole ==
  ASSUME NEW s, WholeContainers(s), ClusterTypeOK, PortExclusive, Even(s),
         NEW h \in Holder, NEW d \in Demand, Get(h, d)
  PROVE  \A n \in Node : \E k \in Nat :
           /\ k * s <= slot[n]
           /\ slot'[n] = slot[n] - k * s
           /\ slot'[n] \in Multiples(s)
           /\ Cardinality(OnNode(h, n)') = k
           /\ Cardinality(CpuStr(n, s, k)) = k * s
           /\ IsFiniteSet(CpuStr(n, s, k))
           /\ cpuMask'[n] = cpuMask[n] \cup CpuStr(n, s, k)
           /\ \A c \in OnNode(h, n)' : c.cpuSet = CpuStr(n, s, k)
           /\ k > 0 => OnNode(h, n)' # {}
<1>1. /\ s \in Nat \ {0} /\ d.slotPerContainer = s
      /\ TotalSlot(d) \in Multiples(s) /\ ShareCpu
  BY DEF WholeContainers
<1>2. PICK pos \in SortedPositions : \E rest \in Fills(pos, TotalSlot(d)) :
        \A n \in Node :
          /\ UseSlot(pos, rest, n) \in 0 .. slot[n]
          /\ slot'[n] = slot[n] - UseSlot(pos, rest, n)
          /\ cpuMask'[n] = cpuMask[n] \cup CpuStr(n, s, NewContainers(pos, rest, s, n))
          /\ At(granted'[h], n) = NewGrant(pos, rest, s, n)
          /\ Cardinality(At(granted'[h], n)) = NewContainers(pos, rest, s, n)
  BY <1>1, GetByHost
<1>3. PICK rest \in Fills(pos, TotalSlot(d)) :
        \A n \in Node :
          /\ UseSlot(pos, rest, n) \in 0 .. slot[n]
          /\ slot'[n] = slot[n] - UseSlot(pos, rest, n)
          /\ cpuMask'[n] = cpuMask[n] \cup CpuStr(n, s, NewContainers(pos, rest, s, n))
          /\ At(granted'[h], n) = NewGrant(pos, rest, s, n)
          /\ Cardinality(At(granted'[h], n)) = NewContainers(pos, rest, s, n)
  BY <1>2
<1> SUFFICES ASSUME NEW n \in Node
             PROVE  \E k \in Nat :
                      /\ k * s <= slot[n]
                      /\ slot'[n] = slot[n] - k * s
                      /\ slot'[n] \in Multiples(s)
                      /\ Cardinality(OnNode(h, n)') = k
                      /\ Cardinality(CpuStr(n, s, k)) = k * s
                      /\ IsFiniteSet(CpuStr(n, s, k))
                      /\ cpuMask'[n] = cpuMask[n] \cup CpuStr(n, s, k)
                      /\ \A c \in OnNode(h, n)' : c.cpuSet = CpuStr(n, s, k)
                      /\ k > 0 => OnNode(h, n)' # {}
  OBVIOUS
<1>4. /\ UseSlot(pos, rest, n) \in Multiples(s)
      /\ NewContainers(pos, rest, s, n) \in Nat
      /\ UseSlot(pos, rest, n) = NewContainers(pos, rest, s, n) * s
  BY <1>1, WholeWalk DEF Even, WholeSlots
<1>5. PICK k \in Nat : k = NewContainers(pos, rest, s, n)
  BY <1>4
<1>6. slot[n] \in Multiples(s) /\ slot[n] \in Nat
  BY DEF Even, WholeSlots, ClusterTypeOK
<1>7. k * s <= slot[n] /\ slot'[n] = slot[n] - k * s
  BY <1>3, <1>4, <1>5
<1>8. slot'[n] \in Multiples(s)
  <2>1. PICK x \in Multiples(s) : x = slot[n]
    BY <1>6
  <2>2. PICK y \in Multiples(s) : y = k * s
    BY <1>4, <1>5
  <2> QED
    BY <1>1, <1>7, <2>1, <2>2, MultiplesClosed
<1>9. OnNode(h, n)' = At(granted'[h], n)
  BY DEF OnNode, At
<1>10. Cardinality(OnNode(h, n)') = k /\ OnNode(h, n)' = NewGrant(pos, rest, s, n)
  BY <1>3, <1>5, <1>9
<1>11. Cardinality(CpuStr(n, s, k)) = k * s /\ IsFiniteSet(CpuStr(n, s, k))
  <2>1. /\ IsFiniteSet(FreeCpu(n)) /\ Cardinality(FreeCpu(n)) \in Nat
        /\ slot[n] <= Cardinality(FreeCpu(n))
    BY FreeCpus DEF Even
  <2>2. k * s <= Cardinality(FreeCpu(n))
    <3>1. k * s \in Int
      BY <1>1
    <3> QED
      BY <1>6, <1>7, <2>1, <3>1
  <2>3. CpuStr(n, s, k) \in SUBSET FreeCpu(n)
    BY DEF CpuStr, CpuArr
  <2> QED
    BY <1>1, <2>1, <2>2, <2>3, CpuStrSize, FS_Subset
<1>12. cpuMask'[n] = cpuMask[n] \cup CpuStr(n, s, k)
  BY <1>3, <1>5
<1>13. \A c \in OnNode(h, n)' : c.cpuSet = CpuStr(n, s, k)
  BY <1>1, <1>5, <1>10 DEF NewGrant
<1>14. k > 0 => OnNode(h, n)' # {}
  BY <1>10, FS_EmptySet
<1> QED
  BY <1>7, <1>8, <1>10, <1>11, <1>12, <1>13, <1>14

\* Get keeps a host's free slots whole containers, and as many CPUs marked as slots taken.
LEMMA GetEven ==
  ASSUME NEW s, WholeContainers(s), IsFiniteSet(Holder), ClusterTypeOK, PortExclusive, Even(s),
         NEW h \in Holder, NEW d \in Demand, granted[h] = {}, Get(h, d)
  PROVE  Even(s)'
<1>1. s \in Nat \ {0} /\ d.slotPerContainer = s
  BY DEF WholeContainers
<1>2. /\ \A g \in Holder : g # h => granted'[g] = granted[g] /\ demand'[g] = demand[g]
      /\ demand'[h] = d
  BY GetGrants DEF Get, ClusterTypeOK
<1>3. ClusterTypeOK'
  BY GetTypes
<1>4. \A g \in Holder, n \in Node : g # h => OnNode(g, n)' = OnNode(g, n)
  BY <1>2 DEF OnNode
<1>5. \A n \in Node : OnNode(h, n) = {}
  BY DEF OnNode
<1>6. ASSUME NEW n \in Node
      PROVE  /\ slot'[n] \in Multiples(s)
             /\ \A c \in OnNode(h, n)' : Cardinality(c.cpuSet) = Cardinality(OnNode(h, n)') * s
             /\ \A b, c \in OnNode(h, n)' : b.cpuSet = c.cpuSet
             /\ Cardinality(cpuMask'[n]) + slot'[n] = Capacity[n]
             /\ slot'[n] + SumFunction(ShareOf(n)') = Capacity[n]
             /\ \A cpu \in cpuMask'[n] : \E g \in Holder : \E c \in OnNode(g, n)' : cpu \in c.cpuSet
  <2>1. PICK k \in Nat :
           /\ k * s <= slot[n]
           /\ slot'[n] = slot[n] - k * s
           /\ slot'[n] \in Multiples(s)
           /\ Cardinality(OnNode(h, n)') = k
           /\ Cardinality(CpuStr(n, s, k)) = k * s
           /\ IsFiniteSet(CpuStr(n, s, k))
           /\ cpuMask'[n] = cpuMask[n] \cup CpuStr(n, s, k)
           /\ \A c \in OnNode(h, n)' : c.cpuSet = CpuStr(n, s, k)
           /\ k > 0 => OnNode(h, n)' # {}
    BY GetWhole
  <2>2. slot[n] \in Nat /\ k * s \in Nat
    BY <1>1 DEF ClusterTypeOK
  <2>3. Cardinality(cpuMask'[n]) = Cardinality(cpuMask[n]) + k * s
    <3>1. IsFiniteSet(cpuMask[n]) /\ Cardinality(cpuMask[n]) \in Nat
      BY FreeCpus DEF Even
    <3>2. cpuMask[n] \cap CpuStr(n, s, k) = {}
      BY CpuStrSubset
    <3>3. Cardinality(cpuMask[n] \cup CpuStr(n, s, k))
            = Cardinality(cpuMask[n]) + Cardinality(CpuStr(n, s, k))
              - Cardinality(cpuMask[n] \cap CpuStr(n, s, k))
      BY <2>1, <3>1, FS_Union
    <3>4. Cardinality(cpuMask[n] \cap CpuStr(n, s, k)) = 0
      BY <3>2, FS_EmptySet
    <3> QED
      BY <2>1, <2>2, <3>1, <3>3, <3>4
  <2>4. Cardinality(cpuMask'[n]) + slot'[n] = Capacity[n]
    <3>1. Cardinality(cpuMask[n]) \in Nat /\ Cardinality(cpuMask[n]) + slot[n] = Capacity[n]
      BY FreeCpus DEF Even, MarksAreSlots
    <3> QED
      BY <2>1, <2>2, <2>3, <3>1
  <2>5. slot'[n] + SumFunction(ShareOf(n)') = Capacity[n]
    <3>1. PICK f : f = ShareOf(n)
      OBVIOUS
    <3>2. PICK g : g = ShareOf(n)'
      OBVIOUS
    <3>3. DOMAIN f = Holder /\ DOMAIN g = Holder
      BY <3>1, <3>2 DEF ShareOf
    <3>4. \A x \in Holder : f[x] \in Int
      <4> SUFFICES ASSUME NEW x \in Holder PROVE f[x] \in Int
        OBVIOUS
      <4>1. Cardinality(OnNode(x, n)) \in Nat
        <5>1. OnNode(x, n) \in SUBSET Container
          BY DEF ClusterTypeOK, OnNode
        <5> QED
          BY <5>1, ContainersFinite
      <4>2. demand[x].slotPerContainer \in Nat
        BY ClusterAssumption DEF ClusterTypeOK, NoDemand
      <4> QED
        BY <3>1, <4>1, <4>2 DEF ShareOf
    <3>5. f[h] = 0
      <4>1. Cardinality(OnNode(h, n)) = 0
        BY <1>5, FS_EmptySet
      <4>2. demand[h].slotPerContainer \in Nat
        BY ClusterAssumption DEF ClusterTypeOK, NoDemand
      <4> QED
        BY <3>1, <4>1, <4>2 DEF ShareOf
    <3>6. g[h] = k * s
      BY <1>1, <1>2, <2>1, <3>2 DEF ShareOf
    <3>7. \A x \in Holder \ {h} : g[x] = f[x]
      BY <1>2, <1>4, <3>1, <3>2 DEF ShareOf
    <3>8. g[h] \in Int
      BY <2>2, <3>6
    <3>9. SumFunctionOnSet(g, Holder) = SumFunctionOnSet(f, Holder) - f[h] + g[h]
      BY <3>4, <3>7, <3>8, SumChange
    <3>10. SumFunctionOnSet(f, Holder) \in Int
      BY <3>4, SumType
    <3>11. slot[n] + SumFunctionOnSet(f, Holder) = Capacity[n]
      BY <3>1, <3>3 DEF Even, SharesAddUp, SumFunction
    <3>12. SumFunction(ShareOf(n)') = SumFunctionOnSet(g, Holder)
      BY <3>2, <3>3 DEF SumFunction
    <3> QED
      BY <2>1, <2>2, <3>5, <3>6, <3>9, <3>10, <3>11, <3>12
  <2>6. ASSUME NEW cpu \in cpuMask'[n]
        PROVE  \E g \in Holder : \E c \in OnNode(g, n)' : cpu \in c.cpuSet
    <3>1. CASE cpu \in CpuStr(n, s, k)
      <4>1. k > 0
        BY <3>1 DEF CpuStr
      <4> QED
        BY <2>1, <3>1, <4>1
    <3>2. CASE cpu \in cpuMask[n]
      <4>1. PICK g \in Holder : \E c \in OnNode(g, n) : cpu \in c.cpuSet
        BY <3>2 DEF Even, MarksOwned
      <4>2. g # h
        BY <1>5, <4>1
      <4> QED
        BY <1>4, <4>1, <4>2
    <3> QED
      BY <2>1, <3>1, <3>2
  <2> QED
    BY <2>1, <2>4, <2>5, <2>6
<1>7. WholeSlots(s)' /\ MarksAreSlots' /\ MarksOwned'
  BY <1>6 DEF WholeSlots, MarksAreSlots, MarksOwned, Capacity, Multiples
<1>8. SharesAddUp'
  BY <1>6 DEF SharesAddUp, Capacity
<1>9. SetsShareCpus(s)'
  <2>1. ASSUME NEW g \in Holder, NEW n \in Node, NEW c \in OnNode(g, n)'
        PROVE  Cardinality(c.cpuSet) = Cardinality(OnNode(g, n)') * s
    <3>1. CASE g = h
      BY <1>6, <2>1, <3>1
    <3>2. CASE g # h
      BY <1>4, <2>1, <3>2 DEF Even, SetsShareCpus
    <3> QED
      BY <3>1, <3>2
  <2>2. ASSUME NEW g \in Holder, NEW b \in granted'[g], NEW c \in granted'[g], b.ip = c.ip
        PROVE  b.cpuSet = c.cpuSet
    <3>1. CASE g = h
      <4>1. c.ip \in Node
        BY <1>3, <2>2 DEF ClusterTypeOK, Container
      <4>2. b \in OnNode(h, c.ip)' /\ c \in OnNode(h, c.ip)'
        BY <2>2, <3>1 DEF OnNode
      <4> QED
        BY <1>6, <4>1, <4>2
    <3>2. CASE g # h
      BY <1>2, <2>2, <3>2 DEF Even, SetsShareCpus
    <3> QED
      BY <3>1, <3>2
  <2> QED
    BY <2>1, <2>2 DEF SetsShareCpus
<1> QED
  BY <1>7, <1>8, <1>9 DEF Even

\* So does Put.
LEMMA PutEven ==
  ASSUME NEW s, WholeContainers(s), IsFiniteSet(Holder), ClusterTypeOK, CpuExclusive, Demanded,
         Even(s), NEW h \in Holder, Put(h)
  PROVE  Even(s)'
<1>1. /\ s \in Nat \ {0} /\ demand[h].slotPerContainer = s
  BY DEF WholeContainers, Demanded, Put
<1>2. /\ \A g \in Holder : g # h => granted'[g] = granted[g] /\ demand'[g] = demand[g]
      /\ granted'[h] = {} /\ demand'[h] = NoDemand
  BY DEF Put, ClusterTypeOK
<1>3. PICK walk \in Walks(h) : cpuMask' = [n \in Node |-> cpuMask[n] \ FreedCpu(walk[n])]
  BY DEF Put
<1>4. /\ \A g \in Holder, n \in Node : g # h => OnNode(g, n)' = OnNode(g, n)
      /\ \A n \in Node : OnNode(h, n)' = {}
  BY <1>2 DEF OnNode
<1>5. ASSUME NEW n \in Node
      PROVE  /\ slot'[n] \in Multiples(s)
             /\ Cardinality(cpuMask'[n]) + slot'[n] = Capacity[n]
             /\ slot'[n] + SumFunction(ShareOf(n)') = Capacity[n]
             /\ \A cpu \in cpuMask'[n] : \E g \in Holder : \E c \in OnNode(g, n)' : cpu \in c.cpuSet
  <2>1. PICK k \in Nat : k = Cardinality(OnNode(h, n))
    <3>1. OnNode(h, n) \in SUBSET Container
      BY DEF ClusterTypeOK, OnNode
    <3> QED
      BY <3>1, ContainersFinite
  <2>2. slot'[n] = slot[n] + k * s /\ slot[n] \in Nat /\ k * s \in Nat
    BY <1>1, <2>1 DEF Put, ClusterTypeOK
  <2>3. slot'[n] \in Multiples(s)
    <3>1. PICK x \in Multiples(s) : x = slot[n]
      BY DEF Even, WholeSlots
    <3>2. PICK y \in Multiples(s) : y = k * s
      BY DEF Multiples
    <3> QED
      BY <1>1, <2>2, <3>1, <3>2, MultiplesClosed
  <2>4. PICK F : F = FreedCpu(walk[n])
    OBVIOUS
  <2>5. cpuMask'[n] = cpuMask[n] \ F
    BY <1>3, <2>4
  <2>6. /\ F \in SUBSET cpuMask[n]
        /\ Cardinality(F) = k * s
        /\ \A c \in OnNode(h, n) : c.cpuSet = F
    <3>1. CASE walk[n] = << >>
      <4>1. OnNode(h, n) = {}
        <5>1. Len(walk[n]) = 0
          BY <3>1
        <5>2. ~ \E i \in 1 .. Len(walk[n]) : TRUE
          BY <5>1
        <5> QED
          BY <5>2, WalkCovers
      <4>2. F = {} /\ Cardinality({}) = 0
        BY <2>4, <3>1, FS_EmptySet DEF FreedCpu
      <4>3. k = 0 /\ k * s = 0
        BY <1>1, <2>1, <4>1, <4>2
      <4> QED
        BY <4>1, <4>2, <4>3
    <3>2. CASE walk[n] # << >>
      <4>1. walk[n] \in Seq(Container) /\ Len(walk[n]) \in 1 .. Len(walk[n])
        BY <3>2, WalkType
      <4>2. PICK c \in OnNode(h, n) : c = walk[n][Len(walk[n])]
        BY <4>1, WalkType
      <4>3. F = c.cpuSet
        BY <2>4, <3>2, <4>2 DEF FreedCpu
      <4>4. \A b \in OnNode(h, n) : b.cpuSet = F
        BY <4>3 DEF Even, SetsShareCpus, OnNode
      <4>5. F \subseteq cpuMask[n]
        BY <4>3 DEF CpuExclusive, OnNode
      <4>6. Cardinality(F) = k * s
        BY <2>1, <4>3 DEF Even, SetsShareCpus
      <4> QED
        BY <4>4, <4>5, <4>6
    <3> QED
      BY <3>1, <3>2
  <2>7. Cardinality(cpuMask'[n]) + slot'[n] = Capacity[n]
    <3>1. /\ IsFiniteSet(cpuMask[n]) /\ Cardinality(cpuMask[n]) \in Nat
          /\ Cardinality(cpuMask[n]) + slot[n] = Capacity[n]
      BY FreeCpus DEF Even, MarksAreSlots
    <3>2. cpuMask[n] \cap F = F
      BY <2>6
    <3>3. Cardinality(cpuMask[n] \ F) = Cardinality(cpuMask[n]) - Cardinality(cpuMask[n] \cap F)
      BY <3>1, FS_Difference
    <3>4. Cardinality(cpuMask'[n]) = Cardinality(cpuMask[n]) - k * s
      BY <2>5, <2>6, <3>2, <3>3
    <3> QED
      BY <2>2, <3>1, <3>4
  <2>8. slot'[n] + SumFunction(ShareOf(n)') = Capacity[n]
    <3>1. PICK f : f = ShareOf(n)
      OBVIOUS
    <3>2. PICK g : g = ShareOf(n)'
      OBVIOUS
    <3>3. DOMAIN f = Holder /\ DOMAIN g = Holder
      BY <3>1, <3>2 DEF ShareOf
    <3>4. \A x \in Holder : f[x] \in Int
      <4> SUFFICES ASSUME NEW x \in Holder PROVE f[x] \in Int
        OBVIOUS
      <4>1. Cardinality(OnNode(x, n)) \in Nat
        <5>1. OnNode(x, n) \in SUBSET Container
          BY DEF ClusterTypeOK, OnNode
        <5> QED
          BY <5>1, ContainersFinite
      <4>2. demand[x].slotPerContainer \in Nat
        BY ClusterAssumption DEF ClusterTypeOK, NoDemand
      <4> QED
        BY <3>1, <4>1, <4>2 DEF ShareOf
    <3>5. g[h] = 0
      <4>1. Cardinality(OnNode(h, n)') = 0 /\ demand'[h].slotPerContainer = 0
        BY <1>2, <1>4, FS_EmptySet DEF NoDemand
      <4>2. g[h] = Cardinality(OnNode(h, n)') * demand'[h].slotPerContainer
        BY <3>2 DEF ShareOf
      <4> QED
        BY <4>1, <4>2
    <3>6. f[h] = k * s
      BY <1>1, <2>1, <3>1 DEF ShareOf
    <3>7. \A x \in Holder \ {h} : g[x] = f[x]
      BY <1>2, <1>4, <3>1, <3>2 DEF ShareOf
    <3>8. SumFunctionOnSet(g, Holder) = SumFunctionOnSet(f, Holder) - f[h] + g[h]
      <4>1. g[h] \in Int
        BY <3>5
      <4> QED
        BY <3>4, <3>7, <4>1, SumChange
    <3>9. SumFunctionOnSet(f, Holder) \in Int
      BY <3>4, SumType
    <3>10. slot[n] + SumFunctionOnSet(f, Holder) = Capacity[n]
      BY <3>1, <3>3 DEF Even, SharesAddUp, SumFunction
    <3>11. SumFunction(ShareOf(n)') = SumFunctionOnSet(g, Holder)
      BY <3>2, <3>3 DEF SumFunction
    <3> QED
      BY <2>2, <3>5, <3>6, <3>8, <3>9, <3>10, <3>11
  <2>9. ASSUME NEW cpu \in cpuMask'[n]
        PROVE  \E g \in Holder : \E c \in OnNode(g, n)' : cpu \in c.cpuSet
    <3>1. PICK g \in Holder : \E c \in OnNode(g, n) : cpu \in c.cpuSet
      BY <2>5 DEF Even, MarksOwned
    <3>2. g # h
      BY <2>5, <2>6, <3>1
    <3> QED
      BY <1>4, <3>1, <3>2
  <2> QED
    BY <2>3, <2>7, <2>8, <2>9
<1>6. WholeSlots(s)' /\ MarksAreSlots' /\ MarksOwned'
  BY <1>5 DEF WholeSlots, MarksAreSlots, MarksOwned, Capacity, Multiples
<1>7. SharesAddUp'
  BY <1>5 DEF SharesAddUp, Capacity
<1>8. SetsShareCpus(s)'
  BY <1>2, <1>4 DEF Even, SetsShareCpus
<1> QED
  BY <1>6, <1>7, <1>8 DEF Even

\* An empty ledger is even.
LEMMA EvenInit ==
  ASSUME NEW s, WholeContainers(s), IsFiniteSet(Holder), ClusterInit
  PROVE  Even(s)
<1>1. Cardinality({}) = 0
  BY FS_EmptySet
<1>2. \A h \in Holder, n \in Node : OnNode(h, n) = {}
  BY DEF ClusterInit, OnNode
<1>3. ASSUME NEW n \in Node
      PROVE  slot[n] + SumFunction(ShareOf(n)) = Capacity[n]
  <2>1. PICK f : f = ShareOf(n)
    OBVIOUS
  <2>2. DOMAIN f = Holder /\ \A h \in Holder : f[h] = 0 /\ f[h] \in Int /\ f[h] = f[h] * 0
    <3>1. DOMAIN f = Holder
      BY <2>1 DEF ShareOf
    <3>2. ASSUME NEW h \in Holder
          PROVE  f[h] = 0
      <4>1. Cardinality(OnNode(h, n)) = 0 /\ demand[h].slotPerContainer = 0
        BY <1>1, <1>2 DEF ClusterInit, NoDemand
      <4> QED
        BY <2>1, <4>1 DEF ShareOf
    <3> QED
      BY <3>1, <3>2
  <2>3. SumFunctionOnSet(f, Holder) = SumFunctionOnSet(f, Holder) * 0
    BY <2>2, SumTimes
  <2>4. SumFunctionOnSet(f, Holder) \in Int
    BY <2>2, SumType
  <2>5. SumFunction(ShareOf(n)) = 0
    BY <2>1, <2>2, <2>3, <2>4 DEF SumFunction
  <2>6. slot[n] = Capacity[n] /\ Capacity[n] \in Int
    BY ClusterAssumption DEF ClusterInit, Capacity
  <2> QED
    BY <2>5, <2>6
<1>4. MarksAreSlots
  <2>1. \A n \in Node : slot[n] = Capacity[n] /\ Capacity[n] \in Int /\ cpuMask[n] = {}
    BY ClusterAssumption DEF ClusterInit, Capacity
  <2>2. \A n \in Node : Cardinality(cpuMask[n]) = 0
    BY <1>1, <2>1
  <2> QED
    BY <2>1, <2>2 DEF MarksAreSlots
<1>5. WholeSlots(s) /\ MarksOwned /\ SharesAddUp
  BY <1>3 DEF ClusterInit, WholeSlots, WholeContainers, MarksOwned, SharesAddUp
<1>6. SetsShareCpus(s)
  BY <1>2 DEF SetsShareCpus, ClusterInit
<1> QED
  BY <1>4, <1>5, <1>6 DEF Even

\* The ledger is even in every state.
LEMMA EvenKept ==
  ASSUME NEW s, WholeContainers(s), IsFiniteSet(Holder)
  PROVE  ClusterSpec => []Even(s)
<1>1. ClusterInit => Even(s)
  BY EvenInit
<1>2. ASSUME Books, CpuExclusive, Even(s), [ClusterNext]_clusterVars
      PROVE  Even(s)'
  <2>1. CASE \E h \in Holder, d \in Demand : granted[h] = {} /\ Get(h, d)
    BY <1>2, <2>1, GetEven DEF Books
  <2>2. CASE UNCHANGED << slot, cpuMask, granted, demand >>
    BY <1>2, <2>2 DEF Even, WholeSlots, SetsShareCpus, MarksAreSlots, SharesAddUp, MarksOwned,
                      ShareOf, OnNode, Capacity, Multiples
  <2>3. CASE \E h \in Holder : Put(h)
    BY <1>2, <2>3, PutEven DEF Books
  <2> QED
    BY <1>2, <2>1, <2>2, <2>3 DEF ClusterNext, GetPanics, clusterVars
<1> QED
  BY <1>1, <1>2, BooksKept, NoCpuGrantedTwice, PTL DEF ClusterSpec

\* With whole containers and shared CPUs Put gives back exactly what Get took,
\* after any sequence of grants and recycles: slots, ports and CPUs.
THEOREM PutGivesBack ==
  ASSUME NEW s, WholeContainers(s), IsFiniteSet(Holder)
  PROVE  ClusterSpec => []NothingLost
<1>1. ASSUME Books, CpuExclusive, PortsFound, Even(s)
      PROVE  NothingLost
  <2>1. ASSUME NEW n \in Node
        PROVE  ToSet(ports[n]) \cup { a.port : a \in { b \in UNION { Addresses(h) : h \in Holder } :
                                                         b.ip = n } } = Port
    <3>1. ports[n] \in Seq(Port) /\ ToSet(ports[n]) = { ports[n][i] : i \in 1 .. Len(ports[n]) }
      BY <1>1 DEF Books, ClusterTypeOK, ToSet
    <3>2. \A h \in Holder : Addresses(h) \subseteq Address
      BY <1>1 DEF Books, ClusterTypeOK, Addresses, AddressOf, Container, Address
    <3>3. ASSUME NEW p \in Port
          PROVE  \/ p \in ToSet(ports[n])
                 \/ \E h \in Holder : \E a \in Addresses(h) : a.ip = n /\ a.port = p
      BY <1>1, <3>1 DEF PortsFound, Found
    <3> QED
      BY <3>1, <3>2, <3>3 DEF Address
  <2>2. ASSUME NEW n \in Node
        PROVE  cpuMask[n] = UNION { c.cpuSet : c \in Held(n) }
    <3>1. \A h \in Holder : \A c \in OnNode(h, n) : c.cpuSet \subseteq cpuMask[n]
      BY <1>1 DEF CpuExclusive, OnNode
    <3>2. \A cpu \in cpuMask[n] : \E h \in Holder : \E c \in OnNode(h, n) : cpu \in c.cpuSet
      BY <1>1 DEF Even, MarksOwned
    <3> QED
      BY <3>1, <3>2 DEF Held
  <2>3. \A n \in Node :
          slot[n] + SumFunction([h \in Holder |-> Cardinality(OnNode(h, n))
                                                    * demand[h].slotPerContainer]) = Capacity[n]
    BY <1>1 DEF Even, SharesAddUp, ShareOf
  <2> QED
    BY <1>1, <2>1, <2>2, <2>3 DEF NothingLost, Books, BooksBalance
<1> QED
  BY <1>1, BooksKept, NoCpuGrantedTwice, PortsKept, EvenKept, PTL

\* The cores of a set are counted host by host: as many on each as its
\* containers there have slots.
LEMMA CoresByPlace ==
  ASSUME NEW s, WholeContainers(s), ClusterTypeOK, Even(s), NEW h \in Holder
  PROVE  Cardinality(UNION { { << c.ip, cpu >> : cpu \in c.cpuSet } : c \in granted[h] })
           = Cardinality(granted[h]) * s
<1>1. s \in Nat \ {0}
  BY DEF WholeContainers
<1>2. PICK S \in SUBSET Container : S = granted[h]
  BY DEF ClusterTypeOK
<1>3. PICK count : count = CountAt(S)
  OBVIOUS
<1>4. PICK room : room = [n \in Node |-> count[n] * s]
  OBVIOUS
<1> DEFINE Cores(T) == UNION { { << c.ip, cpu >> : cpu \in c.cpuSet } : c \in { b \in S : b.ip \in T } }
           Q == { T \in SUBSET Node : /\ IsFiniteSet(Cores(T))
                                      /\ Cardinality(Cores(T)) = SumFunctionOnSet(room, T) }
<1>5. \A n \in Node : count[n] \in Nat /\ room[n] = count[n] * s /\ room[n] \in Int
  <2> SUFFICES ASSUME NEW n \in Node
               PROVE  count[n] \in Nat /\ room[n] = count[n] * s /\ room[n] \in Int
    OBVIOUS
  <2>1. At(S, n) \in SUBSET Container
    BY DEF At
  <2>2. count[n] \in Nat
    BY <1>3, <2>1, ContainersFinite DEF CountAt
  <2>3. room[n] = count[n] * s
    BY <1>4
  <2> QED
    BY <1>1, <2>2, <2>3
<1>6. {} \in Q
  <2>1. Cores({}) = {}
    OBVIOUS
  <2>2. IsFiniteSet({}) /\ Cardinality({}) = 0 /\ SumFunctionOnSet(room, {}) = 0
    BY FS_EmptySet, SumEmpty
  <2> HIDE DEF Cores
  <2>3. IsFiniteSet(Cores({})) /\ Cardinality(Cores({})) = SumFunctionOnSet(room, {})
    BY <2>1, <2>2
  <2> QED
    BY <2>3
<1>7. ASSUME NEW n \in Node
      PROVE  /\ IsFiniteSet(Cores({n}))
             /\ Cardinality(Cores({n})) = room[n]
  <2>1. At(S, n) = OnNode(h, n)
    BY <1>2 DEF At, OnNode
  <2>2. CASE OnNode(h, n) = {}
    <3>1. Cores({n}) = {}
      BY <2>1, <2>2 DEF At
    <3>2. IsFiniteSet({}) /\ Cardinality({}) = 0
      BY FS_EmptySet
    <3>3. count[n] = 0
      BY <1>3, <2>1, <2>2, <3>2 DEF CountAt
    <3>4. room[n] = 0
      BY <1>1, <1>5, <3>3
    <3> HIDE DEF Cores
    <3> QED
      BY <3>1, <3>2, <3>4
  <2>3. CASE OnNode(h, n) # {}
    <3>1. PICK c \in OnNode(h, n) : TRUE
      BY <2>3
    <3>2. PICK C \in SUBSET Cpu : C = c.cpuSet
      BY <1>2, <2>1, <3>1 DEF At, Container
    <3>3. \A b \in OnNode(h, n) : b.cpuSet = C
      BY <3>1, <3>2 DEF Even, SetsShareCpus, OnNode
    <3>4. Cores({n}) = { << n, cpu >> : cpu \in C }
      BY <2>1, <3>1, <3>3 DEF At
    <3>5. IsFiniteSet(C)
      <4>1. 0 \in Int /\ MaxSlotPerNode - 1 \in Int
        BY ClusterAssumption
      <4>2. IsFiniteSet(0 .. MaxSlotPerNode - 1)
        BY <4>1, FS_Interval
      <4> QED
        BY <4>2, FS_Subset DEF Cpu
    <3>6. [cpu \in C |-> << n, cpu >>] \in Bijection(C, { << n, cpu >> : cpu \in C })
      BY DEF Bijection, Injection, IsInjective, Surjection
    <3>7. ExistsBijection(C, { << n, cpu >> : cpu \in C })
      BY <3>6 DEF ExistsBijection
    <3>8. /\ IsFiniteSet({ << n, cpu >> : cpu \in C })
          /\ Cardinality({ << n, cpu >> : cpu \in C }) = Cardinality(C)
      BY <3>5, <3>7, FS_Bijection
    <3>9. Cardinality(C) = count[n] * s
      BY <1>3, <2>1, <3>1, <3>2 DEF Even, SetsShareCpus, CountAt
    <3> HIDE DEF Cores
    <3> QED
      BY <1>5, <3>4, <3>8, <3>9
  <2> QED
    BY <2>2, <2>3
<1>8. ASSUME NEW T \in SUBSET Node, NEW n \in Node \ T, T \in Q
      PROVE  T \cup {n} \in Q
  <2>1. Cores(T \cup {n}) = Cores(T) \cup Cores({n}) /\ Cores(T) \cap Cores({n}) = {}
    OBVIOUS
  <2>2. IsFiniteSet(Cores(T)) /\ Cardinality(Cores(T)) = SumFunctionOnSet(room, T)
    BY <1>8
  <2> HIDE DEF Cores
  <2>3. IsFiniteSet(Cores({n})) /\ Cardinality(Cores({n})) = room[n]
    BY <1>7
  <2>4. /\ IsFiniteSet(Cores(T) \cup Cores({n}))
        /\ Cardinality(Cores(T) \cup Cores({n}))
             = Cardinality(Cores(T)) + Cardinality(Cores({n})) - Cardinality(Cores(T) \cap Cores({n}))
    BY <2>2, <2>3, FS_Union
  <2>5. Cardinality(Cores(T) \cap Cores({n})) = 0
    BY <2>1, FS_EmptySet
  <2>6. IsFiniteSet(T)
    BY FS_Subset, ClusterAssumption
  <2>7. SumFunctionOnSet(room, T) \in Int
    <3>1. Int \in {Nat, Int} /\ \A x \in T : room[x] \in Int
      BY <1>5
    <3> QED
      BY <2>6, <3>1, SumType
  <2>8. SumFunctionOnSet(room, T \cup {n}) = room[n] + SumFunctionOnSet(room, T)
    <3>1. \A x \in T \cup {n} : room[x] \in Int
      BY <1>5
    <3> QED
      BY <2>6, <3>1, SumAdd
  <2>9. /\ IsFiniteSet(Cores(T \cup {n}))
        /\ Cardinality(Cores(T \cup {n})) = SumFunctionOnSet(room, T \cup {n})
    <3>1. IsFiniteSet(Cores(T \cup {n}))
      BY <2>1, <2>4
    <3>2. Cardinality(Cores(T \cup {n})) = Cardinality(Cores(T) \cup Cores({n}))
      BY <2>1
    <3>3. Cardinality(Cores(T) \cup Cores({n})) = SumFunctionOnSet(room, T) + room[n]
      BY <1>5, <2>2, <2>3, <2>4, <2>5, <2>7
    <3> QED
      BY <1>5, <2>7, <2>8, <3>1, <3>2, <3>3
  <2> QED
    BY <2>9
<1>9. Node \in Q
  <2> HIDE DEF Q
  <2>1. \A T \in SUBSET Node : \A n \in Node \ T : T \in Q => T \cup {n} \in Q
    BY <1>8
  <2>2. IsFiniteSet(Node)
    BY ClusterAssumption
  <2>3. \A T \in SUBSET Node : T \in Q
    BY <1>6, <2>1, <2>2, SetInduction
  <2> QED
    BY <2>3
<1>10. SumFunctionOnSet(room, Node) = Cardinality(S) * s
  <2>1. SumFunctionOnSet(room, Node) = SumFunctionOnSet(count, Node) * s
    BY <1>1, <1>5, SumTimes, ClusterAssumption
  <2>2. SumFunctionOnSet(count, Node) = Cardinality(S)
    BY <1>3, CountByPlace
  <2> QED
    BY <2>1, <2>2
<1>11. Cores(Node) = UNION { { << c.ip, cpu >> : cpu \in c.cpuSet } : c \in granted[h] }
  BY <1>2 DEF Container
<1>12. Cardinality(Cores(Node)) = SumFunctionOnSet(room, Node)
  BY <1>9
<1> HIDE DEF Cores
<1> QED
  BY <1>2, <1>10, <1>11, <1>12

\* README.md's "each graph partition a distinct CPU core": a set has at least
\* PARTITION of them, over all hosts and whatever was granted before.
THEOREM EachPartitionItsCore ==
  ASSUME NEW s, WholeContainers(s), IsFiniteSet(Holder)
  PROVE  ClusterSpec => []EachPartitionHasCore
<1>1. ASSUME Books, Even(s)
      PROVE  EachPartitionHasCore
  <2> SUFFICES ASSUME NEW h \in Holder
               PROVE  Cardinality(UNION { { << c.ip, cpu >> : cpu \in c.cpuSet } : c \in granted[h] })
                        >= demand[h].partition
    BY DEF EachPartitionHasCore
  <2>1. PICK m : m = Cardinality(UNION { { << c.ip, cpu >> : cpu \in c.cpuSet } : c \in granted[h] })
    OBVIOUS
  <2>2. m = Cardinality(granted[h]) * s
    BY <1>1, <2>1, CoresByPlace DEF Books
  <2>3. Cardinality(granted[h]) \in Nat /\ s \in Nat
    <3>1. granted[h] \in SUBSET Container
      BY <1>1 DEF Books, ClusterTypeOK
    <3> QED
      BY <3>1, ContainersFinite DEF WholeContainers
  <2>4. CASE granted[h] = {}
    <3>1. demand[h].partition = 0
      BY <1>1, <2>4 DEF Books, Demanded, NoDemand
    <3>2. m \in Nat
      BY <2>2, <2>3
    <3> QED
      BY <2>1, <3>1, <3>2
  <2>5. CASE granted[h] # {}
    <3>1. demand[h] \in Demand /\ TotalSlot(demand[h]) <= Cardinality(granted[h]) * demand[h].slotPerContainer
      BY <1>1, <2>5 DEF Books, Demanded, EnoughSlots
    <3>2. demand[h].slotPerContainer = s /\ demand[h].partition \in Nat
      BY <3>1, ClusterAssumption DEF WholeContainers
    <3>3. TotalSlot(demand[h]) >= demand[h].partition
      BY <3>2 DEF TotalSlot
    <3>4. TotalSlot(demand[h]) \in Nat /\ TotalSlot(demand[h]) <= m
      BY <2>2, <3>1, <3>2, DemandType
    <3>5. m \in Nat
      BY <2>2, <2>3
    <3> QED
      BY <2>1, <3>2, <3>3, <3>4, <3>5
  <2> QED
    BY <2>4, <2>5
<1> QED
  BY <1>1, BooksKept, EvenKept, PTL

\* A host of no free slots is reached only by a Get that has all it wants.
LEMMA ReachedHasSlots ==
  ASSUME ClusterTypeOK, NEW pos \in SortedPositions, NEW total \in Nat,
         NEW rest \in Fills(pos, total), total <= SumFunctionOnSet(slot, Node),
         NEW n \in Node, rest[pos[n] - 1] > 0
  PROVE  slot[n] # 0
<1> SUFFICES ASSUME slot[n] = 0 PROVE FALSE
  OBVIOUS
<1>1. /\ pos \in [Node -> 1 .. NodeCount] /\ NodeCount \in Nat
      /\ \A m \in Node : m # n => (slot[m] > slot[n] => pos[m] < pos[n])
  BY NodeCountType DEF SortedPositions
<1>2. rest \in [0 .. NodeCount -> 0 .. total]
  BY DEF Fills
<1>3. PICK i \in 0 .. NodeCount : i = pos[n] - 1
  BY <1>1
<1>4. PICK used : used = Used(pos, rest)
  OBVIOUS
<1>5. ASSUME NEW m \in Node
      PROVE  /\ used[m] \in Int
             /\ pos[m] > i => used[m] = 0
  <2>1. UseSlot(pos, rest, m) \in 0 .. slot[m] /\ slot[m] \in Nat
    BY UseSlotBounds DEF ClusterTypeOK
  <2>2. used[m] = UseSlot(pos, rest, m)
    BY <1>4 DEF Used
  <2>3. pos[m] > i => slot[m] = 0
    <3>1. pos[m] \in Int /\ pos[n] \in Int
      BY <1>1
    <3> QED
      BY <1>1, <1>3, <2>1, <3>1
  <2> QED
    BY <2>1, <2>2, <2>3
<1>6. PICK T \in SUBSET Node : T = Reached(pos, i)
  BY DEF Reached
<1>7. \A m \in Node \ T : used[m] = 0
  BY <1>1, <1>5, <1>6 DEF Reached
<1>8. SumFunctionOnSet(used, Node) = SumFunctionOnSet(used, T)
  BY <1>5, <1>7, SumZeros, ClusterAssumption
<1>9. SumFunctionOnSet(used, T) = total - rest[i]
  BY <1>4, <1>6, WalkSums
<1>10. SumFunctionOnSet(used, Node) = total
  BY <1>4, GetFindsAll
<1>11. rest[i] \in 0 .. total /\ rest[i] > 0
  BY <1>2, <1>3
<1> QED
  BY <1>8, <1>9, <1>10, <1>11

\* The panics of Get, which stop the controller for good, come only from a host
\* that has run out of ports; never for want of a slot or of a CPU.
THEOREM PanicsForPortsOnly ==
  ASSUME NEW s, WholeContainers(s), IsFiniteSet(Holder)
  PROVE  ClusterSpec => PanicsOnlyForPorts
<1>1. ASSUME Books, Even(s), NEW d \in Demand, GetPanics(d)
      PROVE  \E n \in Node : Len(ports[n]) <= slot[n] \div d.slotPerContainer
  <2>1. /\ s \in Nat \ {0} /\ d.slotPerContainer = s
        /\ TotalSlot(d) \in Multiples(s) /\ TotalSlot(d) \in Nat
    BY DemandType DEF WholeContainers
  <2>2. PICK pos \in SortedPositions : \E rest \in Fills(pos, TotalSlot(d)) :
          \E n \in Node : PanicsAt(pos, rest, s, n)
    BY <1>1, <2>1 DEF GetPanics
  <2>3. PICK rest \in Fills(pos, TotalSlot(d)) : \E n \in Node : PanicsAt(pos, rest, s, n)
    BY <2>2
  <2>4. PICK n \in Node : PanicsAt(pos, rest, s, n)
    BY <2>3
  <2>5. PICK k \in Nat : /\ k = NewContainers(pos, rest, s, n)
                         /\ UseSlot(pos, rest, n) = k * s
    BY <1>1, <2>1, WholeWalk DEF Books, Even, WholeSlots
  <2>6. slot[n] \in Nat /\ k * s <= slot[n] /\ k * s \in Nat
    <3>1. slot[n] \in Nat
      BY <1>1 DEF Books, ClusterTypeOK
    <3>2. UseSlot(pos, rest, n) \in 0 .. slot[n]
      BY <1>1, <2>1, UseSlotBounds DEF Books
    <3> QED
      BY <2>5, <3>1, <3>2
  <2>7. k <= slot[n] \div s
    <3>1. PICK q \in Nat : q = slot[n] \div s
      BY <2>1, <2>6
    <3>2. slot[n] < (q + 1) * s
      BY <2>1, <2>6, <3>1
    <3>3. k * s < (q + 1) * s
      BY <2>1, <2>6, <3>2
    <3>4. k < q + 1
      BY <2>1, <3>3
    <3> QED
      BY <3>1, <3>4
  <2>8. k # 0
    <3>1. rest[pos[n] - 1] > 0
      BY <2>4 DEF PanicsAt
    <3>2. TotalSlot(d) <= SumFunctionOnSet(slot, Node)
      BY <1>1, SumOfSlots DEF Books, BooksBalance, GetPanics
    <3>3. slot[n] # 0
      BY <1>1, <2>1, <3>1, <3>2, ReachedHasSlots DEF Books
    <3> SUFFICES ASSUME k = 0 PROVE FALSE
      OBVIOUS
    <3>4. UseSlot(pos, rest, n) = 0
      BY <2>1, <2>5
    <3>5. /\ pos[n] \in 1 .. NodeCount /\ rest[pos[n] - 1] \in 0 .. TotalSlot(d)
      BY <1>1, <2>1, UseSlotBounds DEF Books
    <3>6. rest[pos[n]] = IF rest[pos[n] - 1] < slot[n] THEN 0 ELSE rest[pos[n] - 1] - slot[n]
      BY DEF Fills
    <3> QED
      BY <2>6, <3>1, <3>3, <3>4, <3>5, <3>6 DEF UseSlot
  <2>9. CpuArr(n, s, k - 1) # {}
    <3>1. /\ IsFiniteSet(FreeCpu(n)) /\ Cardinality(FreeCpu(n)) \in Nat
          /\ slot[n] <= Cardinality(FreeCpu(n))
      BY <1>1, FreeCpus DEF Books, Even
    <3>2. k - 1 \in Nat /\ (k - 1) * s < k * s
      BY <2>1, <2>8
    <3>3. (k - 1) * s \in Nat
      BY <2>1, <3>2
    <3>4. Cardinality(CpuStr(n, s, k)) = k * s
      BY <2>1, <2>6, <3>1, CpuStrSize
    <3>5. Cardinality(CpuStr(n, s, k - 1)) = (k - 1) * s
      <4>1. PICK j \in Nat : j = k - 1
        BY <3>2
      <4>2. j * s <= Cardinality(FreeCpu(n))
        BY <2>6, <3>1, <3>2, <3>3, <4>1
      <4>3. Cardinality(CpuStr(n, s, j)) = j * s
        BY <2>1, <3>1, <4>2, CpuStrSize
      <4> QED
        BY <4>1, <4>3
    <3>6. CpuStr(n, s, k) = CpuStr(n, s, k - 1) \cup CpuArr(n, s, k - 1)
      <4>1. 0 .. k - 1 = (0 .. (k - 1) - 1) \cup {k - 1}
        BY <2>8
      <4> QED
        BY <4>1 DEF CpuStr
    <3> SUFFICES ASSUME CpuArr(n, s, k - 1) = {} PROVE FALSE
      OBVIOUS
    <3>7. CpuStr(n, s, k) = CpuStr(n, s, k - 1)
      BY <3>6
    <3> QED
      BY <2>6, <3>2, <3>3, <3>4, <3>5, <3>7
  <2>10. PortsTaken(pos, n, k) > Len(ports[n]) /\ PortsTaken(pos, n, k) \in {k, k + 1}
    BY <2>4, <2>5, <2>8, <2>9 DEF PanicsAt, PortsTaken
  <2>11. Len(ports[n]) <= k
    <3>1. Len(ports[n]) \in Nat
      BY <1>1 DEF Books, ClusterTypeOK
    <3> QED
      BY <2>10, <3>1
  <2>12. Len(ports[n]) <= slot[n] \div s
    <3>1. Len(ports[n]) \in Nat /\ slot[n] \div s \in Int
      BY <1>1, <2>1, <2>6 DEF Books, ClusterTypeOK
    <3> QED
      BY <2>7, <2>11, <3>1
  <2> QED
    BY <2>1, <2>12
<1>2. ASSUME Books, Even(s), [ClusterNext]_clusterVars
      PROVE  [ clusterLock' # clusterLock =>
                 \E n \in Node, d \in Demand :
                   Len(ports[n]) <= slot[n] \div d.slotPerContainer ]_clusterVars
  <2>1. CASE \E d \in Demand : GetPanics(d)
    BY <1>1, <1>2, <2>1
  <2>2. CASE clusterLock' = clusterLock
    BY <2>2
  <2> QED
    BY <1>2, <2>1, <2>2 DEF ClusterNext, Get, Put, clusterVars
<1> QED
  BY <1>2, BooksKept, EvenKept, PTL DEF ClusterSpec, PanicsOnlyForPorts
===============================================================================
