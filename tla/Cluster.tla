------------------------------- MODULE Cluster -------------------------------
(***************************************************************************)
(* The cluster ledger of faas_controller (src/faas/cluster.go): how many   *)
(* slots, which ports and which CPUs of every node are free, and what each *)
(* container set was granted.  Get and Put run under one mutex, so each is *)
(* one action; a panic inside Get leaves that mutex locked for good,       *)
(* because net/http recovers the handler and nothing unlocks it.           *)
(***************************************************************************)
EXTENDS Integers, SequencesExt

CONSTANTS
  Node,              \* the worker hosts (common.WorkerList)
  MaxSlotPerNode,    \* MAX_SLOT_PER_NODE: CPUs of every host
  CurrentTakenSlot,  \* CURRERNT_TAKEN_SLOT: slots of each host taken from the start
  ShareCpu,          \* SHARE_CPU
  LowPort, HighPort, \* LOW_PORT_NUMBER and HIGH_PORT_NUMBER
  LocalManagerPort,  \* the port every local_manager listens on
  Holder,            \* identities of container sets
  Demand             \* [slotPerContainer, partition] pairs the applications ask for

ASSUME ClusterAssumption ==
  /\ IsFiniteSet(Node) /\ Node # {}
  /\ MaxSlotPerNode \in Nat \ {0}
  /\ CurrentTakenSlot \in [Node -> 0 .. MaxSlotPerNode]
  /\ ShareCpu \in BOOLEAN
  /\ LowPort \in Nat /\ HighPort \in Nat /\ LowPort <= HighPort
  /\ Demand \subseteq [slotPerContainer : Nat \ {0}, partition : Nat \ {0}]

VARIABLES
  clusterLock,  \* "free", or "stuck" after a panic with cond.L held
  currentSlot,  \* Cluster.currentSlot
  slot,         \* Node.slot of every node
  ports,        \* Node.ports: the free ports, taken at the head, returned at the tail
  cpuMask,      \* Node.cpuMask: the CPUs marked as in use
  granted,      \* the containers of every set: address and cpuset
  coordinator,  \* the coordinator address of every set (no or one element)
  demand        \* functionInfo and PARTITION of every set that holds a grant

clusterVars == << clusterLock, currentSlot, slot, ports, cpuMask,
                  granted, coordinator, demand >>

Cpu == 0 .. MaxSlotPerNode - 1
Port == LowPort .. HighPort
Container == [ip : Node, port : Port, cpuSet : SUBSET Cpu]
Address == [ip : Node, port : Port]
NoDemand == [slotPerContainer |-> 0, partition |-> 0]

\* The CPUs the scan of cpuMask finds.  Faulty: CPUs counted from 1; marks ignored.
FreeCpuFromOne(n) == (1 .. MaxSlotPerNode) \ cpuMask[n]
FreeCpuUnmasked(n) == Cpu
FreeCpu(n) == Cpu \ cpuMask[n]
OnNode(h, n) == { c \in granted[h] : c.ip = n }

-----------------------------------------------------------------------------
(***************************************************************************)
(* Get.  The nodes are sorted by free slots, largest first; sort.Slice is  *)
(* not stable, so every order of equal nodes is allowed.  pos[n] is the    *)
(* place of n in that order, rest[i] what is still wanted after i nodes.   *)
(***************************************************************************)
NodeCount == Cardinality(Node)

SortedPositions ==
  { pos \in [Node -> 1 .. NodeCount] :
      \A m, n \in Node : m # n => /\ pos[m] # pos[n]
                                  /\ slot[m] > slot[n] => pos[m] < pos[n] }

TotalSlot(d) == IF d.partition < 2 THEN 2 ELSE d.partition

\* useSlot := min(node.slot, totalSlotRet), node after node.
Fills(pos, total) ==
  { rest \in [0 .. NodeCount -> 0 .. total] :
      /\ rest[0] = total
      /\ \A n \in Node :
           rest[pos[n]] = IF rest[pos[n] - 1] < slot[n]
                            THEN 0
                            ELSE rest[pos[n] - 1] - slot[n] }

UseSlot(pos, rest, n) == rest[pos[n] - 1] - rest[pos[n]]

\* Iterations of "for i := 0; i < useSlot; i += slotPerContainer".
NewContainers(pos, rest, spc, n) == (UseSlot(pos, rest, n) + spc - 1) \div spc

\* The i-th new container of n takes the next slotPerContainer free CPUs,
\* or the fewer that are left.
Rank(n, cpu) == Cardinality({ c \in FreeCpu(n) : c < cpu })
\* Faulty: one CPU too few.
CpuArrShort(n, spc, i) == { cpu \in FreeCpu(n) : Rank(n, cpu) \in i * spc .. (i + 1) * spc - 2 }
CpuArr(n, spc, i) == { cpu \in FreeCpu(n) : Rank(n, cpu) \in i * spc .. (i + 1) * spc - 1 }
CpuStr(n, spc, k) == UNION { CpuArr(n, spc, i) : i \in 0 .. k - 1 }

\* Ports taken from n: one per container and, on the first node, one for
\* the coordinator.  Faulty: the coordinator's port is not removed.
PortsTakenByWorkers(pos, n, k) == k
PortsTaken(pos, n, k) == IF pos[n] = 1 THEN k + 1 ELSE k

\* A node the loop reaches makes Get index an empty port list, or cut the
\* trailing comma off an empty cpu list.
PanicsAt(pos, rest, spc, n) ==
  LET k == NewContainers(pos, rest, spc, n)
  IN  /\ rest[pos[n] - 1] > 0
      /\ \/ k = 0
         \/ PortsTaken(pos, n, k) > Len(ports[n])
         \/ CpuArr(n, spc, k - 1) = {}

NewGrant(pos, rest, spc, n) ==
  LET k == NewContainers(pos, rest, spc, n)
  IN  { [ip |-> n, port |-> ports[n][i + 1],
         cpuSet |-> IF ShareCpu THEN CpuStr(n, spc, k) ELSE CpuArr(n, spc, i)]
        : i \in 0 .. k - 1 }

\* "return false": fewer slots are free than the request wants.
Refuses(d) == clusterLock = "free" /\ currentSlot < TotalSlot(d)

\* The writes of one Get, for one order of the nodes.
Take(h, pos, rest, spc) ==
  LET K(n) == NewContainers(pos, rest, spc, n)
  IN  /\ slot' = [n \in Node |-> slot[n] - UseSlot(pos, rest, n)]
      /\ cpuMask' = [n \in Node |-> cpuMask[n] \cup CpuStr(n, spc, K(n))]
      /\ ports' = [n \in Node |->
                     SubSeq(ports[n], PortsTaken(pos, n, K(n)) + 1, Len(ports[n]))]
      /\ granted' = [granted EXCEPT ![h] =
                       UNION { NewGrant(pos, rest, spc, n) : n \in Node }]
      /\ coordinator' = [coordinator EXCEPT ![h] =
                           { [ip |-> n, port |-> ports[n][K(n) + 1]]
                             : n \in { m \in Node : pos[m] = 1 } }]

Get(h, d) ==
  /\ clusterLock = "free"
  /\ currentSlot >= TotalSlot(d)
  /\ \E pos \in SortedPositions : \E rest \in Fills(pos, TotalSlot(d)) :
       /\ \A n \in Node : ~PanicsAt(pos, rest, d.slotPerContainer, n)
       /\ Take(h, pos, rest, d.slotPerContainer)
  /\ currentSlot' = currentSlot - TotalSlot(d)
  /\ demand' = [demand EXCEPT ![h] = d]
  /\ UNCHANGED clusterLock

\* What the panicking Get had already written is never read again: the lock
\* stays held, so only the lock changes here.
GetPanics(d) ==
  /\ clusterLock = "free"
  /\ currentSlot >= TotalSlot(d)
  /\ \E pos \in SortedPositions : \E rest \in Fills(pos, TotalSlot(d)) :
       \E n \in Node : PanicsAt(pos, rest, d.slotPerContainer, n)
  /\ clusterLock' = "stuck"
  /\ UNCHANGED << currentSlot, slot, ports, cpuMask, granted, coordinator, demand >>

-----------------------------------------------------------------------------
(***************************************************************************)
(* Put.  PutResource walks the containers map, so those of a node come in  *)
(* any order (walk[n]): their ports are returned in that order, and        *)
(* ipCpuSet keeps one cpuset per node, that of the container met last.     *)
(***************************************************************************)
Walks(h) ==
  { walk \in [Node -> UNION { SetToSeqs(OnNode(h, n)) : n \in Node }] :
      \A n \in Node : walk[n] \in SetToSeqs(OnNode(h, n)) }

WalkedPorts(w) == [i \in DOMAIN w |-> w[i].port]

\* Faulty: the coordinator's port is not returned.
CoordinatorPortLost(h, n) == << >>
CoordinatorPort(h, n) == IF \E a \in coordinator[h] : a.ip = n
                           THEN << (CHOOSE a \in coordinator[h] : a.ip = n).port >>
                           ELSE << >>

Returned(h, walk, n) == WalkedPorts(walk[n]) \o CoordinatorPort(h, n)

\* Faulty: the CPUs of the set stay marked.
FreedNoCpu(w) == {}
FreedCpu(w) == IF w = << >> THEN {} ELSE w[Len(w)].cpuSet

Put(h) ==
  LET spc == demand[h].slotPerContainer
  IN  /\ clusterLock = "free"
      /\ granted[h] # {}
      /\ \E walk \in Walks(h) :
           /\ ports' = [n \in Node |-> ports[n] \o Returned(h, walk, n)]
           /\ cpuMask' = [n \in Node |-> cpuMask[n] \ FreedCpu(walk[n])]
      /\ slot' = [n \in Node |-> slot[n] + Cardinality(OnNode(h, n)) * spc]
      /\ currentSlot' = currentSlot + Cardinality(granted[h]) * spc
      /\ granted' = [granted EXCEPT ![h] = {}]
      /\ coordinator' = [coordinator EXCEPT ![h] = {}]
      /\ demand' = [demand EXCEPT ![h] = NoDemand]
      /\ UNCHANGED clusterLock

-----------------------------------------------------------------------------
Capacity == [n \in Node |-> MaxSlotPerNode - CurrentTakenSlot[n]]

ClusterInit ==
  /\ clusterLock = "free"
  /\ slot = Capacity
  /\ currentSlot = SumFunction(Capacity)
  /\ ports = [n \in Node |-> [i \in 1 .. HighPort - LowPort + 1 |-> LowPort + i - 1]]
  /\ cpuMask = [n \in Node |-> {}]
  /\ granted = [h \in Holder |-> {}]
  /\ coordinator = [h \in Holder |-> {}]
  /\ demand = [h \in Holder |-> NoDemand]

\* The ledger on its own: sets are created and recycled in any order.
ClusterNext ==
  \/ \E h \in Holder, d \in Demand : granted[h] = {} /\ Get(h, d)
  \/ \E d \in Demand : GetPanics(d)
  \/ \E h \in Holder : Put(h)

ClusterSpec == ClusterInit /\ [][ClusterNext]_clusterVars

-----------------------------------------------------------------------------
\* Types of the ledger's fields; NothingLost says what number currentSlot is.
ClusterTypeOK ==
  /\ clusterLock \in {"free", "stuck"}
  /\ slot \in [Node -> Nat]
  /\ ports \in [Node -> Seq(Port)]
  /\ cpuMask \in [Node -> SUBSET Cpu]
  /\ granted \in [Holder -> SUBSET Container]
  /\ coordinator \in [Holder -> SUBSET Address]
  /\ demand \in [Holder -> Demand \cup {NoDemand}]

\* Two live container sets never run on the same CPU of the same host, nor two
\* containers of one set unless SHARE_CPU says so: the CPUs Get hands out stay
\* marked in cpuMask until that set's own Put.
CpuExclusive ==
  /\ \A h \in Holder : \A c \in granted[h] : c.cpuSet \subseteq cpuMask[c.ip]
  /\ \A g, h \in Holder : \A b \in granted[g], c \in granted[h] :
       b.ip = c.ip /\ (g # h \/ (b # c /\ ~ShareCpu)) => b.cpuSet \cap c.cpuSet = {}

\* No two containers or coordinators of a host are published on one port, and
\* no free list has a port twice or one that is still in use.
AddressOf(c) == [ip |-> c.ip, port |-> c.port]
Addresses(h) == { AddressOf(c) : c \in granted[h] } \cup coordinator[h]
PortExclusive ==
  /\ \A g, h \in Holder : g # h => Addresses(g) \cap Addresses(h) = {}
  /\ \A h \in Holder : \A b, c \in granted[h] : AddressOf(b) = AddressOf(c) => b = c
  /\ \A h \in Holder : \A c \in granted[h] : AddressOf(c) \notin coordinator[h]
  /\ \A h \in Holder : \A a \in Addresses(h) : \A i \in 1 .. Len(ports[a.ip]) :
       ports[a.ip][i] # a.port
  /\ \A n \in Node : \A i, j \in 1 .. Len(ports[n]) : ports[n][i] = ports[n][j] => i = j

\* Put gives back exactly what Get took: with the live sets' shares added, every
\* node has its capacity in slots, all its ports, and no CPU marked without an owner.
Held(n) == UNION { OnNode(h, n) : h \in Holder }
NothingLost ==
  /\ currentSlot = SumFunction(slot)
  /\ \A n \in Node :
       /\ slot[n] + SumFunction([h \in Holder |-> Cardinality(OnNode(h, n))
                                                    * demand[h].slotPerContainer])
            = Capacity[n]
       /\ ToSet(ports[n]) \cup { a.port : a \in { b \in UNION { Addresses(h) : h \in Holder } :
                                                    b.ip = n } } = Port
       /\ cpuMask[n] = UNION { c.cpuSet : c \in Held(n) }

\* After any sequence of grants and recycles Get panics, which blocks every later
\* request and recycle of the controller, only for want of ports: on a host with no
\* more free ports than containers its free slots could hold.  A slot counted as
\* free has a free CPU.
PanicsOnlyForPorts ==
  [][ clusterLock' # clusterLock =>
        \E n \in Node, d \in Demand :
          Len(ports[n]) <= slot[n] \div d.slotPerContainer ]_clusterVars

\* README.md: "we assign each graph partition a distinct CPU core".
EachPartitionHasCore ==
  \A h \in Holder :
    Cardinality(UNION { { << c.ip, cpu >> : cpu \in c.cpuSet } : c \in granted[h] })
      >= demand[h].partition

\* README.md: local_manager "will start the server in port 20000", on every
\* host, so no container may be published there.
ManagerPortIsReserved ==
  \A h \in Holder : \A a \in Addresses(h) : a.port # LocalManagerPort
=============================================================================
