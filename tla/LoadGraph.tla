------------------------------- MODULE LoadGraph -------------------------------
(***************************************************************************)
(* How a container set comes up and goes away (faas/container_set.go,      *)
(* faas/container.go), over the ledger of Cluster.  The containers of a    *)
(* grant and their coordinator are created concurrently: local_manager     *)
(* starts each in docker, the controller polls its /status and posts /init;*)
(* after a barrier the keys are loaded concurrently, one call for each     *)
(* word of START_NODES and up to MAX_SLOT_PER_CONTAINER in each container. *)
(* What the executors are told about each other is computed before, by a   *)
(* loop of its own.                                                        *)
(***************************************************************************)
EXTENDS Cluster

CONSTANT PartCounts  \* how many parts the splits of the graphs may have

ASSUME PartCountsAssumption == PartCounts \subseteq Nat \ {0}

VARIABLES
  list,     \* the ip and port arguments of LoadGraph: the containers in Get's order
  parts,    \* how many parts the split of a set's graph has
  loading,  \* the calls of load_key not answered yet, each a container and a word
  stage,    \* where each set is
  status,   \* the container docker runs at an address, and how far it has come
  created,  \* s.containers and s.Coordinator: the containers a set will destroy
  graphs    \* the keys of r.graphs of the executor at an address

setVars == << list, parts, stage, status, created, loading, graphs >>
vars == << clusterVars, setVars >>

SlotsPer(h) == demand[h].slotPerContainer
Least(i, j) == IF i < j THEN i ELSE j

\* START_NODES has PARTITION words: the first vertices of the parts, then TOTAL_NODE as often
\* as parts are missing.  A key is named by the first word that has it.
Word(h) == 0 .. demand[h].partition - 1
StartNode(h, w) == Least(w, parts[h])
Key(h) == { StartNode(h, w) : w \in Word(h) }
Once(h, k) == \A v, w \in Word(h) : StartNode(h, v) = k /\ StartNode(h, w) = k => v = w

\* Get appends the containers host by host, the coordinator's host first.
InGetOrder(h, l) ==
  /\ \A i, j, k \in DOMAIN l : i < j /\ j < k /\ l[i].ip = l[k].ip => l[j].ip = l[i].ip
  /\ \A a \in coordinator[h] : l[1].ip = a.ip

-----------------------------------------------------------------------------
(***************************************************************************)
(* The two assignments of keys to containers.                              *)
(***************************************************************************)
\* The first loop: "i += MAX_SLOT_PER_CONTAINER" has no effect inside a range loop, so the
\* i-th container comes in as often as it has slots and keys are left from i on.
\* Faulty: no look at what is left.
EntriesUncut(h, i) == SlotsPer(h)
Entries(h, i) == IF i - 1 < demand[h].partition
                   THEN Least(SlotsPer(h), demand[h].partition - (i - 1)) ELSE 0
ContainerAddrList(h) ==
  FlattenSeq([i \in DOMAIN list[h] |-> [j \in 1 .. Entries(h, i) |-> list[h][i]]])

\* The second loop: here i is a counter that does advance.  Faulty: it advances by one, as
\* the range does.
WordsByOne(h, i) == { w \in Word(h) : w \in (i - 1) .. (i - 2) + SlotsPer(h) }
WordsOf(h, i) == { w \in Word(h) : w \div SlotsPer(h) = i - 1 }
KeysOf(h, i) == { StartNode(h, w) : w \in WordsOf(h, i) }

\* keyContainer, which the coordinator finds the containers by, keeps the last container
\* that the loop has sent a key to.
KeyContainer(h, k) ==
  { i \in DOMAIN list[h] : /\ k \in KeysOf(h, i)
                           /\ \A j \in DOMAIN list[h] : k \in KeysOf(h, j) => j <= i }

\* createWriters without SHARE_MEMORY: the partition with key k streams to the address of
\* every entry whose word of the same index, which must exist, is another key.
EntryKey(h, i) == IF i - 1 \in Word(h) THEN StartNode(h, i - 1) ELSE -1
PushEntries(h, k) == { i \in DOMAIN ContainerAddrList(h) : EntryKey(h, i) # k }

-----------------------------------------------------------------------------
(***************************************************************************)
(* LoadGraph.                                                              *)
(***************************************************************************)
NewContainerSet(h, d) ==
  /\ stage[h] = "none"
  /\ Get(h, d)
  /\ \E l \in SetToSeqs({ AddressOf(c) : c \in granted'[h] }) :
       /\ InGetOrder(h, l)'
       /\ list' = [list EXCEPT ![h] = l]
  /\ \E n \in PartCounts : n <= d.partition /\ parts' = [parts EXCEPT ![h] = n]
  /\ stage' = [stage EXCEPT ![h] = "create"]
  /\ UNCHANGED << status, created, loading, graphs >>

\* A panic in Get ends the handler before anything is created.
GetPanic(d) ==
  /\ GetPanics(d)
  /\ UNCHANGED setVars

\* create_container: docker is asked again and again until the port is free; its answer
\* carries the id under which the set will destroy the container.
CreateContainer(h, a) ==
  /\ stage[h] = "create" /\ a \in Addresses(h) \ created[h]
  /\ status[a] = "none"
  /\ status' = [status EXCEPT ![a] = "started"]
  /\ created' = [created EXCEPT ![h] = @ \cup {a}]
  /\ graphs' = [graphs EXCEPT ![a] = {}]
  /\ UNCHANGED << clusterVars, list, parts, stage, loading >>

\* WaitStart has seen the process in the container answer /status; /init makes its runner.
InitContainer(h, a) ==
  /\ stage[h] = "create" /\ a \in created[h]
  /\ status[a] = "started"
  /\ status' = [status EXCEPT ![a] = "ready"]
  /\ UNCHANGED << clusterVars, list, parts, stage, created, loading, graphs >>

\* The first wg.Wait: every container was created and has its runner.
AllReady(h) == created[h] = Addresses(h) /\ \A a \in created[h] : status[a] = "ready"

StartLoading(h) ==
  /\ stage[h] = "create"
  /\ AllReady(h)
  /\ stage' = [stage EXCEPT ![h] = "load"]
  /\ loading' = [loading EXCEPT ![h] = { c \in (DOMAIN list[h]) \X Word(h) :
                                           c[2] \in WordsOf(h, c[1]) }]
  /\ UNCHANGED << clusterVars, list, parts, status, created, graphs >>

\* load_key: the executor reads the partition and enters it into r.graphs, in the place of
\* the one it has loaded for an equal word.
LoadKey(h, i, w) ==
  /\ stage[h] = "load" /\ << i, w >> \in loading[h]
  /\ graphs' = [graphs EXCEPT ![list[h][i]] = @ \cup {StartNode(h, w)}]
  /\ loading' = [loading EXCEPT ![h] = @ \ {<< i, w >>}]
  /\ UNCHANGED << clusterVars, list, parts, stage, status, created >>

\* The second wg.Wait: LoadGraph returns.
LoadDone(h) ==
  /\ stage[h] = "load"
  /\ loading[h] = {}
  /\ stage' = [stage EXCEPT ![h] = "up"]
  /\ UNCHANGED << clusterVars, list, parts, status, created, loading, graphs >>

-----------------------------------------------------------------------------
(***************************************************************************)
(* The recycler: Destroy, then PutResource.                                *)
(***************************************************************************)
Recycle(h) ==
  /\ stage[h] = "up"
  /\ stage' = [stage EXCEPT ![h] = "destroy"]
  /\ UNCHANGED << clusterVars, list, parts, status, created, loading, graphs >>

RemoveContainer(h, a) ==
  /\ stage[h] = "destroy" /\ a \in created[h]
  /\ created' = [created EXCEPT ![h] = @ \ {a}]
  /\ status' = [status EXCEPT ![a] = "none"]
  /\ UNCHANGED << clusterVars, list, parts, stage, loading, graphs >>

\* Destroy has returned; faulty: the coordinator is left out.
DestroyedWorkers(h) == created[h] \subseteq coordinator[h]
Destroyed(h) == created[h] = {}

PutResource(h) ==
  /\ stage[h] = "destroy"
  /\ Destroyed(h)
  /\ Put(h)
  /\ list' = [list EXCEPT ![h] = << >>]
  /\ parts' = [parts EXCEPT ![h] = 0]
  /\ stage' = [stage EXCEPT ![h] = "none"]
  /\ created' = [created EXCEPT ![h] = {}]
  /\ UNCHANGED << status, loading, graphs >>

-----------------------------------------------------------------------------
Init ==
  /\ ClusterInit
  /\ list = [h \in Holder |-> << >>]
  /\ parts = [h \in Holder |-> 0]
  /\ loading = [h \in Holder |-> {}]
  /\ stage = [h \in Holder |-> "none"]
  /\ status = [a \in Address |-> "none"]
  /\ created = [h \in Holder |-> {}]
  /\ graphs = [a \in Address |-> {}]

\* What LoadGraph of a set does once it was called, with the processes it started.
Load(h) ==
  \/ \E a \in Addresses(h) : CreateContainer(h, a) \/ InitContainer(h, a)
  \/ StartLoading(h)
  \/ \E i \in DOMAIN list[h], w \in Word(h) : LoadKey(h, i, w)
  \/ LoadDone(h)

Next ==
  \/ \E h \in Holder, d \in Demand : NewContainerSet(h, d)
  \/ \E d \in Demand : GetPanic(d)
  \/ \E h \in Holder : Load(h) \/ Recycle(h) \/ PutResource(h)
                       \/ \E a \in created[h] : RemoveContainer(h, a)

Spec == Init /\ [][Next]_vars

\* Goroutines are scheduled, and hosts, docker and executors answer.
FairSpec == Spec /\ \A h \in Holder : WF_vars(Load(h))

-----------------------------------------------------------------------------
(***************************************************************************)
(* Properties.                                                             *)
(***************************************************************************)
\* Types of the sets, the containers and what they have loaded.
TypeOK ==
  /\ ClusterTypeOK
  /\ \A h \in Holder :
       /\ list[h] \in Seq(Address) /\ created[h] \subseteq Addresses(h)
       /\ loading[h] \subseteq (DOMAIN list[h]) \X Word(h)
  /\ parts \in [Holder -> PartCounts \cup {0}]
  /\ stage \in [Holder -> {"none", "create", "load", "up", "destroy"}]
  /\ status \in [Address -> {"none", "started", "ready"}]
  /\ graphs \in [Address -> SUBSET UNION { 0 .. d.partition - 1 : d \in Demand }]

\* Every container that runs on a host is known to exactly one set, which will destroy it,
\* although all sets create and destroy theirs concurrently on the same hosts: /status is
\* never answered by what an earlier set left behind, and nothing is left behind.
OneOwner ==
  \A a \in Address :
    Cardinality({ h \in Holder : a \in created[h] }) = IF status[a] = "none" THEN 0 ELSE 1

\* When LoadGraph returns, the container that the coordinator will call for a key has loaded
\* it; a key that START_NODES names once, as that of every partition with vertices, is
\* loaded nowhere else; and no container has a key of an earlier set or more than slots.
KeysLoadedOnce ==
  \A h \in Holder : stage[h] = "up" =>
    /\ \A k \in Key(h) : \E i \in KeyContainer(h, k) :
         /\ k \in graphs[list[h][i]]
         /\ Once(h, k) => \A j \in DOMAIN list[h] : k \in graphs[list[h][j]] => j = i
    /\ \A k \in 0 .. parts[h] - 1 : Once(h, k)
    /\ \A i \in DOMAIN list[h] :
         graphs[list[h][i]] \subseteq Key(h) /\ Cardinality(graphs[list[h][i]]) <= SlotsPer(h)

\* Without SHARE_MEMORY every partition opens one stream for each word of START_NODES that
\* names another key, to a container that has loaded that key: the two loops agree where
\* PARTITION and the slots of the hosts are multiples of MAX_SLOT_PER_CONTAINER.
PushesFindPartition ==
  \A h \in Holder : stage[h] = "up" =>
    \A k \in Key(h) :
      /\ PushEntries(h, k) = { w + 1 : w \in { v \in Word(h) : StartNode(h, v) # k } }
      /\ \A i \in PushEntries(h, k) : EntryKey(h, i) \in graphs[ContainerAddrList(h)[i]]

\* Every LoadGraph that begins returns.
LoadReturns == \A h \in Holder : stage[h] = "create" ~> stage[h] = "up"
=============================================================================
