# A verification development of FaaSGraph

FaaSGraph runs graph queries (connected components, PageRank, shortest paths, ...)
as serverless functions. This directory holds TLA+ models of the parts of it in which
concurrency, resource accounting and distributed rounds decide whether it is correct,
the TLC runs that check them on small instances, and theorems about them checked by
TLAPS. Every operator is translated from the Go source under `src/`; `PROJECT.json`
maps each to its lines.

## 1. The system

### Components, their state and their operations

| component | source | state | operations |
|---|---|---|---|
| cluster ledger | `faas_controller/src/faas/cluster.go` | per host: free slots, list of free ports, CPU mask; a total slot counter; one mutex | `init`, `Get`, `Put` |
| application resource managers | `faas/app_resource_manager.go` | per graph and application: stack of free container sets, map of available ones, mutex, ticker | `GetContainerSet`, `PutContainerSet`, `Recycle` (a goroutine each) |
| container sets | `faas/container_set.go`, `faas/container.go` | containers, coordinator, queue of waiting channels, `LastUsed`, key to container map, address list | `NewContainerSet`, `AddQueue`, `NextQueue`, `LoadGraph`, `Destroy`, `PutResource` |
| request handlers | `faas_controller/src/main.go`, `application/graph.go` | one goroutine per `/run_graph` | `Execute` (retry loop), `Run` |
| configuration | `common/config.go` | the parsed `config.json` | `LoadConfig`, `LoadGraphConfig` |
| query coordinator | `graph_coordinator/src` | active set and round of one query | `run`: allocate, load, rounds, flush, clear |
| executors | `lambda_executor/src` | per container: the partitions' CSR graphs and attached shared memory | `init`, `load_key`, `load_mem_pool`, `load_mem`, `run`, `set_vertex_info`, `flush` |
| local_manager | `local_manager/src` | per host: pool of shared vertex arrays by request, communication counter | `create_container`, `remove_container`, `allocate_mem`, `clear_mem`, `set_vertex_info` |
| applications | `app/graph/{cc,sssp,bfs,ccpull,pr,prpush}` | none of their own; PageRank two tags | `Load`, `Calc` |
| data preparation | `util/*.go` | files | `split`, `hash`, `txt2csr` |
| clients, experiments | `test/`, `experiment/` | none | send one request |

### Interactions

A client posts `/run_graph` to the controller. The handler asks the resource manager of
its graph and application for a container set: a free one from the stack, its turn in
the queue of a busy one, or a new one, for which the manager takes slots, ports and
CPUs from the ledger while holding its own mutex (lock order: manager, then ledger). A
new set is loaded: the controller calls `local_manager` on every host, which starts
containers at the granted ports, and then the containers load their partitions. The
handler posts `/run` to the set's coordinator, which allocates vertex arrays in shared
memory on every host, lets every partition initialise its vertices, and then runs
rounds: the active set is sent to all partitions, each runs `Calc` over its active
vertices, lowering values in the array of its host and streaming the lowered ones to
the other hosts, and answers with the vertices to activate; the OR of the answers is
the next active set. When it is empty the arrays are detached and freed. The handler
puts the set back, waking the oldest waiter or returning the set to the free stack,
from which the recycler takes sets that have been idle too long, destroys their
containers, and returns their resources to the ledger.

### What is hard

* **Interleaving of handlers, recyclers and managers.** Three places hold container
  sets, queues hang off sets, and all of them change under per-manager mutexes while the
  ledger is shared by all managers.
* **Panics under a lock.** `net/http` recovers a panicking handler but nothing unlocks
  its mutexes. `Cluster.Get` can panic with both locks held.
* **Accounting.** `Get` and `Put` compute the same quantities in different ways.
* **Ordering of releases.** Ports go back to the ledger while containers are still
  being created and removed on the hosts.
* **Lock-free computation.** Partitions of a host share an array and lower values with
  compare-and-swap; the other hosts' pushes arrive in the middle of a round in any order;
  the end of the query is decided from bitmaps computed before some of that happened.
* **Failure of one call.** Errors of HTTP calls are ignored and nil answers dereferenced.
* **Globals of a process.** The tag that says which array a round of PageRank writes is a
  plain global of a container, shared by its partitions, by pushes that read it in
  goroutines of their own, and by all queries of the set.
* **Two readings of one file.** Controller and executors cut the graph on their own, from
  the same start nodes but with different arithmetic, and words and edges are both counted.

### What makes each component correct

* Ledger: no CPU or port is granted twice, what is taken comes back, each partition has
  its CPU, no sequence of legal calls wedges it while its hosts have ports.
* Managers: a set has one user; each set is in one place; no waiter is lost or
  overtaken; scaling is bounded; every request is answered; idle sets are returned.
* Container sets: a query runs only on a completely created set; containers on the
  hosts agree with the ledger; every partition is in one container, where the coordinator
  and the others expect it, also when `START_NODES` names an empty partition several times.
* Coordinator and executors: no lowered value is forgotten, hosts agree at barriers, the
  query ends, and when it does the result is the specified one; a round of PageRank reads
  the round before.
* Data preparation: no edge or vertex is lost or doubled between the text and the executors.
* local_manager: the memory of a query exists while its executors use it and is freed
  afterwards; a late push never touches another query's memory.

`PROJECT.json` lists the hazards, each at its line, and which properties guard it.

## 2. Modules

| module | models | extends |
|---|---|---|
| `Cluster` | the ledger: `Get`, `Put`, and the panics of `Get` | |
| `FaaSController` | handlers, managers, recyclers, container creation and removal, over the ledger | `Cluster` |
| `SetLease` | abstract: what a manager promises about its sets | |
| `LoadGraph` | how a set comes up and goes away: concurrent creation, keys, addresses | `Cluster` |
| `LabelPropagation` | a `cc`, `sssp` or `bfs` query: coordinator rounds, executors, host arrays, pushes | |
| `PageRank` | `pr` and `prpush` queries: the two arrays and the tag that switches them | |
| `GraphQuery` | concurrent queries from `allocate_mem` to `clear_mem`: coordinators, executors, shared memory of the hosts | |
| `SharedArray` | abstract: the lifetime of vertex arrays | |
| `DataPreparation` | `hash`, `txt2csr`, `split`, and what controller and executors read of their files | |
| `FiniteSums` | lemmas: induction, recursion, sums and fixed points over finite sets, paths, flattened sequences | |
| `ClusterProofs` | theorems about `Cluster`: types, exclusion of CPUs and ports; slots, ports and CPUs add up | `Cluster`, `FiniteSums` |
| `FaaSControllerProofs` | theorems about `FaaSController`, which implements `SetLease` | `FaaSController`, `ClusterProofs`, `FiniteSums` |
| `LoadGraphProofs` | theorems about `LoadGraph` | `LoadGraph`, `ClusterProofs` |
| `GraphQueryProofs` | theorems about `GraphQuery`, which implements `SharedArray` | `GraphQuery` |
| `LabelPropagationProofs` | theorems about `LabelPropagation` | `LabelPropagation`, `FiniteSums` |
| `PageRankProofs` | theorems about `PageRank` | `PageRank` |
| `DataPreparationProofs` | theorems about `DataPreparation` | `DataPreparation`, `FiniteSums` |
| `MCCluster`, `MCFaaSController`, `MCLoadGraph`, `MCLabelPropagation`, `MCPageRank`, `MCGraphQuery`, `MCDataPreparation` | constants for TLC | |

Operators whose comment says *faulty* are plausible mistakes; no specification uses them.

### Cluster

`slot`, `ports`, `cpuMask`, `currentSlot` are the fields of `Node` and `Cluster`;
`granted[h]` and `coordinator[h]` are what container set `h` keeps of the answer of
`Get` (its containers' `ip`, `port`, `cpuSet` and its coordinator's address). Both
operations run under `cond.L`, so each is one action.

`Get` sorts the hosts by free slots; `sort.Slice` is unstable, so every order of equal
hosts is allowed (`SortedPositions`). `Fills` is the loop that takes
`min(node.slot, totalSlotRet)` from host after host, `CpuArr` the nested scan of
`cpuMask`. `PanicsAt` collects the three ways the loop body can panic: no port left, an
empty CPU list cut at `len-1`, or a host that contributes no container. After a panic
`clusterLock` is `"stuck"`; the half-written fields are never read again because every
reader needs the lock, so the model leaves them alone.

`Put` gets the containers in the order of a Go map walk (`Walks`), so the ports of a
host come back in any order, and `ipCpuSet` keeps the cpuset of whichever container of
the host came last.

### FaaSController

`pc[r]` is where the handler of request `r` is:
`idle -> get -> (wait | sleep | load -> create) -> run -> put -> done`, or `panicked` /
`blocked`. A critical section of `m.mutex` is one action, enabled while `managerLock[m]`
is free. `waitQueue[s]` holds requests in place of their channels; `signalled` are those
whose one-place channel is full. `onHost[s]` is where containers of a set really exist;
it differs from the ledger while containers are created and destroyed one by one.
Creating a container at a port another container still holds is not enabled:
`createContainer` in `local_manager` loops until docker can bind the port.
`age` is the time since `LastUsed`, counted up to `IdleLimit + 1`; the code writes
`LastUsed` when a set is taken from the stack and at loading, not when it is released
nor when it is handed to a waiter, and so does the model.

`SetLease` is the abstract specification: sets are leased to one request at a time, a
line forms behind a leased set, the line moves first come first served, and only
unleased sets are retired. `ImplementsLease` maps `live` to the granted sets outside
the recyclers' `remove` lists, `owner` to the request that `Uses` a set, and `line` to
`waitQueue`.

### LoadGraph

`FaaSController` follows many sets and requests and keeps of a set only which containers
exist; `LoadGraph` follows a few sets in detail, one action per step of a goroutine.
`list[h]` holds the `ip` and `port` arguments of `LoadGraph` in the order in which `Get`
appended them, `created[h]` is `s.containers` with the coordinator, `status` what docker
runs at an address, and `graphs` the map of its runner. `CreateContainer` is the call of
`create_container` with the loop in `local_manager` that waits until docker can bind the
port, `InitContainer` the polling of `/status` and `/init`, `LoadKey` one `load_key`.

`START_NODES` has `PARTITION` words, but a split may have fewer parts; `LoadGraphConfig` then
repeats the last word, `TOTAL_NODE`. `parts[h]` is the number of parts, chosen from `PartCounts`, and
`StartNode(h, w)` names the key of word `w` by the first word that has it. A call of `load_key` is a
container and a word (`loading`), so a repeated key is loaded once per word, into an entry of
`r.graphs` if in the same container, and into two containers if its words straddle them.
`KeyContainer` is the map `keyContainer`, which keeps the last container and which the coordinator uses.

Two loops of `LoadGraph` assign words to containers. The second, which loads keys,
advances its own counter (`WordsOf`). The first, which builds the addresses for pushes
without `SHARE_MEMORY`, adds to the variable of a `range`, which has no effect
(`Entries`): the i-th container is entered as long as keys are left from i on. The two
agree exactly where `PARTITION` and the slots of the hosts are multiples of
`MAX_SLOT_PER_CONTAINER`, and `PushesFindPartition` is checked there. With three keys and
two slots the list has an entry more than `START_NODES` and `createWriters` would index
past its end.

### LabelPropagation

`query` fixes the application, its source, and which partitions share an array, so that
one run covers `cc`, `sssp` and `bfs`; their `Calc` is one loop with another offer
(`Offer`), test (`Improves`) and store (`Stored`, `Wins`). `cc` goes on where its
compare-and-swap won, `sssp` also where it lost, and `bfs` stores a parent without any
aggregate operation. The weights of `sssp` lie in the CSR between the edges; `next`
counts edges.

`label[h][v]` is the shared vertex array of host `h` (with `SHARE_MEMORY` off, take one
"host" per partition). One action is one atomic memory operation of `Calc` together with
the local work that follows: `Visit` reads the value of a vertex, `Compare` reads the
target of an edge, `Store` and `StoreLost` are the write or compare-and-swap that follows,
`Record` the batch that is sent
once it has `sendThreshold` words. `Deliver` is one store or minimum of
`set_vertex_info`. Pairs in flight are a set per sender and receiver, delivered in any
order: the batches of a call are written to the pipes by concurrent goroutines. Within
one batch the code keeps the order and the model does not; it checks more orders. `Barrier`, `Dispatch` and `Finished` are the loop of the coordinator for an
application with `NoChange`, `TriggerAll` and `RoundLimit` off, as these are run.

The parents of `bfs` are only as good as that: when two partitions see a vertex without a
parent both store one, and each host keeps what came last. `ResultFound` asks that exactly
the reached vertices have a parent, `ValuesJustified` that it is an in-neighbour which was
reached, and for a single host that the parents lead to the source. On two hosts the same
model has behaviours in which the arrays of the hosts differ and the parents in one of
them form a circle; no document promises otherwise.

### PageRank

Sums are abstracted: a word of an array is the set of `<< round, partition >>` that went
into it, and the vertices of a partition stand for one. That is enough to say which round
a value comes from. `tagNew` and `finished` are the globals `VERTEX_ARRAY_TAG_NEW` and
`finished` of a container: they outlive the query, whereas the arrays are fresh
(`NextQuery`). `Load` writes array 0 and sets the tag, `Read` and `Write` use the two arrays,
`Finish` counts and `Switch` swaps when the count is 2, a number written into the code.
`PushStarts` is the goroutine of `pushVertexVals`, which reads the tag when it runs, at any
time between `createWriters` and the first write that the pipe lets through.

So the arrays of a container are switched once per round if it has exactly two partitions
with active vertices. `pagerank` checks that case; `pagerank_default` shows what happens
with one. In the first round of `pr` a value that another host pushed while loading may be
missing, because its goroutine may have read the tag after `Load` had set it: `ReadsPreviousRound`
says this of the first round only. `prpush` never clears the array it adds to, so what
it reads also has older contributions; the property asks that none of the round before is missing.

### DataPreparation

One action per tool or reader. `hash` is run once; `txt2csr` may be run again with other arguments,
which removes the splits; `split` is run once per `PARTITION` after that, and the controller may
read with or without the split it wants. Files are sequences of words. `HashTable` is the prefix sum of `hash.go` with the
wrap-around of its unsigned words, `Offsets` and `EdgeList` what `txt2csr.go` writes,
`StartNodes` the cut of `split.go`; `EdgesOf` is the loop that reads a text line by line. `LoadGraphConfig` reads `PARTITION` words with a `Read`
whose result is ignored (`WordRead`): at the end of the file the last word is repeated,
and without a file zeros are read, after which the executors panic and the controller with
them (`LoadKeysPanics`). `LoadGraph` of an executor finds the end of its own range in the file
(`StopNode`) and copies offsets into an `int32` (`Int32`).

`Weight` is the `(u+v)%100` of `addEdge`: the sum is an `int32`, and from `2^31` on it wraps to a
negative number, of which `%` gives a remainder that is not positive. So the weight is that of the
mathematical sum only if that is below `2^31`, and this is what `EdgesKept` says of weights; the other
ends, their number and their place do not depend on it. `TotalAssumption` has fewer than `2^31`
vertices and degrees below that, so `int32(u)`, `int32(start)`, `int32(TOTAL_NODE)` and the `int32` degrees, unlike the sums
of two ids and the offsets, are the numbers themselves.

### GraphQuery

Where `LabelPropagation` follows the values of one query, `GraphQuery` leaves values out
and follows the memory of several. `stage[q]` is the place of the coordinator's `run`:
`waiting -> alloc -> attach -> load -> head -> (round -> head)* -> flush -> clear -> done`,
and `todo[q]` whom the stage still waits for. `allocate_mem` and `clear_mem` are sent to
one host after the other in the order of `WorkerIPList`, which is any order; the other
stages are a goroutine per word of `START_NODES` and a `WaitGroup`, and `flush` one per key. `Call` opens a push to every other
host, `PushAnswered` is the answer of `setVertexInfo` once it has read to the end of the
pipe, and `Reply` waits for all of them. `active` is `!activeSet.Empty()`, chosen freely
after loading and, unless `NoChange`, after each round, so the runs cover every
application. `Workload` says which queries clients may send together: `{Query}` is everything, and
the theorems hold for any. A graph of an executor is an element of `Executor`, and `GraphOf[w]` the graph that the
coordinator reaches for word `w`: that of its key in the container `keyContainer` has for it.
`memPool[e]` is the field of the graph, which keeps pointing to the last query after `flush`; a
mapping is named by the call of `load_mem_pool` that made it, a word and a query. `attached`,
`segment` and `pool` are `shmat`, the System V segments and the map of `local_manager`. `IPC_RMID`
only marks a segment that is still attached, and it goes with its last mapping (`Detach`).
`flush` detaches all graphs of a container, once per key.

Several words may have one graph, and a graph may have no word. Both come from a `START_NODES` that
repeats a key. In the first case the second `load_mem_pool` attaches again and puts its mapping in the place
of the first, which nothing detaches any more: `NothingLeft` says exactly what is left, a marked
segment as long as such a mapping, and that with distinct keys there is nothing. Two
calls of `run` then also write the map `graph.performance` of one graph without lock, which the runtime may
detect (`MetricsRace`). In the second case the graph never gets a pool, `Flush` of its container
dereferences nil and the query dies (`FlushDies`), with every host up; `QueryEnds` allows this death only
for sets with repeated keys. In all cases calls use the arrays of their own query and no array
is removed under a graph that still reaches it by its pool.

`setVertexInfo` reads the pool map without `poolLock`. When the Go runtime detects that
during a write for another query it ends the process (`MapRace`); then `pushVertexVals`
dereferences a nil answer and its container ends (`ContainerDies`), and so does `run` of
every query that calls either (`QueryDies`). `down` and `"dead"` are final: nothing in
the repository restarts a `local_manager` or puts the set back.

`SharedArray` is the abstract specification: an array is made once, joined only while it
exists, and removed when it has no users. `ImplementsSharedArray` maps `made` to live
segments and `using` to the graphs that reach one by their pool together with those that
push to it from another host, so one action of `GraphQuery` joins arrays on all hosts. A mapping that
another has replaced has no user: nothing reads or writes through it.

## 3. Runs

All runs end with a complete search of their state space. The passing runs:

| run | question | bounds |
|---|---|---|
| `cluster_shared` | Does the ledger keep CPUs and ports apart, lose nothing, and wedge only for want of ports, with `SHARE_CPU` and even partitions? | 2 hosts with 6 and 4 free slots, 4 ports each, 3 sets, partitions 1, 2 and 4 |
| `controller_safety` | Single user, one place per set, no lost waiter, no query on an unfinished set, hosts agree with the ledger, `SetLease` is implemented; what survives when `Get` panics with the locks held? | 2 managers, one with an odd partition, 2 sets, 4 requests, queue length 2, 4 CPUs and 4 ports, failing queries |
| `controller_scaling` | Is scaling bounded? | 1 manager, 3 sets, 4 requests, queue length 1 |
| `controller_live` | Is every request answered, are slots returned? | 2 managers compete for room for 1 set, 4 requests |
| `load_graph` | Does every container have one owner, is every key loaded where it is looked for, are addresses right, does loading return, without `SHARE_CPU`? | 2 hosts with 4 and 2 slots, 3 ports each, 2 sets, partitions 4 and 1, graphs of 1 and 4 parts, 2 slots per container |
| `query_life` | Do arrays exist as long as they are used, what is left of an ended query, does every query with a round limit end and where may it die, also when the pool map race strikes or a key is repeated? | 3 sets on the same 2 hosts: 2 graphs with distinct keys; 2 graphs in one container and 3 words; 3 graphs and 3 words, one graph without a word; 4 queries of which 2 at most are sent together, round limits 0 to 2, one `NO_CHANGE` |
| `labels_path` | No lost work, agreement, termination, the right result of `cc`, `sssp` and `bfs` | 3 partitions on 2 hosts (and `bfs` on 1), 6 vertices, batches of 2 |
| `pagerank` | Does every round read the round before, do containers agree on the array? | 4 partitions in 2 containers on 2 hosts, 2 queries, 3 rounds of `pr` and 2 of `prpush` |
| `data` | Is the graph of the executors that of the text? | every file of 2 lines over gappy ids, 7 shapes of up to 6 lines, `PARTITION` 1, 3 and 4, weighted or not, directed or not, hash words modulo 64, `int32` from -11 to 10 |

Why the bounds are enough for what they ask. Two hosts of different size make a grant
span hosts, end on either and reorder the hosts between calls; four or so ports make
the lists go round several times, so that returned ports are granted again, and end
before the slots do. Three
requests of one manager with queue length 1 or 2 give a busy set, a queued request and
one that scales out; a second manager is what can starve the first of slots. The odd
partition of `controller_safety` makes `Put` return a slot too many, so that a later `Get`
finds slots without CPUs and panics.
In `load_graph` a set of four keys takes two containers on one host or on two, beside its
coordinator, and three ports per host make a set wait for ports others still hold, or
`Get` panic; a graph of one part makes `START_NODES` repeat its second word within a container and
across the two.
In `query_life` two sets on the same hosts make the maps of `local_manager` shared, a
second query on a set meets what the first left in its executors (with a repeated key also a mapping
and its marked segment), and one or two rounds are
enough because rounds differ only in `active`. The graph without a word shares its container with one that
is used, without which it would never be flushed. `Workload` bounds what runs together: a query on distinct
keys beside one on repeated keys, two queries one after the other on the latter, and the straddling key by
itself, since its query dies whatever the others do.
The graph of `labels_path` has edges within a partition, between partitions that share an
array, and between hosts; a value needs several rounds to travel, what came over few edges
is replaced by what comes over many, and one vertex is never reached.
In `pagerank` a value is used within its partition, container and host and beyond, the tag
takes both values at the beginning of a query, and from the third round on nothing new can
happen. `data` has a star that gives fewer parts than asked for, parts of different
sizes, loops, repeated lines, a last line without end, an id outside of the table, and
offsets and sums of ids on both sides of the `int32`.

`CHECK_DEADLOCK FALSE` where the system really stops: the clients send finitely many
requests; a query ends; a panicked ledger lets nothing through.

Symmetry is used in safety runs only, over sets and over requests of one manager, which
the specification never tells apart. `SetLease` does not either.

### Violations: where the code and its documents disagree

* `cluster_private_leak` - README: "we assign each graph partition a distinct CPU core".
  With `SHARE_CPU` false, `Put` keeps one cpuset per host and frees only that one
  (`cluster.go:139`). The other CPUs stay marked although their slots were returned, so
  a later `Get` has slots without CPUs: its containers get fewer CPUs than partitions,
  or it panics.
* `cluster_port` - README: `local_manager` "will start the server in port 20000". The
  free list runs up to and including `HIGH_PORT_NUMBER` = 20000, so after enough grants
  a container is sent to the port of its own `local_manager`, where it can never start.

* `pagerank_default` - README: "cores per container. Default is 2." The default of the code
  is 1 (`config.go:34`). With one partition per container `finished` reaches 2 only after two
  rounds, so the second round of `pr` still reads the values that were loaded.

More behaviours are in the models but have no sentence of the documents to
contradict: with an odd partition `Get` takes `PARTITION` slots but `Put` returns
`containers * MAX_SLOT_PER_CONTAINER` (`cluster.go:144`), and the counter grows past the CPUs
of the host; a set is recycled by the first tick after a long query, because `LastUsed` is
not written at release; when `/run` fails, the handler dies before `PutContainerSet` and
the set, its resources and everyone in its queue are stranded (`RunFails`;
`controller_live` excludes it); and after a panic in `Get` every manager that needs a
new set blocks for good (`GetBlocked`), while requests that find a free set go on.

## 4. Fairness

Safety runs assume none. `controller_live` assumes weak fairness of each handler, each
recycler and the clock: goroutines are scheduled, a query and a docker call return, a
sleep ends, a ticker fires. `Handler(r)` is one condition per request: the mutexes are
always released by the step that took them (or are stuck, which the configuration
excludes), and a request that loses a race for slots to others sleeps and tries again;
it cannot lose for ever because there are finitely many others. Nothing is assumed of
`Arrive` or `RunFails`. `load_graph` assumes it of what `LoadGraph` of a set starts: hosts, docker
and executors answer; that recyclers give up ports is not needed, since `Get` only grants
ports of containers that are gone. `labels_path` assumes weak fairness of each executor and of the
coordinator, `query_life` of each query's coordinator and of the pushes of each set, whose executors
run beside those of the others; that one condition per set is enough is because the next round
of a set waits for all pushes of this one. Nothing is assumed of `Run`, `MapRace` and `MetricsRace`.

## 5. What is proved

All theorems hold for every value of the constants that satisfies the named assumptions of
the modules: finitely many hosts, at least one, and any numbers of CPUs, ports, container
sets, requests, managers, queries, partitions and vertices. What is assumed beyond that is a
hypothesis of the theorem. Each proof module begins with its inductive invariant, a
conjunction of named parts, which TLC has checked as an invariant of the component's run.

### The ledger: `ClusterProofs`, `FiniteSums`

* `LedgerTypeCorrect`: `ClusterSpec => []ClusterTypeOK`. The type invariant is inductive
  once it says that slots are natural numbers: a negative `slot` would make the number
  of new containers negative and the cut of the port list meaningless. The work is in
  `UseSlotBounds`, `NewContainersType` and `PortsSuffice`: a `Get` that does not panic
  takes no more slots than a host has and finds a port for each container and for the
  coordinator; `ContainersFinite` and `WalkType` do the same for `Put`.
* `NoCpuGrantedTwice`: `ClusterSpec => []CpuExclusive`. Exclusion alone is not inductive.
  What makes it so is its first conjunct, that the CPUs of every live container are
  still marked in `cpuMask`: `Get` chooses among unmarked CPUs (`NewGrantCpus`), gives
  disjoint ranges of them to the containers of a host (`NewGrantDisjoint`), and `Put`
  unmarks only CPUs of its own containers, which by exclusion no other set has.
* `NoPortGrantedTwice`: `ClusterSpec => []PortExclusive`. The inductive form also says
  that ports in use are not in the free list and that the list has no duplicates.
  `NewAddresses` shows that new addresses come from the part of the lists `Get` cuts
  off, `ReturnedPorts` that `Put` appends each port of its set once.
* `SlotsAddUp`, `SetsHaveTheirSlots`: `currentSlot`, which decides whether `Get` refuses, is
  the sum of the hosts' slots, and a set has at least the slots it asked for. `WalkSums`
  is the loop of `Get`: what the first `i` hosts in its order give is what they reduce the
  demand by; since the sum is at least the demand, the last host leaves nothing
  (`GetFindsAll`). `WalkSums` goes by induction over the hosts in that order.
* `PutGivesBack`, `EachPartitionItsCore`, `PanicsForPortsOnly`: `NothingLost`,
  `EachPartitionHasCore` and `PanicsOnlyForPorts`, for finitely many sets and
  `WholeContainers(s)`: `SHARE_CPU`, and one `MAX_SLOT_PER_CONTAINER` `s` of which every
  slot demand and every host is a multiple, as in `config/config.json`. The hypothesis cannot
  be dropped: `cluster_private_leak` violates the second without `SHARE_CPU`, and an odd
  partition the first. The invariant `Even(s)` adds that the containers of a set on one
  host have the same CPUs, as many as their slots together, and that marked CPUs and
  free slots make up each host. So `Get` always finds as many unmarked CPUs as it takes
  slots (`FreeCpus`), and the one cpuset per host that `Put` keeps is the whole share.

These hold also in the histories of the violation runs as far as their hypotheses do: losing
CPUs or overcounting slots never leads to sharing.

`FiniteSums` has the induction these sums need. `SumFunction` is a fold, which the community
modules define by a recursive function, and the library's induction theorems take an
operator as a parameter, which the provers cannot instantiate. `Smallest` instead gets the
least element of a set of numbers from the library's well-foundedness of `<`, and
`Induction` and `SetInduction` are stated for a *set* that contains 0 (the empty set) and is
closed under successors (under adding an element). `Recursion` says that a recursive function
over elements that have a rank in the naturals exists and satisfies its equation, given
only that its body looks at elements of smaller rank (`Determined`); `GrowthEnds` that
sets which grow inside a finite set stop growing after as many steps as it has elements; `RootReached`
that following a function within a finite set ends at the root if no part of the set is closed;
`FlattenLays` where the elements of a sequence of sequences lie in the flattened one.

### Managers and handlers: `FaaSControllerProofs`

`IInv` has seven parts. `HandlerInv` says which places of a handler come with a set,
`QueueInv` that queues and waiting handlers correspond one to one, `UserInv` that available
sets and their users do, `PlaceInv` that no set is in two places or twice in one,
`GrantInv` that the sets in some place are those with a grant, and `HostInv` where the
containers must all exist. None of the properties is inductive without most of the others: that
a woken request is the only user of its set needs `QueueInv` (it was in that queue and no
other), that a new set is not already somewhere needs `GrantInv`, that the set a recycler
destroys has no user needs `PlaceInv`. From `IInv` follow

* `OneRequestPerSet`: `SingleUser`; `NoSetLostOrTwice`: `PoolsAgree`; `WaitersAreNeverLost`:
  `NoLostWaiter`; `QueriesRunOnLoadedSets`: `RunsOnLoadedSet`; `ContainersKeepToGrants`:
  `HostMatchesLedger` (with `NoPortGrantedTwice` for two sets); `ControllerTypeCorrect`.
* `ControllerUsesLedger`: `Spec => ClusterSpec`. Every step is a `Get`, a `Put`, a panic or
  leaves the ledger alone, so all theorems about the ledger hold under traffic;
  `NoSharingUnderTraffic` is the corollary for CPUs and ports.
* `ControllerImplementsLease`: `Spec => ImplementsLease`. `GetFree` and a new set are leases,
  `JoinQueue` a place in the line, `PutContainerSet` a hand-over or a release, `Recycle`
  retirements (possibly of several sets), every other step a stutter. `owner` is a
  `CHOOSE` over the users of a set, so each step needs that there is just one, before and after
  (`OwnerFacts`, `NextOwnerFacts`).
* `ScalingIsBounded`: `BoundedScaling`, for finitely many requests. A manager only adds a set
  when every set it keeps is in use with a full queue (`AllQueuesFull`); users and queues
  are disjoint requests, `1 + QueueLength` for each set (`RequestsPerSet`).

### Container sets: `LoadGraphProofs`

`SetsUseLedger` is `Spec => ClusterSpec` as above. `IInv` ties the stage of a set to its grant
(`Granting`), what docker runs to the sets that created it (`Owned`), the argument lists
of `LoadGraph` to the grant (`ListsGrant`), and what each runner has loaded to the words the
second loop assigns it and the calls still open (`Loading`). With the ledger's books it gives
`EveryContainerHasOneOwner` (`OneOwner`: two sets never create at one address, because it is
in both grants only if it is in none) and `EveryKeyLoadedOnce` (`KeysLoadedOnce`: the
intervals of words of the containers are disjoint, and cover all words because
of `SetsHaveTheirSlots`; `LastWord` finds the container that `keyContainer` keeps for a key; a key of
one word is in the interval of one container, and only the key `TOTAL_NODE` has more).

`StreamsReachPartitions` (`PushesFindPartition`) is about the address list that is used when
`SHARE_MEMORY` is off. The first loop of `LoadGraph` (`container_set.go:98`) goes over the containers, adds
to its index what has no effect inside a `range`, and cuts the entries of the `i`-th container where
`i + j` reaches `PARTITION`; the second hands out keys by a counter that does advance. Under
the hypothesis `WholeSizes(s)`, that one `MAX_SLOT_PER_CONTAINER` `s` divides every demand and every
host, `Get` takes whole containers everywhere (`GetLeavesNothingOver`), so a set has exactly
the slots it asked for (`NothingOver`), the flattened list has one entry per word of `START_NODES`
(`AddrListByKey`), and the entry of each word is the container that loaded its key for it (`EntryPlace`).
The hypothesis holds in `load_graph` with `s = 2`.

### Queries: `GraphQueryProofs`

`IInv` follows an array from `allocate_mem` to `clear_mem`: where it exists at each stage
(`ArraysThere`, `ArraysGone`), that a graph refers to a mapping of its own (`Own`) and, once attached
for a query, to one of that query (`Referring`), that a mapping it still refers to is that of a query
under way (`Current`), that only one query of a set is under way
(`Apart`), that calls and pushes belong to a query that still waits for them (`Running`,
`Pushing`), that `flush` takes a mapping of each graph (`Freeing`), and that a marked segment has
one left (`Marked`). The cases that need most are `flush`, which detaches all graphs of a container for
every key, containers that end, and the death of a query while its executors still compute. Nothing is
assumed of how many words a graph has. It gives
`PushesFindTheirPool` (`PushHasPool`), `CallsUseOwnArrays` (`ArraysAttached`),
`EndedQueryLeavesNothing` (`NothingLeft`) and, step by step, `QueryImplementsSharedArray`
(`ImplementsSharedArray`).

### Push queries: `LabelPropagationProofs`

The theorems hold for every graph, partitioning, placement on hosts, batch size and order of
writes and pushes. Vertices are below 1000000000, the mark of `bfs` for a vertex without a
parent (`GraphAssumption`). One preorder covers the three applications: `AsGood(x, y)` is
`x <= y`, and for `bfs` "reached if `y` is".

* `HostsAgreeAtBarrier`: `AgreeAtBarrier`. The invariant `Agreeing` says in every state: what
  one host has, every other has something as good, or a pair is under way to it that is.
  `Pushed` is what makes this inductive: a pair under way is no better than what its sender's
  array holds, and every other host has been or will be told too. At a barrier
  nothing is under way, and `AsGood` both ways is equality.
* `WorkIsNeverLost`: `NoLostWork`. `EdgesPending` says of each single edge that could improve
  its target that its source is queued or a scan *has not come to that edge* and carries a
  value no worse than the present one. Two things make it hold although values change during
  a scan. A value that gets better reactivates its vertex in the partition that wrote it
  or, by `Pushed`, in the one whose push brings it; and an edge that was passed offered
  a value that the target has at least (`NotImprovable`), also where the store was lost.
* `LabelTypeCorrect`: in particular no value exceeds that of an unreached vertex.
* `ValuesAreJustified`: `ValuesJustified`. Its references `Reached` and `Distance` are sets and
  functions iterated as often as there are vertices. `ReachedClosed` and `ReachedLeast` show that `Reached` is
  the least set closed under edges (a set that grows has stopped by then), `DistanceFixed` that
  `Distance` is a fixed point of the relaxation and `DistanceGreatest` that it is the greatest: an improvement
  in step `n` comes along a path of `n` different vertices. The inductive invariant
  `Grounded` says of every value *in any place* that the graph justifies it: in the arrays (`LabelsSound`),
  in batches and pipes (`PairsSound`), carried by a scan (`ScansSound`); and that a vertex that is
  queued is already reached in the array of its host (`Visible`), without which a scan of `bfs` could store an
  unreached parent. `Tree` is about `bfs` on one host: no set of vertices has all its parents,
  stored or about to be stored, within itself. It is stronger than "the parents lead to the source" since
  it counts the stores of all partitions under way, of which only one will win.
* `QueryFindsResult`: `ResultFound`. When a query has ended no work is queued (`NothingLeft`), so by
  `EdgesPending` no edge can improve its target; with `Grounded` the values are a fixed
  point between the reference and itself (`LeastFound`, `DistanceFound`, `ReachedFound`), and with `Tree`
  and `RootReached` the parents of `bfs` lead to the source (`SourceFound`).

`SourceAssumption` says that vertex 0, from which `sssp` starts in the code, exists, and
`Partition` is finite.

### PageRank: `PageRankProofs`

Under `PairedPartitions`: every container has exactly two partitions, and they have edges.
The count at which arrays are switched is the literal 2 in the code, and `pagerank_default`
shows that the properties fail otherwise. `Counting` is the heart of `IInv`: in every round the two
partitions of a container, its count and its tag are in one of four phases, the last with
the tag switched exactly once. `Pushing` says that a push carries the tag its round writes,
`Kept`, `Stored` and `Sent` where each contribution of the last and the present round is. They give
`RanksReadPreviousRound` (`ReadsPreviousRound`) and `ContainersAgreeOnTag` (`TagsAgree`) for
any number of containers, hosts, rounds and queries.

### Data preparation: `DataPreparationProofs`

The theorems hold for every data set, directed or not, with weights or without, every set of
`PARTITION`s, and however often `txt2csr` and `split` are run before the controller reads.
`TotalAssumption` says of the data sets what their configuration
says: `TOTAL_VERTEX` is at least the number of ids that occur; and that the types of the tools allow it:
it is below `2^31`, and so are degrees (`Half` is `2^31`). `IInv` says what each file is as
long as the others that it was made from stay: `HashedOK`, `CsrOK`, `IsParts` for each file of start nodes
(they grow strictly from 0 to the number of vertices, at most `PARTITION` of them before the end),
`ConfigOK` for what the controller holds and `GraphsOK` for the executors.

* `HashingKeepsGraph` (`HashKeepsGraph`): the table is a prefix sum in unsigned words, so its
  difference between two ids is the number of ids in between, which fits.
* `VerticesInOnePart` (`EachVertexOnce`): every part that `split` closes has more than its share of
  edge ends, of which there are twice as many as edges (`DegreeSum`), so no more than `PARTITION` parts
  are closed (`PartsBounded`), and the read past the end of the file repeats the number of
  vertices and gives empty parts (`SizesRead`). An executor finds the end of its part by searching the
  file for its key; since the nodes grow strictly it finds what the controller has (`KeyStops`).
* `EdgesReachExecutors` (`EdgesKept`): `ArcsAre` counts the arcs `txt2csr` makes of the lines,
  `EdgeListIs` and `EdgeFileIs` say where the words of each vertex lie, `PartOfPart` and
  `ExecutorReads` that the executor cuts out just these although it subtracts the first offset and
  converts to `int32`; `Int32Small` needs `Fits`, the hypothesis inside `EdgesKept` that the words of a partition are
  fewer than `2^31`. The words of a file are integers, since a weight may be negative; `WeightSmall`
  says when it is not. The recursive functions of the module are only reasoned about by
  `Recursion`, in terms of the sums and counts they compute.
* `PreparationTypes`: `TypeOK`.

### Only model-checked

Liveness and what rests on `ENABLED`: `EveryRequestServed`, `IdleSetsReturned`, `LoadReturns`,
`QueryEnds`, `Terminates`. No installed prover handles weak fairness of these actions. Every
invariant, action property and refinement of the passing runs is a theorem; those with a
hypothesis beyond the named assumptions (`WholeContainers`, `WholeSizes`, `PairedPartitions`) are proved
for the configurations it describes, among them those of their runs.

## 6. Not modelled, and the plan

Formatting, logging, timing, JSON and `LoadConfig` are left out throughout, as are the
clients and experiment scripts. README lines 63 and 74 and the amazon lines of
`util/prepare_dataset.bash` leave out the argument `DIRECTED` that both tools read; the
model takes the arguments as the code does.

* `Bitmap.Add` is a plain read-modify-write. Blocks of `LoadMem` and of `ccpull` that share a
  word can lose an activation; so can the plain additions of `prpush`'s blocks lose a summand.
  In the models a partition is one process. With it `ccpull` is not modelled.
* `SHARE_MEMORY` off is modelled as far as addresses go (`LoadGraph`) and, for
  `LabelPropagation`, by giving each partition an array of its own. An executor then stores
  what `local_manager` would add (`graph_runner.go:176`), which `PageRank` leaves out.
* A reused set keeps the edges and operator of the request that loaded it; all requests of an
  application are taken to ask for the same.
* The controller or `local_manager` being restarted: nothing in the repository does it.
* Of `GraphQuery`: `overallComm`, which `clear_mem` reports as the traffic of one query although
  it is never reset; requests with equal ids, whose second `clear_mem` would panic with
  `poolLock` held.
* Containers that docker creates but cannot start, which `createContainer` leaves behind.
* Of repeated keys in `START_NODES`: `LoadGraph` and `GraphQuery` have them, `LabelPropagation` and
  `PageRank` do not. A partition without vertices never calls `Calc`; in `PageRank` its container would
  count `finished` by one less per round, which for two partitions is the history of `pagerank_default`.
  What `keyContainer` of `LoadGraph` finds is a parameter of `GraphQuery` (`GraphOf`), not a composition.
  A mapping that nothing detaches goes with its container; that the recycler destroys the container is
  not part of `GraphQuery`, so its segments stay marked to the end.
* `PARTITION` or slots that are no multiple of `MAX_SLOT_PER_CONTAINER` in the address list of
  `LoadGraph`, and in the books of the ledger beyond what the notes in `PROJECT.json` say.
* Vertices from `2^31` on, and degrees and their sums beyond `int32`: `TotalAssumption` excludes
  them. Wrapped weights are in `DataPreparation` only; `LabelPropagation` takes weights as naturals.

Nothing safety-related is left to prove of what is modelled; the next steps would be models of the
items above.

## 7. Running

    tlc -workers 2 -config cluster_shared.cfg MCCluster
    tlapm ClusterProofs.tla

and likewise for each configuration of section 3 and each proof module of section 2.
