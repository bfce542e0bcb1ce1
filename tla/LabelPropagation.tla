--------------------------- MODULE LabelPropagation ---------------------------
(***************************************************************************)
(* The push queries connected components, shortest paths and breadth-first *)
(* search (app/graph/cc, sssp, bfs): the coordinator's rounds              *)
(* (graph_coordinator/src/container_set.go), the executors of the graph's  *)
(* partitions (lambda_executor/src/runner/graph_runner.go) and the vertex  *)
(* array each host keeps (local_manager/src/mem.go).  Partitions of a host *)
(* write its array concurrently; what they write is streamed to the other  *)
(* hosts while they compute.  cc lowers labels by compare-and-swap and goes*)
(* on where it won; sssp goes on where it saw a longer path; bfs stores a  *)
(* parent where it saw none, without an aggregate operation.               *)
(***************************************************************************)
EXTENDS Integers, SequencesExt

CONSTANTS
  Vertex,         \* the vertices, which are also the labels of cc and the parents of bfs
  OutEdge,        \* the out-edges of every vertex in CSR order
  OutWeight,      \* their weights, interleaved with them in the CSR of sssp
  Partition,      \* the graph partitions (START_NODES)
  PartitionOf,    \* the partition a vertex belongs to
  Host,           \* the vertex arrays: one per host, or per partition without SHARE_MEMORY
  Query,          \* the queries: application, source and the array each partition works on
  SendThreshold   \* sendThreshold: pairs after which a batch is sent

\* Vertices are below 1000000000, which bfs uses as the mark of a vertex without a parent.
ASSUME GraphAssumption ==
  /\ IsFiniteSet(Vertex) /\ Vertex \subseteq Nat /\ IsFiniteSet(Partition)
  /\ \A v \in Vertex : v < 1000000000
  /\ OutEdge \in [Vertex -> Seq(Vertex)]
  /\ \A v \in Vertex : OutWeight[v] \in [1 .. Len(OutEdge[v]) -> Nat]
  /\ PartitionOf \in [Vertex -> Partition]
  /\ SendThreshold \in Nat \ {0}

ASSUME QueryAssumption ==
  Query \subseteq [app : {"cc", "sssp", "bfs"}, source : Vertex, hostOf : [Partition -> Host]]

\* sssp starts from vertex 0: the data preparation numbers the vertices from 0 without gaps.
ASSUME SourceAssumption == \A q \in Query : q.app = "sssp" => 0 \in Vertex

\* The data sets for cc are undirected: txt2csr wrote every edge both ways.
Adjacent(u, v) == \E i \in 1 .. Len(OutEdge[u]) : OutEdge[u][i] = v
ASSUME UndirectedAssumption ==
  (\E q \in Query : q.app = "cc") => \A u, v \in Vertex : Adjacent(u, v) => Adjacent(v, u)

VARIABLES
  query,     \* the query that runs
  label,     \* vertexVal[0] of every host
  phase,     \* where the current call of each partition's executor is
  active,    \* the coordinator's activeSet
  activate,  \* the bitmap each executor call answers with
  work,      \* Calc's activeVertex
  scan,      \* the vertex whose edges Calc walks, its value and the next edge
  unsent,    \* pairs in data from sendOff on
  inflight   \* pairs a partition wrote to the pipe of a host and not yet applied there

vars == << query, label, phase, active, activate, work, scan, unsent, inflight >>

Own(p) == { v \in Vertex : PartitionOf[v] = p }
HostOf(p) == query.hostOf[p]
Hosts == { HostOf(p) : p \in Partition }
Remote(p) == Hosts \ {HostOf(p)}
NoScan == [vertex |-> -1, value |-> -1, next |-> 0, stage |-> "none"]

\* Values a vertex can have: not reached yet, or what a query stores.
Unreached == IF query.app = "bfs" THEN 1000000000 ELSE 2147483647 - 1000

\* io.Pipe: each batch goes to every other host.
Send(p, pairs) ==
  inflight' = [inflight EXCEPT ![p] =
                 [h \in Host |-> IF h \in Remote(p) THEN @[h] \cup pairs ELSE @[h]]]

-----------------------------------------------------------------------------
(***************************************************************************)
(* LoadMem: what every vertex of the partition starts with, and which are  *)
(* active.                                                                 *)
(***************************************************************************)
\* sssp starts from vertex 0, bfs from the source of the request.
Origin == IF query.app = "sssp" THEN 0 ELSE query.source
FirstValue(v) ==
  IF query.app = "cc" THEN v ELSE IF v = Origin THEN 0 ELSE Unreached
FirstActive(p) == IF query.app = "cc" THEN Own(p) ELSE Own(p) \cap {Origin}

LoadMem(p) ==
  /\ phase[p] = "load"
  /\ label' = [label EXCEPT ![HostOf(p)] =
                 [v \in Vertex |-> IF v \in Own(p) THEN FirstValue(v) ELSE @[v]]]
  /\ activate' = [activate EXCEPT ![p] = FirstActive(p)]
  /\ Send(p, { << v, FirstValue(v) >> : v \in Own(p) })
  /\ phase' = [phase EXCEPT ![p] = "loading"]
  /\ UNCHANGED << query, active, work, scan, unsent >>

-----------------------------------------------------------------------------
(***************************************************************************)
(* gas and Calc of one round.                                              *)
(***************************************************************************)
Ascending(S) ==
  { s \in SetToSeqs(S) : \A i, j \in DOMAIN s : i < j => s[i] < s[j] }

Begin(p) ==
  /\ phase[p] = "dispatched"
  /\ \E s \in Ascending(active \cap Own(p)) : work' = [work EXCEPT ![p] = s]
  /\ phase' = [phase EXCEPT ![p] = "calc"]
  /\ UNCHANGED << query, label, active, activate, scan, unsent, inflight >>

\* What a visit carries along the edges: val := GetVertexVal(0, x), for bfs x itself.
Carried(h, u) == IF query.app = "bfs" THEN u ELSE label[h][u]

\* Faulty: the last edge is left out.
EdgesLeftEarly(u, next) == next < Len(OutEdge[u])
EdgesLeft(u, next) == next <= Len(OutEdge[u])

\* The scan of u stands before its edge next, or is over.
ScanAt(u, value, next) ==
  IF EdgesLeft(u, next)
    THEN [vertex |-> u, value |-> value, next |-> next, stage |-> "check"]
    ELSE NoScan

\* x := activeVertex[0]
Visit(p) ==
  /\ phase[p] = "calc"
  /\ scan[p] = NoScan
  /\ work[p] # << >>
  /\ LET u == Head(work[p]) IN scan' = [scan EXCEPT ![p] = ScanAt(u, Carried(HostOf(p), u), 1)]
  /\ work' = [work EXCEPT ![p] = Tail(@)]
  /\ UNCHANGED << query, label, phase, active, activate, unsent, inflight >>

Target(p) == OutEdge[scan[p].vertex][scan[p].next]
NextEdge(p) ==
  scan' = [scan EXCEPT ![p] = ScanAt(@.vertex, @.value, @.next + 1)]

\* What is offered to the target of the edge; faulty: sssp forgets the weight.
Unweighted(p) == scan[p].value
Offer(p) ==
  IF query.app = "sssp"
    THEN scan[p].value + OutWeight[scan[p].vertex][scan[p].next]
    ELSE scan[p].value

\* A vertex of this partition is visited again in this round, any other is active in the
\* next one.  Faulty: only the latter.
ReactivateRemote(p, v) ==
  /\ activate' = [activate EXCEPT ![p] = IF v \in Own(p) THEN @ ELSE @ \cup {v}]
  /\ UNCHANGED work
Reactivate(p, v) ==
  IF v \in Own(p)
    THEN work' = [work EXCEPT ![p] = Append(@, v)] /\ UNCHANGED activate
    ELSE activate' = [activate EXCEPT ![p] = @ \cup {v}] /\ UNCHANGED work

\* The pair joins the batch, which is sent once it is long enough.
Record(p, pair) ==
  LET batch == unsent[p] \cup {pair}
  IN  IF 2 * Cardinality(batch) + 1 >= SendThreshold
        THEN Send(p, batch) /\ unsent' = [unsent EXCEPT ![p] = {}]
        ELSE unsent' = [unsent EXCEPT ![p] = batch] /\ UNCHANGED inflight

\* The test before the write; faulty: bfs takes a lower parent, as cc a lower label.
ImprovesIfLower(p) == Offer(p) < label[HostOf(p)][Target(p)]
Improves(p) ==
  LET old == label[HostOf(p)][Target(p)]
  IN  IF query.app = "bfs" THEN old = Unreached ELSE Offer(p) < old

Compare(p) ==
  /\ scan[p].stage = "check"
  /\ IF Improves(p) THEN scan' = [scan EXCEPT ![p].stage = "store"] ELSE NextEdge(p)
  /\ UNCHANGED << query, label, phase, active, activate, work, unsent, inflight >>

\* AggregateVertexVal with MIN_CAS lowers the value now there; bfs calls SetVertexVal.
Stored(old, val) == IF query.app = "bfs" \/ val < old THEN val ELSE old

\* cc asks whether its compare-and-swap succeeded.
Wins(p) == query.app = "cc" => Offer(p) < label[HostOf(p)][Target(p)]

Store(p) ==
  /\ scan[p].stage = "store" /\ Wins(p)
  /\ label' = [label EXCEPT ![HostOf(p)][Target(p)] = Stored(@, Offer(p))]
  /\ Reactivate(p, Target(p))
  /\ Record(p, << Target(p), Offer(p) >>)
  /\ NextEdge(p)
  /\ UNCHANGED << query, phase, active >>

StoreLost(p) ==
  /\ scan[p].stage = "store" /\ ~Wins(p)
  /\ NextEdge(p)
  /\ UNCHANGED << query, label, phase, active, activate, work, unsent, inflight >>

\* activeVertex is empty: the last batch is sent and the writers are closed.
FlushBatch(p) ==
  /\ phase[p] = "calc"
  /\ scan[p] = NoScan /\ work[p] = << >>
  /\ Send(p, unsent[p])
  /\ unsent' = [unsent EXCEPT ![p] = {}]
  /\ phase' = [phase EXCEPT ![p] = "pushing"]
  /\ UNCHANGED << query, label, active, activate, work, scan >>

\* set_vertex_info applies a pair: Aggregate-Op is "" while loading and for bfs, MIN_CAS
\* otherwise.  Faulty: FLOAT_ADD in a round.
AggregatedSum(p, old, val) == IF phase[p] = "loading" THEN val ELSE old + val
Aggregated(p, old, val) ==
  IF phase[p] = "loading" THEN val ELSE Stored(old, val)

Deliver(p, h, e) ==
  /\ e \in inflight[p][h]
  /\ label' = [label EXCEPT ![h][e[1]] = Aggregated(p, @, e[2])]
  /\ inflight' = [inflight EXCEPT ![p][h] = @ \ {e}]
  /\ UNCHANGED << query, phase, active, activate, work, scan, unsent >>

\* wg.Wait: every host has answered the pushes; faulty: it is left out.
PushesIgnored(p) == TRUE
PushesAnswered(p) == \A h \in Host : inflight[p][h] = {}

Reply(p) ==
  /\ phase[p] \in {"loading", "pushing"}
  /\ PushesAnswered(p)
  /\ phase' = [phase EXCEPT ![p] = "replied"]
  /\ UNCHANGED << query, label, active, activate, work, scan, unsent, inflight >>

-----------------------------------------------------------------------------
(***************************************************************************)
(* The coordinator ORs the answers and dispatches the next round.          *)
(***************************************************************************)
Barrier == \A p \in Partition : phase[p] = "replied"
\* Faulty: into the bitmap of this round.
AnsweredToo == active \cup UNION { activate[p] : p \in Partition }
Answered == UNION { activate[p] : p \in Partition }

Dispatch ==
  /\ Barrier
  /\ Answered # {}
  /\ active' = Answered
  /\ activate' = [p \in Partition |-> {}]
  /\ phase' = [p \in Partition |-> "dispatched"]
  /\ UNCHANGED << query, label, work, scan, unsent, inflight >>

\* activeSet.Empty(): the loop ends.
Finished == Barrier /\ Answered = {}

-----------------------------------------------------------------------------
Init ==
  /\ query \in Query
  /\ label = [h \in Host |-> [v \in Vertex |-> 0]]
  /\ phase = [p \in Partition |-> "load"]
  /\ active = {}
  /\ activate = [p \in Partition |-> {}]
  /\ work = [p \in Partition |-> << >>]
  /\ scan = [p \in Partition |-> NoScan]
  /\ unsent = [p \in Partition |-> {}]
  /\ inflight = [p \in Partition |-> [h \in Host |-> {}]]

Executor(p) ==
  \/ LoadMem(p) \/ Begin(p) \/ Visit(p) \/ Compare(p) \/ Store(p) \/ StoreLost(p)
  \/ FlushBatch(p) \/ (\E h \in Host : \E e \in inflight[p][h] : Deliver(p, h, e)) \/ Reply(p)

Next == (\E p \in Partition : Executor(p)) \/ Dispatch

Spec == Init /\ [][Next]_vars

\* Executors and the coordinator keep running and pushed pairs are applied.
Fairness == (\A p \in Partition : WF_vars(Executor(p))) /\ WF_vars(Dispatch)
FairSpec == Spec /\ Fairness

-----------------------------------------------------------------------------
(***************************************************************************)
(* Properties.                                                             *)
(***************************************************************************)
Phases == {"load", "loading", "dispatched", "calc", "pushing", "replied"}
Values == 0 .. Unreached
Pair == Vertex \X Values
Scans == [vertex : Vertex, value : Values, next : Nat \ {0}, stage : {"check", "store"}]
           \cup {NoScan}

\* Types of the arrays, bitmaps and buffers: no value exceeds that of an unreached vertex.
TypeOK ==
  /\ query \in Query
  /\ \A h \in Host, v \in Vertex : label[h][v] \in Values
  /\ phase \in [Partition -> Phases]
  /\ active \subseteq Vertex
  /\ \A p \in Partition :
       /\ activate[p] \subseteq Vertex
       /\ work[p] \in Seq(Vertex)
       /\ scan[p] \in Scans
       /\ unsent[p] \subseteq Pair
       /\ \A h \in Host : inflight[p][h] \subseteq Pair

\* The reference: what is reached from a vertex, and the least weight of a path to it, of
\* which there is one with fewer than |Vertex| edges.
Reached ==
  LET within[n \in Nat] ==
        IF n = 0 THEN [v \in Vertex |-> {v}]
        ELSE [v \in Vertex |-> within[n-1][v] \cup
                UNION { { OutEdge[u][i] : i \in 1 .. Len(OutEdge[u]) } : u \in within[n-1][v] }]
  IN  within[Cardinality(Vertex)]

Least(S) == CHOOSE x \in S : \A y \in S : x <= y
Distance ==
  LET within[n \in Nat] ==
        IF n = 0 THEN [v \in Vertex |-> IF v = 0 THEN 0 ELSE 2147483647 - 1000]
        ELSE [v \in Vertex |->
                Least({within[n-1][v]} \cup
                      UNION { { within[n-1][u] + OutWeight[u][i] :
                                  i \in { j \in 1 .. Len(OutEdge[u]) : OutEdge[u][j] = v } } :
                              u \in Reached[0] })]
  IN  within[Cardinality(Vertex)]

\* A parent that bfs may store.
ParentOf(v, u) == u \in Reached[Origin] /\ Adjacent(u, v)

Loaded == \A p \in Partition : phase[p] \notin {"load", "loading"}
Finding(app) == query.app = app /\ Loaded

\* From the first round on every value is justified by the graph, whatever pushes and
\* writes interleave: a label of cc is a vertex of the same component and not above the
\* vertex, a distance of sssp is at least the true one, and a parent of bfs is a reached
\* vertex with an edge to its child, while the source keeps the value 0.
ValuesJustified ==
  \A h \in Hosts, v \in Vertex :
    /\ Finding("cc") => label[h][v] <= v /\ label[h][v] \in Reached[v]
    /\ Finding("sssp") => label[h][v] >= Distance[v]
    /\ Finding("bfs") =>
         IF v = Origin THEN label[h][v] = 0
         ELSE label[h][v] = Unreached \/ ParentOf(v, label[h][v])

\* What will still visit the edge u -> v.
Pending(u, v) ==
  LET p == PartitionOf[u]
  IN  \/ \E i \in 1 .. Len(work[p]) : work[p][i] = u
      \/ /\ scan[p].vertex = u
         /\ scan[p].value <= Carried(HostOf(p), u)
         /\ \E i \in 1 .. Len(OutEdge[u]) : i >= scan[p].next /\ OutEdge[u][i] = v
      \/ phase[p] = "dispatched" /\ u \in active
      \/ \E q \in Partition : u \in activate[q]

\* An edge whose target could be improved in the array of its source's partition.
Improvable(h, u, i) ==
  LET old == label[h][OutEdge[u][i]]
  IN  CASE query.app = "cc"   -> label[h][u] < old
        [] query.app = "sssp" -> label[h][u] < Unreached /\ label[h][u] + OutWeight[u][i] < old
        [] query.app = "bfs"  -> label[h][u] < Unreached /\ old = Unreached

\* No vertex is forgotten: if an edge could still improve its target, its source is queued,
\* being walked, or in a bitmap that the coordinator will dispatch, although other
\* partitions and hosts write both ends without any lock.
NoLostWork ==
  Loaded => \A u \in Vertex : \A i \in 1 .. Len(OutEdge[u]) :
    Improvable(HostOf(PartitionOf[u]), u, i) => Pending(u, OutEdge[u][i])

\* At every barrier all hosts hold the same values, for bfs the same vertices as reached:
\* a push that lost its race did no harm and none is outstanding.
AgreeAtBarrier ==
  Barrier => \A g, h \in Hosts, v \in Vertex :
    IF query.app = "bfs"
      THEN (label[g][v] = Unreached) <=> (label[h][v] = Unreached)
      ELSE label[g][v] = label[h][v]

\* The last vertex on the way from v along the parents of host h, up to the source.
Climb(h, v) ==
  LET up[n \in Nat] ==
        IF n = 0 THEN v ELSE IF up[n-1] = Origin THEN Origin ELSE label[h][up[n-1]]
  IN  up[Cardinality(Vertex)]

\* When the query ends every label is the least vertex of its component, every distance the
\* least weight of a path from vertex 0, and bfs has given every vertex reached from its
\* source a parent and no other vertex.  On a single host the parents lead to the source,
\* although two partitions may both see a vertex without a parent and both store one.  (On
\* several hosts the arrays may differ and lead in a circle.)
ResultFound ==
  Finished => \A h \in Hosts, v \in Vertex :
    CASE query.app = "cc"   -> label[h][v] = Least(Reached[v])
      [] query.app = "sssp" -> label[h][v] = Distance[v]
      [] query.app = "bfs"  ->
           /\ label[h][v] # Unreached <=> v \in Reached[Origin]
           /\ v \in Reached[Origin] /\ Cardinality(Hosts) = 1 => Climb(h, v) = Origin

\* The coordinator's rounds come to an end.
Terminates == <>Finished
=============================================================================
