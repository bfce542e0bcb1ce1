------------------------ MODULE LabelPropagationProofs ------------------------
(***************************************************************************)
(* Theorems about the push queries, for every graph, partitioning, number  *)
(* of hosts and batch size: no vertex whose edges could still improve a    *)
(* value is forgotten, at a barrier all hosts agree, every value is        *)
(* justified by the graph, and what a query ends with is its result.       *)
(***************************************************************************)
EXTENDS LabelPropagation, FiniteSums, FiniteSetTheorems, SequenceTheorems, TLAPS

-----------------------------------------------------------------------------
(***************************************************************************)
(* The inductive invariant.                                                *)
(***************************************************************************)
Typed ==
  /\ query \in Query
  /\ label \in [Host -> [Vertex -> Values]]
  /\ phase \in [Partition -> Phases]
  /\ active \in SUBSET Vertex
  /\ activate \in [Partition -> SUBSET Vertex]
  /\ work \in [Partition -> Seq(Vertex)]
  /\ scan \in [Partition -> Scans]
  /\ unsent \in [Partition -> SUBSET Pair]
  /\ inflight \in [Partition -> [Host -> SUBSET Pair]]

\* A partition works in Calc only, and pushes from Load or Calc to its answer.
Idle ==
  \A p \in Partition :
    /\ phase[p] # "calc" => work[p] = << >> /\ scan[p] = NoScan /\ unsent[p] = {}
    /\ \A h \in Host : inflight[p][h] # {} =>
         h \in Remote(p) /\ phase[p] \in {"loading", "calc", "pushing"}

\* It visits its own vertices, at an edge they have, and stores what is less than unreached.
Walking ==
  \A p \in Partition :
    /\ \A i \in 1 .. Len(work[p]) : work[p][i] \in Own(p)
    /\ scan[p] # NoScan =>
         /\ scan[p].vertex \in Own(p)
         /\ scan[p].next \in 1 .. Len(OutEdge[scan[p].vertex])
         /\ query.app = "bfs" => scan[p].value = scan[p].vertex
         /\ scan[p].stage = "store" => Offer(p) < Unreached

\* While some partition loads, none computes, and those that have loaded have told or are
\* telling every host what their vertices start with.
Starting ==
  ~Loaded => \A p \in Partition :
    /\ phase[p] \in {"load", "loading", "replied"}
    /\ phase[p] # "load" =>
         /\ activate[p] = FirstActive(p)
         /\ \A h \in Host : inflight[p][h] \subseteq { << v, FirstValue(v) >> : v \in Own(p) }
         /\ \A v \in Own(p), h \in Hosts :
              \/ label[h][v] = FirstValue(v)
              \/ h # HostOf(p) /\ << v, FirstValue(v) >> \in inflight[p][h]

\* x is at least as good as y: lower, or for bfs, reached if y is.
AsGood(x, y) ==
  /\ query.app = "bfs" => (y # Unreached => x # Unreached)
  /\ query.app # "bfs" => x <= y

\* p has the pair for host h.
Out(p, h, e) == e \in unsent[p] \/ e \in inflight[p][h]

\* A pair on its way activates its vertex, is already in the array of its sender, and
\* reaches all hosts if it reaches one.
Pushed ==
  Loaded => \A p \in Partition : \A h \in Remote(p), e \in Pair : Out(p, h, e) =>
    /\ e[1] \in Own(p) \/ e[1] \in activate[p]
    /\ e[2] < Unreached
    /\ AsGood(label[HostOf(p)][e[1]], e[2])
    /\ \A g \in Remote(p) : Out(p, g, e) \/ AsGood(label[g][e[1]], e[2])

\* What one host has, any other has too or will be told.
Agreeing ==
  Loaded => \A g, h \in Hosts, v \in Vertex :
    \/ AsGood(label[h][v], label[g][v])
    \/ \E p \in Partition, e \in Pair :
         h \in Remote(p) /\ Out(p, h, e) /\ e[1] = v /\ AsGood(e[2], label[g][v])

\* The edge i of u will be walked: u is queued or will be dispatched, or its scan has a value
\* no worse than the present one and has not come to the edge.
Queued(u) ==
  \/ \E i \in 1 .. Len(work[PartitionOf[u]]) : work[PartitionOf[u]][i] = u
  \/ phase[PartitionOf[u]] = "dispatched" /\ u \in active
  \/ \E q \in Partition : u \in activate[q]
Walked(u, i) ==
  LET p == PartitionOf[u]
  IN  scan[p].vertex = u /\ scan[p].value <= Carried(HostOf(p), u) /\ i >= scan[p].next

EdgesPending ==
  Loaded => \A u \in Vertex : \A i \in 1 .. Len(OutEdge[u]) :
    Improvable(HostOf(PartitionOf[u]), u, i) => Queued(u) \/ Walked(u, i)

IInv == Typed /\ Idle /\ Walking /\ Starting /\ Pushed /\ Agreeing /\ EdgesPending

-----------------------------------------------------------------------------
(***************************************************************************)
(* Facts about values, sequences and scans.                                *)
(***************************************************************************)
LEMMA QueryType ==
  ASSUME Typed
  PROVE  /\ query.app \in {"cc", "sssp", "bfs"} /\ query.source \in Vertex
         /\ Unreached \in Nat
         /\ Hosts \subseteq Host
         /\ \A p \in Partition : /\ HostOf(p) \in Hosts /\ HostOf(p) \notin Remote(p)
                                 /\ Remote(p) \subseteq Hosts
         /\ \A p \in Partition : \A h \in Hosts : h # HostOf(p) => h \in Remote(p)
<1>1. query \in [app : {"cc", "sssp", "bfs"}, source : Vertex, hostOf : [Partition -> Host]]
  BY QueryAssumption DEF Typed
<1>2. Unreached \in Nat
  BY SMT DEF Unreached
<1> QED
  BY <1>1, <1>2 DEF Hosts, HostOf, Remote

\* What the graph's assumption says of a vertex and its edges.
LEMMA GraphTypes ==
  /\ IsFiniteSet(Vertex)
  /\ \A v \in Vertex : /\ v \in Nat /\ v # -1 /\ v < Unreached
                       /\ OutEdge[v] \in Seq(Vertex) /\ Len(OutEdge[v]) \in Nat
                       /\ PartitionOf[v] \in Partition
                       /\ \A i \in 1 .. Len(OutEdge[v]) :
                            OutEdge[v][i] \in Vertex /\ OutWeight[v][i] \in Nat
<1>1. \A v \in Vertex : v \in Nat /\ v # -1 /\ v < Unreached
  BY GraphAssumption, SMT DEF Unreached
<1>2. \A v \in Vertex : /\ OutEdge[v] \in Seq(Vertex)
                        /\ OutWeight[v] \in [1 .. Len(OutEdge[v]) -> Nat]
                        /\ PartitionOf[v] \in Partition
  BY GraphAssumption, SMT
<1>3. IsFiniteSet(Vertex)
  BY GraphAssumption, SMT
<1> QED
  BY <1>1, <1>2, <1>3

\* The vertices of a partition.
LEMMA OwnType ==
  \A p \in Partition : /\ Own(p) \subseteq Vertex /\ IsFiniteSet(Own(p))
                       /\ \A v \in Own(p) : PartitionOf[v] = p
  BY GraphTypes, FS_Subset DEF Own

\* The value LoadMem stores first is a value of the query.
LEMMA FirstValueType ==
  ASSUME Typed, NEW v \in Vertex
  PROVE  FirstValue(v) \in Values
<1>1. v \in Nat /\ v < Unreached /\ Unreached \in Nat
  BY QueryType, GraphTypes
<1> QED
  BY <1>1 DEF FirstValue, Values

\* Being as good is a preorder.
LEMMA AsGoodOrder ==
  ASSUME NEW x \in Int, NEW y \in Int, NEW z \in Int
  PROVE  /\ AsGood(x, x)
         /\ AsGood(x, y) /\ AsGood(y, z) => AsGood(x, z)
  BY DEF AsGood

\* What is stored is one of the two values and as good as both.
LEMMA StoredBest ==
  ASSUME Typed, NEW old \in Values, NEW val \in Values, val < Unreached
  PROVE  /\ Stored(old, val) \in Values
         /\ Stored(old, val) = old \/ Stored(old, val) = val
         /\ AsGood(Stored(old, val), old) /\ AsGood(Stored(old, val), val)
<1>1. old \in Int /\ val \in Int /\ Unreached \in Int
  BY QueryType DEF Values
<1> QED
  BY <1>1 DEF Stored, AsGood

\* The members of a sequence with one more.
LEMMA AppendMembers ==
  ASSUME NEW X, NEW q \in Seq(X), NEW x \in X
  PROVE  /\ Append(q, x) \in Seq(X)
         /\ \A y : (\E i \in 1 .. Len(Append(q, x)) : Append(q, x)[i] = y)
                     <=> y = x \/ \E i \in 1 .. Len(q) : q[i] = y
<1>1. /\ Append(q, x) \in Seq(X) /\ Len(Append(q, x)) = Len(q) + 1 /\ Len(q) \in Nat
      /\ Append(q, x)[Len(q) + 1] = x /\ \A i \in 1 .. Len(q) : Append(q, x)[i] = q[i]
  OBVIOUS
<1>2. 1 .. Len(q) + 1 = (1 .. Len(q)) \cup {Len(q) + 1}
  BY <1>1
<1> QED
  BY <1>1, <1>2

\* The members of a sequence without its head.
LEMMA TailMembers ==
  ASSUME NEW X, NEW q \in Seq(X), q # << >>
  PROVE  /\ Tail(q) \in Seq(X) /\ Head(q) \in X
         /\ \A y : (\E i \in 1 .. Len(q) : q[i] = y)
                     <=> y = Head(q) \/ \E i \in 1 .. Len(Tail(q)) : Tail(q)[i] = y
<1>1. /\ Tail(q) \in Seq(X) /\ Head(q) = q[1] /\ Len(q) \in Nat \ {0} /\ Head(q) \in X
      /\ Len(Tail(q)) = Len(q) - 1 /\ \A i \in 1 .. Len(q) - 1 : Tail(q)[i] = q[i + 1]
  OBVIOUS
<1>2. PICK n \in Nat \ {0} : n = Len(q)
  BY <1>1
<1>3. ASSUME NEW y, NEW i \in 1 .. n, q[i] = y
      PROVE  y = Head(q) \/ \E j \in 1 .. n - 1 : Tail(q)[j] = y
  <2>1. CASE i = 1
    BY <1>1, <1>3, <2>1
  <2>2. CASE i # 1
    <3>1. i - 1 \in 1 .. n - 1 /\ (i - 1) + 1 = i
      BY <2>2
    <3>2. Tail(q)[i - 1] = q[i]
      BY <1>1, <1>2, <3>1
    <3> QED
      BY <1>3, <3>1, <3>2
  <2> QED
    BY <2>1, <2>2
<1>4. ASSUME NEW y, NEW j \in 1 .. n - 1, Tail(q)[j] = y
      PROVE  \E i \in 1 .. n : q[i] = y
  <2>1. j + 1 \in 1 .. n /\ q[j + 1] = y
    BY <1>1, <1>2, <1>4
  <2> QED
    BY <2>1
<1>5. 1 \in 1 .. n
  OBVIOUS
<1> QED
  BY <1>1, <1>2, <1>3, <1>4, <1>5

\* The active vertices in ascending order are the active vertices.
LEMMA AscendingAll ==
  ASSUME NEW S, IsFiniteSet(S), NEW s \in Ascending(S)
  PROVE  /\ s \in Seq(S)
         /\ \A y : (\E i \in 1 .. Len(s) : s[i] = y) <=> y \in S
<1>1. PICK n \in Nat : n = Cardinality(S)
  BY FS_CardinalityType
<1>2. /\ s \in [1 .. n -> S]
      /\ \A i, j \in 1 .. n : i # j => s[i] # s[j]
  BY <1>1 DEF Ascending, SetToSeqs
<1>3. s \in Seq(S) /\ Len(s) = n
  BY <1>2
<1>4. s \in Injection(1 .. n, S)
  BY <1>2 DEF Injection, IsInjective
<1>5. Cardinality(1 .. n) = n
  BY FS_Interval
<1>6. s \in Surjection(1 .. n, S)
  BY <1>1, <1>4, <1>5, FS_Injection
<1>7. \A y \in S : \E i \in 1 .. n : s[i] = y
  BY <1>6 DEF Surjection
<1> QED
  BY <1>2, <1>3, <1>7

\* A scan stands before an edge of its vertex or is over.
LEMMA ScanAtType ==
  ASSUME Typed, NEW u \in Vertex, NEW value \in Values, NEW next \in Nat \ {0}
  PROVE  /\ ScanAt(u, value, next) \in Scans
         /\ next <= Len(OutEdge[u]) =>
              /\ ScanAt(u, value, next).vertex = u /\ ScanAt(u, value, next).value = value
              /\ ScanAt(u, value, next).next = next /\ ScanAt(u, value, next).stage = "check"
         /\ ~(next <= Len(OutEdge[u])) => ScanAt(u, value, next) = NoScan
  BY DEF ScanAt, EdgesLeft, Scans, NoScan

\* A scan is at an edge of a vertex, or there is none.
LEMMA ScanType ==
  ASSUME Typed, NEW p \in Partition
  PROVE  /\ scan[p] # NoScan =>
              /\ scan[p] \in [vertex : Vertex, value : Values, next : Nat \ {0},
                              stage : {"check", "store"}]
              /\ scan[p].vertex \in Vertex /\ scan[p].value \in Values
              /\ scan[p].next \in Nat \ {0} /\ scan[p].stage \in {"check", "store"}
         /\ scan[p] = NoScan => scan[p].stage = "none" /\ scan[p].vertex \notin Vertex
<1>1. scan[p] \in Scans
  BY DEF Typed
<1>2. -1 \notin Vertex
  BY GraphTypes
<1> QED
  BY <1>1, <1>2 DEF Scans, NoScan

\* The edge a scan stands before and what it offers.
LEMMA EdgeOfScan ==
  ASSUME Typed, Walking, NEW p \in Partition, scan[p] # NoScan
  PROVE  /\ Target(p) \in Vertex /\ Offer(p) \in Nat
         /\ query.app # "sssp" => Offer(p) = scan[p].value
         /\ query.app = "bfs" => Offer(p) = scan[p].vertex /\ Offer(p) < Unreached
<1>1. /\ scan[p].vertex \in Vertex /\ scan[p].value \in Values
      /\ scan[p].next \in 1 .. Len(OutEdge[scan[p].vertex])
      /\ query.app = "bfs" => scan[p].value = scan[p].vertex
  BY ScanType DEF Walking
<1>2. /\ OutEdge[scan[p].vertex][scan[p].next] \in Vertex
      /\ OutWeight[scan[p].vertex][scan[p].next] \in Nat
      /\ scan[p].vertex < Unreached
  BY <1>1, GraphTypes
<1>3. scan[p].value \in Nat
  BY <1>1, QueryType DEF Values
<1>4. Target(p) \in Vertex
  BY <1>2 DEF Target
<1>5. PICK s \in Nat, w \in Nat : /\ s = scan[p].value
                                /\ w = OutWeight[scan[p].vertex][scan[p].next]
  BY <1>2, <1>3
<1>6. Offer(p) = IF query.app = "sssp" THEN s + w ELSE s
  BY <1>5 DEF Offer
<1> QED
  BY <1>1, <1>2, <1>4, <1>5, <1>6, SMTT(30)

-----------------------------------------------------------------------------
(***************************************************************************)
(* Values only get better in a round, and what a step changes in one array *)
(* the others have or will be told.                                        *)
(***************************************************************************)
LEMMA ValuesInt ==
  ASSUME Typed
  PROVE  /\ \A h \in Host, v \in Vertex : label[h][v] \in Int
         /\ \A e \in Pair : e[1] \in Vertex /\ e[2] \in Int
  BY QueryType DEF Typed, Values, Pair

\* The derived sets depend on the running query alone.
LEMMA QueryFixed ==
  ASSUME query' = query
  PROVE  /\ Hosts' = Hosts /\ Unreached' = Unreached /\ Values' = Values /\ Pair' = Pair
         /\ Scans' = Scans
         /\ \A p \in Partition : HostOf(p)' = HostOf(p) /\ Remote(p)' = Remote(p)
<1>1. Hosts' = Hosts /\ \A p \in Partition : HostOf(p)' = HostOf(p) /\ Remote(p)' = Remote(p)
  BY DEF Hosts, HostOf, Remote
<1>2. Unreached' = Unreached
  BY SMT DEF Unreached
<1>3. Values' = Values
  BY <1>2 DEF Values
<1>4. Pair' = Pair /\ Scans' = Scans
  BY <1>3 DEF Pair, Scans
<1> QED
  BY <1>1, <1>2, <1>3, <1>4

\* A step that makes labels no worse, and lets a pair leave a pipe only when its label is
\* stored, keeps what the invariant says of pushes.
LEMMA PushKeeps ==
  ASSUME Typed, Typed', Pushed, Agreeing, Loaded, query' = query,
         \A h \in Host, v \in Vertex : AsGood(label'[h][v], label[h][v]),
         \A p \in Partition : activate[p] \subseteq activate'[p],
         \A p \in Partition : \A h \in Remote(p), e \in Pair : Out(p, h, e)' =>
           \/ Out(p, h, e)
           \/ /\ e[1] \in Own(p) \/ e[1] \in activate'[p]
              /\ e[2] < Unreached /\ AsGood(label'[HostOf(p)][e[1]], e[2])
              /\ \A g \in Remote(p) : Out(p, g, e)',
         \A p \in Partition : \A h \in Remote(p), e \in Pair : Out(p, h, e) =>
           Out(p, h, e)' \/ AsGood(label'[h][e[1]], e[2]),
         \A g \in Hosts, v \in Vertex :
           \/ label'[g][v] = label[g][v]
           \/ \E q \in Partition, e \in Pair :
                /\ e[1] = v /\ label'[g][v] = e[2]
                /\ \A h \in Hosts : \/ h \in Remote(q) /\ Out(q, h, e)'
                                    \/ AsGood(label'[h][v], e[2])
  PROVE  Pushed' /\ Agreeing'
<1>1. /\ \A h \in Host, v \in Vertex : label[h][v] \in Int /\ label'[h][v] \in Int
      /\ \A e \in Pair : e[1] \in Vertex /\ e[2] \in Int
  <2>1. \A h \in Host, v \in Vertex : label'[h][v] \in Values
    BY QueryFixed DEF Typed
  <2> QED
    BY <2>1, ValuesInt, QueryType DEF Values
<1>2. \A p \in Partition : HostOf(p) \in Host /\ \A h \in Remote(p) : h \in Host
  BY QueryType
<1>3. Pushed'
  <2>1. ASSUME NEW p \in Partition, NEW h \in Remote(p), NEW e \in Pair, Out(p, h, e)'
        PROVE  /\ e[1] \in Own(p) \/ e[1] \in activate'[p]
               /\ e[2] < Unreached
               /\ AsGood(label'[HostOf(p)][e[1]], e[2])
               /\ \A g \in Remote(p) : Out(p, g, e)' \/ AsGood(label'[g][e[1]], e[2])
    <3>1. CASE Out(p, h, e)
      <4>1. /\ e[1] \in Own(p) \/ e[1] \in activate[p]
            /\ e[2] < Unreached
            /\ AsGood(label[HostOf(p)][e[1]], e[2])
            /\ \A g \in Remote(p) : Out(p, g, e) \/ AsGood(label[g][e[1]], e[2])
        BY <3>1 DEF Pushed
      <4>2. AsGood(label'[HostOf(p)][e[1]], e[2])
        BY <1>1, <1>2, <4>1, AsGoodOrder
      <4>3. ASSUME NEW g \in Remote(p), ~Out(p, g, e)'
            PROVE  AsGood(label'[g][e[1]], e[2])
        <5>1. Out(p, g, e) => AsGood(label'[g][e[1]], e[2])
          BY <4>3
        <5>2. AsGood(label[g][e[1]], e[2]) => AsGood(label'[g][e[1]], e[2])
          BY <1>1, <1>2, AsGoodOrder
        <5> QED
          BY <4>1, <5>1, <5>2
      <4> QED
        BY <4>1, <4>2, <4>3
    <3>2. CASE ~Out(p, h, e)
      BY <2>1, <3>2
    <3> QED
      BY <3>1, <3>2
  <2> QED
    BY <2>1, QueryFixed DEF Pushed, AsGood
<1>4. Agreeing'
  <2>1. ASSUME NEW g \in Hosts, NEW h \in Hosts, NEW v \in Vertex
        PROVE  \/ AsGood(label'[h][v], label'[g][v])
               \/ \E p \in Partition, e \in Pair :
                    h \in Remote(p) /\ Out(p, h, e)' /\ e[1] = v /\ AsGood(e[2], label'[g][v])
    <3>1. g \in Host /\ h \in Host
      BY QueryType
    <3>2. CASE label'[g][v] = label[g][v]
      <4>1. CASE AsGood(label[h][v], label[g][v])
        BY <1>1, <3>1, <3>2, <4>1, AsGoodOrder
      <4>2. ASSUME NEW p \in Partition, NEW e \in Pair, h \in Remote(p), Out(p, h, e), e[1] = v,
                   AsGood(e[2], label[g][v]), ~Out(p, h, e)'
            PROVE  AsGood(label'[h][v], label'[g][v])
        <5>1. AsGood(label'[h][v], e[2])
          BY <4>2
        <5> QED
          BY <1>1, <3>1, <3>2, <4>2, <5>1, AsGoodOrder
      <4> QED
        BY <3>2, <4>1, <4>2 DEF Agreeing
    <3>3. CASE label'[g][v] # label[g][v]
      <4>1. PICK q \in Partition, e \in Pair :
              /\ e[1] = v /\ label'[g][v] = e[2]
              /\ (h \in Remote(q) /\ Out(q, h, e)') \/ AsGood(label'[h][v], e[2])
        BY <3>3
      <4>2. AsGood(e[2], label'[g][v])
        BY <1>1, <4>1, AsGoodOrder
      <4> QED
        BY <4>1, <4>2
    <3> QED
      BY <3>2, <3>3
  <2> QED
    BY <2>1, QueryFixed DEF Agreeing, AsGood
<1> QED
  BY <1>3, <1>4

\* A step that leaves values and pairs alone.
LEMMA PushFixed ==
  ASSUME Typed, Pushed, Agreeing, Loaded, UNCHANGED << query, label, unsent, inflight >>,
         \A p \in Partition : activate[p] \subseteq activate'[p]
  PROVE  Pushed' /\ Agreeing'
<1>1. Pushed'
  BY QueryFixed DEF Pushed, AsGood, Out
<1>2. Agreeing'
  BY QueryFixed DEF Agreeing, AsGood, Out
<1> QED
  BY <1>1, <1>2

-----------------------------------------------------------------------------
(***************************************************************************)
(* Edges that could improve a value stay pending.                          *)
(***************************************************************************)

\* The three kinds of improvement.
LEMMA ImprovableIs ==
  ASSUME Typed, NEW h \in Host, NEW u \in Vertex, NEW i \in 1 .. Len(OutEdge[u])
  PROVE  /\ query.app = "cc" =>
              (Improvable(h, u, i) <=> label[h][u] < label[h][OutEdge[u][i]])
         /\ query.app = "sssp" =>
              (Improvable(h, u, i) <=> /\ label[h][u] < Unreached
                                       /\ label[h][u] + OutWeight[u][i] < label[h][OutEdge[u][i]])
         /\ query.app = "bfs" =>
              (Improvable(h, u, i) <=> /\ label[h][u] < Unreached
                                       /\ label[h][OutEdge[u][i]] = Unreached)
  BY QueryType DEF Improvable

\* A better value at the far end of an edge is no reason to walk it.
LEMMA ImprovableBefore ==
  ASSUME Typed, Typed', query' = query, NEW h \in Host, NEW u \in Vertex,
         NEW i \in 1 .. Len(OutEdge[u]),
         label'[h][u] = label[h][u], AsGood(label'[h][OutEdge[u][i]], label[h][OutEdge[u][i]]),
         Improvable(h, u, i)'
  PROVE  Improvable(h, u, i)
<1>1. PICK v \in Vertex, w \in Nat : v = OutEdge[u][i] /\ w = OutWeight[u][i]
  BY GraphTypes
<1>2. \A x \in Vertex : label[h][x] \in Int /\ label'[h][x] \in Int
  BY QueryFixed, QueryType DEF Typed, Values
<1>3. Unreached' = Unreached /\ Unreached \in Nat
  BY QueryFixed, QueryType
<1>4. CASE query.app = "cc"
  <2>1. label'[h][u] < label'[h][v]
    BY <1>1, <1>4 DEF Improvable
  <2>2. label'[h][v] <= label[h][v]
    BY <1>1, <1>4 DEF AsGood
  <2>3. label[h][u] < label[h][v]
    BY <1>1, <1>2, <2>1, <2>2
  <2> QED
    BY <1>1, <1>4, <2>3, ImprovableIs
<1>5. CASE query.app = "sssp"
  <2>1. label'[h][u] < Unreached /\ label'[h][u] + w < label'[h][v]
    BY <1>1, <1>3, <1>5 DEF Improvable
  <2>2. label'[h][v] <= label[h][v]
    BY <1>1, <1>5 DEF AsGood
  <2>3. label[h][u] + w < label[h][v]
    BY <1>1, <1>2, <2>1, <2>2
  <2> QED
    BY <1>1, <1>5, <2>1, <2>3, ImprovableIs
<1>6. CASE query.app = "bfs"
  <2>1. label'[h][u] < Unreached /\ label'[h][v] = Unreached
    BY <1>1, <1>3, <1>6 DEF Improvable
  <2>2. label[h][v] = Unreached
    BY <1>1, <1>6, <2>1 DEF AsGood
  <2> QED
    BY <1>1, <1>6, <2>1, <2>2, ImprovableIs
<1> QED
  BY <1>4, <1>5, <1>6, QueryType

\* A step that makes labels no worse, and leaves a vertex whose label changed queued, keeps
\* every edge that can still improve a label in someone's hands.
LEMMA PendingKeeps ==
  ASSUME Typed, Typed', EdgesPending, Loaded, query' = query,
         \A h \in Host, v \in Vertex : AsGood(label'[h][v], label[h][v]),
         \A u \in Vertex :
           \/ Queued(u)'
           \/ /\ label'[HostOf(PartitionOf[u])][u] = label[HostOf(PartitionOf[u])][u]
              /\ \A i \in 1 .. Len(OutEdge[u]) :
                   Queued(u) \/ Walked(u, i) =>
                     Walked(u, i)' \/ ~Improvable(HostOf(PartitionOf[u]), u, i)'
  PROVE  EdgesPending'
<1> SUFFICES ASSUME NEW u \in Vertex, NEW i \in 1 .. Len(OutEdge[u]),
                    Improvable(HostOf(PartitionOf[u]), u, i)', ~Queued(u)'
             PROVE  Walked(u, i)'
  BY DEF EdgesPending
<1>1. PICK h \in Host : h = HostOf(PartitionOf[u]) /\ HostOf(PartitionOf[u])' = h
  BY QueryFixed, QueryType, GraphTypes
<1>2. OutEdge[u][i] \in Vertex
  BY GraphTypes
<1>3. Improvable(h, u, i)'
  BY <1>1 DEF Improvable
<1>4. Improvable(h, u, i)
  BY <1>1, <1>2, <1>3, ImprovableBefore
<1>5. Queued(u) \/ Walked(u, i)
  BY <1>1, <1>4 DEF EdgesPending
<1> QED
  BY <1>1, <1>5

-----------------------------------------------------------------------------
(***************************************************************************)
(* Steps that only move work and scans.                                    *)
(***************************************************************************)
LEMMA LoadedKept ==
  ASSUME Typed, Loaded, NEW p \in Partition, NEW to \in Phases \ {"load", "loading"},
         phase' = [phase EXCEPT ![p] = to]
  PROVE  Loaded'
  BY DEF Typed, Loaded

\* Once the partitions are loaded, nothing is said of loading.
LEMMA StartingOver ==
  ASSUME Loaded'
  PROVE  Starting'
  BY DEF Starting

\* A runner takes the request.
LEMMA BeginKeeps ==
  ASSUME IInv, NEW p \in Partition, Begin(p)
  PROVE  IInv'
<1>1. /\ phase[p] = "dispatched"
      /\ phase' = [phase EXCEPT ![p] = "calc"]
      /\ UNCHANGED << query, label, active, activate, scan, unsent, inflight >>
  BY DEF Begin
<1>2. PICK s \in Ascending(active \cap Own(p)) : work' = [work EXCEPT ![p] = s]
  BY DEF Begin
<1>3. /\ s \in Seq(Vertex)
      /\ \A y : (\E i \in 1 .. Len(s) : s[i] = y) <=> y \in active \cap Own(p)
  <2>1. IsFiniteSet(active \cap Own(p))
    BY OwnType, FS_Subset
  <2>2. s \in Seq(active \cap Own(p))
    BY <2>1, AscendingAll
  <2> QED
    BY <2>1, <2>2, AscendingAll, OwnType
<1>4. /\ phase'[p] = "calc" /\ work'[p] = s
      /\ \A x \in Partition : x # p => phase'[x] = phase[x] /\ work'[x] = work[x]
  BY <1>1, <1>2 DEF IInv, Typed
<1>5. Loaded /\ Loaded'
  <2>1. Loaded
    BY <1>1 DEF IInv, Starting
  <2> QED
    BY <1>1, <2>1, LoadedKept DEF IInv, Phases
<1>6. Typed'
  <2>1. phase' \in [Partition -> Phases] /\ work' \in [Partition -> Seq(Vertex)]
    BY <1>1, <1>2, <1>3 DEF IInv, Typed, Phases
  <2> QED
    BY <1>1, <2>1, QueryFixed DEF IInv, Typed
<1>7. Idle'
  BY <1>1, <1>4, QueryFixed DEF IInv, Idle
<1>8. Walking'
  <2>1. \A x \in Partition : \A i \in 1 .. Len(work'[x]) : work'[x][i] \in Own(x)
    BY <1>3, <1>4 DEF IInv, Walking
  <2>2. \A x \in Partition : Offer(x)' = Offer(x)
    BY <1>1 DEF Offer
  <2> QED
    BY <1>1, <2>1, <2>2, QueryFixed DEF IInv, Walking
<1>9. Starting' /\ Pushed' /\ Agreeing'
  BY <1>1, <1>5, StartingOver, PushFixed DEF IInv
<1>10. EdgesPending'
  <2>1. \A h \in Host, v \in Vertex : AsGood(label'[h][v], label[h][v])
    BY <1>1, ValuesInt, AsGoodOrder DEF IInv
  <2>2. ASSUME NEW u \in Vertex
        PROVE  /\ Queued(u) => Queued(u)'
               /\ label'[HostOf(PartitionOf[u])][u] = label[HostOf(PartitionOf[u])][u]
               /\ \A i \in 1 .. Len(OutEdge[u]) : Walked(u, i) => Walked(u, i)'
    <3>1. PICK q \in Partition : q = PartitionOf[u]
      BY GraphTypes
    <3>2. Queued(u) => Queued(u)'
      <4>1. CASE \E i \in 1 .. Len(work[q]) : work[q][i] = u
        <5>1. q # p
          <6>1. work[p] = << >>
            BY <1>1 DEF IInv, Idle
          <6>2. 1 .. Len(<< >>) = {}
            OBVIOUS
          <6> QED
            BY <4>1, <6>1, <6>2
        <5> QED
          BY <1>4, <3>1, <4>1, <5>1 DEF Queued
      <4>2. CASE phase[q] = "dispatched" /\ u \in active
        <5>1. CASE q = p
          <6>1. u \in Own(p)
            BY <3>1, <5>1 DEF Own
          <6> QED
            BY <1>3, <1>4, <3>1, <4>2, <5>1, <6>1 DEF Queued
        <5>2. CASE q # p
          BY <1>1, <1>4, <3>1, <4>2, <5>2 DEF Queued
        <5> QED
          BY <5>1, <5>2
      <4>3. CASE \E x \in Partition : u \in activate[x]
        BY <1>1, <4>3 DEF Queued
      <4> QED
        BY <3>1, <4>1, <4>2, <4>3 DEF Queued
    <3> QED
      BY <1>1, <3>2 DEF Walked, Carried, HostOf
  <2> QED
    BY <1>1, <1>5, <1>6, <2>1, <2>2, PendingKeeps DEF IInv
<1> QED
  BY <1>6, <1>7, <1>8, <1>9, <1>10 DEF IInv

\* A runner takes the next vertex of its list.
LEMMA VisitKeeps ==
  ASSUME IInv, NEW p \in Partition, Visit(p)
  PROVE  IInv'
<1>1. /\ phase[p] = "calc" /\ scan[p] = NoScan /\ work[p] # << >>
      /\ work' = [work EXCEPT ![p] = Tail(work[p])]
      /\ UNCHANGED << query, label, phase, active, activate, unsent, inflight >>
  BY DEF Visit
<1>2. PICK q \in Seq(Vertex) : q = work[p] /\ q # << >>
  BY <1>1 DEF IInv, Typed
<1>3. PICK u \in Vertex : u = Head(q)
  BY <1>2, TailMembers
<1>4. u \in Own(p) /\ PartitionOf[u] = p
  <2>1. \E i \in 1 .. Len(q) : q[i] = u
    BY <1>2, <1>3, TailMembers
  <2> QED
    BY <1>2, <2>1, OwnType DEF IInv, Walking
<1>5. PICK c \in Values : /\ query.app = "bfs" => c = u
                          /\ query.app # "bfs" => c = label[query.hostOf[p]][u]
  <2>1. u \in Values
    BY QueryType, GraphTypes DEF IInv, Values
  <2>2. label[query.hostOf[p]][u] \in Values
    BY QueryType DEF IInv, Typed, HostOf
  <2> QED
    BY <2>1, <2>2
<1>6. scan' = [scan EXCEPT ![p] = ScanAt(u, c, 1)]
  <2>1. scan' = [scan EXCEPT ![p] =
                   ScanAt(u, IF query.app = "bfs" THEN u ELSE label[query.hostOf[p]][u], 1)]
    BY <1>2, <1>3 DEF Visit, Carried, HostOf
  <2>2. c = IF query.app = "bfs" THEN u ELSE label[query.hostOf[p]][u]
    BY <1>5
  <2> QED
    BY <2>1, <2>2
<1>7. /\ work'[p] = Tail(q) /\ scan'[p] = ScanAt(u, c, 1)
      /\ \A x \in Partition : x # p => scan'[x] = scan[x] /\ work'[x] = work[x]
  BY <1>1, <1>2, <1>6 DEF IInv, Typed
<1>8. /\ ScanAt(u, c, 1) \in Scans
      /\ 1 <= Len(OutEdge[u]) =>
           /\ scan'[p].vertex = u /\ scan'[p].value = c /\ scan'[p].next = 1
           /\ scan'[p].stage = "check"
      /\ ~(1 <= Len(OutEdge[u])) => scan'[p] = NoScan
  BY <1>7, ScanAtType DEF IInv
<1>9. Loaded /\ Loaded'
  BY <1>1 DEF IInv, Starting, Loaded
<1>10. Typed'
  <2>1. scan' \in [Partition -> Scans] /\ work' \in [Partition -> Seq(Vertex)]
    BY <1>1, <1>2, <1>6, <1>8, TailMembers DEF IInv, Typed
  <2> QED
    BY <1>1, <2>1, QueryFixed DEF IInv, Typed
<1>11. Idle'
  BY <1>1, <1>7, QueryFixed DEF IInv, Idle
<1>12. Walking'
  <2> SUFFICES ASSUME NEW x \in Partition
               PROVE  /\ \A i \in 1 .. Len(work'[x]) : work'[x][i] \in Own(x)
                      /\ scan'[x] # NoScan =>
                           /\ scan'[x].vertex \in Own(x)
                           /\ scan'[x].next \in 1 .. Len(OutEdge[scan'[x].vertex])
                           /\ query.app = "bfs" => scan'[x].value = scan'[x].vertex
                           /\ scan'[x].stage = "store" => Offer(x)' < Unreached
    BY <1>1, QueryFixed DEF Walking
  <2>1. CASE x = p
    <3>1. \A i \in 1 .. Len(Tail(q)) : Tail(q)[i] \in Own(p)
      <4>1. \A i \in 1 .. Len(q) : q[i] \in Own(p)
        BY <1>2 DEF IInv, Walking
      <4>2. \A i \in 1 .. Len(Tail(q)) : \E j \in 1 .. Len(q) : q[j] = Tail(q)[i]
        BY <1>2, TailMembers
      <4> QED
        BY <4>1, <4>2
    <3>2. \A i \in 1 .. Len(work'[x]) : work'[x][i] \in Own(x)
      BY <1>7, <2>1, <3>1
    <3>3. Len(OutEdge[u]) \in Nat
      BY GraphTypes
    <3>4. scan'[x] # NoScan =>
            /\ scan'[x].vertex = u /\ scan'[x].value = c /\ scan'[x].next = 1
            /\ scan'[x].stage = "check" /\ 1 <= Len(OutEdge[u])
      BY <1>8, <2>1
    <3>5. scan'[x] # NoScan => scan'[x].next \in 1 .. Len(OutEdge[scan'[x].vertex])
      BY <3>3, <3>4
    <3> QED
      BY <1>4, <1>5, <2>1, <3>2, <3>4, <3>5
  <2>2. CASE x # p
    <3>1. Offer(x)' = Offer(x)
      BY <1>1, <1>7, <2>2 DEF Offer
    <3> QED
      BY <1>7, <2>2, <3>1 DEF IInv, Walking
  <2> QED
    BY <2>1, <2>2
<1>13. Starting' /\ Pushed' /\ Agreeing'
  BY <1>1, <1>9, StartingOver, PushFixed DEF IInv
<1>14. EdgesPending'
  <2>1. \A h \in Host, v \in Vertex : AsGood(label'[h][v], label[h][v])
    BY <1>1, ValuesInt, AsGoodOrder DEF IInv
  <2>2. ASSUME NEW x \in Vertex, ~Queued(x)', NEW i \in 1 .. Len(OutEdge[x]),
               Queued(x) \/ Walked(x, i)
        PROVE  Walked(x, i)'
    <3>1. PICK y \in Partition : y = PartitionOf[x]
      BY GraphTypes
    <3>2. CASE x = u
      <4>1. c <= Carried(HostOf(p), u)'
        <5>1. c \in Int
          BY QueryType DEF Values, IInv
        <5> QED
          BY <1>1, <1>5, <5>1 DEF Carried, HostOf
      <4>2. 1 <= Len(OutEdge[u]) /\ i >= 1
        BY <3>2, GraphTypes
      <4> QED
        BY <1>4, <1>8, <3>2, <4>1, <4>2 DEF Walked
    <3>3. CASE x # u
      <4>1. ~Queued(x)
        <5>1. (\E j \in 1 .. Len(work[y]) : work[y][j] = x)
                <=> \E j \in 1 .. Len(work'[y]) : work'[y][j] = x
          <6>1. CASE y = p
            <7>1. (\E j \in 1 .. Len(q) : q[j] = x) <=> \E j \in 1 .. Len(Tail(q)) : Tail(q)[j] = x
              BY <1>2, <1>3, <3>3, TailMembers
            <7> QED
              BY <1>2, <1>7, <6>1, <7>1
          <6>2. CASE y # p
            BY <1>7, <6>2
          <6> QED
            BY <6>1, <6>2
        <5> QED
          BY <1>1, <2>2, <3>1, <5>1 DEF Queued
      <4>2. Walked(x, i)
        BY <2>2, <4>1
      <4>3. scan[y].vertex = x
        BY <3>1, <4>2 DEF Walked
      <4>4. y # p
        BY <1>1, <4>3, ScanType DEF IInv
      <4> QED
        BY <1>1, <1>7, <3>1, <4>2, <4>4 DEF Walked, Carried, HostOf
    <3> QED
      BY <3>2, <3>3
  <2> QED
    BY <1>1, <1>9, <1>10, <2>1, <2>2, PendingKeeps DEF IInv
<1> QED
  BY <1>10, <1>11, <1>12, <1>13, <1>14 DEF IInv

-----------------------------------------------------------------------------
(***************************************************************************)
(* The scan goes on to the next edge.                                      *)
(***************************************************************************)
LEMMA NextEdgeIs ==
  ASSUME Typed, Walking, NEW p \in Partition, scan[p] # NoScan, NextEdge(p)
  PROVE  /\ scan' \in [Partition -> Scans]
         /\ \A x \in Partition : x # p => scan'[x] = scan[x]
         /\ scan[p].next < Len(OutEdge[scan[p].vertex]) =>
              /\ scan'[p].vertex = scan[p].vertex /\ scan'[p].value = scan[p].value
              /\ scan'[p].next = scan[p].next + 1 /\ scan'[p].stage = "check"
         /\ scan[p].next = Len(OutEdge[scan[p].vertex]) => scan'[p] = NoScan
<1>1. PICK u \in Vertex, c \in Values, n \in Nat \ {0} :
        u = scan[p].vertex /\ c = scan[p].value /\ n = scan[p].next
  BY ScanType
<1>2. scan' = [scan EXCEPT ![p] = ScanAt(u, c, n + 1)]
  BY <1>1 DEF NextEdge
<1>3. n + 1 \in Nat \ {0}
  OBVIOUS
<1>4. ScanAt(u, c, n + 1) \in Scans
  BY <1>3, ScanAtType
<1>5. scan \in [Partition -> Scans]
  BY DEF Typed
<1>6. /\ scan' \in [Partition -> Scans] /\ scan'[p] = ScanAt(u, c, n + 1)
      /\ \A x \in Partition : x # p => scan'[x] = scan[x]
  BY <1>2, <1>4, <1>5
<1>7. PICK len \in Nat : len = Len(OutEdge[u])
  BY GraphTypes
<1>8. /\ n < len => n + 1 <= len
      /\ n = len => ~(n + 1 <= len)
  OBVIOUS
<1>9. /\ n < len => /\ scan'[p].vertex = u /\ scan'[p].value = c
                    /\ scan'[p].next = n + 1 /\ scan'[p].stage = "check"
      /\ n = len => scan'[p] = NoScan
  BY <1>3, <1>6, <1>7, <1>8, ScanAtType
<1> QED
  BY <1>1, <1>6, <1>7, <1>9

\* Going to the next edge keeps the scans well formed.
LEMMA NextWalking ==
  ASSUME Typed, Walking, NEW p \in Partition, scan[p] # NoScan, NextEdge(p), query' = query,
         \A x \in Partition : \A i \in 1 .. Len(work'[x]) : work'[x][i] \in Own(x)
  PROVE  Walking'
<1> SUFFICES ASSUME NEW x \in Partition, scan'[x] # NoScan
             PROVE  /\ scan'[x].vertex \in Own(x)
                    /\ scan'[x].next \in 1 .. Len(OutEdge[scan'[x].vertex])
                    /\ query.app = "bfs" => scan'[x].value = scan'[x].vertex
                    /\ scan'[x].stage = "store" => Offer(x)' < Unreached
  BY QueryFixed DEF Walking
<1>1. CASE x = p
  <2>1. PICK u \in Vertex, n \in Nat \ {0} : u = scan[p].vertex /\ n = scan[p].next
    BY ScanType
  <2>2. PICK len \in Nat : len = Len(OutEdge[u])
    BY GraphTypes
  <2>3. u \in Own(p) /\ n \in 1 .. len
    BY <2>1, <2>2 DEF Walking
  <2>4. n < len
    BY <1>1, <2>1, <2>2, <2>3, NextEdgeIs
  <2>5. /\ scan'[p].vertex = u /\ scan'[p].value = scan[p].value
        /\ scan'[p].next = n + 1 /\ scan'[p].stage = "check"
    BY <2>1, <2>2, <2>4, NextEdgeIs
  <2>6. n + 1 \in 1 .. len
    BY <2>4
  <2>7. query.app = "bfs" => scan[p].value = u
    BY <2>1 DEF Walking
  <2> QED
    BY <1>1, <2>2, <2>3, <2>5, <2>6, <2>7
<1>2. CASE x # p
  <2>1. scan'[x] = scan[x]
    BY <1>2, NextEdgeIs
  <2>2. Offer(x)' = Offer(x)
    BY <2>1 DEF Offer
  <2> QED
    BY <2>1, <2>2 DEF Walking
<1> QED
  BY <1>1, <1>2

\* Going to the next edge leaves the edges still to be walked, but for the one left behind.
LEMMA NextWalked ==
  ASSUME Typed, Walking, NEW p \in Partition, scan[p] # NoScan, NextEdge(p), query' = query,
         NEW u \in Vertex, NEW i \in 1 .. Len(OutEdge[u]), Walked(u, i),
         label'[HostOf(PartitionOf[u])][u] = label[HostOf(PartitionOf[u])][u],
         PartitionOf[u] # p \/ i # scan[p].next
  PROVE  Walked(u, i)'
<1>1. PICK y \in Partition : y = PartitionOf[u]
  BY GraphTypes
<1>2. scan[y].vertex = u /\ scan[y].value <= Carried(HostOf(y), u) /\ i >= scan[y].next
  BY <1>1 DEF Walked
<1>3. Carried(HostOf(y), u)' = Carried(HostOf(y), u)
  BY <1>1 DEF Carried, HostOf
<1>4. CASE y # p
  <2>1. scan'[y] = scan[y]
    BY <1>4, NextEdgeIs
  <2> QED
    BY <1>1, <1>2, <1>3, <2>1 DEF Walked
<1>5. CASE y = p
  <2>1. PICK n \in Nat \ {0} : n = scan[p].next
    BY ScanType
  <2>2. PICK len \in Nat : len = Len(OutEdge[u])
    BY GraphTypes
  <2>3. n < len /\ i >= n + 1
    BY <1>1, <1>2, <1>5, <2>1, <2>2
  <2>4. /\ scan'[p].vertex = u /\ scan'[p].value = scan[p].value
        /\ scan'[p].next = n + 1
    BY <1>2, <1>5, <2>1, <2>2, <2>3, NextEdgeIs
  <2> QED
    BY <1>1, <1>2, <1>3, <1>5, <2>3, <2>4 DEF Walked
<1> QED
  BY <1>4, <1>5

\* An edge whose offer has been made cannot improve its target any more.
LEMMA NotImprovable ==
  ASSUME Typed, Typed', Walking, NEW p \in Partition, scan[p] # NoScan, query' = query,
         NEW u \in Vertex, NEW i \in 1 .. Len(OutEdge[u]), PartitionOf[u] = p,
         Walked(u, i), i = scan[p].next,
         label'[HostOf(p)][u] = label[HostOf(p)][u],
         AsGood(label'[HostOf(p)][Target(p)], Offer(p))
  PROVE  ~Improvable(HostOf(p), u, i)'
<1>1. PICK h \in Host : h = HostOf(p) /\ HostOf(p)' = h
  BY QueryFixed, QueryType
<1>2. PICK v \in Vertex, w \in Nat : v = OutEdge[u][i] /\ w = OutWeight[u][i]
  BY GraphTypes
<1>3. scan[p].vertex = u /\ scan[p].value <= Carried(h, u)
  BY <1>1 DEF Walked
<1>4. PICK c \in Nat : c = scan[p].value
  BY ScanType, QueryType DEF Values
<1>5. Target(p) = v /\ Offer(p) = IF query.app = "sssp" THEN c + w ELSE c
  BY <1>2, <1>3, <1>4 DEF Target, Offer
<1>6. PICK new \in Int, mine \in Int :
        new = label'[h][v] /\ mine = label[h][u] /\ mine = label'[h][u]
  BY <1>1, QueryFixed, QueryType DEF Typed, Values
<1>7. Unreached' = Unreached /\ Unreached \in Nat
  BY QueryFixed, QueryType
<1>8. CASE query.app = "cc"
  <2>1. c <= mine
    BY <1>3, <1>4, <1>6, <1>8 DEF Carried
  <2>2. new <= c
    BY <1>1, <1>5, <1>6, <1>8 DEF AsGood
  <2>3. ~(mine < new)
    BY <2>1, <2>2
  <2> QED
    BY <1>1, <1>2, <1>6, <1>8, <2>3 DEF Improvable
<1>9. CASE query.app = "sssp"
  <2>1. c <= mine
    BY <1>3, <1>4, <1>6, <1>9 DEF Carried
  <2>2. new <= c + w
    BY <1>1, <1>5, <1>6, <1>9 DEF AsGood
  <2>3. ~(mine + w < new)
    BY <2>1, <2>2
  <2> QED
    BY <1>1, <1>2, <1>6, <1>9, <2>3 DEF Improvable
<1>10. CASE query.app = "bfs"
  <2>1. Offer(p) # Unreached
    BY <1>7, <1>10, EdgeOfScan
  <2>2. new # Unreached
    BY <1>1, <1>5, <1>6, <1>10, <2>1 DEF AsGood
  <2> QED
    BY <1>1, <1>2, <1>6, <1>7, <1>10, <2>2 DEF Improvable
<1> QED
  BY <1>8, <1>9, <1>10, QueryType

\* Going on after the offer forgets no other edge.
LEMMA EdgeDone ==
  ASSUME Typed, Typed', Walking, EdgesPending, Loaded, query' = query,
         NEW p \in Partition, scan[p] # NoScan, NextEdge(p),
         \A h \in Host, v \in Vertex : AsGood(label'[h][v], label[h][v]),
         AsGood(label'[HostOf(p)][Target(p)], Offer(p)),
         \A u \in Vertex :
           \/ Queued(u)'
           \/ /\ label'[HostOf(PartitionOf[u])][u] = label[HostOf(PartitionOf[u])][u]
              /\ Queued(u) => Queued(u)'
  PROVE  EdgesPending'
<1>1. ASSUME NEW u \in Vertex, ~Queued(u)', NEW i \in 1 .. Len(OutEdge[u]),
             Queued(u) \/ Walked(u, i)
      PROVE  Walked(u, i)' \/ ~Improvable(HostOf(PartitionOf[u]), u, i)'
  <2>1. /\ label'[HostOf(PartitionOf[u])][u] = label[HostOf(PartitionOf[u])][u]
        /\ Walked(u, i)
    BY <1>1
  <2>2. CASE PartitionOf[u] = p /\ i = scan[p].next
    <3>1. ~Improvable(HostOf(p), u, i)'
      BY <2>1, <2>2, NotImprovable
    <3> QED
      BY <2>2, <3>1
  <2>3. CASE PartitionOf[u] # p \/ i # scan[p].next
    BY <2>1, <2>3, NextWalked
  <2> QED
    BY <2>2, <2>3
<1> QED
  BY <1>1, PendingKeeps

\* A partition that walks an edge computes, and no partition loads.
LEMMA Computing ==
  ASSUME IInv, NEW p \in Partition, scan[p].stage \in {"check", "store"}
  PROVE  scan[p] # NoScan /\ phase[p] = "calc" /\ Loaded
<1>1. scan[p] # NoScan
  BY DEF NoScan
<1>2. phase[p] = "calc"
  BY <1>1 DEF IInv, Idle
<1> QED
  BY <1>1, <1>2 DEF IInv, Starting

\* An edge that is left without a write.
LEMMA EdgeSkipped ==
  ASSUME IInv, NEW p \in Partition, scan[p].stage \in {"check", "store"}, NextEdge(p),
         UNCHANGED << query, label, phase, active, activate, work, unsent, inflight >>,
         AsGood(label[HostOf(p)][Target(p)], Offer(p))
  PROVE  IInv'
<1>1. scan[p] # NoScan /\ phase[p] = "calc" /\ Loaded /\ Loaded'
  BY Computing DEF Loaded
<1>2. scan' \in [Partition -> Scans] /\ \A x \in Partition : x # p => scan'[x] = scan[x]
  BY <1>1, NextEdgeIs DEF IInv
<1>3. Typed'
  BY <1>2, QueryFixed DEF IInv, Typed
<1>4. Idle'
  BY <1>1, <1>2, QueryFixed DEF IInv, Idle
<1>5. Walking'
  <2>1. \A x \in Partition : \A i \in 1 .. Len(work'[x]) : work'[x][i] \in Own(x)
    BY DEF IInv, Walking
  <2> QED
    BY <1>1, <2>1, NextWalking DEF IInv
<1>6. Starting' /\ Pushed' /\ Agreeing'
  BY <1>1, StartingOver, PushFixed DEF IInv
<1>7. EdgesPending'
  <2>1. \A h \in Host, v \in Vertex : AsGood(label'[h][v], label[h][v])
    BY ValuesInt, AsGoodOrder DEF IInv
  <2>2. \A u \in Vertex : Queued(u) => Queued(u)'
    BY DEF Queued
  <2>3. AsGood(label'[HostOf(p)][Target(p)], Offer(p))
    OBVIOUS
  <2>4. \A u \in Vertex :
          /\ label'[HostOf(PartitionOf[u])][u] = label[HostOf(PartitionOf[u])][u]
          /\ Queued(u) => Queued(u)'
    BY <2>2
  <2> QED
    BY <1>1, <1>3, <2>1, <2>3, <2>4, EdgeDone DEF IInv
<1> QED
  BY <1>3, <1>4, <1>5, <1>6, <1>7 DEF IInv

\* The compare-and-swap finds another value in the label.
LEMMA StoreLostKeeps ==
  ASSUME IInv, NEW p \in Partition, StoreLost(p)
  PROVE  IInv'
<1>1. /\ scan[p].stage = "store" /\ query.app = "cc"
      /\ ~(Offer(p) < label[HostOf(p)][Target(p)]) /\ NextEdge(p)
      /\ UNCHANGED << query, label, phase, active, activate, work, unsent, inflight >>
  BY DEF StoreLost, Wins
<1>2. scan[p] # NoScan
  BY <1>1, Computing
<1>3. label[HostOf(p)][Target(p)] \in Int /\ Offer(p) \in Int
  BY <1>2, EdgeOfScan, ValuesInt, QueryType DEF IInv
<1>4. AsGood(label[HostOf(p)][Target(p)], Offer(p))
  BY <1>1, <1>3 DEF AsGood
<1> QED
  BY <1>1, <1>4, EdgeSkipped

\* An edge's offer is compared with the target's label.
LEMMA CompareKeeps ==
  ASSUME IInv, NEW p \in Partition, Compare(p)
  PROVE  IInv'
<1>1. /\ scan[p].stage = "check"
      /\ UNCHANGED << query, label, phase, active, activate, work, unsent, inflight >>
      /\ Improves(p) => scan' = [scan EXCEPT ![p].stage = "store"]
      /\ ~Improves(p) => NextEdge(p)
  BY DEF Compare
<1>2. scan[p] # NoScan /\ phase[p] = "calc" /\ Loaded /\ Loaded'
  BY <1>1, Computing DEF Loaded
<1>3. PICK old \in Values : old = label[HostOf(p)][Target(p)]
  BY <1>2, EdgeOfScan, QueryType DEF IInv, Typed
<1>4. old \in Int /\ old <= Unreached /\ Unreached \in Int /\ Offer(p) \in Int
  BY <1>2, EdgeOfScan, QueryType DEF IInv, Values
<1>5. Improves(p) <=> IF query.app = "bfs" THEN old = Unreached ELSE Offer(p) < old
  BY <1>3 DEF Improves
<1>6. CASE ~Improves(p)
  <2>1. AsGood(label[HostOf(p)][Target(p)], Offer(p))
    BY <1>3, <1>4, <1>5, <1>6 DEF AsGood
  <2> QED
    BY <1>1, <1>6, <2>1, EdgeSkipped
<1>7. CASE Improves(p)
  <2>1. Offer(p) < Unreached
    BY <1>2, <1>4, <1>5, <1>7, EdgeOfScan DEF IInv
  <2>2. /\ scan' \in [Partition -> Scans] /\ scan'[p] # NoScan
        /\ scan'[p].vertex = scan[p].vertex /\ scan'[p].value = scan[p].value
        /\ scan'[p].next = scan[p].next
        /\ \A x \in Partition : x # p => scan'[x] = scan[x]
    <3>1. PICK s \in [vertex : Vertex, value : Values, next : Nat \ {0},
                      stage : {"check", "store"}] : s = scan[p]
      BY <1>2, ScanType DEF IInv
    <3>2. scan' = [scan EXCEPT ![p] = [s EXCEPT !.stage = "store"]]
      BY <1>1, <1>7, <3>1
    <3>3. /\ [s EXCEPT !.stage = "store"] \in
                [vertex : Vertex, value : Values, next : Nat \ {0}, stage : {"check", "store"}]
          /\ [s EXCEPT !.stage = "store"].vertex = s.vertex
          /\ [s EXCEPT !.stage = "store"].value = s.value
          /\ [s EXCEPT !.stage = "store"].next = s.next
          /\ [s EXCEPT !.stage = "store"].stage = "store"
      BY <3>1
    <3>4. scan \in [Partition -> Scans]
      BY DEF IInv, Typed
    <3>5. [s EXCEPT !.stage = "store"] \in Scans /\ [s EXCEPT !.stage = "store"] # NoScan
      BY <3>3 DEF Scans, NoScan
    <3>6. /\ scan' \in [Partition -> Scans] /\ scan'[p] = [s EXCEPT !.stage = "store"]
          /\ \A x \in Partition : x # p => scan'[x] = scan[x]
      BY <3>2, <3>4, <3>5
    <3> QED
      BY <3>1, <3>3, <3>5, <3>6
  <2>3. Typed'
    BY <1>1, <2>2, QueryFixed DEF IInv, Typed
  <2>4. Idle'
    BY <1>1, <1>2, <2>2, QueryFixed DEF IInv, Idle
  <2>5. \A x \in Partition : Offer(x)' = Offer(x)
    BY <1>1, <2>2 DEF Offer
  <2>6. Walking'
    <3> SUFFICES ASSUME NEW x \in Partition
                 PROVE  /\ \A i \in 1 .. Len(work'[x]) : work'[x][i] \in Own(x)
                        /\ scan'[x] # NoScan =>
                             /\ scan'[x].vertex \in Own(x)
                             /\ scan'[x].next \in 1 .. Len(OutEdge[scan'[x].vertex])
                             /\ query.app = "bfs" => scan'[x].value = scan'[x].vertex
                             /\ scan'[x].stage = "store" => Offer(x)' < Unreached
      BY <1>1, QueryFixed DEF Walking
    <3>1. CASE x = p
      BY <1>1, <1>2, <2>1, <2>2, <2>5, <3>1 DEF IInv, Walking
    <3>2. CASE x # p
      BY <1>1, <2>2, <2>5, <3>2 DEF IInv, Walking
    <3> QED
      BY <3>1, <3>2
  <2>7. Starting' /\ Pushed' /\ Agreeing'
    BY <1>1, <1>2, StartingOver, PushFixed DEF IInv
  <2>8. EdgesPending'
    <3>1. \A h \in Host, v \in Vertex : AsGood(label'[h][v], label[h][v])
      BY <1>1, ValuesInt, AsGoodOrder DEF IInv
    <3>2. \A u \in Vertex : Queued(u) => Queued(u)'
      BY <1>1 DEF Queued
    <3>3. ASSUME NEW u \in Vertex, NEW i \in 1 .. Len(OutEdge[u]), Walked(u, i)
          PROVE  Walked(u, i)'
      <4>1. PICK y \in Partition : y = PartitionOf[u]
        BY GraphTypes
      <4>2. /\ scan'[y].vertex = scan[y].vertex /\ scan'[y].value = scan[y].value
            /\ scan'[y].next = scan[y].next
        BY <2>2
      <4> QED
        BY <1>1, <3>3, <4>1, <4>2 DEF Walked, Carried, HostOf
    <3>4. \A u \in Vertex :
            label'[HostOf(PartitionOf[u])][u] = label[HostOf(PartitionOf[u])][u]
      BY <1>1
    <3> QED
      BY <1>1, <1>2, <2>3, <3>1, <3>2, <3>3, <3>4, PendingKeeps DEF IInv
  <2> QED
    BY <2>3, <2>4, <2>6, <2>7, <2>8 DEF IInv
<1> QED
  BY <1>6, <1>7

-----------------------------------------------------------------------------
(***************************************************************************)
(* Writes and pushes.                                                      *)
(***************************************************************************)
LEMMA SendIs ==
  ASSUME Typed, NEW p \in Partition, NEW pairs \in SUBSET Pair, Send(p, pairs)
  PROVE  /\ inflight' \in [Partition -> [Host -> SUBSET Pair]]
         /\ \A x \in Partition : x # p => inflight'[x] = inflight[x]
         /\ \A h \in Host :
              /\ h \in Remote(p) => inflight'[p][h] = inflight[p][h] \cup pairs
              /\ h \notin Remote(p) => inflight'[p][h] = inflight[p][h]
<1>1. PICK old \in [Host -> SUBSET Pair] : old = inflight[p]
  BY DEF Typed
<1>2. inflight' = [inflight EXCEPT ![p] =
                     [h \in Host |-> IF h \in Remote(p) THEN old[h] \cup pairs ELSE old[h]]]
  BY <1>1 DEF Send
<1>3. [h \in Host |-> IF h \in Remote(p) THEN old[h] \cup pairs ELSE old[h]]
        \in [Host -> SUBSET Pair]
  BY <1>1
<1>4. inflight \in [Partition -> [Host -> SUBSET Pair]]
  BY DEF Typed
<1> QED
  BY <1>1, <1>2, <1>3, <1>4

\* The pair is then in the batch or in the pipe of every other host.
LEMMA RecordIs ==
  ASSUME Typed, NEW p \in Partition, NEW pair \in Pair, Record(p, pair)
  PROVE  /\ inflight' \in [Partition -> [Host -> SUBSET Pair]]
         /\ unsent' \in [Partition -> SUBSET Pair]
         /\ \A x \in Partition : x # p => inflight'[x] = inflight[x] /\ unsent'[x] = unsent[x]
         /\ \A h \in Host : h \notin Remote(p) => inflight'[p][h] = inflight[p][h]
         /\ \A h \in Remote(p) : \A e : Out(p, h, e)' <=> Out(p, h, e) \/ e = pair
<1>1. PICK batch \in SUBSET Pair : batch = unsent[p] \cup {pair}
  BY DEF Typed
<1>2. \/ Send(p, batch) /\ unsent' = [unsent EXCEPT ![p] = {}]
      \/ unsent' = [unsent EXCEPT ![p] = batch] /\ UNCHANGED inflight
  BY <1>1 DEF Record
<1>3. unsent \in [Partition -> SUBSET Pair] /\ Remote(p) \subseteq Host
  BY QueryType DEF Typed
<1>4. CASE Send(p, batch) /\ unsent' = [unsent EXCEPT ![p] = {}]
  <2>1. /\ unsent' \in [Partition -> SUBSET Pair] /\ unsent'[p] = {}
        /\ \A x \in Partition : x # p => unsent'[x] = unsent[x]
    BY <1>3, <1>4
  <2>2. \A h \in Remote(p) : inflight'[p][h] = inflight[p][h] \cup batch
    BY <1>3, <1>4, SendIs
  <2>3. \A h \in Remote(p) : \A e : Out(p, h, e)' <=> Out(p, h, e) \/ e = pair
    BY <1>1, <2>1, <2>2 DEF Out
  <2> QED
    BY <1>4, <2>1, <2>3, SendIs
<1>5. CASE unsent' = [unsent EXCEPT ![p] = batch] /\ UNCHANGED inflight
  <2>1. /\ unsent' \in [Partition -> SUBSET Pair] /\ unsent'[p] = batch
        /\ \A x \in Partition : x # p => unsent'[x] = unsent[x]
    BY <1>3, <1>5
  <2>2. \A h \in Remote(p) : \A e : Out(p, h, e)' <=> Out(p, h, e) \/ e = pair
    BY <1>1, <1>5, <2>1 DEF Out
  <2> QED
    BY <1>5, <2>1, <2>2 DEF Typed
<1> QED
  BY <1>2, <1>4, <1>5

\* The vertex is queued, and nothing queued before is lost.
LEMMA ReactivateIs ==
  ASSUME Typed, NEW p \in Partition, NEW v \in Vertex, Reactivate(p, v)
  PROVE  /\ work' \in [Partition -> Seq(Vertex)]
         /\ activate' \in [Partition -> SUBSET Vertex]
         /\ \A x \in Partition : activate[x] \subseteq activate'[x]
         /\ v \in Own(p) \/ v \in activate'[p]
         /\ \A x \in Partition : x # p => work'[x] = work[x]
         /\ \A y : (\E i \in 1 .. Len(work[p]) : work[p][i] = y)
                     => \E i \in 1 .. Len(work'[p]) : work'[p][i] = y
         /\ \A i \in 1 .. Len(work'[p]) :
              \/ work'[p][i] = v /\ v \in Own(p)
              \/ \E j \in 1 .. Len(work[p]) : work[p][j] = work'[p][i]
         /\ v \in Own(p) => \E i \in 1 .. Len(work'[p]) : work'[p][i] = v
<1>1. work \in [Partition -> Seq(Vertex)] /\ activate \in [Partition -> SUBSET Vertex]
  BY DEF Typed
<1>2. CASE v \in Own(p)
  <2>1. PICK q \in Seq(Vertex) : q = work[p]
    BY <1>1
  <2>2. work' = [work EXCEPT ![p] = Append(q, v)] /\ activate' = activate
    BY <1>2, <2>1 DEF Reactivate
  <2>3. Append(q, v) \in Seq(Vertex)
    BY AppendMembers
  <2>4. /\ work' \in [Partition -> Seq(Vertex)] /\ work'[p] = Append(q, v)
        /\ \A x \in Partition : x # p => work'[x] = work[x]
    BY <1>1, <2>2, <2>3
  <2>5. \A y : (\E i \in 1 .. Len(Append(q, v)) : Append(q, v)[i] = y)
                 <=> y = v \/ \E i \in 1 .. Len(q) : q[i] = y
    BY AppendMembers
  <2>6. \A x \in Partition : activate[x] \subseteq activate'[x]
    BY <2>2
  <2>7. /\ \A y : (\E i \in 1 .. Len(work[p]) : work[p][i] = y)
                   => \E i \in 1 .. Len(work'[p]) : work'[p][i] = y
        /\ \E i \in 1 .. Len(work'[p]) : work'[p][i] = v
    BY <2>1, <2>4, <2>5
  <2>8. ASSUME NEW i \in 1 .. Len(work'[p])
        PROVE  \/ work'[p][i] = v /\ v \in Own(p)
               \/ \E j \in 1 .. Len(work[p]) : work[p][j] = work'[p][i]
    <3>1. i \in 1 .. Len(Append(q, v))
      BY <2>4
    <3>2. Append(q, v)[i] = v \/ \E j \in 1 .. Len(q) : q[j] = Append(q, v)[i]
      BY <2>5, <3>1
    <3> QED
      BY <1>2, <2>1, <2>4, <3>2
  <2>9. activate' \in [Partition -> SUBSET Vertex]
    BY <1>1, <2>2
  <2> QED
    BY <1>2, <2>4, <2>6, <2>7, <2>8, <2>9
<1>3. CASE v \notin Own(p)
  <2>1. activate' = [activate EXCEPT ![p] = activate[p] \cup {v}] /\ work' = work
    BY <1>3 DEF Reactivate
  <2> QED
    BY <1>1, <1>3, <2>1
<1> QED
  BY <1>2, <1>3

\* A better label is stored, its vertex queued and its pair recorded.
LEMMA StoreKeeps ==
  ASSUME IInv, NEW p \in Partition, Store(p)
  PROVE  IInv'
<1>1. /\ scan[p].stage = "store" /\ Wins(p) /\ NextEdge(p)
      /\ label' = [label EXCEPT ![HostOf(p)][Target(p)] =
                     Stored(label[HostOf(p)][Target(p)], Offer(p))]
      /\ Reactivate(p, Target(p)) /\ Record(p, << Target(p), Offer(p) >>)
      /\ UNCHANGED << query, phase, active >>
  BY DEF Store
<1>2. scan[p] # NoScan /\ phase[p] = "calc" /\ Loaded /\ Loaded'
  BY <1>1, Computing DEF Loaded
<1>3. PICK g \in Host : g = HostOf(p) /\ g \in Hosts /\ g \notin Remote(p)
  BY QueryType DEF IInv
<1>4. PICK t \in Vertex : t = Target(p)
  BY <1>2, EdgeOfScan DEF IInv
<1>5. PICK o \in Values : o = Offer(p) /\ o < Unreached
  <2>1. Offer(p) \in Nat /\ Offer(p) < Unreached
    BY <1>1, <1>2, EdgeOfScan DEF IInv, Walking
  <2> QED
    BY <2>1, QueryType DEF IInv, Values
<1>6. PICK new \in Values : /\ label' = [label EXCEPT ![g][t] = new]
                            /\ AsGood(new, label[g][t]) /\ AsGood(new, o)
                            /\ new = label[g][t] \/ new = o
  <2>1. PICK old \in Values : old = label[g][t]
    <3>1. label \in [Host -> [Vertex -> Values]]
      BY DEF IInv, Typed
    <3> QED
      BY <3>1
  <2>2. label' = [label EXCEPT ![g][t] = Stored(old, o)]
    BY <1>1, <1>3, <1>4, <1>5, <2>1
  <2>3. /\ Stored(old, o) \in Values /\ AsGood(Stored(old, o), old)
        /\ AsGood(Stored(old, o), o)
        /\ Stored(old, o) = old \/ Stored(old, o) = o
    BY <1>5, StoredBest DEF IInv
  <2> QED
    BY <2>1, <2>2, <2>3
<1>7. PICK e0 \in Pair : e0 = << t, o >> /\ e0[1] = t /\ e0[2] = o
  <2>1. << t, o >> \in Pair
    BY DEF Pair
  <2>2. << t, o >>[1] = t /\ << t, o >>[2] = o
    OBVIOUS
  <2> QED
    BY <2>1, <2>2, Zenon
<1>8. Reactivate(p, t) /\ Record(p, e0)
  BY <1>1, <1>4, <1>5, <1>7
<1>9. label \in [Host -> [Vertex -> Values]]
  BY DEF IInv, Typed
<1>10. /\ label' \in [Host -> [Vertex -> Values]] /\ label'[g][t] = new
       /\ \A h \in Host, v \in Vertex : h # g \/ v # t => label'[h][v] = label[h][v]
  BY <1>6, <1>9
<1>11. scan' \in [Partition -> Scans] /\ \A x \in Partition : x # p => scan'[x] = scan[x]
  BY <1>1, <1>2, NextEdgeIs DEF IInv
<1>12. Typed'
  <2>1. /\ work' \in [Partition -> Seq(Vertex)] /\ activate' \in [Partition -> SUBSET Vertex]
        /\ inflight' \in [Partition -> [Host -> SUBSET Pair]]
        /\ unsent' \in [Partition -> SUBSET Pair]
    BY <1>8, ReactivateIs, RecordIs DEF IInv
  <2> QED
    BY <1>1, <1>10, <1>11, <2>1, QueryFixed DEF IInv, Typed
<1>13. Idle'
  <2>1. /\ \A x \in Partition : x # p =>
             work'[x] = work[x] /\ inflight'[x] = inflight[x] /\ unsent'[x] = unsent[x]
        /\ \A h \in Host : h \notin Remote(p) => inflight'[p][h] = inflight[p][h]
    BY <1>8, ReactivateIs, RecordIs DEF IInv
  <2> QED
    BY <1>1, <1>2, <1>11, <2>1, QueryFixed DEF IInv, Idle
<1>14. Walking'
  <2>1. \A x \in Partition : \A i \in 1 .. Len(work'[x]) : work'[x][i] \in Own(x)
    <3> SUFFICES ASSUME NEW x \in Partition, NEW i \in 1 .. Len(work'[x])
                 PROVE  work'[x][i] \in Own(x)
      OBVIOUS
    <3>1. CASE x = p
      <4>1. \/ work'[p][i] = t /\ t \in Own(p)
            \/ \E j \in 1 .. Len(work[p]) : work[p][j] = work'[p][i]
        BY <1>8, <3>1, ReactivateIs DEF IInv
      <4> QED
        BY <3>1, <4>1 DEF IInv, Walking
    <3>2. CASE x # p
      <4>1. work'[x] = work[x]
        BY <1>8, <3>2, ReactivateIs DEF IInv
      <4> QED
        BY <4>1 DEF IInv, Walking
    <3> QED
      BY <3>1, <3>2
  <2> QED
    BY <1>1, <1>2, <2>1, NextWalking DEF IInv
<1>15. \A h \in Host, v \in Vertex : AsGood(label'[h][v], label[h][v])
  <2> SUFFICES ASSUME NEW h \in Host, NEW v \in Vertex
               PROVE  AsGood(label'[h][v], label[h][v])
    OBVIOUS
  <2>1. CASE h = g /\ v = t
    BY <1>6, <1>10, <2>1
  <2>2. CASE h # g \/ v # t
    <3>1. label'[h][v] = label[h][v] /\ label[h][v] \in Int
      BY <1>10, <2>2, ValuesInt DEF IInv
    <3> QED
      BY <3>1, AsGoodOrder
  <2> QED
    BY <2>1, <2>2
<1>16. Pushed' /\ Agreeing'
  <2>1. \A x \in Partition : activate[x] \subseteq activate'[x]
    BY <1>8, ReactivateIs DEF IInv
  <2>2. \A h \in Remote(p) : \A e \in Pair : Out(p, h, e)' <=> Out(p, h, e) \/ e = e0
    BY <1>8, RecordIs DEF IInv
  <2>3. \A x \in Partition : x # p => \A h \in Host, e \in Pair : Out(x, h, e)' <=> Out(x, h, e)
    <3>1. \A x \in Partition : x # p => inflight'[x] = inflight[x] /\ unsent'[x] = unsent[x]
      BY <1>8, RecordIs DEF IInv
    <3> QED
      BY <3>1 DEF Out
  <2>4. \A x \in Partition : \A h \in Remote(x) : h \in Host
    BY QueryType DEF IInv
  <2>5. ASSUME NEW x \in Partition, NEW h \in Remote(x), NEW e \in Pair, Out(x, h, e)',
               ~Out(x, h, e)
        PROVE  /\ e[1] \in Own(x) \/ e[1] \in activate'[x]
               /\ e[2] < Unreached /\ AsGood(label'[HostOf(x)][e[1]], e[2])
               /\ \A k \in Remote(x) : Out(x, k, e)'
    <3>1. x = p /\ e = e0
      BY <2>2, <2>3, <2>4, <2>5
    <3>2. t \in Own(p) \/ t \in activate'[p]
      BY <1>8, ReactivateIs DEF IInv
    <3>3. \A k \in Remote(p) : Out(p, k, e0)'
      BY <2>2
    <3>4. AsGood(label'[HostOf(p)][t], o)
      BY <1>3, <1>6, <1>10
    <3> QED
      BY <1>5, <1>7, <3>1, <3>2, <3>3, <3>4
  <2>6. \A x \in Partition : \A h \in Remote(x), e \in Pair : Out(x, h, e) => Out(x, h, e)'
    BY <2>2, <2>3, <2>4
  <2>7. ASSUME NEW k \in Hosts, NEW v \in Vertex, label'[k][v] # label[k][v]
        PROVE  /\ e0[1] = v /\ label'[k][v] = e0[2]
               /\ \A h \in Hosts : \/ h \in Remote(p) /\ Out(p, h, e0)'
                                   \/ AsGood(label'[h][v], e0[2])
    <3>1. k = g /\ v = t /\ new = o
      BY <1>6, <1>10, <2>7, QueryType DEF IInv
    <3>2. ASSUME NEW h \in Hosts
          PROVE  \/ h \in Remote(p) /\ Out(p, h, e0)'
                 \/ AsGood(label'[h][v], e0[2])
      <4>1. CASE h = g
        BY <1>6, <1>7, <1>10, <3>1, <4>1
      <4>2. CASE h # g
        BY <1>3, <2>2, <4>2, QueryType DEF IInv
      <4> QED
        BY <4>1, <4>2
    <3> QED
      BY <1>7, <1>10, <3>1, <3>2
  <2>8. \A k \in Hosts, v \in Vertex :
           \/ label'[k][v] = label[k][v]
           \/ \E q \in Partition, e \in Pair :
                /\ e[1] = v /\ label'[k][v] = e[2]
                /\ \A h \in Hosts : \/ h \in Remote(q) /\ Out(q, h, e)'
                                    \/ AsGood(label'[h][v], e[2])
    BY <2>7
  <2> QED
    BY <1>1, <1>2, <1>12, <1>15, <2>1, <2>5, <2>6, <2>8, PushKeeps DEF IInv
<1>17. EdgesPending'
  <2>1. AsGood(label'[HostOf(p)][Target(p)], Offer(p))
    BY <1>3, <1>4, <1>5, <1>6, <1>10
  <2>2. \A u \in Vertex : Queued(u) => Queued(u)'
    <3> SUFFICES ASSUME NEW u \in Vertex, Queued(u)
                 PROVE  Queued(u)'
      OBVIOUS
    <3>1. PICK y \in Partition : y = PartitionOf[u]
      BY GraphTypes
    <3>2. CASE \E i \in 1 .. Len(work[y]) : work[y][i] = u
      <4>1. /\ \A x \in Partition : x # p => work'[x] = work[x]
            /\ \A z : (\E i \in 1 .. Len(work[p]) : work[p][i] = z)
                       => \E i \in 1 .. Len(work'[p]) : work'[p][i] = z
        BY <1>8, ReactivateIs DEF IInv
      <4>2. \E i \in 1 .. Len(work'[y]) : work'[y][i] = u
        BY <3>2, <4>1
      <4> QED
        BY <3>1, <4>2 DEF Queued
    <3>3. CASE phase[y] = "dispatched" /\ u \in active
      BY <1>1, <3>1, <3>3 DEF Queued
    <3>4. CASE \E q \in Partition : u \in activate[q]
      <4>1. \E q \in Partition : u \in activate'[q]
        BY <1>8, <3>4, ReactivateIs DEF IInv
      <4> QED
        BY <4>1 DEF Queued
    <3> QED
      BY <3>1, <3>2, <3>3, <3>4 DEF Queued
  <2>3. Queued(t)'
    <3>1. CASE t \in Own(p)
      <4>1. PartitionOf[t] = p
        BY <3>1, OwnType
      <4>2. \E i \in 1 .. Len(work'[p]) : work'[p][i] = t
        BY <1>8, <3>1, ReactivateIs DEF IInv
      <4> QED
        BY <4>1, <4>2 DEF Queued
    <3>2. CASE t \notin Own(p)
      <4>1. t \in activate'[p]
        BY <1>8, <3>2, ReactivateIs DEF IInv
      <4> QED
        BY <4>1 DEF Queued
    <3> QED
      BY <3>1, <3>2
  <2>4. ASSUME NEW u \in Vertex, ~Queued(u)'
        PROVE  /\ label'[HostOf(PartitionOf[u])][u] = label[HostOf(PartitionOf[u])][u]
               /\ Queued(u) => Queued(u)'
    <3>1. u # t
      BY <2>3, <2>4
    <3>2. HostOf(PartitionOf[u]) \in Host
      BY GraphTypes, QueryType DEF IInv
    <3> QED
      BY <1>10, <2>2, <3>1, <3>2
  <2> QED
    BY <1>1, <1>2, <1>12, <1>15, <2>1, <2>4, EdgeDone DEF IInv
<1>18. Starting'
  BY <1>2, StartingOver
<1> QED
  BY <1>12, <1>13, <1>14, <1>16, <1>17, <1>18 DEF IInv

\* A runner sends what is left of its batch.
LEMMA FlushBatchKeeps ==
  ASSUME IInv, NEW p \in Partition, FlushBatch(p)
  PROVE  IInv'
<1>1. /\ phase[p] = "calc" /\ scan[p] = NoScan /\ work[p] = << >> /\ Send(p, unsent[p])
      /\ unsent' = [unsent EXCEPT ![p] = {}]
      /\ phase' = [phase EXCEPT ![p] = "pushing"]
      /\ UNCHANGED << query, label, active, activate, work, scan >>
  BY DEF FlushBatch
<1>2. PICK batch \in SUBSET Pair : batch = unsent[p]
  BY DEF IInv, Typed
<1>3. /\ inflight' \in [Partition -> [Host -> SUBSET Pair]]
      /\ \A x \in Partition : x # p => inflight'[x] = inflight[x]
      /\ \A h \in Host : /\ h \in Remote(p) => inflight'[p][h] = inflight[p][h] \cup batch
                         /\ h \notin Remote(p) => inflight'[p][h] = inflight[p][h]
  BY <1>1, <1>2, SendIs DEF IInv
<1>4. /\ phase'[p] = "pushing" /\ unsent'[p] = {}
      /\ \A x \in Partition : x # p => phase'[x] = phase[x] /\ unsent'[x] = unsent[x]
      /\ phase' \in [Partition -> Phases] /\ unsent' \in [Partition -> SUBSET Pair]
  BY <1>1 DEF IInv, Typed, Phases
<1>5. Loaded /\ Loaded'
  <2>1. Loaded
    BY <1>1 DEF IInv, Starting
  <2> QED
    BY <1>1, <2>1, LoadedKept DEF IInv, Phases
<1>6. Typed'
  BY <1>1, <1>3, <1>4, QueryFixed DEF IInv, Typed
<1>7. Idle'
  <2>1. /\ phase'[p] # "calc" => work'[p] = << >> /\ scan'[p] = NoScan /\ unsent'[p] = {}
        /\ \A h \in Host : inflight'[p][h] # {} =>
             h \in Remote(p) /\ phase'[p] \in {"loading", "calc", "pushing"}
    BY <1>1, <1>3, <1>4 DEF IInv, Idle
  <2>2. ASSUME NEW x \in Partition, x # p
        PROVE  /\ phase'[x] # "calc" => work'[x] = << >> /\ scan'[x] = NoScan /\ unsent'[x] = {}
               /\ \A h \in Host : inflight'[x][h] # {} =>
                    h \in Remote(x) /\ phase'[x] \in {"loading", "calc", "pushing"}
    BY <1>1, <1>3, <1>4, <2>2 DEF IInv, Idle
  <2>3. \A x \in Partition : Remote(x)' = Remote(x)
    BY <1>1, QueryFixed
  <2> QED
    BY <2>1, <2>2, <2>3 DEF Idle
<1>8. Walking'
  <2>1. \A x \in Partition : Offer(x)' = Offer(x)
    BY <1>1 DEF Offer
  <2> QED
    BY <1>1, <2>1, QueryFixed DEF IInv, Walking
<1>9. \A h \in Host, v \in Vertex : AsGood(label'[h][v], label[h][v])
  BY <1>1, ValuesInt, AsGoodOrder DEF IInv
<1>10. \A x \in Partition : \A h \in Remote(x), e \in Pair : Out(x, h, e)' <=> Out(x, h, e)
  <2> SUFFICES ASSUME NEW x \in Partition, NEW h \in Remote(x), NEW e \in Pair
               PROVE  Out(x, h, e)' <=> Out(x, h, e)
    OBVIOUS
  <2>1. CASE x = p
    <3>1. inflight'[p][h] = inflight[p][h] \cup batch
      BY <1>3, <2>1, QueryType DEF IInv
    <3> QED
      BY <1>2, <1>4, <2>1, <3>1 DEF Out
  <2>2. CASE x # p
    BY <1>3, <1>4, <2>2 DEF Out
  <2> QED
    BY <2>1, <2>2
<1>11. Pushed' /\ Agreeing'
  <2>1. \A x \in Partition : activate[x] \subseteq activate'[x]
    BY <1>1
  <2>2. \A x \in Partition : \A h \in Remote(x), e \in Pair : Out(x, h, e)' =>
          \/ Out(x, h, e)
          \/ /\ e[1] \in Own(x) \/ e[1] \in activate'[x]
             /\ e[2] < Unreached /\ AsGood(label'[HostOf(x)][e[1]], e[2])
             /\ \A g \in Remote(x) : Out(x, g, e)'
    BY <1>10
  <2>3. \A x \in Partition : \A h \in Remote(x), e \in Pair : Out(x, h, e) =>
          Out(x, h, e)' \/ AsGood(label'[h][e[1]], e[2])
    BY <1>10
  <2>4. \A g \in Hosts, v \in Vertex :
          \/ label'[g][v] = label[g][v]
          \/ \E q \in Partition, e \in Pair :
               /\ e[1] = v /\ label'[g][v] = e[2]
               /\ \A h \in Hosts : \/ h \in Remote(q) /\ Out(q, h, e)'
                                   \/ AsGood(label'[h][v], e[2])
    BY <1>1
  <2> QED
    BY <1>1, <1>5, <1>6, <1>9, <2>1, <2>2, <2>3, <2>4, PushKeeps DEF IInv
<1>12. EdgesPending'
  <2>1. \A u \in Vertex : Queued(u) => Queued(u)'
    <3>1. ASSUME NEW u \in Vertex, NEW y \in Partition, y = PartitionOf[u], Queued(u)
          PROVE  Queued(u)'
      <4>1. phase[y] = "dispatched" => phase'[y] = "dispatched"
        BY <1>1, <1>4
      <4> QED
        BY <1>1, <3>1, <4>1 DEF Queued
    <3> QED
      BY <3>1, GraphTypes
  <2>2. ASSUME NEW u \in Vertex, NEW i \in 1 .. Len(OutEdge[u]), Walked(u, i)
        PROVE  Walked(u, i)'
    BY <1>1, <2>2 DEF Walked, Carried, HostOf
  <2>3. \A u \in Vertex :
          label'[HostOf(PartitionOf[u])][u] = label[HostOf(PartitionOf[u])][u]
    BY <1>1
  <2> QED
    BY <1>1, <1>5, <1>6, <1>9, <2>1, <2>2, <2>3, PendingKeeps DEF IInv
<1>13. Starting'
  BY <1>5, StartingOver
<1> QED
  BY <1>6, <1>7, <1>8, <1>11, <1>12, <1>13 DEF IInv

\* When every partition has replied, no pair is under way and no edge is being walked.
LEMMA AtBarrier ==
  ASSUME IInv, Barrier
  PROVE  /\ Loaded
         /\ \A x \in Partition : \A h, e : ~Out(x, h, e) \/ h \notin Host
         /\ \A u \in Vertex : /\ Queued(u) <=> u \in Answered
                              /\ \A i \in 1 .. Len(OutEdge[u]) : ~Walked(u, i)
<1>1. \A x \in Partition : /\ phase[x] = "replied" /\ work[x] = << >> /\ scan[x] = NoScan
                           /\ unsent[x] = {} /\ \A h \in Host : inflight[x][h] = {}
  BY DEF IInv, Idle, Barrier
<1>2. Loaded
  BY <1>1 DEF Loaded
<1>3. ASSUME NEW u \in Vertex
      PROVE  /\ Queued(u) <=> u \in Answered
             /\ \A i \in 1 .. Len(OutEdge[u]) : ~Walked(u, i)
  <2>1. PICK y \in Partition : y = PartitionOf[u]
    BY GraphTypes
  <2>2. scan[y].vertex # u
    BY <1>1, <2>1, ScanType DEF IInv
  <2>3. 1 .. Len(work[y]) = {}
    BY <1>1
  <2>4. Queued(u) <=> u \in Answered
    BY <1>1, <2>1, <2>3 DEF Queued, Answered
  <2> QED
    BY <2>1, <2>2, <2>4 DEF Walked
<1> QED
  BY <1>1, <1>2, <1>3 DEF Out

\* The coordinator starts the next round.
LEMMA DispatchKeeps ==
  ASSUME IInv, Dispatch
  PROVE  IInv'
<1>1. /\ Barrier /\ active' = Answered
      /\ activate' = [p \in Partition |-> {}]
      /\ phase' = [p \in Partition |-> "dispatched"]
      /\ UNCHANGED << query, label, work, scan, unsent, inflight >>
  BY DEF Dispatch
<1>2. Loaded /\ Loaded' /\ \A x \in Partition : \A h \in Host : \A e : ~Out(x, h, e)
  BY <1>1, AtBarrier DEF Loaded
<1>3. \A x \in Partition : /\ work[x] = << >> /\ scan[x] = NoScan
                           /\ unsent[x] = {} /\ \A h \in Host : inflight[x][h] = {}
  BY <1>1 DEF IInv, Idle, Barrier
<1>4. Typed'
  <2>1. active' \in SUBSET Vertex
    BY <1>1 DEF IInv, Typed, Answered
  <2>2. activate' \in [Partition -> SUBSET Vertex] /\ phase' \in [Partition -> Phases]
    BY <1>1 DEF Phases
  <2> QED
    BY <1>1, <2>1, <2>2, QueryFixed DEF IInv, Typed
<1>5. Idle'
  BY <1>1, <1>3 DEF Idle
<1>6. Walking'
  <2>1. \A x \in Partition : Offer(x)' = Offer(x)
    BY <1>1 DEF Offer
  <2> QED
    BY <1>1, <2>1, QueryFixed DEF IInv, Walking
<1>7. \A x \in Partition : \A h \in Host : \A e : ~Out(x, h, e)'
  BY <1>1, <1>2 DEF Out
<1>8. \A x \in Partition : Remote(x)' = Remote(x) /\ Remote(x) \subseteq Host
  BY <1>1, QueryFixed, QueryType DEF IInv
<1>9. Pushed'
  BY <1>7, <1>8 DEF Pushed
<1>10. Agreeing'
  <2>1. \A g, h \in Hosts, v \in Vertex : AsGood(label[h][v], label[g][v])
    BY <1>2, <1>8 DEF IInv, Agreeing
  <2> QED
    BY <1>1, <2>1, QueryFixed DEF Agreeing, AsGood
<1>11. EdgesPending'
  <2> SUFFICES ASSUME NEW u \in Vertex, NEW i \in 1 .. Len(OutEdge[u]),
                      Improvable(HostOf(PartitionOf[u]), u, i)'
               PROVE  Queued(u)'
    BY DEF EdgesPending
  <2>1. PICK y \in Partition : y = PartitionOf[u]
    BY GraphTypes
  <2>2. Improvable(HostOf(y), u, i)
    BY <1>1, <2>1, QueryFixed DEF Improvable, HostOf
  <2>3. Queued(u) \/ Walked(u, i)
    BY <1>2, <2>1, <2>2 DEF IInv, EdgesPending
  <2>4. u \in Answered
    BY <1>1, <2>3, AtBarrier
  <2> QED
    BY <1>1, <2>1, <2>4 DEF Queued
<1>12. Starting'
  BY <1>2, StartingOver
<1> QED
  BY <1>4, <1>5, <1>6, <1>9, <1>10, <1>11, <1>12 DEF IInv

\* A pushed pair reaches another host.
LEMMA DeliverKeeps ==
  ASSUME IInv, NEW p \in Partition, NEW h \in Host, NEW e \in inflight[p][h], Deliver(p, h, e)
  PROVE  IInv'
<1>1. /\ label' = [label EXCEPT ![h][e[1]] = Aggregated(p, label[h][e[1]], e[2])]
      /\ inflight' = [inflight EXCEPT ![p][h] = inflight[p][h] \ {e}]
      /\ UNCHANGED << query, phase, active, activate, work, scan, unsent >>
  BY DEF Deliver
<1>2. /\ label \in [Host -> [Vertex -> Values]]
      /\ inflight \in [Partition -> [Host -> SUBSET Pair]]
  BY DEF IInv, Typed
<1>3. PICK t \in Vertex, o \in Values : t = e[1] /\ o = e[2] /\ e \in Pair /\ e = << t, o >>
  <2>1. e \in Pair
    BY <1>2
  <2> QED
    BY <2>1 DEF Pair
<1>4. h \in Remote(p) /\ h \in Hosts /\ phase[p] \in {"loading", "calc", "pushing"}
  <2>1. inflight[p][h] # {}
    OBVIOUS
  <2> QED
    BY <2>1, QueryType DEF IInv, Idle
<1>5. PICK new \in Values : /\ label' = [label EXCEPT ![h][t] = new]
                            /\ phase[p] = "loading" => new = o
                            /\ phase[p] # "loading" => new = Stored(label[h][t], o)
  <2>1. PICK old \in Values : old = label[h][t]
    BY <1>2
  <2>2. CASE phase[p] = "loading"
    BY <1>1, <1>3, <2>2 DEF Aggregated
  <2>3. CASE phase[p] # "loading"
    <3>1. Stored(old, o) \in Values
      BY DEF Stored
    <3>2. label' = [label EXCEPT ![h][t] = Stored(old, o)]
      BY <1>1, <1>3, <2>1, <2>3 DEF Aggregated
    <3> QED
      BY <2>1, <2>3, <3>1, <3>2
  <2> QED
    BY <2>2, <2>3
<1>6. /\ label' \in [Host -> [Vertex -> Values]] /\ label'[h][t] = new
      /\ \A k \in Host, v \in Vertex : k # h \/ v # t => label'[k][v] = label[k][v]
  BY <1>2, <1>5
<1>7. /\ inflight' \in [Partition -> [Host -> SUBSET Pair]]
      /\ inflight'[p][h] = inflight[p][h] \ {e}
      /\ \A x \in Partition, k \in Host : x # p \/ k # h => inflight'[x][k] = inflight[x][k]
  BY <1>1, <1>2
<1>8. Typed'
  BY <1>1, <1>6, <1>7, QueryFixed DEF IInv, Typed
<1>9. Idle'
  <2>1. \A x \in Partition, k \in Host : inflight'[x][k] # {} => inflight[x][k] # {}
    BY <1>7
  <2> QED
    BY <1>1, <2>1, QueryFixed DEF IInv, Idle
<1>10. Walking'
  <2>1. \A x \in Partition : Offer(x)' = Offer(x)
    BY <1>1 DEF Offer
  <2> QED
    BY <1>1, <2>1, QueryFixed DEF IInv, Walking
<1>11. CASE Loaded
  <2>1. Loaded' /\ phase[p] # "loading"
    BY <1>1, <1>11 DEF Loaded
  <2>2. Out(p, h, e)
    BY DEF Out
  <2>3. /\ t \in Own(p) \/ t \in activate[p]
        /\ o < Unreached /\ AsGood(label[HostOf(p)][t], o)
        /\ \A g \in Remote(p) : Out(p, g, e) \/ AsGood(label[g][t], o)
    BY <1>3, <1>4, <1>11, <2>2 DEF IInv, Pushed
  <2>4. /\ AsGood(new, label[h][t]) /\ AsGood(new, o)
        /\ new = label[h][t] \/ new = o
    <3>1. PICK old \in Values : old = label[h][t]
      BY <1>2
    <3> QED
      BY <1>5, <2>1, <2>3, <3>1, StoredBest DEF IInv
  <2>5. ASSUME NEW k \in Host, NEW v \in Vertex
        PROVE  AsGood(label'[k][v], label[k][v])
    <3>1. CASE k = h /\ v = t
      BY <1>6, <2>4, <3>1
    <3>2. CASE k # h \/ v # t
      <4>1. label'[k][v] = label[k][v] /\ label[k][v] \in Int
        BY <1>6, <3>2, ValuesInt DEF IInv
      <4> QED
        BY <4>1, AsGoodOrder
    <3> QED
      BY <3>1, <3>2
  <2>6. \A x \in Partition, k \in Host : \A f :
          /\ Out(x, k, f)' => Out(x, k, f)
          /\ Out(x, k, f) => Out(x, k, f)' \/ (x = p /\ k = h /\ f = e)
    BY <1>1, <1>7 DEF Out
  <2>7. \A x \in Partition : Remote(x) \subseteq Host
    BY QueryType DEF IInv
  <2>8. Pushed' /\ Agreeing'
    <3>1. \A x \in Partition : activate[x] \subseteq activate'[x]
      BY <1>1
    <3>2. \A x \in Partition : \A k \in Remote(x), f \in Pair : Out(x, k, f)' =>
            \/ Out(x, k, f)
            \/ /\ f[1] \in Own(x) \/ f[1] \in activate'[x]
               /\ f[2] < Unreached /\ AsGood(label'[HostOf(x)][f[1]], f[2])
               /\ \A g \in Remote(x) : Out(x, g, f)'
      BY <2>6, <2>7
    <3>3. AsGood(label'[h][e[1]], e[2])
      BY <1>3, <1>6, <2>4
    <3>4. \A x \in Partition : \A k \in Remote(x), f \in Pair : Out(x, k, f) =>
            Out(x, k, f)' \/ AsGood(label'[k][f[1]], f[2])
      BY <2>6, <2>7, <3>3
    <3>5. ASSUME NEW k \in Hosts, NEW v \in Vertex, label'[k][v] # label[k][v]
          PROVE  /\ e[1] = v /\ label'[k][v] = e[2]
                 /\ \A j \in Hosts : \/ j \in Remote(p) /\ Out(p, j, e)'
                                     \/ AsGood(label'[j][v], e[2])
      <4>1. k = h /\ v = t /\ new = o
        BY <1>6, <2>4, <3>5, QueryType DEF IInv
      <4>2. ASSUME NEW j \in Hosts
            PROVE  \/ j \in Remote(p) /\ Out(p, j, e)'
                   \/ AsGood(label'[j][v], e[2])
        <5>1. CASE j = h
          BY <1>3, <3>3, <4>1, <5>1
        <5>2. CASE j # h
          <6>1. label'[j][t] = label[j][t]
            BY <1>6, <5>2, QueryType DEF IInv
          <6>2. j = HostOf(p) \/ j \in Remote(p)
            BY QueryType DEF IInv
          <6>3. Out(p, j, e) => Out(p, j, e)'
            BY <2>6, <5>2, QueryType DEF IInv
          <6> QED
            BY <1>3, <2>3, <4>1, <6>1, <6>2, <6>3
        <5> QED
          BY <5>1, <5>2
      <4> QED
        BY <1>3, <1>6, <4>1, <4>2
    <3>6. \A k \in Hosts, v \in Vertex :
             \/ label'[k][v] = label[k][v]
             \/ \E q \in Partition, f \in Pair :
                  /\ f[1] = v /\ label'[k][v] = f[2]
                  /\ \A j \in Hosts : \/ j \in Remote(q) /\ Out(q, j, f)'
                                      \/ AsGood(label'[j][v], f[2])
      BY <1>3, <3>5
    <3> QED
      BY <1>1, <1>8, <1>11, <2>5, <3>1, <3>2, <3>4, <3>6, PushKeeps DEF IInv
  <2>9. EdgesPending'
    <3>1. \A u \in Vertex : Queued(u) => Queued(u)'
      BY <1>1 DEF Queued
    <3>2. ASSUME NEW u \in Vertex,
                 label'[HostOf(PartitionOf[u])][u] # label[HostOf(PartitionOf[u])][u]
          PROVE  Queued(u)'
      <4>1. PICK y \in Partition : y = PartitionOf[u]
        BY GraphTypes
      <4>2. HostOf(y) = h /\ u = t
        BY <1>6, <3>2, <4>1, QueryType DEF IInv
      <4>3. y # p
        BY <1>4, <4>2, QueryType DEF IInv
      <4>4. t \notin Own(p)
        BY <4>1, <4>2, <4>3, OwnType
      <4> QED
        BY <1>1, <2>3, <4>2, <4>4 DEF Queued
    <3>3. ASSUME NEW u \in Vertex, NEW i \in 1 .. Len(OutEdge[u]), Walked(u, i),
                 label'[HostOf(PartitionOf[u])][u] = label[HostOf(PartitionOf[u])][u]
          PROVE  Walked(u, i)'
      BY <1>1, <3>3 DEF Walked, Carried, HostOf
    <3>4. ASSUME NEW u \in Vertex, ~Queued(u)'
          PROVE  /\ label'[HostOf(PartitionOf[u])][u] = label[HostOf(PartitionOf[u])][u]
                 /\ \A i \in 1 .. Len(OutEdge[u]) : Queued(u) \/ Walked(u, i) => Walked(u, i)'
      BY <3>1, <3>2, <3>3, <3>4
    <3> QED
      BY <1>1, <1>8, <1>11, <2>5, <3>4, PendingKeeps DEF IInv
  <2>10. Starting'
    BY <2>1, StartingOver
  <2> QED
    BY <1>8, <1>9, <1>10, <2>8, <2>9, <2>10 DEF IInv
<1>12. CASE ~Loaded
  <2>1. ~Loaded' /\ phase[p] = "loading"
    BY <1>1, <1>4, <1>12 DEF IInv, Starting, Loaded
  <2>2. t \in Own(p) /\ o = FirstValue(t)
    BY <1>3, <1>12, <2>1 DEF IInv, Starting
  <2>3. label'[h][t] = FirstValue(t)
    BY <1>5, <1>6, <2>1, <2>2
  <2>4. Starting'
    <3> SUFFICES ASSUME NEW x \in Partition
                 PROVE  /\ phase'[x] \in {"load", "loading", "replied"}
                        /\ phase'[x] # "load" =>
                             /\ activate'[x] = FirstActive(x)
                             /\ \A k \in Host : inflight'[x][k] \subseteq
                                                  { << v, FirstValue(v) >> : v \in Own(x) }
                             /\ \A v \in Own(x), k \in Hosts :
                                  \/ label'[k][v] = FirstValue(v)
                                  \/ k # HostOf(x) /\ << v, FirstValue(v) >> \in inflight'[x][k]
      <4>1. /\ \A x \in Partition : FirstActive(x)' = FirstActive(x) /\ HostOf(x)' = HostOf(x)
            /\ \A v \in Vertex : FirstValue(v)' = FirstValue(v)
            /\ Hosts' = Hosts
        BY <1>1, QueryFixed DEF FirstActive, FirstValue, Origin
      <4> QED
        BY <4>1, OwnType DEF Starting
    <3>1. /\ phase'[x] \in {"load", "loading", "replied"}
          /\ phase'[x] # "load" => activate'[x] = FirstActive(x)
      BY <1>1, <1>12 DEF IInv, Starting
    <3>2. \A k \in Host : inflight'[x][k] \subseteq inflight[x][k]
      BY <1>7
    <3>3. ASSUME phase'[x] # "load"
          PROVE  \A k \in Host : inflight'[x][k] \subseteq
                                   { << v, FirstValue(v) >> : v \in Own(x) }
      <4>1. \A k \in Host : inflight[x][k] \subseteq { << v, FirstValue(v) >> : v \in Own(x) }
        BY <1>1, <1>12, <3>3 DEF IInv, Starting
      <4> QED
        BY <3>2, <4>1
    <3>4. ASSUME phase'[x] # "load", NEW v \in Own(x), NEW k \in Hosts,
                 label'[k][v] # FirstValue(v)
          PROVE  k # HostOf(x) /\ << v, FirstValue(v) >> \in inflight'[x][k]
      <4>1. v \in Vertex /\ k \in Host
        BY OwnType, QueryType DEF IInv
      <4>2. k # h \/ v # t
        BY <2>3, <3>4
      <4>3. label[k][v] # FirstValue(v)
        BY <1>6, <3>4, <4>1, <4>2
      <4>4. k # HostOf(x) /\ << v, FirstValue(v) >> \in inflight[x][k]
        BY <1>1, <1>12, <3>4, <4>3 DEF IInv, Starting
      <4>5. x # p \/ k # h \/ << v, FirstValue(v) >> # e
        BY <1>3, <4>2
      <4> QED
        BY <1>7, <4>1, <4>4, <4>5
    <3> QED
      BY <3>1, <3>3, <3>4
  <2>5. Pushed' /\ Agreeing' /\ EdgesPending'
    BY <2>1 DEF Pushed, Agreeing, EdgesPending
  <2> QED
    BY <1>8, <1>9, <1>10, <2>4, <2>5 DEF IInv
<1> QED
  BY <1>11, <1>12

-----------------------------------------------------------------------------
(***************************************************************************)
(* Loading and answers.                                                    *)
(***************************************************************************)
LEMMA StartsFixed ==
  ASSUME query' = query
  PROVE  /\ \A x \in Partition : FirstActive(x)' = FirstActive(x)
         /\ \A v : FirstValue(v)' = FirstValue(v)
<1>1. Origin' = Origin /\ Unreached' = Unreached
  BY QueryFixed DEF Origin
<1> QED
  BY <1>1 DEF FirstActive, FirstValue

\* The labels get their first values.
LEMMA LoadMemKeeps ==
  ASSUME IInv, NEW p \in Partition, LoadMem(p)
  PROVE  IInv'
<1> DEFINE First == { << v, FirstValue(v) >> : v \in Own(p) }
<1>1. /\ phase[p] = "load"
      /\ label' = [label EXCEPT ![HostOf(p)] =
                     [v \in Vertex |-> IF v \in Own(p) THEN FirstValue(v) ELSE @[v]]]
      /\ activate' = [activate EXCEPT ![p] = FirstActive(p)]
      /\ Send(p, First)
      /\ phase' = [phase EXCEPT ![p] = "loading"]
      /\ UNCHANGED << query, active, work, scan, unsent >>
  BY DEF LoadMem
<1>2. First \in SUBSET Pair
  BY OwnType, FirstValueType DEF IInv, Pair
<1> HIDE DEF First
<1>3. /\ inflight' \in [Partition -> [Host -> SUBSET Pair]]
      /\ \A x \in Partition : x # p => inflight'[x] = inflight[x]
      /\ \A h \in Host : /\ h \in Remote(p) => inflight'[p][h] = inflight[p][h] \cup First
                         /\ h \notin Remote(p) => inflight'[p][h] = inflight[p][h]
  BY <1>1, <1>2, SendIs DEF IInv
<1>4. \A h \in Host : inflight[p][h] = {}
  BY <1>1 DEF IInv, Idle
<1>5. PICK g \in Host : g = HostOf(p) /\ g \in Hosts /\ g \notin Remote(p)
  BY QueryType DEF IInv
<1>6. /\ label' \in [Host -> [Vertex -> Values]]
      /\ \A v \in Own(p) : label'[g][v] = FirstValue(v)
      /\ \A h \in Host, v \in Vertex : h # g \/ v \notin Own(p) => label'[h][v] = label[h][v]
  <2>1. label \in [Host -> [Vertex -> Values]]
    BY DEF IInv, Typed
  <2>2. PICK old \in [Vertex -> Values] : old = label[g]
    BY <2>1
  <2>3. PICK new : new = [v \in Vertex |-> IF v \in Own(p) THEN FirstValue(v) ELSE old[v]]
    OBVIOUS
  <2>4. label' = [label EXCEPT ![g] = new]
    BY <1>1, <1>5, <2>2, <2>3
  <2>5. \A v \in Vertex : FirstValue(v) \in Values
    BY FirstValueType DEF IInv
  <2>6. /\ new \in [Vertex -> Values]
        /\ \A v \in Vertex : /\ v \in Own(p) => new[v] = FirstValue(v)
                             /\ v \notin Own(p) => new[v] = old[v]
    BY <2>2, <2>3, <2>5
  <2>7. label' \in [Host -> [Vertex -> Values]] /\ label'[g] = new
        /\ \A h \in Host : h # g => label'[h] = label[h]
    BY <2>1, <2>4, <2>6
  <2> QED
    BY <2>2, <2>6, <2>7, OwnType
<1>7. /\ phase'[p] = "loading" /\ activate'[p] = FirstActive(p)
      /\ \A x \in Partition : x # p => phase'[x] = phase[x] /\ activate'[x] = activate[x]
      /\ phase' \in [Partition -> Phases]
  BY <1>1 DEF IInv, Typed, Phases
<1>8. ~Loaded /\ ~Loaded'
  BY <1>1, <1>7 DEF Loaded
<1>9. Typed'
  <2>1. FirstActive(p) \in SUBSET Vertex
    BY OwnType DEF FirstActive
  <2>2. activate' \in [Partition -> SUBSET Vertex]
    BY <1>1, <2>1 DEF IInv, Typed
  <2> QED
    BY <1>1, <1>3, <1>6, <1>7, <2>2, QueryFixed DEF IInv, Typed
<1>10. Idle'
  <2>1. /\ phase'[p] # "calc" => work'[p] = << >> /\ scan'[p] = NoScan /\ unsent'[p] = {}
        /\ \A h \in Host : inflight'[p][h] # {} =>
             h \in Remote(p) /\ phase'[p] \in {"loading", "calc", "pushing"}
    BY <1>1, <1>3, <1>4, <1>7 DEF IInv, Idle
  <2>2. ASSUME NEW x \in Partition, x # p
        PROVE  /\ phase'[x] # "calc" => work'[x] = << >> /\ scan'[x] = NoScan /\ unsent'[x] = {}
               /\ \A h \in Host : inflight'[x][h] # {} =>
                    h \in Remote(x) /\ phase'[x] \in {"loading", "calc", "pushing"}
    BY <1>1, <1>3, <1>7, <2>2 DEF IInv, Idle
  <2>3. \A x \in Partition : Remote(x)' = Remote(x)
    BY <1>1, QueryFixed
  <2> QED
    BY <2>1, <2>2, <2>3 DEF Idle
<1>11. Walking'
  <2>1. \A x \in Partition : Offer(x)' = Offer(x)
    BY <1>1 DEF Offer
  <2> QED
    BY <1>1, <2>1, QueryFixed DEF IInv, Walking
<1>12. Starting'
  <2> SUFFICES ASSUME NEW x \in Partition
               PROVE  /\ phase'[x] \in {"load", "loading", "replied"}
                      /\ phase'[x] # "load" =>
                           /\ activate'[x] = FirstActive(x)
                           /\ \A k \in Host : inflight'[x][k] \subseteq
                                                { << v, FirstValue(v) >> : v \in Own(x) }
                           /\ \A v \in Own(x), k \in Hosts :
                                \/ label'[k][v] = FirstValue(v)
                                \/ k # HostOf(x) /\ << v, FirstValue(v) >> \in inflight'[x][k]
    BY <1>1, QueryFixed, StartsFixed DEF Starting
  <2>1. CASE x = p
    <3>1. \A k \in Host : inflight'[p][k] \subseteq First
      BY <1>3, <1>4
    <3>2. ASSUME NEW v \in Own(p), NEW k \in Hosts
          PROVE  \/ label'[k][v] = FirstValue(v)
                 \/ k # HostOf(p) /\ << v, FirstValue(v) >> \in inflight'[p][k]
      <4>1. CASE k = g
        BY <1>6, <4>1
      <4>2. CASE k # g
        <5>1. k \in Host /\ k \in Remote(p)
          BY <1>5, <4>2, QueryType DEF IInv
        <5>2. << v, FirstValue(v) >> \in First
          BY DEF First
        <5> QED
          BY <1>3, <1>5, <4>2, <5>1, <5>2
      <4> QED
        BY <4>1, <4>2
    <3> QED
      BY <1>7, <2>1, <3>1, <3>2 DEF First
  <2>2. CASE x # p
    <3>1. \A v \in Own(x) : v \in Vertex /\ v \notin Own(p)
      BY <2>2, OwnType
    <3>2. \A v \in Own(x), k \in Hosts : label'[k][v] = label[k][v]
      BY <1>6, <3>1, QueryType DEF IInv
    <3>3. /\ phase[x] \in {"load", "loading", "replied"}
          /\ phase[x] # "load" =>
               /\ activate[x] = FirstActive(x)
               /\ \A k \in Host : inflight[x][k] \subseteq
                                    { << v, FirstValue(v) >> : v \in Own(x) }
               /\ \A v \in Own(x), k \in Hosts :
                    \/ label[k][v] = FirstValue(v)
                    \/ k # HostOf(x) /\ << v, FirstValue(v) >> \in inflight[x][k]
      BY <1>8 DEF IInv, Starting
    <3> QED
      BY <1>3, <1>7, <2>2, <3>2, <3>3
  <2> QED
    BY <2>1, <2>2
<1>13. Pushed' /\ Agreeing' /\ EdgesPending'
  BY <1>8 DEF Pushed, Agreeing, EdgesPending
<1> QED
  BY <1>9, <1>10, <1>11, <1>12, <1>13 DEF IInv

\* Where an edge can improve a value that vertices start with, its source starts active.
LEMMA FirstRound ==
  ASSUME IInv,
         NEW u \in Vertex, NEW i \in 1 .. Len(OutEdge[u]), NEW h \in Host,
         label[h][u] = FirstValue(u), label[h][OutEdge[u][i]] = FirstValue(OutEdge[u][i]),
         Improvable(h, u, i)
  PROVE  u \in FirstActive(PartitionOf[u])
<1>1. u \in Own(PartitionOf[u])
  BY DEF Own
<1>2. CASE query.app = "cc"
  BY <1>1, <1>2 DEF FirstActive
<1>3. CASE query.app # "cc"
  <2>1. FirstValue(u) < Unreached
    BY <1>3, ImprovableIs, QueryType DEF IInv
  <2>2. u = Origin
    BY <1>3, <2>1, QueryType DEF FirstValue, IInv
  <2> QED
    BY <1>1, <1>3, <2>2 DEF FirstActive
<1> QED
  BY <1>2, <1>3

\* A runner answers the coordinator.
LEMMA ReplyKeeps ==
  ASSUME IInv, NEW p \in Partition, Reply(p)
  PROVE  IInv'
<1>1. /\ phase[p] \in {"loading", "pushing"} /\ \A h \in Host : inflight[p][h] = {}
      /\ phase' = [phase EXCEPT ![p] = "replied"]
      /\ UNCHANGED << query, label, active, activate, work, scan, unsent, inflight >>
  BY DEF Reply, PushesAnswered
<1>2. /\ phase'[p] = "replied" /\ phase' \in [Partition -> Phases]
      /\ \A x \in Partition : x # p => phase'[x] = phase[x]
  BY <1>1 DEF IInv, Typed, Phases
<1>3. Typed'
  BY <1>1, <1>2, QueryFixed DEF IInv, Typed
<1>4. Idle'
  <2>1. ASSUME NEW x \in Partition
        PROVE  /\ phase'[x] # "calc" => work'[x] = << >> /\ scan'[x] = NoScan /\ unsent'[x] = {}
               /\ \A h \in Host : inflight'[x][h] # {} =>
                    h \in Remote(x) /\ phase'[x] \in {"loading", "calc", "pushing"}
    BY <1>1, <1>2 DEF IInv, Idle
  <2>2. \A x \in Partition : Remote(x)' = Remote(x)
    BY <1>1, QueryFixed
  <2> QED
    BY <2>1, <2>2 DEF Idle
<1>5. Walking'
  <2>1. \A x \in Partition : Offer(x)' = Offer(x)
    BY <1>1 DEF Offer
  <2> QED
    BY <1>1, <2>1, QueryFixed DEF IInv, Walking
<1>6. CASE Loaded
  <2>1. Loaded'
    BY <1>1, <1>6, LoadedKept DEF IInv, Phases
  <2>2. Pushed' /\ Agreeing'
    BY <1>1, <1>6, PushFixed DEF IInv
  <2>3. EdgesPending'
    <3>1. \A h \in Host, v \in Vertex : AsGood(label'[h][v], label[h][v])
      BY <1>1, ValuesInt, AsGoodOrder DEF IInv
    <3>2. ASSUME NEW u \in Vertex, NEW y \in Partition, y = PartitionOf[u], Queued(u)
          PROVE  Queued(u)'
      <4>1. phase[y] = "dispatched" => phase'[y] = "dispatched"
        BY <1>1, <1>2
      <4> QED
        BY <1>1, <3>2, <4>1 DEF Queued
    <3>3. ASSUME NEW u \in Vertex, NEW i \in 1 .. Len(OutEdge[u]), Walked(u, i)
          PROVE  Walked(u, i)'
      BY <1>1, <3>3 DEF Walked, Carried, HostOf
    <3>4. ASSUME NEW u \in Vertex
          PROVE  /\ label'[HostOf(PartitionOf[u])][u] = label[HostOf(PartitionOf[u])][u]
                 /\ Queued(u) => Queued(u)'
      BY <1>1, <3>2, GraphTypes
    <3> QED
      BY <1>1, <1>3, <1>6, <3>1, <3>3, <3>4, PendingKeeps DEF IInv
  <2> QED
    BY <1>3, <1>4, <1>5, <2>1, <2>2, <2>3, StartingOver DEF IInv
<1>7. CASE ~Loaded
  <2>1. \A x \in Partition :
          /\ phase[x] \in {"load", "loading", "replied"}
          /\ phase[x] # "load" =>
               /\ activate[x] = FirstActive(x)
               /\ \A k \in Host : inflight[x][k] \subseteq
                                    { << v, FirstValue(v) >> : v \in Own(x) }
               /\ \A v \in Own(x), k \in Hosts :
                    \/ label[k][v] = FirstValue(v)
                    \/ k # HostOf(x) /\ << v, FirstValue(v) >> \in inflight[x][k]
    BY <1>7 DEF IInv, Starting
  <2>2. ASSUME NEW x \in Partition
        PROVE  /\ phase'[x] \in {"load", "loading", "replied"}
               /\ phase'[x] # "load" => phase[x] # "load"
    BY <1>1, <1>2, <2>1
  <2>3. Starting'
    <3>1. \A x \in Partition :
            /\ phase'[x] \in {"load", "loading", "replied"}
            /\ phase'[x] # "load" =>
                 /\ activate'[x] = FirstActive(x)
                 /\ \A k \in Host : inflight'[x][k] \subseteq
                                      { << v, FirstValue(v) >> : v \in Own(x) }
                 /\ \A v \in Own(x), k \in Hosts :
                      \/ label'[k][v] = FirstValue(v)
                      \/ k # HostOf(x) /\ << v, FirstValue(v) >> \in inflight'[x][k]
      BY <1>1, <2>1, <2>2
    <3> QED
      BY <1>1, <3>1, QueryFixed, StartsFixed DEF Starting
  <2>4. CASE ~Loaded'
    <3>1. Pushed' /\ Agreeing' /\ EdgesPending'
      BY <2>4 DEF Pushed, Agreeing, EdgesPending
    <3> QED
      BY <1>3, <1>4, <1>5, <2>3, <3>1 DEF IInv
  <2>5. CASE Loaded'
    <3>1. \A x \in Partition : phase'[x] = "replied"
      BY <2>2, <2>5 DEF Loaded
    <3>2. \A x \in Partition : /\ phase[x] # "load" /\ unsent[x] = {}
                               /\ \A h \in Host : inflight[x][h] = {}
      BY <1>1, <1>2, <3>1 DEF IInv, Idle
    <3>3. \A x \in Partition : \A h \in Host : \A e : ~Out(x, h, e)'
      BY <1>1, <3>2 DEF Out
    <3>4. \A x \in Partition : Remote(x)' = Remote(x) /\ Remote(x) \subseteq Host
      BY <1>1, QueryFixed, QueryType DEF IInv
    <3>5. ASSUME NEW v \in Vertex, NEW k \in Hosts
          PROVE  label[k][v] = FirstValue(v)
      <4>1. PICK x \in Partition : v \in Own(x)
        BY GraphTypes DEF Own
      <4>2. inflight[x][k] = {}
        BY <3>2, QueryType DEF IInv
      <4> QED
        BY <2>1, <3>2, <4>1, <4>2
    <3>6. Pushed'
      BY <3>3, <3>4 DEF Pushed
    <3>7. Agreeing'
      <4>1. \A v \in Vertex : FirstValue(v) \in Int
        BY FirstValueType, QueryType DEF IInv, Values
      <4>2. \A g, h \in Hosts, v \in Vertex : AsGood(label[h][v], label[g][v])
        BY <3>5, <4>1, AsGoodOrder
      <4> QED
        BY <1>1, <4>2, QueryFixed DEF Agreeing, AsGood
    <3>8. EdgesPending'
      <4> SUFFICES ASSUME NEW u \in Vertex, NEW i \in 1 .. Len(OutEdge[u]),
                          Improvable(HostOf(PartitionOf[u]), u, i)'
                   PROVE  Queued(u)'
        BY DEF EdgesPending
      <4>1. PICK y \in Partition : y = PartitionOf[u]
        BY GraphTypes
      <4>2. PICK h \in Host : h = HostOf(y) /\ h \in Hosts
        BY QueryType DEF IInv
      <4>3. Improvable(h, u, i)
        BY <1>1, <4>1, <4>2, QueryFixed DEF Improvable, HostOf
      <4>4. OutEdge[u][i] \in Vertex
        BY GraphTypes
      <4>5. label[h][u] = FirstValue(u) /\ label[h][OutEdge[u][i]] = FirstValue(OutEdge[u][i])
        BY <3>5, <4>2, <4>4
      <4>6. \A x \in Partition : activate[x] = FirstActive(x)
        BY <2>1, <3>2
      <4>7. u \in FirstActive(PartitionOf[u])
        BY <4>3, <4>5, FirstRound
      <4> QED
        BY <1>1, <4>1, <4>6, <4>7 DEF Queued
    <3> QED
      BY <1>3, <1>4, <1>5, <2>3, <3>6, <3>7, <3>8 DEF IInv
  <2> QED
    BY <2>4, <2>5
<1> QED
  BY <1>6, <1>7

-----------------------------------------------------------------------------
(***************************************************************************)
(* The invariant and what follows from it.                                 *)
(***************************************************************************)
LEMMA InitLabels == Init => IInv
<1> SUFFICES ASSUME Init
             PROVE  IInv
  OBVIOUS
<1>1. /\ query \in Query
      /\ label = [h \in Host |-> [v \in Vertex |-> 0]]
      /\ phase = [p \in Partition |-> "load"]
      /\ active = {}
      /\ activate = [p \in Partition |-> {}]
      /\ work = [p \in Partition |-> << >>]
      /\ scan = [p \in Partition |-> NoScan]
      /\ unsent = [p \in Partition |-> {}]
      /\ inflight = [p \in Partition |-> [h \in Host |-> {}]]
  BY DEF Init
<1>2. Unreached \in Nat
  BY SMT DEF Unreached
<1>3. label \in [Host -> [Vertex -> Values]] /\ scan \in [Partition -> Scans]
  BY <1>1, <1>2 DEF Values, Scans
<1>4. Typed
  <2>1. /\ phase \in [Partition -> Phases] /\ active \in SUBSET Vertex
        /\ activate \in [Partition -> SUBSET Vertex] /\ unsent \in [Partition -> SUBSET Pair]
        /\ inflight \in [Partition -> [Host -> SUBSET Pair]]
    BY <1>1 DEF Phases
  <2>2. work \in [Partition -> Seq(Vertex)]
    BY <1>1
  <2> QED
    BY <1>1, <1>3, <2>1, <2>2 DEF Typed
<1>5. Idle
  BY <1>1 DEF Idle
<1>6. Walking
  <2>1. \A p \in Partition : 1 .. Len(work[p]) = {}
    BY <1>1
  <2> QED
    BY <1>1, <2>1 DEF Walking
<1>7. Starting
  BY <1>1 DEF Starting
<1>8. \A p \in Partition : \A h \in Host : \A e : ~Out(p, h, e)
  BY <1>1 DEF Out
<1>9. Pushed
  BY <1>4, <1>8, QueryType DEF Pushed
<1>10. Agreeing
  <2>1. \A g, h \in Hosts, v \in Vertex : label[g][v] = 0 /\ label[h][v] = 0
    BY <1>1, <1>4, QueryType
  <2> QED
    BY <2>1, AsGoodOrder DEF Agreeing
<1>11. EdgesPending
  <2>1. \A u \in Vertex : ~Loaded
    BY <1>1, GraphTypes DEF Loaded
  <2> QED
    BY <2>1 DEF EdgesPending
<1> QED
  BY <1>4, <1>5, <1>6, <1>7, <1>9, <1>10, <1>11 DEF IInv

\* Every step keeps the invariant.
LEMMA NextLabels == IInv /\ [Next]_vars => IInv'
<1> SUFFICES ASSUME IInv, [Next]_vars
             PROVE  IInv'
  OBVIOUS
<1>1. CASE UNCHANGED vars
  <2>1. UNCHANGED << query, label, phase, active, activate, work, scan, unsent, inflight >>
    BY <1>1 DEF vars
  <2>2. Typed'
    BY <2>1, QueryFixed DEF IInv, Typed
  <2>3. Idle'
    BY <2>1, QueryFixed DEF IInv, Idle
  <2>4. Walking'
    <3>1. \A p \in Partition : Offer(p)' = Offer(p)
      BY <2>1 DEF Offer
    <3> QED
      BY <2>1, <3>1, QueryFixed DEF IInv, Walking
  <2>5. Loaded' <=> Loaded
    BY <2>1 DEF Loaded
  <2>6. Starting'
    BY <2>1, <2>5, QueryFixed, StartsFixed DEF IInv, Starting
  <2>7. CASE Loaded
    <3>1. Pushed' /\ Agreeing'
      BY <2>1, <2>7, PushFixed DEF IInv
    <3>2. EdgesPending'
      <4>1. \A h \in Host, v \in Vertex : AsGood(label'[h][v], label[h][v])
        BY <2>1, ValuesInt, AsGoodOrder DEF IInv
      <4>2. ASSUME NEW u \in Vertex
            PROVE  /\ label'[HostOf(PartitionOf[u])][u] = label[HostOf(PartitionOf[u])][u]
                   /\ Queued(u) => Queued(u)'
                   /\ \A i \in 1 .. Len(OutEdge[u]) : Walked(u, i) => Walked(u, i)'
        BY <2>1 DEF Queued, Walked, Carried, HostOf
      <4> QED
        BY <2>1, <2>2, <2>7, <4>1, <4>2, PendingKeeps DEF IInv
    <3> QED
      BY <2>2, <2>3, <2>4, <2>6, <3>1, <3>2 DEF IInv
  <2>8. CASE ~Loaded
    <3>1. Pushed' /\ Agreeing' /\ EdgesPending'
      BY <2>5, <2>8 DEF Pushed, Agreeing, EdgesPending
    <3> QED
      BY <2>2, <2>3, <2>4, <2>6, <3>1 DEF IInv
  <2> QED
    BY <2>7, <2>8
<1>2. CASE Dispatch
  BY <1>2, DispatchKeeps
<1>3. ASSUME NEW p \in Partition, Executor(p)
      PROVE  IInv'
  <2>1. CASE LoadMem(p)
    BY <2>1, LoadMemKeeps
  <2>2. CASE Begin(p)
    BY <2>2, BeginKeeps
  <2>3. CASE Visit(p)
    BY <2>3, VisitKeeps
  <2>4. CASE Compare(p)
    BY <2>4, CompareKeeps
  <2>5. CASE Store(p)
    BY <2>5, StoreKeeps
  <2>6. CASE StoreLost(p)
    BY <2>6, StoreLostKeeps
  <2>7. CASE FlushBatch(p)
    BY <2>7, FlushBatchKeeps
  <2>8. ASSUME NEW h \in Host, NEW e \in inflight[p][h], Deliver(p, h, e)
        PROVE  IInv'
    BY <2>8, DeliverKeeps
  <2>9. CASE Reply(p)
    BY <2>9, ReplyKeeps
  <2> QED
    BY <1>3, <2>1, <2>2, <2>3, <2>4, <2>5, <2>6, <2>7, <2>8, <2>9 DEF Executor
<1> QED
  BY <1>1, <1>2, <1>3 DEF Next

\* The inductive invariant holds throughout every query: whatever the partitions write into
\* an array at once and in whatever order pushed pairs arrive.
THEOREM LabelInvariant == Spec => []IInv
<1> QED
  BY InitLabels, NextLabels, PTL DEF Spec

\* Every value, bitmap, buffer and pair stays within its type: no value exceeds that of an
\* unreached vertex, although sums of weights are compared with it.
THEOREM LabelTypeCorrect == Spec => []TypeOK
<1>1. IInv => TypeOK
  <2> SUFFICES ASSUME IInv
               PROVE  TypeOK
    OBVIOUS
  <2>1. \A h \in Host, v \in Vertex : label[h][v] \in Values
    BY DEF IInv, Typed
  <2>2. /\ query \in Query /\ phase \in [Partition -> Phases] /\ active \subseteq Vertex
        /\ \A p \in Partition :
             /\ activate[p] \subseteq Vertex
             /\ work[p] \in Seq(Vertex)
             /\ scan[p] \in Scans
             /\ unsent[p] \subseteq Pair
             /\ \A h \in Host : inflight[p][h] \subseteq Pair
    BY DEF IInv, Typed
  <2> QED
    BY <2>1, <2>2 DEF TypeOK
<1> QED
  BY <1>1, LabelInvariant, PTL

\* No vertex is forgotten: in every state after loading, the source of an edge that could
\* still improve its target is queued, being walked, or in a bitmap the coordinator will
\* dispatch (Calc, set_vertex_info and the coordinator's rounds).
THEOREM WorkIsNeverLost == Spec => []NoLostWork
<1>1. IInv => NoLostWork
  <2> SUFFICES ASSUME IInv, Loaded, NEW u \in Vertex, NEW i \in 1 .. Len(OutEdge[u]),
                      Improvable(HostOf(PartitionOf[u]), u, i)
               PROVE  Pending(u, OutEdge[u][i])
    BY DEF NoLostWork
  <2>1. Queued(u) \/ Walked(u, i)
    BY DEF IInv, EdgesPending
  <2>2. CASE Queued(u)
    BY <2>2 DEF Queued, Pending
  <2>3. CASE Walked(u, i)
    BY <2>3 DEF Walked, Pending
  <2> QED
    BY <2>1, <2>2, <2>3
<1> QED
  BY <1>1, LabelInvariant, PTL

\* At every barrier all hosts hold the same values, for bfs the same vertices as reached:
\* every push has been applied, and one that lost its race did no harm.
THEOREM HostsAgreeAtBarrier == Spec => []AgreeAtBarrier
<1>1. IInv => AgreeAtBarrier
  <2> SUFFICES ASSUME IInv, Barrier, NEW g \in Hosts, NEW h \in Hosts, NEW v \in Vertex
               PROVE  IF query.app = "bfs"
                        THEN (label[g][v] = Unreached) <=> (label[h][v] = Unreached)
                        ELSE label[g][v] = label[h][v]
    BY DEF AgreeAtBarrier
  <2>1. Loaded /\ \A p \in Partition : \A k \in Host : \A e : ~Out(p, k, e)
    BY AtBarrier
  <2>2. \A p \in Partition : Remote(p) \subseteq Host
    BY QueryType DEF IInv
  <2>3. AsGood(label[h][v], label[g][v]) /\ AsGood(label[g][v], label[h][v])
    BY <2>1, <2>2 DEF IInv, Agreeing
  <2>4. label[h][v] \in Int /\ label[g][v] \in Int
    BY ValuesInt, QueryType DEF IInv
  <2> QED
    BY <2>3, <2>4 DEF AsGood
<1> QED
  BY <1>1, LabelInvariant, PTL

-----------------------------------------------------------------------------
(***************************************************************************)
(* What is reached from a vertex: the least set around it that the edges   *)
(* do not leave.                                                           *)
(***************************************************************************)
Neighbours(u) == { OutEdge[u][i] : i \in 1 .. Len(OutEdge[u]) }
Closed(T) == \A u \in T : Neighbours(u) \subseteq T

\* The recursive function behind Reached.
Spreading ==
  CHOOSE within : within = [n \in Nat |->
    IF n = 0 THEN [v \in Vertex |-> {v}]
    ELSE [v \in Vertex |-> within[n-1][v] \cup
            UNION { { OutEdge[u][i] : i \in 1 .. Len(OutEdge[u]) } : u \in within[n-1][v] }]]

\* The reference of the model is this function.
LEMMA ReachedIs == Reached = Spreading[Cardinality(Vertex)]
  BY DEF Reached, Spreading

\* It exists, and every step adds the neighbours.
LEMMA SpreadingExists ==
  /\ Spreading \in [Nat -> [Vertex -> SUBSET Vertex]]
  /\ \A v \in Vertex : Spreading[0][v] = {v}
  /\ \A n \in Nat, v \in Vertex :
       Spreading[n + 1][v] = Spreading[n][v] \cup UNION { Neighbours(u) : u \in Spreading[n][v] }
<1> DEFINE D == [Vertex -> SUBSET Vertex]
           a == [v \in Vertex |-> {v}]
           More(r) == [v \in Vertex |-> r[v] \cup UNION { Neighbours(u) : u \in r[v] }]
           step == [r \in D |-> More(r)]
           Is(w) == w = [n \in Nat |-> IF n = 0 THEN a ELSE More(w[n-1])]
<1>1. \A u \in Vertex : Neighbours(u) \subseteq Vertex
  BY GraphTypes DEF Neighbours
<1>2. a \in D
  OBVIOUS
<1>3. ASSUME NEW r \in D
      PROVE  More(r) \in D
  <2>1. \A v \in Vertex : r[v] \cup UNION { Neighbours(u) : u \in r[v] } \in SUBSET Vertex
    BY <1>1
  <2> QED
    BY <2>1
<1>4. step \in [D -> D]
  BY <1>3
<1> HIDE DEF D, a, More
<1>5. PICK g \in [Nat -> D] : g[0] = a /\ \A n \in Nat : g[n + 1] = step[g[n]]
  <2> HIDE DEF step
  <2> QED
    BY <1>2, <1>4, Recursion
<1>6. \A n \in Nat : g[n] = IF n = 0 THEN a ELSE More(g[n - 1])
  <2> SUFFICES ASSUME NEW n \in Nat, n # 0
               PROVE  g[n] = More(g[n - 1])
    BY <1>5
  <2>1. PICK m \in Nat : m = n - 1 /\ m + 1 = n
    OBVIOUS
  <2>2. g[m + 1] = step[g[m]] /\ g[m] \in D
    BY <1>5
  <2> QED
    BY <2>1, <2>2
<1>7. Is(g)
  BY <1>5, <1>6
<1>8. Spreading = CHOOSE w : Is(w)
  BY DEF Spreading, Neighbours, a, More
<1>9. Is(Spreading)
  BY <1>7, <1>8
<1>10. Spreading[0] = a /\ \A n \in Nat : Spreading[n + 1] = More(Spreading[n])
  <2> SUFFICES ASSUME NEW n \in Nat
               PROVE  Spreading[0] = a /\ Spreading[n + 1] = More(Spreading[n])
    OBVIOUS
  <2>1. n + 1 \in Nat /\ n + 1 # 0 /\ (n + 1) - 1 = n
    OBVIOUS
  <2> QED
    BY <1>9, <2>1
<1>11. Spreading \in [Nat -> D]
  <2> DEFINE S == { n \in Nat : Spreading[n] \in D }
  <2>1. 0 \in S
    BY <1>2, <1>10
  <2>2. \A n \in Nat : n \in S => n + 1 \in S
    BY <1>3, <1>10
  <2>3. \A n \in Nat : Spreading[n] \in D
    BY <2>1, <2>2, Induction
  <2>4. Spreading = [n \in Nat |-> Spreading[n]]
    BY <1>9
  <2> QED
    BY <2>3, <2>4
<1>12. \A v \in Vertex : Spreading[0][v] = {v}
  BY <1>10 DEF a
<1>13. ASSUME NEW n \in Nat, NEW v \in Vertex
       PROVE  Spreading[n + 1][v] = Spreading[n][v] \cup UNION { Neighbours(u) : u \in Spreading[n][v] }
  BY <1>10 DEF More
<1> QED
  BY <1>11, <1>12, <1>13 DEF D

\* What is reached are vertices, the vertex itself and all neighbours of what is reached.
LEMMA ReachedClosed ==
  ASSUME NEW v \in Vertex
  PROVE  Reached[v] \subseteq Vertex /\ v \in Reached[v] /\ Closed(Reached[v])
<1> DEFINE c == Cardinality(Vertex)
           S == [n \in Nat |-> Spreading[n][v]]
<1>1. IsFiniteSet(Vertex) /\ c \in Nat
  BY GraphTypes, FS_CardinalityType
<1>2. /\ S \in [Nat -> SUBSET Vertex] /\ S[0] = {v}
      /\ \A n \in Nat : S[n + 1] = S[n] \cup UNION { Neighbours(u) : u \in S[n] }
  BY SpreadingExists
<1>3. Reached[v] = S[c]
  BY <1>1, ReachedIs
<1> HIDE DEF S, c
<1>4. \A n \in Nat : S[n] \subseteq S[n + 1] /\ (S[n + 1] = S[n] => S[n + 2] = S[n + 1])
  <2> SUFFICES ASSUME NEW n \in Nat
               PROVE  S[n] \subseteq S[n + 1] /\ (S[n + 1] = S[n] => S[n + 2] = S[n + 1])
    OBVIOUS
  <2>1. S[n + 1] = S[n] \cup UNION { Neighbours(u) : u \in S[n] }
    BY <1>2
  <2>2. S[(n + 1) + 1] = S[n + 1] \cup UNION { Neighbours(u) : u \in S[n + 1] }
    BY <1>2
  <2>3. (n + 1) + 1 = n + 2
    OBVIOUS
  <2> QED
    BY <2>1, <2>2, <2>3
<1>5. S[c + 1] = S[c]
  BY <1>1, <1>2, <1>4, GrowthEnds DEF c
<1>6. Closed(S[c])
  <2>1. S[c + 1] = S[c] \cup UNION { Neighbours(u) : u \in S[c] }
    BY <1>1, <1>2
  <2> QED
    BY <1>5, <2>1 DEF Closed
<1>7. v \in S[c]
  <2> DEFINE P == { n \in Nat : v \in S[n] }
  <2>1. 0 \in P
    BY <1>2
  <2>2. \A n \in Nat : n \in P => n + 1 \in P
    BY <1>4
  <2> QED
    BY <1>1, <2>1, <2>2, Induction
<1>8. S[c] \subseteq Vertex
  BY <1>1, <1>2
<1> QED
  BY <1>3, <1>6, <1>7, <1>8

\* Nothing else is.
LEMMA ReachedLeast ==
  ASSUME NEW v \in Vertex, NEW T, v \in T, Closed(T)
  PROVE  Reached[v] \subseteq T
<1> DEFINE P == { n \in Nat : Spreading[n][v] \subseteq T }
<1>1. 0 \in P
  BY SpreadingExists
<1>2. ASSUME NEW n \in Nat, n \in P
      PROVE  n + 1 \in P
  <2>1. Spreading[n + 1][v] = Spreading[n][v] \cup UNION { Neighbours(u) : u \in Spreading[n][v] }
    BY SpreadingExists
  <2> QED
    BY <1>2, <2>1 DEF Closed
<1>3. Cardinality(Vertex) \in P
  BY <1>1, <1>2, Induction, GraphTypes, FS_CardinalityType
<1> QED
  BY <1>3, ReachedIs

-----------------------------------------------------------------------------
(***************************************************************************)
(* The distance from vertex 0: the greatest values that are at most 0 at   *)
(* the vertex and at most the value along each edge.                       *)
(***************************************************************************)
LEMMA LeastIs ==
  ASSUME NEW S \in SUBSET Nat, S # {}
  PROVE  Least(S) \in S /\ \A y \in S : Least(S) <= y
  BY Smallest DEF Least

\* What can be said of v after one more step, if d is known so far.
Infinite == 2147483647 - 1000
Over(d, u, v) ==
  { d[u] + OutWeight[u][i] : i \in { j \in 1 .. Len(OutEdge[u]) : OutEdge[u][j] = v } }
Candidates(d, v) == {d[v]} \cup UNION { Over(d, u, v) : u \in Reached[0] }
Shorter(d) == [v \in Vertex |-> Least(Candidates(d, v))]

\* The recursive function behind Distance.
Shortening ==
  CHOOSE within : within = [n \in Nat |->
    IF n = 0 THEN [v \in Vertex |-> IF v = 0 THEN 0 ELSE 2147483647 - 1000]
    ELSE [v \in Vertex |->
            Least({within[n-1][v]} \cup
                  UNION { { within[n-1][u] + OutWeight[u][i] :
                              i \in { j \in 1 .. Len(OutEdge[u]) : OutEdge[u][j] = v } } :
                          u \in Reached[0] })]]

\* The reference of the model is this function.
LEMMA DistanceIs == Distance = Shortening[Cardinality(Vertex)]
  BY DEF Distance, Shortening

\* The candidates are numbers: the present value, and one for each edge.
LEMMA CandidatesType ==
  ASSUME 0 \in Vertex, NEW d \in [Vertex -> Nat], NEW v \in Vertex
  PROVE  /\ Candidates(d, v) \in SUBSET Nat /\ d[v] \in Candidates(d, v)
         /\ \A x \in Candidates(d, v) :
              \/ x = d[v]
              \/ \E u \in Reached[0] : \E i \in 1 .. Len(OutEdge[u]) :
                   OutEdge[u][i] = v /\ x = d[u] + OutWeight[u][i]
         /\ \A u \in Reached[0] : \A i \in 1 .. Len(OutEdge[u]) :
              OutEdge[u][i] = v => d[u] + OutWeight[u][i] \in Candidates(d, v)
<1>1. Reached[0] \subseteq Vertex
  BY ReachedClosed
<1>2. ASSUME NEW u \in Reached[0], NEW i \in 1 .. Len(OutEdge[u])
      PROVE  d[u] + OutWeight[u][i] \in Nat
  <2>1. u \in Vertex /\ d[u] \in Nat
    BY <1>1
  <2>2. OutWeight[u][i] \in Nat
    BY <2>1, GraphTypes
  <2> QED
    BY <2>1, <2>2
<1>3. \A u \in Reached[0] : Over(d, u, v) \in SUBSET Nat
  BY <1>2 DEF Over
<1>4. Candidates(d, v) \in SUBSET Nat /\ d[v] \in Candidates(d, v)
  BY <1>3 DEF Candidates
<1>5. ASSUME NEW x \in Candidates(d, v), x # d[v]
      PROVE  \E u \in Reached[0] : \E i \in 1 .. Len(OutEdge[u]) :
               OutEdge[u][i] = v /\ x = d[u] + OutWeight[u][i]
  <2>1. PICK u \in Reached[0] : x \in Over(d, u, v)
    BY <1>5 DEF Candidates
  <2> QED
    BY <2>1 DEF Over
<1>6. ASSUME NEW u \in Reached[0], NEW i \in 1 .. Len(OutEdge[u]), OutEdge[u][i] = v
      PROVE  d[u] + OutWeight[u][i] \in Candidates(d, v)
  <2>1. d[u] + OutWeight[u][i] \in Over(d, u, v)
    BY <1>6 DEF Over
  <2> QED
    BY <2>1 DEF Candidates
<1> QED
  BY <1>4, <1>5, <1>6

\* One step: no value rises, it is at most what an edge offers, and is either the old one or
\* what some edge offers.
LEMMA ShorterIs ==
  ASSUME 0 \in Vertex, NEW d \in [Vertex -> Nat]
  PROVE  /\ Shorter(d) \in [Vertex -> Nat]
         /\ \A v \in Vertex :
              /\ Shorter(d)[v] <= d[v]
              /\ \/ Shorter(d)[v] = d[v]
                 \/ \E u \in Reached[0] : \E i \in 1 .. Len(OutEdge[u]) :
                      OutEdge[u][i] = v /\ Shorter(d)[v] = d[u] + OutWeight[u][i]
         /\ \A u \in Reached[0] : \A i \in 1 .. Len(OutEdge[u]) :
              Shorter(d)[OutEdge[u][i]] <= d[u] + OutWeight[u][i]
<1>1. ASSUME NEW v \in Vertex
      PROVE  /\ Least(Candidates(d, v)) \in Candidates(d, v)
             /\ \A y \in Candidates(d, v) : Least(Candidates(d, v)) <= y
  <2>1. Candidates(d, v) \in SUBSET Nat /\ Candidates(d, v) # {}
    BY CandidatesType
  <2> QED
    BY <2>1, LeastIs
<1>2. \A v \in Vertex : Shorter(d)[v] = Least(Candidates(d, v))
  BY DEF Shorter
<1>3. Shorter(d) \in [Vertex -> Nat]
  <2>1. \A v \in Vertex : Least(Candidates(d, v)) \in Nat
    BY <1>1, CandidatesType
  <2> QED
    BY <2>1 DEF Shorter
<1>4. ASSUME NEW v \in Vertex
      PROVE  /\ Shorter(d)[v] <= d[v]
             /\ \/ Shorter(d)[v] = d[v]
                \/ \E u \in Reached[0] : \E i \in 1 .. Len(OutEdge[u]) :
                     OutEdge[u][i] = v /\ Shorter(d)[v] = d[u] + OutWeight[u][i]
  BY <1>1, <1>2, CandidatesType
<1>5. ASSUME NEW u \in Reached[0], NEW i \in 1 .. Len(OutEdge[u])
      PROVE  Shorter(d)[OutEdge[u][i]] <= d[u] + OutWeight[u][i]
  <2>1. PICK v \in Vertex : v = OutEdge[u][i]
    BY ReachedClosed, GraphTypes
  <2>2. d[u] + OutWeight[u][i] \in Candidates(d, v)
    BY <2>1, CandidatesType
  <2> QED
    BY <1>1, <1>2, <2>1, <2>2
<1> QED
  BY <1>3, <1>4, <1>5

\* The recursive function exists.
LEMMA ShorteningExists ==
  ASSUME 0 \in Vertex
  PROVE  /\ Shortening \in [Nat -> [Vertex -> Nat]]
         /\ \A v \in Vertex : Shortening[0][v] = IF v = 0 THEN 0 ELSE Infinite
         /\ \A n \in Nat : Shortening[n + 1] = Shorter(Shortening[n])
<1> DEFINE D == [Vertex -> Nat]
           a == [v \in Vertex |-> IF v = 0 THEN 0 ELSE Infinite]
           step == [d \in D |-> Shorter(d)]
           Is(w) == w = [n \in Nat |-> IF n = 0 THEN a ELSE Shorter(w[n-1])]
<1>1. a \in D
  BY DEF Infinite
<1>2. \A d \in D : Shorter(d) \in D
  BY ShorterIs
<1>3. step \in [D -> D]
  BY <1>2
<1> HIDE DEF D, a
<1>4. PICK g \in [Nat -> D] : g[0] = a /\ \A n \in Nat : g[n + 1] = step[g[n]]
  <2> HIDE DEF step
  <2> QED
    BY <1>1, <1>3, Recursion
<1>5. \A n \in Nat : g[n] = IF n = 0 THEN a ELSE Shorter(g[n - 1])
  <2> SUFFICES ASSUME NEW n \in Nat, n # 0
               PROVE  g[n] = Shorter(g[n - 1])
    BY <1>4
  <2>1. PICK m \in Nat : m = n - 1 /\ m + 1 = n
    OBVIOUS
  <2>2. g[m + 1] = step[g[m]] /\ g[m] \in D
    BY <1>4
  <2> QED
    BY <2>1, <2>2
<1>6. Is(g)
  BY <1>4, <1>5
<1>7. Shortening = CHOOSE w : Is(w)
  BY DEF Shortening, Shorter, Candidates, Over, Infinite, a
<1>8. Is(Shortening)
  BY <1>6, <1>7
<1>9. Shortening[0] = a /\ \A n \in Nat : Shortening[n + 1] = Shorter(Shortening[n])
  <2> SUFFICES ASSUME NEW n \in Nat
               PROVE  Shortening[0] = a /\ Shortening[n + 1] = Shorter(Shortening[n])
    OBVIOUS
  <2>1. n + 1 \in Nat /\ n + 1 # 0 /\ (n + 1) - 1 = n
    OBVIOUS
  <2> QED
    BY <1>8, <2>1
<1>10. Shortening \in [Nat -> D]
  <2> DEFINE S == { n \in Nat : Shortening[n] \in D }
  <2>1. 0 \in S
    BY <1>1, <1>9
  <2>2. \A n \in Nat : n \in S => n + 1 \in S
    BY <1>2, <1>9
  <2>3. \A n \in Nat : Shortening[n] \in D
    BY <2>1, <2>2, Induction
  <2>4. Shortening = [n \in Nat |-> Shortening[n]]
    BY <1>8
  <2> QED
    BY <2>3, <2>4
<1>11. \A v \in Vertex : Shortening[0][v] = IF v = 0 THEN 0 ELSE Infinite
  BY <1>9 DEF a
<1> QED
  BY <1>9, <1>10, <1>11 DEF D

\* The distance is no more than the start value, and no more than over any edge that leaves
\* a reached vertex: after |Vertex| steps nothing gets shorter.
LEMMA DistanceFixed ==
  ASSUME 0 \in Vertex
  PROVE  /\ Distance \in [Vertex -> Nat]
         /\ Distance[0] = 0 /\ \A v \in Vertex : Distance[v] <= Infinite
         /\ \A u \in Reached[0] : \A i \in 1 .. Len(OutEdge[u]) :
              Distance[OutEdge[u][i]] <= Distance[u] + OutWeight[u][i]
<1> DEFINE c == Cardinality(Vertex)
           d(n, v) == Shortening[n][v]
<1>1. /\ c \in Nat /\ Distance \in [Vertex -> Nat]
      /\ \A v \in Vertex : Distance[v] = d(c, v)
  <2>1. c \in Nat /\ Distance = Shortening[c]
    BY DistanceIs, GraphTypes, FS_CardinalityType
  <2> QED
    BY <2>1, ShorteningExists
<1>2. \A v \in Vertex : d(0, v) = IF v = 0 THEN 0 ELSE Infinite
  BY ShorteningExists
<1>3. \A n \in Nat, v \in Vertex : d(n, v) \in Nat
  BY ShorteningExists
<1>4. ASSUME NEW n \in Nat
      PROVE  /\ \A v \in Vertex : d(n + 1, v) <= d(n, v)
             /\ \A v \in Vertex : \/ d(n + 1, v) = d(n, v)
                                  \/ \E u \in Reached[0] : \E i \in 1 .. Len(OutEdge[u]) :
                                       OutEdge[u][i] = v /\ d(n + 1, v) = d(n, u) + OutWeight[u][i]
             /\ \A u \in Reached[0] : \A i \in 1 .. Len(OutEdge[u]) :
                  d(n + 1, OutEdge[u][i]) <= d(n, u) + OutWeight[u][i]
  <2>1. PICK e \in [Vertex -> Nat] : e = Shortening[n] /\ Shortening[n + 1] = Shorter(e)
    BY ShorteningExists
  <2>2. /\ \A v \in Vertex : Shorter(e)[v] <= e[v]
        /\ \A v \in Vertex : \/ Shorter(e)[v] = e[v]
                             \/ \E u \in Reached[0] : \E i \in 1 .. Len(OutEdge[u]) :
                                  OutEdge[u][i] = v /\ Shorter(e)[v] = e[u] + OutWeight[u][i]
        /\ \A u \in Reached[0] : \A i \in 1 .. Len(OutEdge[u]) :
             Shorter(e)[OutEdge[u][i]] <= e[u] + OutWeight[u][i]
    BY ShorterIs
  <2> QED
    BY <2>1, <2>2
<1> HIDE DEF c, d
<1>5. ASSUME NEW v \in Vertex, NEW m \in Nat, NEW n \in Nat, m <= n
      PROVE  d(n, v) <= d(m, v)
  <2> DEFINE P == { k \in Nat : m <= k => d(k, v) <= d(m, v) }
  <2>1. 0 \in P
    <3>1. m <= 0 => d(0, v) <= d(m, v)
      <4>1. m <= 0 => m = 0
        OBVIOUS
      <4>2. d(0, v) <= d(0, v)
        BY <1>3
      <4> QED
        BY <4>1, <4>2
    <3> QED
      BY <3>1
  <2>2. ASSUME NEW k \in Nat, k \in P
        PROVE  k + 1 \in P
    <3>1. d(k + 1, v) <= d(k, v)
      BY <1>4
    <3>2. d(k + 1, v) \in Nat /\ d(k, v) \in Nat /\ d(m, v) \in Nat
      BY <1>3
    <3>3. CASE m = k + 1
      BY <3>2, <3>3
    <3>4. CASE m # k + 1
      BY <2>2, <3>1, <3>2, <3>4
    <3> QED
      BY <3>3, <3>4
  <2>3. n \in P
    BY <2>1, <2>2, Induction
  <2> QED
    BY <1>5, <2>3
<1> DEFINE Ever(v) == { d(n, v) : n \in Nat }
           limit(v) == Least(Ever(v))
           S == [n \in Nat |-> { v \in Vertex : d(n, v) = limit(v) }]
<1>6. ASSUME NEW v \in Vertex
      PROVE  /\ limit(v) \in Nat
             /\ \E n \in Nat : d(n, v) = limit(v)
             /\ \A n \in Nat : limit(v) <= d(n, v)
  <2>1. Ever(v) \in SUBSET Nat /\ \A n \in Nat : d(n, v) \in Ever(v)
    BY <1>3
  <2>2. d(0, v) \in Ever(v)
    BY <2>1
  <2>3. \A x \in Ever(v) : \E n \in Nat : d(n, v) = x
    OBVIOUS
  <2> HIDE DEF Ever
  <2>4. limit(v) \in Ever(v) /\ \A y \in Ever(v) : limit(v) <= y
    BY <2>1, <2>2, LeastIs
  <2> HIDE DEF limit
  <2> QED
    BY <2>1, <2>3, <2>4
<1>7. /\ S \in [Nat -> SUBSET Vertex]
      /\ \A n \in Nat, v \in Vertex : v \in S[n] <=> d(n, v) = limit(v)
  <2> HIDE DEF limit
  <2> QED
    OBVIOUS
<1> HIDE DEF S, limit
<1>8. ASSUME NEW u \in Reached[0], NEW i \in 1 .. Len(OutEdge[u])
      PROVE  /\ limit(OutEdge[u][i]) <= limit(u) + OutWeight[u][i]
             /\ \A n \in Nat : d(n, u) = limit(u) =>
                  d(n + 1, OutEdge[u][i]) <= limit(u) + OutWeight[u][i]
  <2>1. PICK v \in Vertex, w \in Nat : v = OutEdge[u][i] /\ w = OutWeight[u][i]
    BY ReachedClosed, GraphTypes
  <2>2. u \in Vertex
    BY ReachedClosed
  <2>3. \A n \in Nat : d(n + 1, v) <= d(n, u) + w
    BY <1>4, <2>1
  <2>4. PICK k \in Nat : d(k, u) = limit(u)
    BY <1>6, <2>2
  <2>5. d(k + 1, v) <= limit(u) + w /\ limit(v) <= d(k + 1, v)
    BY <1>6, <2>3, <2>4
  <2>6. limit(v) \in Nat /\ limit(u) \in Nat /\ d(k + 1, v) \in Nat
    <3>1. limit(v) \in Nat
      BY <1>6
    <3>2. limit(u) \in Nat
      BY <1>6, <2>2
    <3>3. k + 1 \in Nat
      OBVIOUS
    <3> QED
      BY <1>3, <3>1, <3>2, <3>3
  <2>7. limit(v) <= limit(u) + w
    BY <2>5, <2>6
  <2> QED
    BY <2>1, <2>3, <2>7
<1>9. \A n \in Nat : S[n] \subseteq S[n + 1]
  <2> SUFFICES ASSUME NEW n \in Nat, NEW v \in Vertex, d(n, v) = limit(v)
               PROVE  d(n + 1, v) = limit(v)
    BY <1>7
  <2>1. d(n + 1, v) <= d(n, v) /\ limit(v) <= d(n + 1, v)
    BY <1>4, <1>6
  <2>2. d(n + 1, v) \in Nat /\ limit(v) \in Nat
    BY <1>3, <1>6
  <2> QED
    BY <2>1, <2>2
<1>10. ASSUME NEW n \in Nat, S[n] # Vertex
       PROVE  S[n + 1] # S[n]
  <2> DEFINE Late == { k \in Nat : \E v \in Vertex \ S[n] : d(k, v) = limit(v) }
  <2>1. Late \in SUBSET Nat /\ Late # {}
    <3>1. PICK v \in Vertex : v \notin S[n]
      BY <1>7, <1>10
    <3>2. PICK k \in Nat : d(k, v) = limit(v)
      BY <1>6
    <3>3. k \in Late
      BY <3>1, <3>2
    <3> QED
      BY <3>3
  <2> HIDE DEF Late
  <2>2. PICK k \in Late : \A y \in Late : k <= y
    BY <2>1, Smallest
  <2>3. PICK v \in Vertex \ S[n] : d(k, v) = limit(v)
    BY <2>2 DEF Late
  <2>4. k \in Nat /\ d(n, v) # limit(v)
    BY <1>7, <2>1, <2>3
  <2>5. n < k
    <3> SUFFICES ASSUME k <= n
                 PROVE  FALSE
      BY <2>4
    <3>1. d(n, v) <= limit(v) /\ limit(v) <= d(n, v)
      BY <1>5, <1>6, <2>3, <2>4
    <3>2. d(n, v) \in Nat /\ limit(v) \in Nat
      BY <1>3, <1>6
    <3> QED
      BY <2>4, <3>1, <3>2
  <2>6. PICK j \in Nat : j + 1 = k
    <3>1. k - 1 \in Nat /\ (k - 1) + 1 = k
      BY <2>4, <2>5
    <3> QED
      BY <3>1
  <2>7. j \notin Late
    BY <2>2, <2>4, <2>6
  <2>8. d(j, v) # limit(v)
    BY <2>3, <2>7 DEF Late
  <2>9. PICK u \in Reached[0] : \E i \in 1 .. Len(OutEdge[u]) :
          OutEdge[u][i] = v /\ limit(v) = d(j, u) + OutWeight[u][i]
    <3>1. d(j + 1, v) = limit(v)
      BY <2>3, <2>6
    <3>2. \/ d(j + 1, v) = d(j, v)
          \/ \E u \in Reached[0] : \E i \in 1 .. Len(OutEdge[u]) :
               OutEdge[u][i] = v /\ d(j + 1, v) = d(j, u) + OutWeight[u][i]
      BY <1>4
    <3> QED
      BY <2>8, <3>1, <3>2
  <2>10. PICK i \in 1 .. Len(OutEdge[u]) :
           OutEdge[u][i] = v /\ limit(v) = d(j, u) + OutWeight[u][i]
    BY <2>9
  <2>11. u \in Vertex /\ OutWeight[u][i] \in Nat
    BY ReachedClosed, GraphTypes
  <2>12. d(j, u) \in Nat /\ limit(u) \in Nat /\ limit(u) <= d(j, u)
    BY <1>3, <1>6, <2>11
  <2>13. limit(v) <= limit(u) + OutWeight[u][i]
    BY <1>8, <2>10
  <2>14. d(j, u) = limit(u)
    BY <2>10, <2>11, <2>12, <2>13
  <2>15. u \in S[n]
    BY <2>7, <2>11, <2>14 DEF Late
  <2>16. d(n, u) = limit(u)
    BY <1>7, <2>11, <2>15
  <2>17. d(n + 1, v) <= limit(v)
    BY <1>8, <2>10, <2>14, <2>16
  <2>18. d(n + 1, v) \in Nat /\ limit(v) \in Nat /\ limit(v) <= d(n + 1, v)
    <3>1. n + 1 \in Nat
      OBVIOUS
    <3>2. limit(v) \in Nat /\ \A m \in Nat : limit(v) <= d(m, v)
      BY <1>6
    <3> QED
      BY <1>3, <3>1, <3>2
  <2>19. v \in S[n + 1]
    BY <1>7, <2>17, <2>18
  <2> QED
    BY <2>3, <2>19
<1>11. \A n \in Nat : S[n + 1] = S[n] => S[n + 2] = S[n + 1]
  <2> SUFFICES ASSUME NEW n \in Nat, S[n + 1] = S[n]
               PROVE  S[n + 2] = S[n + 1]
    OBVIOUS
  <2>1. S[n] = Vertex
    BY <1>10
  <2>2. n + 1 \in Nat /\ (n + 1) + 1 = n + 2
    OBVIOUS
  <2>3. S[n + 1] \subseteq S[n + 2] /\ S[n + 2] \subseteq Vertex
    BY <1>7, <1>9, <2>2
  <2> QED
    BY <2>1, <2>3
<1>12. S[c] = Vertex
  <2>1. S[c + 1] = S[c]
    BY <1>7, <1>9, <1>11, GraphTypes, GrowthEnds DEF c
  <2> QED
    BY <1>1, <1>10, <2>1
<1>13. \A v \in Vertex : Distance[v] = limit(v)
  BY <1>1, <1>7, <1>12
<1>14. ASSUME NEW v \in Vertex
       PROVE  Distance[v] <= IF v = 0 THEN 0 ELSE Infinite
  <2>1. limit(v) <= d(0, v)
    BY <1>6
  <2> QED
    BY <1>2, <1>13, <2>1
<1>15. Distance[0] = 0
  <2>1. Distance[0] <= 0 /\ Distance[0] \in Nat
    BY <1>1, <1>14
  <2> QED
    BY <2>1
<1>16. \A v \in Vertex : Distance[v] <= Infinite
  BY <1>14, <1>15, SMT DEF Infinite
<1>17. ASSUME NEW u \in Reached[0], NEW i \in 1 .. Len(OutEdge[u])
       PROVE  Distance[OutEdge[u][i]] <= Distance[u] + OutWeight[u][i]
  <2>1. u \in Vertex /\ OutEdge[u][i] \in Vertex
    BY ReachedClosed, GraphTypes
  <2> QED
    BY <1>8, <1>13, <2>1
<1> QED
  BY <1>1, <1>15, <1>16, <1>17

\* No values with these two facts are greater.
LEMMA DistanceGreatest ==
  ASSUME 0 \in Vertex, NEW f \in [Vertex -> Nat], f[0] = 0, \A v \in Vertex : f[v] <= Infinite,
         \A u \in Reached[0] : \A i \in 1 .. Len(OutEdge[u]) :
           f[OutEdge[u][i]] <= f[u] + OutWeight[u][i]
  PROVE  \A v \in Vertex : f[v] <= Distance[v]
<1> DEFINE d(n, v) == Shortening[n][v]
           P == { n \in Nat : \A v \in Vertex : f[v] <= d(n, v) }
<1>1. \A n \in Nat, v \in Vertex : d(n, v) \in Nat
  BY ShorteningExists
<1>2. 0 \in P
  <2>1. ASSUME NEW v \in Vertex
        PROVE  f[v] <= d(0, v)
    <3>1. d(0, v) = IF v = 0 THEN 0 ELSE Infinite
      BY ShorteningExists
    <3> HIDE DEF d
    <3>2. CASE v = 0
      BY <3>1, <3>2
    <3>3. CASE v # 0
      BY <3>1, <3>3
    <3> QED
      BY <3>2, <3>3
  <2> QED
    BY <2>1
<1>3. ASSUME NEW n \in Nat, n \in P
      PROVE  n + 1 \in P
  <2>1. PICK e \in [Vertex -> Nat] : e = Shortening[n] /\ Shortening[n + 1] = Shorter(e)
    BY ShorteningExists
  <2>2. ASSUME NEW v \in Vertex
        PROVE  f[v] <= d(n + 1, v)
    <3>1. \A x \in Vertex : f[x] <= d(n, x)
      BY <1>3
    <3>2. \/ d(n + 1, v) = d(n, v)
          \/ \E u \in Reached[0] : \E i \in 1 .. Len(OutEdge[u]) :
               OutEdge[u][i] = v /\ d(n + 1, v) = d(n, u) + OutWeight[u][i]
      <4>1. \/ Shorter(e)[v] = e[v]
            \/ \E u \in Reached[0] : \E i \in 1 .. Len(OutEdge[u]) :
                 OutEdge[u][i] = v /\ Shorter(e)[v] = e[u] + OutWeight[u][i]
        BY ShorterIs
      <4> QED
        BY <2>1, <4>1
    <3> HIDE DEF d
    <3>3. CASE d(n + 1, v) = d(n, v)
      BY <3>1, <3>3
    <3>4. ASSUME NEW u \in Reached[0], NEW i \in 1 .. Len(OutEdge[u]),
                 OutEdge[u][i] = v, d(n + 1, v) = d(n, u) + OutWeight[u][i]
          PROVE  f[v] <= d(n + 1, v)
      <4>1. PICK w \in Nat : u \in Vertex /\ w = OutWeight[u][i]
        BY ReachedClosed, GraphTypes
      <4>2. f[u] <= d(n, u) /\ f[u] \in Nat /\ d(n, u) \in Nat /\ f[v] \in Nat
        BY <1>1, <3>1, <4>1
      <4>3. f[v] <= f[u] + w
        BY <3>4, <4>1
      <4>4. d(n + 1, v) = d(n, u) + w
        BY <3>4, <4>1
      <4>5. PICK x \in Nat, y \in Nat, z \in Nat : x = f[u] /\ y = d(n, u) /\ z = f[v]
        BY <4>2
      <4>6. z <= y + w
        BY <4>2, <4>3, <4>5
      <4> QED
        BY <4>4, <4>5, <4>6
    <3> QED
      BY <3>2, <3>3, <3>4
  <2> QED
    BY <2>2
<1> HIDE DEF P
<1>4. Cardinality(Vertex) \in P
  BY <1>2, <1>3, Induction, GraphTypes, FS_CardinalityType
<1>5. \A v \in Vertex : f[v] <= Shortening[Cardinality(Vertex)][v]
  BY <1>4 DEF P
<1> QED
  BY <1>5, DistanceIs

-----------------------------------------------------------------------------
(***************************************************************************)
(* What justifies a value, and the invariant that all values are: those in *)
(* the arrays, those on their way, and those carried along edges.          *)
(***************************************************************************)
Sound(v, x) ==
  /\ query.app = "cc" => x \in Reached[v]
  /\ query.app = "sssp" => x >= Distance[v] /\ (x < Unreached => v \in Reached[0])
  /\ query.app = "bfs" => IF v = Origin THEN x = 0 ELSE x = Unreached \/ ParentOf(v, x)

\* Partition p works on u or has activated it.
Marked(p, u) ==
  \/ u \in activate[p]
  \/ \E i \in 1 .. Len(work[p]) : work[p][i] = u
  \/ scan[p] # NoScan /\ scan[p].vertex = u
  \/ phase[p] = "dispatched" /\ u \in active

LabelsSound ==
  \A h \in Hosts, v \in Vertex : Sound(v, label[h][v]) /\ AsGood(label[h][v], FirstValue(v))
PairsSound ==
  \A p \in Partition : \A h \in Remote(p), e \in Pair : Out(p, h, e) => Sound(e[1], e[2])
ScansSound ==
  \A p \in Partition : scan[p] # NoScan =>
    /\ query.app # "bfs" => Sound(scan[p].vertex, scan[p].value)
    /\ query.app = "bfs" => (scan[p].stage = "store" => Target(p) # Origin)
Visible ==
  \A p \in Partition, u \in Vertex : Marked(p, u) => label[HostOf(p)][u] # Unreached
Grounded == Loaded => LabelsSound /\ PairsSound /\ ScansSound /\ Visible

\* For bfs on one host: u is the parent of v, or will be once a partition stores it.
Link(h, v, u) ==
  /\ v # Origin
  /\ \/ label[h][v] # Unreached /\ u = label[h][v]
     \/ \E p \in Partition : scan[p].stage = "store" /\ Target(p) = v /\ u = scan[p].vertex

\* Parents are reached, and no vertices have all of them a parent among themselves.
Tree ==
  Loaded /\ query.app = "bfs" /\ Cardinality(Hosts) = 1 => \A h \in Hosts :
    /\ \A v \in Vertex \ {Origin} : label[h][v] # Unreached => label[h][label[h][v]] # Unreached
    /\ \A S \in SUBSET Vertex : S # {} => \E v \in S : \A u \in S : ~Link(h, v, u)

-----------------------------------------------------------------------------
(***************************************************************************)
(* What an executor stores is justified by what it carried.                *)
(***************************************************************************)

\* The vertex a query starts from, and what an unreached vertex has.
LEMMA OriginType ==
  ASSUME Typed
  PROVE  /\ query.app # "cc" => Origin \in Vertex /\ Origin \in Reached[Origin]
         /\ query.app = "sssp" => 0 \in Vertex /\ Origin = 0 /\ Unreached = Infinite
<1>1. query.app = "sssp" => 0 \in Vertex
  BY SourceAssumption DEF Typed
<1>2. query.app = "sssp" => Unreached = Infinite
  BY SMT DEF Unreached, Infinite
<1>3. query.app # "cc" => Origin \in Vertex
  BY <1>1, QueryType DEF Origin
<1> QED
  BY <1>1, <1>2, <1>3, ReachedClosed DEF Origin

\* A vertex that bfs has reached in an array is reached in the graph.
LEMMA SeenReached ==
  ASSUME Typed, query.app = "bfs", NEW u \in Vertex, NEW x, Sound(u, x), x # Unreached
  PROVE  u \in Reached[Origin]
<1>1. Origin \in Vertex /\ Origin \in Reached[Origin]
  BY OriginType
<1>2. CASE u = Origin
  BY <1>1, <1>2
<1>3. CASE u # Origin
  <2>1. x \in Reached[Origin] /\ Adjacent(x, u)
    BY <1>3 DEF Sound, ParentOf
  <2>2. u \in Neighbours(x)
    BY <2>1 DEF Adjacent, Neighbours
  <2> QED
    BY <1>1, <2>1, <2>2, ReachedClosed DEF Closed
<1> QED
  BY <1>2, <1>3

\* For cc what is reached from one end of an edge is reached from the other.
LEMMA ReachedBack ==
  ASSUME Typed, query.app = "cc", NEW u \in Vertex, NEW v \in Neighbours(u)
  PROVE  v \in Vertex /\ Reached[u] \subseteq Reached[v]
<1>1. v \in Vertex /\ Adjacent(u, v)
  BY GraphTypes DEF Neighbours, Adjacent
<1>2. Adjacent(v, u)
  <2>1. \E q \in Query : q.app = "cc"
    BY DEF Typed
  <2> QED
    BY <1>1, <2>1, UndirectedAssumption
<1>3. u \in Neighbours(v)
  BY <1>2 DEF Adjacent, Neighbours
<1>4. u \in Reached[v]
  BY <1>1, <1>3, ReachedClosed DEF Closed
<1> QED
  BY <1>1, <1>4, ReachedClosed, ReachedLeast

\* Partition p is about to store x at v.
Offers(p, v, x) == scan[p].stage = "store" /\ Wins(p) /\ Target(p) = v /\ Offer(p) = x

\* That is justified.
LEMMA OfferSound ==
  ASSUME IInv, Grounded, Loaded, NEW p \in Partition, NEW v, NEW x, Offers(p, v, x)
  PROVE  v \in Vertex /\ x \in Values /\ x < Unreached /\ Sound(v, x)
<1>1. scan[p] # NoScan /\ scan[p].stage = "store" /\ Target(p) = v /\ Offer(p) = x
  BY Computing DEF Offers
<1>2. /\ scan[p].vertex \in Vertex /\ scan[p].value \in Values
      /\ scan[p].next \in 1 .. Len(OutEdge[scan[p].vertex])
  BY <1>1, ScanType DEF IInv, Walking
<1>3. PICK u \in Vertex, i \in 1 .. Len(OutEdge[scan[p].vertex]), s \in Values :
        u = scan[p].vertex /\ i = scan[p].next /\ s = scan[p].value
  BY <1>2
<1>4. v = OutEdge[u][i] /\ v \in Vertex /\ i \in 1 .. Len(OutEdge[u]) /\ v \in Neighbours(u)
  BY <1>1, <1>3, GraphTypes DEF Target, Neighbours
<1>5. x \in Values /\ x < Unreached /\ x \in Nat /\ s \in Nat /\ Unreached \in Nat
  <2>1. Offer(p) \in Nat /\ Offer(p) < Unreached
    BY <1>1, EdgeOfScan DEF IInv, Walking
  <2> QED
    BY <1>1, <2>1, QueryType DEF IInv, Values
<1>6. Typed /\ ScansSound /\ Visible /\ LabelsSound
  BY DEF IInv, Grounded
<1>7. CASE query.app = "cc"
  <2>1. s \in Reached[u]
    BY <1>1, <1>3, <1>6, <1>7 DEF ScansSound, Sound
  <2>2. x = s
    BY <1>1, <1>3, <1>7 DEF Offer
  <2>3. x \in Reached[v]
    BY <1>4, <1>6, <1>7, <2>1, <2>2, ReachedBack
  <2> QED
    BY <1>4, <1>5, <1>7, <2>3 DEF Sound
<1>8. CASE query.app = "sssp"
  <2>1. s >= Distance[u] /\ (s < Unreached => u \in Reached[0])
    BY <1>1, <1>3, <1>6, <1>8 DEF ScansSound, Sound
  <2>2. PICK w \in Nat : w = OutWeight[u][i]
    BY <1>4, GraphTypes
  <2>3. x = s + w
    BY <1>1, <1>3, <1>8, <2>2 DEF Offer
  <2>4. 0 \in Vertex
    BY <1>6, <1>8, OriginType
  <2>5. u \in Reached[0]
    BY <1>5, <2>1, <2>2, <2>3
  <2>6. v \in Reached[0]
    BY <1>4, <2>4, <2>5, ReachedClosed DEF Closed
  <2>7. Distance[v] <= Distance[u] + w /\ Distance[v] \in Nat /\ Distance[u] \in Nat
    <3>1. u \in Vertex /\ v \in Vertex /\ v = OutEdge[u][i]
      BY <1>3, <1>4
    <3>2. Distance[v] \in Nat /\ Distance[u] \in Nat
      BY <2>4, <3>1, DistanceFixed
    <3>3. Distance[OutEdge[u][i]] <= Distance[u] + OutWeight[u][i]
      BY <1>4, <2>4, <2>5, DistanceFixed
    <3> QED
      BY <2>2, <3>1, <3>2, <3>3
  <2>8. x >= Distance[v]
    BY <1>5, <2>1, <2>2, <2>3, <2>7, SMTT(30)
  <2> QED
    BY <1>4, <1>5, <1>8, <2>6, <2>8 DEF Sound
<1>9. CASE query.app = "bfs"
  <2>1. v # Origin
    BY <1>1, <1>6, <1>9 DEF ScansSound
  <2>2. x = u
    BY <1>1, <1>3, <1>6, <1>9, EdgeOfScan DEF IInv
  <2>3. label[HostOf(p)][u] # Unreached
    BY <1>1, <1>3, <1>6 DEF Visible, Marked
  <2>4. Sound(u, label[HostOf(p)][u])
    BY <1>6, QueryType DEF LabelsSound
  <2>5. u \in Reached[Origin]
    BY <1>6, <1>9, <2>3, <2>4, SeenReached
  <2>6. ParentOf(v, u)
    BY <1>4, <2>5 DEF ParentOf, Adjacent
  <2> QED
    BY <1>4, <1>5, <1>9, <2>1, <2>2, <2>6 DEF Sound
<1> QED
  BY <1>6, <1>7, <1>8, <1>9, QueryType

-----------------------------------------------------------------------------
(***************************************************************************)
(* What a step does to values, pairs and scans once the vertices are       *)
(* loaded, and that this keeps every value justified.                      *)
(***************************************************************************)
LabelsStep ==
  \A h \in Host, v \in Vertex :
    /\ AsGood(label'[h][v], label[h][v])
    /\ \/ label'[h][v] = label[h][v]
       \/ \E p \in Partition : HostOf(p) = h /\ Offers(p, v, label'[h][v])
       \/ \E p \in Partition : h \in Remote(p) /\ Out(p, h, << v, label'[h][v] >>)
PairsStep ==
  \A p \in Partition : \A h \in Remote(p), e \in Pair :
    Out(p, h, e)' => Out(p, h, e) \/ Offers(p, e[1], e[2])
ScansStep ==
  \A p \in Partition : scan'[p] # NoScan =>
    \/ /\ scan[p] # NoScan
       /\ scan'[p].vertex = scan[p].vertex /\ scan'[p].value = scan[p].value
       /\ scan'[p].stage = "store" =>
            scan'[p] = scan[p] \/ (Improves(p) /\ Target(p)' = Target(p))
    \/ /\ scan'[p].stage = "check"
       /\ query.app # "bfs" => scan'[p].value = label[HostOf(p)][scan'[p].vertex]
MarksStep ==
  \A p \in Partition, u \in Vertex :
    Marked(p, u)' => Marked(p, u) \/ label'[HostOf(p)][u] # Unreached
Steps ==
  query' = query /\ Loaded /\ Loaded' /\ LabelsStep /\ PairsStep /\ ScansStep /\ MarksStep

\* What justifies a value depends on the query alone.
LEMMA SoundFixed ==
  ASSUME query' = query
  PROVE  /\ Origin' = Origin
         /\ \A v, x : Sound(v, x)' <=> Sound(v, x)
         /\ \A x, y : AsGood(x, y)' <=> AsGood(x, y)
<1>1. Unreached' = Unreached
  BY QueryFixed
<1>2. Origin' = Origin
  BY DEF Origin
<1> QED
  BY <1>1, <1>2 DEF Sound, ParentOf, AsGood

\* A label that differs from that of an unreached vertex still does when it gets better.
LEMMA StaysSeen ==
  ASSUME Typed, NEW x \in Values, NEW y \in Values, AsGood(x, y), y # Unreached
  PROVE  x # Unreached
  BY QueryType DEF AsGood, Values

\* All arrays keep justified values.
LEMMA LabelsKeep ==
  ASSUME IInv, IInv', Grounded, Steps
  PROVE  LabelsSound'
<1>1. Typed /\ LabelsSound /\ PairsSound /\ Loaded /\ LabelsStep /\ query' = query
  BY DEF IInv, Grounded, Steps
<1>2. /\ label \in [Host -> [Vertex -> Values]] /\ label' \in [Host -> [Vertex -> Values]]
      /\ Hosts \subseteq Host /\ Unreached \in Nat
  <2>1. label' \in [Host -> [Vertex -> Values']]
    BY DEF IInv, Typed
  <2> QED
    BY <1>1, <2>1, QueryFixed, QueryType DEF Typed
<1> SUFFICES ASSUME NEW h \in Hosts, NEW v \in Vertex
             PROVE  Sound(v, label'[h][v]) /\ AsGood(label'[h][v], FirstValue(v))
  <2>1. Hosts' = Hosts /\ \A v \in Vertex : FirstValue(v)' = FirstValue(v)
    BY <1>1, QueryFixed, StartsFixed
  <2> QED
    BY <1>1, <2>1, SoundFixed DEF LabelsSound
<1>3. PICK old \in Values, new \in Values : old = label[h][v] /\ new = label'[h][v]
  BY <1>2
<1>4. Sound(v, old) /\ AsGood(old, FirstValue(v)) /\ AsGood(new, old)
  BY <1>1, <1>2, <1>3 DEF LabelsSound, LabelsStep
<1>5. AsGood(new, FirstValue(v))
  <2>1. new \in Int /\ old \in Int /\ FirstValue(v) \in Int
    BY <1>1, <1>2, FirstValueType DEF Values
  <2> QED
    BY <1>4, <2>1, AsGoodOrder
<1>6. CASE new = old
  BY <1>3, <1>4, <1>5, <1>6
<1>7. ASSUME NEW p \in Partition, Offers(p, v, new)
      PROVE  Sound(v, new)
  BY <1>1, <1>7, OfferSound
<1>8. ASSUME NEW p \in Partition, h \in Remote(p), Out(p, h, << v, new >>)
      PROVE  Sound(v, new)
  <2>1. << v, new >> \in Pair /\ << v, new >>[1] = v /\ << v, new >>[2] = new
    BY DEF Pair
  <2> QED
    BY <1>1, <1>8, <2>1 DEF PairsSound
<1> QED
  BY <1>1, <1>2, <1>3, <1>5, <1>6, <1>7, <1>8 DEF LabelsStep

\* So do the pipes and batches.
LEMMA PairsKeep ==
  ASSUME IInv, IInv', Grounded, Steps
  PROVE  PairsSound'
<1>1. Typed /\ PairsSound /\ Loaded /\ PairsStep /\ query' = query
  BY DEF IInv, Grounded, Steps
<1> SUFFICES ASSUME NEW p \in Partition, NEW h \in Remote(p), NEW e \in Pair, Out(p, h, e)'
             PROVE  Sound(e[1], e[2])
  BY <1>1, QueryFixed, SoundFixed DEF PairsSound
<1>2. CASE Out(p, h, e)
  BY <1>1, <1>2 DEF PairsSound
<1>3. CASE Offers(p, e[1], e[2])
  BY <1>1, <1>3, OfferSound
<1> QED
  BY <1>1, <1>2, <1>3 DEF PairsStep

\* And what scans carry.
LEMMA ScansKeep ==
  ASSUME IInv, IInv', Grounded, Steps
  PROVE  ScansSound'
<1>1. Typed /\ LabelsSound /\ ScansSound /\ Loaded /\ ScansStep /\ query' = query
  BY DEF IInv, Grounded, Steps
<1> SUFFICES ASSUME NEW p \in Partition, scan'[p] # NoScan
             PROVE  /\ query.app # "bfs" => Sound(scan'[p].vertex, scan'[p].value)
                    /\ query.app = "bfs" => (scan'[p].stage = "store" => Target(p)' # Origin)
  BY <1>1, SoundFixed DEF ScansSound
<1>2. HostOf(p) \in Hosts /\ Hosts \subseteq Host
  BY <1>1, QueryType
<1>3. ASSUME scan[p] # NoScan, scan'[p].vertex = scan[p].vertex, scan'[p].value = scan[p].value,
             scan'[p].stage = "store" =>
               scan'[p] = scan[p] \/ (Improves(p) /\ Target(p)' = Target(p))
      PROVE  /\ query.app # "bfs" => Sound(scan'[p].vertex, scan'[p].value)
             /\ query.app = "bfs" => (scan'[p].stage = "store" => Target(p)' # Origin)
  <2>1. query.app # "bfs" => Sound(scan'[p].vertex, scan'[p].value)
    BY <1>1, <1>3 DEF ScansSound
  <2>2. ASSUME query.app = "bfs", scan'[p].stage = "store"
        PROVE  Target(p)' # Origin
    <3>1. CASE scan'[p] = scan[p]
      <4>1. Target(p)' = Target(p) /\ scan[p].stage = "store"
        BY <2>2, <3>1 DEF Target
      <4> QED
        BY <1>1, <1>3, <2>2, <4>1 DEF ScansSound
    <3>2. CASE Improves(p) /\ Target(p)' = Target(p)
      <4>1. label[HostOf(p)][Target(p)] = Unreached
        BY <2>2, <3>2 DEF Improves
      <4>2. Target(p) \in Vertex
        BY <1>3, EdgeOfScan DEF IInv
      <4>3. Target(p) = Origin => label[HostOf(p)][Target(p)] = 0
        BY <1>1, <1>2, <2>2, <4>2 DEF LabelsSound, Sound
      <4>4. Unreached # 0
        BY <2>2 DEF Unreached
      <4> QED
        BY <3>2, <4>1, <4>3, <4>4
    <3> QED
      BY <1>3, <2>2, <3>1, <3>2
  <2> QED
    BY <2>1, <2>2
<1>4. ASSUME scan'[p].stage = "check",
             query.app # "bfs" => scan'[p].value = label[HostOf(p)][scan'[p].vertex]
      PROVE  /\ query.app # "bfs" => Sound(scan'[p].vertex, scan'[p].value)
             /\ query.app = "bfs" => (scan'[p].stage = "store" => Target(p)' # Origin)
  <2>1. scan'[p].vertex \in Vertex
    <3>1. Typed'
      BY DEF IInv
    <3>2. scan'[p] \in Scans
      BY <1>1, <3>1, QueryFixed DEF Typed
    <3> QED
      BY <3>2 DEF Scans
  <2>2. Sound(scan'[p].vertex, label[HostOf(p)][scan'[p].vertex])
    BY <1>1, <1>2, <2>1 DEF LabelsSound
  <2> QED
    BY <1>4, <2>2
<1> QED
  BY <1>1, <1>3, <1>4 DEF ScansStep

\* Only vertices that its array shows as reached occupy a partition.
LEMMA VisibleKeeps ==
  ASSUME IInv, IInv', Grounded, Steps
  PROVE  Visible'
<1>1. Typed /\ Visible /\ Loaded /\ LabelsStep /\ MarksStep /\ query' = query
  BY DEF IInv, Grounded, Steps
<1> SUFFICES ASSUME NEW p \in Partition, NEW u \in Vertex, Marked(p, u)'
             PROVE  label'[HostOf(p)][u] # Unreached
  BY <1>1, QueryFixed DEF Visible
<1>2. HostOf(p) \in Host
  BY <1>1, QueryType
<1>3. label \in [Host -> [Vertex -> Values]] /\ label' \in [Host -> [Vertex -> Values]]
  <2>1. label' \in [Host -> [Vertex -> Values']]
    BY DEF IInv, Typed
  <2> QED
    BY <1>1, <2>1, QueryFixed DEF Typed
<1>4. CASE Marked(p, u)
  <2>1. PICK old \in Values, new \in Values :
          old = label[HostOf(p)][u] /\ new = label'[HostOf(p)][u]
    BY <1>2, <1>3
  <2>2. AsGood(new, old) /\ old # Unreached
    BY <1>1, <1>2, <1>4, <2>1 DEF LabelsStep, Visible
  <2> QED
    BY <1>1, <2>1, <2>2, StaysSeen
<1> QED
  BY <1>1, <1>4 DEF MarksStep

\* On one host no partition tells another one anything.
LEMMA OneHost ==
  ASSUME Typed, Cardinality(Hosts) = 1, NEW h \in Hosts
  PROVE  \A p \in Partition : HostOf(p) = h /\ Remote(p) = {}
<1>1. IsFiniteSet(Hosts)
  <2>1. IsFiniteSet(Partition)
    BY GraphAssumption, SMT
  <2>2. [p \in Partition |-> HostOf(p)] \in Surjection(Partition, Hosts)
    BY DEF Surjection, Hosts
  <2> QED
    BY <2>1, <2>2, FS_Surjection
<1>2. PICK k : Hosts = {k}
  BY <1>1, FS_Singleton
<1> QED
  BY <1>2, QueryType DEF Remote

\* The parents on one host still lead out of every set of vertices.
LEMMA TreeKeeps ==
  ASSUME IInv, IInv', Grounded, Tree, Steps
  PROVE  Tree'
<1>1. /\ Typed /\ LabelsSound /\ ScansSound /\ Visible /\ Loaded /\ LabelsStep /\ ScansStep
      /\ query' = query
  BY DEF IInv, Grounded, Steps
<1>2. Hosts' = Hosts /\ Origin' = Origin /\ Unreached' = Unreached
  BY <1>1, QueryFixed, SoundFixed
<1> SUFFICES ASSUME query.app = "bfs", Cardinality(Hosts) = 1, NEW h \in Hosts
             PROVE  /\ \A v \in Vertex \ {Origin} : label'[h][v] # Unreached =>
                         label'[h][label'[h][v]] # Unreached
                    /\ \A S \in SUBSET Vertex : S # {} => \E v \in S : \A u \in S : ~Link(h, v, u)'
  BY <1>1, <1>2 DEF Tree
<1>3. /\ \A v \in Vertex \ {Origin} : label[h][v] # Unreached => label[h][label[h][v]] # Unreached
      /\ \A S \in SUBSET Vertex : S # {} => \E v \in S : \A u \in S : ~Link(h, v, u)
  BY <1>1 DEF Tree
<1>4. h \in Host /\ \A p \in Partition : HostOf(p) = h /\ Remote(p) = {}
  BY <1>1, OneHost, QueryType
<1>5. /\ label \in [Host -> [Vertex -> Values]] /\ label' \in [Host -> [Vertex -> Values]]
  <2>1. label' \in [Host -> [Vertex -> Values']]
    BY DEF IInv, Typed
  <2> QED
    BY <1>1, <2>1, QueryFixed DEF Typed
<1>6. \A v \in Vertex : label[h][v] # Unreached => label'[h][v] # Unreached
  <2> SUFFICES ASSUME NEW v \in Vertex, label[h][v] # Unreached
               PROVE  label'[h][v] # Unreached
    OBVIOUS
  <2>1. PICK old \in Values, new \in Values : old = label[h][v] /\ new = label'[h][v]
    BY <1>4, <1>5
  <2>2. AsGood(new, old)
    BY <1>1, <1>4, <2>1 DEF LabelsStep
  <2> QED
    BY <1>1, <2>1, <2>2, StaysSeen
<1>7. ASSUME NEW p \in Partition, scan[p] # NoScan
      PROVE  scan[p].vertex \in Vertex /\ label[h][scan[p].vertex] # Unreached
  <2>1. scan[p].vertex \in Vertex
    BY <1>1, <1>7, ScanType
  <2>2. Marked(p, scan[p].vertex)
    BY <1>7 DEF Marked
  <2> QED
    BY <1>1, <1>4, <2>1, <2>2 DEF Visible
<1>8. ASSUME NEW v \in Vertex, label'[h][v] # label[h][v]
      PROVE  \E p \in Partition : /\ scan[p] # NoScan /\ scan[p].stage = "store" /\ Target(p) = v
                                  /\ label'[h][v] = scan[p].vertex
  <2>1. PICK p \in Partition : Offers(p, v, label'[h][v])
    BY <1>1, <1>4, <1>8 DEF LabelsStep
  <2>2. scan[p] # NoScan
    BY <2>1, Computing DEF Offers
  <2> QED
    BY <1>1, <2>1, <2>2, EdgeOfScan DEF Offers, IInv
<1>9. ASSUME NEW v \in Vertex, v # Origin, label[h][v] # Unreached
      PROVE  label[h][v] \in Vertex /\ label[h][label[h][v]] # Unreached
  <2>1. Sound(v, label[h][v])
    BY <1>1 DEF LabelsSound
  <2>2. label[h][v] \in Reached[Origin]
    BY <1>9, <2>1 DEF Sound, ParentOf
  <2>3. label[h][v] \in Vertex
    BY <1>1, <2>2, OriginType, ReachedClosed
  <2> QED
    BY <1>3, <1>9, <2>3
<1>10. ASSUME NEW v \in Vertex \ {Origin}, label'[h][v] # Unreached
       PROVE  label'[h][label'[h][v]] # Unreached
  <2>1. CASE label'[h][v] = label[h][v]
    BY <1>6, <1>9, <1>10, <2>1
  <2>2. CASE label'[h][v] # label[h][v]
    BY <1>6, <1>7, <1>8, <2>2
  <2> QED
    BY <2>1, <2>2
<1>11. ASSUME NEW v \in Vertex, NEW u, Link(h, v, u)
       PROVE  u \in Vertex /\ label[h][u] # Unreached
  <2>1. CASE label[h][v] # Unreached /\ u = label[h][v]
    BY <1>9, <1>11, <2>1 DEF Link
  <2>2. ASSUME NEW p \in Partition, scan[p].stage = "store", u = scan[p].vertex
        PROVE  u \in Vertex /\ label[h][u] # Unreached
    <3>1. scan[p] # NoScan
      BY <2>2, Computing
    <3> QED
      BY <1>7, <2>2, <3>1
  <2> QED
    BY <1>11, <2>1, <2>2 DEF Link
<1>12. ASSUME NEW v \in Vertex, NEW u, Link(h, v, u)'
       PROVE  \/ Link(h, v, u)
              \/ u \in Vertex /\ label[h][u] # Unreached /\ label[h][v] = Unreached
  <2>1. v # Origin
    BY <1>2, <1>12 DEF Link
  <2>2. CASE label'[h][v] # Unreached /\ u = label'[h][v]
    <3>1. CASE label'[h][v] = label[h][v]
      BY <2>1, <2>2, <3>1 DEF Link
    <3>2. CASE label'[h][v] # label[h][v]
      BY <1>8, <2>1, <2>2, <3>2 DEF Link
    <3> QED
      BY <3>1, <3>2
  <2>3. ASSUME NEW p \in Partition, scan'[p].stage = "store", Target(p)' = v, u = scan'[p].vertex
        PROVE  \/ Link(h, v, u)
               \/ u \in Vertex /\ label[h][u] # Unreached /\ label[h][v] = Unreached
    <3>1. scan'[p] # NoScan
      BY <2>3 DEF NoScan
    <3>2. /\ scan[p] # NoScan /\ scan'[p].vertex = scan[p].vertex
          /\ scan'[p] = scan[p] \/ (Improves(p) /\ Target(p)' = Target(p))
      BY <1>1, <2>3, <3>1 DEF ScansStep
    <3>3. CASE scan'[p] = scan[p]
      <4>1. Target(p)' = Target(p)
        BY <3>3 DEF Target
      <4> QED
        BY <2>1, <2>3, <3>3, <4>1 DEF Link
    <3>4. CASE Improves(p) /\ Target(p)' = Target(p)
      <4>1. label[h][v] = Unreached
        BY <1>4, <2>3, <3>4 DEF Improves
      <4> QED
        BY <1>7, <2>3, <3>2, <4>1
    <3> QED
      BY <3>2, <3>3, <3>4
  <2> QED
    BY <1>2, <1>12, <2>2, <2>3 DEF Link
<1>13. ASSUME NEW S \in SUBSET Vertex, S # {}
       PROVE  \E v \in S : \A u \in S : ~Link(h, v, u)'
  <2> DEFINE T == { v \in S : label[h][v] # Unreached }
  <2>1. CASE T = {}
    <3>1. PICK v \in S : TRUE
      BY <1>13
    <3>2. \A u \in S : label[h][u] = Unreached
      BY <2>1
    <3> QED
      BY <1>11, <1>12, <3>1, <3>2
  <2>2. CASE T # {}
    <3>1. T \in SUBSET Vertex
      OBVIOUS
    <3>2. PICK v \in T : \A u \in T : ~Link(h, v, u)
      BY <1>3, <2>2, <3>1
    <3>3. v \in S /\ v \in Vertex /\ label[h][v] # Unreached
      BY <3>1, <3>2
    <3>4. ASSUME NEW u \in S, Link(h, v, u)'
          PROVE  FALSE
      <4>1. Link(h, v, u)
        BY <1>12, <3>3, <3>4
      <4>2. u \in T
        BY <1>11, <3>3, <4>1
      <4> QED
        BY <3>2, <4>1, <4>2
    <3> QED
      BY <3>3, <3>4
  <2> QED
    BY <2>1, <2>2
<1> QED
  BY <1>10, <1>13

-----------------------------------------------------------------------------
(***************************************************************************)
(* Every step of the loaded executors and of the coordinator is such a     *)
(* step.                                                                   *)
(***************************************************************************)
LEMMA QuietStep ==
  ASSUME Typed, UNCHANGED << query, label, unsent, inflight >>
  PROVE  LabelsStep /\ PairsStep
<1>1. LabelsStep
  BY ValuesInt, AsGoodOrder DEF LabelsStep
<1>2. PairsStep
  BY DEF PairsStep, Out
<1> QED
  BY <1>1, <1>2

\* A scan that stays or goes to the next edge.
LEMMA NextStep ==
  ASSUME Typed, Walking, query' = query, NEW p \in Partition, scan[p] # NoScan, NextEdge(p)
  PROVE  ScansStep
<1>1. /\ scan[p].next \in Nat /\ scan[p].next <= Len(OutEdge[scan[p].vertex])
      /\ Len(OutEdge[scan[p].vertex]) \in Nat
  <2>1. scan[p].vertex \in Vertex /\ scan[p].next \in 1 .. Len(OutEdge[scan[p].vertex])
    BY ScanType DEF Walking
  <2> QED
    BY <2>1, GraphTypes
<1>2. \/ scan'[p] = NoScan
      \/ /\ scan'[p].vertex = scan[p].vertex /\ scan'[p].value = scan[p].value
         /\ scan'[p].stage = "check"
  <2>1. \/ scan[p].next < Len(OutEdge[scan[p].vertex])
        \/ scan[p].next = Len(OutEdge[scan[p].vertex])
    BY <1>1
  <2> QED
    BY <2>1, NextEdgeIs
<1>3. \A x \in Partition : x # p => scan'[x] = scan[x]
  BY NextEdgeIs
<1> QED
  BY <1>2, <1>3 DEF ScansStep

\* Going on along the edges marks no further vertex.
LEMMA NextMarked ==
  ASSUME Typed, Walking, NEW p \in Partition, scan[p] # NoScan, NextEdge(p),
         UNCHANGED << phase, active, activate, work >>
  PROVE  \A x \in Partition, u \in Vertex : Marked(x, u)' => Marked(x, u)
<1>1. \A x \in Partition : x # p => scan'[x] = scan[x]
  BY NextEdgeIs
<1>2. scan'[p] # NoScan => scan'[p].vertex = scan[p].vertex
  <2>1. scan[p].next \in 1 .. Len(OutEdge[scan[p].vertex]) /\ scan[p].vertex \in Vertex
    BY ScanType DEF Walking
  <2>2. \/ scan[p].next < Len(OutEdge[scan[p].vertex])
        \/ scan[p].next = Len(OutEdge[scan[p].vertex])
    BY <2>1, GraphTypes
  <2> QED
    BY <2>2, NextEdgeIs
<1> QED
  BY <1>1, <1>2 DEF Marked

\* A runner takes the request.
LEMMA BeginSteps ==
  ASSUME IInv, Loaded, NEW p \in Partition, Begin(p)
  PROVE  Steps
<1>1. /\ phase[p] = "dispatched"
      /\ phase' = [phase EXCEPT ![p] = "calc"]
      /\ UNCHANGED << query, label, active, activate, scan, unsent, inflight >>
  BY DEF Begin
<1>2. PICK s \in Ascending(active \cap Own(p)) : work' = [work EXCEPT ![p] = s]
  BY DEF Begin
<1>3. \A y : (\E i \in 1 .. Len(s) : s[i] = y) <=> y \in active \cap Own(p)
  <2>1. IsFiniteSet(Own(p)) /\ active \cap Own(p) \in SUBSET Own(p)
    BY OwnType
  <2>2. IsFiniteSet(active \cap Own(p))
    BY <2>1, FS_Subset
  <2> QED
    BY <2>2, AscendingAll
<1>4. /\ phase'[p] = "calc" /\ work'[p] = s
      /\ \A x \in Partition : x # p => phase'[x] = phase[x] /\ work'[x] = work[x]
  BY <1>1, <1>2 DEF IInv, Typed
<1>5. Loaded'
  BY <1>1, LoadedKept DEF IInv, Phases
<1>6. \A x \in Partition, u \in Vertex : Marked(x, u)' => Marked(x, u)
  <2> SUFFICES ASSUME NEW x \in Partition, NEW u \in Vertex, Marked(x, u)'
               PROVE  Marked(x, u)
    OBVIOUS
  <2>1. CASE x = p
    BY <1>1, <1>3, <1>4, <2>1 DEF Marked
  <2>2. CASE x # p
    BY <1>1, <1>4, <2>2 DEF Marked
  <2> QED
    BY <2>1, <2>2
<1>7. ScansStep
  BY <1>1 DEF ScansStep
<1> QED
  BY <1>1, <1>5, <1>6, <1>7, QuietStep DEF Steps, MarksStep, IInv

\* A runner takes the next vertex of its list.
LEMMA VisitSteps ==
  ASSUME IInv, Loaded, NEW p \in Partition, Visit(p)
  PROVE  Steps
<1>1. /\ phase[p] = "calc" /\ scan[p] = NoScan /\ work[p] # << >>
      /\ work' = [work EXCEPT ![p] = Tail(work[p])]
      /\ UNCHANGED << query, label, phase, active, activate, unsent, inflight >>
  BY DEF Visit
<1>2. PICK q \in Seq(Vertex) : q = work[p] /\ q # << >>
  BY <1>1 DEF IInv, Typed
<1>3. PICK u \in Vertex : u = Head(q)
  BY <1>2, TailMembers
<1>4. PICK c \in Values : query.app # "bfs" => c = label[HostOf(p)][u]
  <2>1. label[HostOf(p)][u] \in Values
    BY QueryType DEF IInv, Typed
  <2> QED
    BY <2>1
<1>5. PICK d \in Values : /\ scan' = [scan EXCEPT ![p] = ScanAt(u, d, 1)]
                          /\ query.app # "bfs" => d = label[HostOf(p)][u]
  <2>1. scan' = [scan EXCEPT ![p] = ScanAt(u, Carried(HostOf(p), u), 1)]
    BY <1>2, <1>3 DEF Visit
  <2>2. CASE query.app = "bfs"
    <3>1. u \in Values /\ Carried(HostOf(p), u) = u
      BY <2>2, QueryType, GraphTypes DEF IInv, Values, Carried
    <3> QED
      BY <2>1, <2>2, <3>1
  <2>3. CASE query.app # "bfs"
    <3>1. Carried(HostOf(p), u) = c /\ c = label[HostOf(p)][u]
      BY <1>4, <2>3 DEF Carried
    <3> QED
      BY <2>1, <3>1
  <2> QED
    BY <2>2, <2>3
<1>6. /\ work'[p] = Tail(q) /\ scan'[p] = ScanAt(u, d, 1)
      /\ \A x \in Partition : x # p => scan'[x] = scan[x] /\ work'[x] = work[x]
  BY <1>1, <1>2, <1>5 DEF IInv, Typed
<1>7. scan'[p] # NoScan =>
        scan'[p].vertex = u /\ scan'[p].value = d /\ scan'[p].stage = "check"
  BY <1>6, ScanAtType DEF IInv
<1>8. ScansStep
  BY <1>1, <1>5, <1>6, <1>7 DEF ScansStep
<1>9. \A y : (\E i \in 1 .. Len(q) : q[i] = y) <=> y = u \/ \E i \in 1 .. Len(Tail(q)) : Tail(q)[i] = y
  BY <1>2, <1>3, TailMembers
<1>10. \A x \in Partition, y \in Vertex : Marked(x, y)' => Marked(x, y)
  <2> SUFFICES ASSUME NEW x \in Partition, NEW y \in Vertex, Marked(x, y)'
               PROVE  Marked(x, y)
    OBVIOUS
  <2>1. CASE x = p
    <3>1. (\E i \in 1 .. Len(work'[p]) : work'[p][i] = y)
            => \E i \in 1 .. Len(work[p]) : work[p][i] = y
      BY <1>2, <1>6, <1>9
    <3>2. \E i \in 1 .. Len(work[p]) : work[p][i] = u
      BY <1>2, <1>9
    <3>3. scan'[p] # NoScan /\ scan'[p].vertex = y
            => \E i \in 1 .. Len(work[p]) : work[p][i] = y
      BY <1>7, <3>2
    <3> QED
      BY <1>1, <2>1, <3>1, <3>3 DEF Marked
  <2>2. CASE x # p
    BY <1>1, <1>6, <2>2 DEF Marked
  <2> QED
    BY <2>1, <2>2
<1>11. Loaded'
  BY <1>1 DEF Loaded
<1> QED
  BY <1>1, <1>8, <1>10, <1>11, QuietStep DEF Steps, MarksStep, IInv

\* A runner looks at the target of an edge.
LEMMA CompareSteps ==
  ASSUME IInv, Loaded, NEW p \in Partition, Compare(p)
  PROVE  Steps
<1>1. /\ scan[p].stage = "check"
      /\ UNCHANGED << query, label, phase, active, activate, work, unsent, inflight >>
      /\ Improves(p) => scan' = [scan EXCEPT ![p].stage = "store"]
      /\ ~Improves(p) => NextEdge(p)
  BY DEF Compare
<1>2. scan[p] # NoScan /\ Loaded'
  BY <1>1, Computing DEF Loaded
<1>3. CASE ~Improves(p)
  <2>1. NextEdge(p)
    BY <1>1, <1>3
  <2>2. ScansStep
    BY <1>1, <1>2, <2>1, NextStep DEF IInv
  <2>3. \A x \in Partition, u \in Vertex : Marked(x, u)' => Marked(x, u)
    BY <1>1, <1>2, <2>1, NextMarked DEF IInv
  <2> QED
    BY <1>1, <1>2, <2>2, <2>3, QuietStep DEF Steps, MarksStep, IInv
<1>4. CASE Improves(p)
  <2>1. scan \in [Partition -> Scans]
    BY DEF IInv, Typed
  <2>2. PICK s \in [vertex : Vertex, value : Values, next : Nat \ {0},
                    stage : {"check", "store"}] : s = scan[p]
    BY <1>2, ScanType DEF IInv
  <2>3. /\ scan'[p] = [s EXCEPT !.stage = "store"]
        /\ \A x \in Partition : x # p => scan'[x] = scan[x]
    BY <1>1, <1>4, <2>1, <2>2
  <2>4. /\ scan'[p].vertex = scan[p].vertex /\ scan'[p].value = scan[p].value
        /\ scan'[p].next = scan[p].next
    BY <2>2, <2>3
  <2>5. Target(p)' = Target(p)
    BY <2>4 DEF Target
  <2>6. ScansStep
    BY <1>2, <1>4, <2>3, <2>4, <2>5 DEF ScansStep
  <2>7. \A x \in Partition, u \in Vertex : Marked(x, u)' => Marked(x, u)
    BY <1>1, <1>2, <2>3, <2>4 DEF Marked
  <2> QED
    BY <1>1, <1>2, <2>6, <2>7, QuietStep DEF Steps, MarksStep, IInv
<1> QED
  BY <1>3, <1>4

\* A compare-and-swap that lost.
LEMMA StoreLostSteps ==
  ASSUME IInv, Loaded, NEW p \in Partition, StoreLost(p)
  PROVE  Steps
<1>1. /\ scan[p].stage = "store" /\ NextEdge(p)
      /\ UNCHANGED << query, label, phase, active, activate, work, unsent, inflight >>
  BY DEF StoreLost
<1>2. scan[p] # NoScan /\ Loaded'
  BY <1>1, Computing DEF Loaded
<1>3. ScansStep
  BY <1>1, <1>2, NextStep DEF IInv
<1>4. \A x \in Partition, u \in Vertex : Marked(x, u)' => Marked(x, u)
  BY <1>1, <1>2, NextMarked DEF IInv
<1> QED
  BY <1>1, <1>2, <1>3, <1>4, QuietStep DEF Steps, MarksStep, IInv

\* A better value is stored.
LEMMA StoreSteps ==
  ASSUME IInv, IInv', Loaded, NEW p \in Partition, Store(p)
  PROVE  Steps
<1>1. /\ scan[p].stage = "store" /\ Wins(p) /\ NextEdge(p)
      /\ label' = [label EXCEPT ![HostOf(p)][Target(p)] =
                     Stored(label[HostOf(p)][Target(p)], Offer(p))]
      /\ Reactivate(p, Target(p)) /\ Record(p, << Target(p), Offer(p) >>)
      /\ UNCHANGED << query, phase, active >>
  BY DEF Store
<1>2. scan[p] # NoScan /\ Loaded'
  BY <1>1, Computing DEF Loaded
<1>3. PICK g \in Host : g = HostOf(p)
  BY QueryType DEF IInv
<1>4. PICK t \in Vertex : t = Target(p)
  BY <1>2, EdgeOfScan DEF IInv
<1>5. PICK o \in Values : o = Offer(p) /\ o < Unreached
  <2>1. Offer(p) \in Nat /\ Offer(p) < Unreached
    BY <1>1, <1>2, EdgeOfScan DEF IInv, Walking
  <2> QED
    BY <2>1, QueryType DEF IInv, Values
<1>6. label \in [Host -> [Vertex -> Values]]
  BY DEF IInv, Typed
<1>7. PICK new \in Values : /\ label' = [label EXCEPT ![g][t] = new]
                            /\ AsGood(new, label[g][t]) /\ AsGood(new, o)
                            /\ new = label[g][t] \/ new = o
  <2>1. PICK old \in Values : old = label[g][t]
    BY <1>6
  <2>2. label' = [label EXCEPT ![g][t] = Stored(old, o)]
    BY <1>1, <1>3, <1>4, <1>5, <2>1
  <2>3. /\ Stored(old, o) \in Values /\ AsGood(Stored(old, o), old)
        /\ AsGood(Stored(old, o), o)
        /\ Stored(old, o) = old \/ Stored(old, o) = o
    BY <1>5, StoredBest DEF IInv
  <2> QED
    BY <2>1, <2>2, <2>3
<1>8. PICK e0 \in Pair : e0 = << t, o >> /\ e0[1] = t /\ e0[2] = o
  <2>1. << t, o >> \in Pair
    BY DEF Pair
  <2>2. << t, o >>[1] = t /\ << t, o >>[2] = o
    OBVIOUS
  <2> QED
    BY <2>1, <2>2, Zenon
<1>9. Reactivate(p, t) /\ Record(p, e0)
  BY <1>1, <1>4, <1>5, <1>8
<1>10. /\ label'[g][t] = new
       /\ \A h \in Host, v \in Vertex : h # g \/ v # t => label'[h][v] = label[h][v]
  BY <1>6, <1>7
<1>11. Offers(p, t, o)
  BY <1>1, <1>4, <1>5 DEF Offers
<1>12. LabelsStep
  <2> SUFFICES ASSUME NEW h \in Host, NEW v \in Vertex
               PROVE  /\ AsGood(label'[h][v], label[h][v])
                      /\ \/ label'[h][v] = label[h][v]
                         \/ \E x \in Partition : HostOf(x) = h /\ Offers(x, v, label'[h][v])
    BY DEF LabelsStep
  <2>1. CASE h = g /\ v = t
    BY <1>3, <1>7, <1>10, <1>11, <2>1
  <2>2. CASE h # g \/ v # t
    <3>1. label'[h][v] = label[h][v] /\ label[h][v] \in Int
      BY <1>10, <2>2, ValuesInt DEF IInv
    <3> QED
      BY <3>1, AsGoodOrder
  <2> QED
    BY <2>1, <2>2
<1>13. PairsStep
  <2> SUFFICES ASSUME NEW x \in Partition, NEW h \in Remote(x), NEW e \in Pair, Out(x, h, e)'
               PROVE  Out(x, h, e) \/ Offers(x, e[1], e[2])
    BY DEF PairsStep
  <2>1. CASE x = p
    <3>1. Out(p, h, e) \/ e = e0
      BY <1>9, <2>1, RecordIs DEF IInv
    <3> QED
      BY <1>8, <1>11, <2>1, <3>1
  <2>2. CASE x # p
    <3>1. inflight'[x] = inflight[x] /\ unsent'[x] = unsent[x]
      BY <1>9, <2>2, RecordIs DEF IInv
    <3> QED
      BY <3>1 DEF Out
  <2> QED
    BY <2>1, <2>2
<1>14. ScansStep
  BY <1>1, <1>2, NextStep DEF IInv
<1>15. label'[g][t] # Unreached
  <2>1. Unreached \in Nat
    BY QueryType DEF IInv
  <2> QED
    BY <1>5, <1>7, <1>10, <2>1 DEF AsGood, Values
<1>16. MarksStep
  <2> SUFFICES ASSUME NEW x \in Partition, NEW u \in Vertex, Marked(x, u)', ~Marked(x, u)
               PROVE  label'[HostOf(x)][u] # Unreached
    BY DEF MarksStep
  <2>1. x = p /\ u = t
    <3>1. scan'[x] # NoScan => scan[x] # NoScan /\ scan'[x].vertex = scan[x].vertex
      <4>1. CASE x # p
        BY <1>1, <1>2, <4>1, NextEdgeIs DEF IInv
      <4>2. CASE x = p
        <5>1. scan[p].next \in 1 .. Len(OutEdge[scan[p].vertex]) /\ scan[p].vertex \in Vertex
          BY <1>2, ScanType DEF IInv, Walking
        <5>2. \/ scan[p].next < Len(OutEdge[scan[p].vertex])
              \/ scan[p].next = Len(OutEdge[scan[p].vertex])
          BY <5>1, GraphTypes
        <5> QED
          BY <1>1, <1>2, <4>2, <5>2, NextEdgeIs DEF IInv
      <4> QED
        BY <4>1, <4>2
    <3>2. \/ u \in activate'[x] \ activate[x]
          \/ /\ \E i \in 1 .. Len(work'[x]) : work'[x][i] = u
             /\ ~ \E i \in 1 .. Len(work[x]) : work[x][i] = u
      BY <1>1, <3>1 DEF Marked
    <3>3. /\ \A y \in Partition : y # p => work'[y] = work[y] /\ activate'[y] = activate[y]
          /\ activate'[p] \subseteq activate[p] \cup {t}
      <4>1. activate \in [Partition -> SUBSET Vertex] /\ work \in [Partition -> Seq(Vertex)]
        BY DEF IInv, Typed
      <4> QED
        BY <1>9, <4>1 DEF Reactivate
    <3>4. \A i \in 1 .. Len(work'[p]) :
            work'[p][i] = t \/ \E j \in 1 .. Len(work[p]) : work[p][j] = work'[p][i]
      BY <1>9, ReactivateIs DEF IInv
    <3> QED
      BY <3>2, <3>3, <3>4
  <2> QED
    BY <1>3, <1>15, <2>1
<1> QED
  BY <1>1, <1>2, <1>12, <1>13, <1>14, <1>16 DEF Steps

\* The last batch is sent.
LEMMA FlushBatchSteps ==
  ASSUME IInv, Loaded, NEW p \in Partition, FlushBatch(p)
  PROVE  Steps
<1>1. /\ phase[p] = "calc" /\ Send(p, unsent[p])
      /\ unsent' = [unsent EXCEPT ![p] = {}]
      /\ phase' = [phase EXCEPT ![p] = "pushing"]
      /\ UNCHANGED << query, label, active, activate, work, scan >>
  BY DEF FlushBatch
<1>2. PICK batch \in SUBSET Pair : batch = unsent[p]
  BY DEF IInv, Typed
<1>3. /\ \A x \in Partition : x # p => inflight'[x] = inflight[x]
      /\ \A h \in Host : h \in Remote(p) => inflight'[p][h] = inflight[p][h] \cup batch
  BY <1>1, <1>2, SendIs DEF IInv
<1>4. /\ phase'[p] = "pushing" /\ unsent'[p] = {}
      /\ \A x \in Partition : x # p => phase'[x] = phase[x] /\ unsent'[x] = unsent[x]
  BY <1>1 DEF IInv, Typed, Phases
<1>5. Loaded'
  BY <1>1, LoadedKept DEF IInv, Phases
<1>6. LabelsStep
  BY <1>1, ValuesInt, AsGoodOrder DEF LabelsStep, IInv
<1>7. PairsStep
  <2>1. \A x \in Partition : Remote(x) \subseteq Host
    BY QueryType DEF IInv
  <2> QED
    BY <1>2, <1>3, <1>4, <2>1 DEF PairsStep, Out
<1>8. ScansStep
  BY <1>1 DEF ScansStep
<1>9. MarksStep
  BY <1>1, <1>4 DEF MarksStep, Marked
<1> QED
  BY <1>1, <1>5, <1>6, <1>7, <1>8, <1>9 DEF Steps

\* A pushed pair reaches another host.
LEMMA DeliverSteps ==
  ASSUME IInv, Loaded, NEW p \in Partition, NEW h \in Host, NEW e \in inflight[p][h],
         Deliver(p, h, e)
  PROVE  Steps
<1>1. /\ label' = [label EXCEPT ![h][e[1]] = Aggregated(p, label[h][e[1]], e[2])]
      /\ inflight' = [inflight EXCEPT ![p][h] = inflight[p][h] \ {e}]
      /\ UNCHANGED << query, phase, active, activate, work, scan, unsent >>
  BY DEF Deliver
<1>2. /\ label \in [Host -> [Vertex -> Values]]
      /\ inflight \in [Partition -> [Host -> SUBSET Pair]]
  BY DEF IInv, Typed
<1>3. PICK t \in Vertex, o \in Values : t = e[1] /\ o = e[2] /\ e \in Pair /\ e = << t, o >>
  <2>1. e \in Pair
    BY <1>2
  <2> QED
    BY <2>1 DEF Pair
<1>4. h \in Remote(p) /\ phase[p] # "loading" /\ Loaded'
  <2>1. inflight[p][h] # {}
    OBVIOUS
  <2> QED
    BY <1>1, <2>1 DEF IInv, Idle, Loaded
<1>5. Out(p, h, e) /\ o < Unreached
  <2>1. Out(p, h, e)
    BY DEF Out
  <2> QED
    BY <1>3, <1>4, <2>1 DEF IInv, Pushed
<1>6. PICK new \in Values : /\ label' = [label EXCEPT ![h][t] = new]
                            /\ AsGood(new, label[h][t])
                            /\ new = label[h][t] \/ new = o
  <2>1. PICK old \in Values : old = label[h][t]
    BY <1>2
  <2>2. label' = [label EXCEPT ![h][t] = Stored(old, o)]
    BY <1>1, <1>3, <1>4, <2>1 DEF Aggregated
  <2>3. /\ Stored(old, o) \in Values /\ AsGood(Stored(old, o), old)
        /\ Stored(old, o) = old \/ Stored(old, o) = o
    BY <1>5, StoredBest DEF IInv
  <2> QED
    BY <2>1, <2>2, <2>3
<1>7. /\ label'[h][t] = new
      /\ \A k \in Host, v \in Vertex : k # h \/ v # t => label'[k][v] = label[k][v]
  BY <1>2, <1>6
<1>8. LabelsStep
  <2> SUFFICES ASSUME NEW k \in Host, NEW v \in Vertex
               PROVE  /\ AsGood(label'[k][v], label[k][v])
                      /\ \/ label'[k][v] = label[k][v]
                         \/ \E x \in Partition : k \in Remote(x) /\ Out(x, k, << v, label'[k][v] >>)
    BY DEF LabelsStep
  <2>1. CASE k = h /\ v = t
    BY <1>3, <1>4, <1>5, <1>6, <1>7, <2>1
  <2>2. CASE k # h \/ v # t
    <3>1. label'[k][v] = label[k][v] /\ label[k][v] \in Int
      BY <1>7, <2>2, ValuesInt DEF IInv
    <3> QED
      BY <3>1, AsGoodOrder
  <2> QED
    BY <2>1, <2>2
<1>9. PairsStep
  <2>1. \A x \in Partition, k \in Host : inflight'[x][k] \subseteq inflight[x][k]
    BY <1>1, <1>2
  <2>2. \A x \in Partition : Remote(x) \subseteq Host
    BY QueryType DEF IInv
  <2> QED
    BY <1>1, <2>1, <2>2 DEF PairsStep, Out
<1>10. ScansStep /\ MarksStep
  BY <1>1 DEF ScansStep, MarksStep, Marked
<1> QED
  BY <1>1, <1>4, <1>8, <1>9, <1>10 DEF Steps

\* A runner answers the coordinator.
LEMMA ReplySteps ==
  ASSUME IInv, Loaded, NEW p \in Partition, Reply(p)
  PROVE  Steps
<1>1. /\ phase' = [phase EXCEPT ![p] = "replied"]
      /\ UNCHANGED << query, label, active, activate, work, scan, unsent, inflight >>
  BY DEF Reply
<1>2. /\ phase'[p] = "replied"
      /\ \A x \in Partition : x # p => phase'[x] = phase[x]
  BY <1>1 DEF IInv, Typed
<1>3. Loaded'
  BY <1>1, LoadedKept DEF IInv, Phases
<1>4. ScansStep /\ MarksStep
  BY <1>1, <1>2 DEF ScansStep, MarksStep, Marked
<1> QED
  BY <1>1, <1>3, <1>4, QuietStep DEF Steps, IInv

\* A round starts with the vertices that some partition activated, and at that moment all
\* hosts have seen what it stored.
LEMMA DispatchSteps ==
  ASSUME IInv, Grounded, Dispatch
  PROVE  Steps
<1>1. /\ Barrier /\ active' = Answered
      /\ activate' = [p \in Partition |-> {}]
      /\ phase' = [p \in Partition |-> "dispatched"]
      /\ UNCHANGED << query, label, work, scan, unsent, inflight >>
  BY DEF Dispatch
<1>2. Loaded /\ Loaded' /\ \A x \in Partition : \A h \in Host : \A e : ~Out(x, h, e)
  BY <1>1, AtBarrier DEF Loaded
<1>3. \A x \in Partition : work[x] = << >> /\ scan[x] = NoScan
  BY <1>1 DEF IInv, Idle, Barrier
<1>4. ScansStep
  BY <1>1, <1>3 DEF ScansStep
<1>5. MarksStep
  <2> SUFFICES ASSUME NEW p \in Partition, NEW u \in Vertex, Marked(p, u)'
               PROVE  label'[HostOf(p)][u] # Unreached
    BY DEF MarksStep
  <2>1. 1 .. Len(work'[p]) = {}
    BY <1>1, <1>3
  <2>2. u \in Answered
    BY <1>1, <1>3, <2>1 DEF Marked
  <2>3. PICK q \in Partition : u \in activate[q]
    BY <2>2 DEF Answered
  <2>4. label[HostOf(q)][u] # Unreached
    BY <1>2, <2>3 DEF Grounded, Visible, Marked
  <2>5. HostOf(p) \in Hosts /\ HostOf(q) \in Hosts /\ \A x \in Partition : Remote(x) \subseteq Host
    BY QueryType DEF IInv
  <2>6. AsGood(label[HostOf(p)][u], label[HostOf(q)][u])
    BY <1>2, <2>5 DEF IInv, Agreeing
  <2>7. label[HostOf(p)][u] \in Values /\ label[HostOf(q)][u] \in Values
    BY QueryType DEF IInv, Typed
  <2> QED
    BY <1>1, <2>4, <2>6, <2>7, StaysSeen DEF IInv
<1> QED
  BY <1>1, <1>2, <1>4, <1>5, QuietStep DEF Steps, IInv

\* Nothing happens.
LEMMA StutterSteps ==
  ASSUME IInv, Loaded, UNCHANGED vars
  PROVE  Steps
<1>1. UNCHANGED << query, label, phase, active, activate, work, scan, unsent, inflight >>
  BY DEF vars
<1>2. Loaded' /\ ScansStep /\ MarksStep
  BY <1>1 DEF Loaded, ScansStep, MarksStep, Marked
<1> QED
  BY <1>1, <1>2, QuietStep DEF Steps, IInv

-----------------------------------------------------------------------------
(***************************************************************************)
(* The step to the first round, and the invariant.                         *)
(***************************************************************************)

\* What vertices start with is justified.
LEMMA FirstSound ==
  ASSUME Typed, NEW v \in Vertex
  PROVE  Sound(v, FirstValue(v)) /\ AsGood(FirstValue(v), FirstValue(v))
<1>1. FirstValue(v) \in Int /\ Unreached \in Nat
  BY FirstValueType, QueryType DEF Values
<1>2. CASE query.app = "cc"
  <2>1. FirstValue(v) = v /\ v \in Reached[v]
    BY <1>2, ReachedClosed DEF FirstValue
  <2> QED
    BY <1>1, <1>2, <2>1, AsGoodOrder DEF Sound
<1>3. CASE query.app = "sssp"
  <2>1. 0 \in Vertex /\ Origin = 0 /\ Unreached = Infinite
    BY <1>3, OriginType
  <2>2. Distance[v] \in Nat /\ Distance[0] = 0 /\ Distance[v] <= Unreached /\ 0 \in Reached[0]
    BY <2>1, DistanceFixed, ReachedClosed
  <2>3. FirstValue(v) >= Distance[v]
    BY <1>1, <1>3, <2>1, <2>2 DEF FirstValue
  <2>4. FirstValue(v) < Unreached => v = 0
    BY <1>1, <1>3, <2>1 DEF FirstValue
  <2> QED
    BY <1>1, <1>3, <2>2, <2>3, <2>4, AsGoodOrder DEF Sound
<1>4. CASE query.app = "bfs"
  <2>1. FirstValue(v) = IF v = Origin THEN 0 ELSE Unreached
    BY <1>4 DEF FirstValue
  <2> QED
    BY <1>1, <1>4, <2>1, AsGoodOrder DEF Sound
<1> QED
  BY <1>2, <1>3, <1>4, QueryType

\* The last partition has loaded its vertices.
LEMMA StartGrounded ==
  ASSUME IInv, ~Loaded, NEW p \in Partition, Reply(p), Loaded'
  PROVE  Grounded' /\ Tree'
<1>1. /\ phase[p] \in {"loading", "pushing"} /\ \A h \in Host : inflight[p][h] = {}
      /\ phase' = [phase EXCEPT ![p] = "replied"]
      /\ UNCHANGED << query, label, active, activate, work, scan, unsent, inflight >>
  BY DEF Reply, PushesAnswered
<1>2. \A x \in Partition : phase'[x] = "replied" /\ phase[x] \in {"loading", "replied"}
  BY <1>1 DEF IInv, Typed, Starting, Loaded
<1>3. \A x \in Partition : /\ work[x] = << >> /\ scan[x] = NoScan /\ unsent[x] = {}
                           /\ \A h \in Host : inflight[x][h] = {}
  BY <1>1, <1>2 DEF IInv, Idle, Typed
<1>4. \A x \in Partition : /\ activate[x] = FirstActive(x)
                           /\ \A v \in Own(x), k \in Hosts : label[k][v] = FirstValue(v)
  <2>1. Hosts \subseteq Host
    BY QueryType DEF IInv
  <2>2. \A x \in Partition : phase[x] # "load" =>
          /\ activate[x] = FirstActive(x)
          /\ \A v \in Own(x), h \in Hosts :
               \/ label[h][v] = FirstValue(v)
               \/ h # HostOf(x) /\ << v, FirstValue(v) >> \in inflight[x][h]
    BY DEF IInv, Starting
  <2>3. \A x \in Partition, h \in Hosts : inflight[x][h] = {}
    BY <1>3, <2>1
  <2>4. ASSUME NEW x \in Partition, NEW v \in Own(x), NEW k \in Hosts
        PROVE  label[k][v] = FirstValue(v)
    <3>1. phase[x] # "load" /\ inflight[x][k] = {}
      BY <1>2, <2>3
    <3> QED
      BY <2>2, <3>1
  <2>5. \A x \in Partition : activate[x] = FirstActive(x)
    BY <1>2, <2>2
  <2> QED
    BY <2>4, <2>5
<1>5. \A k \in Hosts, v \in Vertex : label[k][v] = FirstValue(v)
  BY <1>4, GraphTypes DEF Own
<1>6. /\ Hosts' = Hosts /\ Unreached' = Unreached /\ Origin' = Origin
      /\ \A x \in Partition : HostOf(x)' = HostOf(x) /\ Remote(x)' = Remote(x)
      /\ Pair' = Pair /\ \A v : FirstValue(v)' = FirstValue(v)
  BY <1>1, QueryFixed, SoundFixed, StartsFixed
<1>7. LabelsSound'
  <2>1. \A k \in Hosts, v \in Vertex :
          Sound(v, label[k][v]) /\ AsGood(label[k][v], FirstValue(v))
    BY <1>5, FirstSound DEF IInv
  <2> QED
    BY <1>1, <1>6, <2>1, SoundFixed DEF LabelsSound
<1>8. PairsSound'
  <2>1. \A x \in Partition : Remote(x) \subseteq Host
    BY QueryType DEF IInv
  <2> QED
    BY <1>1, <1>3, <1>6, <2>1 DEF PairsSound, Out
<1>9. ScansSound'
  BY <1>1, <1>3 DEF ScansSound
<1>10. Visible'
  <2> SUFFICES ASSUME NEW x \in Partition, NEW u \in Vertex, Marked(x, u)'
               PROVE  label[HostOf(x)][u] # Unreached
    BY <1>1, <1>6 DEF Visible
  <2>1. 1 .. Len(work'[x]) = {}
    BY <1>1, <1>3
  <2>2. u \in FirstActive(x)
    BY <1>1, <1>2, <1>3, <1>4, <2>1 DEF Marked
  <2>3. u \in Nat /\ u < Unreached /\ Unreached \in Nat
    BY GraphTypes, QueryType DEF IInv
  <2>4. FirstValue(u) < Unreached \/ (FirstValue(u) = 0 /\ Unreached # 0)
    BY <2>2, <2>3 DEF FirstActive, FirstValue
  <2>5. FirstValue(u) # Unreached
    BY <2>3, <2>4
  <2> QED
    BY <1>5, <2>5, QueryType DEF IInv
<1>11. Tree'
  <2> SUFFICES ASSUME query.app = "bfs", NEW h \in Hosts
               PROVE  /\ \A v \in Vertex \ {Origin} : label[h][v] # Unreached =>
                           label[h][label[h][v]] # Unreached
                      /\ \A S \in SUBSET Vertex : S # {} =>
                           \E v \in S : \A u \in S : ~Link(h, v, u)'
    BY <1>1, <1>6 DEF Tree
  <2>1. \A v \in Vertex \ {Origin} : label[h][v] = Unreached
    BY <1>5 DEF FirstValue
  <2>2. \A v \in Vertex : \A u : ~Link(h, v, u)'
    BY <1>1, <1>3, <1>6, <2>1 DEF Link, NoScan
  <2> QED
    BY <2>1, <2>2
<1> QED
  BY <1>7, <1>8, <1>9, <1>10, <1>11 DEF Grounded

\* Without partitions, which is no cluster, nothing is loaded or all of nothing is.
LEMMA InitGrounded == Init => Grounded /\ Tree
<1> SUFFICES ASSUME Init, Loaded
             PROVE  Grounded /\ Tree
  BY DEF Grounded, Tree
<1>1. Partition = {}
  BY DEF Init, Loaded
<1>2. Hosts = {}
  BY <1>1 DEF Hosts
<1> QED
  BY <1>1, <1>2 DEF Grounded, Tree, LabelsSound, PairsSound, ScansSound, Visible

\* Every step keeps all values justified and the parents of bfs a tree.
LEMMA NextGrounded == IInv /\ Grounded /\ Tree /\ [Next]_vars => Grounded' /\ Tree'
<1> SUFFICES ASSUME IInv, Grounded, Tree, [Next]_vars, Loaded'
             PROVE  Grounded' /\ Tree'
  BY DEF Grounded, Tree
<1>1. IInv'
  BY NextLabels
<1>2. Steps => Grounded' /\ Tree'
  <2> SUFFICES ASSUME Steps
               PROVE  Grounded' /\ Tree'
    OBVIOUS
  <2>1. LabelsSound' /\ PairsSound' /\ ScansSound' /\ Visible'
    BY <1>1, LabelsKeep, PairsKeep, ScansKeep, VisibleKeeps
  <2>2. Tree'
    BY <1>1, TreeKeeps
  <2> QED
    BY <2>1, <2>2 DEF Grounded
<1>3. CASE UNCHANGED vars
  <2>1. Loaded
    BY <1>3 DEF vars, Loaded
  <2> QED
    BY <1>2, <1>3, <2>1, StutterSteps
<1>4. CASE Dispatch
  BY <1>2, <1>4, DispatchSteps
<1>5. ASSUME NEW p \in Partition, Executor(p)
      PROVE  Grounded' /\ Tree'
  <2>1. CASE Loaded
    <3>1. \/ Begin(p) \/ Visit(p) \/ Compare(p) \/ Store(p) \/ StoreLost(p) \/ FlushBatch(p)
          \/ (\E h \in Host : \E e \in inflight[p][h] : Deliver(p, h, e)) \/ Reply(p)
      <4>1. ~LoadMem(p)
        BY <2>1 DEF LoadMem, Loaded
      <4> QED
        BY <1>5, <4>1 DEF Executor
    <3> QED
      BY <1>1, <1>2, <2>1, <3>1, BeginSteps, VisitSteps, CompareSteps, StoreSteps,
         StoreLostSteps, FlushBatchSteps, DeliverSteps, ReplySteps
  <2>2. CASE ~Loaded
    <3>1. \A x \in Partition : phase[x] \in {"load", "loading", "replied"}
      BY <2>2 DEF IInv, Starting
    <3>2. ~Begin(p) /\ ~Visit(p) /\ ~FlushBatch(p)
      BY <3>1 DEF Begin, Visit, FlushBatch
    <3>3. ~Compare(p) /\ ~Store(p) /\ ~StoreLost(p)
      BY <2>2, Computing DEF Compare, Store, StoreLost
    <3>4. ~LoadMem(p)
      <4> SUFFICES ASSUME LoadMem(p)
                   PROVE  ~Loaded'
        OBVIOUS
      <4>1. phase'[p] = "loading"
        BY DEF LoadMem, IInv, Typed
      <4> QED
        BY <4>1 DEF Loaded
    <3>5. \A h \in Host : \A e \in inflight[p][h] : ~Deliver(p, h, e)
      BY <2>2 DEF Deliver, Loaded
    <3>6. Reply(p)
      BY <1>5, <3>2, <3>3, <3>4, <3>5 DEF Executor
    <3> QED
      BY <2>2, <3>6, StartGrounded
  <2> QED
    BY <2>1, <2>2
<1> QED
  BY <1>3, <1>4, <1>5 DEF Next

\* From the first round on every value in an array, in a batch or pipe, or carried along edges
\* is justified by the graph, only vertices an array shows as reached occupy a partition of its
\* host, and on one host the parents of bfs, with those about to be stored, form a tree.
THEOREM GroundedInvariant == Spec => [](IInv /\ Grounded /\ Tree)
<1>1. Init => IInv /\ Grounded /\ Tree
  BY InitLabels, InitGrounded
<1>2. IInv /\ Grounded /\ Tree /\ [Next]_vars => (IInv /\ Grounded /\ Tree)'
  BY NextLabels, NextGrounded
<1> QED
  BY <1>1, <1>2, PTL DEF Spec

\* Values are justified whatever pushes and writes interleave: a label of cc is a vertex of
\* the same component, a distance of sssp is at least the true one, and a parent of bfs is a
\* reached vertex with an edge to its child.
THEOREM ValuesAreJustified == Spec => []ValuesJustified
<1>1. IInv /\ Grounded => ValuesJustified
  <2> SUFFICES ASSUME IInv, Grounded, Loaded, NEW h \in Hosts, NEW v \in Vertex
               PROVE  /\ query.app = "cc" => label[h][v] <= v /\ label[h][v] \in Reached[v]
                      /\ query.app = "sssp" => label[h][v] >= Distance[v]
                      /\ query.app = "bfs" =>
                           IF v = Origin THEN label[h][v] = 0
                           ELSE label[h][v] = Unreached \/ ParentOf(v, label[h][v])
    BY DEF ValuesJustified, Finding
  <2>1. Sound(v, label[h][v]) /\ AsGood(label[h][v], FirstValue(v))
    BY DEF Grounded, LabelsSound
  <2>2. query.app = "cc" => label[h][v] <= v
    BY <2>1 DEF AsGood, FirstValue
  <2> QED
    BY <2>1, <2>2 DEF Sound
<1> QED
  BY <1>1, GroundedInvariant, PTL

-----------------------------------------------------------------------------
(***************************************************************************)
(* What the query has found when it ends.                                  *)
(***************************************************************************)

\* No edge could still improve the array of any host.
LEMMA NothingLeft ==
  ASSUME IInv, Finished, NEW h \in Hosts, NEW u \in Vertex, NEW i \in 1 .. Len(OutEdge[u])
  PROVE  h \in Host /\ ~Improvable(h, u, i)
<1>1. PICK g \in Hosts : g = HostOf(PartitionOf[u])
  BY GraphTypes, QueryType DEF IInv
<1>2. h \in Host /\ g \in Host /\ Unreached \in Nat
  BY QueryType DEF IInv
<1>3. ~Improvable(g, u, i)
  <2>1. Loaded /\ ~Queued(u) /\ ~Walked(u, i)
    BY AtBarrier DEF Finished
  <2> QED
    BY <1>1, <2>1 DEF IInv, EdgesPending
<1>4. ASSUME NEW v \in Vertex
      PROVE  /\ AsGood(label[h][v], label[g][v]) /\ AsGood(label[g][v], label[h][v])
             /\ label[h][v] \in Values /\ label[g][v] \in Values
  <2>1. Loaded /\ \A p \in Partition : \A k \in Host : \A e : ~Out(p, k, e)
    BY AtBarrier DEF Finished
  <2>2. \A p \in Partition : Remote(p) \subseteq Host
    BY QueryType DEF IInv
  <2> QED
    BY <1>2, <2>1, <2>2 DEF IInv, Agreeing, Typed
<1>5. OutEdge[u][i] \in Vertex
  BY GraphTypes
<1>6. CASE query.app # "bfs"
  <2>1. label[h][u] = label[g][u] /\ label[h][OutEdge[u][i]] = label[g][OutEdge[u][i]]
    BY <1>2, <1>4, <1>5, <1>6 DEF AsGood, Values
  <2> QED
    BY <1>2, <1>3, <2>1 DEF Improvable
<1>7. CASE query.app = "bfs"
  <2>1. \A v \in Vertex : (label[h][v] = Unreached) <=> (label[g][v] = Unreached)
    BY <1>4, <1>7 DEF AsGood
  <2>2. (label[h][u] < Unreached) <=> (label[g][u] < Unreached)
    BY <1>2, <1>4, <2>1 DEF Values
  <2> QED
    BY <1>2, <1>3, <1>5, <1>7, <2>1, <2>2, ImprovableIs DEF IInv
<1> QED
  BY <1>2, <1>6, <1>7

\* cc: the least vertex of the component.
LEMMA LeastFound ==
  ASSUME IInv, Grounded, Finished, query.app = "cc", NEW h \in Hosts, NEW v \in Vertex
  PROVE  label[h][v] = Least(Reached[v])
<1>1. Loaded /\ h \in Host
  BY AtBarrier, QueryType DEF IInv, Finished
<1>2. \A u \in Vertex : label[h][u] \in Nat /\ label[h][u] <= u /\ label[h][u] \in Reached[u]
  <2>1. \A u \in Vertex : label[h][u] \in Nat
    BY <1>1, QueryType DEF IInv, Typed, Values
  <2>2. \A u \in Vertex : Sound(u, label[h][u]) /\ AsGood(label[h][u], FirstValue(u))
    BY <1>1 DEF Grounded, LabelsSound
  <2> QED
    BY <2>1, <2>2 DEF Sound, AsGood, FirstValue
<1>3. ASSUME NEW u \in Vertex, NEW w \in Neighbours(u)
      PROVE  w \in Vertex /\ label[h][w] <= label[h][u]
  <2>1. PICK i \in 1 .. Len(OutEdge[u]) : w = OutEdge[u][i]
    BY DEF Neighbours
  <2>2. w \in Vertex
    BY <2>1, GraphTypes
  <2>3. ~(label[h][u] < label[h][w])
    BY <1>1, <2>1, NothingLeft, ImprovableIs DEF IInv
  <2> QED
    BY <1>2, <2>2, <2>3
<1> DEFINE T == { u \in Vertex : label[h][u] = label[h][v] }
<1>4. Closed(T)
  <2> SUFFICES ASSUME NEW u \in T, NEW w \in Neighbours(u)
               PROVE  w \in T
    BY DEF Closed
  <2>1. w \in Vertex /\ u \in Neighbours(w)
    <3>1. w \in Vertex /\ Adjacent(u, w)
      BY GraphTypes DEF Neighbours, Adjacent
    <3>2. \E q \in Query : q.app = "cc"
      BY DEF IInv, Typed
    <3>3. Adjacent(w, u)
      BY <3>1, <3>2, UndirectedAssumption
    <3> QED
      BY <3>1, <3>3 DEF Adjacent, Neighbours
  <2>2. label[h][w] <= label[h][u] /\ label[h][u] <= label[h][w]
    BY <1>3, <2>1
  <2> QED
    BY <1>2, <2>1, <2>2
<1>5. Reached[v] \subseteq T
  BY <1>4, ReachedLeast
<1>6. label[h][v] \in Reached[v] /\ \A u \in Reached[v] : label[h][v] <= u
  BY <1>2, <1>5
<1>7. Reached[v] \in SUBSET Nat /\ Reached[v] # {}
  BY ReachedClosed, GraphTypes
<1>8. /\ Least(Reached[v]) \in Reached[v] /\ \A u \in Reached[v] : Least(Reached[v]) <= u
      /\ label[h][v] \in Nat
  BY <1>2, <1>7, LeastIs
<1>9. Least(Reached[v]) \in Nat
  BY <1>7, <1>8
<1>10. Least(Reached[v]) <= label[h][v] /\ label[h][v] <= Least(Reached[v])
  BY <1>6, <1>8
<1> QED
  BY <1>8, <1>9, <1>10

\* sssp: the least weight of a path.
LEMMA DistanceFound ==
  ASSUME IInv, Grounded, Finished, query.app = "sssp", NEW h \in Hosts, NEW v \in Vertex
  PROVE  label[h][v] = Distance[v]
<1>1. Loaded /\ h \in Host /\ 0 \in Vertex /\ Origin = 0 /\ Unreached = Infinite /\ Unreached \in Nat
  BY AtBarrier, QueryType, OriginType DEF IInv, Finished
<1>2. PICK f \in [Vertex -> Values] : f = label[h]
  BY <1>1 DEF IInv, Typed
<1>3. \A u \in Vertex : f[u] \in Nat /\ f[u] <= Infinite
  BY <1>1, <1>2 DEF Values
<1>4. f \in [Vertex -> Nat]
  BY <1>2, <1>3
<1>5. f[0] = 0
  <2>1. AsGood(f[0], FirstValue(0))
    BY <1>1, <1>2 DEF Grounded, LabelsSound
  <2>2. FirstValue(0) = 0
    BY <1>1 DEF FirstValue
  <2>3. f[0] <= 0
    BY <2>1, <2>2 DEF AsGood
  <2> QED
    BY <1>1, <1>3, <2>3
<1>6. ASSUME NEW u \in Reached[0], NEW i \in 1 .. Len(OutEdge[u])
      PROVE  f[OutEdge[u][i]] <= f[u] + OutWeight[u][i]
  <2>1. u \in Vertex
    BY <1>1, ReachedClosed
  <2>2. PICK w \in Nat, t \in Vertex : w = OutWeight[u][i] /\ t = OutEdge[u][i]
    BY <2>1, GraphTypes
  <2>3. ~(f[u] < Unreached /\ f[u] + w < f[t])
    BY <1>1, <1>2, <2>1, <2>2, NothingLeft, ImprovableIs DEF IInv
  <2>4. f[u] \in Nat /\ f[t] \in Nat /\ f[t] <= Unreached
    BY <1>1, <1>3, <2>1, <2>2
  <2>5. f[t] <= f[u] + w
    BY <1>1, <2>2, <2>3, <2>4
  <2> QED
    BY <2>2, <2>5
<1>7. f[v] <= Distance[v]
  BY <1>1, <1>3, <1>4, <1>5, <1>6, DistanceGreatest
<1>8. f[v] >= Distance[v]
  BY <1>1, <1>2 DEF Grounded, LabelsSound, Sound
<1>9. Distance[v] \in Nat /\ f[v] \in Nat
  BY <1>1, <1>3, DistanceFixed
<1> QED
  BY <1>2, <1>7, <1>8, <1>9

\* bfs: the reached vertices have a parent and no others.
LEMMA ReachedFound ==
  ASSUME IInv, Grounded, Finished, query.app = "bfs", NEW h \in Hosts, NEW v \in Vertex
  PROVE  label[h][v] # Unreached <=> v \in Reached[Origin]
<1>1. Loaded /\ h \in Host /\ Origin \in Vertex
  BY AtBarrier, QueryType, OriginType DEF IInv, Finished
<1>2. label[h][v] # Unreached => v \in Reached[Origin]
  BY <1>1, SeenReached DEF IInv, Grounded, LabelsSound
<1> DEFINE T == { u \in Vertex : label[h][u] # Unreached }
<1>3. Origin \in T
  <2>1. label[h][Origin] = 0
    BY <1>1 DEF Grounded, LabelsSound, Sound
  <2> QED
    BY <1>1, <2>1 DEF Unreached
<1>4. Closed(T)
  <2> SUFFICES ASSUME NEW u \in T, NEW i \in 1 .. Len(OutEdge[u])
               PROVE  OutEdge[u][i] \in T
    BY DEF Closed, Neighbours
  <2>1. OutEdge[u][i] \in Vertex
    BY GraphTypes
  <2>2. label[h][u] < Unreached
    BY <1>1, QueryType DEF IInv, Typed, Values
  <2>3. label[h][OutEdge[u][i]] # Unreached
    BY <1>1, <2>2, NothingLeft, ImprovableIs DEF IInv
  <2> QED
    BY <2>1, <2>3
<1>5. Reached[Origin] \subseteq T
  BY <1>1, <1>3, <1>4, ReachedLeast
<1> QED
  BY <1>2, <1>5

\* The recursive function behind Climb.
Climbing(h, v) ==
  CHOOSE up : up = [n \in Nat |->
    IF n = 0 THEN v ELSE IF up[n-1] = Origin THEN Origin ELSE label[h][up[n-1]]]

\* bfs on one host: the parents lead to the source.
LEMMA SourceFound ==
  ASSUME IInv, Grounded, Tree, Finished, query.app = "bfs", Cardinality(Hosts) = 1,
         NEW h \in Hosts, NEW v \in Reached[Origin]
  PROVE  Climb(h, v) = Origin
<1>1. Loaded /\ Origin \in Vertex /\ v \in Vertex /\ Origin \in Reached[Origin]
  BY AtBarrier, OriginType, ReachedClosed DEF IInv, Finished
<1> DEFINE A == { u \in Vertex : label[h][u] # Unreached }
           f == [u \in A |-> IF u = Origin THEN Origin ELSE label[h][u]]
           Is(up) == up = [n \in Nat |->
             IF n = 0 THEN v ELSE IF up[n-1] = Origin THEN Origin ELSE label[h][up[n-1]]]
<1>2. v \in A /\ Origin \in A
  BY <1>1, ReachedFound
<1>3. ASSUME NEW u \in A, u # Origin
      PROVE  label[h][u] \in A
  <2>1. label[h][u] \in Reached[Origin]
    BY <1>1, <1>3 DEF Grounded, LabelsSound, Sound, ParentOf
  <2>2. label[h][u] \in Vertex
    BY <1>1, <2>1, ReachedClosed
  <2> QED
    BY <2>1, <2>2, ReachedFound
<1>4. f \in [A -> A]
  BY <1>2, <1>3
<1>5. \A u \in A : f[u] = IF u = Origin THEN Origin ELSE label[h][u]
  OBVIOUS
<1>6. ASSUME NEW B \in SUBSET (A \ {Origin}), B # {}
      PROVE  \E t \in B : f[t] \notin B
  <2>1. PICK t \in B : \A u \in B : ~Link(h, t, u)
    <3>1. B \in SUBSET Vertex
      OBVIOUS
    <3> QED
      BY <1>1, <1>6, <3>1 DEF Tree
  <2>2. t # Origin /\ label[h][t] # Unreached /\ f[t] = label[h][t]
    BY <1>5
  <2>3. Link(h, t, label[h][t])
    BY <2>2 DEF Link
  <2> QED
    BY <2>1, <2>2, <2>3
<1> HIDE DEF A, f
<1>7. PICK g : g \in [Nat -> A] /\ g[0] = v /\ \A n \in Nat : g[n + 1] = f[g[n]]
  <2>1. v \in A
    BY <1>2
  <2>2. PICK g : Way(g, f, A) /\ g[0] = v /\ g \in [Nat -> A]
    BY <1>4, <2>1, WayExists
  <2> QED
    BY <2>2 DEF Way
<1>8. \A n \in Nat : g[n] = IF n = 0 THEN v ELSE IF g[n-1] = Origin THEN Origin ELSE label[h][g[n-1]]
  <2> SUFFICES ASSUME NEW n \in Nat, n # 0
               PROVE  g[n] = IF g[n-1] = Origin THEN Origin ELSE label[h][g[n-1]]
    BY <1>7
  <2>1. PICK m \in Nat : m = n - 1 /\ m + 1 = n
    OBVIOUS
  <2>2. g[m + 1] = f[g[m]] /\ g[m] \in A
    BY <1>7
  <2>3. g[n] = IF g[m] = Origin THEN Origin ELSE label[h][g[m]]
    BY <1>5, <2>1, <2>2
  <2> QED
    BY <2>1, <2>3
<1>9. Is(g)
  BY <1>7, <1>8
<1>10. Climbing(h, v) = CHOOSE up : Is(up)
  BY DEF Climbing
<1>11. Is(Climbing(h, v))
  <2> HIDE DEF Is
  <2> QED
    BY <1>9, <1>10
<1>12. PICK up : up = Climbing(h, v)
  OBVIOUS
<1>13. /\ up[0] = v
       /\ \A n \in Nat : up[n + 1] = IF up[n] = Origin THEN Origin ELSE label[h][up[n]]
  <2> SUFFICES ASSUME NEW n \in Nat
               PROVE  /\ up[0] = v
                      /\ up[n + 1] = IF up[n] = Origin THEN Origin ELSE label[h][up[n]]
    OBVIOUS
  <2>1. n + 1 \in Nat /\ n + 1 # 0 /\ (n + 1) - 1 = n
    OBVIOUS
  <2> QED
    BY <1>11, <1>12, <2>1
<1>14. \A n \in Nat : up[n] \in A
  <2> DEFINE P == { n \in Nat : up[n] \in A }
  <2>1. 0 \in P /\ \A n \in Nat : n \in P => n + 1 \in P
    BY <1>2, <1>3, <1>13
  <2> HIDE DEF P
  <2>2. Nat \subseteq P
    BY <2>1, Induction
  <2> QED
    BY <2>2 DEF P
<1>15. \A n \in Nat : up[n + 1] = f[up[n]]
  BY <1>5, <1>13, <1>14
<1>16. up[Cardinality(Vertex)] = Origin
  <2>1. IsFiniteSet(Vertex) /\ A \in SUBSET Vertex
    BY GraphTypes DEF A
  <2>2. f[Origin] = Origin /\ up[0] \in A
    BY <1>2, <1>5, <1>13
  <2>3. Leads(f, A, Origin)
    BY <1>2, <1>4, <1>6, <2>2 DEF Leads
  <2>4. Way(up, f, A)
    BY <1>15, <2>2 DEF Way
  <2> QED
    BY <2>1, <2>3, <2>4, RootReached
<1>17. Climb(h, v) = Climbing(h, v)[Cardinality(Vertex)]
  BY DEF Climb, Climbing
<1> QED
  BY <1>12, <1>16, <1>17

\* When the query ends it has found what it was asked for.
THEOREM QueryFindsResult == Spec => []ResultFound
<1>1. IInv /\ Grounded /\ Tree => ResultFound
  <2> SUFFICES ASSUME IInv, Grounded, Tree, Finished, NEW h \in Hosts, NEW v \in Vertex
               PROVE  CASE query.app = "cc"   -> label[h][v] = Least(Reached[v])
                        [] query.app = "sssp" -> label[h][v] = Distance[v]
                        [] query.app = "bfs"  ->
                             /\ label[h][v] # Unreached <=> v \in Reached[Origin]
                             /\ v \in Reached[Origin] /\ Cardinality(Hosts) = 1 =>
                                  Climb(h, v) = Origin
    BY DEF ResultFound
  <2>1. CASE query.app = "cc"
    BY <2>1, LeastFound
  <2>2. CASE query.app = "sssp"
    BY <2>2, DistanceFound
  <2>3. CASE query.app = "bfs"
    BY <2>3, ReachedFound, SourceFound
  <2> QED
    BY <2>1, <2>2, <2>3, QueryType DEF IInv
<1> QED
  BY <1>1, GroundedInvariant, PTL
===============================================================================
