--------------------------- MODULE DataPreparation ---------------------------
(***************************************************************************)
(* From an edge list to the graphs of the executors.  util/hash.go numbers *)
(* the vertices, util/txt2csr.go writes the edges in compressed sparse row *)
(* form, util/split.go cuts the vertices into partitions; the controller   *)
(* reads the cut (common/config.go) and every executor the part of the CSR *)
(* files that belongs to its key (lambda_executor/src/graphutil/graph.go). *)
(* A file is a sequence of words: int32 edges, int64 offsets.              *)
(***************************************************************************)
EXTENDS Integers, SequencesExt

CONSTANTS
  RawFile,    \* the data sets: lines, the last one terminated or not, TOTAL_VERTEX
  PartCount,  \* the values of PARTITION
  Word,       \* 2^32: the hash table is of uint32
  Half,       \* 2^31: vertices, and offsets into the CSR of a partition, are int32
  Comment,    \* a line that begins with #
  NoFile

ASSUME DataAssumption ==
  /\ \A f \in RawFile : /\ f.lines \in Seq((Nat \X Nat) \cup {Comment})
                        /\ f.terminated \in BOOLEAN /\ f.totalVertex \in Nat
  /\ PartCount \subseteq Nat \ {0}
  /\ Word \in Nat \ {0} /\ Half \in Nat \ {0}
  /\ Comment \notin Nat \X Nat

VARIABLES
  raw,         \* RAW_TXT_PATH
  hashed,      \* HASHED_PATH: the edges of every line
  csr,         \* in_offset, out_offset, in_edge and out_edge in CSR_PATH
  startNodes,  \* the files start_nodes_<PARTITION>.bin in CSR_PATH
  config,      \* what LoadGraphConfig returned
  graphs,      \* the graph of every executor, by key
  stage        \* "prepare", "configured", "serving", or "dead" after a panic

vars == << raw, hashed, csr, startNodes, config, graphs, stage >>

TotalNode == raw.totalVertex
Nodes == 0 .. TotalNode - 1
Count(S) == Cardinality(S)

-----------------------------------------------------------------------------
(***************************************************************************)
(* hash.go.                                                                *)
(***************************************************************************)
\* ReadString returns the last line with io.EOF, and unread, if it does not end.
EdgesOf(file) ==
  LET complete == IF file.terminated THEN file.lines ELSE Front(file.lines)
      edges[i \in 0 .. Len(complete)] ==
        IF i = 0 THEN << >>
        ELSE IF complete[i] = Comment THEN edges[i - 1]
        ELSE Append(edges[i - 1], complete[i])
  IN  edges[Len(complete)]

RawEdges == EdgesOf(raw)

Ids(edges) == UNION { {e[1], e[2]} : e \in ToSet(edges) }

\* TOTAL_VERTEX is given with the data set: there is a number below it for every vertex.
\* All programs keep vertices and degrees in int32, split the sum of two degrees.
LinesAt(edges, v) ==
  Count({ i \in DOMAIN edges : edges[i][1] = v }) + Count({ i \in DOMAIN edges : edges[i][2] = v })
ASSUME TotalAssumption ==
  \A f \in RawFile :
    /\ Count(Ids(EdgesOf(f))) <= f.totalVertex
    /\ f.totalVertex <= Word /\ f.totalVertex < Half
    /\ \A v \in Ids(EdgesOf(f)) : 2 * LinesAt(EdgesOf(f), v) < Half

Largest(S) == CHOOSE x \in S : \A y \in S : y <= x

\* hash[i] += hash[i-1] runs from 1 on; faulty: from 2.
SummedLate(i) == i > 1
Summed(i) == i > 0

\* hash[i]--; faulty: left out.
RankFromOne(sum) == sum
Rank(sum) == (sum - 1) % Word

\* Prefix sums of a mark per id that occurs, less one.
HashTable(edges) ==
  LET mx == Largest(Ids(edges) \cup {0})
      sum[i \in 0 .. mx] ==
        (IF i \in Ids(edges) THEN 1 ELSE 0) + (IF Summed(i) THEN sum[i - 1] ELSE 0)
  IN  [i \in 0 .. mx |-> Rank(sum[i])]

\* The table has room for ids below 3 * TOTAL_VERTEX.
InTable == \A i \in Ids(RawEdges) : i < 3 * TotalNode

Hash ==
  /\ stage = "prepare" /\ hashed = NoFile
  /\ InTable
  /\ LET t == HashTable(RawEdges)
     IN  hashed' = [i \in DOMAIN RawEdges |-> << t[RawEdges[i][1]], t[RawEdges[i][2]] >>]
  /\ UNCHANGED << raw, csr, startNodes, config, graphs, stage >>

HashPanics ==
  /\ stage = "prepare" /\ hashed = NoFile
  /\ ~InTable
  /\ stage' = "dead"
  /\ UNCHANGED << raw, hashed, csr, startNodes, config, graphs >>

-----------------------------------------------------------------------------
(***************************************************************************)
(* txt2csr.go and split.go.                                                *)
(***************************************************************************)
\* Lines with v at one end.  Both tools count degrees in the same way.
Ends(k, v) == Count({ i \in DOMAIN hashed : hashed[i][k] = v })
InDegree(directed) == [v \in Nodes |-> Ends(2, v) + (IF directed THEN 0 ELSE Ends(1, v))]
OutDegree(directed) == [v \in Nodes |-> Ends(1, v) + (IF directed THEN 0 ELSE Ends(2, v))]

\* The calls of addEdge, in order.
Arcs(directed) ==
  IF directed THEN hashed
  ELSE FlattenSeq([i \in DOMAIN hashed |-> << hashed[i], << hashed[i][2], hashed[i][1] >> >>])

\* (u+v)%100 in int32: the sum may wrap, and the remainder has the sign of the dividend.
Int32(x) == ((x + Half) % (2 * Half)) - Half
Rem100(x) == IF x < 0 THEN -((-x) % 100) ELSE x % 100
Weight(u, v) == Rem100(Int32(u + v))

\* The edge list of v: the other ends of its arcs, each with its weight if weighted.
EdgeList(arcs, own, other, weighted, v) ==
  FlattenSeq([i \in DOMAIN arcs |->
    IF arcs[i][own] # v THEN << >>
    ELSE IF weighted THEN << arcs[i][other], Weight(arcs[i][1], arcs[i][2]) >>
    ELSE << arcs[i][other] >>])

\* Where the edges of 0, 1, ..., TotalNode begin.
Offsets(degree) ==
  LET sum[v \in 0 .. TotalNode] == IF v = 0 THEN 0 ELSE sum[v - 1] + degree[v - 1]
  IN  [i \in 1 .. TotalNode + 1 |-> sum[i - 1]]

\* buildGraph empties CSR_PATH first, with the start nodes of earlier splits.
Txt2Csr(weighted, directed) ==
  LET edgeFile(own, other) ==
        FlattenSeq([i \in 1 .. TotalNode |->
                     EdgeList(Arcs(directed), own, other, weighted, i - 1)])
  IN  /\ stage = "prepare" /\ hashed # NoFile
      /\ csr' = [weighted |-> weighted, directed |-> directed,
                 inOffset |-> Offsets(InDegree(directed)), inEdge |-> edgeFile(2, 1),
                 outOffset |-> Offsets(OutDegree(directed)), outEdge |-> edgeFile(1, 2)]
      /\ startNodes' = << >>
      /\ UNCHANGED << raw, hashed, config, graphs, stage >>

\* A part is closed by the vertex that brings it over the limit; faulty: up to it.
OverLimitEarly(load, limit) == load >= limit
OverLimit(load, limit) == load > limit

StartNodes(directed, partition) ==
  LET limit == (Len(hashed) * (IF directed THEN 1 ELSE 2) * 2) \div partition
      degree == [v \in Nodes |-> InDegree(directed)[v] + OutDegree(directed)[v]]
      sum == Offsets(degree)
      Stop(s) == CHOOSE e \in s + 1 .. TotalNode :
                   /\ e = TotalNode \/ OverLimit(sum[e + 1] - sum[s + 1], limit)
                   /\ \A f \in s + 1 .. e - 1 : ~OverLimit(sum[f + 1] - sum[s + 1], limit)
      from[s \in 0 .. TotalNode] ==
        IF s = TotalNode THEN << s >> ELSE << s >> \o from[Stop(s)]
  IN  from[0]

\* split is told on its own command line whether the graph is directed.
Split(directed, partition) ==
  /\ stage = "prepare" /\ csr # NoFile
  /\ partition \notin DOMAIN startNodes
  /\ startNodes' = [p \in DOMAIN startNodes \cup {partition} |->
                      IF p = partition THEN StartNodes(directed, p) ELSE startNodes[p]]
  /\ UNCHANGED << raw, hashed, csr, config, graphs, stage >>

-----------------------------------------------------------------------------
(***************************************************************************)
(* The controller reads PARTITION words of the file.  Read returns nothing *)
(* at its end, or without a file, and leaves the buffer as it is.          *)
(***************************************************************************)
WordRead(file, i) ==
  IF file = << >> THEN 0 ELSE IF i <= Len(file) THEN file[i] ELSE Last(file)

\* size of the i-th partition; SIZES is a map by key, so the last one with a key counts.
SizeAt(nodes, i) == (IF i = Len(nodes) THEN TotalNode ELSE nodes[i + 1]) - nodes[i]
Sizes(nodes) ==
  [k \in ToSet(nodes) |-> SizeAt(nodes, Largest({ i \in DOMAIN nodes : nodes[i] = k }))]

\* PARTITION is the configured one; a request loads in-edges, out-edges or both.
LoadGraphConfig(partition, inEdge, outEdge) ==
  LET file == IF partition \in DOMAIN startNodes THEN startNodes[partition] ELSE << >>
      nodes == [i \in 1 .. partition |-> WordRead(file, i)]
  IN  /\ stage = "prepare" /\ csr # NoFile
      /\ config' = [partition |-> partition, startNodes |-> nodes, sizes |-> Sizes(nodes),
                    inEdge |-> inEdge, outEdge |-> outEdge]
      /\ stage' = "configured"
      /\ UNCHANGED << raw, hashed, csr, startNodes, graphs >>

-----------------------------------------------------------------------------
(***************************************************************************)
(* LoadGraph of an executor.                                               *)
(***************************************************************************)
\* Words of one edge; faulty: offsets count edges also when they have weights.
WordsPerEdgeOne == 1
WordsPerEdge == IF csr.weighted THEN 2 ELSE 1

\* The next start node in the file, to which TotalNode is appended once more.
StopNode(key) ==
  LET list == startNodes[config.partition] \o << TotalNode >>
      index == CHOOSE i \in DOMAIN list :
                 list[i] = key /\ \A j \in DOMAIN list : list[j] = key => i <= j
  IN  list[index + 1]

LocalOffset(offset) == [i \in DOMAIN offset |-> Int32((offset[i] - offset[1]) * WordsPerEdge)]
Segment(file, offset) ==
  SubSeq(file, offset[1] * WordsPerEdge + 1, Last(offset) * WordsPerEdge)

LoadGraph(key) ==
  LET inOffset == SubSeq(csr.inOffset, key + 1, StopNode(key) + 1)
      outOffset == SubSeq(csr.outOffset, key + 1, StopNode(key) + 1)
  IN  [inOffset |-> LocalOffset(inOffset), outOffset |-> LocalOffset(outOffset),
       inCSR |-> IF config.inEdge THEN Segment(csr.inEdge, inOffset) ELSE << >>,
       outCSR |-> IF config.outEdge THEN Segment(csr.outEdge, outOffset) ELSE << >>]

\* Every key is loaded; each by its own goroutine, into an entry of its own.
LoadKeys ==
  /\ stage = "configured"
  /\ config.partition \in DOMAIN startNodes
  /\ graphs' = [k \in ToSet(config.startNodes) |-> LoadGraph(k)]
  /\ stage' = "serving"
  /\ UNCHANGED << raw, hashed, csr, startNodes, config >>

\* Executors find no start nodes; LoadKey of the controller has no answer to read.
LoadKeysPanics ==
  /\ stage = "configured"
  /\ config.partition \notin DOMAIN startNodes
  /\ stage' = "dead"
  /\ UNCHANGED << raw, hashed, csr, startNodes, config, graphs >>

\* InEdge and OutEdge of an executor.
InEdge(key, v) ==
  LET g == graphs[key]
  IN  SubSeq(g.inCSR, g.inOffset[v - key + 1] + 1, g.inOffset[v - key + 2])
OutEdge(key, v) ==
  LET g == graphs[key]
  IN  SubSeq(g.outCSR, g.outOffset[v - key + 1] + 1, g.outOffset[v - key + 2])

\* CalcInDegree and CalcOutDegree; faulty: words are taken for edges.
CalcDegreeWords(offset, key, v) == offset[v - key + 2] - offset[v - key + 1]
CalcDegree(offset, key, v) ==
  (offset[v - key + 2] - offset[v - key + 1]) \div WordsPerEdge

-----------------------------------------------------------------------------
Init ==
  /\ raw \in RawFile
  /\ hashed = NoFile
  /\ csr = NoFile
  /\ startNodes = << >>
  /\ config = NoFile
  /\ graphs = << >>
  /\ stage = "prepare"

Next ==
  \/ Hash \/ HashPanics
  \/ \E weighted, directed \in BOOLEAN : Txt2Csr(weighted, directed)
  \/ \E directed \in BOOLEAN, p \in PartCount : Split(directed, p)
  \/ \E p \in PartCount : \E inEdge, outEdge \in BOOLEAN : LoadGraphConfig(p, inEdge, outEdge)
  \/ LoadKeys \/ LoadKeysPanics

Spec == Init /\ [][Next]_vars

-----------------------------------------------------------------------------
(***************************************************************************)
(* Properties.                                                             *)
(***************************************************************************)
\* Types of the files and of what is read from them.
TypeOK ==
  /\ raw \in RawFile
  /\ hashed # NoFile => hashed \in Seq(Nodes \X Nodes)
  /\ csr # NoFile => \A offset \in {csr.inOffset, csr.outOffset} :
                        offset \in Seq(Nat) /\ Len(offset) = TotalNode + 1
  /\ DOMAIN startNodes \subseteq PartCount
  /\ \A p \in DOMAIN startNodes : startNodes[p] \in Seq(0 .. TotalNode)
  /\ stage \in {"prepare", "configured", "serving", "dead"}

\* The hashed file has the edges of the raw one, line by line, between vertices numbered
\* from 0 without a gap in the order of their ids.
HashKeepsGraph ==
  hashed # NoFile =>
    LET rank(i) == Count({ j \in Ids(RawEdges) : j < i })
    IN  /\ Len(hashed) = Len(RawEdges)
        /\ \A i \in DOMAIN hashed :
             hashed[i] = << rank(RawEdges[i][1]), rank(RawEdges[i][2]) >>

\* Controller and executors cut the graph alike, also when a skewed graph has fewer parts
\* than PARTITION: each vertex is in the range of one key, and the executor of a key
\* holds as many vertices as the controller believes.
EachVertexOnce ==
  config # NoFile =>
    /\ \A v \in Nodes :
         Count({ k \in DOMAIN config.sizes : k <= v /\ v < k + config.sizes[k] }) = 1
    /\ \A k \in DOMAIN graphs : Len(graphs[k].inOffset) = config.sizes[k] + 1

\* An edge of the text is in the adjacency of its source as often as in the text (and of
\* its target, if undirected), on the executor of the source, with its weight as long as the
\* sum of the two ids is an int32; in-edges and degrees likewise.  True as long as the words
\* of a partition can be counted in an int32.
Fits(key) == \A v \in key .. StopNode(key) :
  /\ (csr.outOffset[v + 1] - csr.outOffset[key + 1]) * WordsPerEdge < Half
  /\ (csr.inOffset[v + 1] - csr.inOffset[key + 1]) * WordsPerEdge < Half
Lines(u, v) == Count({ i \in DOMAIN hashed : hashed[i] = << u, v >> })
SameAs(list, v, lines(_)) ==
  LET w == IF csr.weighted THEN 2 ELSE 1
      entries == { i \in DOMAIN list : i % w = 1 % w }
  IN  /\ \A u \in Nodes : Count({ i \in entries : list[i] = u }) = lines(u)
      /\ csr.weighted => \A i \in entries :
           list[i] + v < Half => list[i + 1] = (list[i] + v) % 100
EdgesKept ==
  \A k \in DOMAIN graphs : Fits(k) => \A v \in k .. k + config.sizes[k] - 1 :
    LET both == IF csr.directed THEN 0 ELSE 1
    IN  /\ config.outEdge =>
             SameAs(OutEdge(k, v), v, LAMBDA u : Lines(v, u) + both * Lines(u, v))
        /\ config.inEdge =>
             SameAs(InEdge(k, v), v, LAMBDA u : Lines(u, v) + both * Lines(v, u))
        \* The degrees PageRank divides by are those of the text, with weights or without.
        /\ CalcDegree(graphs[k].outOffset, k, v) = OutDegree(csr.directed)[v]
        /\ CalcDegree(graphs[k].inOffset, k, v) = InDegree(csr.directed)[v]
=============================================================================
