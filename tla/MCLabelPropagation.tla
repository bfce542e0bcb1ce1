------------------------- MODULE MCLabelPropagation -------------------------
(***************************************************************************)
(* Small graphs and queries for TLC.                                       *)
(***************************************************************************)
EXTENDS LabelPropagation

CONSTANTS p1, p2, p3, a, b

ThreePartitions == {p1, p2, p3}
TwoHosts == {a, b}

\* The path 1 - 0 - 2 - 4 - 3: its ends lie within two partitions on two hosts, its middle
\* in a third one.  A heavy edge 1 - 3 closes it across the hosts, so that what came over few
\* edges has to be replaced by what comes over many.  5 has no edge.
PathVertices == 0 .. 5
PathEdges == (0 :> << 1, 2 >>) @@ (1 :> << 0, 3 >>) @@ (2 :> << 0, 4 >>) @@
             (3 :> << 1, 4 >>) @@ (4 :> << 2, 3 >>) @@ (5 :> << >>)
PathWeights == (0 :> << 1, 1 >>) @@ (1 :> << 1, 7 >>) @@ (2 :> << 1, 1 >>) @@
               (3 :> << 7, 1 >>) @@ (4 :> << 1, 1 >>) @@ (5 :> << >>)
PathPartition == (0 :> p1) @@ (1 :> p1) @@ (2 :> p2) @@ (3 :> p3) @@ (4 :> p3) @@ (5 :> p3)
Spread == (p1 :> a) @@ (p2 :> a) @@ (p3 :> b)
Together == (p1 :> a) @@ (p2 :> a) @@ (p3 :> a)
PathQueries ==
  { [app |-> x, source |-> 2, hostOf |-> Spread] : x \in {"cc", "sssp", "bfs"} }
    \cup { [app |-> "bfs", source |-> 2, hostOf |-> Together] }
=============================================================================
