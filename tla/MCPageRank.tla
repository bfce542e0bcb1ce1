----------------------------- MODULE MCPageRank -----------------------------
(***************************************************************************)
(* Small instances for TLC.                                                *)
(***************************************************************************)
EXTENDS PageRank, TLC

CONSTANTS p1, p2, p3, p4, c1, c2, a, b

\* Edges within a partition, within a container and between hosts, both ways.
FourParts == {p1, p2, p3, p4}
FourOut == (p1 :> {p2, p3}) @@ (p2 :> {p2}) @@ (p3 :> {p1}) @@ (p4 :> {p3})
TwoContainers == {c1, c2}
PairedIn == (p1 :> c1) @@ (p2 :> c1) @@ (p3 :> c2) @@ (p4 :> c2)
PairedHost == (c1 :> a) @@ (c2 :> b)

\* A container for each of two partitions of one host.
TwoParts == {p1, p2}
TwoOut == (p1 :> {p2}) @@ (p2 :> {p1})
SingleIn == (p1 :> c1) @@ (p2 :> c2)
SingleHost == (c1 :> a) @@ (c2 :> a)

Applications == {"pr", "prpush"}
Limits == [f \in Applications |-> IF f = "pr" THEN 3 ELSE 2]
OnlyPull == {"pr"}
PullLimit == [f \in OnlyPull |-> 2]
=============================================================================
