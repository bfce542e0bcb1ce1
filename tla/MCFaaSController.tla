-------------------------- MODULE MCFaaSController --------------------------
(***************************************************************************)
(* Small controllers for TLC: one host, so that two managers compete for   *)
(* the same slots and ports.                                               *)
(***************************************************************************)
EXTENDS FaaSController

CONSTANTS n1, s1, s2, s3, r1, r2, r3, r4, m1, m2

MCNode == {n1}
MCTaken == (n1 :> 0)
OneSet == {s1}
TwoSets == {s1, s2}
ThreeSets == {s1, s2, s3}

EvenTwo == [slotPerContainer |-> 2, partition |-> 2]
OddThree == [slotPerContainer |-> 2, partition |-> 3]
EvenDemand == {EvenTwo}
BothDemands == {EvenTwo, OddThree}

\* Two managers, one of them with more requests than sets may serve at once.  With
\* MixedDemand the odd partition makes Put return a slot too many, so that a later Get
\* runs out of CPUs and panics.
TwoManagers == {m1, m2}
FourRequests == {r1, r2, r3, r4}
SplitRequests == (r1 :> m1) @@ (r2 :> m1) @@ (r3 :> m1) @@ (r4 :> m2)
SplitDemand == (m1 :> EvenTwo) @@ (m2 :> EvenTwo)
MixedDemand == (m1 :> OddThree) @@ (m2 :> EvenTwo)

\* One manager with room for three sets and four requests.
OneManager == {m1}
OneManagerRequests == [r \in FourRequests |-> m1]
OneManagerDemand == (m1 :> EvenTwo)

SplitSymmetry == Permutations(TwoSets) \cup Permutations({r1, r2, r3})
ScalingSymmetry == Permutations(ThreeSets) \cup Permutations(FourRequests)
=============================================================================
