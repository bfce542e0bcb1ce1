------------------------------ MODULE MCCluster ------------------------------
(***************************************************************************)
(* Small clusters for TLC.  Two hosts, one larger than the other, so that  *)
(* a set may span both; few ports, so that the free lists wrap around and  *)
(* a host runs out of them.                                                *)
(***************************************************************************)
EXTENDS Cluster

CONSTANTS n1, n2, h1, h2, h3

MCNode == {n1, n2}
MCHolder == {h1, h2, h3}
TwoHolders == {h1, h2}

\* On n2 two slots are taken from the start.
MCTaken == (n1 :> 0) @@ (n2 :> 2)

\* Partitions that are multiples of the cores per container, as in
\* config/config.json; a PARTITION of 1 is raised to 2 slots.
EvenDemand == [slotPerContainer : {2}, partition : {1, 2, 4}]
\* Two functions, one with the default of one core per container.
MixedDemand == { [slotPerContainer |-> 1, partition |-> 2],
                 [slotPerContainer |-> 2, partition |-> 4] }

HolderSymmetry == Permutations(MCHolder)
TwoHolderSymmetry == Permutations(TwoHolders)
==============================================================================
