----------------------------- MODULE MCLoadGraph -----------------------------
(***************************************************************************)
(* Two hosts, the second smaller, and two sets that share them.            *)
(***************************************************************************)
EXTENDS LoadGraph

CONSTANTS n1, n2, h1, h2

MCNode == {n1, n2}
MCHolder == {h1, h2}
MCTaken == (n1 :> 0) @@ (n2 :> 2)

\* Four keys in two containers, on one host or on two, and a single key.
MCDemand == { [slotPerContainer |-> 2, partition |-> 4],
              [slotPerContainer |-> 2, partition |-> 1] }
==============================================================================
