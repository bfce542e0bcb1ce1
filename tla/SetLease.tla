------------------------------- MODULE SetLease -------------------------------
(***************************************************************************)
(* What faas_controller promises about its container sets: each is leased  *)
(* to one request at a time, a request may stand in line for a leased set, *)
(* the line moves first come first served, and only a set that is leased   *)
(* to nobody is retired.                                                   *)
(***************************************************************************)
EXTENDS Naturals, Sequences

CONSTANTS Set, Request, Nobody

VARIABLES
  live,   \* the sets that can be leased
  owner,  \* the request a set is leased to, or Nobody
  line    \* the requests standing in line for a set

vars == << live, owner, line >>

Init ==
  /\ live = {}
  /\ owner = [s \in Set |-> Nobody]
  /\ line = [s \in Set |-> << >>]

Lease(s, r) == owner' = [owner EXCEPT ![s] = r]

Create(s, r) ==
  /\ s \notin live
  /\ live' = live \cup {s}
  /\ Lease(s, r)
  /\ UNCHANGED line

Reuse(s, r) ==
  /\ s \in live
  /\ owner[s] = Nobody
  /\ Lease(s, r)
  /\ UNCHANGED << live, line >>

Join(s, r) ==
  /\ owner[s] # Nobody
  /\ line' = [line EXCEPT ![s] = Append(@, r)]
  /\ UNCHANGED << live, owner >>

\* The owner passes the set to the first in line.
Pass(s) ==
  /\ owner[s] # Nobody
  /\ line[s] # << >>
  /\ Lease(s, Head(line[s]))
  /\ line' = [line EXCEPT ![s] = Tail(@)]
  /\ UNCHANGED live

Release(s) ==
  /\ owner[s] # Nobody
  /\ line[s] = << >>
  /\ Lease(s, Nobody)
  /\ UNCHANGED << live, line >>

\* One visit of the recycler retires any number of unleased sets.
Retire(S) ==
  /\ S # {} /\ S \subseteq live
  /\ \A s \in S : owner[s] = Nobody
  /\ live' = live \ S
  /\ UNCHANGED << owner, line >>

\* A request that owns a set or stands in a line takes no second one.
Engaged(r) == \E s \in Set : owner[s] = r \/ \E i \in 1 .. Len(line[s]) : line[s][i] = r

Next ==
  \/ \E s \in Set, r \in Request : ~Engaged(r) /\ (Create(s, r) \/ Reuse(s, r) \/ Join(s, r))
  \/ \E s \in Set : Pass(s) \/ Release(s)
  \/ \E S \in SUBSET Set : Retire(S)

Spec == Init /\ [][Next]_vars
===============================================================================
