------------------------------ MODULE SharedArray ------------------------------
(***************************************************************************)
(* What the coordinator, the executors and local_manager together promise  *)
(* about the vertex arrays of queries: each is made once, whoever uses it  *)
(* finds it made, and it is removed when nobody uses it any more.          *)
(***************************************************************************)
CONSTANTS Array, User

VARIABLES
  made,     \* the arrays that exist
  removed,  \* the arrays that existed once
  using     \* the users that reach an array through a mapping or write to it from afar

vars == << made, removed, using >>

Init == made = {} /\ removed = {} /\ using = {}

Make(a) ==
  /\ a \notin made \cup removed
  /\ made' = made \cup {a}
  /\ UNCHANGED << removed, using >>

\* A user begins to use any number of arrays: its own and remote ones.
Join(u) ==
  /\ using \subseteq using'
  /\ using' \ using \subseteq {u} \X made
  /\ UNCHANGED << made, removed >>

\* Users stop, several together when they share a container.
Leave ==
  /\ using' \subseteq using
  /\ UNCHANGED << made, removed >>

Remove(a) ==
  /\ a \in made
  /\ \A u \in User : << u, a >> \notin using
  /\ made' = made \ {a}
  /\ removed' = removed \cup {a}
  /\ UNCHANGED using

Next ==
  \/ \E a \in Array : Make(a) \/ Remove(a)
  \/ \E u \in User : Join(u)
  \/ Leave

Spec == Init /\ [][Next]_vars
=============================================================================
