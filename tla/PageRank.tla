------------------------------ MODULE PageRank ------------------------------
(***************************************************************************)
(* PageRank by pull (app/graph/pr) and by push (app/graph/prpush): every   *)
(* host has two arrays of vertex values, and a global of each container,   *)
(* VERTEX_ARRAY_TAG_NEW, says which one the round writes; the other holds  *)
(* the round before.  The partitions of a container share it: the second   *)
(* one to finish a round switches it.  Pushes to other hosts carry the tag *)
(* that a goroutine of their own read.  The sums are floating-point; what  *)
(* matters here is from which round the summands come, so a value is the   *)
(* set of << round, partition >> that went into it, empty for a fresh word.*)
(* The vertices of a partition are treated alike and stand for one.        *)
(***************************************************************************)
EXTENDS Integers, FiniteSets

CONSTANTS
  Partition,    \* the graph partitions
  Out,          \* the partitions a partition has edges to
  Container,    \* executor processes
  ContainerOf,  \* the container a partition is loaded in
  Host,
  HostOf,       \* the host of a container
  App,          \* the applications queried: "pr", "prpush"
  RoundLimit,   \* ROUND_LIMIT of the queries of an application, which set NO_CHANGE
  MaxQuery,     \* queries the container set serves one after the other
  NoTag

ASSUME PageRankAssumption ==
  /\ IsFiniteSet(Partition) /\ Out \in [Partition -> SUBSET Partition]
  /\ ContainerOf \in [Partition -> Container] /\ HostOf \in [Container -> Host]
  /\ App \subseteq {"pr", "prpush"}
  /\ RoundLimit \in [App -> Nat \ {0}] /\ MaxQuery \in Nat \ {0}
  /\ NoTag \notin {0, 1}

VARIABLES
  app,       \* the application of the container set
  arr,       \* vertexVal[0] and vertexVal[1] of every host
  tagNew,    \* VERTEX_ARRAY_TAG_NEW of every container
  finished,  \* finished of every container
  phase,     \* where the current call of every partition is
  pushTag,   \* the tag in the header of a partition's push to a host, once it is read
  held,      \* the values of the round before that Calc has read
  inflight,  \* words on their way from a partition to a host
  round,     \* 0 while loading
  query      \* queries begun

vars == << app, arr, tagNew, finished, phase, pushTag, held, inflight, round, query >>

At(p) == HostOf[ContainerOf[p]]
Tag(p) == tagNew[ContainerOf[p]]
Remote(p) == Host \ {At(p)}
InNeighbours(p) == { q \in Partition : p \in Out[q] }

\* Load activates vertices with out-edges; with NO_CHANGE the active set stays as it is.
Active == { p \in Partition : Out[p] # {} }

\* What Calc reads and what it writes: pr pulls into its own vertices, prpush adds to the
\* vertices its edges lead to.
Sources(p) == IF app = "pr" THEN InNeighbours(p) ELSE {p}
Targets(p) == IF round = 0 \/ app = "pr" THEN {p} ELSE Out[p]
Value(p) == { << round, p >> }

\* Aggregate-Op is "" while loading and for pr, FLOAT_ADD for prpush, whose array is never
\* cleared.  Faulty: "" always.
AggregatedLast(old, val) == val
Aggregated(old, val) == IF round > 0 /\ app = "prpush" THEN old \cup val ELSE val

Store(p, tag, targets) ==
  arr' = [arr EXCEPT ![At(p)][tag] =
            [v \in Partition |-> IF v \in targets THEN Aggregated(@[v], Value(p)) ELSE @[v]]]

-----------------------------------------------------------------------------
(***************************************************************************)
(* pushVertexVals runs beside Load or Calc from createWriters on; the      *)
(* pipe makes the writer wait until it has sent its header.                *)
(***************************************************************************)
PushStarts(p, h) ==
  /\ phase[p] # "replied"
  /\ h \in Remote(p) /\ pushTag[p][h] = NoTag
  /\ pushTag' = [pushTag EXCEPT ![p][h] = Tag(p)]
  /\ UNCHANGED << app, arr, tagNew, finished, phase, held, inflight, round, query >>

PushesStarted(p) == \A h \in Remote(p) : pushTag[p][h] # NoTag

Send(p) ==
  /\ phase[p] = "sending"
  /\ PushesStarted(p)
  /\ inflight' = [inflight EXCEPT ![p] =
                    [h \in Host |-> IF h \in Remote(p) THEN Targets(p) ELSE {}]]
  /\ phase' = [phase EXCEPT ![p] = IF round = 0 THEN "closing" ELSE "finishing"]
  /\ UNCHANGED << app, arr, tagNew, finished, pushTag, held, round, query >>

\* setVertexInfo of the host applies one word.
Deliver(p, h, v) ==
  /\ v \in inflight[p][h]
  /\ arr' = [arr EXCEPT ![h][pushTag[p][h]][v] = Aggregated(@, Value(p))]
  /\ inflight' = [inflight EXCEPT ![p][h] = @ \ {v}]
  /\ UNCHANGED << app, tagNew, finished, phase, pushTag, held, round, query >>

\* The writers are closed and every push has been answered.
Answered(p) == PushesStarted(p) /\ \A h \in Host : inflight[p][h] = {}

\* gas calls Calc only for a partition with active vertices.
CalcOver(p) == phase[p] = "closing" \/ (phase[p] = "started" /\ round > 0 /\ p \notin Active)

Reply(p) ==
  /\ CalcOver(p)
  /\ Answered(p)
  /\ phase' = [phase EXCEPT ![p] = "replied"]
  /\ pushTag' = [pushTag EXCEPT ![p] = [h \in Host |-> NoTag]]
  /\ UNCHANGED << app, arr, tagNew, finished, held, inflight, round, query >>

-----------------------------------------------------------------------------
(***************************************************************************)
(* Load and Calc.                                                          *)
(***************************************************************************)
Load(p) ==
  /\ phase[p] = "started" /\ round = 0
  /\ Store(p, 0, {p})
  /\ tagNew' = [tagNew EXCEPT ![ContainerOf[p]] = 1]
  /\ phase' = [phase EXCEPT ![p] = "sending"]
  /\ UNCHANGED << app, finished, pushTag, held, inflight, round, query >>

Read(p) ==
  /\ phase[p] = "started" /\ round > 0
  /\ p \in Active
  /\ held' = [held EXCEPT ![p] = [q \in Sources(p) |-> arr[At(p)][1 - Tag(p)][q]]]
  /\ phase' = [phase EXCEPT ![p] = "computed"]
  /\ UNCHANGED << app, arr, tagNew, finished, pushTag, inflight, round, query >>

Write(p) ==
  /\ phase[p] = "computed"
  /\ Store(p, Tag(p), Targets(p))
  /\ held' = [held EXCEPT ![p] = << >>]
  /\ phase' = [phase EXCEPT ![p] = "sending"]
  /\ UNCHANGED << app, tagNew, finished, pushTag, inflight, round, query >>

\* The count that switches the arrays is written into the code; faulty: the first does.
SwitchesAtFirst(count) == count = 1
Switches(count) == count = 2

\* ret := atomic.AddInt32(&finished, 1)
Finish(p) ==
  LET c == ContainerOf[p]
  IN  /\ phase[p] = "finishing"
      /\ finished' = [finished EXCEPT ![c] = @ + 1]
      /\ phase' = [phase EXCEPT ![p] = IF Switches(finished'[c]) THEN "switching" ELSE "closing"]
      /\ UNCHANGED << app, arr, tagNew, pushTag, held, inflight, round, query >>

\* What finished is left at; faulty: it is not reset.
ResetForgotten(count) == count
Reset(count) == 0

Switch(p) ==
  /\ phase[p] = "switching"
  /\ tagNew' = [tagNew EXCEPT ![ContainerOf[p]] = 1 - @]
  /\ finished' = [finished EXCEPT ![ContainerOf[p]] = Reset(@)]
  /\ phase' = [phase EXCEPT ![p] = "closing"]
  /\ UNCHANGED << app, arr, pushTag, held, inflight, round, query >>

-----------------------------------------------------------------------------
(***************************************************************************)
(* The coordinator, and the next query of the same container set: it gets  *)
(* arrays of zeros, while the containers keep their globals.               *)
(***************************************************************************)
Barrier == \A p \in Partition : phase[p] = "replied"
RoundsDone == Active = {} \/ round = RoundLimit[app]
AllStarted == [p \in Partition |-> "started"]
Zeros == [h \in Host |-> [t \in {0, 1} |-> [v \in Partition |-> {}]]]

Dispatch ==
  /\ Barrier /\ ~RoundsDone
  /\ round' = round + 1
  /\ phase' = AllStarted
  /\ UNCHANGED << app, arr, tagNew, finished, pushTag, held, inflight, query >>

NextQuery ==
  /\ Barrier /\ RoundsDone
  /\ query < MaxQuery
  /\ query' = query + 1
  /\ round' = 0
  /\ arr' = Zeros
  /\ phase' = AllStarted
  /\ UNCHANGED << app, tagNew, finished, pushTag, held, inflight >>

Init ==
  /\ app \in App
  /\ arr = Zeros
  /\ tagNew = [c \in Container |-> 0]
  /\ finished = [c \in Container |-> 0]
  /\ phase = AllStarted
  /\ pushTag = [p \in Partition |-> [h \in Host |-> NoTag]]
  /\ held = [p \in Partition |-> << >>]
  /\ inflight = [p \in Partition |-> [h \in Host |-> {}]]
  /\ round = 0
  /\ query = 1

Executor(p) ==
  \/ Load(p) \/ Read(p) \/ Write(p) \/ Finish(p) \/ Switch(p) \/ Send(p) \/ Reply(p)
  \/ \E h \in Host : PushStarts(p, h) \/ \E v \in Partition : Deliver(p, h, v)

Next == (\E p \in Partition : Executor(p)) \/ Dispatch \/ NextQuery

Spec == Init /\ [][Next]_vars

-----------------------------------------------------------------------------
(***************************************************************************)
(* Properties.                                                             *)
(***************************************************************************)
Cell == SUBSET ((0 .. RoundLimit[app]) \X Partition)
Phases == {"started", "computed", "sending", "finishing", "switching", "closing", "replied"}

\* Types of the arrays, the globals and the calls.
TypeOK ==
  /\ app \in App
  /\ \A h \in Host : \A t \in {0, 1} : \A v \in Partition : arr[h][t][v] \in Cell
  /\ tagNew \in [Container -> {0, 1}]
  /\ finished \in [Container -> 0 .. 2]
  /\ phase \in [Partition -> Phases]
  /\ pushTag \in [Partition -> [Host -> {0, 1, NoTag}]]
  /\ inflight \in [Partition -> [Host -> SUBSET Partition]]
  /\ round \in 0 .. RoundLimit[app] /\ query \in 1 .. MaxQuery

\* From the second round on, and from the first between partitions of one host, pr computes
\* with what its in-neighbours wrote in the round before, on whatever host: never with a
\* value of this round, an older one, or of the query before.  (In the first round values
\* of other hosts may be missing: the tag of the push of Load may already be 1.)  What
\* prpush reads from the second round on has the contribution of the round before of every
\* in-neighbour, although partitions of several hosts add to it concurrently.  (It has
\* older ones as well, since the array was not cleared.)
ReadsPreviousRound ==
  \A p \in Partition : phase[p] = "computed" => \A q \in InNeighbours(p) :
    /\ app = "pr" /\ (round > 1 \/ At(q) = At(p)) => held[p][q] = { << round - 1, q >> }
    /\ app = "prpush" /\ round > 1 => << round - 1, q >> \in held[p][p]

\* When the executors have answered, all containers agree on the array of the next round.
TagsAgree ==
  Barrier => \A c \in Container :
    finished[c] = 0 /\ tagNew[c] = (round + 1) % 2
=============================================================================
