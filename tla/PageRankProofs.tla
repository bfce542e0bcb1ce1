---------------------------- MODULE PageRankProofs ----------------------------
(***************************************************************************)
(* Theorems about PageRank, for the containers its code is written for:    *)
(* the count that switches the arrays is 2, so every container has two     *)
(* partitions, and each of them has edges.  (With one partition in each    *)
(* the run pagerank_default shows what goes wrong.)  The containers, the   *)
(* hosts they share, the graph and the number of rounds and queries are    *)
(* arbitrary.                                                              *)
(***************************************************************************)
EXTENDS PageRank, TLAPS

PairedPartitions ==
  /\ \A p \in Partition : Out[p] # {}
  /\ \A c \in Container : \E p, q \in Partition :
       p # q /\ \A x \in Partition : ContainerOf[x] = c <=> x \in {p, q}

Partners(p, q) == p # q /\ ContainerOf[p] = ContainerOf[q]

-----------------------------------------------------------------------------
(***************************************************************************)
(* The inductive invariant.                                                *)
(***************************************************************************)
Typed ==
  /\ app \in App
  /\ arr \in [Host -> [{0, 1} -> [Partition -> Cell]]]
  /\ tagNew \in [Container -> {0, 1}]
  /\ finished \in [Container -> 0 .. 2]
  /\ phase \in [Partition -> Phases]
  /\ pushTag \in [Partition -> [Host -> {0, 1, NoTag}]]
  /\ held = [p \in Partition |-> held[p]]
  /\ inflight \in [Partition -> [Host -> SUBSET Partition]]
  /\ round \in 0 .. RoundLimit[app]
  /\ query \in 1 .. MaxQuery

\* The array a round writes, and the one it reads.
WriteTag(n) == n % 2
ReadTag(n) == 1 - WriteTag(n)

\* A call that has been through its barrier of the container.
Through(p) == phase[p] \in {"switching", "closing", "replied"}

\* A push is under way from the first word to the last answer, and in a round it
\* carries the tag the round writes.
Pushing ==
  \A p \in Partition :
    /\ phase[p] = "replied" => \A h \in Host : pushTag[p][h] = NoTag
    /\ phase[p] \in {"started", "computed", "sending", "replied"} =>
         \A h \in Host : inflight[p][h] = {}
    /\ phase[p] \in {"finishing", "switching", "closing"} => PushesStarted(p)
    /\ \A h \in Host : h = At(p) => inflight[p][h] = {}
    /\ \A h \in Host : inflight[p][h] \subseteq Targets(p)
    /\ round > 0 => \A h \in Host : pushTag[p][h] \in {WriteTag(round), NoTag}

\* Load switches every container to array 1; afterwards the two partitions of a
\* container count to two and one of them switches it, once per round.
Loading ==
  round = 0 =>
    /\ \A c \in Container : finished[c] = 0
    /\ \A p \in Partition : /\ phase[p] \in {"started", "sending", "closing", "replied"}
                            /\ phase[p] # "started" => Tag(p) = 1

Counting ==
  round > 0 => \A p, q \in Partition : Partners(p, q) =>
    \/ /\ finished[ContainerOf[p]] = 0 /\ Tag(p) = WriteTag(round)
       /\ ~Through(p) /\ ~Through(q)
    \/ /\ finished[ContainerOf[p]] = 1 /\ Tag(p) = WriteTag(round)
       /\ Through(p) <=> ~Through(q)
       /\ phase[p] # "switching" /\ phase[q] # "switching"
    \/ /\ finished[ContainerOf[p]] = 2 /\ Tag(p) = WriteTag(round)
       /\ Through(p) /\ Through(q)
       /\ phase[p] = "switching" <=> phase[q] # "switching"
    \/ /\ finished[ContainerOf[p]] = 0 /\ Tag(p) = ReadTag(round)
       /\ Through(p) /\ Through(q)
       /\ phase[p] # "switching" /\ phase[q] # "switching"

\* What round n of p contributed to v is in array t of h: for pr nothing else is.
Contributed(h, t, v, p, n) ==
  /\ app = "pr" => arr[h][t][v] = { << n, p >> }
  /\ app # "pr" => << n, p >> \in arr[h][t][v]

Reach(p) == IF app = "pr" THEN {p} ELSE Out[p]

\* The array a round reads still has what the round before contributed.
Kept ==
  round > 0 => \A p \in Partition : \A v \in Reach(p) : \A h \in Host :
    round > 1 \/ (app = "pr" /\ h = At(p)) => Contributed(h, ReadTag(round), v, p, round - 1)

\* What was stored stays in the array the round writes.
Stored ==
  round > 0 \/ app = "pr" =>
    \A p \in Partition : phase[p] \notin {"started", "computed"} =>
      \A v \in Reach(p) : Contributed(At(p), WriteTag(round), v, p, round)

\* What was sent has arrived or is on its way.
Sent ==
  round > 0 => \A p \in Partition : phase[p] \notin {"started", "computed", "sending"} =>
    \A h \in Remote(p) : \A v \in Reach(p) :
      v \in inflight[p][h] \/ Contributed(h, WriteTag(round), v, p, round)

IInv == /\ Typed /\ Pushing /\ Loading /\ Counting
        /\ Kept /\ Stored /\ Sent /\ ReadsPreviousRound

-----------------------------------------------------------------------------
(***************************************************************************)
(* The two arrays change places, and what a write does to them.            *)
(***************************************************************************)
LEMMA Parity ==
  ASSUME NEW n \in Nat
  PROVE  /\ WriteTag(n) \in {0, 1} /\ ReadTag(n) \in {0, 1}
         /\ WriteTag(n) # ReadTag(n)
         /\ WriteTag(n + 1) = ReadTag(n) /\ ReadTag(n + 1) = WriteTag(n)
<1>1. n % 2 \in {0, 1} /\ (n + 1) % 2 = 1 - (n % 2)
  OBVIOUS
<1> QED
  BY <1>1 DEF WriteTag, ReadTag

\* The two arrays take turns.
LEMMA TagZero == WriteTag(0) = 0 /\ WriteTag(1) = 1 /\ ReadTag(1) = 0
  BY DEF WriteTag, ReadTag

\* Rounds are counted from 0 to a limit of at least one.
LEMMA RoundType ==
  ASSUME Typed
  PROVE  round \in Nat /\ RoundLimit[app] \in Nat \ {0}
  BY PageRankAssumption DEF Typed

\* p aggregates its value into the words T of array t of host h, and nothing else changes.
Touched(p, h, t, T) ==
  /\ app' = app
  /\ arr' \in [Host -> [{0, 1} -> [Partition -> Cell]]]
  /\ \A g \in Host, u \in {0, 1}, v \in Partition :
       g # h \/ u # t \/ v \notin T => arr'[g][u][v] = arr[g][u][v]
  /\ \A v \in T : arr'[h][t][v] = Aggregated(arr[h][t][v], Value(p))

\* What a cell aggregates to is a cell.
LEMMA AggregatedType ==
  ASSUME Typed, NEW p \in Partition, NEW old \in Cell
  PROVE  Aggregated(old, Value(p)) \in Cell
<1>1. Value(p) \in Cell
  BY RoundType DEF Value, Cell, Typed
<1> QED
  BY <1>1 DEF Aggregated, Cell

\* A local store adds the partition's value to its own host's cells.
LEMMA StoreTouches ==
  ASSUME Typed, app' = app, NEW p \in Partition, NEW t \in {0, 1}, NEW T \in SUBSET Partition,
         Store(p, t, T)
  PROVE  Touched(p, At(p), t, T)
<1>1. At(p) \in Host
  BY PageRankAssumption DEF At
<1>2. PICK new : new = [v \in Partition |-> IF v \in T THEN Aggregated(arr[At(p)][t][v], Value(p))
                                                       ELSE arr[At(p)][t][v]]
  OBVIOUS
<1>3. new \in [Partition -> Cell]
  BY <1>1, <1>2, AggregatedType DEF Typed
<1>4. arr' = [arr EXCEPT ![At(p)][t] = new]
  BY <1>2 DEF Store
<1>5. \A v \in T : new[v] = Aggregated(arr[At(p)][t][v], Value(p))
  BY <1>2
<1>6. \A v \in Partition \ T : new[v] = arr[At(p)][t][v]
  BY <1>2
<1> QED
  BY <1>1, <1>3, <1>4, <1>5, <1>6 DEF Touched, Typed

\* A delivered push adds the partition's value to another host's cell.
LEMMA DeliverTouches ==
  ASSUME Typed, NEW p \in Partition, NEW h \in Host, NEW v \in Partition,
         pushTag[p][h] \in {0, 1}, Deliver(p, h, v)
  PROVE  Touched(p, h, pushTag[p][h], {v})
<1>1. PICK t \in {0, 1} : t = pushTag[p][h]
  OBVIOUS
<1>2. PICK new : new = Aggregated(arr[h][t][v], Value(p))
  OBVIOUS
<1>3. new \in Cell
  BY <1>2, AggregatedType DEF Typed
<1>4. arr' = [arr EXCEPT ![h][t][v] = new] /\ app' = app
  BY <1>1, <1>2 DEF Deliver
<1> QED
  BY <1>1, <1>2, <1>3, <1>4 DEF Touched, Typed

\* A write takes nothing away that was contributed to another array, by another
\* partition, or in this round.
LEMMA TouchKeeps ==
  ASSUME Typed, NEW p \in Partition, NEW h \in Host, NEW t \in {0, 1},
         NEW T \in SUBSET Partition, T \subseteq Targets(p), Touched(p, h, t, T),
         NEW g \in Host, NEW u \in {0, 1}, NEW x \in Partition, NEW v \in Reach(x), NEW n \in Nat,
         Contributed(g, u, v, x, n),
         \/ g # h \/ u # t
         \/ (round > 0 \/ app = "pr") /\ (x # p \/ n = round)
  PROVE  Contributed(g, u, v, x, n)'
<1>1. v \in Partition
  BY PageRankAssumption DEF Reach
<1>2. CASE g # h \/ u # t \/ v \notin T
  BY <1>1, <1>2 DEF Touched, Contributed
<1>3. CASE g = h /\ u = t /\ v \in T
  <2>1. arr'[g][u][v] = Aggregated(arr[g][u][v], Value(p)) /\ app' = app
    BY <1>3 DEF Touched
  <2>2. CASE app = "pr"
    <3>1. x = p
      BY <1>3, <2>2 DEF Reach, Targets
    <3>2. n = round
      BY <1>3, <3>1
    <3> QED
      BY <2>1, <2>2, <3>1, <3>2 DEF Aggregated, Value, Contributed
  <2>3. CASE app # "pr"
    <3>1. app = "prpush" /\ round > 0
      BY <1>3, <2>3, PageRankAssumption DEF Typed
    <3> QED
      BY <2>1, <3>1 DEF Aggregated, Contributed
  <2> QED
    BY <2>2, <2>3
<1> QED
  BY <1>2, <1>3

\* The touched cells have the contribution of the round.
LEMMA TouchAdds ==
  ASSUME Typed, NEW p \in Partition, NEW h \in Host, NEW t \in {0, 1}, NEW T \in SUBSET Partition,
         Touched(p, h, t, T), NEW v \in T, round > 0 \/ app = "pr", NEW n \in Nat, n = round
  PROVE  Contributed(h, t, v, p, n)'
<1>1. arr'[h][t][v] = Aggregated(arr[h][t][v], Value(p)) /\ app' = app
  BY DEF Touched
<1>2. app # "pr" => app = "prpush" /\ round > 0
  BY PageRankAssumption DEF Typed
<1> QED
  BY <1>1, <1>2 DEF Aggregated, Value, Contributed

-----------------------------------------------------------------------------
(***************************************************************************)
(* The control of the calls: steps of one partition.                       *)
(***************************************************************************)
LEMMA PartnerOf ==
  ASSUME PairedPartitions, NEW p \in Partition
  PROVE  /\ \E q \in Partition : Partners(p, q)
         /\ \A q, x \in Partition : Partners(p, q) /\ Partners(p, x) => q = x
         /\ ContainerOf[p] \in Container /\ At(p) \in Host /\ p \in Active
  BY PageRankAssumption DEF PairedPartitions, Partners, At, Active

\* Calls that have not passed the barrier of the container work on the array the
\* round writes.
LEMMA EarlyTag ==
  ASSUME PairedPartitions, IInv, NEW p \in Partition, round > 0, ~Through(p)
  PROVE  Tag(p) = WriteTag(round)
  BY PartnerOf DEF IInv, Counting

\* A step that leaves the arrays and the rounds alone.
LEMMA DataFixed ==
  ASSUME IInv, UNCHANGED << app, arr, round >>,
         \A p \in Partition :
           phase'[p] \notin {"started", "computed"} => phase[p] \notin {"started", "computed"}
  PROVE  Kept' /\ Stored'
<1>1. Kept'
  BY DEF IInv, Kept, Contributed, Reach, ReadTag, WriteTag
<1>2. Stored'
  BY DEF IInv, Stored, Contributed, Reach, WriteTag
<1> QED
  BY <1>1, <1>2

\* The count of the finished needs its own variables only.
LEMMA CountingFixed ==
  ASSUME IInv, UNCHANGED << tagNew, finished, round >>,
         \A p \in Partition : /\ Through(p)' <=> Through(p)
                              /\ phase'[p] = "switching" <=> phase[p] = "switching"
  PROVE  Counting'
<1>1. \A p \in Partition : /\ phase'[p] \in {"switching", "closing", "replied"}
                                <=> phase[p] \in {"switching", "closing", "replied"}
                           /\ phase'[p] = "switching" <=> phase[p] = "switching"
  BY DEF Through
<1> QED
  BY <1>1 DEF IInv, Counting, Through, Tag, WriteTag, ReadTag

\* What was read stays read.
LEMMA ReadsFixed ==
  ASSUME IInv, UNCHANGED << app, round >>,
         \A p \in Partition : phase'[p] = "computed" => phase[p] = "computed" /\ held'[p] = held[p]
  PROVE  ReadsPreviousRound'
  BY DEF IInv, ReadsPreviousRound

\* What was sent stays sent.
LEMMA SentFixed ==
  ASSUME IInv, UNCHANGED << app, arr, round >>,
         \A p \in Partition : phase'[p] \notin {"started", "computed", "sending"} =>
           phase[p] \notin {"started", "computed", "sending"} /\ inflight'[p] = inflight[p]
  PROVE  Sent'
  BY DEF IInv, Sent, Contributed, Reach, WriteTag

\* A push goroutine reads the tag it will push with.
LEMMA PushStartsKeeps ==
  ASSUME PairedPartitions, IInv, NEW p \in Partition, NEW h \in Host, PushStarts(p, h)
  PROVE  IInv'
<1>1. /\ phase[p] # "replied" /\ h \in Remote(p) /\ pushTag[p][h] = NoTag
      /\ pushTag' = [pushTag EXCEPT ![p][h] = Tag(p)]
      /\ UNCHANGED << app, arr, tagNew, finished, phase, held, inflight, round, query >>
  BY DEF PushStarts
<1>2. Tag(p) \in {0, 1} /\ Tag(p) # NoTag
  BY PartnerOf, PageRankAssumption DEF IInv, Typed, Tag
<1>3. round > 0 => Tag(p) = WriteTag(round)
  <2>1. ~Through(p)
    BY <1>1 DEF IInv, Pushing, PushesStarted, Through
  <2> QED
    BY <2>1, EarlyTag
<1>4. Typed'
  BY <1>1, <1>2 DEF IInv, Typed, Cell
<1>5. /\ pushTag'[p][h] = Tag(p)
      /\ \A x \in Partition, g \in Host : x # p \/ g # h => pushTag'[x][g] = pushTag[x][g]
  BY <1>1 DEF IInv, Typed
<1>6. Pushing'
  <2> SUFFICES ASSUME NEW x \in Partition
               PROVE  /\ phase[x] = "replied" => \A g \in Host : pushTag'[x][g] = NoTag
                      /\ phase[x] \in {"started", "computed", "sending", "replied"} =>
                           \A g \in Host : inflight[x][g] = {}
                      /\ phase[x] \in {"finishing", "switching", "closing"} =>
                           \A g \in Remote(x) : pushTag'[x][g] # NoTag
                      /\ \A g \in Host : g = At(x) => inflight[x][g] = {}
                      /\ \A g \in Host : inflight[x][g] \subseteq Targets(x)
                      /\ round > 0 => \A g \in Host : pushTag'[x][g] \in {WriteTag(round), NoTag}
    BY <1>1 DEF Pushing, PushesStarted, Targets, WriteTag
  <2>1. phase[x] = "replied" => x # p
    BY <1>1
  <2>2. Remote(x) \subseteq Host
    BY DEF Remote
  <2> QED
    BY <1>2, <1>3, <1>5, <2>1, <2>2 DEF IInv, Pushing, PushesStarted
<1>7. Loading' /\ Counting'
  BY <1>1, CountingFixed DEF IInv, Loading, Tag, Through
<1>8. Kept' /\ Stored' /\ Sent' /\ ReadsPreviousRound'
  BY <1>1, DataFixed, SentFixed, ReadsFixed
<1> QED
  BY <1>4, <1>6, <1>7, <1>8 DEF IInv

\* A runner pushes its values.
LEMMA SendKeeps ==
  ASSUME PairedPartitions, IInv, NEW p \in Partition, Send(p)
  PROVE  IInv'
<1>1. /\ phase[p] = "sending" /\ PushesStarted(p)
      /\ inflight' = [inflight EXCEPT ![p] = [h \in Host |-> IF h \in Remote(p) THEN Targets(p) ELSE {}]]
      /\ UNCHANGED << app, arr, tagNew, finished, pushTag, held, round, query >>
  BY DEF Send
<1>2. PICK to \in {"closing", "finishing"} : /\ phase' = [phase EXCEPT ![p] = to]
                                             /\ to = "closing" <=> round = 0
  BY DEF Send
<1>3. Targets(p) \subseteq Partition /\ Reach(p) \subseteq Partition
  BY PageRankAssumption DEF Targets, Reach
<1>4. /\ phase'[p] = to
      /\ \A x \in Partition : x # p => phase'[x] = phase[x] /\ inflight'[x] = inflight[x]
      /\ \A h \in Host : h \in Remote(p) => inflight'[p][h] = Targets(p)
      /\ \A h \in Host : h \notin Remote(p) => inflight'[p][h] = {}
  BY <1>1, <1>2 DEF IInv, Typed
<1>5. Typed'
  <2>1. inflight' \in [Partition -> [Host -> SUBSET Partition]]
    BY <1>1, <1>3 DEF IInv, Typed
  <2>2. phase' \in [Partition -> Phases]
    BY <1>2 DEF IInv, Typed, Phases
  <2> QED
    BY <1>1, <2>1, <2>2 DEF IInv, Typed, Cell
<1>6. Pushing'
  <2> SUFFICES ASSUME NEW x \in Partition
               PROVE  /\ phase'[x] = "replied" => \A g \in Host : pushTag[x][g] = NoTag
                      /\ phase'[x] \in {"started", "computed", "sending", "replied"} =>
                           \A g \in Host : inflight'[x][g] = {}
                      /\ phase'[x] \in {"finishing", "switching", "closing"} => PushesStarted(x)
                      /\ \A g \in Host : g = At(x) => inflight'[x][g] = {}
                      /\ \A g \in Host : inflight'[x][g] \subseteq Targets(x)
                      /\ round > 0 => \A g \in Host : pushTag[x][g] \in {WriteTag(round), NoTag}
    BY <1>1 DEF Pushing, PushesStarted, Targets, WriteTag
  <2>1. CASE x = p
    BY <1>1, <1>4, <2>1 DEF IInv, Pushing, Remote
  <2>2. CASE x # p
    BY <1>4, <2>2 DEF IInv, Pushing
  <2> QED
    BY <2>1, <2>2
<1>7. round > 0 => to = "finishing"
  BY <1>2, RoundType DEF IInv
<1>8. Loading'
  BY <1>1, <1>2, <1>4 DEF IInv, Loading, Tag
<1>9. Counting'
  <2>1. CASE round > 0
    BY <1>1, <1>4, <1>7, <2>1, CountingFixed DEF Through
  <2>2. CASE ~(round > 0)
    BY <1>1, <2>2 DEF Counting
  <2> QED
    BY <2>1, <2>2
<1>10. Kept' /\ Stored' /\ ReadsPreviousRound'
  BY <1>1, <1>4, DataFixed, ReadsFixed
<1>11. Sent'
  <2>1. round > 0 => Reach(p) \subseteq Targets(p)
    BY RoundType DEF IInv, Reach, Targets
  <2>2. \A h \in Remote(p) : h \in Host
    BY DEF Remote
  <2> SUFFICES ASSUME round > 0, NEW x \in Partition,
                      phase'[x] \notin {"started", "computed", "sending"},
                      NEW h \in Remote(x), NEW v \in Reach(x)
               PROVE  v \in inflight'[x][h] \/ Contributed(h, WriteTag(round), v, x, round)
    BY <1>1 DEF Sent, Contributed, Reach, WriteTag
  <2>3. CASE x = p
    BY <1>4, <2>1, <2>2, <2>3
  <2>4. CASE x # p
    BY <1>4, <2>4 DEF IInv, Sent
  <2> QED
    BY <2>3, <2>4
<1> QED
  BY <1>5, <1>6, <1>8, <1>9, <1>10, <1>11 DEF IInv

\* A step that moves one call on and pushes nothing.
LEMMA PushingFixed ==
  ASSUME IInv, NEW p \in Partition, UNCHANGED << app, pushTag, inflight, round >>,
         \A x \in Partition : x # p => phase'[x] = phase[x],
         \/ /\ phase[p] \in {"started", "computed", "sending"}
            /\ phase'[p] \in {"started", "computed", "sending"}
         \/ /\ phase[p] \in {"finishing", "switching", "closing"}
            /\ phase'[p] \in {"finishing", "switching", "closing"}
  PROVE  Pushing'
<1> SUFFICES ASSUME NEW x \in Partition
             PROVE  /\ phase'[x] = "replied" => \A g \in Host : pushTag[x][g] = NoTag
                    /\ phase'[x] \in {"started", "computed", "sending", "replied"} =>
                         \A g \in Host : inflight[x][g] = {}
                    /\ phase'[x] \in {"finishing", "switching", "closing"} => PushesStarted(x)
                    /\ \A g \in Host : g = At(x) => inflight[x][g] = {}
                    /\ \A g \in Host : inflight[x][g] \subseteq Targets(x)
                    /\ round > 0 => \A g \in Host : pushTag[x][g] \in {WriteTag(round), NoTag}
  BY DEF Pushing, PushesStarted, Targets, WriteTag
<1>1. CASE x = p
  BY <1>1 DEF IInv, Pushing
<1>2. CASE x # p
  BY <1>2 DEF IInv, Pushing
<1> QED
  BY <1>1, <1>2

\* A runner answers the coordinator.
LEMMA ReplyKeeps ==
  ASSUME PairedPartitions, IInv, NEW p \in Partition, Reply(p)
  PROVE  IInv'
<1>1. /\ phase[p] = "closing" /\ PushesStarted(p) /\ \A h \in Host : inflight[p][h] = {}
      /\ phase' = [phase EXCEPT ![p] = "replied"]
      /\ pushTag' = [pushTag EXCEPT ![p] = [h \in Host |-> NoTag]]
      /\ UNCHANGED << app, arr, tagNew, finished, held, inflight, round, query >>
  BY PartnerOf DEF Reply, CalcOver, Answered
<1>2. /\ phase'[p] = "replied" /\ \A h \in Host : pushTag'[p][h] = NoTag
      /\ \A x \in Partition : x # p => phase'[x] = phase[x] /\ pushTag'[x] = pushTag[x]
  BY <1>1 DEF IInv, Typed
<1>3. Typed'
  <2>1. pushTag' \in [Partition -> [Host -> {0, 1, NoTag}]]
    BY <1>1 DEF IInv, Typed
  <2>2. phase' \in [Partition -> Phases]
    BY <1>1 DEF IInv, Typed, Phases
  <2> QED
    BY <1>1, <2>1, <2>2 DEF IInv, Typed, Cell
<1>4. Pushing'
  <2> SUFFICES ASSUME NEW x \in Partition
               PROVE  /\ phase'[x] = "replied" => \A g \in Host : pushTag'[x][g] = NoTag
                      /\ phase'[x] \in {"started", "computed", "sending", "replied"} =>
                           \A g \in Host : inflight[x][g] = {}
                      /\ phase'[x] \in {"finishing", "switching", "closing"} =>
                           \A g \in Remote(x) : pushTag'[x][g] # NoTag
                      /\ \A g \in Host : g = At(x) => inflight[x][g] = {}
                      /\ \A g \in Host : inflight[x][g] \subseteq Targets(x)
                      /\ round > 0 => \A g \in Host : pushTag'[x][g] \in {WriteTag(round), NoTag}
    BY <1>1 DEF Pushing, PushesStarted, Targets, WriteTag
  <2>1. CASE x = p
    BY <1>1, <1>2, <2>1 DEF IInv, Pushing
  <2>2. CASE x # p
    BY <1>2, <2>2 DEF IInv, Pushing, PushesStarted
  <2> QED
    BY <2>1, <2>2
<1>5. Loading'
  BY <1>1, <1>2 DEF IInv, Loading, Tag
<1>6. Counting'
  BY <1>1, <1>2, CountingFixed DEF Through
<1>7. Kept' /\ Stored' /\ Sent' /\ ReadsPreviousRound'
  BY <1>1, <1>2, DataFixed, SentFixed, ReadsFixed
<1> QED
  BY <1>3, <1>4, <1>5, <1>6, <1>7 DEF IInv

\* A runner reads the values of the previous round.
LEMMA ReadKeeps ==
  ASSUME PairedPartitions, IInv, NEW p \in Partition, Read(p)
  PROVE  IInv'
<1>1. /\ phase[p] = "started" /\ round > 0
      /\ held' = [held EXCEPT ![p] = [q \in Sources(p) |-> arr[At(p)][1 - Tag(p)][q]]]
      /\ phase' = [phase EXCEPT ![p] = "computed"]
      /\ UNCHANGED << app, arr, tagNew, finished, pushTag, inflight, round, query >>
  BY DEF Read
<1>2. /\ phase'[p] = "computed"
      /\ held'[p] = [q \in Sources(p) |-> arr[At(p)][1 - Tag(p)][q]]
      /\ \A x \in Partition : x # p => phase'[x] = phase[x] /\ held'[x] = held[x]
  BY <1>1 DEF IInv, Typed
<1>3. Typed'
  <2>1. phase' \in [Partition -> Phases] /\ held' = [x \in Partition |-> held'[x]]
    BY <1>1 DEF IInv, Typed, Phases
  <2> QED
    BY <1>1, <2>1 DEF IInv, Typed, Cell
<1>4. Pushing'
  BY <1>1, <1>2, PushingFixed
<1>5. Loading' /\ Counting'
  BY <1>1, <1>2, CountingFixed, RoundType DEF IInv, Loading, Through
<1>6. Kept' /\ Stored' /\ Sent'
  BY <1>1, <1>2, DataFixed, SentFixed
<1>7. ReadsPreviousRound'
  <2>1. 1 - Tag(p) = ReadTag(round)
    BY <1>1, EarlyTag DEF Through, ReadTag
  <2>2. At(p) \in Host
    BY PartnerOf
  <2>3. ASSUME NEW q \in InNeighbours(p)
        PROVE  /\ app = "pr" /\ (round > 1 \/ At(q) = At(p)) => held'[p][q] = { << round - 1, q >> }
               /\ app = "prpush" /\ round > 1 => << round - 1, q >> \in held'[p][p]
    <3>1. q \in Partition /\ p \in Out[q]
      BY DEF InNeighbours
    <3>2. \A v \in Reach(q) : round > 1 \/ (app = "pr" /\ At(p) = At(q)) =>
             Contributed(At(p), ReadTag(round), v, q, round - 1)
      BY <1>1, <2>2, <3>1 DEF IInv, Kept
    <3>3. CASE app = "pr"
      <4>1. q \in Reach(q) /\ q \in Sources(p)
        BY <3>3 DEF Reach, Sources
      <4>2. held'[p][q] = arr[At(p)][ReadTag(round)][q]
        BY <1>2, <2>1, <4>1
      <4> QED
        BY <3>2, <3>3, <4>1, <4>2 DEF Contributed
    <3>4. CASE app # "pr"
      <4>1. p \in Reach(q) /\ p \in Sources(p)
        BY <3>1, <3>4 DEF Reach, Sources
      <4>2. held'[p][p] = arr[At(p)][ReadTag(round)][p]
        BY <1>2, <2>1, <4>1
      <4> QED
        BY <3>2, <3>4, <4>1, <4>2 DEF Contributed
    <3> QED
      BY <3>3, <3>4
  <2>4. ASSUME NEW x \in Partition, x # p, phase'[x] = "computed", NEW q \in InNeighbours(x)
        PROVE  /\ app = "pr" /\ (round > 1 \/ At(q) = At(x)) => held'[x][q] = { << round - 1, q >> }
               /\ app = "prpush" /\ round > 1 => << round - 1, q >> \in held'[x][x]
    BY <1>2, <2>4 DEF IInv, ReadsPreviousRound
  <2> QED
    BY <1>1, <2>3, <2>4 DEF ReadsPreviousRound
<1> QED
  BY <1>3, <1>4, <1>5, <1>6, <1>7 DEF IInv

\* A runner is counted as finished.
LEMMA FinishKeeps ==
  ASSUME PairedPartitions, IInv, NEW p \in Partition, Finish(p)
  PROVE  IInv'
<1>1. PICK c \in Container : c = ContainerOf[p]
  BY PartnerOf
<1>2. PICK to \in {"switching", "closing"} :
        /\ phase[p] = "finishing"
        /\ finished' = [finished EXCEPT ![c] = @ + 1]
        /\ phase' = [phase EXCEPT ![p] = to]
        /\ to = "switching" <=> finished'[c] = 2
        /\ UNCHANGED << app, arr, tagNew, pushTag, held, inflight, round, query >>
  BY <1>1 DEF Finish, Switches
<1>3. /\ phase'[p] = to /\ finished'[c] = finished[c] + 1
      /\ \A x \in Partition : x # p => phase'[x] = phase[x]
      /\ \A d \in Container : d # c => finished'[d] = finished[d]
  BY <1>2 DEF IInv, Typed
<1>4. round > 0
  BY <1>2, RoundType DEF IInv, Loading
<1>5. PICK q \in Partition : Partners(p, q)
  BY PartnerOf
<1>6. ContainerOf[q] = c /\ ~Through(p) /\ phase'[q] = phase[q]
  BY <1>1, <1>2, <1>3, <1>5 DEF Partners, Through
<1>7. \/ finished[c] = 0 /\ ~Through(q) /\ Tag(p) = WriteTag(round)
      \/ /\ finished[c] = 1 /\ Through(q) /\ phase[q] # "switching" /\ Tag(p) = WriteTag(round)
  BY <1>1, <1>4, <1>5, <1>6 DEF IInv, Counting
<1>8. Typed'
  <2>1. finished' \in [Container -> 0 .. 2]
    <3>1. finished[c] + 1 \in 0 .. 2
      BY <1>7
    <3> QED
      BY <1>2, <3>1 DEF IInv, Typed
  <2>2. phase' \in [Partition -> Phases]
    BY <1>2 DEF IInv, Typed, Phases
  <2> QED
    BY <1>2, <2>1, <2>2 DEF IInv, Typed, Cell
<1>9. Pushing'
  BY <1>2, <1>3, PushingFixed
<1>10. Loading'
  BY <1>2, <1>4 DEF Loading
<1>11. Counting'
  <2>1. \/ /\ finished'[c] = 1 /\ Tag(p) = WriteTag(round)
           /\ phase'[p] = "closing" /\ phase'[q] \notin {"switching", "closing", "replied"}
        \/ /\ finished'[c] = 2 /\ Tag(p) = WriteTag(round)
           /\ phase'[p] = "switching" /\ phase'[q] \in {"closing", "replied"}
    BY <1>2, <1>3, <1>6, <1>7 DEF Through
  <2>2. Tag(q) = Tag(p)
    BY <1>1, <1>6 DEF Tag
  <2> SUFFICES ASSUME NEW x \in Partition, NEW y \in Partition, Partners(x, y)
               PROVE  \/ /\ finished'[ContainerOf[x]] = 0 /\ Tag(x) = WriteTag(round)
                         /\ ~Through(x)' /\ ~Through(y)'
                      \/ /\ finished'[ContainerOf[x]] = 1 /\ Tag(x) = WriteTag(round)
                         /\ Through(x)' <=> ~Through(y)'
                         /\ phase'[x] # "switching" /\ phase'[y] # "switching"
                      \/ /\ finished'[ContainerOf[x]] = 2 /\ Tag(x) = WriteTag(round)
                         /\ Through(x)' /\ Through(y)'
                         /\ phase'[x] = "switching" <=> phase'[y] # "switching"
                      \/ /\ finished'[ContainerOf[x]] = 0 /\ Tag(x) = ReadTag(round)
                         /\ Through(x)' /\ Through(y)'
                         /\ phase'[x] # "switching" /\ phase'[y] # "switching"
    BY <1>2 DEF Counting, Tag, WriteTag, ReadTag
  <2>3. CASE ContainerOf[x] = c
    <3>1. (x = p /\ y = q) \/ (x = q /\ y = p)
      <4>1. x = p \/ x = q
        BY <1>1, <1>5, <2>3, PartnerOf DEF Partners
      <4>2. Partners(p, y) \/ Partners(p, x)
        BY <1>1, <2>3 DEF Partners
      <4> QED
        BY <1>1, <1>5, <1>6, <2>3, <4>1, PartnerOf DEF Partners
    <3>2. CASE x = p /\ y = q
      BY <1>1, <2>1, <3>2 DEF Through
    <3>3. CASE x = q /\ y = p
      BY <1>6, <2>1, <2>2, <3>3 DEF Through
    <3> QED
      BY <3>1, <3>2, <3>3
  <2>4. CASE ContainerOf[x] # c
    <3>1. x # p /\ y # p /\ ContainerOf[x] \in Container
      BY <1>1, <2>4, PartnerOf DEF Partners
    <3>2. /\ phase'[x] = phase[x] /\ phase'[y] = phase[y]
          /\ finished'[ContainerOf[x]] = finished[ContainerOf[x]]
      BY <1>3, <2>4, <3>1
    <3> QED
      BY <1>4, <3>2 DEF IInv, Counting, Through
  <2> QED
    BY <2>3, <2>4
<1>12. Kept' /\ Stored' /\ Sent' /\ ReadsPreviousRound'
  BY <1>2, <1>3, DataFixed, SentFixed, ReadsFixed
<1> QED
  BY <1>8, <1>9, <1>10, <1>11, <1>12 DEF IInv

\* A container's second runner switches its arrays.
LEMMA SwitchKeeps ==
  ASSUME PairedPartitions, IInv, NEW p \in Partition, Switch(p)
  PROVE  IInv'
<1>1. PICK c \in Container : c = ContainerOf[p]
  BY PartnerOf
<1>2. /\ phase[p] = "switching"
      /\ tagNew' = [tagNew EXCEPT ![c] = 1 - @]
      /\ finished' = [finished EXCEPT ![c] = 0]
      /\ phase' = [phase EXCEPT ![p] = "closing"]
      /\ UNCHANGED << app, arr, pushTag, held, inflight, round, query >>
  BY <1>1 DEF Switch, Reset
<1>3. /\ phase'[p] = "closing" /\ finished'[c] = 0 /\ tagNew'[c] = 1 - tagNew[c]
      /\ \A x \in Partition : x # p => phase'[x] = phase[x]
      /\ \A d \in Container : d # c => finished'[d] = finished[d] /\ tagNew'[d] = tagNew[d]
  BY <1>2 DEF IInv, Typed
<1>4. round > 0
  BY <1>2, RoundType DEF IInv, Loading
<1>5. PICK q \in Partition : Partners(p, q)
  BY PartnerOf
<1>6. ContainerOf[q] = c /\ Through(p) /\ phase'[q] = phase[q]
  BY <1>1, <1>2, <1>3, <1>5 DEF Partners, Through
<1>7. Through(q) /\ phase[q] # "switching" /\ tagNew[c] = WriteTag(round)
  BY <1>1, <1>2, <1>4, <1>5, <1>6 DEF IInv, Counting, Tag
<1>8. Typed'
  <2>1. tagNew' \in [Container -> {0, 1}] /\ finished' \in [Container -> 0 .. 2]
    <3>1. PICK t \in {0, 1} : t = 1 - tagNew[c]
      <4>1. tagNew[c] \in {0, 1}
        BY DEF IInv, Typed
      <4> QED
        BY <4>1
    <3>2. tagNew' = [tagNew EXCEPT ![c] = t]
      BY <1>2, <3>1
    <3> QED
      BY <1>2, <3>2 DEF IInv, Typed
  <2>2. phase' \in [Partition -> Phases]
    BY <1>2 DEF IInv, Typed, Phases
  <2> QED
    BY <1>2, <2>1, <2>2 DEF IInv, Typed, Cell
<1>9. Pushing'
  BY <1>2, <1>3, PushingFixed
<1>10. Loading'
  BY <1>2, <1>4 DEF Loading
<1>11. Counting'
  <2>1. /\ tagNew'[c] = ReadTag(round) /\ phase'[p] = "closing"
        /\ phase'[q] \in {"closing", "replied"}
    BY <1>3, <1>6, <1>7 DEF ReadTag, Through
  <2> SUFFICES ASSUME NEW x \in Partition, NEW y \in Partition, Partners(x, y)
               PROVE  \/ /\ finished'[ContainerOf[x]] = 0
                         /\ tagNew'[ContainerOf[x]] = WriteTag(round)
                         /\ ~Through(x)' /\ ~Through(y)'
                      \/ /\ finished'[ContainerOf[x]] = 1
                         /\ tagNew'[ContainerOf[x]] = WriteTag(round)
                         /\ Through(x)' <=> ~Through(y)'
                         /\ phase'[x] # "switching" /\ phase'[y] # "switching"
                      \/ /\ finished'[ContainerOf[x]] = 2
                         /\ tagNew'[ContainerOf[x]] = WriteTag(round)
                         /\ Through(x)' /\ Through(y)'
                         /\ phase'[x] = "switching" <=> phase'[y] # "switching"
                      \/ /\ finished'[ContainerOf[x]] = 0
                         /\ tagNew'[ContainerOf[x]] = ReadTag(round)
                         /\ Through(x)' /\ Through(y)'
                         /\ phase'[x] # "switching" /\ phase'[y] # "switching"
    BY <1>2 DEF Counting, Tag, WriteTag, ReadTag
  <2>2. CASE ContainerOf[x] = c
    <3>1. (x = p /\ y = q) \/ (x = q /\ y = p)
      <4>1. x = p \/ x = q
        BY <1>1, <1>5, <2>2, PartnerOf DEF Partners
      <4>2. Partners(p, y) \/ Partners(p, x)
        BY <1>1, <2>2 DEF Partners
      <4> QED
        BY <1>1, <1>5, <1>6, <2>2, <4>1, PartnerOf DEF Partners
    <3> QED
      BY <1>3, <2>1, <2>2, <3>1 DEF Through
  <2>3. CASE ContainerOf[x] # c
    <3>1. x # p /\ y # p /\ ContainerOf[x] \in Container
      BY <1>1, <2>3, PartnerOf DEF Partners
    <3>2. /\ phase'[x] = phase[x] /\ phase'[y] = phase[y]
          /\ finished'[ContainerOf[x]] = finished[ContainerOf[x]]
          /\ tagNew'[ContainerOf[x]] = tagNew[ContainerOf[x]]
      BY <1>3, <2>3, <3>1
    <3> QED
      BY <1>4, <3>2 DEF IInv, Counting, Through, Tag
  <2> QED
    BY <2>2, <2>3
<1>12. Kept' /\ Stored' /\ Sent' /\ ReadsPreviousRound'
  BY <1>2, <1>3, DataFixed, SentFixed, ReadsFixed
<1> QED
  BY <1>8, <1>9, <1>10, <1>11, <1>12 DEF IInv

-----------------------------------------------------------------------------
(***************************************************************************)
(* Steps that write an array.                                              *)
(***************************************************************************)
LEMMA LoadKeeps ==
  ASSUME PairedPartitions, IInv, NEW p \in Partition, Load(p)
  PROVE  IInv'
<1>1. /\ phase[p] = "started" /\ round = 0
      /\ Store(p, 0, {p})
      /\ tagNew' = [tagNew EXCEPT ![ContainerOf[p]] = 1]
      /\ phase' = [phase EXCEPT ![p] = "sending"]
      /\ UNCHANGED << app, finished, pushTag, held, inflight, round, query >>
  BY DEF Load
<1>2. /\ phase'[p] = "sending"
      /\ \A x \in Partition : x # p => phase'[x] = phase[x]
      /\ tagNew'[ContainerOf[p]] = 1
      /\ \A x \in Partition : Tag(x) = 1 => tagNew'[ContainerOf[x]] = 1
  BY <1>1, PartnerOf DEF IInv, Typed, Tag
<1>3. Touched(p, At(p), 0, {p})
  BY <1>1, StoreTouches DEF IInv
<1>4. Typed'
  <2>1. /\ phase' \in [Partition -> Phases] /\ tagNew' \in [Container -> {0, 1}]
        /\ arr' \in [Host -> [{0, 1} -> [Partition -> Cell]]]
    BY <1>1, <1>3 DEF IInv, Typed, Phases, Touched
  <2> QED
    BY <1>1, <2>1 DEF IInv, Typed, Cell
<1>5. Pushing'
  BY <1>1, <1>2, PushingFixed
<1>6. Loading'
  BY <1>1, <1>2 DEF IInv, Loading, Tag
<1>7. Counting' /\ Kept' /\ Sent'
  BY <1>1 DEF Counting, Kept, Sent
<1>8. Stored'
  <2> SUFFICES ASSUME app = "pr", NEW x \in Partition, phase'[x] \notin {"started", "computed"},
                      NEW v \in Reach(x)
               PROVE  Contributed(At(x), 0, v, x, 0)'
    BY <1>1, TagZero DEF Stored, Contributed, Reach, WriteTag
  <2>1. At(x) \in Host /\ At(p) \in Host /\ {p} \subseteq Targets(p)
    BY <1>1, PartnerOf DEF Targets
  <2>2. CASE x = p
    <3>1. v \in {p}
      BY <2>2 DEF Reach
    <3> QED
      BY <1>1, <1>3, <2>1, <2>2, <3>1, TouchAdds DEF IInv
  <2>3. CASE x # p
    <3>1. Contributed(At(x), 0, v, x, 0)
      BY <1>1, <1>2, <2>3, TagZero DEF IInv, Stored
    <3> QED
      BY <1>1, <1>3, <2>1, <2>3, <3>1, TouchKeeps DEF IInv
  <2> QED
    BY <2>2, <2>3
<1>9. ReadsPreviousRound'
  BY <1>1, <1>2, ReadsFixed
<1> QED
  BY <1>4, <1>5, <1>6, <1>7, <1>8, <1>9 DEF IInv

\* A runner stores its values.
LEMMA WriteKeeps ==
  ASSUME PairedPartitions, IInv, NEW p \in Partition, Write(p)
  PROVE  IInv'
<1>1. /\ phase[p] = "computed"
      /\ Store(p, Tag(p), Targets(p))
      /\ held' = [held EXCEPT ![p] = << >>]
      /\ phase' = [phase EXCEPT ![p] = "sending"]
      /\ UNCHANGED << app, tagNew, finished, pushTag, inflight, round, query >>
  BY DEF Write
<1>2. /\ phase'[p] = "sending"
      /\ \A x \in Partition : x # p => phase'[x] = phase[x] /\ held'[x] = held[x]
  BY <1>1 DEF IInv, Typed
<1>3. PICK r \in Nat : r = round /\ r > 0
  BY <1>1, RoundType DEF IInv, Loading
<1>4. PICK w \in {0, 1} : w = WriteTag(r) /\ w # ReadTag(r) /\ Tag(p) = w
  BY <1>1, <1>3, EarlyTag, Parity DEF Through
<1>5. PICK T \in SUBSET Partition : T = Targets(p) /\ T = Reach(p)
  <2>1. Reach(p) \subseteq Partition
    BY PageRankAssumption DEF Reach
  <2>2. Targets(p) = Reach(p)
    BY <1>3 DEF Targets, Reach
  <2> QED
    BY <2>1, <2>2
<1>6. Touched(p, At(p), w, T)
  BY <1>1, <1>4, <1>5, StoreTouches DEF IInv
<1>7. Typed'
  <2>1. /\ phase' \in [Partition -> Phases] /\ held' = [x \in Partition |-> held'[x]]
        /\ arr' \in [Host -> [{0, 1} -> [Partition -> Cell]]]
    BY <1>1, <1>6 DEF IInv, Typed, Phases, Touched
  <2> QED
    BY <1>1, <2>1 DEF IInv, Typed, Cell
<1>8. Pushing'
  BY <1>1, <1>2, PushingFixed
<1>9. Loading' /\ Counting'
  BY <1>1, <1>2, <1>3, CountingFixed DEF Loading, Through
<1>10. At(p) \in Host /\ T \subseteq Targets(p) /\ \A x \in Partition : At(x) \in Host
  BY <1>5, PartnerOf
<1>11. Kept'
  <2> SUFFICES ASSUME NEW x \in Partition, NEW v \in Reach(x), NEW h \in Host,
                      round > 1 \/ (app = "pr" /\ h = At(x))
               PROVE  Contributed(h, ReadTag(r), v, x, r - 1)'
    BY <1>1, <1>3 DEF Kept, Contributed, Reach, ReadTag, WriteTag
  <2>1. Contributed(h, ReadTag(r), v, x, r - 1)
    BY <1>3 DEF IInv, Kept
  <2>2. ReadTag(r) \in {0, 1} /\ r - 1 \in Nat
    BY <1>3, Parity
  <2> QED
    BY <1>4, <1>6, <1>10, <2>1, <2>2, TouchKeeps DEF IInv
<1>12. Stored'
  <2> SUFFICES ASSUME NEW x \in Partition, phase'[x] \notin {"started", "computed"}, NEW v \in Reach(x)
               PROVE  Contributed(At(x), w, v, x, r)'
    BY <1>1, <1>3, <1>4 DEF Stored, Contributed, Reach, WriteTag
  <2>1. CASE x = p
    BY <1>3, <1>5, <1>6, <1>10, <2>1, TouchAdds DEF IInv
  <2>2. CASE x # p
    <3>1. Contributed(At(x), w, v, x, r)
      BY <1>2, <1>3, <1>4, <2>2 DEF IInv, Stored
    <3> QED
      BY <1>3, <1>6, <1>10, <2>2, <3>1, TouchKeeps DEF IInv
  <2> QED
    BY <2>1, <2>2
<1>13. Sent'
  <2> SUFFICES ASSUME NEW x \in Partition, phase'[x] \notin {"started", "computed", "sending"},
                      NEW h \in Remote(x), NEW v \in Reach(x), v \notin inflight[x][h]
               PROVE  Contributed(h, w, v, x, r)'
    BY <1>1, <1>3, <1>4 DEF Sent, Contributed, Reach, WriteTag
  <2>1. x # p /\ h \in Host
    BY <1>2 DEF Remote
  <2>2. Contributed(h, w, v, x, r)
    BY <1>2, <1>3, <1>4, <2>1 DEF IInv, Sent
  <2> QED
    BY <1>3, <1>6, <1>10, <2>1, <2>2, TouchKeeps DEF IInv
<1>14. ReadsPreviousRound'
  BY <1>1, <1>2, ReadsFixed
<1> QED
  BY <1>7, <1>8, <1>9, <1>11, <1>12, <1>13, <1>14 DEF IInv

\* A push reaches another host.
LEMMA DeliverKeeps ==
  ASSUME PairedPartitions, IInv, NEW p \in Partition, NEW h \in Host, NEW v \in Partition,
         Deliver(p, h, v)
  PROVE  IInv'
<1>1. /\ v \in inflight[p][h]
      /\ inflight' = [inflight EXCEPT ![p][h] = @ \ {v}]
      /\ UNCHANGED << app, tagNew, finished, phase, pushTag, held, round, query >>
  BY DEF Deliver
<1>2. /\ inflight'[p][h] = inflight[p][h] \ {v}
      /\ \A x \in Partition, g \in Host : x # p \/ g # h => inflight'[x][g] = inflight[x][g]
  BY <1>1 DEF IInv, Typed
<1>3. phase[p] \in {"finishing", "switching", "closing"} /\ h # At(p)
  BY <1>1 DEF IInv, Typed, Phases, Pushing
<1>4. PICK w \in {0, 1} : w = pushTag[p][h]
  BY <1>3 DEF IInv, Typed, Pushing, PushesStarted, Remote
<1>5. Touched(p, h, w, {v}) /\ {v} \subseteq Targets(p)
  BY <1>1, <1>4, DeliverTouches DEF IInv, Pushing
<1>6. PICK r \in Nat : r = round
  BY RoundType DEF IInv
<1>7. r > 0 => w = WriteTag(r) /\ w # ReadTag(r)
  BY <1>4, <1>6, PageRankAssumption, Parity DEF IInv, Pushing
<1>8. Typed'
  <2>1. /\ inflight' \in [Partition -> [Host -> SUBSET Partition]]
        /\ arr' \in [Host -> [{0, 1} -> [Partition -> Cell]]]
    BY <1>1, <1>5 DEF IInv, Typed, Touched
  <2> QED
    BY <1>1, <2>1 DEF IInv, Typed, Cell
<1>9. Pushing'
  <2> SUFFICES ASSUME NEW x \in Partition
               PROVE  /\ phase[x] = "replied" => \A g \in Host : pushTag[x][g] = NoTag
                      /\ phase[x] \in {"started", "computed", "sending", "replied"} =>
                           \A g \in Host : inflight'[x][g] = {}
                      /\ phase[x] \in {"finishing", "switching", "closing"} => PushesStarted(x)
                      /\ \A g \in Host : g = At(x) => inflight'[x][g] = {}
                      /\ \A g \in Host : inflight'[x][g] \subseteq Targets(x)
                      /\ round > 0 => \A g \in Host : pushTag[x][g] \in {WriteTag(round), NoTag}
    BY <1>1 DEF Pushing, PushesStarted, Targets, WriteTag
  <2>1. \A g \in Host : inflight'[x][g] \subseteq inflight[x][g]
    BY <1>2
  <2> QED
    BY <2>1 DEF IInv, Pushing
<1>10. Loading' /\ Counting' /\ ReadsPreviousRound'
  BY <1>1, CountingFixed, ReadsFixed DEF IInv, Loading, Tag, Through
<1>11. \A x \in Partition : At(x) \in Host
  BY PartnerOf
<1>12. Kept'
  <2> SUFFICES ASSUME r > 0, NEW x \in Partition, NEW y \in Reach(x), NEW g \in Host,
                      round > 1 \/ (app = "pr" /\ g = At(x))
               PROVE  Contributed(g, ReadTag(r), y, x, r - 1)'
    BY <1>1, <1>6 DEF Kept, Contributed, Reach, ReadTag, WriteTag
  <2>1. Contributed(g, ReadTag(r), y, x, r - 1)
    BY <1>6 DEF IInv, Kept
  <2>2. ReadTag(r) \in {0, 1} /\ r - 1 \in Nat
    BY Parity
  <2> QED
    BY <1>5, <1>7, <2>1, <2>2, TouchKeeps DEF IInv
<1>13. Stored'
  <2> SUFFICES ASSUME r > 0 \/ app = "pr", NEW x \in Partition,
                      phase[x] \notin {"started", "computed"}, NEW y \in Reach(x)
               PROVE  Contributed(At(x), WriteTag(r), y, x, r)'
    BY <1>1, <1>6 DEF Stored, Contributed, Reach, WriteTag
  <2>1. Contributed(At(x), WriteTag(r), y, x, r)
    BY <1>6 DEF IInv, Stored
  <2>2. WriteTag(r) \in {0, 1}
    BY Parity
  <2> QED
    BY <1>5, <1>6, <1>11, <2>1, <2>2, TouchKeeps DEF IInv
<1>14. Sent'
  <2> SUFFICES ASSUME r > 0, NEW x \in Partition,
                      phase[x] \notin {"started", "computed", "sending"},
                      NEW g \in Remote(x), NEW y \in Reach(x), y \notin inflight'[x][g]
               PROVE  Contributed(g, WriteTag(r), y, x, r)'
    BY <1>1, <1>6 DEF Sent, Contributed, Reach, WriteTag
  <2>1. g \in Host /\ WriteTag(r) \in {0, 1}
    BY Parity DEF Remote
  <2>2. CASE x = p /\ g = h /\ y = v
    BY <1>5, <1>6, <1>7, <2>2, TouchAdds DEF IInv
  <2>3. CASE ~(x = p /\ g = h /\ y = v)
    <3>1. y \notin inflight[x][g]
      BY <1>2, <2>1, <2>3
    <3>2. Contributed(g, WriteTag(r), y, x, r)
      BY <1>6, <3>1 DEF IInv, Sent
    <3> QED
      BY <1>5, <1>6, <2>1, <3>2, TouchKeeps DEF IInv
  <2> QED
    BY <2>2, <2>3
<1> QED
  BY <1>8, <1>9, <1>10, <1>12, <1>13, <1>14 DEF IInv

-----------------------------------------------------------------------------
(***************************************************************************)
(* The coordinator.                                                        *)
(***************************************************************************)

\* Behind the barrier of a round every container has switched.
LEMMA BarrierTags ==
  ASSUME PairedPartitions, IInv, Barrier, NEW c \in Container
  PROVE  finished[c] = 0 /\ tagNew[c] = WriteTag(round + 1)
<1>1. PICK p, q \in Partition : Partners(p, q) /\ ContainerOf[p] = c
  BY DEF PairedPartitions, Partners
<1>2. Through(p) /\ Through(q) /\ phase[p] = "replied" /\ phase[q] = "replied"
  BY DEF Barrier, Through
<1>3. CASE round = 0
  BY <1>1, <1>2, <1>3, TagZero DEF IInv, Loading, Tag
<1>4. CASE round > 0
  <2>1. finished[c] = 0 /\ tagNew[c] = ReadTag(round)
    BY <1>1, <1>2, <1>4 DEF IInv, Counting, Tag
  <2> QED
    BY <2>1, RoundType, Parity DEF IInv
<1> QED
  BY <1>3, <1>4, RoundType DEF IInv

\* The coordinator starts the next round.
LEMMA DispatchKeeps ==
  ASSUME PairedPartitions, IInv, Dispatch
  PROVE  IInv'
<1>1. /\ Barrier
      /\ phase' = [p \in Partition |-> "started"]
      /\ UNCHANGED << app, arr, tagNew, finished, pushTag, held, inflight, query >>
  BY DEF Dispatch, AllStarted
<1>2. PICK r \in Nat : r = round /\ r # RoundLimit[app] /\ round' = r + 1
  BY RoundType DEF Dispatch, RoundsDone, IInv
<1>3. \A p \in Partition : phase[p] = "replied" /\ phase'[p] = "started"
  BY <1>1 DEF Barrier
<1>4. Typed'
  <2>1. /\ phase' \in [Partition -> Phases] /\ round' \in 0 .. RoundLimit[app]
    <3>1. round' \in 0 .. RoundLimit[app]
      <4>1. PICK l \in Nat : l = RoundLimit[app]
        BY RoundType DEF IInv
      <4>2. r \in 0 .. l
        BY <1>2, <4>1 DEF IInv, Typed
      <4> QED
        BY <1>2, <4>1, <4>2
    <3>2. phase' \in [Partition -> Phases]
      BY <1>1 DEF Phases
    <3> QED
      BY <3>1, <3>2
  <2> QED
    BY <1>1, <2>1 DEF IInv, Typed, Cell
<1>5. Pushing'
  <2> SUFFICES ASSUME NEW x \in Partition, NEW g \in Host
               PROVE  pushTag[x][g] = NoTag /\ inflight[x][g] = {}
    BY <1>1, <1>3 DEF Pushing
  <2> QED
    BY <1>3 DEF IInv, Pushing
<1>6. Loading'
  BY <1>2 DEF Loading
<1>7. Counting'
  <2> SUFFICES ASSUME NEW p \in Partition, NEW q \in Partition, Partners(p, q)
               PROVE  /\ finished[ContainerOf[p]] = 0 /\ Tag(p) = WriteTag(round')
                      /\ ~Through(p)' /\ ~Through(q)'
    BY <1>1 DEF Counting, Tag, WriteTag
  <2> QED
    BY <1>1, <1>2, <1>3, PartnerOf, BarrierTags DEF Through, Tag
<1>8. Kept'
  <2> SUFFICES ASSUME NEW p \in Partition, NEW v \in Reach(p), NEW h \in Host,
                      r + 1 > 1 \/ (app = "pr" /\ h = At(p))
               PROVE  Contributed(h, ReadTag(r + 1), v, p, r + 1 - 1)
    BY <1>1, <1>2 DEF Kept, Contributed, Reach, ReadTag, WriteTag
  <2>1. ReadTag(r + 1) = WriteTag(r) /\ r + 1 - 1 = r
    BY Parity
  <2>2. CASE h = At(p)
    BY <1>2, <1>3, <2>1, <2>2 DEF IInv, Stored
  <2>3. CASE h # At(p)
    <3>1. h \in Remote(p) /\ r > 0 /\ inflight[p][h] = {}
      BY <1>3, <2>3 DEF Remote, IInv, Pushing
    <3> QED
      BY <1>2, <1>3, <2>1, <3>1 DEF IInv, Sent
  <2> QED
    BY <2>2, <2>3
<1>9. Stored' /\ Sent' /\ ReadsPreviousRound'
  BY <1>3 DEF Stored, Sent, ReadsPreviousRound
<1> QED
  BY <1>4, <1>5, <1>6, <1>7, <1>8, <1>9 DEF IInv

\* Cleared arrays are arrays.
LEMMA ZerosType == Zeros \in [Host -> [{0, 1} -> [Partition -> Cell]]]
<1>1. {} \in Cell
  BY DEF Cell
<1> QED
  BY <1>1 DEF Zeros

\* Another query starts on cleared arrays.
LEMMA NextQueryKeeps ==
  ASSUME PairedPartitions, IInv, NextQuery
  PROVE  IInv'
<1>1. /\ Barrier /\ query < MaxQuery
      /\ query' = query + 1 /\ round' = 0 /\ arr' = Zeros
      /\ phase' = [p \in Partition |-> "started"]
      /\ UNCHANGED << app, tagNew, finished, pushTag, held, inflight >>
  BY DEF NextQuery, AllStarted
<1>2. \A p \in Partition : phase[p] = "replied" /\ phase'[p] = "started"
  BY <1>1 DEF Barrier
<1>3. Typed'
  <2>1. /\ phase' \in [Partition -> Phases] /\ round' \in 0 .. RoundLimit[app]
        /\ query' \in 1 .. MaxQuery
    BY <1>1, RoundType, PageRankAssumption DEF IInv, Typed, Phases
  <2> QED
    BY <1>1, <2>1, ZerosType DEF IInv, Typed, Cell
<1>4. Pushing'
  <2> SUFFICES ASSUME NEW x \in Partition, NEW g \in Host
               PROVE  pushTag[x][g] = NoTag /\ inflight[x][g] = {}
    BY <1>1, <1>2 DEF Pushing
  <2> QED
    BY <1>2 DEF IInv, Pushing
<1>5. Loading'
  BY <1>1, <1>2, BarrierTags DEF Loading
<1>6. Counting' /\ Kept' /\ Stored' /\ Sent' /\ ReadsPreviousRound'
  BY <1>1, <1>2 DEF Counting, Kept, Stored, Sent, ReadsPreviousRound
<1> QED
  BY <1>3, <1>4, <1>5, <1>6 DEF IInv

-----------------------------------------------------------------------------
\* The invariant holds at the start.
LEMMA InitRanks == PairedPartitions /\ Init => IInv
<1> SUFFICES ASSUME PairedPartitions, Init PROVE IInv
  OBVIOUS
<1>1. \A p \in Partition : phase[p] = "started"
  BY DEF Init, AllStarted
<1>2. Typed
  <2>1. 0 \in 0 .. RoundLimit[app] /\ 1 \in 1 .. MaxQuery
    BY PageRankAssumption DEF Init
  <2>2. phase \in [Partition -> Phases]
    BY DEF Init, AllStarted, Phases
  <2> QED
    BY <2>1, <2>2, ZerosType DEF Init, Typed
<1>3. Pushing
  BY <1>1 DEF Init, Pushing
<1>4. Loading /\ Counting /\ Kept /\ Stored /\ Sent /\ ReadsPreviousRound
  BY <1>1 DEF Init, Loading, Counting, Kept, Stored, Sent, ReadsPreviousRound
<1> QED
  BY <1>2, <1>3, <1>4 DEF IInv

\* Every step keeps the invariant.
LEMMA RankStep == PairedPartitions /\ IInv /\ [Next]_vars => IInv'
<1> SUFFICES ASSUME PairedPartitions, IInv, [Next]_vars PROVE IInv'
  OBVIOUS
<1>1. ASSUME NEW p \in Partition, Executor(p)
      PROVE  IInv'
  <2>1. CASE Load(p) \/ Read(p) \/ Write(p) \/ Finish(p) \/ Switch(p) \/ Send(p) \/ Reply(p)
    BY <2>1, LoadKeeps, ReadKeeps, WriteKeeps, FinishKeeps, SwitchKeeps, SendKeeps, ReplyKeeps
  <2>2. ASSUME NEW h \in Host, PushStarts(p, h) \/ \E v \in Partition : Deliver(p, h, v)
        PROVE  IInv'
    BY <2>2, PushStartsKeeps, DeliverKeeps
  <2> QED
    BY <1>1, <2>1, <2>2 DEF Executor
<1>2. CASE Dispatch \/ NextQuery
  BY <1>2, DispatchKeeps, NextQueryKeeps
<1>3. CASE UNCHANGED vars
  <2>1. UNCHANGED << app, arr, tagNew, finished, phase, pushTag, held, inflight, round, query >>
    BY <1>3 DEF vars
  <2>2. Typed' /\ Loading'
    BY <2>1 DEF IInv, Typed, Cell, Loading, Tag
  <2>3. Pushing'
    BY <2>1 DEF IInv, Pushing, PushesStarted, Targets, WriteTag
  <2>4. Counting' /\ Kept' /\ Stored' /\ Sent' /\ ReadsPreviousRound'
    BY <2>1, CountingFixed, DataFixed, SentFixed, ReadsFixed DEF Through
  <2> QED
    BY <2>2, <2>3, <2>4 DEF IInv
<1> QED
  BY <1>1, <1>2, <1>3 DEF Next

-----------------------------------------------------------------------------
(***************************************************************************)
(* What the runs check.                                                    *)
(***************************************************************************)
\* Every reachable state has the inductive invariant, as long as the containers
\* have two partitions with edges each.
THEOREM RankInvariant == ASSUME PairedPartitions PROVE Spec => []IInv
<1>1. Init => IInv
  BY InitRanks
<1>2. IInv /\ [Next]_vars => IInv'
  BY RankStep
<1> QED
  BY <1>1, <1>2, PTL DEF Spec

\* Types of the arrays, the globals and the calls: in particular a container
\* never counts further than the 2 its switch waits for.
THEOREM RankTypeCorrect == ASSUME PairedPartitions PROVE Spec => []TypeOK
<1>1. IInv => TypeOK
  BY DEF IInv, Typed, TypeOK
<1> QED
  BY <1>1, RankInvariant, PTL

\* What a partition computes with comes from the round before, whatever the
\* executors of the containers and the pushes between hosts interleave.
THEOREM RanksReadPreviousRound == ASSUME PairedPartitions PROVE Spec => []ReadsPreviousRound
<1>1. IInv => ReadsPreviousRound
  BY DEF IInv
<1> QED
  BY <1>1, RankInvariant, PTL

\* When all have answered, all containers agree on the array of the next round,
\* also after any number of queries whose number of rounds was odd or even.
THEOREM ContainersAgreeOnTag == ASSUME PairedPartitions PROVE Spec => []TagsAgree
<1>1. IInv => TagsAgree
  BY BarrierTags DEF TagsAgree, WriteTag
<1> QED
  BY <1>1, RankInvariant, PTL
=============================================================================
