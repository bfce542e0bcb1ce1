--------------------------- MODULE GraphQueryProofs ---------------------------
(***************************************************************************)
(* Proofs about the life of queries: the vertex arrays that executors and  *)
(* remote pushes use through plain pointers are those of the query that    *)
(* called them, exist as long as they are used, and go when the query      *)
(* ends; the coordinator's calls implement SharedArray.  All of it for any *)
(* number of queries, sets, hosts and graphs, whether or not START_NODES   *)
(* repeats a key, and whether or not an unlocked map ends a process.       *)
(***************************************************************************)
EXTENDS GraphQuery, TLAPS

Idle == {"waiting", "done"}
Loaded == {"load", "round", "head"}

\* The query has allocated and not yet begun to clear.
Allocated == {"attach", "load", "round", "head", "flush"}

Present(q, h) == q \in pool[h] /\ segment[h][q] = "live"
Absent(q, h) == q \notin pool[h] /\ segment[h][q] # "live"

\* The types, with that of todo, which TypeOK bounds per stage only.
Callee == Host \cup Word \cup Executor
TypeInv == TypeOK /\ todo \in [Query -> SUBSET Callee]

\* At most one query of a set is between its start and its end; a query that
\* died keeps its set.
Apart == \A p, q \in Query : SetOf[p] = SetOf[q] /\ p # q =>
  stage[p] \in Idle \/ stage[q] \in Idle

\* The mapping that a graph refers to was made by a call for that graph.
OwnPool(e) ==
  /\ memPool[e] \in Word \X Query
  /\ GraphOf[memPool[e][1]] = e /\ memPool[e][1] \in Words(memPool[e][2])
Own == \A e \in Executor : memPool[e] # NoPool => OwnPool(e)

\* From attaching on the graphs of a query's keys refer to its arrays.
Refers(q, w) ==
  /\ memPool[GraphOf[w]] # NoPool /\ memPool[GraphOf[w]][2] = q
  /\ stage[q] # "flush" /\ calc[w] # "dead" => memPool[GraphOf[w]] \in attached
Referring == \A q \in Query : \A w \in Words(q) :
  \/ stage[q] \in Loaded \cup {"flush"}
  \/ stage[q] = "attach" /\ w \notin todo[q]
  => Refers(q, w)

\* A mapping that a graph refers to is that of a query under way: flushing
\* ends with none left.
UnderWay(q, e) ==
  /\ stage[q] \in Allocated \cup {"dead"}
  /\ stage[q] = "flush" => e \in todo[q]
Current == \A e \in Executor : memPool[e] \in attached => UnderWay(memPool[e][2], e)

\* Of the mappings of a graph that was flushed at least one is gone.
Freed(q, e) == \E w \in Word : GraphOf[w] = e /\ << w, q >> \notin attached
Freeing == \A q \in Query : \A e \in KeyGraphs(q) :
  \/ stage[q] \in {"clear", "done"}
  \/ stage[q] = "flush" /\ e \notin todo[q]
  => Freed(q, e)

\* A call runs for the query that has not got its answer, or died waiting for
\* it; every array that it may push to is there.
RunsFor(w, q) ==
  /\ q \in Query /\ w \in Words(q)
  /\ stage[q] \in {"load", "round", "dead"}
  /\ stage[q] # "dead" => w \in todo[q]
  /\ \A h \in Hosts(q) : Present(q, h)
Running == \A w \in Word : calc[w] = "running" =>
  memPool[GraphOf[w]] \in attached /\ RunsFor(w, memPool[GraphOf[w]][2])

\* Pushes are open only during a call, and to hosts of the query.
Pushing == \A w \in Word : \A h \in pushing[w] :
  calc[w] = "running" /\ h \in Hosts(memPool[GraphOf[w]][2])

\* Where the arrays of a query are, host by host.
Holding(q, h) ==
  \/ stage[q] \in Allocated
  \/ stage[q] = "alloc" /\ h \notin todo[q]
  \/ stage[q] = "clear" /\ h \in todo[q]
ArraysThere == \A q \in Query : \A h \in Hosts(q) : Holding(q, h) => Present(q, h)

Released(q, h) ==
  \/ h \notin Hosts(q) \/ stage[q] \in Idle
  \/ stage[q] = "alloc" /\ h \in todo[q]
  \/ stage[q] = "clear" /\ h \notin todo[q]
ArraysGone == \A q \in Query : \A h \in Host : Released(q, h) => Absent(q, h)

\* A segment that was removed is there as long as somebody has it attached.
Marked == \A q \in Query : \A h \in Host :
  segment[h][q] = "marked" => OnHost(attached, h, q)

\* The inductive invariant.
IInv == /\ TypeInv /\ Apart /\ Own /\ Referring /\ Current /\ Freeing
        /\ Running /\ Pushing /\ ArraysThere /\ ArraysGone /\ Marked

-----------------------------------------------------------------------------
(***************************************************************************)
(* What the assumption says of hosts, words and graphs, and what the       *)
(* coordinator does when an answer arrives.                                *)
(***************************************************************************)
\* What a set consists of does not change.
LEMMA Fixed ==
  /\ \A q : Words(q)' = Words(q) /\ Hosts(q)' = Hosts(q) /\ KeyGraphs(q)' = KeyGraphs(q)
  /\ \A e : Inmates(e)' = Inmates(e) /\ WordsIn(e)' = WordsIn(e)
  BY DEF Words, Hosts, KeyGraphs, Inmates, WordsIn

\* Words lead to graphs of the set, which are on its hosts.
LEMMA Places ==
  ASSUME NEW q \in Query
  PROVE  /\ Words(q) \subseteq Word /\ Hosts(q) \subseteq Host
         /\ KeyGraphs(q) \subseteq Executor /\ KeyGraphs(q) \subseteq Executors(q)
         /\ \A w \in Words(q) :
              /\ GraphOf[w] \in KeyGraphs(q) /\ HostOf[GraphOf[w]] \in Hosts(q)
<1>1. Words(q) \subseteq Word /\ Hosts(q) \subseteq Host
  BY QueryAssumption DEF Words, Hosts
<1>2. ASSUME NEW w \in Words(q)
      PROVE  /\ GraphOf[w] \in Executor /\ GraphOf[w] \in Executors(q)
             /\ GraphOf[w] \in KeyGraphs(q) /\ HostOf[GraphOf[w]] \in Hosts(q)
  <2>1. GraphOf[w] \in Executor
    BY <1>1, QueryAssumption
  <2>2. GraphOf[w] \in Executors(q)
    BY <1>1, QueryAssumption DEF Words, Executors
  <2>3. HostOf[GraphOf[w]] \in Hosts(q)
    BY <2>2, QueryAssumption DEF Executors, Hosts
  <2> QED
    BY <2>1, <2>2, <2>3 DEF KeyGraphs
<1>3. \A e \in KeyGraphs(q) : \E w \in Words(q) : e = GraphOf[w]
  BY DEF KeyGraphs
<1> QED
  BY <1>1, <1>2, <1>3

\* Every graph is on a host.
LEMMA GraphPlace ==
  ASSUME NEW w \in Word
  PROVE  GraphOf[w] \in Executor /\ HostOf[GraphOf[w]] \in Host
  BY QueryAssumption

\* The words that lead into the container of a query's graph are words of its set.
LEMMA Fellows ==
  ASSUME NEW q \in Query, NEW e \in Executors(q), e \in Executor, NEW w \in WordsIn(e)
  PROVE  w \in Words(q)
<1>1. w \in Word /\ GraphOf[w] \in Executor /\ ContainerOf[GraphOf[w]] = ContainerOf[e]
  BY DEF WordsIn, Inmates
<1>2. GraphOf[w] \in ExecutorsOf[SetOf[q]]
  BY <1>1, QueryAssumption DEF Executors
<1> QED
  BY <1>1, <1>2, QueryAssumption DEF Words

\* Two queries with a word in common run on the same set.
LEMMA SameSet ==
  ASSUME NEW p \in Query, NEW q \in Query, NEW w \in Words(p), w \in Words(q)
  PROVE  SetOf[p] = SetOf[q]
<1>1. GraphOf[w] \in ExecutorsOf[SetOf[p]] /\ GraphOf[w] \in ExecutorsOf[SetOf[q]]
  BY QueryAssumption, Places DEF Words
<1> QED
  BY <1>1, QueryAssumption

\* Of the queries that share a word only one is under way.
LEMMA OneAtATime ==
  ASSUME Apart, NEW p \in Query, NEW q \in Query, NEW w \in Words(p), w \in Words(q),
         stage[p] \notin Idle, stage[q] \notin Idle
  PROVE  p = q
  BY SameSet DEF Apart

\* So are they if they have a graph in common.
LEMMA OneOnGraph ==
  ASSUME Apart, NEW p \in Query, NEW q \in Query, NEW v \in Words(p), NEW w \in Words(q),
         GraphOf[v] = GraphOf[w], stage[p] \notin Idle, stage[q] \notin Idle
  PROVE  p = q
<1>1. v \in Words(q)
  BY QueryAssumption, Places DEF Words
<1> QED
  BY <1>1, OneAtATime

\* Every state of stage is one of ten.
LEMMA StageType ==
  ASSUME TypeInv, NEW q \in Query
  PROVE  /\ stage[q] \in {"waiting", "alloc", "attach", "load", "head", "round", "flush",
                          "clear", "done", "dead"}
         /\ stage[q] \in HostStages => todo[q] \subseteq Hosts(q)
         /\ stage[q] \in WordStages => todo[q] \subseteq Words(q)
         /\ stage[q] = "flush" => todo[q] \subseteq KeyGraphs(q)
         /\ stage[q] = "dead" => todo[q] \subseteq Hosts(q) \cup Words(q) \cup KeyGraphs(q)
         /\ stage[q] \in {"waiting", "head", "done"} => todo[q] = {}
  BY DEF TypeInv, TypeOK, Stages, HostStages, WordStages

\* A stage of a query calls local managers, or executors, or nobody.
LEMMA CalleesType ==
  ASSUME NEW q \in Query
  PROVE  /\ \A st : Callees(q, st) \subseteq Callee
         /\ Callees(q, "alloc") = Hosts(q) /\ Callees(q, "clear") = Hosts(q)
         /\ Callees(q, "attach") = Words(q) /\ Callees(q, "load") = Words(q)
         /\ Callees(q, "round") = Words(q) /\ Callees(q, "flush") = KeyGraphs(q)
         /\ Callees(q, "head") = {} /\ Callees(q, "done") = {}
  BY Places DEF Callees, Callee, HostStages, WordStages

\* Entering a stage.
Moved(q) ==
  /\ stage' \in [Query -> Stages] /\ todo' \in [Query -> SUBSET Callee]
  /\ \A p \in Query : p # q => stage'[p] = stage[p] /\ todo'[p] = todo[p]
LEMMA EnterFacts ==
  ASSUME TypeInv, NEW q \in Query, NEW st \in Stages, Enter(q, st)
  PROVE  Moved(q) /\ stage'[q] = st /\ todo'[q] = Callees(q, st)
<1>1. Callees(q, st) \subseteq Callee
  BY CalleesType
<1> QED
  BY <1>1 DEF TypeInv, TypeOK, Enter, Moved

\* An answer ends the stage or is taken off the list.
LEMMA AnswerFacts ==
  ASSUME TypeInv, NEW q \in Query, NEW x \in todo[q], NEW next \in Stages,
         Answer(q, x, next)
  PROVE  /\ Moved(q)
         /\ \/ todo[q] = {x} /\ stage'[q] = next /\ todo'[q] = Callees(q, next)
            \/ todo[q] # {x} /\ stage'[q] = stage[q] /\ todo'[q] = todo[q] \ {x}
<1>1. CASE todo[q] = {x}
  <2>1. Enter(q, next)
    BY <1>1 DEF Answer, LastAnswer
  <2> QED
    BY <1>1, <2>1, EnterFacts
<1>2. CASE todo[q] # {x}
  <2>1. todo' = [todo EXCEPT ![q] = @ \ {x}] /\ stage' = stage
    BY <1>2 DEF Answer, LastAnswer
  <2> QED
    BY <1>2, <2>1 DEF TypeInv, TypeOK, Moved
<1> QED
  BY <1>1, <1>2

\* A step of q that leaves the executors and the hosts alone, and q's claims to
\* graphs and arrays.
LEMMA MovedTypes ==
  ASSUME TypeInv, NEW q \in Query, Moved(q),
         todo'[q] \subseteq IF stage'[q] \in HostStages THEN Hosts(q)
                            ELSE IF stage'[q] \in WordStages THEN Words(q)
                            ELSE IF stage'[q] = "flush" THEN KeyGraphs(q) ELSE {},
         stage'[q] # "dead"
  PROVE  /\ stage' \in [Query -> Stages] /\ todo' \in [Query -> SUBSET Callee]
         /\ \A p \in Query :
              todo'[p] \subseteq
                IF stage'[p] \in HostStages THEN Hosts(p)
                ELSE IF stage'[p] \in WordStages THEN Words(p)
                ELSE IF stage'[p] = "flush" THEN KeyGraphs(p)
                ELSE IF stage'[p] = "dead" THEN Hosts(p) \cup Words(p) \cup KeyGraphs(p)
                ELSE {}
<1> SUFFICES ASSUME NEW p \in Query
             PROVE  todo'[p] \subseteq
                IF stage'[p] \in HostStages THEN Hosts(p)
                ELSE IF stage'[p] \in WordStages THEN Words(p)
                ELSE IF stage'[p] = "flush" THEN KeyGraphs(p)
                ELSE IF stage'[p] = "dead" THEN Hosts(p) \cup Words(p) \cup KeyGraphs(p)
                ELSE {}
  BY DEF Moved
<1>1. CASE p = q
  BY <1>1, Zenon
<1>2. CASE p # q
  <2>1. stage'[p] = stage[p] /\ todo'[p] = todo[p]
    BY <1>2 DEF Moved
  <2>2. todo[p] \subseteq
          IF stage[p] \in HostStages THEN Hosts(p)
          ELSE IF stage[p] \in WordStages THEN Words(p)
          ELSE IF stage[p] = "flush" THEN KeyGraphs(p)
          ELSE IF stage[p] = "dead" THEN Hosts(p) \cup Words(p) \cup KeyGraphs(p)
          ELSE {}
    BY DEF TypeInv, TypeOK
  <2> QED
    BY <2>1, <2>2
<1> QED
  BY <1>1, <1>2

\* The mapping a graph refers to is that of a word and a query.
LEMMA MappedBy ==
  ASSUME IInv, NEW e \in Executor, memPool[e] \in attached
  PROVE  /\ memPool[e] # NoPool /\ memPool[e][1] \in Word /\ memPool[e][2] \in Query
         /\ memPool[e] = << memPool[e][1], memPool[e][2] >>
         /\ GraphOf[memPool[e][1]] = e /\ memPool[e][1] \in Words(memPool[e][2])
         /\ UnderWay(memPool[e][2], e)
<1>1. memPool[e] # NoPool
  BY QueryAssumption DEF IInv, TypeInv, TypeOK
<1>2. OwnPool(e)
  BY <1>1 DEF IInv, Own
<1> QED
  BY <1>1, <1>2 DEF OwnPool, IInv, Current

\* A step of one query concerns the claims of that query only.
LEMMA CurrentCarries ==
  ASSUME IInv, NEW q \in Query, Moved(q), memPool' = memPool, attached' \subseteq attached,
         \A e \in Executor : memPool[e] \in attached' /\ memPool[e][2] = q => UnderWay(q, e)'
  PROVE  Current'
<1> SUFFICES ASSUME NEW e \in Executor, memPool[e] \in attached'
             PROVE  UnderWay(memPool[e][2], e)'
  BY DEF Current
<1>1. memPool[e][2] \in Query /\ UnderWay(memPool[e][2], e)
  BY MappedBy
<1>2. CASE memPool[e][2] # q
  <2>1. /\ stage'[memPool[e][2]] = stage[memPool[e][2]]
        /\ todo'[memPool[e][2]] = todo[memPool[e][2]]
    BY <1>1, <1>2 DEF Moved
  <2> QED
    BY <1>1, <2>1 DEF UnderWay
<1> QED
  BY <1>2

\* So it is with the calls that run.
LEMMA RunningCarries ==
  ASSUME IInv, NEW q \in Query, Moved(q), memPool' = memPool, attached' = attached,
         \A w \in Word : calc'[w] = "running" => calc[w] = "running",
         \A p \in Query : \A h \in Hosts(p) : p # q /\ Present(p, h) => Present(p, h)',
         \A w \in Word : calc'[w] = "running" /\ memPool[GraphOf[w]][2] = q
           => RunsFor(w, q)'
  PROVE  Running'
<1> SUFFICES ASSUME NEW w \in Word, calc'[w] = "running"
             PROVE  /\ memPool[GraphOf[w]] \in attached
                    /\ RunsFor(w, memPool[GraphOf[w]][2])'
  BY DEF Running
<1>1. memPool[GraphOf[w]] \in attached /\ RunsFor(w, memPool[GraphOf[w]][2])
  BY DEF IInv, Running
<1>2. PICK p : p = memPool[GraphOf[w]][2]
  OBVIOUS
<1>3. RunsFor(w, p) /\ p \in Query
  BY <1>1, <1>2 DEF RunsFor
<1>4. RunsFor(w, p)'
  <2>1. CASE p # q
    <3>1. stage'[p] = stage[p] /\ todo'[p] = todo[p]
      BY <1>3, <2>1 DEF Moved
    <3>2. \A h \in Hosts(p) : Present(p, h)'
      BY <1>3, <2>1 DEF RunsFor
    <3> QED
      BY <1>3, <3>1, <3>2, Fixed DEF RunsFor
  <2> QED
    BY <1>2, <2>1
<1>5. p = memPool'[GraphOf[w]][2]
  BY <1>2
<1> QED
  BY <1>1, <1>2, <1>4

-----------------------------------------------------------------------------
(***************************************************************************)
(* Every action keeps the invariant.                                       *)
(***************************************************************************)
\* Nobody refers to anything, and no array is there.
LEMMA InitKeeps ==
  ASSUME Init
  PROVE  IInv
<1>1. TypeInv
  BY QueryAssumption DEF Init, TypeInv, TypeOK, Stages, HostStages, WordStages
<1>2. Apart
  BY DEF Init, Apart, Idle
<1>3. Own /\ Running /\ Pushing
  BY DEF Init, Own, Running, Pushing
<1>4. Current
  BY DEF Init, Current
<1>5. Referring /\ Freeing
  BY Places DEF Init, Referring, Freeing, Loaded
<1>6. ArraysThere
  BY Places DEF Init, ArraysThere, Holding, Allocated
<1>7. ArraysGone /\ Marked
  BY DEF Init, ArraysGone, Absent, Marked
<1> QED
  BY <1>1, <1>2, <1>3, <1>4, <1>5, <1>6, <1>7 DEF IInv

\* A query whose set no other query uses starts to run.
LEMMA RunKeeps ==
  ASSUME IInv, NEW q \in Query, Run(q)
  PROVE  IInv'
<1>1. Moved(q) /\ stage'[q] = "alloc" /\ todo'[q] = Hosts(q)
  <2>1. "alloc" \in Stages
    BY DEF Stages, HostStages
  <2> QED
    BY <2>1, EnterFacts, CalleesType DEF IInv, Run
<1>2. /\ stage[q] = "waiting"
      /\ \A p \in Query : SetOf[p] = SetOf[q] => stage[p] \in Idle
  BY DEF Run, Idle
<1>3. UNCHANGED << round, active, calc, memPool, attached, pushing, pool, segment, down >>
  BY DEF Run, executorVars, hostVars
<1>4. TypeInv'
  BY <1>1, <1>3, MovedTypes, Fixed DEF IInv, TypeInv, TypeOK, HostStages
<1>5. Apart'
  BY <1>1, <1>2 DEF IInv, Apart, Idle, Moved
<1>6. Own'
  BY <1>3, Fixed DEF IInv, Own, OwnPool
<1>7. Referring'
  BY <1>1, <1>3, Fixed DEF IInv, Referring, Refers, Loaded, Moved
<1>8. Current'
  BY <1>1, <1>2, <1>3, CurrentCarries DEF IInv, Current, UnderWay, Allocated
<1>9. Freeing'
  <2>1. ASSUME NEW p \in Query, NEW e
        PROVE  Freed(p, e)' <=> Freed(p, e)
    BY <1>3 DEF Freed
  <2> QED
    BY <1>1, <2>1, Fixed DEF IInv, Freeing, Moved
<1>10. Running'
  BY <1>1, <1>2, <1>3, Fixed DEF IInv, Running, RunsFor, Present, Moved
<1>11. Pushing'
  BY <1>3, Fixed DEF IInv, Pushing
<1>12. ArraysThere'
  BY <1>1, <1>3, Fixed DEF IInv, ArraysThere, Holding, Present, Allocated, Moved
<1>13. ArraysGone'
  BY <1>1, <1>2, <1>3, Fixed DEF IInv, ArraysGone, Released, Absent, Idle, Moved
<1>14. Marked'
  BY <1>3 DEF IInv, Marked, OnHost
<1> QED
  BY <1>4, <1>5, <1>6, <1>7, <1>8, <1>9, <1>10, <1>11, <1>12, <1>13, <1>14 DEF IInv

\* A local manager allocates the arrays of the query.
LEMMA AllocateMemKeeps ==
  ASSUME IInv, NEW q \in Query, NEW h \in Host, AllocateMem(q, h)
  PROVE  IInv'
<1>1. /\ stage[q] = "alloc" /\ h \in todo[q]
      /\ UNCHANGED << round, active, calc, memPool, attached, pushing, down >>
  BY DEF AllocateMem, Calling, executorVars
<1>2. /\ Moved(q)
      /\ \/ todo[q] = {h} /\ stage'[q] = "attach" /\ todo'[q] = Words(q)
         \/ todo[q] # {h} /\ stage'[q] = "alloc" /\ todo'[q] = todo[q] \ {h}
  <2>1. "attach" \in Stages
    BY DEF Stages, WordStages
  <2>2. TypeInv /\ Answer(q, h, "attach")
    BY DEF AllocateMem, IInv
  <2> QED
    BY <1>1, <2>1, <2>2, AnswerFacts, CalleesType
<1>3. /\ pool' \in [Host -> SUBSET Query]
      /\ segment' \in [Host -> [Query -> {"none", "live", "marked"}]]
      /\ \A p \in Query : \A g \in Host :
           /\ Present(p, g) => Present(p, g)'
           /\ p # q \/ g # h => (Absent(p, g) => Absent(p, g)')
           /\ segment'[g][p] = "marked" => segment[g][p] = "marked"
      /\ Present(q, h)'
  <2>1. /\ pool \in [Host -> SUBSET Query]
        /\ segment \in [Host -> [Query -> {"none", "live", "marked"}]]
    BY DEF IInv, TypeInv, TypeOK
  <2>2. /\ pool' = [pool EXCEPT ![h] = @ \cup {q}]
        /\ segment' = [segment EXCEPT ![h][q] = "live"]
    BY DEF AllocateMem
  <2>3. /\ pool' \in [Host -> SUBSET Query]
        /\ \A g \in Host : pool'[g] = IF g = h THEN pool[g] \cup {q} ELSE pool[g]
    BY <2>1, <2>2
  <2>4. /\ segment' \in [Host -> [Query -> {"none", "live", "marked"}]]
        /\ \A p \in Query : \A g \in Host :
             segment'[g][p] = IF g = h /\ p = q THEN "live" ELSE segment[g][p]
    BY <2>1, <2>2
  <2> QED
    BY <2>3, <2>4 DEF Present, Absent
<1>4. h \in Hosts(q) /\ todo[q] \subseteq Hosts(q)
  BY <1>1, StageType DEF IInv, HostStages
<1>5. TypeInv'
  BY <1>1, <1>2, <1>3, <1>4, MovedTypes, Fixed DEF IInv, TypeInv, TypeOK, HostStages, WordStages
<1>6. Apart'
  BY <1>1, <1>2 DEF IInv, Apart, Idle, Moved
<1>7. Own'
  BY <1>1, Fixed DEF IInv, Own, OwnPool
<1>8. Referring'
  BY <1>1, <1>2, Fixed DEF IInv, Referring, Refers, Loaded, Moved
<1>9. Current'
  BY <1>1, <1>2, CurrentCarries DEF IInv, Current, UnderWay, Allocated
<1>10. Freeing'
  BY <1>1, <1>2, Fixed DEF IInv, Freeing, Freed, Moved
<1>11. Running'
  <2>1. \A w \in Word : calc[w] = "running" => memPool[GraphOf[w]][2] # q
    BY <1>1 DEF IInv, Running, RunsFor
  <2>2. \A p \in Query : \A g \in Hosts(p) : Present(p, g) => Present(p, g)'
    BY <1>3, Places
  <2> QED
    BY <1>1, <1>2, <2>1, <2>2, RunningCarries
<1>12. Pushing'
  BY <1>1, Fixed DEF IInv, Pushing
<1>13. ArraysThere'
  <2> SUFFICES ASSUME NEW p \in Query, NEW g \in Hosts(p), Holding(p, g)'
               PROVE  Present(p, g)'
    BY Fixed DEF ArraysThere
  <2>1. Present(p, g) \/ (p = q /\ g = h)
    <3>1. CASE p = q
      <4>1. g \in Hosts(q) /\ (g \in todo[q] => g = h)
        BY <1>2, <3>1 DEF Holding, Allocated
      <4> QED
        BY <1>1, <3>1, <4>1 DEF IInv, ArraysThere, Holding
    <3>2. CASE p # q
      BY <1>2, <3>2 DEF IInv, ArraysThere, Holding, Moved
    <3> QED
      BY <3>1, <3>2
  <2> QED
    BY <1>3, <2>1, Places
<1>14. ArraysGone'
  <2> SUFFICES ASSUME NEW p \in Query, NEW g \in Host, Released(p, g)'
               PROVE  Absent(p, g)'
    BY DEF ArraysGone
  <2>1. Absent(p, g) /\ (p # q \/ g # h)
    BY <1>1, <1>2, <1>4, Fixed DEF IInv, ArraysGone, Released, Idle, Moved
  <2> QED
    BY <1>3, <2>1
<1>15. Marked'
  BY <1>1, <1>3 DEF IInv, Marked, OnHost
<1> QED
  BY <1>5, <1>6, <1>7, <1>8, <1>9, <1>10, <1>11, <1>12, <1>13, <1>14, <1>15 DEF IInv

\* A call attaches the arrays; the graph refers to the mapping of its last call.
LEMMA LoadMemPoolKeeps ==
  ASSUME IInv, NEW q \in Query, NEW w \in Words(q), LoadMemPool(q, w)
  PROVE  IInv'
<1>1. /\ stage[q] = "attach" /\ w \in todo[q]
      /\ UNCHANGED << round, active, calc, pushing, pool, down >>
  BY DEF LoadMemPool, Calling
<1>2. /\ Moved(q)
      /\ \/ todo[q] = {w} /\ stage'[q] = "load" /\ todo'[q] = Words(q)
         \/ todo[q] # {w} /\ stage'[q] = "attach" /\ todo'[q] = todo[q] \ {w}
  <2>1. "load" \in Stages
    BY DEF Stages, WordStages
  <2>2. TypeInv /\ Answer(q, w, "load")
    BY DEF LoadMemPool, IInv
  <2> QED
    BY <1>1, <2>1, <2>2, AnswerFacts, CalleesType
<1>3. w \in Word /\ todo[q] \subseteq Words(q)
  BY <1>1, StageType, Places DEF IInv, WordStages
<1>4. PICK e \in Executor : e = GraphOf[w] /\ HostOf[e] \in Host /\ HostOf[e] \in Hosts(q)
  BY <1>3, GraphPlace, Places
<1>5. /\ memPool' \in [Executor -> (Word \X Query) \cup {NoPool}] /\ memPool'[e] = << w, q >>
      /\ \A f \in Executor : f # e => memPool'[f] = memPool[f]
      /\ attached' = attached \cup {<< w, q >>}
  BY <1>3, <1>4 DEF LoadMemPool, IInv, TypeInv, TypeOK
<1>6. segment' = segment
  <2>1. segment' = [segment EXCEPT ![HostOf[e]][q] = "live"]
    BY <1>4 DEF LoadMemPool
  <2>2. segment \in [Host -> [Query -> {"none", "live", "marked"}]]
    BY DEF IInv, TypeInv, TypeOK
  <2>3. Present(q, HostOf[e])
    BY <1>1, <1>4 DEF IInv, ArraysThere, Holding, Allocated
  <2> QED
    BY <1>4, <2>1, <2>2, <2>3 DEF Present
<1>7. ASSUME NEW p \in Query, NEW v \in Words(p), GraphOf[v] = e, p # q
      PROVE  stage[p] \in Idle
  BY <1>1, <1>4, <1>7, OneOnGraph DEF IInv, Idle
<1>8. ASSUME NEW v \in Word, GraphOf[v] = e
      PROVE  calc[v] # "running"
  BY <1>1, <1>7, <1>8 DEF IInv, Running, RunsFor, Idle
<1>9. TypeInv'
  <2>1. attached' \subseteq Word \X Query
    BY <1>3, <1>5 DEF IInv, TypeInv, TypeOK
  <2> QED
    BY <1>1, <1>2, <1>3, <1>5, <1>6, <2>1, MovedTypes, Fixed
       DEF IInv, TypeInv, TypeOK, HostStages, WordStages
<1>10. Apart'
  BY <1>1, <1>2 DEF IInv, Apart, Idle, Moved
<1>11. Own'
  <2> SUFFICES ASSUME NEW f \in Executor, memPool'[f] # NoPool
               PROVE  OwnPool(f)'
    BY DEF Own
  <2>1. CASE f = e
    BY <1>3, <1>4, <1>5, <2>1, Fixed DEF OwnPool
  <2>2. CASE f # e
    BY <1>5, <2>2, Fixed DEF IInv, Own, OwnPool
  <2> QED
    BY <2>1, <2>2
<1>12. Referring'
  <2> SUFFICES ASSUME NEW p \in Query, NEW v \in Words(p),
                      \/ stage'[p] \in Loaded \cup {"flush"}
                      \/ stage'[p] = "attach" /\ v \notin todo'[p]
               PROVE  Refers(p, v)'
    BY Fixed DEF Referring
  <2>1. CASE GraphOf[v] = e
    <3>1. p = q
      BY <1>2, <1>7, <2>1 DEF Idle, Loaded, Moved
    <3>2. << w, q >> # NoPool
      BY <1>3, QueryAssumption
    <3> QED
      BY <1>5, <2>1, <3>1, <3>2 DEF Refers
  <2>2. CASE GraphOf[v] # e
    <3>1. Refers(p, v) /\ (stage'[p] # "flush" => stage[p] # "flush")
      <4>1. CASE p = q
        BY <1>1, <1>2, <1>4, <2>2, <4>1 DEF IInv, Referring
      <4>2. CASE p # q
        BY <1>2, <4>2 DEF IInv, Referring, Moved
      <4> QED
        BY <4>1, <4>2
    <3>2. GraphOf[v] \in Executor
      BY GraphPlace, Places
    <3> QED
      BY <1>1, <1>5, <2>2, <3>1, <3>2 DEF Refers
  <2> QED
    BY <2>1, <2>2
<1>13. Current'
  <2> SUFFICES ASSUME NEW f \in Executor, memPool'[f] \in attached',
                      NEW p, p = memPool'[f][2]
               PROVE  UnderWay(p, f)'
    BY DEF Current, UnderWay
  <2>1. CASE f = e
    BY <1>2, <1>5, <2>1 DEF UnderWay, Allocated
  <2>2. CASE f # e
    <3>1. memPool'[f] = memPool[f]
      BY <1>5, <2>2
    <3>2. memPool[f] # << w, q >>
      <4>1. ASSUME memPool[f] = << w, q >>
            PROVE  FALSE
        <5>1. memPool[f] # NoPool
          BY <1>3, <4>1, QueryAssumption
        <5>2. OwnPool(f)
          BY <5>1 DEF IInv, Own
        <5> QED
          BY <1>4, <2>2, <4>1, <5>2 DEF OwnPool
      <4> QED
        BY <4>1
    <3>3. memPool[f] \in attached
      BY <1>5, <3>1, <3>2
    <3>4. p \in Query /\ UnderWay(p, f)
      BY <3>1, <3>3, MappedBy
    <3> QED
      BY <1>2, <3>4 DEF UnderWay, Allocated, Moved
  <2> QED
    BY <2>1, <2>2
<1>14. Freeing'
  <2> SUFFICES ASSUME NEW p \in Query, NEW f \in KeyGraphs(p),
                      \/ stage'[p] \in {"clear", "done"}
                      \/ stage'[p] = "flush" /\ f \notin todo'[p]
               PROVE  Freed(p, f)'
    BY Fixed DEF Freeing
  <2>1. p # q
    BY <1>2
  <2>2. Freed(p, f)
    BY <1>2, <2>1 DEF IInv, Freeing, Moved
  <2> QED
    BY <1>5, <2>1, <2>2 DEF Freed
<1>15. Running'
  <2> SUFFICES ASSUME NEW v \in Word, calc[v] = "running",
                      NEW p, p = memPool'[GraphOf[v]][2]
               PROVE  memPool'[GraphOf[v]] \in attached' /\ RunsFor(v, p)'
    BY <1>1 DEF Running, RunsFor
  <2>1. memPool'[GraphOf[v]] = memPool[GraphOf[v]]
    BY <1>5, <1>8, GraphPlace
  <2>2. memPool[GraphOf[v]] \in attached /\ RunsFor(v, p)
    BY <2>1 DEF IInv, Running
  <2>3. p \in Query /\ p # q
    BY <1>1, <2>2 DEF RunsFor
  <2>4. RunsFor(v, p)'
    BY <1>1, <1>2, <1>6, <2>2, <2>3, Fixed DEF RunsFor, Present, Moved
  <2> QED
    BY <1>5, <2>1, <2>2, <2>4
<1>16. Pushing'
  <2> SUFFICES ASSUME NEW v \in Word, NEW h \in pushing[v]
               PROVE  calc[v] = "running" /\ h \in Hosts(memPool'[GraphOf[v]][2])
    BY <1>1, Fixed DEF Pushing
  <2>1. calc[v] = "running" /\ h \in Hosts(memPool[GraphOf[v]][2])
    BY DEF IInv, Pushing
  <2>2. memPool'[GraphOf[v]] = memPool[GraphOf[v]]
    BY <1>5, <1>8, <2>1, GraphPlace
  <2> QED
    BY <2>1, <2>2
<1>17. ArraysThere'
  BY <1>1, <1>2, <1>6, Fixed DEF IInv, ArraysThere, Holding, Present, Allocated, Moved
<1>18. ArraysGone'
  BY <1>1, <1>2, <1>6, Fixed DEF IInv, ArraysGone, Released, Absent, Idle, Moved
<1>19. Marked'
  BY <1>5, <1>6 DEF IInv, Marked, OnHost
<1> QED
  BY <1>9, <1>10, <1>11, <1>12, <1>13, <1>14, <1>15, <1>16, <1>17, <1>18, <1>19 DEF IInv

\* An executor starts the push goroutines of a request.
LEMMA CallKeeps ==
  ASSUME IInv, NEW q \in Query, NEW w \in Words(q), Call(q, w)
  PROVE  IInv'
<1>1. /\ stage[q] \in {"load", "round"} /\ w \in todo[q] /\ calc[w] = "idle"
      /\ UNCHANGED << stage, todo, round, active, memPool, attached, pool, segment, down >>
  BY DEF Call, Calling, queryVars, hostVars
<1>2. w \in Word /\ Hosts(q) \subseteq Host
  BY Places
<1>3. /\ calc' \in [Word -> {"idle", "running", "dead"}] /\ calc'[w] = "running"
      /\ pushing' \in [Word -> SUBSET Host] /\ pushing'[w] \subseteq Hosts(q)
      /\ \A v \in Word : v # w => calc'[v] = calc[v] /\ pushing'[v] = pushing[v]
  BY <1>2 DEF Call, IInv, TypeInv, TypeOK
<1>4. memPool[GraphOf[w]][2] = q /\ memPool[GraphOf[w]] \in attached
  BY <1>1 DEF IInv, Referring, Refers, Loaded
<1>5. \A h \in Hosts(q) : Present(q, h)
  BY <1>1 DEF IInv, ArraysThere, Holding, Allocated
<1>6. TypeInv'
  BY <1>1, <1>3, Fixed DEF IInv, TypeInv, TypeOK
<1>7. Apart' /\ Own'
  BY <1>1, Fixed DEF IInv, Apart, Own, OwnPool
<1>8. Referring'
  BY <1>1, <1>3, <1>4, Places, Fixed DEF IInv, Referring, Refers
<1>9. Current'
  BY <1>1 DEF IInv, Current, UnderWay
<1>10. Freeing'
  BY <1>1, Fixed DEF IInv, Freeing, Freed
<1>11. Running'
  BY <1>1, <1>3, <1>4, <1>5, Fixed DEF IInv, Running, RunsFor, Present
<1>12. Pushing'
  BY <1>1, <1>3, <1>4, Fixed DEF IInv, Pushing
<1>13. ArraysThere' /\ ArraysGone' /\ Marked'
  BY <1>1, Fixed DEF IInv, ArraysThere, ArraysGone, Holding, Released, Present, Absent, Marked, OnHost
<1> QED
  BY <1>6, <1>7, <1>8, <1>9, <1>10, <1>11, <1>12, <1>13 DEF IInv

\* A push of an executor is answered.
LEMMA PushAnsweredKeeps ==
  ASSUME IInv, NEW w \in Word, NEW h \in Host, PushAnswered(w, h)
  PROVE  IInv'
<1>1. UNCHANGED << stage, todo, round, active, calc, memPool, attached, pool, segment, down >>
  BY DEF PushAnswered, queryVars, hostVars
<1>2. /\ pushing' \in [Word -> SUBSET Host]
      /\ \A v \in Word : pushing'[v] \subseteq pushing[v]
  BY DEF PushAnswered, IInv, TypeInv, TypeOK
<1>3. TypeInv'
  BY <1>1, <1>2, Fixed DEF IInv, TypeInv, TypeOK
<1>4. Apart' /\ Own' /\ Referring'
  BY <1>1, Fixed DEF IInv, Apart, Own, OwnPool, Referring, Refers
<1>5. Current'
  BY <1>1 DEF IInv, Current, UnderWay
<1>6. Freeing'
  BY <1>1, Fixed DEF IInv, Freeing, Freed
<1>7. Running'
  BY <1>1, Fixed DEF IInv, Running, RunsFor, Present
<1>8. Pushing'
  BY <1>1, <1>2, Fixed DEF IInv, Pushing
<1>9. ArraysThere' /\ ArraysGone' /\ Marked'
  BY <1>1, Fixed DEF IInv, ArraysThere, ArraysGone, Holding, Released, Present, Absent, Marked, OnHost
<1> QED
  BY <1>3, <1>4, <1>5, <1>6, <1>7, <1>8, <1>9 DEF IInv

\* An executor answers the coordinator.
LEMMA ReplyKeeps ==
  ASSUME IInv, NEW q \in Query, NEW w \in Words(q), Reply(q, w)
  PROVE  IInv'
<1>1. /\ stage[q] \in {"load", "round"} /\ w \in todo[q]
      /\ calc[w] = "running" /\ pushing[w] = {}
      /\ UNCHANGED << round, memPool, attached, pushing, pool, segment, down >>
  BY DEF Reply, PushesAnswered, hostVars
<1>2. /\ Moved(q)
      /\ \/ todo[q] = {w} /\ stage'[q] = "head" /\ todo'[q] = {}
         \/ todo[q] # {w} /\ stage'[q] = stage[q] /\ todo'[q] = todo[q] \ {w}
  <2>1. "head" \in Stages
    BY DEF Stages
  <2>2. TypeInv /\ Answer(q, w, "head")
    BY DEF Reply, IInv
  <2> QED
    BY <1>1, <2>1, <2>2, AnswerFacts, CalleesType
<1>3. /\ calc' \in [Word -> {"idle", "running", "dead"}] /\ calc'[w] = "idle"
      /\ \A v \in Word : v # w => calc'[v] = calc[v]
  BY Places DEF Reply, IInv, TypeInv, TypeOK
<1>4. active' \in [Query -> BOOLEAN]
  BY DEF Reply, IInv, TypeInv, TypeOK
<1>5. w \in Word /\ todo[q] \subseteq Words(q)
  BY <1>1, StageType, Places DEF IInv, WordStages
<1>6. TypeInv'
  BY <1>1, <1>2, <1>3, <1>4, <1>5, MovedTypes, Fixed
     DEF IInv, TypeInv, TypeOK, HostStages, WordStages
<1>7. Apart'
  BY <1>1, <1>2 DEF IInv, Apart, Idle, Moved
<1>8. Own'
  BY <1>1, Fixed DEF IInv, Own, OwnPool
<1>9. Referring'
  <2>1. memPool[GraphOf[w]] \in attached
    BY <1>1, <1>5 DEF IInv, Running
  <2> QED
    BY <1>1, <1>2, <1>3, <2>1, Places, Fixed DEF IInv, Referring, Refers, Loaded, Moved
<1>10. Current'
  BY <1>1, <1>2, CurrentCarries DEF IInv, Current, UnderWay, Allocated
<1>11. Freeing'
  <2>1. \A p \in Query : \A e : Freed(p, e) => Freed(p, e)'
    BY <1>1 DEF Freed
  <2> QED
    BY <1>1, <1>2, <2>1, Fixed DEF IInv, Freeing, Moved
<1>12. Running'
  <2>1. ASSUME NEW v \in Word, calc'[v] = "running", memPool[GraphOf[v]][2] = q
        PROVE  RunsFor(v, q)'
    <3>1. v # w /\ RunsFor(v, q)
      BY <1>3, <2>1 DEF IInv, Running
    <3>2. v \in todo[q] /\ todo[q] # {w}
      BY <1>1, <3>1 DEF RunsFor
    <3> QED
      BY <1>1, <1>2, <3>1, <3>2, Fixed DEF RunsFor, Present
  <2>2. \A p \in Query : \A g \in Hosts(p) : Present(p, g) => Present(p, g)'
    BY <1>1 DEF Present
  <2> QED
    BY <1>1, <1>2, <1>3, <2>1, <2>2, RunningCarries
<1>13. Pushing'
  BY <1>1, <1>3, Fixed DEF IInv, Pushing
<1>14. ArraysThere'
  BY <1>1, <1>2, Fixed DEF IInv, ArraysThere, Holding, Present, Allocated, Moved
<1>15. ArraysGone'
  BY <1>1, <1>2, Fixed DEF IInv, ArraysGone, Released, Absent, Idle, Moved
<1>16. Marked'
  BY <1>1 DEF IInv, Marked, OnHost
<1> QED
  BY <1>6, <1>7, <1>8, <1>9, <1>10, <1>11, <1>12, <1>13, <1>14, <1>15, <1>16 DEF IInv

\* The head of the coordinator's loop: one more round, or none.
LEMMA HeadKeeps ==
  ASSUME IInv, NEW q \in Query, DispatchRequest(q) \/ LeaveLoop(q)
  PROVE  IInv'
<1>1. /\ stage[q] = "head"
      /\ UNCHANGED << active, calc, memPool, attached, pushing, pool, segment, down >>
  BY DEF DispatchRequest, LeaveLoop, executorVars, hostVars
<1>2. /\ Moved(q)
      /\ \/ stage'[q] = "round" /\ todo'[q] = Words(q)
         \/ stage'[q] = "flush" /\ todo'[q] = KeyGraphs(q)
  <2>1. "round" \in Stages /\ "flush" \in Stages
    BY DEF Stages, WordStages
  <2>2. TypeInv /\ (Enter(q, "round") \/ Enter(q, "flush"))
    BY DEF DispatchRequest, LeaveLoop, IInv
  <2> QED
    BY <2>1, <2>2, EnterFacts, CalleesType
<1>3. round' \in [Query -> Nat]
  <2>1. /\ round \in [Query -> Nat]
        /\ \/ round' = [round EXCEPT ![q] = IF @ > RoundLimit[q] THEN @ ELSE @ + 1]
           \/ round' = round
    BY DEF DispatchRequest, LeaveLoop, IInv, TypeInv, TypeOK
  <2> QED
    BY <2>1
<1>4. TypeInv'
  BY <1>1, <1>2, <1>3, MovedTypes, Fixed DEF IInv, TypeInv, TypeOK, HostStages, WordStages
<1>5. Apart'
  BY <1>1, <1>2 DEF IInv, Apart, Idle, Moved
<1>6. Own'
  BY <1>1, Fixed DEF IInv, Own, OwnPool
<1>7. Referring'
  BY <1>1, <1>2, Fixed DEF IInv, Referring, Refers, Loaded, Moved
<1>8. Current'
  <2>1. ASSUME NEW e \in Executor, memPool[e] \in attached, memPool[e][2] = q
        PROVE  UnderWay(q, e)'
    <3>1. e \in KeyGraphs(q)
      BY <2>1, MappedBy, Places
    <3> QED
      BY <1>2, <3>1 DEF UnderWay, Allocated
  <2> QED
    BY <1>1, <1>2, <2>1, CurrentCarries
<1>9. Freeing'
  <2>1. \A p \in Query : \A e : Freed(p, e) => Freed(p, e)'
    BY <1>1 DEF Freed
  <2> QED
    BY <1>1, <1>2, <2>1, Fixed DEF IInv, Freeing, Moved
<1>10. Running'
  <2>1. \A w \in Word : calc[w] = "running" => memPool[GraphOf[w]][2] # q
    BY <1>1 DEF IInv, Running, RunsFor
  <2>2. \A p \in Query : \A g \in Hosts(p) : Present(p, g) => Present(p, g)'
    BY <1>1 DEF Present
  <2> QED
    BY <1>1, <1>2, <2>1, <2>2, RunningCarries
<1>11. Pushing'
  BY <1>1, Fixed DEF IInv, Pushing
<1>12. ArraysThere'
  BY <1>1, <1>2, Fixed DEF IInv, ArraysThere, Holding, Present, Allocated, Moved
<1>13. ArraysGone'
  BY <1>1, <1>2, Fixed DEF IInv, ArraysGone, Released, Absent, Idle, Moved
<1>14. Marked'
  BY <1>1 DEF IInv, Marked, OnHost
<1> QED
  BY <1>4, <1>5, <1>6, <1>7, <1>8, <1>9, <1>10, <1>11, <1>12, <1>13, <1>14 DEF IInv

\* Detaching takes mappings away, and of the segments only marked ones.
LEMMA DetachFacts ==
  ASSUME IInv, NEW gone, Detach(gone), pool' = pool
  PROVE  /\ attached' = attached \ gone /\ attached' \subseteq Word \X Query
         /\ segment' \in [Host -> [Query -> {"none", "live", "marked"}]]
         /\ \A p \in Query : \A h \in Host :
              /\ segment'[h][p] = "live" <=> segment[h][p] = "live"
              /\ Present(p, h)' <=> Present(p, h)
              /\ Absent(p, h)' <=> Absent(p, h)
         /\ Marked'
<1>1. attached' = attached \ gone /\ attached \subseteq Word \X Query
  BY DEF Detach, IInv, TypeInv, TypeOK
<1>2. segment \in [Host -> [Query -> {"none", "live", "marked"}]]
  BY DEF IInv, TypeInv, TypeOK
<1>3. \A p \in Query : \A h \in Host :
        segment'[h][p] = IF segment[h][p] = "marked" /\ ~OnHost(attached', h, p)
                           THEN "none" ELSE segment[h][p]
  BY <1>1 DEF Detach
<1>4. segment' \in [Host -> [Query -> {"none", "live", "marked"}]]
  <2> DEFINE t(h, p) == IF segment[h][p] = "marked" /\ ~OnHost(attached \ gone, h, p)
                          THEN "none" ELSE segment[h][p]
  <2>1. \A p \in Query : \A h \in Host : t(h, p) \in {"none", "live", "marked"}
    BY <1>2
  <2>2. segment' = [h \in Host |-> [p \in Query |-> t(h, p)]]
    BY DEF Detach
  <2> HIDE DEF t
  <2> QED
    BY <2>1, <2>2
<1>5. Marked'
  BY <1>3 DEF Marked, OnHost
<1> QED
  BY <1>1, <1>3, <1>4, <1>5 DEF Present, Absent

\* Words of one graph are in one container.
LEMMA SameContainer ==
  ASSUME NEW v \in Word, NEW w \in Word, GraphOf[v] = GraphOf[w], NEW e
  PROVE  v \in WordsIn(e) <=> w \in WordsIn(e)
  BY DEF WordsIn

\* A container ends, whatever the reason: its calls and its mappings go.
LEMMA KillKeeps ==
  ASSUME IInv, NEW e \in Executor, Kill(e), UNCHANGED << queryVars, memPool, pool, down >>
  PROVE  IInv'
<1>1. UNCHANGED << stage, todo, round, active, memPool, pool, down >>
  BY DEF queryVars
<1>2. /\ calc' \in [Word -> {"idle", "running", "dead"}]
      /\ pushing' \in [Word -> SUBSET Host]
      /\ \A v \in Word : v \in WordsIn(e) => calc'[v] = "dead" /\ pushing'[v] = {}
      /\ \A v \in Word : v \notin WordsIn(e) => calc'[v] = calc[v] /\ pushing'[v] = pushing[v]
  BY DEF Kill, IInv, TypeInv, TypeOK
<1>3. PICK gone : gone = { m \in attached : m[1] \in WordsIn(e) } /\ Detach(gone)
  BY DEF Kill
<1>4. /\ attached' \subseteq attached /\ attached' \subseteq Word \X Query
      /\ segment' \in [Host -> [Query -> {"none", "live", "marked"}]]
      /\ \A p \in Query : \A h \in Host :
           /\ Present(p, h)' <=> Present(p, h)
           /\ Absent(p, h)' <=> Absent(p, h)
      /\ Marked'
  BY <1>1, <1>3, DetachFacts
\* What a graph of another container refers to stays.
<1>5. ASSUME NEW v \in Word, v \notin WordsIn(e), memPool[GraphOf[v]] \in attached
      PROVE  memPool[GraphOf[v]] \in attached'
  <2>1. PICK u \in Word : u = memPool[GraphOf[v]][1] /\ GraphOf[u] = GraphOf[v]
    BY <1>5, MappedBy, GraphPlace
  <2>2. u \notin WordsIn(e)
    BY <1>5, <2>1, SameContainer
  <2> QED
    BY <1>1, <1>3, <1>5, <2>1, <2>2, DetachFacts
<1>6. TypeInv'
  BY <1>1, <1>2, <1>4, Fixed DEF IInv, TypeInv, TypeOK
<1>7. Apart' /\ Own'
  BY <1>1, Fixed DEF IInv, Apart, Own, OwnPool
<1>8. Referring'
  <2> SUFFICES ASSUME NEW p \in Query, NEW v \in Words(p),
                      \/ stage[p] \in Loaded \cup {"flush"}
                      \/ stage[p] = "attach" /\ v \notin todo[p]
               PROVE  Refers(p, v)'
    BY <1>1, Fixed DEF Referring
  <2>1. Refers(p, v) /\ v \in Word
    BY Places DEF IInv, Referring
  <2> QED
    BY <1>1, <1>2, <1>5, <2>1 DEF Refers
<1>9. Current'
  BY <1>1, <1>4 DEF IInv, Current, UnderWay
<1>10. Freeing'
  <2>1. \A p \in Query : \A f : Freed(p, f) => Freed(p, f)'
    BY <1>4 DEF Freed
  <2> QED
    BY <1>1, <2>1, Fixed DEF IInv, Freeing
<1>11. Running'
  <2> SUFFICES ASSUME NEW v \in Word, calc'[v] = "running",
                      NEW p, p = memPool[GraphOf[v]][2]
               PROVE  memPool[GraphOf[v]] \in attached' /\ RunsFor(v, p)'
    BY <1>1 DEF Running, RunsFor
  <2>1. v \notin WordsIn(e) /\ calc[v] = "running"
    BY <1>2
  <2>2. memPool[GraphOf[v]] \in attached /\ RunsFor(v, p)
    BY <2>1 DEF IInv, Running
  <2>3. \A h \in Hosts(p) : Present(p, h)'
    BY <1>4, <2>2, Places DEF RunsFor
  <2> QED
    BY <1>1, <1>5, <2>1, <2>2, <2>3, Fixed DEF RunsFor
<1>12. Pushing'
  BY <1>1, <1>2, Fixed DEF IInv, Pushing
<1>13. ArraysThere'
  BY <1>1, <1>4, Places, Fixed DEF IInv, ArraysThere, Holding
<1>14. ArraysGone'
  BY <1>1, <1>4, Fixed DEF IInv, ArraysGone, Released
<1> QED
  BY <1>4, <1>6, <1>7, <1>8, <1>9, <1>10, <1>11, <1>12, <1>13, <1>14 DEF IInv

\* A container detaches what its graphs refer to.
LEMMA FlushKeeps ==
  ASSUME IInv, NEW q \in Query, NEW e \in KeyGraphs(q), Flush(q, e)
  PROVE  IInv'
<1>1. /\ stage[q] = "flush" /\ e \in todo[q] /\ Detach(Flushed(e))
      /\ \A f \in Inmates(e) : memPool[f] # NoPool
      /\ UNCHANGED << round, active, calc, memPool, pushing, pool, down >>
  BY DEF Flush, Calling
<1>2. /\ Moved(q)
      /\ \/ todo[q] = {e} /\ stage'[q] = "clear" /\ todo'[q] = Hosts(q)
         \/ todo[q] # {e} /\ stage'[q] = "flush" /\ todo'[q] = todo[q] \ {e}
  <2>1. "clear" \in Stages
    BY DEF Stages, HostStages
  <2>2. TypeInv /\ Answer(q, e, "clear")
    BY DEF Flush, IInv
  <2> QED
    BY <1>1, <2>1, <2>2, AnswerFacts, CalleesType
<1>3. /\ e \in Executor /\ e \in Executors(q) /\ e \in Inmates(e)
      /\ Inmates(e) \subseteq Executor /\ todo[q] \subseteq KeyGraphs(q)
  BY <1>1, StageType, Places DEF IInv, Inmates
<1>4. /\ attached' = attached \ Flushed(e) /\ attached' \subseteq Word \X Query
      /\ segment' \in [Host -> [Query -> {"none", "live", "marked"}]]
      /\ \A p \in Query : \A h \in Host :
           /\ Present(p, h)' <=> Present(p, h)
           /\ Absent(p, h)' <=> Absent(p, h)
      /\ Marked'
  BY <1>1, DetachFacts
\* The words that lead into this container are those of the query, whose calls have ended.
<1>5. ASSUME NEW p \in Query, NEW v \in Words(p), GraphOf[v] \in Inmates(e), p # q
      PROVE  stage[p] \in Idle
  <2>1. v \in WordsIn(e)
    BY <1>5, Places DEF WordsIn
  <2>2. v \in Words(q)
    BY <1>3, <2>1, Fellows
  <2> QED
    BY <1>1, <1>5, <2>2, OneAtATime DEF IInv, Idle
<1>6. ASSUME NEW v \in Word, calc[v] = "running"
      PROVE  GraphOf[v] \notin Inmates(e) /\ memPool[GraphOf[v]][2] # q
  <2>1. PICK p : p = memPool[GraphOf[v]][2] /\ RunsFor(v, p)
    BY <1>6 DEF IInv, Running
  <2> QED
    BY <1>1, <1>5, <2>1 DEF RunsFor, Idle
\* What graphs of other containers refer to stays, what those of this one do is gone.
<1>7. ASSUME NEW f \in Executor, f \notin Inmates(e), memPool[f] \in attached
      PROVE  memPool[f] \in attached'
  <2>1. ASSUME NEW g \in Inmates(e), memPool[f] = memPool[g]
        PROVE  FALSE
    <3>1. GraphOf[memPool[f][1]] = f
      BY <1>7, MappedBy
    <3>2. GraphOf[memPool[g][1]] = g
      BY <1>1, <1>3 DEF IInv, Own, OwnPool
    <3> QED
      BY <1>7, <2>1, <3>1, <3>2
  <2> QED
    BY <1>4, <1>7, <2>1 DEF Flushed
<1>8. \A f \in Inmates(e) : memPool[f] \notin attached'
  BY <1>4 DEF Flushed
<1>9. TypeInv'
  BY <1>1, <1>2, <1>3, <1>4, MovedTypes, Fixed DEF IInv, TypeInv, TypeOK, HostStages, WordStages
<1>10. Apart'
  BY <1>1, <1>2 DEF IInv, Apart, Idle, Moved
<1>11. Own'
  BY <1>1, Fixed DEF IInv, Own, OwnPool
<1>12. Referring'
  <2> SUFFICES ASSUME NEW p \in Query, NEW v \in Words(p),
                      \/ stage'[p] \in Loaded \cup {"flush"}
                      \/ stage'[p] = "attach" /\ v \notin todo'[p]
               PROVE  Refers(p, v)'
    BY Fixed DEF Referring
  <2>1. CASE p = q
    BY <1>1, <1>2, <2>1 DEF IInv, Referring, Refers, Loaded
  <2>2. CASE p # q
    <3>1. stage'[p] = stage[p] /\ todo'[p] = todo[p] /\ Refers(p, v)
      BY <1>2, <2>2 DEF IInv, Referring, Moved
    <3>2. GraphOf[v] \in Executor /\ GraphOf[v] \notin Inmates(e)
      BY <1>5, <2>2, <3>1, GraphPlace, Places DEF Loaded, Idle
    <3> QED
      BY <1>1, <1>7, <3>1, <3>2 DEF Refers
  <2> QED
    BY <2>1, <2>2
<1>13. Current'
  <2>1. ASSUME NEW f \in Executor, memPool[f] \in attached', memPool[f][2] = q
        PROVE  UnderWay(q, f)'
    <3>1. memPool[f] \in attached /\ f # e
      BY <1>3, <1>4, <1>8, <2>1
    <3>2. f \in todo[q]
      BY <1>1, <2>1, <3>1, MappedBy DEF UnderWay
    <3> QED
      BY <1>2, <3>1, <3>2 DEF UnderWay, Allocated
  <2> QED
    BY <1>1, <1>2, <1>4, <2>1, CurrentCarries
<1>14. Freeing'
  <2> SUFFICES ASSUME NEW p \in Query, NEW f \in KeyGraphs(p),
                      \/ stage'[p] \in {"clear", "done"}
                      \/ stage'[p] = "flush" /\ f \notin todo'[p]
               PROVE  Freed(p, f)'
    BY Fixed DEF Freeing
  <2>1. Freed(p, f) => Freed(p, f)'
    BY <1>4 DEF Freed
  <2>2. CASE p # q
    BY <1>2, <2>1, <2>2 DEF IInv, Freeing, Moved
  <2>3. CASE p = q /\ f # e
    <3>1. f \notin todo[q]
      BY <1>2, <2>3
    <3> QED
      BY <1>1, <2>1, <2>3, <3>1 DEF IInv, Freeing
  <2>4. CASE p = q /\ f = e
    <3>1. PICK w \in Words(q) : e = GraphOf[w]
      BY DEF KeyGraphs
    <3>2. Refers(q, w)
      BY <1>1 DEF IInv, Referring
    <3>3. OwnPool(e) /\ memPool[e][2] = q
      BY <1>3, <3>1, <3>2 DEF IInv, Own, Refers
    <3>4. PICK v \in Word : v = memPool[e][1]
      BY <3>3 DEF OwnPool
    <3>5. memPool[e] = << v, q >> /\ GraphOf[v] = e
      BY <3>3, <3>4 DEF OwnPool
    <3> QED
      BY <1>3, <1>8, <2>4, <3>5 DEF Freed
  <2> QED
    BY <2>2, <2>3, <2>4
<1>15. Running'
  <2> SUFFICES ASSUME NEW v \in Word, calc[v] = "running",
                      NEW p, p = memPool[GraphOf[v]][2]
               PROVE  memPool[GraphOf[v]] \in attached' /\ RunsFor(v, p)'
    BY <1>1 DEF Running, RunsFor
  <2>1. memPool[GraphOf[v]] \in attached /\ RunsFor(v, p) /\ p # q
    BY <1>6 DEF IInv, Running
  <2>2. memPool[GraphOf[v]] \in attached'
    BY <1>6, <1>7, <2>1, GraphPlace
  <2>3. \A h \in Hosts(p) : Present(p, h)'
    BY <1>4, <2>1, Places DEF RunsFor
  <2> QED
    BY <1>2, <2>1, <2>2, <2>3, Fixed DEF RunsFor, Moved
<1>16. Pushing'
  BY <1>1, Fixed DEF IInv, Pushing
<1>17. ArraysThere'
  <2> SUFFICES ASSUME NEW p \in Query, NEW h \in Hosts(p), Holding(p, h)'
               PROVE  Present(p, h)'
    BY Fixed DEF ArraysThere
  <2>1. Present(p, h)
    BY <1>1, <1>2 DEF IInv, ArraysThere, Holding, Allocated, Moved
  <2> QED
    BY <1>4, <2>1, Places
<1>18. ArraysGone'
  <2> SUFFICES ASSUME NEW p \in Query, NEW h \in Host, Released(p, h)'
               PROVE  Absent(p, h)'
    BY DEF ArraysGone
  <2>1. Absent(p, h)
    BY <1>1, <1>2, Fixed DEF IInv, ArraysGone, Released, Idle, Moved
  <2> QED
    BY <1>4, <2>1
<1> QED
  BY <1>4, <1>9, <1>10, <1>11, <1>12, <1>13, <1>14, <1>15, <1>16, <1>17, <1>18 DEF IInv

\* A local manager removes the arrays, or marks them where a mapping is left.
LEMMA ClearMemKeeps ==
  ASSUME IInv, NEW q \in Query, NEW h \in Host, ClearMem(q, h)
  PROVE  IInv'
<1>1. /\ stage[q] = "clear" /\ h \in todo[q]
      /\ UNCHANGED << round, active, calc, memPool, attached, pushing, down >>
  BY DEF ClearMem, Calling, executorVars
<1>2. /\ Moved(q)
      /\ \/ todo[q] = {h} /\ stage'[q] = "done" /\ todo'[q] = {}
         \/ todo[q] # {h} /\ stage'[q] = "clear" /\ todo'[q] = todo[q] \ {h}
  <2>1. "done" \in Stages
    BY DEF Stages
  <2>2. TypeInv /\ Answer(q, h, "done")
    BY DEF ClearMem, IInv
  <2> QED
    BY <1>1, <2>1, <2>2, AnswerFacts, CalleesType
<1>3. h \in Hosts(q) /\ todo[q] \subseteq Hosts(q)
  BY <1>1, StageType DEF IInv, HostStages
<1>4. /\ pool' \in [Host -> SUBSET Query]
      /\ segment' \in [Host -> [Query -> {"none", "live", "marked"}]]
      /\ \A p \in Query : \A g \in Host :
           /\ p # q \/ g # h => (Present(p, g) => Present(p, g)')
           /\ Absent(p, g) => Absent(p, g)'
           /\ segment'[g][p] = "marked" => segment[g][p] = "marked" \/ OnHost(attached, g, p)
      /\ Absent(q, h)'
  <2>1. /\ pool \in [Host -> SUBSET Query]
        /\ segment \in [Host -> [Query -> {"none", "live", "marked"}]]
    BY DEF IInv, TypeInv, TypeOK
  <2>2. /\ pool' = [pool EXCEPT ![h] = @ \ {q}]
        /\ segment' = [segment EXCEPT ![h][q] =
                         IF OnHost(attached, h, q) THEN "marked" ELSE "none"]
    BY <2>1 DEF ClearMem, ClearedPool
  <2>3. /\ pool' \in [Host -> SUBSET Query]
        /\ \A g \in Host : pool'[g] = IF g = h THEN pool[g] \ {q} ELSE pool[g]
    BY <2>1, <2>2
  <2>4. /\ segment' \in [Host -> [Query -> {"none", "live", "marked"}]]
        /\ \A p \in Query : \A g \in Host :
             segment'[g][p] = IF g = h /\ p = q
                                THEN IF OnHost(attached, h, q) THEN "marked" ELSE "none"
                                ELSE segment[g][p]
    BY <2>1, <2>2
  <2> QED
    BY <2>3, <2>4 DEF Present, Absent
<1>5. TypeInv'
  BY <1>1, <1>2, <1>3, <1>4, MovedTypes, Fixed DEF IInv, TypeInv, TypeOK, HostStages, WordStages
<1>6. Apart'
  BY <1>1, <1>2 DEF IInv, Apart, Idle, Moved
<1>7. Own'
  BY <1>1, Fixed DEF IInv, Own, OwnPool
<1>8. Referring'
  BY <1>1, <1>2, Fixed DEF IInv, Referring, Refers, Loaded, Moved
<1>9. Current'
  BY <1>1, <1>2, CurrentCarries DEF IInv, Current, UnderWay, Allocated
<1>10. Freeing'
  <2>1. \A p \in Query : \A e : Freed(p, e) => Freed(p, e)'
    BY <1>1 DEF Freed
  <2> QED
    BY <1>1, <1>2, <2>1, Fixed DEF IInv, Freeing, Moved
<1>11. Running'
  <2>1. \A w \in Word : calc[w] = "running" => memPool[GraphOf[w]][2] # q
    BY <1>1 DEF IInv, Running, RunsFor
  <2>2. \A p \in Query : \A g \in Hosts(p) : p # q /\ Present(p, g) => Present(p, g)'
    BY <1>4, Places
  <2> QED
    BY <1>1, <1>2, <2>1, <2>2, RunningCarries
<1>12. Pushing'
  BY <1>1, Fixed DEF IInv, Pushing
<1>13. ArraysThere'
  <2> SUFFICES ASSUME NEW p \in Query, NEW g \in Hosts(p), Holding(p, g)'
               PROVE  Present(p, g)'
    BY Fixed DEF ArraysThere
  <2>1. Present(p, g) /\ (p # q \/ g # h)
    BY <1>1, <1>2 DEF IInv, ArraysThere, Holding, Allocated, Moved
  <2> QED
    BY <1>4, <2>1, Places
<1>14. ArraysGone'
  <2> SUFFICES ASSUME NEW p \in Query, NEW g \in Host, Released(p, g)'
               PROVE  Absent(p, g)'
    BY DEF ArraysGone
  <2>1. Absent(p, g) \/ (p = q /\ g = h)
    BY <1>1, <1>2, <1>3, Fixed DEF IInv, ArraysGone, Released, Idle, Moved
  <2> QED
    BY <1>4, <2>1
<1>15. Marked'
  <2>1. ASSUME NEW p \in Query, NEW g \in Host, segment'[g][p] = "marked"
        PROVE  OnHost(attached, g, p)
    BY <1>4, <2>1 DEF IInv, Marked
  <2> QED
    BY <1>1, <2>1 DEF Marked, OnHost
<1> QED
  BY <1>5, <1>6, <1>7, <1>8, <1>9, <1>10, <1>11, <1>12, <1>13, <1>14, <1>15 DEF IInv

\* A query whose call failed dies.
LEMMA QueryDiesKeeps ==
  ASSUME IInv, NEW q \in Query, QueryDies(q)
  PROVE  IInv'
<1>1. UNCHANGED << todo, round, active, calc, memPool, attached, pushing, pool, segment, down >>
  BY DEF QueryDies, executorVars, hostVars
<1>2. Moved(q) /\ stage'[q] = "dead"
  BY <1>1 DEF QueryDies, IInv, TypeInv, TypeOK, Stages, Moved
\* A call was open, so the query was under way.
<1>3. /\ todo[q] \subseteq Hosts(q) \cup Words(q) \cup KeyGraphs(q)
      /\ stage[q] \notin Idle
  BY StageType DEF QueryDies, IInv, Idle, HostStages, WordStages
<1>4. TypeInv'
  <2>1. ASSUME NEW p \in Query
        PROVE  todo'[p] \subseteq IF stage'[p] \in HostStages THEN Hosts(p)
                        ELSE IF stage'[p] \in WordStages THEN Words(p)
                        ELSE IF stage'[p] = "flush" THEN KeyGraphs(p)
                        ELSE IF stage'[p] = "dead" THEN Hosts(p) \cup Words(p) \cup KeyGraphs(p)
                        ELSE {}
    <3>1. CASE p = q
      BY <1>1, <1>2, <1>3, <3>1 DEF HostStages, WordStages
    <3>2. CASE p # q
      BY <1>1, <1>2, <3>2 DEF IInv, TypeInv, TypeOK, Moved
    <3> QED
      BY <3>1, <3>2
  <2> QED
    BY <1>1, <1>2, <2>1, Fixed DEF IInv, TypeInv, TypeOK, Moved
<1>5. Apart'
  BY <1>2, <1>3 DEF IInv, Apart, Idle, Moved
<1>6. Own'
  BY <1>1, Fixed DEF IInv, Own, OwnPool
<1>7. Referring'
  BY <1>1, <1>2, Fixed DEF IInv, Referring, Refers, Loaded, Moved
<1>8. Current'
  BY <1>1, <1>2, CurrentCarries DEF UnderWay
<1>9. Freeing'
  <2>1. \A p \in Query : \A e : Freed(p, e) => Freed(p, e)'
    BY <1>1 DEF Freed
  <2> QED
    BY <1>1, <1>2, <2>1, Fixed DEF IInv, Freeing, Moved
<1>10. Running'
  <2>1. ASSUME NEW w \in Word, calc'[w] = "running", memPool[GraphOf[w]][2] = q
        PROVE  RunsFor(w, q)'
    BY <1>1, <1>2, <2>1, Fixed DEF IInv, Running, RunsFor, Present
  <2>2. \A p \in Query : \A g \in Hosts(p) : Present(p, g) => Present(p, g)'
    BY <1>1 DEF Present
  <2> QED
    BY <1>1, <1>2, <2>1, <2>2, RunningCarries
<1>11. Pushing'
  BY <1>1, Fixed DEF IInv, Pushing
<1>12. ArraysThere'
  BY <1>1, <1>2, Fixed DEF IInv, ArraysThere, Holding, Present, Allocated, Moved
<1>13. ArraysGone'
  BY <1>1, <1>2, Fixed DEF IInv, ArraysGone, Released, Absent, Idle, Moved
<1>14. Marked'
  BY <1>1 DEF IInv, Marked, OnHost
<1> QED
  BY <1>4, <1>5, <1>6, <1>7, <1>8, <1>9, <1>10, <1>11, <1>12, <1>13, <1>14 DEF IInv

\* The invariant reads nothing but the variables, and of the hosts that are down
\* only that they are hosts.
LEMMA StutterKeeps ==
  ASSUME IInv, down' \subseteq Host,
         UNCHANGED << stage, todo, round, active, executorVars, pool, segment >>
  PROVE  IInv'
<1>1. UNCHANGED << stage, todo, round, active, calc, memPool, attached, pushing, pool, segment >>
  BY DEF executorVars
<1>2. TypeInv'
  BY <1>1, Fixed DEF IInv, TypeInv, TypeOK
<1>3. Apart' /\ Own' /\ Referring' /\ Pushing'
  BY <1>1, Fixed DEF IInv, Apart, Own, OwnPool, Referring, Refers, Pushing
<1>4. Current'
  BY <1>1 DEF IInv, Current, UnderWay
<1>5. Freeing'
  BY <1>1, Fixed DEF IInv, Freeing, Freed
<1>6. Running'
  BY <1>1, Fixed DEF IInv, Running, RunsFor, Present
<1>7. ArraysThere' /\ ArraysGone' /\ Marked'
  BY <1>1, Fixed DEF IInv, ArraysThere, ArraysGone, Holding, Released, Present, Absent, Marked, OnHost
<1> QED
  BY <1>2, <1>3, <1>4, <1>5, <1>6, <1>7 DEF IInv

\* A read of a local manager's pool map meets a write, and the local manager ends.
LEMMA MapRaceKeeps ==
  ASSUME IInv, NEW q \in Query, NEW w \in Word, NEW h \in Host, MapRace(q, w, h)
  PROVE  IInv'
<1>1. down' \subseteq Host
  BY DEF MapRace, IInv, TypeInv, TypeOK
<1> QED
  BY <1>1, StutterKeeps DEF MapRace, queryVars

\* The three ways in which a container ends.
LEMMA DeathKeeps ==
  ASSUME IInv,
         \/ \E q \in Query : \E e \in KeyGraphs(q) : FlushDies(q, e)
         \/ \E q \in Query : \E v, w \in Words(q) : MetricsRace(q, v, w)
         \/ \E w \in Word : ContainerDies(w)
  PROVE  \E e \in Executor : Kill(e) /\ UNCHANGED << queryVars, memPool, pool, down >>
<1>1. ASSUME NEW q \in Query, NEW e \in KeyGraphs(q), FlushDies(q, e)
      PROVE  e \in Executor /\ Kill(e) /\ UNCHANGED << queryVars, memPool, pool, down >>
  BY <1>1, Places DEF FlushDies
<1>2. ASSUME NEW q \in Query, NEW v \in Words(q), NEW w \in Words(q), MetricsRace(q, v, w)
      PROVE  /\ GraphOf[w] \in Executor
             /\ Kill(GraphOf[w]) /\ UNCHANGED << queryVars, memPool, pool, down >>
  BY <1>2, Places, GraphPlace DEF MetricsRace
<1>3. ASSUME NEW w \in Word, ContainerDies(w)
      PROVE  /\ GraphOf[w] \in Executor
             /\ Kill(GraphOf[w]) /\ UNCHANGED << queryVars, memPool, pool, down >>
  BY <1>3, GraphPlace DEF ContainerDies
<1> QED
  BY <1>1, <1>2, <1>3

-----------------------------------------------------------------------------
(***************************************************************************)
(* The invariants the runs check.                                          *)
(***************************************************************************)
\* Every step keeps the invariant.
LEMMA NextKeeps ==
  ASSUME IInv, [Next]_vars
  PROVE  IInv'
<1>1. ASSUME NEW q \in Query, Run(q) \/ DispatchRequest(q) \/ LeaveLoop(q) \/ QueryDies(q)
      PROVE  IInv'
  BY <1>1, RunKeeps, HeadKeeps, QueryDiesKeeps
<1>2. ASSUME NEW q \in Query, NEW h \in Hosts(q), AllocateMem(q, h) \/ ClearMem(q, h)
      PROVE  IInv'
  BY <1>2, Places, AllocateMemKeeps, ClearMemKeeps
<1>3. ASSUME NEW q \in Query, NEW w \in Words(q), LoadMemPool(q, w) \/ Call(q, w) \/ Reply(q, w)
      PROVE  IInv'
  BY <1>3, LoadMemPoolKeeps, CallKeeps, ReplyKeeps
<1>4. ASSUME NEW q \in Query, NEW e \in KeyGraphs(q), Flush(q, e)
      PROVE  IInv'
  BY <1>4, FlushKeeps
<1>5. ASSUME \/ \E q \in Query : \E e \in KeyGraphs(q) : FlushDies(q, e)
             \/ \E q \in Query : \E v, w \in Words(q) : MetricsRace(q, v, w)
             \/ \E w \in Word : ContainerDies(w)
      PROVE  IInv'
  BY <1>5, DeathKeeps, KillKeeps
<1>6. CASE UNCHANGED vars
  <2>1. down' \subseteq Host
    BY <1>6 DEF vars, hostVars, IInv, TypeInv, TypeOK
  <2> QED
    BY <1>6, <2>1, StutterKeeps DEF vars, queryVars, hostVars
<1>7. ASSUME NEW q \in Query, Coordinator(q)
      PROVE  IInv'
  BY <1>1, <1>2, <1>3, <1>4, <1>5, <1>7 DEF Coordinator
<1>8. ASSUME NEW w \in Word, Calculate(w)
      PROVE  IInv'
  BY <1>5, <1>8, PushAnsweredKeeps DEF Calculate
<1> QED
  BY <1>1, <1>5, <1>6, <1>7, <1>8, MapRaceKeeps DEF Next

\* IInv holds in every reachable state.
THEOREM QueryInvariant == Spec => []IInv
  BY InitKeeps, NextKeeps, PTL DEF Spec

\* The types of the query coordinator, the executors and local_manager; each
\* stage of a query waits only for answers of those it has called.
THEOREM QueryTypeCorrect == Spec => []TypeOK
<1>1. IInv => TypeOK
  BY DEF IInv, TypeInv
<1> QED
  BY <1>1, QueryInvariant, PTL

\* As long as a push is open, its query is in the pool of a host that is not
\* down and its array exists there: setVertexInfo never finds nil, whatever the
\* other queries on the host allocate and clear meanwhile.
THEOREM PushesFindTheirPool == Spec => []PushHasPool
<1>1. ASSUME IInv
      PROVE  PushHasPool
  <2> SUFFICES ASSUME NEW w \in Word, NEW h \in pushing[w] \ down
               PROVE  Present(memPool[GraphOf[w]][2], h)
    BY DEF PushHasPool, Present
  <2>1. calc[w] = "running" /\ h \in Hosts(memPool[GraphOf[w]][2])
    BY <1>1 DEF IInv, Pushing
  <2> QED
    BY <1>1, <2>1 DEF IInv, Running, RunsFor
<1> QED
  BY <1>1, QueryInvariant, PTL

\* While a call runs, the arrays that it reaches through plain pointers are
\* attached, exist, and are those of the query that waits for its answer, also
\* when the graph has a second call of the query, or an earlier mapping of it.
THEOREM CallsUseOwnArrays == Spec => []ArraysAttached
<1>1. ASSUME IInv
      PROVE  ArraysAttached
  <2> SUFFICES ASSUME NEW w \in Word, calc[w] = "running", NEW q, q = memPool[GraphOf[w]][2]
               PROVE  /\ memPool[GraphOf[w]] \in attached
                      /\ segment[HostOf[GraphOf[w]]][q] = "live"
                      /\ w \in Words(q) /\ stage[q] \in {"load", "round", "dead"}
                      /\ stage[q] # "dead" => w \in todo[q]
    BY DEF ArraysAttached
  <2>1. memPool[GraphOf[w]] \in attached /\ RunsFor(w, q)
    BY <1>1 DEF IInv, Running
  <2> QED
    BY <2>1, Places DEF RunsFor, Present
<1> QED
  BY <1>1, QueryInvariant, PTL

\* When the coordinator reports the end of a query, no host keeps a pool entry
\* of it; a segment stays only where a repeated key has left a mapping, and then
\* it is marked, so it goes with that mapping; of the mappings of every graph at
\* least one is gone, hence all of them where no key is repeated.
THEOREM EndedQueryLeavesNothing == Spec => []NothingLeft
<1>1. ASSUME IInv
      PROVE  NothingLeft
  <2> SUFFICES ASSUME NEW q \in Query, stage[q] = "done"
               PROVE  /\ \A h \in Host :
                           /\ q \notin pool[h]
                           /\ segment[h][q] # "none" =>
                                segment[h][q] = "marked" /\ OnHost(attached, h, q)
                      /\ \A e \in KeyGraphs(q) : Freed(q, e)
    BY DEF NothingLeft, Freed
  <2>1. \A e \in KeyGraphs(q) : Freed(q, e)
    BY <1>1 DEF IInv, Freeing
  <2>2. ASSUME NEW h \in Host
        PROVE  /\ q \notin pool[h]
               /\ segment[h][q] # "none" => segment[h][q] = "marked" /\ OnHost(attached, h, q)
    <3>1. Absent(q, h)
      BY <1>1 DEF IInv, ArraysGone, Released, Idle
    <3>2. segment[h][q] \in {"none", "live", "marked"}
      BY <1>1 DEF IInv, TypeInv, TypeOK
    <3> QED
      BY <1>1, <3>1, <3>2 DEF Absent, IInv, Marked
  <2> QED
    BY <2>1, <2>2
<1> QED
  BY <1>1, QueryInvariant, PTL

-----------------------------------------------------------------------------
(***************************************************************************)
(* The calls of the coordinator implement SharedArray.                     *)
(***************************************************************************)
Gone == Cleared \ Made

\* An array belongs to one host and one query.
LEMMA ArrayPairs ==
  ASSUME NEW a \in Arrays
  PROVE  /\ a[1] \in Host /\ a[2] \in Query /\ a[1] \in Hosts(a[2])
         /\ a = << a[1], a[2] >>
  BY DEF Arrays

\* Two steps that leave the arrays and the calls to local_manager alone.
LEMMA SameArrays ==
  ASSUME \A h \in Host : \A q \in Query : segment'[h][q] = "live" <=> segment[h][q] = "live",
         \A q \in Query :
           \/ stage'[q] = stage[q] /\ todo'[q] = todo[q]
           \/ /\ stage[q] \notin {"clear", "done", "dead"}
              /\ \/ stage'[q] \notin {"clear", "done", "dead"}
                 \/ stage'[q] = "clear" /\ todo'[q] = Hosts(q)
  PROVE  Made' = Made /\ Gone' = Gone
<1>1. Arrays' = Arrays
  BY DEF Arrays, Hosts
<1>2. ASSUME NEW a \in Arrays
      PROVE  a \in Made' <=> a \in Made
  BY <1>1, <1>2, ArrayPairs DEF Made
<1>3. Made' = Made
  BY <1>1, <1>2 DEF Made
<1>4. ASSUME NEW a \in Arrays
      PROVE  a \in Cleared' <=> a \in Cleared
  <2>1. a[2] \in Query /\ a[1] \in Hosts(a[2])
    BY ArrayPairs
  <2>2. a \in Cleared' <=> \/ stage'[a[2]] = "done"
                           \/ stage'[a[2]] \in {"clear", "dead"} /\ a[1] \notin todo'[a[2]]
    BY <1>1 DEF Cleared
  <2>3. a \in Cleared <=> \/ stage[a[2]] = "done"
                          \/ stage[a[2]] \in {"clear", "dead"} /\ a[1] \notin todo[a[2]]
    BY DEF Cleared
  <2> QED
    BY <2>1, <2>2, <2>3
<1>5. Cleared' = Cleared
  BY <1>1, <1>4 DEF Cleared
<1> QED
  BY <1>3, <1>5 DEF Gone

\* The uses of arrays are read from three variables.
LEMMA SameUses ==
  ASSUME UNCHANGED << attached, memPool, pushing >>
  PROVE  Uses' = Uses
<1>1. Pushes' = Pushes
  BY DEF Pushes
<1>2. Mapped' = Mapped
  BY DEF Mapped
<1> QED
  BY <1>1, <1>2 DEF Uses

\* Who uses an array: a graph on its host that reaches it, or one that pushes to it.
UsesArray(e, h, q) ==
  \/ memPool[e] \in attached /\ memPool[e][2] = q /\ h = HostOf[e]
  \/ \E w \in Word : GraphOf[w] = e /\ h \in pushing[w] /\ memPool[e][2] = q

UsersMatch ==
  /\ Uses \subseteq Executor \X (Host \X Query)
  /\ \A e \in Executor : \A h \in Host : \A q \in Query :
       << e, << h, q >> >> \in Uses <=> UsesArray(e, h, q)

\* The users SharedArray is given are the graphs the invariant knows.
LEMMA UsersMatching == IInv => UsersMatch
<1> SUFFICES ASSUME IInv PROVE UsersMatch
  OBVIOUS
<1>1. ASSUME NEW e \in Mapped
      PROVE  << e, << HostOf[e], memPool[e][2] >> >> \in Executor \X (Host \X Query)
  <2>1. e \in Executor /\ memPool[e] \in attached
    BY DEF Mapped
  <2> QED
    BY <2>1, MappedBy, QueryAssumption
<1>2. ASSUME NEW p \in Pushes
      PROVE  /\ p = << p[1], p[2] >> /\ p[1] \in Word /\ p[2] \in Host /\ p[2] \in pushing[p[1]]
             /\ << GraphOf[p[1]], << p[2], memPool[GraphOf[p[1]]][2] >> >>
                  \in Executor \X (Host \X Query)
  <2>1. p = << p[1], p[2] >> /\ p[1] \in Word /\ p[2] \in Host /\ p[2] \in pushing[p[1]]
    BY DEF Pushes
  <2>2. memPool[GraphOf[p[1]]][2] \in Query
    BY <2>1 DEF IInv, Pushing, Running, RunsFor
  <2> QED
    BY <2>1, <2>2, GraphPlace
<1>3. Uses \subseteq Executor \X (Host \X Query)
  BY <1>1, <1>2 DEF Uses
<1>4. ASSUME NEW e \in Executor, NEW h \in Host, NEW q \in Query
      PROVE  << e, << h, q >> >> \in Uses <=> UsesArray(e, h, q)
  <2>1. << e, << h, q >> >> \in Uses <=>
          \/ \E f \in Mapped : << e, << h, q >> >> = << f, << HostOf[f], memPool[f][2] >> >>
          \/ \E p \in Pushes : << e, << h, q >> >> =
                << GraphOf[p[1]], << p[2], memPool[GraphOf[p[1]]][2] >> >>
    BY DEF Uses
  <2>2. (\E f \in Mapped : << e, << h, q >> >> = << f, << HostOf[f], memPool[f][2] >> >>)
          <=> memPool[e] \in attached /\ memPool[e][2] = q /\ h = HostOf[e]
    <3>1. ASSUME NEW f \in Mapped, << e, << h, q >> >> = << f, << HostOf[f], memPool[f][2] >> >>
          PROVE  memPool[e] \in attached /\ memPool[e][2] = q /\ h = HostOf[e]
      <4>1. e = f /\ << h, q >> = << HostOf[f], memPool[f][2] >>
        BY <3>1
      <4> QED
        BY <4>1 DEF Mapped
    <3>2. memPool[e] \in attached => e \in Mapped
      BY DEF Mapped
    <3> QED
      BY <3>1, <3>2
  <2>3. (\E p \in Pushes : << e, << h, q >> >> =
                << GraphOf[p[1]], << p[2], memPool[GraphOf[p[1]]][2] >> >>)
          <=> \E w \in Word : GraphOf[w] = e /\ h \in pushing[w] /\ memPool[e][2] = q
    <3>1. ASSUME NEW p \in Pushes, << e, << h, q >> >> =
                << GraphOf[p[1]], << p[2], memPool[GraphOf[p[1]]][2] >> >>
          PROVE  \E w \in Word : GraphOf[w] = e /\ h \in pushing[w] /\ memPool[e][2] = q
      <4>1. e = GraphOf[p[1]] /\ << h, q >> = << p[2], memPool[GraphOf[p[1]]][2] >>
        BY <3>1
      <4>2. h = p[2] /\ q = memPool[e][2]
        BY <4>1
      <4> QED
        BY <1>2, <4>1, <4>2
    <3>2. ASSUME NEW w \in Word, GraphOf[w] = e, h \in pushing[w], memPool[e][2] = q
          PROVE  \E p \in Pushes : << e, << h, q >> >> =
                   << GraphOf[p[1]], << p[2], memPool[GraphOf[p[1]]][2] >> >>
      <4>1. << w, h >> \in Pushes
        BY <3>2 DEF Pushes
      <4> QED
        BY <3>2, <4>1
    <3> QED
      BY <3>1, <3>2
  <2> QED
    BY <2>1, <2>2, <2>3 DEF UsesArray
<1> QED
  BY <1>3, <1>4 DEF UsersMatch

\* allocate_mem makes the array of its query on its host.
LEMMA AllocateMakes ==
  ASSUME IInv, NEW q \in Query, NEW h \in Host, AllocateMem(q, h)
  PROVE  \E a \in Arrays : Lifetime!Make(a)
<1> DEFINE b == << h, q >>
<1>1. /\ stage[q] = "alloc" /\ h \in todo[q] /\ h \in Hosts(q)
      /\ segment' = [segment EXCEPT ![h][q] = "live"]
      /\ UNCHANGED << attached, memPool, pushing >>
  BY StageType DEF AllocateMem, Calling, executorVars, IInv, HostStages
<1>2. Moved(q) /\ stage'[q] \in {"alloc", "attach"}
  <2>1. "attach" \in Stages
    BY DEF Stages, WordStages
  <2> QED
    BY <1>1, <2>1, AnswerFacts DEF AllocateMem, IInv
<1>3. b \in Arrays /\ Arrays' = Arrays
  BY <1>1 DEF Arrays, Hosts
<1>4. \A a \in Arrays : segment'[a[1]][a[2]] = IF a = b THEN "live" ELSE segment[a[1]][a[2]]
  <2> TAKE a \in Arrays
  <2>1. segment \in [Host -> [Query -> {"none", "live", "marked"}]]
    BY DEF IInv, TypeInv, TypeOK
  <2>2. a = b <=> a[1] = h /\ a[2] = q
    BY ArrayPairs
  <2> QED
    BY <1>1, <2>1, <2>2, ArrayPairs
<1>5. Made' = Made \cup {b}
  BY <1>3, <1>4 DEF Made
<1>6. b \notin Made
  <2>1. Absent(q, h)
    BY <1>1 DEF IInv, ArraysGone, Released
  <2> QED
    BY <2>1 DEF Made, Absent
<1>7. ASSUME NEW a \in Arrays
      PROVE  a \in Gone' <=> a \in Gone
  <2>1. a[2] \in Query /\ (a = b => a[2] = q)
    BY ArrayPairs
  <2>2. a \in Cleared' <=> \/ stage'[a[2]] = "done"
                           \/ stage'[a[2]] \in {"clear", "dead"} /\ a[1] \notin todo'[a[2]]
    BY <1>3 DEF Cleared
  <2>3. a \in Cleared <=> \/ stage[a[2]] = "done"
                          \/ stage[a[2]] \in {"clear", "dead"} /\ a[1] \notin todo[a[2]]
    BY DEF Cleared
  <2>4. CASE a[2] = q
    BY <1>1, <1>2, <2>2, <2>3, <2>4 DEF Gone
  <2>5. CASE a[2] # q
    <3>1. a \in Cleared' <=> a \in Cleared
      BY <1>2, <2>1, <2>2, <2>3, <2>5 DEF Moved
    <3> QED
      BY <1>5, <2>1, <2>5, <3>1 DEF Gone
  <2> QED
    BY <2>4, <2>5
<1>8. Gone' = Gone /\ b \notin Gone
  <2>1. Gone \subseteq Arrays /\ Gone' \subseteq Arrays
    BY <1>3 DEF Gone, Cleared
  <2>2. b \notin Cleared
    BY <1>1 DEF Cleared
  <2> QED
    BY <1>7, <2>1, <2>2 DEF Gone
<1>9. Uses' = Uses
  BY <1>1, SameUses
<1>10. Lifetime!Make(b)
  BY <1>5, <1>6, <1>8, <1>9 DEF Lifetime!Make, Gone
<1> QED
  BY <1>3, <1>10

\* clear_mem removes it, after its last use: a mapping that a repeated key has
\* left is nobody's way to the array.
LEMMA ClearRemoves ==
  ASSUME IInv, NEW q \in Query, NEW h \in Host, ClearMem(q, h)
  PROVE  \E a \in Arrays : Lifetime!Remove(a)
<1> DEFINE b == << h, q >>
<1>1. /\ stage[q] = "clear" /\ h \in todo[q] /\ h \in Hosts(q) /\ todo[q] \subseteq Hosts(q)
      /\ UNCHANGED << attached, memPool, pushing >>
  BY StageType DEF ClearMem, Calling, executorVars, IInv, HostStages
<1>2. /\ Moved(q)
      /\ \/ todo[q] = {h} /\ stage'[q] = "done"
         \/ todo[q] # {h} /\ stage'[q] = "clear" /\ todo'[q] = todo[q] \ {h}
  <2>1. "done" \in Stages
    BY DEF Stages
  <2>2. TypeInv /\ Answer(q, h, "done")
    BY DEF ClearMem, IInv
  <2> QED
    BY <1>1, <2>1, <2>2, AnswerFacts
<1>3. b \in Arrays /\ Arrays' = Arrays
  BY <1>1 DEF Arrays, Hosts
<1>4. PICK s \in {"marked", "none"} : segment' = [segment EXCEPT ![h][q] = s]
  BY DEF ClearMem
<1>5. \A a \in Arrays : segment'[a[1]][a[2]] = IF a = b THEN s ELSE segment[a[1]][a[2]]
  <2> TAKE a \in Arrays
  <2>1. segment \in [Host -> [Query -> {"none", "live", "marked"}]]
    BY DEF IInv, TypeInv, TypeOK
  <2>2. a = b <=> a[1] = h /\ a[2] = q
    BY ArrayPairs
  <2> QED
    BY <1>4, <2>1, <2>2, ArrayPairs
<1>6. Made' = Made \ {b}
  BY <1>3, <1>5 DEF Made
<1>7. b \in Made
  <2>1. Present(q, h)
    BY <1>1 DEF IInv, ArraysThere, Holding
  <2> QED
    BY <1>3, <2>1 DEF Made, Present
<1>8. ASSUME NEW a \in Arrays
      PROVE  a \in Gone' <=> a \in Gone \/ a = b
  <2>1. a[2] \in Query /\ a[1] \in Hosts(a[2]) /\ (a = b <=> a[1] = h /\ a[2] = q)
    BY ArrayPairs
  <2>2. a \in Cleared' <=> \/ stage'[a[2]] = "done"
                           \/ stage'[a[2]] \in {"clear", "dead"} /\ a[1] \notin todo'[a[2]]
    BY <1>3 DEF Cleared
  <2>3. a \in Cleared <=> \/ stage[a[2]] = "done"
                          \/ stage[a[2]] \in {"clear", "dead"} /\ a[1] \notin todo[a[2]]
    BY DEF Cleared
  <2>4. a \in Cleared' <=> a \in Cleared \/ a = b
    <3>1. CASE a[2] = q
      BY <1>1, <1>2, <2>1, <2>2, <2>3, <3>1
    <3>2. CASE a[2] # q
      BY <1>2, <2>1, <2>2, <2>3, <3>2 DEF Moved
    <3> QED
      BY <3>1, <3>2
  <2> QED
    BY <1>6, <2>4 DEF Gone
<1>9. Gone' = Gone \cup {b}
  <2>1. Gone \subseteq Arrays /\ Gone' \subseteq Arrays
    BY <1>3 DEF Gone, Cleared
  <2> QED
    BY <1>3, <1>8, <2>1
<1>10. ASSUME NEW e \in Executor
       PROVE  << e, b >> \notin Uses
  <2>1. ~(memPool[e] \in attached /\ memPool[e][2] = q)
    BY <1>1, MappedBy DEF UnderWay, Allocated
  <2>2. ASSUME NEW w \in Word, GraphOf[w] = e, h \in pushing[w], memPool[e][2] = q
        PROVE  FALSE
    BY <1>1, <2>2 DEF IInv, Pushing, Running, RunsFor
  <2>3. ~UsesArray(e, h, q)
    BY <2>1, <2>2 DEF UsesArray
  <2> QED
    BY <2>3, UsersMatching DEF UsersMatch
<1>11. Uses' = Uses
  BY <1>1, SameUses
<1>12. Lifetime!Remove(b)
  BY <1>6, <1>7, <1>9, <1>10, <1>11 DEF Lifetime!Remove, Gone
<1> QED
  BY <1>3, <1>12

\* A graph that attaches, or opens its pushes, begins to use arrays that were made;
\* one that attaches again goes on using its array.
LEMMA AttachJoins ==
  ASSUME IInv, IInv', NEW q \in Query, NEW w \in Words(q), LoadMemPool(q, w)
  PROVE  \E e \in Executor : Lifetime!Join(e)
<1>1. /\ stage[q] = "attach" /\ w \in todo[q] /\ w \in Word
      /\ UNCHANGED << calc, pushing >>
  BY Places DEF LoadMemPool, Calling
<1>2. Moved(q) /\ stage'[q] \in {"attach", "load"}
  <2>1. "load" \in Stages
    BY DEF Stages, WordStages
  <2>2. TypeInv /\ Answer(q, w, "load")
    BY DEF LoadMemPool, IInv
  <2> QED
    BY <1>1, <2>1, <2>2, AnswerFacts
<1>3. PICK e \in Executor : e = GraphOf[w] /\ HostOf[e] \in Host /\ HostOf[e] \in Hosts(q)
  BY <1>1, GraphPlace, Places
<1>4. /\ memPool'[e] = << w, q >>
      /\ \A f \in Executor : f # e => memPool'[f] = memPool[f]
      /\ attached' = attached \cup {<< w, q >>}
  BY <1>3 DEF LoadMemPool, IInv, TypeInv, TypeOK
<1>5. segment' = [segment EXCEPT ![HostOf[e]][q] = "live"] /\ segment[HostOf[e]][q] = "live"
  BY <1>1, <1>3 DEF LoadMemPool, IInv, ArraysThere, Holding, Allocated, Present
<1>6. Made' = Made /\ Gone' = Gone
  <2>1. segment \in [Host -> [Query -> {"none", "live", "marked"}]]
    BY DEF IInv, TypeInv, TypeOK
  <2>2. \A h \in Host : \A p \in Query : segment'[h][p] = "live" <=> segment[h][p] = "live"
    BY <1>3, <1>5, <2>1
  <2>3. \A p \in Query :
          \/ stage'[p] = stage[p] /\ todo'[p] = todo[p]
          \/ /\ stage[p] \notin {"clear", "done", "dead"}
             /\ stage'[p] \notin {"clear", "done", "dead"}
    BY <1>1, <1>2 DEF Moved
  <2> QED
    BY <2>2, <2>3, SameArrays
<1>7. ASSUME NEW v \in Word, GraphOf[v] = e
      PROVE  pushing[v] = {}
  <2>1. calc[v] # "running"
    <3>1. ASSUME calc[v] = "running"
          PROVE  FALSE
      <4>1. PICK p \in Query : RunsFor(v, p)
        BY <3>1 DEF IInv, Running, RunsFor
      <4>2. p = q
        BY <1>1, <1>3, <1>7, <4>1, OneOnGraph DEF IInv, RunsFor, Idle
      <4> QED
        BY <1>1, <4>1, <4>2 DEF RunsFor
    <3> QED
      BY <3>1
  <2> QED
    BY <2>1 DEF IInv, Pushing
<1>8. UsersMatch /\ UsersMatch'
  BY UsersMatching, PTL
<1>9. ASSUME NEW f \in Executor, NEW h \in Host, NEW p \in Query
      PROVE  /\ UsesArray(f, h, p) => UsesArray(f, h, p)'
             /\ UsesArray(f, h, p)' => UsesArray(f, h, p) \/ (f = e /\ h = HostOf[e] /\ p = q)
  <2>1. CASE f = e
    <3>1. UsesArray(e, h, p)' <=> h = HostOf[e] /\ p = q
      BY <1>1, <1>4, <1>7 DEF UsesArray
    <3>2. UsesArray(e, h, p) => h = HostOf[e] /\ p = q
      <4>1. UsesArray(e, h, p) => memPool[e] \in attached /\ memPool[e][2] = p /\ h = HostOf[e]
        BY <1>7 DEF UsesArray
      <4>2. memPool[e] \in attached /\ memPool[e][2] = p => p = q
        BY <1>1, <1>3, MappedBy, OneOnGraph DEF UnderWay, Allocated, Idle, IInv
      <4> QED
        BY <4>1, <4>2
    <3> QED
      BY <2>1, <3>1, <3>2
  <2>2. CASE f # e
    <3>1. memPool[f] # << w, q >>
      <4>1. ASSUME memPool[f] = << w, q >>
            PROVE  FALSE
        <5>1. memPool[f] # NoPool
          BY <1>1, <4>1, QueryAssumption
        <5>2. OwnPool(f)
          BY <5>1 DEF IInv, Own
        <5> QED
          BY <1>3, <2>2, <4>1, <5>2 DEF OwnPool
      <4> QED
        BY <4>1
    <3> QED
      BY <1>1, <1>4, <2>2, <3>1 DEF UsesArray
  <2> QED
    BY <2>1, <2>2
<1>10. << HostOf[e], q >> \in Made
  BY <1>3, <1>5 DEF Made, Arrays
<1>11. Uses \subseteq Uses' /\ Uses' \ Uses \subseteq {e} \X Made
  BY <1>3, <1>8, <1>9, <1>10 DEF UsersMatch
<1> QED
  BY <1>6, <1>11 DEF Lifetime!Join, Gone

\* A request that starts to push joins the users of its arrays.
LEMMA CallJoins ==
  ASSUME IInv, IInv', NEW q \in Query, NEW w \in Words(q), Call(q, w)
  PROVE  \E e \in Executor : Lifetime!Join(e)
<1>1. /\ stage[q] \in {"load", "round"} /\ w \in todo[q] /\ w \in Word /\ calc[w] = "idle"
      /\ UNCHANGED << stage, todo, memPool, attached, segment >>
  BY Places DEF Call, Calling, queryVars, hostVars
<1>2. /\ pushing'[w] \subseteq Hosts(q) /\ \A v \in Word : v # w => pushing'[v] = pushing[v]
  BY <1>1 DEF Call, IInv, TypeInv, TypeOK
<1>3. Made' = Made /\ Gone' = Gone
  BY <1>1, SameArrays
<1>4. PICK e \in Executor : e = GraphOf[w]
  BY <1>1, GraphPlace
<1>5. pushing[w] = {} /\ memPool[e][2] = q
  BY <1>1, <1>4 DEF IInv, Pushing, Referring, Refers, Loaded
<1>6. UsersMatch /\ UsersMatch'
  BY UsersMatching, PTL
<1>7. ASSUME NEW f \in Executor, NEW h \in Host, NEW p \in Query
      PROVE  /\ UsesArray(f, h, p) => UsesArray(f, h, p)'
             /\ UsesArray(f, h, p)' =>
                  UsesArray(f, h, p) \/ (f = e /\ h \in Hosts(q) /\ p = q)
  BY <1>1, <1>2, <1>4, <1>5 DEF UsesArray
<1>8. ASSUME NEW h \in Host, h \in Hosts(q)
      PROVE  << h, q >> \in Made
  BY <1>1, <1>8 DEF IInv, ArraysThere, Holding, Allocated, Present, Made, Arrays
<1>9. Uses \subseteq Uses' /\ Uses' \ Uses \subseteq {e} \X Made
  BY <1>6, <1>7, <1>8 DEF UsersMatch
<1> QED
  BY <1>3, <1>9 DEF Lifetime!Join, Gone

\* Answers to pushes, flushing and the end of a container only end uses.
LEMMA UsersLeave ==
  ASSUME IInv, IInv',
         /\ Made' = Made /\ Gone' = Gone /\ attached' \subseteq attached /\ memPool' = memPool
         /\ \A w \in Word : pushing'[w] \subseteq pushing[w]
  PROVE  Lifetime!Leave
<1>1. UsersMatch /\ UsersMatch'
  BY UsersMatching, PTL
<1>2. ASSUME NEW e \in Executor, NEW h \in Host, NEW p \in Query, UsesArray(e, h, p)'
      PROVE  UsesArray(e, h, p)
  BY <1>2 DEF UsesArray
<1>3. Uses' \subseteq Uses
  BY <1>1, <1>2 DEF UsersMatch
<1> QED
  BY <1>3 DEF Lifetime!Leave, Gone

\* A container that flushes or ends leaves arrays and joins none, and so does a
\* push that is answered.
LEMMA DetachLeaves ==
  ASSUME IInv, IInv',
         \/ \E q \in Query : \E e \in KeyGraphs(q) : Flush(q, e)
         \/ \E w \in Word, h \in Host : PushAnswered(w, h)
         \/ \E e \in Executor : Kill(e) /\ UNCHANGED << queryVars, memPool, pool, down >>
  PROVE  Lifetime!Leave
<1>1. ASSUME NEW q \in Query, NEW e \in KeyGraphs(q), Flush(q, e)
      PROVE  Lifetime!Leave
  <2>1. /\ stage[q] = "flush" /\ e \in todo[q] /\ Detach(Flushed(e))
        /\ UNCHANGED << memPool, pushing, pool >>
    BY <1>1 DEF Flush, Calling
  <2>2. /\ Moved(q)
        /\ \/ stage'[q] = "clear" /\ todo'[q] = Hosts(q)
           \/ stage'[q] = "flush"
    <3>1. "clear" \in Stages
      BY DEF Stages, HostStages
    <3>2. TypeInv /\ Answer(q, e, "clear")
      BY <1>1 DEF Flush, IInv
    <3> QED
      BY <2>1, <3>1, <3>2, AnswerFacts, CalleesType
  <2>3. /\ attached' \subseteq attached
        /\ \A h \in Host : \A p \in Query : segment'[h][p] = "live" <=> segment[h][p] = "live"
    BY <2>1, DetachFacts
  <2>4. Made' = Made /\ Gone' = Gone
    BY <2>1, <2>2, <2>3, SameArrays DEF Moved
  <2> QED
    BY <2>1, <2>3, <2>4, UsersLeave
<1>2. ASSUME NEW w \in Word, NEW h \in Host, PushAnswered(w, h)
      PROVE  Lifetime!Leave
  <2>1. /\ UNCHANGED << stage, todo, segment, attached, memPool >>
        /\ \A v \in Word : pushing'[v] \subseteq pushing[v]
    BY <1>2 DEF PushAnswered, queryVars, hostVars, IInv, TypeInv, TypeOK
  <2> QED
    BY <2>1, SameArrays, UsersLeave
<1>3. ASSUME NEW e \in Executor, Kill(e), UNCHANGED << queryVars, memPool, pool, down >>
      PROVE  Lifetime!Leave
  <2>1. /\ UNCHANGED << stage, todo, memPool >>
        /\ \A v \in Word : pushing'[v] \subseteq pushing[v]
    BY <1>3 DEF Kill, queryVars, IInv, TypeInv, TypeOK
  <2>2. PICK gone : Detach(gone)
    BY <1>3 DEF Kill
  <2>3. /\ attached' \subseteq attached
        /\ \A h \in Host : \A p \in Query : segment'[h][p] = "live" <=> segment[h][p] = "live"
    BY <1>3, <2>2, DetachFacts
  <2>4. Made' = Made /\ Gone' = Gone
    BY <2>1, <2>3, SameArrays
  <2> QED
    BY <2>1, <2>3, <2>4, UsersLeave
<1> QED
  BY <1>1, <1>2, <1>3

\* All other steps but the death of a query leave the arrays and their users alone.
LEMMA OtherSteps ==
  ASSUME IInv,
         \/ \E q \in Query : \/ Run(q) \/ DispatchRequest(q) \/ LeaveLoop(q)
                             \/ \E w \in Words(q) : Reply(q, w)
         \/ \E q \in Query, w \in Word, h \in Host : MapRace(q, w, h)
         \/ UNCHANGED vars
  PROVE  Made' = Made /\ Gone' = Gone /\ Uses' = Uses
<1>1. ASSUME NEW q \in Query, Run(q) \/ DispatchRequest(q) \/ LeaveLoop(q)
      PROVE  Made' = Made /\ Gone' = Gone /\ Uses' = Uses
  <2>1. /\ UNCHANGED << segment, attached, memPool, pushing >>
        /\ stage[q] \in {"waiting", "head"}
    BY <1>1 DEF Run, DispatchRequest, LeaveLoop, executorVars, hostVars
  <2>2. Moved(q) /\ stage'[q] \in {"alloc", "round", "flush"}
    <3>1. /\ {"alloc", "round", "flush"} \subseteq Stages
          /\ TypeInv /\ (Enter(q, "alloc") \/ Enter(q, "round") \/ Enter(q, "flush"))
      BY <1>1 DEF Run, DispatchRequest, LeaveLoop, IInv, Stages, HostStages, WordStages
    <3> QED
      BY <3>1, EnterFacts
  <2> QED
    BY <2>1, <2>2, SameArrays, SameUses DEF Moved
<1>2. ASSUME NEW q \in Query, NEW w \in Words(q), Reply(q, w)
      PROVE  Made' = Made /\ Gone' = Gone /\ Uses' = Uses
  <2>1. /\ UNCHANGED << segment, attached, memPool, pushing >>
        /\ stage[q] \in {"load", "round"} /\ w \in todo[q]
    BY <1>2 DEF Reply, hostVars
  <2>2. Moved(q) /\ stage'[q] \in {"load", "round", "head"}
    <3>1. "head" \in Stages /\ TypeInv /\ Answer(q, w, "head")
      BY <1>2 DEF Reply, IInv, Stages
    <3> QED
      BY <2>1, <3>1, AnswerFacts
  <2> QED
    BY <2>1, <2>2, SameArrays, SameUses DEF Moved
<1>3. ASSUME NEW q \in Query, NEW w \in Word, NEW h \in Host, MapRace(q, w, h)
      PROVE  Made' = Made /\ Gone' = Gone /\ Uses' = Uses
  <2>1. UNCHANGED << stage, todo, segment, attached, memPool, pushing >>
    BY <1>3 DEF MapRace, queryVars, executorVars
  <2> QED
    BY <2>1, SameArrays, SameUses
<1>4. CASE UNCHANGED vars
  <2>1. UNCHANGED << stage, todo, segment, attached, memPool, pushing >>
    BY <1>4 DEF vars, queryVars, executorVars, hostVars
  <2> QED
    BY <2>1, SameArrays, SameUses
<1> QED
  BY <1>1, <1>2, <1>3, <1>4

\* So does that: its arrays stay for ever.
LEMMA DeathKeepsArrays ==
  ASSUME IInv, NEW q \in Query, QueryDies(q)
  PROVE  Made' = Made /\ Gone' = Gone /\ Uses' = Uses
<1>1. /\ UNCHANGED << todo, segment, attached, memPool, pushing >>
      /\ stage'[q] = "dead" /\ \A p \in Query : p # q => stage'[p] = stage[p]
  BY DEF QueryDies, executorVars, hostVars, IInv, TypeInv, TypeOK
<1>2. stage[q] \notin Idle
  BY StageType DEF QueryDies, IInv, Idle, HostStages, WordStages
<1>3. Arrays' = Arrays /\ Made' = Made
  BY <1>1 DEF Arrays, Hosts, Made
<1>4. ASSUME NEW a \in Arrays, a \notin Made
      PROVE  a \in Cleared' <=> a \in Cleared
  <2>1. a[2] \in Query /\ a[1] \in Hosts(a[2]) /\ a[1] \in Host
    BY ArrayPairs
  <2>2. a \in Cleared' <=> \/ stage'[a[2]] = "done"
                           \/ stage'[a[2]] \in {"clear", "dead"} /\ a[1] \notin todo'[a[2]]
    BY <1>3 DEF Cleared
  <2>3. a \in Cleared <=> \/ stage[a[2]] = "done"
                          \/ stage[a[2]] \in {"clear", "dead"} /\ a[1] \notin todo[a[2]]
    BY DEF Cleared
  <2>4. ~Present(a[2], a[1])
    BY <1>4 DEF Made, Present
  <2>5. CASE a[2] = q
    <3>1. stage[q] \in {"alloc", "clear", "dead"}
      BY <1>2, <2>1, <2>4, <2>5, StageType DEF IInv, ArraysThere, Holding, Allocated, Idle
    <3>2. stage[q] = "alloc" => a[1] \in todo[q]
      BY <2>1, <2>4, <2>5 DEF IInv, ArraysThere, Holding
    <3> QED
      BY <1>1, <2>2, <2>3, <2>5, <3>1, <3>2
  <2>6. CASE a[2] # q
    BY <1>1, <2>1, <2>2, <2>3, <2>6
  <2> QED
    BY <2>5, <2>6
<1>5. Gone' = Gone
  BY <1>3, <1>4 DEF Gone, Cleared
<1> QED
  BY <1>1, <1>3, <1>5, SameUses

\* Every array is made once, whoever reaches it or pushes to it finds it made,
\* and it is removed once, when nobody does: for every interleaving of the
\* coordinators' calls, also when hosts, containers and queries die, and when a
\* repeated key has left a mapping that nobody reaches any more.
THEOREM QueryImplementsSharedArray == Spec => ImplementsSharedArray
<1>1. Init => Lifetime!Init
  <2> SUFFICES ASSUME Init PROVE Made = {} /\ Gone = {} /\ Uses = {}
    BY DEF Lifetime!Init, Gone
  <2>1. Made = {} /\ Cleared = {}
    BY ArrayPairs DEF Init, Made, Cleared
  <2>2. Pushes = {} /\ Mapped = {}
    BY DEF Init, Pushes, Mapped
  <2> QED
    BY <2>1, <2>2 DEF Uses, Gone
<1>2. IInv /\ IInv' /\ [Next]_vars => [Lifetime!Next]_(Lifetime!vars)
  <2> SUFFICES ASSUME IInv, IInv', [Next]_vars
               PROVE  Lifetime!Next \/ UNCHANGED Lifetime!vars
    OBVIOUS
  <2>1. Made' = Made /\ Gone' = Gone /\ Uses' = Uses => UNCHANGED Lifetime!vars
    BY DEF Lifetime!vars, Gone
  <2>2. ASSUME NEW q \in Query, Run(q) \/ Coordinator(q)
        PROVE  Lifetime!Next \/ UNCHANGED Lifetime!vars
    <3>1. CASE Run(q) \/ DispatchRequest(q) \/ LeaveLoop(q)
      BY <2>1, <3>1, OtherSteps
    <3>2. CASE QueryDies(q)
      BY <2>1, <3>2, DeathKeepsArrays
    <3>3. ASSUME NEW h \in Hosts(q), AllocateMem(q, h) \/ ClearMem(q, h)
          PROVE  Lifetime!Next
      BY <3>3, Places, AllocateMakes, ClearRemoves DEF Lifetime!Next
    <3>4. ASSUME NEW w \in Words(q), LoadMemPool(q, w) \/ Call(q, w)
          PROVE  Lifetime!Next
      BY <3>4, AttachJoins, CallJoins DEF Lifetime!Next
    <3>5. ASSUME NEW e \in KeyGraphs(q), Flush(q, e) \/ FlushDies(q, e)
          PROVE  Lifetime!Next
      BY <3>5, DeathKeeps, DetachLeaves DEF Lifetime!Next
    <3>6. ASSUME NEW w \in Words(q), Reply(q, w)
          PROVE  UNCHANGED Lifetime!vars
      BY <2>1, <3>6, OtherSteps
    <3> QED
      BY <2>2, <3>1, <3>2, <3>3, <3>4, <3>5, <3>6 DEF Coordinator
  <2>3. ASSUME NEW w \in Word, Calculate(w)
        PROVE  Lifetime!Next
    BY <2>3, DeathKeeps, DetachLeaves DEF Calculate, Lifetime!Next
  <2>4. ASSUME NEW q \in Query, NEW v \in Words(q), NEW w \in Words(q), MetricsRace(q, v, w)
        PROVE  Lifetime!Next
    BY <2>4, DeathKeeps, DetachLeaves DEF Lifetime!Next
  <2>5. CASE (\E q \in Query, w \in Word, h \in Host : MapRace(q, w, h)) \/ UNCHANGED vars
    BY <2>1, <2>5, OtherSteps
  <2> QED
    BY <2>2, <2>3, <2>4, <2>5 DEF Next
<1> QED
  BY <1>1, <1>2, QueryInvariant, PTL DEF Spec, ImplementsSharedArray, Lifetime!Spec
=============================================================================
