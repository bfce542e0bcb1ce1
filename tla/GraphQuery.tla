------------------------------ MODULE GraphQuery ------------------------------
(***************************************************************************)
(* The life of queries and of their shared vertex arrays: the coordinator's*)
(* run (graph_coordinator/src/container_set.go) drives the executors of a  *)
(* container set and the local_manager of every host through allocation,   *)
(* attaching, loading, rounds, flushing and clearing.  Queries of several  *)
(* sets share the hosts; queries of one set follow each other on the same  *)
(* executors.  What is computed is abstracted to whether vertices are      *)
(* still active.                                                           *)
(***************************************************************************)
EXTENDS Integers, FiniteSets

CONSTANTS
  Query, ContainerSet,
  SetOf,        \* the container set a query runs on
  Executor,     \* the graphs the executors hold
  ExecutorsOf,  \* those of a container set
  Container,
  ContainerOf,  \* the container of a graph
  Host,
  HostOf,       \* the host of a graph
  HostsOf,      \* s.WorkerIPList
  Word,         \* the words of START_NODES: several of a set may name one key
  WordsOf,      \* those of a container set
  GraphOf,      \* the graph of the key of a word, in the container KeyContainer has for it
  RoundLimit,   \* round_limit of a query, 0 for none
  NoChange,     \* no_change of a query
  Workload,     \* the sets of queries that clients may send
  MapRaces,     \* whether an unlocked access to a map may be fatal
  NoPool

\* A graph that no word leads to was loaded for a key that another container has too.
ASSUME QueryAssumption ==
  /\ SetOf \in [Query -> ContainerSet]
  /\ ExecutorsOf \in [ContainerSet -> SUBSET Executor]
  /\ \A s, t \in ContainerSet : s # t => ExecutorsOf[s] \cap ExecutorsOf[t] = {}
  /\ ContainerOf \in [Executor -> Container]
  /\ HostOf \in [Executor -> Host]
  /\ \A e, f \in Executor : ContainerOf[e] = ContainerOf[f] =>
       /\ HostOf[e] = HostOf[f]
       /\ \A s \in ContainerSet : e \in ExecutorsOf[s] <=> f \in ExecutorsOf[s]
  /\ HostsOf \in [ContainerSet -> SUBSET Host]
  /\ \A s \in ContainerSet : \A e \in ExecutorsOf[s] : HostOf[e] \in HostsOf[s]
  /\ WordsOf \in [ContainerSet -> (SUBSET Word) \ {{}}]
  /\ GraphOf \in [Word -> Executor]
  /\ \A s \in ContainerSet : \A w \in Word : w \in WordsOf[s] <=> GraphOf[w] \in ExecutorsOf[s]
  /\ Workload \subseteq SUBSET Query
  /\ RoundLimit \in [Query -> Nat] /\ NoChange \in [Query -> BOOLEAN]
  /\ MapRaces \in BOOLEAN /\ NoPool \notin Word \X Query

VARIABLES
  stage,     \* where the coordinator's run of every query is
  todo,      \* hosts, words or graphs whose call of this stage is not answered yet
  round,     \* rounds dispatched, counted up to RoundLimit + 1
  active,    \* ~activeSet.Empty()
  calc,      \* what the executor of a word does for it
  memPool,   \* the mapping graph.memPool refers to, named by the call that made it
  attached,  \* the mappings of arrays there are: shmat, until shmdt
  pushing,   \* hosts to which set_vertex_info of a word's call is open
  pool,      \* local_manager's pool of every host
  segment,   \* the System V segments of a query on a host
  down       \* hosts whose local_manager ended in a fatal error

queryVars == << stage, todo, round, active >>
executorVars == << calc, memPool, attached, pushing >>
hostVars == << pool, segment, down >>
vars == << queryVars, executorVars, hostVars >>

Executors(q) == ExecutorsOf[SetOf[q]]
Words(q) == WordsOf[SetOf[q]]
Hosts(q) == HostsOf[SetOf[q]]

\* The graphs of the keys of s.KeyContainer.
KeyGraphs(q) == { GraphOf[w] : w \in Words(q) }

Inmates(e) == { f \in Executor : ContainerOf[f] = ContainerOf[e] }
WordsIn(e) == { w \in Word : GraphOf[w] \in Inmates(e) }
Dead(e) == \E w \in WordsIn(e) : calc[w] = "dead"

HostStages == {"alloc", "clear"}
WordStages == {"attach", "load", "round"}
Stages == HostStages \cup WordStages \cup {"waiting", "head", "flush", "done", "dead"}

\* Whom a stage calls: flush goes to a container for each of its keys.  Faulty: to hosts.
CalleesFlushHosts(q, st) ==
  IF st \in HostStages \cup {"flush"} THEN Hosts(q)
  ELSE IF st \in WordStages THEN Words(q) ELSE {}
Callees(q, st) ==
  IF st \in HostStages THEN Hosts(q)
  ELSE IF st \in WordStages THEN Words(q)
  ELSE IF st = "flush" THEN KeyGraphs(q) ELSE {}

Enter(q, st) ==
  /\ stage' = [stage EXCEPT ![q] = st]
  /\ todo' = [todo EXCEPT ![q] = Callees(q, st)]

\* wg.Wait: the stage ends with its last answer; faulty: with any answer.
LastAnswerAny(q, x) == TRUE
LastAnswer(q, x) == todo[q] = {x}

Answer(q, x, next) ==
  IF LastAnswer(q, x)
    THEN Enter(q, next)
    ELSE todo' = [todo EXCEPT ![q] = @ \ {x}] /\ UNCHANGED stage

Calling(q, st, x) == stage[q] = st /\ x \in todo[q]

\* Mappings go; a segment marked for removal goes with its last one.
OnHost(atts, h, q) == \E w \in Word : HostOf[GraphOf[w]] = h /\ << w, q >> \in atts
Detach(gone) ==
  /\ attached' = attached \ gone
  /\ segment' = [h \in Host |-> [q \in Query |->
                   IF segment[h][q] = "marked" /\ ~OnHost(attached \ gone, h, q)
                     THEN "none" ELSE segment[h][q]]]

\* The container of a graph ends, and the kernel detaches its segments.
Kill(e) ==
  /\ calc' = [w \in Word |-> IF w \in WordsIn(e) THEN "dead" ELSE calc[w]]
  /\ pushing' = [w \in Word |-> IF w \in WordsIn(e) THEN {} ELSE pushing[w]]
  /\ Detach({ m \in attached : m[1] \in WordsIn(e) })

-----------------------------------------------------------------------------
\* The controller posts /run once the set is this query's alone; a set whose
\* query died is never put back.
Run(q) ==
  /\ stage[q] = "waiting"
  /\ \E sent \in Workload : { p \in Query : p = q \/ stage[p] # "waiting" } \subseteq sent
  /\ \A p \in Query : SetOf[p] = SetOf[q] => stage[p] \in {"waiting", "done"}
  /\ Enter(q, "alloc")
  /\ UNCHANGED << round, active, executorVars, hostVars >>

\* NewMemPool: shmget with IPC_CREAT, then the pool entry.
AllocateMem(q, h) ==
  /\ Calling(q, "alloc", h) /\ h \notin down
  /\ segment' = [segment EXCEPT ![h][q] = "live"]
  /\ pool' = [pool EXCEPT ![h] = @ \cup {q}]
  /\ Answer(q, h, "attach")
  /\ UNCHANGED << round, active, executorVars, down >>

\* NewSharedMemPool creates the segment too if it does not exist.  A second call for the
\* same graph attaches again and puts its mapping in the place of the first.
LoadMemPool(q, w) ==
  /\ Calling(q, "attach", w)
  /\ memPool' = [memPool EXCEPT ![GraphOf[w]] = << w, q >>]
  /\ attached' = attached \cup {<< w, q >>}
  /\ segment' = [segment EXCEPT ![HostOf[GraphOf[w]]][q] = "live"]
  /\ Answer(q, w, "load")
  /\ UNCHANGED << round, active, calc, pushing, pool, down >>

\* LoadMem and Run of the executor open a push to every other host ...
Call(q, w) ==
  /\ Calling(q, "load", w) \/ Calling(q, "round", w)
  /\ calc[w] = "idle"
  /\ calc' = [calc EXCEPT ![w] = "running"]
  /\ pushing' = [pushing EXCEPT ![w] = Hosts(q) \ {HostOf[GraphOf[w]]}]
  /\ UNCHANGED << queryVars, memPool, attached, hostVars >>

\* ... compute and close the writers: setVertexInfo has read the end of the
\* pipe and answers.
PushAnswered(w, h) ==
  /\ h \in pushing[w] \ down
  /\ pushing' = [pushing EXCEPT ![w] = @ \ {h}]
  /\ UNCHANGED << queryVars, calc, memPool, attached, hostVars >>

\* wg.Wait in LoadMem and gas; faulty: it is left out.
PushesIgnored(w) == TRUE
PushesAnswered(w) == pushing[w] = {}

\* The answer with the activated vertices.  After loading some vertices are
\* active or none; after a round the union of the answers counts unless
\* NoChange.
Reply(q, w) ==
  /\ stage[q] \in {"load", "round"} /\ w \in todo[q]
  /\ calc[w] = "running"
  /\ PushesAnswered(w)
  /\ calc' = [calc EXCEPT ![w] = "idle"]
  /\ Answer(q, w, "head")
  /\ \E a \in BOOLEAN :
       active' = [active EXCEPT ![q] = IF ~LastAnswer(q, w) \/ (stage[q] = "round" /\ NoChange[q])
                                          THEN @ ELSE a]
  /\ UNCHANGED << round, memPool, attached, pushing, hostVars >>

\* "s.RoundLimit > 0 && round > s.RoundLimit" after round++; faulty: no limit.
LimitIgnored(q) == FALSE
LimitReached(q) == RoundLimit[q] > 0 /\ round[q] + 1 > RoundLimit[q]

DispatchRequest(q) ==
  /\ stage[q] = "head"
  /\ active[q] /\ ~LimitReached(q)
  /\ round' = [round EXCEPT ![q] = IF @ > RoundLimit[q] THEN @ ELSE @ + 1]
  /\ Enter(q, "round")
  /\ UNCHANGED << active, executorVars, hostVars >>

LeaveLoop(q) ==
  /\ stage[q] = "head"
  /\ ~active[q] \/ LimitReached(q)
  /\ Enter(q, "flush")
  /\ UNCHANGED << round, active, executorVars, hostVars >>

\* The container of e detaches the mapping of every graph it holds; the second flush of a
\* container with two keys finds nothing.  Faulty: it detaches one of its graphs only.
FlushedOne(e) == {memPool[CHOOSE f \in Inmates(e) : TRUE]}
Flushed(e) == { memPool[f] : f \in Inmates(e) }

Flush(q, e) ==
  /\ Calling(q, "flush", e) /\ ~Dead(e)
  /\ \A f \in Inmates(e) : memPool[f] # NoPool
  /\ Detach(Flushed(e))
  /\ Answer(q, e, "clear")
  /\ UNCHANGED << round, active, calc, memPool, pushing, pool, down >>

\* A graph without pool has no mapping to detach: DetachSharedMemPool dereferences nil.
FlushDies(q, e) ==
  /\ Calling(q, "flush", e) /\ ~Dead(e)
  /\ \E f \in Inmates(e) : memPool[f] = NoPool
  /\ Kill(e)
  /\ UNCHANGED << queryVars, memPool, pool, down >>

\* The pool of a host after clear_mem; faulty: the entry is not deleted.
ClearedPoolKept(q, h) == pool[h]
ClearedPool(q, h) == pool[h] \ {q}

\* IPC_RMID: the segment goes when nobody has it attached, and is only marked
\* otherwise.
ClearMem(q, h) ==
  /\ Calling(q, "clear", h) /\ h \notin down
  /\ segment' = [segment EXCEPT ![h][q] =
                   IF OnHost(attached, h, q) THEN "marked" ELSE "none"]
  /\ pool' = [pool EXCEPT ![h] = ClearedPool(q, h)]
  /\ Answer(q, h, "done")
  /\ UNCHANGED << round, active, executorVars, down >>

-----------------------------------------------------------------------------
(***************************************************************************)
(* setVertexInfo reads the pool map without poolLock.  A read during the   *)
(* map write of another query's allocate_mem or clear_mem may be detected  *)
(* by the Go runtime, which then ends the process.                         *)
(***************************************************************************)
MapRace(q, w, h) ==
  /\ MapRaces
  /\ Calling(q, "alloc", h) \/ Calling(q, "clear", h)
  /\ h \in pushing[w] \ down
  /\ memPool[GraphOf[w]][2] # q
  /\ down' = down \cup {h}
  /\ UNCHANGED << queryVars, executorVars, pool, segment >>

\* So are two calls of one graph that write graph.performance, a map without lock.
MetricsRace(q, v, w) ==
  /\ MapRaces
  /\ Calling(q, "round", v) /\ Calling(q, "round", w) /\ v # w
  /\ GraphOf[v] = GraphOf[w]
  /\ calc[v] = "running" /\ calc[w] = "running"
  /\ Kill(GraphOf[w])
  /\ UNCHANGED << queryVars, memPool, pool, down >>

\* pushVertexVals dereferences the nil answer: the container ends.
ContainerDies(w) ==
  /\ pushing[w] \cap down # {}
  /\ Kill(GraphOf[w])
  /\ UNCHANGED << queryVars, memPool, pool, down >>

\* run panics on a call to a dead executor or a dead local_manager: the query
\* is never flushed nor cleared; todo keeps the calls that were not answered.
QueryDies(q) ==
  /\ \/ stage[q] \in WordStages /\ \E w \in Words(q) : w \in todo[q] /\ calc[w] = "dead"
     \/ stage[q] = "flush" /\ \E e \in KeyGraphs(q) : e \in todo[q] /\ Dead(e)
     \/ stage[q] \in HostStages /\ todo[q] \cap down # {}
  /\ stage' = [stage EXCEPT ![q] = "dead"]
  /\ UNCHANGED << todo, round, active, executorVars, hostVars >>

-----------------------------------------------------------------------------
Init ==
  /\ stage = [q \in Query |-> "waiting"]
  /\ todo = [q \in Query |-> {}]
  /\ round = [q \in Query |-> 0]
  /\ active = [q \in Query |-> FALSE]
  /\ calc = [w \in Word |-> "idle"]
  /\ memPool = [e \in Executor |-> NoPool]
  /\ attached = {}
  /\ pushing = [w \in Word |-> {}]
  /\ pool = [h \in Host |-> {}]
  /\ segment = [h \in Host |-> [q \in Query |-> "none"]]
  /\ down = {}

Coordinator(q) ==
  \/ \E h \in Hosts(q) : AllocateMem(q, h) \/ ClearMem(q, h)
  \/ \E w \in Words(q) : LoadMemPool(q, w) \/ Call(q, w) \/ Reply(q, w)
  \/ \E e \in KeyGraphs(q) : Flush(q, e) \/ FlushDies(q, e)
  \/ DispatchRequest(q) \/ LeaveLoop(q) \/ QueryDies(q)

Calculate(w) ==
  \/ \E h \in Host : PushAnswered(w, h)
  \/ ContainerDies(w)

Next ==
  \/ \E q \in Query : Run(q) \/ Coordinator(q)
  \/ \E w \in Word : Calculate(w)
  \/ \E q \in Query, w \in Word, h \in Host : MapRace(q, w, h)
  \/ \E q \in Query : \E v, w \in Words(q) : MetricsRace(q, v, w)

Spec == Init /\ [][Next]_vars

\* Coordinators and the executors of every set keep running and calls return.
Fairness == /\ \A q \in Query : WF_vars(Coordinator(q))
            /\ \A s \in ContainerSet : WF_vars(\E w \in WordsOf[s] : Calculate(w))
FairSpec == Spec /\ Fairness
-----------------------------------------------------------------------------
\* TypeOK.  A stage waits only for those it has called.
TypeOK ==
  /\ stage \in [Query -> Stages]
  /\ \A q \in Query :
       todo[q] \subseteq IF stage[q] \in HostStages THEN Hosts(q)
                        ELSE IF stage[q] \in WordStages THEN Words(q)
                        ELSE IF stage[q] = "flush" THEN KeyGraphs(q)
                        ELSE IF stage[q] = "dead" THEN Hosts(q) \cup Words(q) \cup KeyGraphs(q)
                        ELSE {}
  /\ round \in [Query -> Nat] /\ active \in [Query -> BOOLEAN]
  /\ calc \in [Word -> {"idle", "running", "dead"}]
  /\ memPool \in [Executor -> (Word \X Query) \cup {NoPool}]
  /\ attached \subseteq Word \X Query
  /\ pushing \in [Word -> SUBSET Host]
  /\ pool \in [Host -> SUBSET Query]
  /\ segment \in [Host -> [Query -> {"none", "live", "marked"}]]
  /\ down \subseteq Host

\* PushHasPool.  setVertexInfo looks the request of a push up in the pool and
\* calls through the result unconditionally: as long as a push is open, its
\* query must be in the pool of the host and the array must exist.
PushHasPool ==
  \A w \in Word : \A h \in pushing[w] \ down :
    LET q == memPool[GraphOf[w]][2]
    IN  q \in pool[h] /\ segment[h][q] = "live"

\* ArraysAttached.  A call reads and writes the arrays of graph.memPool through
\* plain pointers: while it runs they are those of the query that called it,
\* attached and not removed, whatever the other queries of the set did before.
ArraysAttached ==
  \A w \in Word : calc[w] = "running" =>
    LET m == memPool[GraphOf[w]]
        q == m[2]
    IN  /\ m \in attached
        /\ segment[HostOf[GraphOf[w]]][q] = "live"
        /\ w \in Words(q) /\ stage[q] \in {"load", "round", "dead"}
        /\ stage[q] # "dead" => w \in todo[q]

\* NothingLeft.  When the coordinator reports the end of a query, no host keeps a pool entry
\* of it, and a segment only as long as a mapping of it: of the mappings of each graph at
\* least one is gone, so all are where every word names a key of its own.
NothingLeft ==
  \A q \in Query : stage[q] = "done" =>
    /\ \A h \in Host : /\ q \notin pool[h]
                       /\ segment[h][q] # "none" =>
                            segment[h][q] = "marked" /\ OnHost(attached, h, q)
    /\ \A e \in KeyGraphs(q) : \E w \in Word : GraphOf[w] = e /\ << w, q >> \notin attached

\* ImplementsSharedArray.  An array is made once, used only while it exists and
\* removed after its last use.  The users of the array of a query on a host are
\* the graphs there that reach it by their pool and those of other hosts that
\* push to it.
Arrays == { a \in Host \X Query : a[1] \in Hosts(a[2]) }
Made == { a \in Arrays : segment[a[1]][a[2]] = "live" }
Cleared == { a \in Arrays :
  \/ stage[a[2]] = "done"
  \/ stage[a[2]] \in {"clear", "dead"} /\ a[1] \notin todo[a[2]] }
Mapped == { e \in Executor : memPool[e] \in attached }
Pushes == { p \in Word \X Host : p[2] \in pushing[p[1]] }
Uses == { << e, << HostOf[e], memPool[e][2] >> >> : e \in Mapped }
        \cup { << GraphOf[p[1]], << p[2], memPool[GraphOf[p[1]]][2] >> >> : p \in Pushes }
Lifetime == INSTANCE SharedArray WITH
  Array <- Arrays, User <- Executor,
  made <- Made, removed <- Cleared \ Made, using <- Uses
ImplementsSharedArray == Lifetime!Spec

\* QueryEnds.  A query with a round limit ends, whatever the application activates, also when
\* NO_CHANGE keeps the active set for ever; it dies only if one of its hosts has lost its
\* local_manager or START_NODES names a key twice.
DistinctKeys(s) == \A e \in ExecutorsOf[s] : \E w \in Word : { v \in Word : GraphOf[v] = e } = {w}
QueryEnds ==
  \A q \in Query : RoundLimit[q] > 0 =>
    (stage[q] = "alloc" ~> \/ stage[q] = "done"
                           \/ /\ stage[q] = "dead"
                              /\ Hosts(q) \cap down # {} \/ ~DistinctKeys(SetOf[q]))
=============================================================================
