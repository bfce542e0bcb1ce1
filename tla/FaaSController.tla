---------------------------- MODULE FaaSController ----------------------------
(***************************************************************************)
(* faas_controller: request handlers (application/graph.go) take container *)
(* sets from the resource manager of their application and graph           *)
(* (faas/app_resource_manager.go), load them (faas/container_set.go), run  *)
(* a query and put the set back; one recycler per manager destroys sets    *)
(* that were idle too long.  The ledger they all draw on is Cluster.       *)
(* m.mutex is held over a whole critical section, so each one is an action *)
(* that finds managerLock free; a panic under it leaves it locked.         *)
(***************************************************************************)
EXTENDS Cluster

CONSTANTS
  Request,      \* the /run_graph requests the clients send
  Manager,      \* the keys of Managers: one per graph and application
  ManagerOf,    \* the manager that serves a request
  DemandOf,     \* a manager's MAX_SLOT_PER_CONTAINER and its graph's PARTITION
  QueueLength,  \* QUEUE_LENGTH
  IdleLimit,    \* ALLOW_IDLE_TIME, in steps of the clock
  RunMayFail,   \* whether a coordinator may fail to answer /run
  NoSet

ASSUME ControllerAssumption ==
  /\ ManagerOf \in [Request -> Manager]
  /\ DemandOf \in [Manager -> Demand]
  /\ QueueLength \in Nat /\ IdleLimit \in Nat
  /\ RunMayFail \in BOOLEAN
  /\ NoSet \notin Holder /\ NoSet \notin Request

VARIABLES
  pc,           \* where the handler of every request is
  using,        \* the container set a handler waits for or works on
  managerLock,  \* m.mutex: "free", or "stuck" after a panic or behind a stuck cluster
  freePool,     \* m.freeContainerPool, a stack
  available,    \* m.availableContainerPool
  removing,     \* the recycler's local list "remove"
  waitQueue,    \* containerSet.waitQueue: the waiting requests, oldest first
  signalled,    \* waiters whose channel holds a value
  age,          \* time since containerSet.LastUsed, up to IdleLimit + 1
  onHost        \* addresses at which containers of a set exist on the hosts

handlerVars == << pc, using, signalled >>
poolVars == << managerLock, freePool, available, removing, waitQueue >>
vars == << clusterVars, handlerVars, poolVars, age, onHost >>

PCs == {"idle", "get", "sleep", "wait", "load", "create", "run", "put",
        "done", "panicked", "blocked"}

TryGet(r) == pc[r] = "get" /\ managerLock[ManagerOf[r]] = "free"
Goto(r, l) == pc' = [pc EXCEPT ![r] = l]

-----------------------------------------------------------------------------
(***************************************************************************)
(* GetContainerSet and the retry loop of Execute around it.                *)
(***************************************************************************)
Arrive(r) ==
  /\ pc[r] = "idle"
  /\ Goto(r, "get")
  /\ UNCHANGED << clusterVars, using, signalled, poolVars, age, onHost >>

\* What is left of the stack when its top is taken; faulty: the top stays.
PoppedNothing(stack) == stack
Popped(stack) == Front(stack)

\* A free set is taken from the top of the stack.
GetFree(r) ==
  LET m == ManagerOf[r]
      s == Last(freePool[m])
  IN  /\ TryGet(r)
      /\ freePool[m] # << >>
      /\ freePool' = [freePool EXCEPT ![m] = Popped(@)]
      /\ available' = [available EXCEPT ![m] = @ \cup {s}]
      /\ age' = [age EXCEPT ![s] = 0]
      /\ using' = [using EXCEPT ![r] = s]
      /\ Goto(r, "run")
      /\ UNCHANGED << clusterVars, signalled, managerLock, removing, waitQueue, onHost >>

\* The sets with the shortest queue, if it is below QUEUE_LENGTH; faulty: the
\* limit is one too small.
JoinableOffByOne(m) ==
  { s \in available[m] :
      /\ Len(waitQueue[s]) < QueueLength - 1
      /\ \A t \in available[m] : Len(waitQueue[s]) <= Len(waitQueue[t]) }
Joinable(m) ==
  { s \in available[m] :
      /\ Len(waitQueue[s]) < QueueLength
      /\ \A t \in available[m] : Len(waitQueue[s]) <= Len(waitQueue[t]) }

JoinQueue(r) ==
  /\ TryGet(r)
  /\ freePool[ManagerOf[r]] = << >>
  /\ \E s \in Joinable(ManagerOf[r]) :
       /\ waitQueue' = [waitQueue EXCEPT ![s] = Append(@, r)]
       /\ using' = [using EXCEPT ![r] = s]
  /\ Goto(r, "wait")
  /\ UNCHANGED << clusterVars, signalled, managerLock, freePool, available, removing,
                  age, onHost >>

\* "<-ch" returns.
Wake(r) ==
  /\ pc[r] = "wait"
  /\ r \in signalled
  /\ signalled' = signalled \ {r}
  /\ Goto(r, "run")
  /\ UNCHANGED << clusterVars, using, poolVars, age, onHost >>

NeedsNew(r) ==
  /\ TryGet(r)
  /\ freePool[ManagerOf[r]] = << >>
  /\ Joinable(ManagerOf[r]) = {}

NewContainerSet(r) ==
  LET m == ManagerOf[r]
  IN  /\ NeedsNew(r)
      /\ \E s \in Holder :
           /\ granted[s] = {}
           /\ Get(s, DemandOf[m])
           /\ available' = [available EXCEPT ![m] = @ \cup {s}]
           /\ using' = [using EXCEPT ![r] = s]
      /\ Goto(r, "load")
      /\ UNCHANGED << signalled, managerLock, freePool, removing, waitQueue, age, onHost >>

\* No slots are left: Execute sleeps and tries again.
NoResource(r) ==
  /\ NeedsNew(r)
  /\ Refuses(DemandOf[ManagerOf[r]])
  /\ Goto(r, "sleep")
  /\ UNCHANGED << clusterVars, using, signalled, poolVars, age, onHost >>

Retry(r) ==
  /\ pc[r] = "sleep"
  /\ Goto(r, "get")
  /\ UNCHANGED << clusterVars, using, signalled, poolVars, age, onHost >>

\* A panic in Cluster.Get ends the handler with m.mutex and cond.L locked.
GetPanic(r) ==
  /\ NeedsNew(r)
  /\ GetPanics(DemandOf[ManagerOf[r]])
  /\ managerLock' = [managerLock EXCEPT ![ManagerOf[r]] = "stuck"]
  /\ Goto(r, "panicked")
  /\ UNCHANGED << using, signalled, freePool, available, removing, waitQueue, age, onHost >>

\* Any other handler that needs the ledger then blocks with its m.mutex held.
GetBlocked(r) ==
  /\ NeedsNew(r)
  /\ clusterLock = "stuck"
  /\ managerLock' = [managerLock EXCEPT ![ManagerOf[r]] = "stuck"]
  /\ Goto(r, "blocked")
  /\ UNCHANGED << clusterVars, using, signalled, freePool, available, removing, waitQueue,
                  age, onHost >>

-----------------------------------------------------------------------------
(***************************************************************************)
(* LoadGraph: the set's containers and its coordinator are created         *)
(* concurrently.  local_manager starts a container again and again until   *)
(* its port is free on the host.                                           *)
(***************************************************************************)
LoadGraph(r) ==
  /\ pc[r] = "load"
  /\ age' = [age EXCEPT ![using[r]] = 0]
  /\ Goto(r, "create")
  /\ UNCHANGED << clusterVars, using, signalled, poolVars, onHost >>

CreateContainer(r, a) ==
  /\ pc[r] = "create"
  /\ a \in Addresses(using[r]) \ onHost[using[r]]
  /\ \A s \in Holder : a \notin onHost[s]
  /\ onHost' = [onHost EXCEPT ![using[r]] = @ \cup {a}]
  /\ UNCHANGED << clusterVars, handlerVars, poolVars, age >>

\* The containers wg waits for; faulty: no wg.Add for the coordinator.
AwaitedWorkers(s) == Addresses(s) \ coordinator[s]
Awaited(s) == Addresses(s)

\* wg.Wait: every container is up and has its keys.
Loaded(r) ==
  /\ pc[r] = "create"
  /\ Awaited(using[r]) \subseteq onHost[using[r]]
  /\ Goto(r, "run")
  /\ UNCHANGED << clusterVars, using, signalled, poolVars, age, onHost >>

-----------------------------------------------------------------------------
(***************************************************************************)
(* Run and PutContainerSet.                                                *)
(***************************************************************************)
RunDone(r) ==
  /\ pc[r] = "run"
  /\ Goto(r, "put")
  /\ UNCHANGED << clusterVars, using, signalled, poolVars, age, onHost >>

\* http.Post fails and Run dereferences the nil answer: the handler is gone
\* before PutContainerSet.
RunFails(r) ==
  /\ RunMayFail
  /\ pc[r] = "run"
  /\ Goto(r, "panicked")
  /\ UNCHANGED << clusterVars, using, signalled, poolVars, age, onHost >>

\* NextQueue: signal the oldest waiter.  Faulty: the newest is signalled, the
\* oldest is dropped without a signal, or it stays in the queue.
NextQueueNewest(s) ==
  /\ signalled' = signalled \cup {Last(waitQueue[s])}
  /\ waitQueue' = [waitQueue EXCEPT ![s] = Front(@)]
NextQueueDropped(s) ==
  /\ waitQueue' = [waitQueue EXCEPT ![s] = Tail(@)]
  /\ UNCHANGED signalled
NextQueueKept(s) ==
  /\ signalled' = signalled \cup {Head(waitQueue[s])}
  /\ UNCHANGED waitQueue
NextQueue(s) ==
  /\ signalled' = signalled \cup {Head(waitQueue[s])}
  /\ waitQueue' = [waitQueue EXCEPT ![s] = Tail(@)]

\* The set leaves the available pool for the free one; faulty: it stays in both.
MakeFreeKept(m, s) ==
  /\ freePool' = [freePool EXCEPT ![m] = Append(@, s)]
  /\ UNCHANGED available
MakeFree(m, s) ==
  /\ available' = [available EXCEPT ![m] = @ \ {s}]
  /\ freePool' = [freePool EXCEPT ![m] = Append(@, s)]

PutContainerSet(r) ==
  LET m == ManagerOf[r]
      s == using[r]
  IN  /\ pc[r] = "put"
      /\ managerLock[m] = "free"
      /\ \/ /\ waitQueue[s] # << >>
            /\ NextQueue(s)
            /\ UNCHANGED << available, freePool >>
         \/ /\ waitQueue[s] = << >>
            /\ MakeFree(m, s)
            /\ UNCHANGED << signalled, waitQueue >>
      /\ using' = [using EXCEPT ![r] = NoSet]
      /\ Goto(r, "done")
      /\ UNCHANGED << clusterVars, managerLock, removing, age, onHost >>

-----------------------------------------------------------------------------
(***************************************************************************)
(* Recycle: on a tick the idle sets leave the free pool; each is destroyed *)
(* container by container and only then given back to the ledger.          *)
(***************************************************************************)
\* Faulty: a limit no age exceeds.
ExpiredNever(s) == age[s] > IdleLimit + 1
Expired(s) == age[s] > IdleLimit

\* The loop over the free pool appends each set to one of two new slices, so both
\* keep its order: e[k] is the place in the pool of the k-th set of a slice.
Ascending(I) ==
  { e \in [1 .. Cardinality(I) -> I] :
      /\ \A j, k \in DOMAIN e : j < k => e[j] < e[k]
      /\ \A i \in I : \E k \in DOMAIN e : e[k] = i }
Slice(q, e) == [k \in DOMAIN e |-> q[e[k]]]

Recycle(m) ==
  LET pool == freePool[m]
      old == { i \in 1 .. Len(pool) : Expired(pool[i]) }
  IN  /\ removing[m] = << >>
      /\ managerLock[m] = "free"
      /\ \E e \in Ascending(old) : removing' = [removing EXCEPT ![m] = Slice(pool, e)]
      /\ \E e \in Ascending((1 .. Len(pool)) \ old) :
           freePool' = [freePool EXCEPT ![m] = Slice(pool, e)]
      /\ UNCHANGED << clusterVars, handlerVars, managerLock, available, waitQueue, age, onHost >>

RemoveContainer(m, a) ==
  /\ removing[m] # << >>
  /\ a \in onHost[Head(removing[m])]
  /\ onHost' = [onHost EXCEPT ![Head(removing[m])] = @ \ {a}]
  /\ UNCHANGED << clusterVars, handlerVars, poolVars, age >>

\* Destroy has returned; faulty: it is not awaited.
DestroyedEarly(s) == TRUE
Destroyed(s) == onHost[s] = {}

PutResource(m) ==
  /\ removing[m] # << >>
  /\ Destroyed(Head(removing[m]))
  /\ Put(Head(removing[m]))
  /\ removing' = [removing EXCEPT ![m] = Tail(@)]
  /\ age' = [age EXCEPT ![Head(removing[m])] = 0]
  /\ UNCHANGED << handlerVars, managerLock, freePool, available, waitQueue, onHost >>

\* Time passes for every set; ages above IdleLimit are all alike.
Tick ==
  /\ age' = [s \in Holder |->
               IF granted[s] # {} /\ age[s] <= IdleLimit THEN age[s] + 1 ELSE age[s]]
  /\ UNCHANGED << clusterVars, handlerVars, poolVars, onHost >>

-----------------------------------------------------------------------------
Init ==
  /\ ClusterInit
  /\ pc = [r \in Request |-> "idle"]
  /\ using = [r \in Request |-> NoSet]
  /\ managerLock = [m \in Manager |-> "free"]
  /\ freePool = [m \in Manager |-> << >>]
  /\ available = [m \in Manager |-> {}]
  /\ removing = [m \in Manager |-> << >>]
  /\ waitQueue = [s \in Holder |-> << >>]
  /\ signalled = {}
  /\ age = [s \in Holder |-> 0]
  /\ onHost = [s \in Holder |-> {}]

Handler(r) ==
  \/ GetFree(r) \/ JoinQueue(r) \/ Wake(r)
  \/ NewContainerSet(r) \/ NoResource(r) \/ Retry(r) \/ GetPanic(r) \/ GetBlocked(r)
  \/ LoadGraph(r) \/ (\E a \in Address : CreateContainer(r, a)) \/ Loaded(r)
  \/ RunDone(r) \/ PutContainerSet(r)

Recycler(m) ==
  Recycle(m) \/ (\E a \in Address : RemoveContainer(m, a)) \/ PutResource(m)

Next ==
  \/ \E r \in Request : Arrive(r) \/ Handler(r) \/ RunFails(r)
  \/ \E m \in Manager : Recycler(m)
  \/ Tick

Spec == Init /\ [][Next]_vars

\* Goroutines are scheduled, queries and host operations return, sleeps end,
\* the recyclers' tickers fire and time passes.
Fairness ==
  /\ \A r \in Request : WF_vars(Handler(r))
  /\ \A m \in Manager : WF_vars(Recycler(m))
  /\ WF_vars(Tick)

FairSpec == Spec /\ Fairness

-----------------------------------------------------------------------------
(***************************************************************************)
(* Properties.                                                             *)
(***************************************************************************)
\* Types of the controller's state.
TypeOK ==
  /\ ClusterTypeOK
  /\ pc \in [Request -> PCs]
  /\ using \in [Request -> Holder \cup {NoSet}]
  /\ managerLock \in [Manager -> {"free", "stuck"}]
  /\ freePool \in [Manager -> Seq(Holder)]
  /\ available \in [Manager -> SUBSET Holder]
  /\ removing \in [Manager -> Seq(Holder)]
  /\ waitQueue \in [Holder -> Seq(Request)]
  /\ signalled \subseteq Request
  /\ age \in [Holder -> 0 .. IdleLimit + 1]
  /\ onHost \in [Holder -> SUBSET Address]

\* A request has a set to itself from the moment it gets it, creates it or is
\* signalled until it puts it back; one that panicked in between keeps it.
Uses(r, s) ==
  /\ using[r] = s
  /\ pc[r] \in {"load", "create", "run", "put", "panicked"} \/ r \in signalled

\* No two requests ever work on one container set, whichever way each came by
\* it: the stack of free sets, a new set or its turn in a queue.
SingleUser ==
  \A s \in Holder : \A q, r \in Request : Uses(q, s) /\ Uses(r, s) => q = r

\* Every granted set is in exactly one place (available, free or being removed)
\* of exactly one manager, so nothing is leaked, given twice or recycled while
\* available; a set has a user exactly while it is available, and only then a queue.
PlacesIn(q, s) == { i \in 1 .. Len(q) : q[i] = s }
Places(s) ==
  { << m, 0, "available" >> : m \in { n \in Manager : s \in available[n] } }
    \cup (UNION { { << m, i, "free" >> : i \in PlacesIn(freePool[m], s) } : m \in Manager })
    \cup (UNION { { << m, i, "removing" >> : i \in PlacesIn(removing[m], s) } : m \in Manager })
PoolsAgree ==
  \A s \in Holder :
    /\ Cardinality(Places(s)) = IF granted[s] = {} THEN 0 ELSE 1
    /\ (\E m \in Manager : s \in available[m]) <=> (\E r \in Request : Uses(r, s))
    /\ waitQueue[s] # << >> => \E r \in Request : Uses(r, s)

\* A waiting handler is in the queue of exactly the set it waits for, once, or has
\* its signal: NextQueue neither drops a channel nor signals one twice.
NoLostWaiter ==
  \A r \in Request : pc[r] = "wait" =>
    LET places == UNION { { << s, i >> : i \in PlacesIn(waitQueue[s], r) } : s \in Holder }
    IN  IF r \in signalled THEN places = {}
        ELSE \E i \in 1 .. Len(waitQueue[using[r]]) : places = { << using[r], i >> }

\* A query runs only while every container of its set is up: no recycler
\* removes one under it, and no waiter is let in before the set is loaded.
RunsOnLoadedSet ==
  \A r \in Request : pc[r] \in {"run", "put"} =>
    /\ granted[using[r]] # {}
    /\ onHost[using[r]] = Addresses(using[r])

\* A container never outlives the grant of its port, so no other set is sent to
\* a port that is still bound: Destroy comes before PutResource.
HostMatchesLedger ==
  /\ \A s \in Holder : onHost[s] \subseteq Addresses(s)
  /\ \A s, t \in Holder : s # t => onHost[s] \cap Addresses(t) = {}

\* Bounded scaling: R requests never make one manager keep more than
\* 1 + (R - 1) \div (1 + QUEUE_LENGTH) sets, since a set is only added when
\* every set it has is in use with a full queue.
RequestsOf(m) == { r \in Request : ManagerOf[r] = m }
BoundedScaling ==
  \A m \in Manager :
    Cardinality(available[m]) + Len(freePool[m])
      <= 1 + (Cardinality(RequestsOf(m)) - 1) \div (1 + QueueLength)

\* Every request that arrives is answered, whether it finds a free set, waits in
\* a queue, or has to wait until other managers' idle sets are recycled.
EveryRequestServed ==
  \A r \in Request : pc[r] = "get" ~> pc[r] = "done"

\* Once requests stop coming, all slots return to the ledger.
IdleSetsReturned == <>[](\A r \in Request : pc[r] \in {"idle", "done"})
                      => <>[](\A s \in Holder : granted[s] = {})

-----------------------------------------------------------------------------
\* The leases this controller implements.
LeaseOwner == [s \in Holder |-> IF \E r \in Request : Uses(r, s)
                                  THEN CHOOSE r \in Request : Uses(r, s)
                                  ELSE NoSet]
LiveSets == { s \in Holder : granted[s] # {} /\
                \A m \in Manager : s \notin ToSet(removing[m]) }

Lease == INSTANCE SetLease WITH Set <- Holder, Nobody <- NoSet,
                                live <- LiveSets, owner <- LeaseOwner, line <- waitQueue

\* Every step of handlers and recyclers is a step of the abstract lease of container
\* sets or leaves it alone: queues are served in order, and no set in use is recycled.
ImplementsLease == Lease!Spec
=============================================================================
