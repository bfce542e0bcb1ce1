------------------------- MODULE FaaSControllerProofs -------------------------
(***************************************************************************)
(* Theorems about faas_controller for every number of hosts, managers,     *)
(* requests and container sets, every QUEUE_LENGTH and every demand, with  *)
(* handlers that panic at any point where the code can panic.              *)
(***************************************************************************)
EXTENDS FaaSController, ClusterProofs, SequenceTheorems

-----------------------------------------------------------------------------
(***************************************************************************)
(* The inductive invariant.                                                *)
(***************************************************************************)

\* Where a handler is tells whether it has a set; only a waiting one has a signal.
HandlerInv ==
  \A r \in Request :
    /\ pc[r] \in {"wait", "load", "create", "run", "put"} => using[r] \in Holder
    /\ pc[r] \in {"idle", "get", "sleep", "blocked", "done"} => using[r] = NoSet
    /\ r \in signalled => pc[r] = "wait"

\* A request stands in the queue of the set it waits for, once, from JoinQueue to
\* its signal; that set is available in its own manager.
QueueInv ==
  /\ \A s \in Holder : \A i \in 1 .. Len(waitQueue[s]) :
       LET r == waitQueue[s][i]
       IN  /\ pc[r] = "wait" /\ using[r] = s /\ r \notin signalled
           /\ s \in available[ManagerOf[r]]
  /\ \A s \in Holder : \A i, j \in 1 .. Len(waitQueue[s]) :
       waitQueue[s][i] = waitQueue[s][j] => i = j
  /\ \A r \in Request : pc[r] = "wait" /\ r \notin signalled =>
       \E i \in 1 .. Len(waitQueue[using[r]]) : waitQueue[using[r]][i] = r

\* A set is in use exactly while its user's manager lists it as available.
UserInv ==
  /\ SingleUser
  /\ \A r \in Request, s \in Holder : Uses(r, s) => s \in available[ManagerOf[r]]
  /\ \A m \in Manager : \A s \in available[m] : \E r \in Request : Uses(r, s)

\* No set is in two places, and those in one are those that hold a grant.
PlaceInv ==
  /\ \A m, n \in Manager : m # n => available[m] \cap available[n] = {}
  /\ \A m, n \in Manager : \A i \in 1 .. Len(freePool[m]) : freePool[m][i] \notin available[n]
  /\ \A m, n \in Manager : \A i \in 1 .. Len(removing[m]) : removing[m][i] \notin available[n]
  /\ \A m, n \in Manager : \A i \in 1 .. Len(freePool[m]), j \in 1 .. Len(removing[n]) :
       freePool[m][i] # removing[n][j]
  /\ \A m, n \in Manager : \A i \in 1 .. Len(freePool[m]), j \in 1 .. Len(freePool[n]) :
       freePool[m][i] = freePool[n][j] => m = n /\ i = j
  /\ \A m, n \in Manager : \A i \in 1 .. Len(removing[m]), j \in 1 .. Len(removing[n]) :
       removing[m][i] = removing[n][j] => m = n /\ i = j

GrantInv ==
  \A s \in Holder :
    /\ granted[s] # {} <=>
         \E m \in Manager : \/ s \in available[m]
                            \/ \E i \in 1 .. Len(freePool[m]) : freePool[m][i] = s
                            \/ \E i \in 1 .. Len(removing[m]) : removing[m][i] = s
    /\ granted[s] = {} => coordinator[s] = {}

\* Containers exist at granted addresses only; all of them while the set is in the
\* free pool, and while it has a user that is done with creating them.
HostInv ==
  /\ \A s \in Holder : onHost[s] \subseteq Addresses(s)
  /\ \A m \in Manager : \A i \in 1 .. Len(freePool[m]) :
       onHost[freePool[m][i]] = Addresses(freePool[m][i])
  /\ \A r \in Request, s \in Holder :
       Uses(r, s) /\ pc[r] \notin {"load", "create"} => onHost[s] = Addresses(s)

IInv == TypeOK /\ HandlerInv /\ QueueInv /\ UserInv /\ PlaceInv /\ GrantInv /\ HostInv

-----------------------------------------------------------------------------
(***************************************************************************)
(* Types, and the ledger as a component of the controller.                 *)
(***************************************************************************)

\* Every step of the controller is a step of the ledger or leaves it alone.
LEMMA LedgerStep ==
  ASSUME TypeOK, [Next]_vars
  PROVE  [ClusterNext]_clusterVars
<1>1. ASSUME NEW r \in Request, NewContainerSet(r)
      PROVE  ClusterNext
  <2>1. DemandOf[ManagerOf[r]] \in Demand
    BY ControllerAssumption
  <2>2. QED
    BY <1>1, <2>1 DEF NewContainerSet, ClusterNext
<1>2. ASSUME NEW r \in Request, GetPanic(r)
      PROVE  ClusterNext
  <2>1. DemandOf[ManagerOf[r]] \in Demand
    BY ControllerAssumption
  <2>2. QED
    BY <1>2, <2>1 DEF GetPanic, ClusterNext
<1>3. ASSUME NEW r \in Request, Arrive(r) \/ Handler(r) \/ RunFails(r),
             ~NewContainerSet(r), ~GetPanic(r)
      PROVE  UNCHANGED clusterVars
  BY <1>3 DEF Arrive, Handler, GetFree, JoinQueue, Wake, NoResource, Retry, GetBlocked,
              LoadGraph, CreateContainer, Loaded, RunDone, RunFails, PutContainerSet
<1>4. ASSUME NEW m \in Manager, PutResource(m)
      PROVE  ClusterNext
  <2>1. Head(removing[m]) \in Holder
    BY <1>4 DEF PutResource, TypeOK
  <2>2. QED
    BY <1>4, <2>1 DEF PutResource, ClusterNext
<1>5. ASSUME NEW m \in Manager, Recycler(m), ~PutResource(m)
      PROVE  UNCHANGED clusterVars
  BY <1>5 DEF Recycler, Recycle, RemoveContainer
<1>6. CASE Tick
  BY <1>6 DEF Tick
<1>7. CASE UNCHANGED vars
  BY <1>7 DEF vars
<1>8. QED
  BY <1>1, <1>2, <1>3, <1>4, <1>5, <1>6, <1>7 DEF Next

-----------------------------------------------------------------------------
(***************************************************************************)
(* The operators on stacks and queues.                                     *)
(***************************************************************************)

\* What GetFree takes from the stack of free sets and what it leaves.
LEMMA StackFacts ==
  ASSUME NEW S, NEW q \in Seq(S), q # << >>
  PROVE  /\ Last(q) \in S
         /\ Len(q) \in Nat \ {0}
         /\ Last(q) = q[Len(q)]
         /\ Popped(q) \in Seq(S)
         /\ Len(Popped(q)) = Len(q) - 1
         /\ \A i \in 1 .. Len(q) - 1 : Popped(q)[i] = q[i]
<1>1. Len(q) \in Nat \ {0} /\ Last(q) = q[Len(q)]
  BY DEF Last
<1>2. q[Len(q)] \in S
  BY <1>1
<1>3. Popped(q) = SubSeq(q, 1, Len(q) - 1)
  BY DEF Popped, Front
<1>4. /\ Popped(q) \in Seq(S)
      /\ Len(Popped(q)) = Len(q) - 1
      /\ \A i \in 1 .. Len(q) - 1 : Popped(q)[i] = q[i]
  <2>1. \A i \in 1 .. Len(q) - 1 : q[i] \in S
    BY <1>1
  <2>2. 1 \in Int /\ Len(q) - 1 \in Int
    BY <1>1
  <2>3. /\ SubSeq(q, 1, Len(q) - 1) \in Seq(S)
        /\ Len(SubSeq(q, 1, Len(q) - 1)) = IF 1 <= Len(q) - 1 THEN Len(q) - 1 - 1 + 1 ELSE 0
        /\ \A i \in 1 .. Len(q) - 1 - 1 + 1 : SubSeq(q, 1, Len(q) - 1)[i] = q[1 + i - 1]
    BY <2>1, <2>2, SubSeqProperties
  <2> DEFINE n == Len(q)
             p == Popped(q)
  <2>4. /\ n \in Nat \ {0}
        /\ p \in Seq(S)
        /\ Len(p) = IF 1 <= n - 1 THEN n - 1 - 1 + 1 ELSE 0
        /\ \A i \in 1 .. n - 1 - 1 + 1 : p[i] = q[1 + i - 1]
    BY <1>1, <1>3, <2>3, Zenon
  <2> HIDE DEF n, p
  <2>5. /\ p \in Seq(S)
        /\ Len(p) = n - 1
        /\ \A i \in 1 .. n - 1 : p[i] = q[i]
    BY <2>4
  <2>6. QED
    BY <2>5 DEF n, p
<1>5. QED
  BY <1>1, <1>2, <1>4

\* A slice has the chosen members of the pool, each once.
LEMMA SliceFacts ==
  ASSUME NEW S, NEW q \in Seq(S), NEW I \in SUBSET (1 .. Len(q)), NEW e \in Ascending(I)
  PROVE  /\ Slice(q, e) \in Seq(S)
         /\ Len(Slice(q, e)) = Cardinality(I)
         /\ Cardinality(I) \in Nat
         /\ \A k \in 1 .. Cardinality(I) : e[k] \in I /\ Slice(q, e)[k] = q[e[k]]
         /\ \A j, k \in 1 .. Cardinality(I) : e[j] = e[k] => j = k
         /\ \A i \in I : \E k \in 1 .. Cardinality(I) : e[k] = i
<1>1. Cardinality(I) \in Nat
  <2>1. IsFiniteSet(1 .. Len(q))
    BY FS_Interval
  <2>2. QED
    BY <2>1, FS_Subset, FS_CardinalityType
<1> DEFINE c == Cardinality(I)
<1>2. /\ e \in [1 .. c -> I]
      /\ \A j, k \in 1 .. c : j < k => e[j] < e[k]
      /\ \A i \in I : \E k \in 1 .. c : e[k] = i
  BY DEF Ascending
<1> HIDE DEF c
<1>3. ASSUME NEW j \in 1 .. c, NEW k \in 1 .. c, e[j] = e[k]
      PROVE  j = k
  <2>1. e[j] \in 1 .. Len(q)
    BY <1>2
  <2>2. j \in Int /\ k \in Int
    BY <1>1 DEF c
  <2>3. QED
    BY <1>2, <1>3, <2>1, <2>2
<1>4. Slice(q, e) = [k \in 1 .. c |-> q[e[k]]]
  BY <1>2 DEF Slice
<1>5. ASSUME NEW k \in 1 .. c
      PROVE  q[e[k]] \in S
  <2>1. e[k] \in 1 .. Len(q)
    BY <1>2
  <2>2. QED
    BY <2>1
<1>6. Slice(q, e) \in Seq(S) /\ Len(Slice(q, e)) = c
  <2>1. Slice(q, e) \in [1 .. c -> S]
    BY <1>4, <1>5
  <2>2. c \in Nat
    BY <1>1 DEF c
  <2>3. QED
    BY <2>1, <2>2
<1>7. \A k \in 1 .. c : e[k] \in I /\ Slice(q, e)[k] = q[e[k]]
  BY <1>2, <1>4
<1>8. QED
  BY <1>1, <1>2, <1>3, <1>6, <1>7, Zenon DEF c

\* The slices a recycler makes of its free pool.
LEMMA RecycleSlices ==
  ASSUME TypeOK, NEW m \in Manager, Recycle(m)
  PROVE  \E old, kept \in SUBSET (1 .. Len(freePool[m])) :
           /\ kept = (1 .. Len(freePool[m])) \ old
           /\ \E e \in Ascending(old), f \in Ascending(kept) :
                /\ removing' = [removing EXCEPT ![m] = Slice(freePool[m], e)]
                /\ freePool' = [freePool EXCEPT ![m] = Slice(freePool[m], f)]
<1> DEFINE pool == freePool[m]
           old == { i \in 1 .. Len(pool) : Expired(pool[i]) }
           kept == (1 .. Len(pool)) \ old
<1>1. /\ \E e \in Ascending(old) : removing' = [removing EXCEPT ![m] = Slice(pool, e)]
      /\ \E f \in Ascending(kept) : freePool' = [freePool EXCEPT ![m] = Slice(pool, f)]
  BY DEF Recycle
<1>2. old \in SUBSET (1 .. Len(pool)) /\ kept \in SUBSET (1 .. Len(pool))
  OBVIOUS
<1>3. kept = (1 .. Len(pool)) \ old
  OBVIOUS
<1> HIDE DEF old, kept
<1>4. QED
  BY <1>1, <1>2, <1>3

\* The recycler leaves lists of sets.
LEMMA RecycleTypes ==
  ASSUME TypeOK, NEW m \in Manager, Recycle(m)
  PROVE  freePool' \in [Manager -> Seq(Holder)] /\ removing' \in [Manager -> Seq(Holder)]
<1>1. PICK q \in Seq(Holder) : q = freePool[m]
  BY DEF TypeOK
<1>2. PICK old, kept \in SUBSET (1 .. Len(q)) :
        \E e \in Ascending(old), f \in Ascending(kept) :
           /\ removing' = [removing EXCEPT ![m] = Slice(q, e)]
           /\ freePool' = [freePool EXCEPT ![m] = Slice(q, f)]
  BY <1>1, RecycleSlices
<1>3. ASSUME NEW I \in SUBSET (1 .. Len(q)), NEW e \in Ascending(I)
      PROVE  Slice(q, e) \in Seq(Holder)
  BY SliceFacts
<1>4. freePool \in [Manager -> Seq(Holder)] /\ removing \in [Manager -> Seq(Holder)]
  BY DEF TypeOK
<1>5. QED
  BY <1>2, <1>3, <1>4

\* Handlers and recyclers keep the controller well typed.
LEMMA TypeStep ==
  ASSUME TypeOK, HandlerInv, [Next]_vars
  PROVE  TypeOK'
<1>1. ClusterTypeOK'
  BY LedgerStep, LedgerTypeStep DEF TypeOK
<1> USE DEF TypeOK, PCs, Goto
<1>2. ASSUME NEW r \in Request,
             \/ Arrive(r) \/ NoResource(r) \/ Retry(r) \/ GetPanic(r) \/ GetBlocked(r)
             \/ Loaded(r) \/ RunDone(r) \/ RunFails(r) \/ Wake(r)
      PROVE  TypeOK'
  BY <1>1, <1>2, ControllerAssumption
     DEF Arrive, NoResource, Retry, GetPanic, GetBlocked, Loaded, RunDone, RunFails, Wake,
         NeedsNew, TryGet, handlerVars, poolVars
<1>3. ASSUME NEW r \in Request, GetFree(r)
      PROVE  TypeOK'
  <2> DEFINE m == ManagerOf[r]
  <2>1. m \in Manager /\ freePool[m] \in Seq(Holder) /\ freePool[m] # << >>
    BY <1>3, ControllerAssumption DEF GetFree
  <2>2. Last(freePool[m]) \in Holder /\ Popped(freePool[m]) \in Seq(Holder)
    BY <2>1, StackFacts
  <2>3. 0 \in 0 .. IdleLimit + 1
    BY ControllerAssumption
  <2>4. QED
    BY <1>1, <1>3, <2>1, <2>2, <2>3 DEF GetFree
<1>4. ASSUME NEW r \in Request, JoinQueue(r)
      PROVE  TypeOK'
  <2> DEFINE m == ManagerOf[r]
  <2>1. m \in Manager
    BY ControllerAssumption
  <2>2. PICK s \in available[m] : /\ waitQueue' = [waitQueue EXCEPT ![s] = Append(@, r)]
                                  /\ using' = [using EXCEPT ![r] = s]
    BY <1>4 DEF JoinQueue, Joinable
  <2>3. s \in Holder
    BY <2>1, <2>2
  <2>4. Append(waitQueue[s], r) \in Seq(Request)
    BY <2>3
  <2>5. QED
    BY <1>1, <1>4, <2>2, <2>3, <2>4 DEF JoinQueue
<1>5. ASSUME NEW r \in Request, NewContainerSet(r)
      PROVE  TypeOK'
  <2> DEFINE m == ManagerOf[r]
  <2>1. m \in Manager
    BY ControllerAssumption
  <2>2. PICK s \in Holder : /\ available' = [available EXCEPT ![m] = @ \cup {s}]
                            /\ using' = [using EXCEPT ![r] = s]
    BY <1>5 DEF NewContainerSet
  <2>3. available' \in [Manager -> SUBSET Holder] /\ using' \in [Request -> Holder \cup {NoSet}]
    BY <2>1, <2>2
  <2>4. QED
    BY <1>1, <1>5, <2>3 DEF NewContainerSet
<1>6. ASSUME NEW r \in Request, LoadGraph(r)
      PROVE  TypeOK'
  <2>1. 0 \in 0 .. IdleLimit + 1
    BY ControllerAssumption
  <2>2. QED
    BY <1>1, <1>6, <2>1 DEF LoadGraph, poolVars
<1>7. ASSUME NEW r \in Request, NEW a \in Address, CreateContainer(r, a)
      PROVE  TypeOK'
  <2>1. onHost' \in [Holder -> SUBSET Address]
    BY <1>7 DEF CreateContainer
  <2>2. QED
    BY <1>1, <1>7, <2>1 DEF CreateContainer, handlerVars, poolVars
<1>8. ASSUME NEW r \in Request, PutContainerSet(r)
      PROVE  TypeOK'
  <2> DEFINE m == ManagerOf[r]
             s == using[r]
  <2> m \in Manager /\ s \in Holder
    BY <1>8, ControllerAssumption DEF PutContainerSet, HandlerInv
  <2>1. CASE waitQueue[s] # << >> /\ NextQueue(s) /\ UNCHANGED << available, freePool >>
    <3>1. Head(waitQueue[s]) \in Request /\ Tail(waitQueue[s]) \in Seq(Request)
      BY <2>1
    <3>2. QED
      BY <1>1, <1>8, <2>1, <3>1 DEF PutContainerSet, NextQueue
  <2>2. CASE MakeFree(m, s) /\ UNCHANGED << signalled, waitQueue >>
    <3>1. Append(freePool[m], s) \in Seq(Holder)
      OBVIOUS
    <3>2. QED
      BY <1>1, <1>8, <2>2, <3>1 DEF PutContainerSet, MakeFree
  <2>3. QED
    BY <1>8, <2>1, <2>2 DEF PutContainerSet
<1>9. ASSUME NEW m \in Manager, Recycle(m)
      PROVE  TypeOK'
  <2>1. freePool' \in [Manager -> Seq(Holder)] /\ removing' \in [Manager -> Seq(Holder)]
    BY <1>9, RecycleTypes
  <2>2. QED
    BY <1>1, <1>9, <2>1 DEF Recycle, handlerVars
<1>10. ASSUME NEW m \in Manager, NEW a \in Address, RemoveContainer(m, a)
       PROVE  TypeOK'
  <2>1. onHost' \in [Holder -> SUBSET Address]
    BY <1>10 DEF RemoveContainer
  <2>2. QED
    BY <1>1, <1>10, <2>1 DEF RemoveContainer, handlerVars, poolVars
<1>11. ASSUME NEW m \in Manager, PutResource(m)
       PROVE  TypeOK'
  <2>1. Tail(removing[m]) \in Seq(Holder)
    BY <1>11 DEF PutResource
  <2>2. 0 \in 0 .. IdleLimit + 1
    BY ControllerAssumption
  <2>3. QED
    BY <1>1, <1>11, <2>1, <2>2 DEF PutResource, handlerVars
<1>12. CASE Tick
  <2>1. ASSUME NEW s \in Holder
        PROVE  (IF granted[s] # {} /\ age[s] <= IdleLimit THEN age[s] + 1 ELSE age[s])
                 \in 0 .. IdleLimit + 1
    BY ControllerAssumption
  <2>2. QED
    BY <1>1, <1>12, <2>1 DEF Tick, handlerVars, poolVars
<1>13. CASE UNCHANGED vars
  BY <1>1, <1>13 DEF vars, handlerVars, poolVars
<1>14. QED
  BY <1>2, <1>3, <1>4, <1>5, <1>6, <1>7, <1>8, <1>9, <1>10, <1>11, <1>12, <1>13
     DEF Next, Handler, Recycler

-----------------------------------------------------------------------------
(***************************************************************************)
(* Every step keeps the invariant: one lemma per action, or per group of   *)
(* actions that change the same things.                                    *)
(***************************************************************************)

\* The conjuncts of IInv that the next lemmas establish one by one.
LEMMA Conjuncts ==
  IInv' <=> /\ TypeOK' /\ HandlerInv' /\ QueueInv' /\ UserInv'
            /\ PlaceInv' /\ GrantInv' /\ HostInv'
  BY DEF IInv

\* What the sequences hold.
LEMMA Members ==
  ASSUME TypeOK
  PROVE  /\ \A s \in Holder : /\ waitQueue[s] \in Seq(Request) /\ Len(waitQueue[s]) \in Nat
                              /\ \A i \in 1 .. Len(waitQueue[s]) : waitQueue[s][i] \in Request
         /\ \A m \in Manager : /\ freePool[m] \in Seq(Holder) /\ Len(freePool[m]) \in Nat
                               /\ \A i \in 1 .. Len(freePool[m]) : freePool[m][i] \in Holder
         /\ \A m \in Manager : /\ removing[m] \in Seq(Holder) /\ Len(removing[m]) \in Nat
                               /\ \A i \in 1 .. Len(removing[m]) : removing[m][i] \in Holder
         /\ \A r \in Request : ManagerOf[r] \in Manager /\ DemandOf[ManagerOf[r]] \in Demand
<1>1. \A s \in Holder : waitQueue[s] \in Seq(Request)
  BY DEF TypeOK
<1>2. \A m \in Manager : freePool[m] \in Seq(Holder) /\ removing[m] \in Seq(Holder)
  BY DEF TypeOK
<1>3. \A r \in Request : ManagerOf[r] \in Manager /\ DemandOf[ManagerOf[r]] \in Demand
  BY ControllerAssumption
<1>4. QED
  BY <1>1, <1>2, <1>3

\* When neither the pools nor the grants change and each request uses what it used,
\* the sets stay where they are.
LEMMA SamePlaces ==
  ASSUME IInv, UNCHANGED << freePool, available, removing, granted, coordinator >>,
         \A q \in Request, s \in Holder : Uses(q, s)' <=> Uses(q, s)
  PROVE  UserInv' /\ PlaceInv' /\ GrantInv'
<1>1. UserInv'
  <2>1. \A m \in Manager : available[m] \subseteq Holder
    BY DEF IInv, TypeOK
  <2>2. QED
    BY <2>1 DEF IInv, UserInv, SingleUser
<1>2. PlaceInv'
  BY DEF IInv, PlaceInv
<1>3. GrantInv'
  BY DEF IInv, GrantInv
<1>4. QED
  BY <1>1, <1>2, <1>3

\* Nor do the queues, if besides no request begins or ends to wait.
LEMMA SameQueues ==
  ASSUME IInv, UNCHANGED << using, signalled, available, waitQueue >>,
         \A q \in Request : pc'[q] = "wait" <=> pc[q] = "wait"
  PROVE  QueueInv'
  BY Members DEF IInv, QueueInv

\* Steps of a handler that neither take a set nor give one back.
Quiet(r) ==
  \/ Arrive(r) \/ NoResource(r) \/ Retry(r) \/ GetPanic(r) \/ GetBlocked(r)
  \/ LoadGraph(r) \/ Loaded(r) \/ RunDone(r) \/ RunFails(r)

\* A step of a handler that moves no set between the lists keeps the invariant.
LEMMA QuietStep ==
  ASSUME IInv, TypeOK', NEW r \in Request, Quiet(r)
  PROVE  IInv'
<1>1. /\ UNCHANGED << using, signalled, freePool, available, removing, waitQueue,
                      granted, coordinator, onHost >>
      /\ \E l \in PCs : pc' = [pc EXCEPT ![r] = l]
      /\ \/ pc[r] \in {"idle", "get", "sleep"} /\ pc'[r] \in {"get", "sleep", "panicked", "blocked"}
         \/ pc[r] = "load" /\ pc'[r] = "create"
         \/ pc[r] = "create" /\ pc'[r] = "run" /\ Addresses(using[r]) \subseteq onHost[using[r]]
         \/ pc[r] = "run" /\ pc'[r] \in {"put", "panicked"}
  BY DEF Quiet, Arrive, NoResource, Retry, GetPanic, GetBlocked, LoadGraph, Loaded, RunDone,
         RunFails, NeedsNew, TryGet, Goto, IInv, TypeOK, PCs, clusterVars, poolVars, handlerVars,
         GetPanics, Awaited
<1>2. \A q \in Request : q # r => pc'[q] = pc[q]
  BY <1>1 DEF IInv, TypeOK
<1>3. pc[r] # "wait" /\ pc'[r] # "wait"
  BY <1>1
<1>4. HandlerInv'
  BY <1>1, <1>2 DEF IInv, HandlerInv
<1>5. ASSUME NEW q \in Request, NEW s \in Holder
      PROVE  Uses(q, s)' <=> Uses(q, s)
  <2>1. CASE q # r
    BY <1>1, <1>2, <2>1 DEF Uses
  <2>2. CASE q = r /\ pc[r] \in {"idle", "get", "sleep"}
    <3>1. using[r] = NoSet /\ using'[r] = NoSet
      BY <1>1, <2>2 DEF IInv, HandlerInv
    <3>2. QED
      BY <2>2, <3>1, ControllerAssumption DEF Uses
  <2>3. CASE q = r /\ pc[r] \notin {"idle", "get", "sleep"}
    BY <1>1, <2>3 DEF Uses
  <2>4. QED
    BY <2>1, <2>2, <2>3
<1>6. UserInv' /\ PlaceInv' /\ GrantInv'
  BY <1>1, <1>5, SamePlaces
<1>7. QueueInv'
  BY <1>1, <1>2, <1>3, SameQueues
<1>8. \A s \in Holder : Addresses(s)' = Addresses(s)
  BY <1>1 DEF Addresses
<1>9. HostInv'
  <2>1. ASSUME NEW q \in Request, NEW s \in Holder, Uses(q, s)', pc'[q] \notin {"load", "create"}
        PROVE  onHost[s] = Addresses(s)
    <3>1. CASE pc[q] \notin {"load", "create"}
      BY <1>5, <2>1, <3>1 DEF IInv, HostInv
    <3>2. CASE pc[q] \in {"load", "create"}
      <4>1. q = r /\ Addresses(using[r]) \subseteq onHost[using[r]] /\ using[r] = s
        BY <1>1, <1>2, <1>5, <2>1, <3>2 DEF Uses
      <4>2. QED
        BY <4>1 DEF IInv, HostInv
    <3>3. QED
      BY <3>1, <3>2
  <2>2. QED
    BY <1>1, <1>8, <2>1 DEF IInv, HostInv, TypeOK
<1>10. QED
  BY <1>4, <1>6, <1>7, <1>9, Conjuncts

\* A waiter that takes its signal works on the set it waited for.
LEMMA WakeStep ==
  ASSUME IInv, TypeOK', NEW r \in Request, Wake(r)
  PROVE  IInv'
<1>1. /\ UNCHANGED << using, freePool, available, removing, waitQueue, granted, coordinator, onHost >>
      /\ pc[r] = "wait" /\ r \in signalled
      /\ pc' = [pc EXCEPT ![r] = "run"]
      /\ signalled' = signalled \ {r}
  BY DEF Wake, Goto, clusterVars, poolVars
<1>2. pc'[r] = "run" /\ \A q \in Request : q # r => pc'[q] = pc[q]
  BY <1>1 DEF IInv, TypeOK
<1>3. HandlerInv'
  BY <1>1, <1>2 DEF IInv, HandlerInv
<1>4. \A q \in Request, s \in Holder : Uses(q, s)' <=> Uses(q, s)
  BY <1>1, <1>2 DEF Uses
<1>5. UserInv' /\ PlaceInv' /\ GrantInv'
  BY <1>1, <1>4, SamePlaces
<1>6. QueueInv'
  <2>1. ASSUME NEW s \in Holder, NEW i \in 1 .. Len(waitQueue[s])
        PROVE  waitQueue[s][i] \in Request \ {r}
    BY <1>1, Members DEF IInv, QueueInv
  <2>2. \A s \in Holder : \A i \in 1 .. Len(waitQueue[s]) :
          LET q == waitQueue[s][i]
          IN  /\ pc'[q] = "wait" /\ using[q] = s /\ q \notin signalled'
              /\ s \in available[ManagerOf[q]]
    BY <1>1, <1>2, <2>1 DEF IInv, QueueInv
  <2>3. ASSUME NEW q \in Request, pc'[q] = "wait", q \notin signalled'
        PROVE  \E i \in 1 .. Len(waitQueue[using[q]]) : waitQueue[using[q]][i] = q
    BY <1>1, <1>2, <2>3 DEF IInv, QueueInv
  <2>4. QED
    BY <1>1, <2>2, <2>3 DEF IInv, QueueInv
<1>7. HostInv'
  <2>1. \A s \in Holder : Addresses(s)' = Addresses(s)
    BY <1>1 DEF Addresses
  <2>2. QED
    BY <1>1, <1>2, <1>4, <2>1 DEF IInv, HostInv, TypeOK
<1>8. QED
  BY <1>3, <1>5, <1>6, <1>7, Conjuncts

\* A container is created for a set in use, at an address the set was granted.
LEMMA CreateStep ==
  ASSUME IInv, TypeOK', NEW r \in Request, NEW a \in Address, CreateContainer(r, a)
  PROVE  IInv'
<1> DEFINE s == using[r]
<1>1. /\ UNCHANGED << pc, using, signalled, freePool, available, removing, waitQueue,
                      granted, coordinator >>
      /\ pc[r] = "create" /\ a \in Addresses(s)
      /\ onHost' = [onHost EXCEPT ![s] = @ \cup {a}]
  BY DEF CreateContainer, clusterVars, handlerVars, poolVars
<1>2. s \in Holder
  BY <1>1 DEF IInv, HandlerInv
<1>3. onHost'[s] = onHost[s] \cup {a} /\ \A t \in Holder : t # s => onHost'[t] = onHost[t]
  BY <1>1, <1>2 DEF IInv, TypeOK
<1>4. HandlerInv' /\ QueueInv'
  BY <1>1, SameQueues DEF IInv, HandlerInv
<1>5. \A q \in Request, t \in Holder : Uses(q, t)' <=> Uses(q, t)
  BY <1>1 DEF Uses
<1>6. UserInv' /\ PlaceInv' /\ GrantInv'
  BY <1>1, <1>5, SamePlaces
<1>7. HostInv'
  <2>1. Uses(r, s)
    BY <1>1 DEF Uses
  <2>2. \A q \in Request : Uses(q, s) => q = r
    BY <1>2, <2>1 DEF IInv, UserInv, SingleUser
  <2>3. s \in available[ManagerOf[r]] /\ ManagerOf[r] \in Manager
    BY <1>2, <2>1, ControllerAssumption DEF IInv, UserInv
  <2>4. \A m \in Manager : \A i \in 1 .. Len(freePool[m]) : freePool[m][i] # s /\ freePool[m][i] \in Holder
    BY <2>3, Members DEF IInv, PlaceInv
  <2>5. \A t \in Holder : Addresses(t)' = Addresses(t)
    BY <1>1 DEF Addresses
  <2>6. \A t \in Holder : onHost'[t] \subseteq Addresses(t)
    BY <1>1, <1>3 DEF IInv, HostInv
  <2>7. \A m \in Manager : \A i \in 1 .. Len(freePool[m]) :
          onHost'[freePool[m][i]] = Addresses(freePool[m][i])
    BY <1>3, <2>4 DEF IInv, HostInv
  <2>8. ASSUME NEW q \in Request, NEW t \in Holder, Uses(q, t), pc[q] \notin {"load", "create"}
        PROVE  onHost'[t] = Addresses(t)
    <3>1. t # s
      BY <1>1, <2>2, <2>8
    <3>2. QED
      BY <1>3, <2>8, <3>1 DEF IInv, HostInv
  <2>9. QED
    BY <1>1, <1>5, <2>4, <2>5, <2>6, <2>7, <2>8 DEF HostInv
<1>8. QED
  BY <1>4, <1>6, <1>7, Conjuncts

\* A recycler removes containers of a set that is neither free nor in use.
LEMMA RemoveStep ==
  ASSUME IInv, TypeOK', NEW m \in Manager, NEW a \in Address, RemoveContainer(m, a)
  PROVE  IInv'
<1> DEFINE s == Head(removing[m])
<1>1. /\ UNCHANGED << pc, using, signalled, freePool, available, removing, waitQueue,
                      granted, coordinator >>
      /\ removing[m] # << >>
      /\ onHost' = [onHost EXCEPT ![s] = @ \ {a}]
  BY DEF RemoveContainer, clusterVars, handlerVars, poolVars
<1>2. s \in Holder /\ 1 \in 1 .. Len(removing[m]) /\ s = removing[m][1]
  BY <1>1 DEF IInv, TypeOK
<1>3. onHost'[s] = onHost[s] \ {a} /\ \A t \in Holder : t # s => onHost'[t] = onHost[t]
  BY <1>1, <1>2 DEF IInv, TypeOK
<1>4. HandlerInv' /\ QueueInv'
  BY <1>1, SameQueues DEF IInv, HandlerInv
<1>5. \A q \in Request, t \in Holder : Uses(q, t)' <=> Uses(q, t)
  BY <1>1 DEF Uses
<1>6. UserInv' /\ PlaceInv' /\ GrantInv'
  BY <1>1, <1>5, SamePlaces
<1>7. HostInv'
  <2>1. ASSUME NEW q \in Request PROVE ~Uses(q, s)
    <3>1. ManagerOf[q] \in Manager
      BY ControllerAssumption
    <3>2. s \notin available[ManagerOf[q]]
      BY <1>2, <3>1 DEF IInv, PlaceInv
    <3>3. QED
      BY <1>2, <3>2 DEF IInv, UserInv
  <2>2. \A n \in Manager : \A i \in 1 .. Len(freePool[n]) : freePool[n][i] # s /\ freePool[n][i] \in Holder
    BY <1>2, Members DEF IInv, PlaceInv
  <2>3. \A t \in Holder : Addresses(t)' = Addresses(t)
    BY <1>1 DEF Addresses
  <2>4. QED
    BY <1>1, <1>2, <1>3, <1>5, <2>1, <2>2, <2>3 DEF IInv, HostInv
<1>8. QED
  BY <1>4, <1>6, <1>7, Conjuncts

\* The clock, and steps that change nothing.
LEMMA TickStep ==
  ASSUME IInv, TypeOK', Tick \/ UNCHANGED vars
  PROVE  IInv'
<1>1. UNCHANGED << pc, using, signalled, freePool, available, removing, waitQueue,
                   granted, coordinator, onHost >>
  BY DEF Tick, vars, clusterVars, handlerVars, poolVars
<1>2. HandlerInv' /\ QueueInv'
  BY <1>1, SameQueues DEF IInv, HandlerInv
<1>3. UserInv' /\ PlaceInv' /\ GrantInv'
  BY <1>1, SamePlaces DEF Uses
<1>4. HostInv'
  BY <1>1 DEF IInv, HostInv, Uses, Addresses
<1>5. QED
  BY <1>2, <1>3, <1>4, Conjuncts

\* A request that is about to look for a set has none and stands in no queue.
LEMMA NewcomerFacts ==
  ASSUME IInv, NEW r \in Request, pc[r] = "get"
  PROVE  /\ using[r] = NoSet /\ r \notin signalled
         /\ \A s \in Holder : ~Uses(r, s)
         /\ \A s \in Holder : \A i \in 1 .. Len(waitQueue[s]) : waitQueue[s][i] # r
<1>1. using[r] = NoSet /\ r \notin signalled
  BY DEF IInv, HandlerInv
<1>2. QED
  BY <1>1, ControllerAssumption DEF IInv, QueueInv, Uses

\* The top of the stack of free sets is a complete set that nobody uses.
LEMMA GetFreeStep ==
  ASSUME IInv, TypeOK', NEW r \in Request, GetFree(r)
  PROVE  IInv'
<1> DEFINE m == ManagerOf[r]
           s == Last(freePool[m])
           n == Len(freePool[m])
<1>1. /\ UNCHANGED << signalled, removing, waitQueue, granted, coordinator, onHost >>
      /\ pc[r] = "get" /\ freePool[m] # << >>
      /\ pc' = [pc EXCEPT ![r] = "run"]
      /\ using' = [using EXCEPT ![r] = s]
      /\ freePool' = [freePool EXCEPT ![m] = Popped(@)]
      /\ available' = [available EXCEPT ![m] = @ \cup {s}]
  BY DEF GetFree, TryGet, Goto, clusterVars
<1>2. m \in Manager /\ freePool[m] \in Seq(Holder)
  BY Members DEF IInv
<1>3. /\ s \in Holder /\ n \in Nat \ {0} /\ s = freePool[m][n]
      /\ Len(Popped(freePool[m])) = n - 1
      /\ \A i \in 1 .. n - 1 : Popped(freePool[m])[i] = freePool[m][i]
  BY <1>1, <1>2, StackFacts
<1>4. /\ pc'[r] = "run" /\ using'[r] = s
      /\ \A q \in Request : q # r => pc'[q] = pc[q] /\ using'[q] = using[q]
  BY <1>1 DEF IInv, TypeOK
<1>5. \A k \in Manager : \A t : t \in available'[k] <=> t \in available[k] \/ (k = m /\ t = s)
  BY <1>1 DEF IInv, TypeOK
<1>6. /\ \A k \in Manager : k # m => freePool'[k] = freePool[k]
      /\ freePool'[m] = Popped(freePool[m])
  BY <1>1, <1>2 DEF IInv, TypeOK
<1>7. /\ \A k \in Manager : s \notin available[k]
      /\ \A k \in Manager : \A i \in 1 .. Len(removing[k]) : removing[k][i] # s
      /\ \A k \in Manager : \A i \in 1 .. Len(freePool[k]) : freePool[k][i] = s => k = m /\ i = n
  <2>1. n \in 1 .. Len(freePool[m])
    BY <1>3
  <2>2. QED
    BY <1>2, <1>3, <2>1 DEF IInv, PlaceInv
\* The free pools lose s and nothing else.
<1>8. ASSUME NEW k \in Manager, NEW i \in 1 .. Len(freePool'[k])
      PROVE  i \in 1 .. Len(freePool[k]) /\ freePool'[k][i] = freePool[k][i] /\ freePool[k][i] # s
  <2>1. CASE k = m
    <3>1. i \in 1 .. n - 1 /\ i \in 1 .. n /\ i # n
      BY <1>3, <1>6, <1>8, <2>1
    <3>2. QED
      BY <1>3, <1>6, <1>7, <2>1, <3>1
  <2>2. CASE k # m
    BY <1>6, <1>7, <1>8, <2>2
  <2>3. QED
    BY <2>1, <2>2
<1>9. ASSUME NEW k \in Manager, NEW i \in 1 .. Len(freePool[k]), freePool[k][i] # s
      PROVE  i \in 1 .. Len(freePool'[k]) /\ freePool'[k][i] = freePool[k][i]
  <2>1. CASE k = m
    <3>1. i \in 1 .. n - 1
      BY <1>3, <1>9, <2>1
    <3>2. QED
      BY <1>3, <1>6, <2>1, <3>1
  <2>2. CASE k # m
    BY <1>6, <2>2
  <2>3. QED
    BY <2>1, <2>2
<1>10. /\ using[r] = NoSet /\ r \notin signalled
       /\ \A t \in Holder : ~Uses(r, t)
       /\ \A t \in Holder : \A i \in 1 .. Len(waitQueue[t]) : waitQueue[t][i] # r
  BY <1>1, NewcomerFacts
<1>11. \A q \in Request, t \in Holder : Uses(q, t)' <=> Uses(q, t) \/ (q = r /\ t = s)
  BY <1>1, <1>4, <1>10 DEF Uses
<1>12. \A q \in Request : ~Uses(q, s)
  BY <1>3, <1>7, Members DEF IInv, UserInv
<1>13. HandlerInv'
  BY <1>1, <1>3, <1>4, <1>10 DEF IInv, HandlerInv
<1>14. QueueInv'
  <2>1. \A t \in Holder : \A i \in 1 .. Len(waitQueue[t]) :
          LET q == waitQueue[t][i]
          IN  /\ pc'[q] = "wait" /\ using'[q] = t /\ q \notin signalled
              /\ t \in available'[ManagerOf[q]]
    <3>1. ASSUME NEW t \in Holder, NEW i \in 1 .. Len(waitQueue[t])
          PROVE  waitQueue[t][i] \in Request \ {r}
      BY <1>10, Members DEF IInv
    <3>2. QED
      BY <1>4, <1>5, <3>1, Members DEF IInv, QueueInv
  <2>2. \A q \in Request : pc'[q] = "wait" /\ q \notin signalled =>
          \E i \in 1 .. Len(waitQueue[using'[q]]) : waitQueue[using'[q]][i] = q
    BY <1>4 DEF IInv, QueueInv
  <2>3. QED
    BY <1>1, <2>1, <2>2 DEF IInv, QueueInv
<1>15. UserInv'
  <2>1. SingleUser'
    BY <1>11, <1>12 DEF IInv, UserInv, SingleUser
  <2>2. \A q \in Request, t \in Holder : Uses(q, t)' => t \in available'[ManagerOf[q]]
    BY <1>5, <1>11, Members DEF IInv, UserInv
  <2>3. ASSUME NEW k \in Manager, NEW t \in available'[k]
        PROVE  \E q \in Request : Uses(q, t)'
    <3>1. CASE t = s
      BY <1>3, <1>11, <3>1
    <3>2. CASE t # s
      <4>1. t \in available[k] /\ t \in Holder
        BY <1>5, <2>3, <3>2 DEF IInv, TypeOK
      <4>2. QED
        BY <1>11, <4>1 DEF IInv, UserInv
    <3>3. QED
      BY <3>1, <3>2
  <2>4. QED
    BY <2>1, <2>2, <2>3 DEF UserInv
<1>16. PlaceInv'
  <2>1. \A k, l \in Manager : k # l => available'[k] \cap available'[l] = {}
    BY <1>5, <1>7 DEF IInv, PlaceInv
  <2>2. \A k, l \in Manager : \A i \in 1 .. Len(freePool'[k]) : freePool'[k][i] \notin available'[l]
    BY <1>5, <1>8 DEF IInv, PlaceInv
  <2>3. \A k, l \in Manager : \A i \in 1 .. Len(removing[k]) : removing[k][i] \notin available'[l]
    BY <1>5, <1>7 DEF IInv, PlaceInv
  <2>4. \A k, l \in Manager : \A i \in 1 .. Len(freePool'[k]), j \in 1 .. Len(removing[l]) :
          freePool'[k][i] # removing[l][j]
    BY <1>8 DEF IInv, PlaceInv
  <2>5. \A k, l \in Manager : \A i \in 1 .. Len(freePool'[k]), j \in 1 .. Len(freePool'[l]) :
          freePool'[k][i] = freePool'[l][j] => k = l /\ i = j
    BY <1>8 DEF IInv, PlaceInv
  <2>6. QED
    BY <1>1, <2>1, <2>2, <2>3, <2>4, <2>5 DEF IInv, PlaceInv
<1>17. GrantInv'
  <2>1. \A t \in Holder : (\E k \in Manager : \/ t \in available[k]
                                             \/ \E i \in 1 .. Len(freePool[k]) : freePool[k][i] = t)
          <=> (\E k \in Manager : \/ t \in available'[k]
                                  \/ \E i \in 1 .. Len(freePool'[k]) : freePool'[k][i] = t)
    <3> SUFFICES ASSUME NEW t \in Holder
                 PROVE  (\E k \in Manager : \/ t \in available[k]
                                            \/ \E i \in 1 .. Len(freePool[k]) : freePool[k][i] = t)
                   <=> (\E k \in Manager : \/ t \in available'[k]
                                           \/ \E i \in 1 .. Len(freePool'[k]) : freePool'[k][i] = t)
      OBVIOUS
    <3>1. CASE t = s
      <4>1. s \in available'[m]
        BY <1>2, <1>5
      <4>2. n \in 1 .. Len(freePool[m]) /\ freePool[m][n] = s
        BY <1>3
      <4>3. QED
        BY <1>2, <3>1, <4>1, <4>2
    <3>2. CASE t # s
      BY <1>5, <1>8, <1>9, <3>2
    <3>3. QED
      BY <3>1, <3>2
  <2>2. QED
    BY <1>1, <2>1 DEF IInv, GrantInv
<1>18. HostInv'
  <2>1. \A t \in Holder : Addresses(t)' = Addresses(t)
    BY <1>1 DEF Addresses
  <2>2. \A k \in Manager : \A i \in 1 .. Len(freePool'[k]) :
          onHost[freePool'[k][i]] = Addresses(freePool'[k][i])
    BY <1>8 DEF IInv, HostInv
  <2>3. \A k \in Manager : \A i \in 1 .. Len(freePool'[k]) : freePool'[k][i] \in Holder
    BY <1>8, Members DEF IInv
  <2>4. onHost[s] = Addresses(s)
    <3>1. n \in 1 .. Len(freePool[m])
      BY <1>3
    <3>2. QED
      BY <1>2, <1>3, <3>1 DEF IInv, HostInv
  <2>5. \A q \in Request, t \in Holder :
          Uses(q, t)' /\ pc'[q] \notin {"load", "create"} => onHost[t] = Addresses(t)
    BY <1>4, <1>10, <1>11, <2>4 DEF IInv, HostInv
  <2>6. QED
    BY <1>1, <2>1, <2>2, <2>3, <2>5 DEF IInv, HostInv
<1>19. QED
  BY <1>13, <1>14, <1>15, <1>16, <1>17, <1>18, Conjuncts

\* A request joins the queue of a set that is available in its manager, at the end.
LEMMA JoinQueueStep ==
  ASSUME IInv, TypeOK', NEW r \in Request, JoinQueue(r)
  PROVE  IInv'
<1> DEFINE m == ManagerOf[r]
<1>1. PICK s \in available[m] : /\ waitQueue' = [waitQueue EXCEPT ![s] = Append(@, r)]
                                /\ using' = [using EXCEPT ![r] = s]
  BY DEF JoinQueue, Joinable
<1> DEFINE n == Len(waitQueue[s])
<1>2. /\ UNCHANGED << signalled, freePool, available, removing, granted, coordinator, onHost >>
      /\ pc[r] = "get"
      /\ pc' = [pc EXCEPT ![r] = "wait"]
  BY DEF JoinQueue, TryGet, Goto, clusterVars
<1>3. m \in Manager /\ s \in Holder
  BY Members DEF IInv, TypeOK
<1>4. /\ pc'[r] = "wait" /\ using'[r] = s
      /\ \A q \in Request : q # r => pc'[q] = pc[q] /\ using'[q] = using[q]
  BY <1>1, <1>2 DEF IInv, TypeOK
<1>5. /\ using[r] = NoSet /\ r \notin signalled
      /\ \A t \in Holder : ~Uses(r, t)
      /\ \A t \in Holder : \A i \in 1 .. Len(waitQueue[t]) : waitQueue[t][i] # r
  BY <1>2, NewcomerFacts
<1>6. waitQueue[s] \in Seq(Request) /\ n \in Nat
  BY <1>3, Members DEF IInv
<1>7. /\ waitQueue'[s] = Append(waitQueue[s], r)
      /\ \A t \in Holder : t # s => waitQueue'[t] = waitQueue[t]
  BY <1>1, <1>3 DEF IInv, TypeOK
<1>8. /\ Len(waitQueue'[s]) = n + 1
      /\ waitQueue'[s][n + 1] = r
      /\ \A i \in 1 .. n : waitQueue'[s][i] = waitQueue[s][i]
  BY <1>6, <1>7, AppendProperties
\* The members of the queues are the old ones at their places, and r at the end of one.
<1>9. ASSUME NEW t \in Holder, NEW i \in 1 .. Len(waitQueue'[t])
      PROVE  \/ t = s /\ i = n + 1 /\ waitQueue'[t][i] = r
             \/ i \in 1 .. Len(waitQueue[t]) /\ waitQueue'[t][i] = waitQueue[t][i]
                  /\ waitQueue[t][i] \in Request \ {r}
  <2>1. CASE t = s /\ i = n + 1
    BY <1>8, <2>1
  <2>2. CASE t = s /\ i # n + 1
    <3>1. i \in 1 .. n
      BY <1>6, <1>8, <2>2
    <3>2. QED
      BY <1>3, <1>5, <1>8, <2>2, <3>1, Members DEF IInv
  <2>3. CASE t # s
    BY <1>5, <1>7, <2>3, Members DEF IInv
  <2>4. QED
    BY <2>1, <2>2, <2>3
<1>10. ASSUME NEW t \in Holder, NEW i \in 1 .. Len(waitQueue[t])
       PROVE  i \in 1 .. Len(waitQueue'[t]) /\ waitQueue'[t][i] = waitQueue[t][i]
  <2>1. CASE t = s
    BY <1>6, <1>8, <2>1
  <2>2. CASE t # s
    BY <1>7, <2>2
  <2>3. QED
    BY <2>1, <2>2
<1>11. \A q \in Request, t \in Holder : Uses(q, t)' <=> Uses(q, t)
  BY <1>2, <1>4, <1>5 DEF Uses
<1>12. HandlerInv'
  BY <1>2, <1>3, <1>4, <1>5 DEF IInv, HandlerInv
<1>13. QueueInv'
  <2>1. ASSUME NEW t \in Holder, NEW i \in 1 .. Len(waitQueue'[t])
        PROVE  LET q == waitQueue'[t][i]
               IN  /\ pc'[q] = "wait" /\ using'[q] = t /\ q \notin signalled
                   /\ t \in available[ManagerOf[q]]
    <3>1. CASE waitQueue'[t][i] = r /\ t = s
      BY <1>1, <1>4, <1>5, <3>1
    <3>2. CASE /\ i \in 1 .. Len(waitQueue[t]) /\ waitQueue'[t][i] = waitQueue[t][i]
               /\ waitQueue[t][i] \in Request \ {r}
      BY <1>4, <3>2 DEF IInv, QueueInv
    <3>3. QED
      BY <1>9, <3>1, <3>2
  <2>2. ASSUME NEW t \in Holder, NEW i \in 1 .. Len(waitQueue'[t]), NEW j \in 1 .. Len(waitQueue'[t]),
               waitQueue'[t][i] = waitQueue'[t][j]
        PROVE  i = j
    BY <1>9, <2>2 DEF IInv, QueueInv
  <2>3. ASSUME NEW q \in Request, pc'[q] = "wait", q \notin signalled
        PROVE  \E i \in 1 .. Len(waitQueue'[using'[q]]) : waitQueue'[using'[q]][i] = q
    <3>1. CASE q = r
      <4>1. n + 1 \in 1 .. Len(waitQueue'[s])
        BY <1>6, <1>8
      <4>2. QED
        BY <1>4, <1>8, <3>1, <4>1
    <3>2. CASE q # r
      <4>1. using'[q] = using[q] /\ using[q] \in Holder
        BY <1>4, <2>3, <3>2 DEF IInv, HandlerInv
      <4>2. PICK i \in 1 .. Len(waitQueue[using[q]]) : waitQueue[using[q]][i] = q
        BY <1>4, <2>3, <3>2 DEF IInv, QueueInv
      <4>3. QED
        BY <1>10, <4>1, <4>2
    <3>3. QED
      BY <3>1, <3>2
  <2>4. QED
    BY <1>2, <2>1, <2>2, <2>3 DEF QueueInv
<1>14. UserInv' /\ PlaceInv' /\ GrantInv'
  BY <1>2, <1>11, SamePlaces
<1>15. HostInv'
  <2>1. \A t \in Holder : Addresses(t)' = Addresses(t)
    BY <1>2 DEF Addresses
  <2>2. \A q \in Request, t \in Holder :
          Uses(q, t)' /\ pc'[q] \notin {"load", "create"} => onHost[t] = Addresses(t)
    BY <1>4, <1>5, <1>11 DEF IInv, HostInv
  <2>3. QED
    BY <1>2, <2>1, <2>2, Members DEF IInv, HostInv
<1>16. QED
  BY <1>12, <1>13, <1>14, <1>15, Conjuncts

\* A new set was nowhere; its user is the only one that knows it.
LEMMA NewContainerSetStep ==
  ASSUME IInv, TypeOK', NEW r \in Request, NewContainerSet(r)
  PROVE  IInv'
<1> DEFINE m == ManagerOf[r]
<1>1. PICK s \in Holder : /\ granted[s] = {}
                          /\ Get(s, DemandOf[m])
                          /\ available' = [available EXCEPT ![m] = @ \cup {s}]
                          /\ using' = [using EXCEPT ![r] = s]
  BY DEF NewContainerSet
<1>2. /\ UNCHANGED << signalled, freePool, removing, waitQueue, onHost >>
      /\ pc[r] = "get"
      /\ pc' = [pc EXCEPT ![r] = "load"]
  BY DEF NewContainerSet, NeedsNew, TryGet, Goto
<1>3. m \in Manager /\ DemandOf[m] \in Demand
  BY Members DEF IInv
<1>4. /\ pc'[r] = "load" /\ using'[r] = s
      /\ \A q \in Request : q # r => pc'[q] = pc[q] /\ using'[q] = using[q]
  BY <1>1, <1>2 DEF IInv, TypeOK
<1>5. \A k \in Manager : \A t : t \in available'[k] <=> t \in available[k] \/ (k = m /\ t = s)
  BY <1>1 DEF IInv, TypeOK
<1>6. /\ granted'[s] # {}
      /\ \A t \in Holder : t # s => granted'[t] = granted[t] /\ coordinator'[t] = coordinator[t]
  BY <1>1, <1>3, GetGrants DEF IInv, TypeOK
<1>7. /\ \A k \in Manager : s \notin available[k]
      /\ \A k \in Manager : \A i \in 1 .. Len(freePool[k]) : freePool[k][i] # s
      /\ \A k \in Manager : \A i \in 1 .. Len(removing[k]) : removing[k][i] # s
      /\ coordinator[s] = {}
  BY <1>1 DEF IInv, GrantInv
<1>8. onHost[s] = {}
  BY <1>1, <1>7 DEF IInv, HostInv, Addresses
<1>9. \A t \in Holder : t # s => Addresses(t)' = Addresses(t)
  BY <1>6 DEF Addresses
<1>10. /\ using[r] = NoSet /\ r \notin signalled
       /\ \A t \in Holder : ~Uses(r, t)
       /\ \A t \in Holder : \A i \in 1 .. Len(waitQueue[t]) : waitQueue[t][i] # r
  BY <1>2, NewcomerFacts
<1>11. \A q \in Request, t \in Holder : Uses(q, t)' <=> Uses(q, t) \/ (q = r /\ t = s)
  BY <1>2, <1>4, <1>10 DEF Uses
<1>12. \A q \in Request : ~Uses(q, s)
  BY <1>1, <1>7, Members DEF IInv, UserInv
<1>13. HandlerInv'
  BY <1>1, <1>2, <1>4, <1>10 DEF IInv, HandlerInv
<1>14. QueueInv'
  <2>1. \A t \in Holder : \A i \in 1 .. Len(waitQueue[t]) :
          LET q == waitQueue[t][i]
          IN  /\ pc'[q] = "wait" /\ using'[q] = t /\ q \notin signalled
              /\ t \in available'[ManagerOf[q]]
    <3>1. ASSUME NEW t \in Holder, NEW i \in 1 .. Len(waitQueue[t])
          PROVE  waitQueue[t][i] \in Request \ {r}
      BY <1>10, Members DEF IInv
    <3>2. QED
      BY <1>4, <1>5, <3>1, Members DEF IInv, QueueInv
  <2>2. \A q \in Request : pc'[q] = "wait" /\ q \notin signalled =>
          \E i \in 1 .. Len(waitQueue[using'[q]]) : waitQueue[using'[q]][i] = q
    BY <1>4 DEF IInv, QueueInv
  <2>3. QED
    BY <1>2, <2>1, <2>2 DEF IInv, QueueInv
<1>15. UserInv'
  <2>1. SingleUser'
    BY <1>11, <1>12 DEF IInv, UserInv, SingleUser
  <2>2. \A q \in Request, t \in Holder : Uses(q, t)' => t \in available'[ManagerOf[q]]
    BY <1>5, <1>11, Members DEF IInv, UserInv
  <2>3. ASSUME NEW k \in Manager, NEW t \in available'[k]
        PROVE  \E q \in Request : Uses(q, t)'
    <3>1. CASE t = s
      BY <1>11, <3>1
    <3>2. CASE t # s
      <4>1. t \in available[k] /\ t \in Holder
        BY <1>5, <2>3, <3>2 DEF IInv, TypeOK
      <4>2. QED
        BY <1>11, <4>1 DEF IInv, UserInv
    <3>3. QED
      BY <3>1, <3>2
  <2>4. QED
    BY <2>1, <2>2, <2>3 DEF UserInv
<1>16. PlaceInv'
  <2>1. \A k, l \in Manager : k # l => available'[k] \cap available'[l] = {}
    BY <1>5, <1>7 DEF IInv, PlaceInv
  <2>2. \A k, l \in Manager : \A i \in 1 .. Len(freePool[k]) : freePool[k][i] \notin available'[l]
    BY <1>5, <1>7 DEF IInv, PlaceInv
  <2>3. \A k, l \in Manager : \A i \in 1 .. Len(removing[k]) : removing[k][i] \notin available'[l]
    BY <1>5, <1>7 DEF IInv, PlaceInv
  <2>4. QED
    BY <1>2, <2>1, <2>2, <2>3 DEF IInv, PlaceInv
<1>17. GrantInv'
  <2>1. ASSUME NEW t \in Holder, t # s
        PROVE  /\ granted'[t] # {} <=>
                    \E k \in Manager : \/ t \in available'[k]
                                       \/ \E i \in 1 .. Len(freePool[k]) : freePool[k][i] = t
                                       \/ \E i \in 1 .. Len(removing[k]) : removing[k][i] = t
               /\ granted'[t] = {} => coordinator'[t] = {}
    BY <1>5, <1>6, <2>1 DEF IInv, GrantInv
  <2>2. s \in available'[m]
    BY <1>3, <1>5
  <2>3. QED
    BY <1>2, <1>3, <1>6, <2>1, <2>2 DEF GrantInv
<1>18. HostInv'
  <2>1. \A t \in Holder : onHost[t] \subseteq Addresses(t)'
    BY <1>8, <1>9 DEF IInv, HostInv
  <2>2. \A k \in Manager : \A i \in 1 .. Len(freePool[k]) :
          onHost[freePool[k][i]] = Addresses(freePool[k][i])'
    <3>1. ASSUME NEW k \in Manager, NEW i \in 1 .. Len(freePool[k])
          PROVE  onHost[freePool[k][i]] = Addresses(freePool[k][i])'
      <4>1. PICK t \in Holder : t = freePool[k][i]
        BY Members DEF IInv
      <4>2. t # s /\ onHost[t] = Addresses(t)
        BY <1>7, <4>1 DEF IInv, HostInv
      <4>3. onHost[t] = Addresses(t)'
        BY <1>9, <4>2
      <4>4. t = freePool'[k][i]
        BY <1>2, <4>1
      <4>5. QED
        BY <4>1, <4>3, <4>4
    <3>2. QED
      BY <3>1
  <2>3. \A q \in Request, t \in Holder :
          Uses(q, t)' /\ pc'[q] \notin {"load", "create"} => onHost[t] = Addresses(t)'
    <3>1. ASSUME NEW q \in Request, NEW t \in Holder, Uses(q, t)', pc'[q] \notin {"load", "create"}
          PROVE  onHost[t] = Addresses(t)'
      <4>1. q # r /\ Uses(q, t) /\ pc[q] \notin {"load", "create"} /\ t # s
        BY <1>4, <1>11, <1>12, <3>1
      <4>2. QED
        BY <1>9, <4>1 DEF IInv, HostInv
    <3>2. QED
      BY <3>1
  <2>4. QED
    BY <1>2, <2>1, <2>2, <2>3 DEF HostInv
<1>19. QED
  BY <1>13, <1>14, <1>15, <1>16, <1>17, <1>18, Conjuncts

\* A request that puts its set back is its only user, and the set is complete.
LEMMA PutFacts ==
  ASSUME IInv, NEW r \in Request, pc[r] = "put"
  PROVE  /\ using[r] \in Holder /\ r \notin signalled
         /\ \A q \in Request : Uses(q, using[r]) <=> q = r
         /\ using[r] \in available[ManagerOf[r]] /\ ManagerOf[r] \in Manager
         /\ onHost[using[r]] = Addresses(using[r])
         /\ \A t \in Holder : \A i \in 1 .. Len(waitQueue[t]) : waitQueue[t][i] \in Request \ {r}
<1>1. using[r] \in Holder /\ r \notin signalled
  BY DEF IInv, HandlerInv
<1>2. Uses(r, using[r])
  BY DEF Uses
<1>3. \A q \in Request : Uses(q, using[r]) <=> q = r
  BY <1>1, <1>2 DEF IInv, UserInv, SingleUser
<1>4. using[r] \in available[ManagerOf[r]] /\ ManagerOf[r] \in Manager
  BY <1>1, <1>2, Members DEF IInv, UserInv
<1>5. onHost[using[r]] = Addresses(using[r])
  BY <1>1, <1>2 DEF IInv, HostInv
<1>6. ASSUME NEW t \in Holder, NEW i \in 1 .. Len(waitQueue[t])
      PROVE  waitQueue[t][i] \in Request \ {r}
  <2>1. waitQueue[t][i] \in Request /\ pc[waitQueue[t][i]] = "wait"
    BY Members DEF IInv, QueueInv
  <2>2. QED
    BY <2>1
<1>7. QED
  BY <1>1, <1>3, <1>4, <1>5, <1>6

\* A set with a queue passes to the request that waited longest.
LEMMA PassStep ==
  ASSUME IInv, TypeOK', NEW r \in Request, PutContainerSet(r), waitQueue[using[r]] # << >>
  PROVE  IInv'
<1> DEFINE m == ManagerOf[r]
           s == using[r]
           h == Head(waitQueue[s])
<1>1. /\ UNCHANGED << available, freePool, removing, granted, coordinator, onHost >>
      /\ pc[r] = "put"
      /\ pc' = [pc EXCEPT ![r] = "done"]
      /\ using' = [using EXCEPT ![r] = NoSet]
      /\ signalled' = signalled \cup {h}
      /\ waitQueue' = [waitQueue EXCEPT ![s] = Tail(@)]
  BY DEF PutContainerSet, NextQueue, Goto, clusterVars
<1>2. /\ s \in Holder /\ r \notin signalled
      /\ \A q \in Request : Uses(q, s) <=> q = r
      /\ s \in available[m] /\ m \in Manager
      /\ onHost[s] = Addresses(s)
      /\ \A t \in Holder : \A i \in 1 .. Len(waitQueue[t]) : waitQueue[t][i] \in Request \ {r}
  BY <1>1, PutFacts
<1> DEFINE n == Len(waitQueue[s])
<1>3. waitQueue[s] \in Seq(Request) /\ n \in Nat \ {0} /\ h = waitQueue[s][1] /\ 1 \in 1 .. n
  BY <1>2, Members DEF IInv
<1>4. h \in Request /\ h # r /\ pc[h] = "wait" /\ using[h] = s /\ h \notin signalled
  BY <1>2, <1>3 DEF IInv, QueueInv
<1>5. s \in available[ManagerOf[h]]
  BY <1>2, <1>3 DEF IInv, QueueInv
<1>6. /\ pc'[r] = "done" /\ using'[r] = NoSet
      /\ \A q \in Request : q # r => pc'[q] = pc[q] /\ using'[q] = using[q]
  BY <1>1 DEF IInv, TypeOK
<1>7. /\ waitQueue'[s] = Tail(waitQueue[s])
      /\ \A t \in Holder : t # s => waitQueue'[t] = waitQueue[t]
  BY <1>1, <1>2 DEF IInv, TypeOK
<1>8. /\ Len(waitQueue'[s]) = n - 1
      /\ \A i \in 1 .. n - 1 : waitQueue'[s][i] = waitQueue[s][i + 1]
  BY <1>3, <1>7, HeadTailProperties
\* The queue of s moves up by one place, the others do not move.
<1>9. ASSUME NEW i \in 1 .. Len(waitQueue'[s])
      PROVE  /\ i + 1 \in 1 .. n /\ waitQueue'[s][i] = waitQueue[s][i + 1]
             /\ waitQueue'[s][i] \in Request \ {h, r}
  <2>1. i + 1 \in 1 .. n /\ i + 1 # 1 /\ i \in 1 .. n - 1
    BY <1>3, <1>8
  <2>2. waitQueue[s][i + 1] # waitQueue[s][1]
    BY <1>2, <1>3, <2>1 DEF IInv, QueueInv
  <2>3. QED
    BY <1>2, <1>3, <1>8, <2>1, <2>2
<1>10. ASSUME NEW t \in Holder, t # s, NEW i \in 1 .. Len(waitQueue'[t])
       PROVE  /\ i \in 1 .. Len(waitQueue[t]) /\ waitQueue'[t][i] = waitQueue[t][i]
              /\ waitQueue'[t][i] \in Request \ {h, r}
  <2>1. i \in 1 .. Len(waitQueue[t]) /\ waitQueue'[t][i] = waitQueue[t][i]
    BY <1>7, <1>10
  <2>2. using[waitQueue[t][i]] = t
    BY <2>1 DEF IInv, QueueInv
  <2>3. QED
    BY <1>2, <1>4, <1>10, <2>1, <2>2
<1>11. \A q \in Request, t \in Holder :
         Uses(q, t)' <=> (Uses(q, t) /\ q # r) \/ (q = h /\ t = s)
  <2>1. ASSUME NEW q \in Request, NEW t \in Holder
        PROVE  Uses(q, t)' <=> (Uses(q, t) /\ q # r) \/ (q = h /\ t = s)
    <3>1. CASE q = r
      BY <1>4, <1>6, <3>1, ControllerAssumption DEF Uses
    <3>2. CASE q = h
      BY <1>1, <1>4, <1>6, <3>2 DEF Uses
    <3>3. CASE q # r /\ q # h
      BY <1>1, <1>6, <3>3 DEF Uses
    <3>4. QED
      BY <3>1, <3>2, <3>3
  <2>2. QED
    BY <2>1
<1>12. HandlerInv'
  BY <1>1, <1>2, <1>4, <1>6 DEF IInv, HandlerInv
<1>13. QueueInv'
  <2>1. ASSUME NEW t \in Holder, NEW i \in 1 .. Len(waitQueue'[t])
        PROVE  \E j \in 1 .. Len(waitQueue[t]) :
                 /\ waitQueue'[t][i] = waitQueue[t][j] /\ waitQueue'[t][i] \in Request \ {h, r}
                 /\ (t = s /\ j = i + 1) \/ (t # s /\ j = i)
    BY <1>9, <1>10
  <2>2. ASSUME NEW t \in Holder, NEW i \in 1 .. Len(waitQueue'[t])
        PROVE  LET q == waitQueue'[t][i]
               IN  /\ pc'[q] = "wait" /\ using'[q] = t /\ q \notin signalled'
                   /\ t \in available[ManagerOf[q]]
    <3>1. PICK j \in 1 .. Len(waitQueue[t]) :
            waitQueue'[t][i] = waitQueue[t][j] /\ waitQueue'[t][i] \in Request \ {h, r}
      BY <2>1
    <3>2. QED
      BY <1>1, <1>6, <3>1 DEF IInv, QueueInv
  <2>3. ASSUME NEW t \in Holder, NEW i \in 1 .. Len(waitQueue'[t]), NEW j \in 1 .. Len(waitQueue'[t]),
               waitQueue'[t][i] = waitQueue'[t][j]
        PROVE  i = j
    <3>1. PICK k \in 1 .. Len(waitQueue[t]) :
            waitQueue'[t][i] = waitQueue[t][k] /\ ((t = s /\ k = i + 1) \/ (t # s /\ k = i))
      BY <2>1
    <3>2. PICK l \in 1 .. Len(waitQueue[t]) :
            waitQueue'[t][j] = waitQueue[t][l] /\ ((t = s /\ l = j + 1) \/ (t # s /\ l = j))
      BY <2>1
    <3>3. waitQueue[t][k] = waitQueue[t][l]
      BY <2>3, <3>1, <3>2
    <3>4. k = l
      BY <3>3 DEF IInv, QueueInv
    <3>5. i \in Int /\ j \in Int
      OBVIOUS
    <3>6. QED
      BY <3>1, <3>2, <3>4, <3>5
  <2>4. ASSUME NEW q \in Request, pc'[q] = "wait", q \notin signalled'
        PROVE  \E i \in 1 .. Len(waitQueue'[using'[q]]) : waitQueue'[using'[q]][i] = q
    <3>1. q # r /\ q # h /\ pc[q] = "wait" /\ q \notin signalled /\ using'[q] = using[q]
      BY <1>1, <1>6, <2>4
    <3>2. using[q] \in Holder
      BY <3>1 DEF IInv, HandlerInv
    <3>3. PICK i \in 1 .. Len(waitQueue[using[q]]) : waitQueue[using[q]][i] = q
      BY <3>1 DEF IInv, QueueInv
    <3>4. CASE using[q] = s
      <4>1. i # 1 /\ i \in 1 .. n
        BY <1>3, <3>1, <3>3, <3>4
      <4>2. i - 1 \in 1 .. n - 1 /\ (i - 1) + 1 = i
        BY <1>3, <4>1
      <4>3. i - 1 \in 1 .. Len(waitQueue'[s]) /\ waitQueue'[s][i - 1] = q
        BY <1>8, <3>3, <3>4, <4>2
      <4>4. QED
        BY <3>1, <3>4, <4>3
    <3>5. CASE using[q] # s
      BY <1>7, <3>1, <3>2, <3>3, <3>5
    <3>6. QED
      BY <3>4, <3>5
  <2>5. available' = available
    BY <1>1
  <2>6. QED
    BY <2>2, <2>3, <2>4, <2>5 DEF QueueInv
<1>14. UserInv'
  <2>1. SingleUser'
    BY <1>2, <1>11 DEF IInv, UserInv, SingleUser
  <2>2. \A q \in Request, t \in Holder : Uses(q, t)' => t \in available[ManagerOf[q]]
    BY <1>5, <1>11 DEF IInv, UserInv
  <2>3. ASSUME NEW k \in Manager, NEW t \in available[k]
        PROVE  \E q \in Request : Uses(q, t)'
    <3>1. CASE t = s
      BY <1>2, <1>4, <1>11, <3>1
    <3>2. CASE t # s
      <4>1. t \in Holder
        BY <2>3 DEF IInv, TypeOK
      <4>2. PICK q \in Request : Uses(q, t)
        BY <2>3 DEF IInv, UserInv
      <4>3. q # r
        BY <1>2, <3>2, <4>2 DEF Uses
      <4>4. QED
        BY <1>11, <4>1, <4>2, <4>3
    <3>3. QED
      BY <3>1, <3>2
  <2>4. QED
    BY <1>1, <2>1, <2>2, <2>3 DEF UserInv
<1>15. PlaceInv' /\ GrantInv'
  BY <1>1 DEF IInv, PlaceInv, GrantInv
<1>16. HostInv'
  <2>1. \A t \in Holder : Addresses(t)' = Addresses(t)
    BY <1>1 DEF Addresses
  <2>2. \A q \in Request, t \in Holder :
          Uses(q, t)' /\ pc'[q] \notin {"load", "create"} => onHost[t] = Addresses(t)
    BY <1>2, <1>6, <1>11 DEF IInv, HostInv
  <2>3. QED
    BY <1>1, <2>1, <2>2, Members DEF IInv, HostInv
<1>17. QED
  BY <1>12, <1>13, <1>14, <1>15, <1>16, Conjuncts

\* A set without a queue goes to the top of the stack of free sets.
LEMMA ReleaseStep ==
  ASSUME IInv, TypeOK', NEW r \in Request, PutContainerSet(r), waitQueue[using[r]] = << >>
  PROVE  IInv'
<1> DEFINE m == ManagerOf[r]
           n == Len(freePool[m])
<1>1. /\ UNCHANGED << signalled, waitQueue, removing, granted, coordinator, onHost >>
      /\ pc[r] = "put"
      /\ pc' = [pc EXCEPT ![r] = "done"]
      /\ using' = [using EXCEPT ![r] = NoSet]
      /\ available' = [available EXCEPT ![m] = @ \ {using[r]}]
      /\ freePool' = [freePool EXCEPT ![m] = Append(@, using[r])]
  BY DEF PutContainerSet, MakeFree, Goto, clusterVars
<1>2. /\ using[r] \in Holder /\ r \notin signalled
      /\ \A q \in Request : Uses(q, using[r]) <=> q = r
      /\ using[r] \in available[m] /\ m \in Manager
      /\ onHost[using[r]] = Addresses(using[r])
      /\ \A t \in Holder : \A i \in 1 .. Len(waitQueue[t]) : waitQueue[t][i] \in Request \ {r}
  BY <1>1, PutFacts
<1>3. PICK s \in Holder : s = using[r]
  BY <1>2
<1>4. /\ s \in available[m] /\ m \in Manager /\ onHost[s] = Addresses(s)
      /\ \A q \in Request : Uses(q, s) <=> q = r
  BY <1>2, <1>3
<1>5. freePool[m] \in Seq(Holder) /\ n \in Nat
  BY <1>4, Members DEF IInv
<1>6. /\ pc'[r] = "done" /\ using'[r] = NoSet
      /\ \A q \in Request : q # r => pc'[q] = pc[q] /\ using'[q] = using[q]
  BY <1>1 DEF IInv, TypeOK
<1>7. \A k \in Manager : \A t : t \in available'[k] <=> t \in available[k] /\ t # s
  <2>1. \A k \in Manager : k # m => s \notin available[k]
    BY <1>4 DEF IInv, PlaceInv
  <2>2. \A k \in Manager : \A t : t \in available'[k] <=> t \in available[k] /\ ~(k = m /\ t = s)
    BY <1>1, <1>3 DEF IInv, TypeOK
  <2>3. QED
    BY <2>1, <2>2
<1>8. /\ freePool'[m] = Append(freePool[m], s)
      /\ \A k \in Manager : k # m => freePool'[k] = freePool[k]
  BY <1>1, <1>2, <1>3 DEF IInv, TypeOK
<1>9. /\ Len(freePool'[m]) = n + 1
      /\ freePool'[m][n + 1] = s
      /\ \A i \in 1 .. n : freePool'[m][i] = freePool[m][i]
  BY <1>5, <1>8, AppendProperties
\* The free pools have what they had at its place, and s at the end of one.
<1>10. ASSUME NEW k \in Manager, NEW i \in 1 .. Len(freePool'[k])
       PROVE  \/ k = m /\ i = n + 1 /\ freePool'[k][i] = s
              \/ /\ i \in 1 .. Len(freePool[k]) /\ freePool'[k][i] = freePool[k][i]
                 /\ freePool[k][i] \in Holder \ {s}
  <2>1. \A j \in 1 .. Len(freePool[k]) : freePool[k][j] \in Holder \ {s}
    BY <1>4, Members DEF IInv, PlaceInv
  <2>2. CASE k = m /\ i = n + 1
    BY <1>9, <2>2
  <2>3. CASE k = m /\ i # n + 1
    <3>1. i \in 1 .. n
      BY <1>5, <1>9, <2>3
    <3>2. QED
      BY <1>9, <2>1, <2>3, <3>1
  <2>4. CASE k # m
    BY <1>8, <2>1, <2>4
  <2>5. QED
    BY <2>2, <2>3, <2>4
<1>11. ASSUME NEW k \in Manager, NEW i \in 1 .. Len(freePool[k])
       PROVE  i \in 1 .. Len(freePool'[k]) /\ freePool'[k][i] = freePool[k][i]
  <2>1. CASE k = m
    BY <1>5, <1>9, <2>1
  <2>2. CASE k # m
    BY <1>8, <2>2
  <2>3. QED
    BY <2>1, <2>2
<1>12. \A k \in Manager : \A i \in 1 .. Len(removing[k]) : removing[k][i] # s
  BY <1>4 DEF IInv, PlaceInv
<1>13. \A q \in Request, t \in Holder : Uses(q, t)' <=> Uses(q, t) /\ q # r
  BY <1>1, <1>6, ControllerAssumption DEF Uses
<1>14. HandlerInv'
  BY <1>1, <1>2, <1>6 DEF IInv, HandlerInv
<1>15. QueueInv'
  <2>1. Len(waitQueue[s]) = 0
    BY <1>3
  <2>2. ASSUME NEW t \in Holder, NEW i \in 1 .. Len(waitQueue[t])
        PROVE  LET q == waitQueue[t][i]
               IN  /\ pc'[q] = "wait" /\ using'[q] = t /\ q \notin signalled
                   /\ t \in available'[ManagerOf[q]]
    <3>1. waitQueue[t][i] \in Request \ {r}
      BY <1>2
    <3>2. t # s
      BY <2>1
    <3>3. ManagerOf[waitQueue[t][i]] \in Manager
      BY <3>1, Members DEF IInv
    <3>4. QED
      BY <1>6, <1>7, <3>1, <3>2, <3>3 DEF IInv, QueueInv
  <2>3. \A q \in Request : pc'[q] = "wait" /\ q \notin signalled =>
          \E i \in 1 .. Len(waitQueue[using'[q]]) : waitQueue[using'[q]][i] = q
    BY <1>6 DEF IInv, QueueInv
  <2>4. UNCHANGED << signalled, waitQueue >>
    BY <1>1
  <2>5. QED
    BY <2>2, <2>3, <2>4 DEF IInv, QueueInv
<1>16. UserInv'
  <2>1. SingleUser'
    BY <1>13 DEF IInv, UserInv, SingleUser
  <2>2. ASSUME NEW q \in Request, NEW t \in Holder, Uses(q, t)'
        PROVE  t \in available'[ManagerOf[q]]
    <3>1. Uses(q, t) /\ t # s
      BY <1>4, <1>13, <2>2
    <3>2. QED
      BY <1>7, <3>1, Members DEF IInv, UserInv
  <2>3. ASSUME NEW k \in Manager, NEW t \in available'[k]
        PROVE  \E q \in Request : Uses(q, t)'
    <3>1. t \in available[k] /\ t # s /\ t \in Holder
      BY <1>7, <2>3 DEF IInv, TypeOK
    <3>2. PICK q \in Request : Uses(q, t)
      BY <3>1 DEF IInv, UserInv
    <3>3. q # r
      BY <1>3, <3>1, <3>2 DEF Uses
    <3>4. QED
      BY <1>13, <3>1, <3>2, <3>3
  <2>4. QED
    BY <2>1, <2>2, <2>3 DEF UserInv
<1>17. PlaceInv'
  <2>1. \A k, l \in Manager : k # l => available'[k] \cap available'[l] = {}
    BY <1>7 DEF IInv, PlaceInv
  <2>2. \A k, l \in Manager : \A i \in 1 .. Len(freePool'[k]) : freePool'[k][i] \notin available'[l]
    BY <1>7, <1>10 DEF IInv, PlaceInv
  <2>3. \A k, l \in Manager : \A i \in 1 .. Len(removing[k]) : removing[k][i] \notin available'[l]
    BY <1>7 DEF IInv, PlaceInv
  <2>4. \A k, l \in Manager : \A i \in 1 .. Len(freePool'[k]), j \in 1 .. Len(removing[l]) :
          freePool'[k][i] # removing[l][j]
    BY <1>10, <1>12 DEF IInv, PlaceInv
  <2>5. ASSUME NEW k \in Manager, NEW l \in Manager,
               NEW i \in 1 .. Len(freePool'[k]), NEW j \in 1 .. Len(freePool'[l]),
               freePool'[k][i] = freePool'[l][j]
        PROVE  k = l /\ i = j
    <3>1. \/ k = m /\ i = n + 1 /\ freePool'[k][i] = s
          \/ /\ i \in 1 .. Len(freePool[k]) /\ freePool'[k][i] = freePool[k][i]
             /\ freePool[k][i] \in Holder \ {s}
      BY <1>10
    <3>2. \/ l = m /\ j = n + 1 /\ freePool'[l][j] = s
          \/ /\ j \in 1 .. Len(freePool[l]) /\ freePool'[l][j] = freePool[l][j]
             /\ freePool[l][j] \in Holder \ {s}
      BY <1>10
    <3>3. \A x, y \in Manager : \A a \in 1 .. Len(freePool[x]), b \in 1 .. Len(freePool[y]) :
            freePool[x][a] = freePool[y][b] => x = y /\ a = b
      BY DEF IInv, PlaceInv
    <3>4. CASE freePool'[k][i] = s
      <4>1. k = m /\ i = n + 1
        BY <3>1, <3>4
      <4>2. l = m /\ j = n + 1
        BY <2>5, <3>2, <3>4
      <4>3. QED
        BY <4>1, <4>2
    <3>5. CASE freePool'[k][i] # s
      <4>1. i \in 1 .. Len(freePool[k]) /\ freePool'[k][i] = freePool[k][i]
        BY <3>1, <3>5
      <4>2. j \in 1 .. Len(freePool[l]) /\ freePool'[l][j] = freePool[l][j]
        BY <2>5, <3>2, <3>5
      <4>3. freePool[k][i] = freePool[l][j]
        BY <2>5, <4>1, <4>2
      <4>4. QED
        BY <3>3, <4>1, <4>2, <4>3
    <3>6. QED
      BY <3>4, <3>5
  <2>6. removing' = removing
    BY <1>1
  <2>7. QED
    BY <2>1, <2>2, <2>3, <2>4, <2>5, <2>6 DEF IInv, PlaceInv
<1>18. GrantInv'
  <2>1. ASSUME NEW t \in Holder
        PROVE  (\E k \in Manager : \/ t \in available[k]
                                   \/ \E i \in 1 .. Len(freePool[k]) : freePool[k][i] = t)
          <=> (\E k \in Manager : \/ t \in available'[k]
                                  \/ \E i \in 1 .. Len(freePool'[k]) : freePool'[k][i] = t)
    <3>1. CASE t = s
      <4>1. n + 1 \in 1 .. Len(freePool'[m])
        BY <1>5, <1>9
      <4>2. QED
        BY <1>4, <1>9, <3>1, <4>1
    <3>2. CASE t # s
      BY <1>7, <1>10, <1>11, <3>2
    <3>3. QED
      BY <3>1, <3>2
  <2>2. UNCHANGED << removing, granted, coordinator >>
    BY <1>1
  <2>3. QED
    BY <2>1, <2>2 DEF IInv, GrantInv
<1>19. HostInv'
  <2>1. \A t \in Holder : Addresses(t)' = Addresses(t)
    BY <1>1 DEF Addresses
  <2>2. \A k \in Manager : \A i \in 1 .. Len(freePool'[k]) :
          onHost[freePool'[k][i]] = Addresses(freePool'[k][i]) /\ freePool'[k][i] \in Holder
    BY <1>4, <1>10 DEF IInv, HostInv
  <2>3. \A q \in Request, t \in Holder :
          Uses(q, t)' /\ pc'[q] \notin {"load", "create"} => onHost[t] = Addresses(t)
    BY <1>6, <1>13 DEF IInv, HostInv
  <2>4. onHost' = onHost
    BY <1>1
  <2>5. QED
    BY <2>1, <2>2, <2>3, <2>4 DEF IInv, HostInv
<1>20. QED
  BY <1>14, <1>15, <1>16, <1>17, <1>18, <1>19, Conjuncts

\* The recycler shares the free pool out between what it keeps and what it removes.
LEMMA RecycleStep ==
  ASSUME IInv, TypeOK', NEW m \in Manager, Recycle(m)
  PROVE  IInv'
<1>1. /\ UNCHANGED << pc, using, signalled, available, waitQueue, granted, coordinator, onHost >>
      /\ removing[m] = << >>
  BY DEF Recycle, clusterVars, handlerVars
<1>2. PICK old, kept \in SUBSET (1 .. Len(freePool[m])) :
        /\ kept = (1 .. Len(freePool[m])) \ old
        /\ \E e \in Ascending(old), f \in Ascending(kept) :
             /\ removing' = [removing EXCEPT ![m] = Slice(freePool[m], e)]
             /\ freePool' = [freePool EXCEPT ![m] = Slice(freePool[m], f)]
  BY RecycleSlices DEF IInv
<1>3. PICK e \in Ascending(old), f \in Ascending(kept) :
        /\ removing' = [removing EXCEPT ![m] = Slice(freePool[m], e)]
        /\ freePool' = [freePool EXCEPT ![m] = Slice(freePool[m], f)]
  BY <1>2
<1>4. freePool[m] \in Seq(Holder)
  BY Members DEF IInv
<1>5. /\ freePool'[m] = Slice(freePool[m], f) /\ removing'[m] = Slice(freePool[m], e)
      /\ \A k \in Manager : k # m => freePool'[k] = freePool[k] /\ removing'[k] = removing[k]
  BY <1>3 DEF IInv, TypeOK
<1>6. /\ \A i \in 1 .. Len(removing'[m]) : e[i] \in old /\ removing'[m][i] = freePool[m][e[i]]
      /\ \A i, j \in 1 .. Len(removing'[m]) : e[i] = e[j] => i = j
      /\ \A j \in old : \E i \in 1 .. Len(removing'[m]) : e[i] = j
  BY <1>4, <1>5, SliceFacts
<1>7. /\ \A i \in 1 .. Len(freePool'[m]) : f[i] \in kept /\ freePool'[m][i] = freePool[m][f[i]]
      /\ \A i, j \in 1 .. Len(freePool'[m]) : f[i] = f[j] => i = j
      /\ \A j \in kept : \E i \in 1 .. Len(freePool'[m]) : f[i] = j
  BY <1>4, <1>5, SliceFacts
<1>8. /\ \A j \in kept : j \in 1 .. Len(freePool[m]) /\ j \notin old
      /\ \A j \in old : j \in 1 .. Len(freePool[m])
      /\ \A j \in 1 .. Len(freePool[m]) : j \in old \/ j \in kept
  BY <1>2
\* Every entry of the new pools is an entry of the old free pool, or was there before.
<1>9. ASSUME NEW k \in Manager, NEW i \in 1 .. Len(freePool'[k])
      PROVE  \E j \in 1 .. Len(freePool[k]) :
               /\ freePool'[k][i] = freePool[k][j]
               /\ k = m => j = f[i] /\ j \notin old
               /\ k # m => j = i
  <2>1. CASE k = m
    BY <1>7, <1>8, <2>1
  <2>2. CASE k # m
    BY <1>5, <2>2
  <2>3. QED
    BY <2>1, <2>2
<1>10. ASSUME NEW k \in Manager, NEW i \in 1 .. Len(removing'[k])
       PROVE  /\ k = m => \E j \in 1 .. Len(freePool[m]) :
                             removing'[k][i] = freePool[m][j] /\ j = e[i] /\ j \in old
              /\ k # m => i \in 1 .. Len(removing[k]) /\ removing'[k][i] = removing[k][i]
  <2>1. CASE k = m
    BY <1>6, <1>8, <2>1
  <2>2. CASE k # m
    BY <1>5, <2>2
  <2>3. QED
    BY <2>1, <2>2
<1>11. HandlerInv' /\ QueueInv'
  BY <1>1, SameQueues DEF IInv, HandlerInv
<1>12. \A q \in Request, t \in Holder : Uses(q, t)' <=> Uses(q, t)
  BY <1>1 DEF Uses
<1>13. UserInv'
  <2>1. \A k \in Manager : available[k] \subseteq Holder
    BY DEF IInv, TypeOK
  <2>2. QED
    BY <1>1, <1>12, <2>1 DEF IInv, UserInv, SingleUser
<1>14. PlaceInv'
  <2>1. available' = available
    BY <1>1
  <2>2. ASSUME NEW k \in Manager, NEW l \in Manager, NEW i \in 1 .. Len(freePool'[k])
        PROVE  freePool'[k][i] \notin available[l]
    <3>1. PICK j \in 1 .. Len(freePool[k]) : freePool'[k][i] = freePool[k][j]
      BY <1>9
    <3>2. QED
      BY <3>1 DEF IInv, PlaceInv
  <2>3. ASSUME NEW k \in Manager, NEW l \in Manager, NEW i \in 1 .. Len(removing'[k])
        PROVE  removing'[k][i] \notin available[l]
    <3>1. CASE k = m
      <4>1. PICK j \in 1 .. Len(freePool[m]) : removing'[k][i] = freePool[m][j]
        BY <1>10, <3>1
      <4>2. QED
        BY <4>1 DEF IInv, PlaceInv
    <3>2. CASE k # m
      BY <1>10, <3>2 DEF IInv, PlaceInv
    <3>3. QED
      BY <3>1, <3>2
  <2>4. ASSUME NEW k \in Manager, NEW l \in Manager,
               NEW i \in 1 .. Len(freePool'[k]), NEW j \in 1 .. Len(removing'[l])
        PROVE  freePool'[k][i] # removing'[l][j]
    <3>1. PICK x \in 1 .. Len(freePool[k]) :
            freePool'[k][i] = freePool[k][x] /\ (k = m => x \notin old)
      BY <1>9
    <3>2. CASE l = m
      <4>1. PICK y \in 1 .. Len(freePool[m]) : removing'[l][j] = freePool[m][y] /\ y \in old
        BY <1>10, <3>2
      <4>2. ~(k = m /\ x = y)
        BY <3>1, <4>1
      <4>3. freePool[k][x] # freePool[m][y]
        BY <4>2 DEF IInv, PlaceInv
      <4>4. QED
        BY <3>1, <4>1, <4>3
    <3>3. CASE l # m
      BY <1>10, <3>1, <3>3 DEF IInv, PlaceInv
    <3>4. QED
      BY <3>2, <3>3
  <2>5. ASSUME NEW k \in Manager, NEW l \in Manager,
               NEW i \in 1 .. Len(freePool'[k]), NEW j \in 1 .. Len(freePool'[l]),
               freePool'[k][i] = freePool'[l][j]
        PROVE  k = l /\ i = j
    <3>1. PICK x \in 1 .. Len(freePool[k]) :
            /\ freePool'[k][i] = freePool[k][x]
            /\ k = m => x = f[i]
            /\ k # m => x = i
      BY <1>9
    <3>2. PICK y \in 1 .. Len(freePool[l]) :
            /\ freePool'[l][j] = freePool[l][y]
            /\ l = m => y = f[j]
            /\ l # m => y = j
      BY <1>9
    <3>3. freePool[k][x] = freePool[l][y]
      BY <2>5, <3>1, <3>2
    <3>4. k = l /\ x = y
      <4>1. \A a, b \in Manager : \A c \in 1 .. Len(freePool[a]), d \in 1 .. Len(freePool[b]) :
              freePool[a][c] = freePool[b][d] => a = b /\ c = d
        BY DEF IInv, PlaceInv
      <4> QED
        BY <3>3, <4>1
    <3>5. QED
      BY <1>7, <3>1, <3>2, <3>4
  <2>6. ASSUME NEW k \in Manager, NEW l \in Manager,
               NEW i \in 1 .. Len(removing'[k]), NEW j \in 1 .. Len(removing'[l]),
               removing'[k][i] = removing'[l][j]
        PROVE  k = l /\ i = j
    <3>1. CASE k = m /\ l = m
      <4>1. PICK x \in 1 .. Len(freePool[m]) : removing'[k][i] = freePool[m][x] /\ x = e[i]
        BY <1>10, <3>1
      <4>2. PICK y \in 1 .. Len(freePool[m]) : removing'[l][j] = freePool[m][y] /\ y = e[j]
        BY <1>10, <3>1
      <4>3. freePool[m][x] = freePool[m][y]
        BY <2>6, <4>1, <4>2
      <4>4. x = y
        <5>1. \A c, d \in 1 .. Len(freePool[m]) : freePool[m][c] = freePool[m][d] => c = d
          BY DEF IInv, PlaceInv
        <5> QED
          BY <4>3, <5>1
      <4>5. e[i] = e[j] /\ i \in 1 .. Len(removing'[m]) /\ j \in 1 .. Len(removing'[m])
        BY <3>1, <4>1, <4>2, <4>4
      <4>6. i = j
        BY <1>6, <4>5
      <4>7. QED
        BY <3>1, <4>6
    <3>2. CASE k = m /\ l # m
      <4>1. PICK x \in 1 .. Len(freePool[m]) : removing'[k][i] = freePool[m][x]
        BY <1>10, <3>2
      <4>2. QED
        BY <1>10, <2>6, <3>2, <4>1 DEF IInv, PlaceInv
    <3>3. CASE k # m /\ l = m
      <4>1. PICK y \in 1 .. Len(freePool[m]) : removing'[l][j] = freePool[m][y]
        BY <1>10, <3>3
      <4>2. QED
        BY <1>10, <2>6, <3>3, <4>1 DEF IInv, PlaceInv
    <3>4. CASE k # m /\ l # m
      BY <1>10, <2>6, <3>4 DEF IInv, PlaceInv
    <3>5. QED
      BY <3>1, <3>2, <3>3, <3>4
  <2>7. QED
    BY <2>1, <2>2, <2>3, <2>4, <2>5, <2>6 DEF IInv, PlaceInv
<1>15. GrantInv'
  <2>1. ASSUME NEW t \in Holder, NEW k \in Manager
        PROVE  \/ \E i \in 1 .. Len(freePool[k]) : freePool[k][i] = t
               \/ \E i \in 1 .. Len(removing[k]) : removing[k][i] = t
           <=> \/ \E i \in 1 .. Len(freePool'[k]) : freePool'[k][i] = t
               \/ \E i \in 1 .. Len(removing'[k]) : removing'[k][i] = t
    <3>1. CASE k = m
      <4>1. Len(removing[m]) = 0
        BY <1>1
      <4>2. ASSUME NEW j \in 1 .. Len(freePool[m])
            PROVE  \/ \E i \in 1 .. Len(freePool'[m]) : freePool'[m][i] = freePool[m][j]
                   \/ \E i \in 1 .. Len(removing'[m]) : removing'[m][i] = freePool[m][j]
        <5>1. CASE j \in old
          <6>1. PICK i \in 1 .. Len(removing'[m]) : e[i] = j
            BY <1>6, <5>1
          <6>2. QED
            BY <1>6, <6>1
        <5>2. CASE j \in kept
          <6>1. PICK i \in 1 .. Len(freePool'[m]) : f[i] = j
            BY <1>7, <5>2
          <6>2. QED
            BY <1>7, <6>1
        <5>3. QED
          BY <1>8, <5>1, <5>2
      <4>3. \A i \in 1 .. Len(freePool'[m]) : \E j \in 1 .. Len(freePool[m]) :
              freePool'[m][i] = freePool[m][j]
        BY <1>9
      <4>4. \A i \in 1 .. Len(removing'[m]) : \E j \in 1 .. Len(freePool[m]) :
              removing'[m][i] = freePool[m][j]
        BY <1>10
      <4>5. ~\E i \in 1 .. Len(removing[m]) : removing[m][i] = t
        BY <4>1
      <4>6. (\E i \in 1 .. Len(freePool[m]) : freePool[m][i] = t)
              => \/ \E i \in 1 .. Len(freePool'[m]) : freePool'[m][i] = t
                 \/ \E i \in 1 .. Len(removing'[m]) : removing'[m][i] = t
        BY <4>2
      <4>7. (\/ \E i \in 1 .. Len(freePool'[m]) : freePool'[m][i] = t
             \/ \E i \in 1 .. Len(removing'[m]) : removing'[m][i] = t)
              => \E i \in 1 .. Len(freePool[m]) : freePool[m][i] = t
        BY <4>3, <4>4
      <4>8. QED
        BY <3>1, <4>5, <4>6, <4>7, Zenon
    <3>2. CASE k # m
      BY <1>5, <3>2
    <3>3. QED
      BY <3>1, <3>2
  <2>2. UNCHANGED << available, granted, coordinator >>
    BY <1>1
  <2>3. QED
    BY <2>1, <2>2 DEF IInv, GrantInv
<1>16. HostInv'
  <2>1. \A t \in Holder : Addresses(t)' = Addresses(t)
    BY <1>1 DEF Addresses
  <2>2. ASSUME NEW k \in Manager, NEW i \in 1 .. Len(freePool'[k])
        PROVE  onHost[freePool'[k][i]] = Addresses(freePool'[k][i]) /\ freePool'[k][i] \in Holder
    <3>1. \A j \in 1 .. Len(freePool[k]) :
            /\ onHost[freePool[k][j]] = Addresses(freePool[k][j])
            /\ freePool[k][j] \in Holder
      BY Members DEF IInv, HostInv
    <3>2. CASE k = m
      <4>1. f[i] \in 1 .. Len(freePool[m]) /\ freePool'[m][i] = freePool[m][f[i]]
        BY <1>7, <1>8, <3>2
      <4>2. QED
        BY <3>1, <3>2, <4>1
    <3>3. CASE k # m
      BY <1>5, <3>1, <3>3
    <3>4. QED
      BY <3>2, <3>3
  <2>3. UNCHANGED << onHost, pc >>
    BY <1>1
  <2>4. QED
    BY <1>12, <2>1, <2>2, <2>3 DEF IInv, HostInv
<1>17. QED
  BY <1>11, <1>13, <1>14, <1>15, <1>16, Conjuncts

\* A destroyed set is nowhere any more, as its grant is gone.
LEMMA PutResourceStep ==
  ASSUME IInv, TypeOK', NEW m \in Manager, PutResource(m)
  PROVE  IInv'
<1> DEFINE n == Len(removing[m])
<1>1. /\ UNCHANGED << pc, using, signalled, freePool, available, waitQueue, onHost >>
      /\ removing[m] # << >>
      /\ removing' = [removing EXCEPT ![m] = Tail(@)]
      /\ onHost[Head(removing[m])] = {}
      /\ granted' = [granted EXCEPT ![Head(removing[m])] = {}]
      /\ coordinator' = [coordinator EXCEPT ![Head(removing[m])] = {}]
  BY DEF PutResource, Put, Destroyed, handlerVars
<1>2. /\ removing[m] \in Seq(Holder) /\ n \in Nat \ {0} /\ 1 \in 1 .. n
      /\ Head(removing[m]) = removing[m][1] /\ removing[m][1] \in Holder
  BY <1>1, Members DEF IInv
<1>3. PICK s \in Holder : s = Head(removing[m]) /\ s = removing[m][1]
  BY <1>2
<1>4. /\ granted'[s] = {} /\ coordinator'[s] = {} /\ onHost[s] = {}
      /\ \A t \in Holder : t # s => granted'[t] = granted[t] /\ coordinator'[t] = coordinator[t]
  BY <1>1, <1>3 DEF IInv, TypeOK, ClusterTypeOK
<1>5. /\ \A k \in Manager : s \notin available[k]
      /\ \A k \in Manager : \A i \in 1 .. Len(freePool[k]) : freePool[k][i] # s
      /\ \A k \in Manager : \A i \in 1 .. Len(removing[k]) : removing[k][i] = s => k = m /\ i = 1
  BY <1>2, <1>3 DEF IInv, PlaceInv
<1>6. /\ removing'[m] = Tail(removing[m])
      /\ \A k \in Manager : k # m => removing'[k] = removing[k]
  BY <1>1 DEF IInv, TypeOK
<1>7. /\ Len(removing'[m]) = n - 1
      /\ \A i \in 1 .. n - 1 : removing'[m][i] = removing[m][i + 1]
  <2> DEFINE q == removing[m]
  <2>1. q \in Seq(Holder) /\ q # << >>
    BY <1>1, <1>2
  <2> HIDE DEF q
  <2>2. Len(Tail(q)) = Len(q) - 1 /\ \A i \in 1 .. Len(Tail(q)) : Tail(q)[i] = q[i + 1]
    BY <2>1, HeadTailProperties
  <2>3. QED
    BY <1>6, <2>2 DEF q
\* The list of m moves up by one place, the others do not move.
<1>8. ASSUME NEW k \in Manager, NEW i \in 1 .. Len(removing'[k])
      PROVE  \E j \in 1 .. Len(removing[k]) :
               /\ removing'[k][i] = removing[k][j] /\ removing[k][j] # s
               /\ k = m => j = i + 1
               /\ k # m => j = i
  <2>1. CASE k = m
    <3>1. i \in 1 .. n - 1 /\ i + 1 \in 1 .. n /\ i + 1 # 1
      BY <1>2, <1>7, <2>1
    <3>2. QED
      BY <1>5, <1>7, <2>1, <3>1
  <2>2. CASE k # m
    BY <1>5, <1>6, <2>2
  <2>3. QED
    BY <2>1, <2>2
<1>9. ASSUME NEW k \in Manager, NEW j \in 1 .. Len(removing[k]), removing[k][j] # s
      PROVE  \E i \in 1 .. Len(removing'[k]) : removing'[k][i] = removing[k][j]
  <2>1. CASE k = m
    <3>1. j # 1
      BY <1>3, <1>9, <2>1
    <3>2. j - 1 \in 1 .. n - 1 /\ (j - 1) + 1 = j
      BY <1>2, <2>1, <3>1
    <3>3. j - 1 \in 1 .. Len(removing'[m]) /\ removing'[m][j - 1] = removing[m][j]
      BY <1>7, <3>2
    <3>4. QED
      BY <2>1, <3>3
  <2>2. CASE k # m
    BY <1>6, <2>2
  <2>3. QED
    BY <2>1, <2>2
<1>10. HandlerInv' /\ QueueInv'
  BY <1>1, SameQueues DEF IInv, HandlerInv
<1>11. \A q \in Request, t \in Holder : Uses(q, t)' <=> Uses(q, t)
  BY <1>1 DEF Uses
<1>12. \A q \in Request : ~Uses(q, s)
  BY <1>5, Members DEF IInv, UserInv
<1>13. UserInv'
  <2>1. \A k \in Manager : available[k] \subseteq Holder
    BY DEF IInv, TypeOK
  <2>2. QED
    BY <1>1, <1>11, <2>1 DEF IInv, UserInv, SingleUser
<1>14. PlaceInv'
  <2>1. UNCHANGED << available, freePool >>
    BY <1>1
  <2>2. ASSUME NEW k \in Manager, NEW l \in Manager, NEW i \in 1 .. Len(removing'[k])
        PROVE  removing'[k][i] \notin available[l]
    <3>1. PICK j \in 1 .. Len(removing[k]) : removing'[k][i] = removing[k][j]
      BY <1>8
    <3>2. QED
      BY <3>1 DEF IInv, PlaceInv
  <2>3. ASSUME NEW k \in Manager, NEW l \in Manager,
               NEW i \in 1 .. Len(freePool[k]), NEW j \in 1 .. Len(removing'[l])
        PROVE  freePool[k][i] # removing'[l][j]
    <3>1. PICK x \in 1 .. Len(removing[l]) : removing'[l][j] = removing[l][x]
      BY <1>8
    <3>2. QED
      BY <3>1 DEF IInv, PlaceInv
  <2>4. ASSUME NEW k \in Manager, NEW l \in Manager,
               NEW i \in 1 .. Len(removing'[k]), NEW j \in 1 .. Len(removing'[l]),
               removing'[k][i] = removing'[l][j]
        PROVE  k = l /\ i = j
    <3>1. PICK x \in 1 .. Len(removing[k]) :
            /\ removing'[k][i] = removing[k][x]
            /\ k = m => x = i + 1
            /\ k # m => x = i
      BY <1>8
    <3>2. PICK y \in 1 .. Len(removing[l]) :
            /\ removing'[l][j] = removing[l][y]
            /\ l = m => y = j + 1
            /\ l # m => y = j
      BY <1>8
    <3>3. removing[k][x] = removing[l][y]
      BY <2>4, <3>1, <3>2
    <3>4. \A a, b \in Manager : \A c \in 1 .. Len(removing[a]), d \in 1 .. Len(removing[b]) :
            removing[a][c] = removing[b][d] => a = b /\ c = d
      BY DEF IInv, PlaceInv
    <3>5. k = l /\ x = y
      BY <3>3, <3>4
    <3>6. i \in Int /\ j \in Int
      BY SMTT(30)
    <3>7. QED
      BY <3>1, <3>2, <3>5, <3>6
  <2>5. /\ \A k, l \in Manager : k # l => available'[k] \cap available'[l] = {}
        /\ \A k, l \in Manager : \A i \in 1 .. Len(freePool'[k]) : freePool'[k][i] \notin available'[l]
        /\ \A k, l \in Manager : \A i \in 1 .. Len(freePool'[k]), j \in 1 .. Len(freePool'[l]) :
             freePool'[k][i] = freePool'[l][j] => k = l /\ i = j
    BY <2>1 DEF IInv, PlaceInv
  <2>6. /\ \A k, l \in Manager : \A i \in 1 .. Len(removing'[k]) : removing'[k][i] \notin available'[l]
        /\ \A k, l \in Manager : \A i \in 1 .. Len(freePool'[k]), j \in 1 .. Len(removing'[l]) :
             freePool'[k][i] # removing'[l][j]
        /\ \A k, l \in Manager : \A i \in 1 .. Len(removing'[k]), j \in 1 .. Len(removing'[l]) :
             removing'[k][i] = removing'[l][j] => k = l /\ i = j
    BY <2>1, <2>2, <2>3, <2>4
  <2>7. QED
    BY <2>5, <2>6 DEF PlaceInv
<1>15. GrantInv'
  <2>1. ~\E k \in Manager : \/ s \in available[k]
                            \/ \E i \in 1 .. Len(freePool[k]) : freePool[k][i] = s
                            \/ \E i \in 1 .. Len(removing'[k]) : removing'[k][i] = s
    BY <1>5, <1>8, SMTT(30)
  <2>2. ASSUME NEW t \in Holder, t # s, NEW k \in Manager
        PROVE  (\E i \in 1 .. Len(removing[k]) : removing[k][i] = t)
                 <=> (\E i \in 1 .. Len(removing'[k]) : removing'[k][i] = t)
    <3>1. ASSUME NEW i \in 1 .. Len(removing[k]), removing[k][i] = t
          PROVE  \E j \in 1 .. Len(removing'[k]) : removing'[k][j] = t
      BY <1>9, <2>2, <3>1
    <3>2. ASSUME NEW i \in 1 .. Len(removing'[k]), removing'[k][i] = t
          PROVE  \E j \in 1 .. Len(removing[k]) : removing[k][j] = t
      BY <1>8, <3>2
    <3>3. QED
      BY <3>1, <3>2
  <2>3. UNCHANGED << available, freePool >>
    BY <1>1
  <2>4. /\ granted'[s] = {} /\ coordinator'[s] = {}
        /\ \A u \in Holder \ {s} : granted'[u] = granted[u] /\ coordinator'[u] = coordinator[u]
    BY <1>4 DEF IInv
  <2>5. \A u \in Holder \ {s} :
          /\ granted'[u] # {} <=>
               \E k \in Manager : \/ u \in available[k]
                                  \/ \E i \in 1 .. Len(freePool[k]) : freePool[k][i] = u
                                  \/ \E i \in 1 .. Len(removing'[k]) : removing'[k][i] = u
          /\ granted'[u] = {} => coordinator'[u] = {}
    BY <2>2, <2>4 DEF IInv, GrantInv
  <2>6. QED
    BY <2>1, <2>3, <2>4, <2>5 DEF GrantInv
<1>16. HostInv'
  <2>1. \A t \in Holder : t # s => Addresses(t)' = Addresses(t)
    BY <1>4 DEF Addresses
  <2>2. \A t \in Holder : onHost[t] \subseteq Addresses(t)'
    BY <1>4, <2>1 DEF IInv, HostInv
  <2>3. ASSUME NEW k \in Manager, NEW i \in 1 .. Len(freePool[k])
        PROVE  \E t \in Holder : t = freePool[k][i] /\ onHost[t] = Addresses(t)'
    <3>1. PICK t \in Holder : t = freePool[k][i]
      BY Members DEF IInv
    <3>2. t # s /\ onHost[t] = Addresses(t)
      BY <1>5, <3>1 DEF IInv, HostInv
    <3>3. QED
      BY <2>1, <3>1, <3>2
  <2>4. ASSUME NEW q \in Request, NEW t \in Holder, Uses(q, t), pc[q] \notin {"load", "create"}
        PROVE  onHost[t] = Addresses(t)'
    <3>1. t # s /\ onHost[t] = Addresses(t)
      BY <1>12, <2>4 DEF IInv, HostInv
    <3>2. QED
      BY <2>1, <3>1
  <2>5. UNCHANGED << pc, freePool, onHost >>
    BY <1>1
  <2>6. QED
    BY <1>11, <2>2, <2>3, <2>4, <2>5 DEF HostInv
<1>17. QED
  BY <1>10, <1>13, <1>14, <1>15, <1>16, Conjuncts

\* The controller starts in the invariant.
LEMMA InitInv == Init => IInv
<1> SUFFICES ASSUME Init PROVE IInv
  OBVIOUS
<1>1. TypeOK
  <2>1. ClusterTypeOK
    BY InitTypes DEF Init
  <2>2. QED
    BY <2>1, ControllerAssumption DEF Init, TypeOK, PCs
<1>2. HandlerInv
  BY DEF Init, HandlerInv
<1>3. /\ \A s \in Holder : Len(waitQueue[s]) = 0 /\ granted[s] = {} /\ coordinator[s] = {} /\ onHost[s] = {}
      /\ \A m \in Manager : Len(freePool[m]) = 0 /\ Len(removing[m]) = 0 /\ available[m] = {}
      /\ \A r \in Request : pc[r] = "idle"
  BY DEF Init, ClusterInit
<1>4. \A r \in Request, s \in Holder : ~Uses(r, s)
  BY <1>2, <1>3, ControllerAssumption DEF HandlerInv, Uses
<1>5. QueueInv
  BY <1>3 DEF QueueInv
<1>6. UserInv
  BY <1>3, <1>4 DEF UserInv, SingleUser
<1>7. PlaceInv
  BY <1>3 DEF PlaceInv
<1>8. GrantInv
  BY <1>3 DEF GrantInv
<1>9. HostInv
  BY <1>3, <1>4 DEF HostInv
<1>10. QED
  BY <1>1, <1>2, <1>5, <1>6, <1>7, <1>8, <1>9 DEF IInv

\* Every step of handlers, recyclers and containers keeps the invariant.
LEMMA InductiveStep ==
  ASSUME IInv, [Next]_vars
  PROVE  IInv'
<1>1. TypeOK'
  BY TypeStep DEF IInv
<1>2. ASSUME NEW r \in Request, Arrive(r) \/ Handler(r) \/ RunFails(r)
      PROVE  IInv'
  <2>1. CASE Quiet(r)
    BY <1>1, <2>1, QuietStep
  <2>2. CASE GetFree(r)
    BY <1>1, <2>2, GetFreeStep
  <2>3. CASE JoinQueue(r)
    BY <1>1, <2>3, JoinQueueStep
  <2>4. CASE Wake(r)
    BY <1>1, <2>4, WakeStep
  <2>5. CASE NewContainerSet(r)
    BY <1>1, <2>5, NewContainerSetStep
  <2>6. CASE \E a \in Address : CreateContainer(r, a)
    BY <1>1, <2>6, CreateStep
  <2>7. CASE PutContainerSet(r)
    BY <1>1, <2>7, PassStep, ReleaseStep
  <2>8. QED
    BY <1>2, <2>1, <2>2, <2>3, <2>4, <2>5, <2>6, <2>7 DEF Handler, Quiet
<1>3. ASSUME NEW m \in Manager, Recycler(m)
      PROVE  IInv'
  BY <1>1, <1>3, RecycleStep, RemoveStep, PutResourceStep DEF Recycler
<1>4. CASE Tick \/ UNCHANGED vars
  BY <1>1, <1>4, TickStep
<1>5. QED
  BY <1>2, <1>3, <1>4 DEF Next

-----------------------------------------------------------------------------
(***************************************************************************)
(* What holds of the controller.                                           *)
(***************************************************************************)

\* The inductive invariant holds in every reachable state.
THEOREM ControllerInvariant == Spec => []IInv
  BY InitInv, InductiveStep, PTL DEF Spec

\* Every part of the controller's state keeps its type.
THEOREM ControllerTypeCorrect == Spec => []TypeOK
<1>1. IInv => TypeOK
  BY DEF IInv
<1>2. QED
  BY <1>1, ControllerInvariant, PTL

\* No two requests ever work on one container set: not when GetContainerSet takes a
\* free one or creates one, not when NextQueue passes one on.
THEOREM OneRequestPerSet == Spec => []SingleUser
<1>1. IInv => SingleUser
  BY DEF IInv, UserInv
<1>2. QED
  BY <1>1, ControllerInvariant, PTL

\* Every step of the handlers and recyclers is one the ledger allows on its own, so
\* what ClusterProofs shows of the ledger holds under any controller traffic.
THEOREM ControllerUsesLedger == Spec => ClusterSpec
<1>1. Init => ClusterInit
  BY DEF Init
<1>2. IInv /\ [Next]_vars => [ClusterNext]_clusterVars
  BY LedgerStep DEF IInv
<1>3. QED
  BY <1>1, <1>2, ControllerInvariant, PTL DEF Spec, ClusterSpec

\* Under any traffic two live container sets share neither CPUs nor ports.
COROLLARY NoSharingUnderTraffic == Spec => [](CpuExclusive /\ PortExclusive)
  BY ControllerUsesLedger, NoCpuGrantedTwice, NoPortGrantedTwice, PTL

\* The places of a set, one by one.
LEMMA PlaceCases ==
  ASSUME NEW s \in Holder, NEW p
  PROVE  p \in Places(s) <=>
           \E m \in Manager :
             \/ s \in available[m] /\ p = << m, 0, "available" >>
             \/ \E i \in 1 .. Len(freePool[m]) : freePool[m][i] = s /\ p = << m, i, "free" >>
             \/ \E i \in 1 .. Len(removing[m]) : removing[m][i] = s /\ p = << m, i, "removing" >>
<1> DEFINE A == { << m, 0, "available" >> : m \in { n \in Manager : s \in available[n] } }
           F == UNION { { << m, i, "free" >> : i \in PlacesIn(freePool[m], s) } : m \in Manager }
           R == UNION { { << m, i, "removing" >> : i \in PlacesIn(removing[m], s) } : m \in Manager }
<1>1. p \in A <=> \E m \in Manager : s \in available[m] /\ p = << m, 0, "available" >>
  OBVIOUS
<1>2. p \in F <=> \E m \in Manager : \E i \in 1 .. Len(freePool[m]) :
                    freePool[m][i] = s /\ p = << m, i, "free" >>
  BY DEF PlacesIn
<1>3. p \in R <=> \E m \in Manager : \E i \in 1 .. Len(removing[m]) :
                    removing[m][i] = s /\ p = << m, i, "removing" >>
  BY DEF PlacesIn
<1>4. Places(s) = A \cup F \cup R
  BY DEF Places
<1> HIDE DEF A, F, R
<1>5. QED
  BY <1>1, <1>2, <1>3, <1>4

\* PoolsAgree follows from the invariant.
LEMMA PoolsAgreeHolds == IInv => PoolsAgree
<1> SUFFICES ASSUME IInv, NEW s \in Holder
             PROVE  /\ Cardinality(Places(s)) = IF granted[s] = {} THEN 0 ELSE 1
                    /\ (\E m \in Manager : s \in available[m]) <=> (\E r \in Request : Uses(r, s))
                    /\ waitQueue[s] # << >> => \E r \in Request : Uses(r, s)
  BY DEF PoolsAgree
<1>1. ASSUME NEW p \in Places(s), NEW q \in Places(s)
      PROVE  p = q
  <2>1. PICK m \in Manager :
          \/ s \in available[m] /\ p = << m, 0, "available" >>
          \/ \E i \in 1 .. Len(freePool[m]) : freePool[m][i] = s /\ p = << m, i, "free" >>
          \/ \E i \in 1 .. Len(removing[m]) : removing[m][i] = s /\ p = << m, i, "removing" >>
    BY PlaceCases
  <2>2. PICK n \in Manager :
          \/ s \in available[n] /\ q = << n, 0, "available" >>
          \/ \E i \in 1 .. Len(freePool[n]) : freePool[n][i] = s /\ q = << n, i, "free" >>
          \/ \E i \in 1 .. Len(removing[n]) : removing[n][i] = s /\ q = << n, i, "removing" >>
    BY PlaceCases
  <2>3. CASE s \in available[m] /\ p = << m, 0, "available" >>
    <3>1. s \in available[n] /\ q = << n, 0, "available" >>
      BY <2>2, <2>3 DEF IInv, PlaceInv
    <3>2. m = n
      BY <2>3, <3>1 DEF IInv, PlaceInv
    <3>3. QED
      BY <2>3, <3>1, <3>2
  <2>4. CASE \E i \in 1 .. Len(freePool[m]) : freePool[m][i] = s /\ p = << m, i, "free" >>
    <3>1. PICK i \in 1 .. Len(freePool[m]) : freePool[m][i] = s /\ p = << m, i, "free" >>
      BY <2>4
    <3>2. PICK j \in 1 .. Len(freePool[n]) : freePool[n][j] = s /\ q = << n, j, "free" >>
      BY <2>2, <3>1 DEF IInv, PlaceInv
    <3>3. m = n /\ i = j
      BY <3>1, <3>2 DEF IInv, PlaceInv
    <3>4. QED
      BY <3>1, <3>2, <3>3
  <2>5. CASE \E i \in 1 .. Len(removing[m]) : removing[m][i] = s /\ p = << m, i, "removing" >>
    <3>1. PICK i \in 1 .. Len(removing[m]) : removing[m][i] = s /\ p = << m, i, "removing" >>
      BY <2>5
    <3>2. PICK j \in 1 .. Len(removing[n]) : removing[n][j] = s /\ q = << n, j, "removing" >>
      BY <2>2, <3>1 DEF IInv, PlaceInv
    <3>3. m = n /\ i = j
      BY <3>1, <3>2 DEF IInv, PlaceInv
    <3>4. QED
      BY <3>1, <3>2, <3>3
  <2>6. QED
    BY <2>1, <2>3, <2>4, <2>5
<1>2. granted[s] # {} <=> \E p : p \in Places(s)
  <2>1. granted[s] # {} <=>
          \E m \in Manager : \/ s \in available[m]
                             \/ \E i \in 1 .. Len(freePool[m]) : freePool[m][i] = s
                             \/ \E i \in 1 .. Len(removing[m]) : removing[m][i] = s
    BY DEF IInv, GrantInv
  <2>2. ASSUME NEW m \in Manager,
               \/ s \in available[m]
               \/ \E i \in 1 .. Len(freePool[m]) : freePool[m][i] = s
               \/ \E i \in 1 .. Len(removing[m]) : removing[m][i] = s
        PROVE  \E p : p \in Places(s)
    <3>1. CASE s \in available[m]
      BY <3>1, PlaceCases
    <3>2. CASE \E i \in 1 .. Len(freePool[m]) : freePool[m][i] = s
      <4>1. PICK i \in 1 .. Len(freePool[m]) : freePool[m][i] = s
        BY <3>2
      <4>2. << m, i, "free" >> \in Places(s)
        BY <4>1, PlaceCases
      <4>3. QED
        BY <4>2
    <3>3. CASE \E i \in 1 .. Len(removing[m]) : removing[m][i] = s
      <4>1. PICK i \in 1 .. Len(removing[m]) : removing[m][i] = s
        BY <3>3
      <4>2. << m, i, "removing" >> \in Places(s)
        BY <4>1, PlaceCases
      <4>3. QED
        BY <4>2
    <3>4. QED
      BY <2>2, <3>1, <3>2, <3>3
  <2>3. ASSUME NEW p \in Places(s)
        PROVE  \E m \in Manager : \/ s \in available[m]
                                  \/ \E i \in 1 .. Len(freePool[m]) : freePool[m][i] = s
                                  \/ \E i \in 1 .. Len(removing[m]) : removing[m][i] = s
    BY PlaceCases
  <2>4. QED
    BY <2>1, <2>2, <2>3
<1>3. Cardinality(Places(s)) = IF granted[s] = {} THEN 0 ELSE 1
  <2>1. CASE granted[s] = {}
    <3>1. Places(s) = {}
      BY <1>2, <2>1
    <3>2. QED
      BY <2>1, <3>1, FS_EmptySet
  <2>2. CASE granted[s] # {}
    <3>1. PICK p : Places(s) = {p}
      BY <1>1, <1>2, <2>2
    <3>2. QED
      BY <2>2, <3>1, FS_Singleton
  <2>3. QED
    BY <2>1, <2>2
<1>4. (\E m \in Manager : s \in available[m]) <=> (\E r \in Request : Uses(r, s))
  BY Members DEF IInv, UserInv
<1>5. ASSUME waitQueue[s] # << >>
      PROVE  \E r \in Request : Uses(r, s)
  <2>1. 1 \in 1 .. Len(waitQueue[s]) /\ waitQueue[s][1] \in Request
    BY <1>5, Members DEF IInv
  <2>2. s \in available[ManagerOf[waitQueue[s][1]]] /\ ManagerOf[waitQueue[s][1]] \in Manager
    BY <2>1, Members DEF IInv, QueueInv
  <2>3. QED
    BY <1>4, <2>2
<1>6. QED
  BY <1>3, <1>4, <1>5

\* A granted set is in one place of one manager, an available one has a user, and a
\* queue is only behind a user: GetContainerSet, PutContainerSet and Recycle between
\* them lose no set and list none twice.
THEOREM NoSetLostOrTwice == Spec => []PoolsAgree
  BY PoolsAgreeHolds, ControllerInvariant, PTL

\* NoLostWaiter follows from the invariant.
LEMMA NoLostWaiterHolds == IInv => NoLostWaiter
<1> SUFFICES ASSUME IInv, NEW r \in Request, pc[r] = "wait"
             PROVE  LET places == UNION { { << s, i >> : i \in PlacesIn(waitQueue[s], r) } : s \in Holder }
                    IN  IF r \in signalled THEN places = {}
                        ELSE \E i \in 1 .. Len(waitQueue[using[r]]) : places = { << using[r], i >> }
  BY DEF NoLostWaiter
<1> DEFINE places == UNION { { << s, i >> : i \in PlacesIn(waitQueue[s], r) } : s \in Holder }
<1>1. \A p : p \in places <=> \E s \in Holder : \E i \in 1 .. Len(waitQueue[s]) :
                                waitQueue[s][i] = r /\ p = << s, i >>
  BY DEF PlacesIn
<1> HIDE DEF places
<1>2. CASE r \in signalled
  <2>1. \A s \in Holder : \A i \in 1 .. Len(waitQueue[s]) : waitQueue[s][i] # r
    BY <1>2 DEF IInv, QueueInv
  <2>2. places = {}
    BY <1>1, <2>1
  <2>3. QED
    BY <1>2, <2>2 DEF places
<1>3. CASE r \notin signalled
  <2>1. using[r] \in Holder
    BY DEF IInv, HandlerInv
  <2>2. PICK i \in 1 .. Len(waitQueue[using[r]]) : waitQueue[using[r]][i] = r
    BY <1>3 DEF IInv, QueueInv
  <2>3. ASSUME NEW s \in Holder, NEW j \in 1 .. Len(waitQueue[s]), waitQueue[s][j] = r
        PROVE  s = using[r] /\ j = i
    <3>1. s = using[r]
      BY <2>3 DEF IInv, QueueInv
    <3>2. QED
      BY <2>1, <2>2, <2>3, <3>1 DEF IInv, QueueInv
  <2>4. places = { << using[r], i >> }
    BY <1>1, <2>1, <2>2, <2>3
  <2>5. QED
    BY <1>3, <2>4 DEF places
<1>4. QED
  BY <1>2, <1>3

\* A request that waits is in one queue, that of the set it waits for, or it has its
\* signal: NextQueue drops no channel and signals none twice.
THEOREM WaitersAreNeverLost == Spec => []NoLostWaiter
  BY NoLostWaiterHolds, ControllerInvariant, PTL

\* A query runs on a set that holds its grant and has all its containers up, so no
\* recycler destroys a container under a query.
THEOREM QueriesRunOnLoadedSets == Spec => []RunsOnLoadedSet
<1>1. IInv => RunsOnLoadedSet
  <2> SUFFICES ASSUME IInv, NEW r \in Request, pc[r] \in {"run", "put"}
               PROVE  granted[using[r]] # {} /\ onHost[using[r]] = Addresses(using[r])
    BY DEF RunsOnLoadedSet
  <2>1. using[r] \in Holder /\ Uses(r, using[r])
    BY DEF IInv, HandlerInv, Uses
  <2>2. using[r] \in available[ManagerOf[r]] /\ ManagerOf[r] \in Manager
    BY <2>1, Members DEF IInv, UserInv
  <2>3. granted[using[r]] # {}
    BY <2>1, <2>2 DEF IInv, GrantInv
  <2>4. onHost[using[r]] = Addresses(using[r])
    BY <2>1 DEF IInv, HostInv
  <2>5. QED
    BY <2>3, <2>4
<1>2. QED
  BY <1>1, ControllerInvariant, PTL

\* Containers are on granted addresses only, and never on those of another set: a
\* port that PutResource returns is no longer bound.
THEOREM ContainersKeepToGrants == Spec => []HostMatchesLedger
<1>1. IInv /\ PortExclusive => HostMatchesLedger
  BY DEF IInv, HostInv, PortExclusive, HostMatchesLedger
<1>2. QED
  BY <1>1, ControllerInvariant, NoSharingUnderTraffic, PTL

-----------------------------------------------------------------------------
(***************************************************************************)
(* The controller implements SetLease.                                     *)
(***************************************************************************)

\* The owner of a lease is the user of the set.
OwnersMatch ==
  /\ LeaseOwner \in [Holder -> Request \cup {NoSet}]
  /\ \A r \in Request, s \in Holder : LeaseOwner[s] = r <=> Uses(r, s)
  /\ \A s \in Holder : LeaseOwner[s] = NoSet <=> \A r \in Request : ~Uses(r, s)

\* With one user at a time, the owner of a lease is the user of the set.
LEMMA OwnerFacts == SingleUser => OwnersMatch
<1> SUFFICES ASSUME SingleUser PROVE OwnersMatch
  OBVIOUS
<1>1. ASSUME NEW s \in Holder
      PROVE  \/ LeaseOwner[s] \in Request /\ Uses(LeaseOwner[s], s)
             \/ LeaseOwner[s] = NoSet /\ \A r \in Request : ~Uses(r, s)
  <2>1. CASE \E r \in Request : Uses(r, s)
    <3>1. LeaseOwner[s] = CHOOSE r \in Request : Uses(r, s)
      BY <2>1 DEF LeaseOwner
    <3>2. QED
      BY <2>1, <3>1, Zenon
  <2>2. CASE ~\E r \in Request : Uses(r, s)
    BY <2>2 DEF LeaseOwner
  <2>3. QED
    BY <2>1, <2>2
<1>2. LeaseOwner \in [Holder -> Request \cup {NoSet}]
  <2>1. LeaseOwner = [s \in Holder |-> LeaseOwner[s]]
    BY DEF LeaseOwner
  <2>2. QED
    BY <1>1, <2>1
<1>3. QED
  BY <1>1, <1>2, ControllerAssumption DEF SingleUser, OwnersMatch

\* The same in the next state.
LEMMA NextOwnerFacts == SingleUser' => OwnersMatch'
  BY OwnerFacts, PTL

\* The lease of one set changes when only its user does.
LEMMA OwnerChange ==
  ASSUME SingleUser, SingleUser', NEW s \in Holder, NEW v \in Request \cup {NoSet},
         \A q \in Request, t \in Holder : t # s => (Uses(q, t)' <=> Uses(q, t)),
         LeaseOwner'[s] = v
  PROVE  LeaseOwner' = [LeaseOwner EXCEPT ![s] = v]
<1>1. OwnersMatch /\ OwnersMatch'
  BY OwnerFacts, NextOwnerFacts
<1>2. \A t \in Holder : t # s => LeaseOwner'[t] = LeaseOwner[t]
  BY <1>1 DEF OwnersMatch
<1>3. QED
  BY <1>1, <1>2 DEF OwnersMatch

\* A step after which every set has the user it had leaves the leases alone.
LEMMA OwnersStay ==
  ASSUME SingleUser, SingleUser',
         \A q \in Request, t \in Holder : Uses(q, t)' <=> Uses(q, t)
  PROVE  LeaseOwner' = LeaseOwner
<1>1. OwnersMatch /\ OwnersMatch'
  BY OwnerFacts, NextOwnerFacts
<1>2. \A t \in Holder : LeaseOwner'[t] = LeaseOwner[t]
  BY <1>1 DEF OwnersMatch
<1>3. QED
  BY <1>1, <1>2 DEF OwnersMatch

\* A set can be leased while its manager lists it as available or free.
LEMMA LiveFacts ==
  IInv => \A s \in Holder : s \in LiveSets <=>
            \E m \in Manager : \/ s \in available[m]
                               \/ \E i \in 1 .. Len(freePool[m]) : freePool[m][i] = s
<1> SUFFICES ASSUME IInv, NEW s \in Holder
             PROVE  s \in LiveSets <=>
                      \E m \in Manager : \/ s \in available[m]
                                         \/ \E i \in 1 .. Len(freePool[m]) : freePool[m][i] = s
  OBVIOUS
<1>1. \A m \in Manager : s \in ToSet(removing[m]) <=> \E i \in 1 .. Len(removing[m]) : removing[m][i] = s
  <2>1. \A m \in Manager : removing[m] \in Seq(Holder)
    BY DEF IInv, TypeOK
  <2>2. QED
    BY <2>1 DEF ToSet
<1>2. s \in LiveSets <=> /\ granted[s] # {}
                         /\ \A m \in Manager : \A i \in 1 .. Len(removing[m]) : removing[m][i] # s
  BY <1>1, SMTT(30) DEF LiveSets
<1>3. (\E m \in Manager : s \in available[m]) =>
        \A m \in Manager : \A i \in 1 .. Len(removing[m]) : removing[m][i] # s
  BY DEF IInv, PlaceInv
<1>4. (\E m \in Manager : \E i \in 1 .. Len(freePool[m]) : freePool[m][i] = s) =>
        \A m \in Manager : \A i \in 1 .. Len(removing[m]) : removing[m][i] # s
  BY DEF IInv, PlaceInv
<1>5. QED
  BY <1>2, <1>3, <1>4 DEF IInv, GrantInv

\* A request that looks for a set is not engaged.
LEMMA NotEngaged ==
  ASSUME IInv, NEW r \in Request, pc[r] = "get"
  PROVE  ~Lease!Engaged(r)
<1>1. /\ \A s \in Holder : ~Uses(r, s)
      /\ \A s \in Holder : \A i \in 1 .. Len(waitQueue[s]) : waitQueue[s][i] # r
  BY NewcomerFacts
<1>2. \A s \in Holder : LeaseOwner[s] # r
  BY <1>1, OwnerFacts DEF IInv, UserInv, OwnersMatch
<1>3. QED
  BY <1>1, <1>2 DEF Lease!Engaged

\* A free set is leased again.
LEMMA ReuseLease ==
  ASSUME IInv, IInv', NEW r \in Request, GetFree(r)
  PROVE  Lease!Next
<1> DEFINE m == ManagerOf[r]
<1>1. m \in Manager /\ freePool[m] \in Seq(Holder) /\ freePool[m] # << >>
  BY Members DEF GetFree, IInv
<1>2. /\ Last(freePool[m]) \in Holder /\ Len(freePool[m]) \in Nat \ {0}
      /\ Last(freePool[m]) = freePool[m][Len(freePool[m])]
  BY <1>1, StackFacts
<1>3. PICK s \in Holder : s = Last(freePool[m])
  BY <1>2
<1>4. /\ UNCHANGED << signalled, removing, waitQueue, granted >>
      /\ pc[r] = "get"
      /\ pc' = [pc EXCEPT ![r] = "run"]
      /\ using' = [using EXCEPT ![r] = s]
  BY <1>3 DEF GetFree, TryGet, Goto, clusterVars
<1>5. Len(freePool[m]) \in 1 .. Len(freePool[m]) /\ freePool[m][Len(freePool[m])] = s
  BY <1>2, <1>3
<1>6. s \in LiveSets
  BY <1>1, <1>5, LiveFacts
<1>7. \A k \in Manager : s \notin available[k]
  BY <1>1, <1>5 DEF IInv, PlaceInv
<1>8. \A q \in Request : ~Uses(q, s)
  BY <1>7, Members DEF IInv, UserInv
<1>9. LeaseOwner[s] = NoSet
  BY <1>8, OwnerFacts DEF IInv, UserInv, OwnersMatch
<1>10. \A t \in Holder : ~Uses(r, t)
  BY <1>4, NewcomerFacts
<1>11. /\ pc'[r] = "run" /\ using'[r] = s
       /\ \A q \in Request : q # r => pc'[q] = pc[q] /\ using'[q] = using[q]
  BY <1>4 DEF IInv, TypeOK
<1>12. Uses(r, s)' /\ \A q \in Request, t \in Holder : t # s => (Uses(q, t)' <=> Uses(q, t))
  BY <1>4, <1>10, <1>11 DEF Uses
<1>13. LeaseOwner'[s] = r
  BY <1>12, NextOwnerFacts DEF IInv, UserInv, OwnersMatch
<1>14. LeaseOwner' = [LeaseOwner EXCEPT ![s] = r]
  BY <1>12, <1>13, OwnerChange DEF IInv, UserInv
<1>15. LiveSets' = LiveSets
  BY <1>4 DEF LiveSets
<1>16. Lease!Reuse(s, r)
  BY <1>4, <1>6, <1>9, <1>14, <1>15 DEF Lease!Reuse, Lease!Lease
<1>17. QED
  BY <1>4, <1>16, NotEngaged DEF Lease!Next

\* A request stands in line for a set that is leased.
LEMMA JoinLease ==
  ASSUME IInv, IInv', NEW r \in Request, JoinQueue(r)
  PROVE  Lease!Next
<1> DEFINE m == ManagerOf[r]
<1>1. PICK s \in available[m] : /\ waitQueue' = [waitQueue EXCEPT ![s] = Append(@, r)]
                                /\ using' = [using EXCEPT ![r] = s]
  BY DEF JoinQueue, Joinable
<1>2. /\ UNCHANGED << signalled, removing, granted >>
      /\ pc[r] = "get"
      /\ pc' = [pc EXCEPT ![r] = "wait"]
  BY DEF JoinQueue, TryGet, Goto, clusterVars
<1>3. m \in Manager /\ s \in Holder
  BY Members DEF IInv, TypeOK
<1>4. LeaseOwner[s] # NoSet
  BY <1>3, OwnerFacts DEF IInv, UserInv, OwnersMatch
<1>5. /\ pc'[r] = "wait" /\ using'[r] = s
      /\ \A q \in Request : q # r => pc'[q] = pc[q] /\ using'[q] = using[q]
  BY <1>1, <1>2 DEF IInv, TypeOK
<1>6. \A t \in Holder : ~Uses(r, t) /\ r \notin signalled
  BY <1>2, NewcomerFacts
<1>7. \A q \in Request, t \in Holder : Uses(q, t)' <=> Uses(q, t)
  BY <1>2, <1>5, <1>6 DEF Uses
<1>8. LeaseOwner' = LeaseOwner
  BY <1>7, OwnersStay DEF IInv, UserInv
<1>9. LiveSets' = LiveSets
  BY <1>2 DEF LiveSets
<1>10. Lease!Join(s, r)
  BY <1>1, <1>4, <1>8, <1>9 DEF Lease!Join
<1>11. QED
  BY <1>2, <1>3, <1>10, NotEngaged DEF Lease!Next

\* A new set is leased to the request that creates it.
LEMMA CreateLease ==
  ASSUME IInv, IInv', NEW r \in Request, NewContainerSet(r)
  PROVE  Lease!Next
<1> DEFINE m == ManagerOf[r]
<1>1. PICK s \in Holder : /\ granted[s] = {}
                          /\ Get(s, DemandOf[m])
                          /\ using' = [using EXCEPT ![r] = s]
  BY DEF NewContainerSet
<1>2. /\ UNCHANGED << signalled, removing, waitQueue >>
      /\ pc[r] = "get"
      /\ pc' = [pc EXCEPT ![r] = "load"]
  BY DEF NewContainerSet, NeedsNew, TryGet, Goto
<1>3. DemandOf[m] \in Demand
  BY Members DEF IInv
<1>4. granted'[s] # {} /\ \A t \in Holder : t # s => granted'[t] = granted[t]
  BY <1>1, <1>3, GetGrants DEF IInv, TypeOK
<1>5. /\ pc'[r] = "load" /\ using'[r] = s
      /\ \A q \in Request : q # r => pc'[q] = pc[q] /\ using'[q] = using[q]
  BY <1>1, <1>2 DEF IInv, TypeOK
<1>6. \A t \in Holder : ~Uses(r, t)
  BY <1>2, NewcomerFacts
<1>7. Uses(r, s)' /\ \A q \in Request, t \in Holder : t # s => (Uses(q, t)' <=> Uses(q, t))
  BY <1>2, <1>5, <1>6 DEF Uses
<1>8. LeaseOwner'[s] = r
  BY <1>7, NextOwnerFacts DEF IInv, UserInv, OwnersMatch
<1>9. LeaseOwner' = [LeaseOwner EXCEPT ![s] = r]
  BY <1>7, <1>8, OwnerChange DEF IInv, UserInv
<1>10. s \notin LiveSets
  BY <1>1 DEF LiveSets
<1>11. \A k \in Manager : s \notin ToSet(removing[k])
  BY <1>1, Members DEF IInv, GrantInv, ToSet
<1>12. LiveSets' = LiveSets \cup {s}
  BY <1>2, <1>4, <1>11 DEF LiveSets
<1>13. Lease!Create(s, r)
  BY <1>2, <1>9, <1>10, <1>12 DEF Lease!Create, Lease!Lease
<1>14. QED
  BY <1>2, <1>13, NotEngaged DEF Lease!Next

\* A lease ends with the set passed on, or free.
LEMMA PutLease ==
  ASSUME IInv, IInv', NEW r \in Request, PutContainerSet(r)
  PROVE  Lease!Next
<1>1. PICK s : s = using[r]
  OBVIOUS
<1>2. /\ UNCHANGED << removing, granted >>
      /\ pc[r] = "put"
      /\ pc' = [pc EXCEPT ![r] = "done"]
      /\ using' = [using EXCEPT ![r] = NoSet]
  BY DEF PutContainerSet, Goto, clusterVars
<1>3. /\ s \in Holder /\ r \notin signalled
      /\ \A q \in Request : Uses(q, s) <=> q = r
      /\ \A t \in Holder : \A i \in 1 .. Len(waitQueue[t]) : waitQueue[t][i] \in Request \ {r}
  BY <1>1, <1>2, PutFacts
<1>4. LeaseOwner[s] = r /\ r # NoSet
  BY <1>3, OwnerFacts, ControllerAssumption DEF IInv, UserInv, OwnersMatch
<1>5. /\ pc'[r] = "done" /\ using'[r] = NoSet
      /\ \A q \in Request : q # r => pc'[q] = pc[q] /\ using'[q] = using[q]
  BY <1>2 DEF IInv, TypeOK
<1>6. LiveSets' = LiveSets
  BY <1>2 DEF LiveSets
<1>7. \A t \in Holder : ~Uses(r, t)'
  BY <1>5, ControllerAssumption DEF Uses
<1>8. \A t \in Holder : t # s => ~Uses(r, t)
  BY <1>1 DEF Uses
<1>9. CASE waitQueue[s] # << >>
  <2>1. /\ Head(waitQueue[s]) = waitQueue[s][1] /\ 1 \in 1 .. Len(waitQueue[s])
        /\ Head(waitQueue[s]) \in Request \ {r}
    BY <1>3, <1>9, Members DEF IInv
  <2>2. PICK h \in Request \ {r} : h = Head(waitQueue[s])
    BY <2>1
  <2>3. using[h] = s
    BY <1>3, <2>1, <2>2 DEF IInv, QueueInv
  <2> signalled' = signalled \cup {h} /\ waitQueue' = [waitQueue EXCEPT ![s] = Tail(@)]
    BY <1>1, <1>9, <2>2 DEF PutContainerSet, NextQueue
  <2>4. Uses(h, s)'
    BY <1>5, <2>3 DEF Uses
  <2>5. \A q \in Request, t \in Holder : t # s => (Uses(q, t)' <=> Uses(q, t))
    <3>1. ASSUME NEW q \in Request, NEW t \in Holder, t # s
          PROVE  Uses(q, t)' <=> Uses(q, t)
      <4>1. CASE q = r
        BY <1>7, <1>8, <3>1, <4>1
      <4>2. CASE q = h
        BY <1>5, <2>3, <3>1, <4>2 DEF Uses
      <4>3. CASE q # r /\ q # h
        BY <1>5, <4>3 DEF Uses
      <4>4. QED
        BY <4>1, <4>2, <4>3
    <3>2. QED
      BY <3>1
  <2>6. LeaseOwner'[s] = h
    BY <1>3, <2>3, <2>4, NextOwnerFacts DEF IInv, UserInv, OwnersMatch
  <2>7. LeaseOwner' = [LeaseOwner EXCEPT ![s] = h]
    BY <1>3, <2>3, <2>5, <2>6, OwnerChange DEF IInv, UserInv
  <2>8. Lease!Pass(s)
    BY <1>4, <1>6, <1>9, <2>2, <2>7 DEF Lease!Pass, Lease!Lease
  <2>9. QED
    BY <1>3, <2>8 DEF Lease!Next
<1>10. CASE waitQueue[s] = << >>
  <2>1. UNCHANGED << signalled, waitQueue >>
    BY <1>1, <1>10 DEF PutContainerSet, MakeFree
  <2>2. \A q \in Request, t \in Holder : q # r => (Uses(q, t)' <=> Uses(q, t))
    BY <1>5, <2>1 DEF Uses
  <2>3. \A q \in Request : ~Uses(q, s)'
    BY <1>3, <1>7, <2>2
  <2>4. LeaseOwner'[s] = NoSet
    BY <1>3, <2>3, NextOwnerFacts DEF IInv, UserInv, OwnersMatch
  <2>5. LeaseOwner' = [LeaseOwner EXCEPT ![s] = NoSet]
    BY <1>3, <1>7, <1>8, <2>2, <2>4, OwnerChange DEF IInv, UserInv
  <2>6. Lease!Release(s)
    BY <1>4, <1>6, <1>10, <2>1, <2>5 DEF Lease!Release, Lease!Lease
  <2>7. QED
    BY <1>3, <2>6 DEF Lease!Next
<1>11. QED
  BY <1>9, <1>10

\* A visit of the recycler retires sets of the free pool.
LEMMA RetireLease ==
  ASSUME IInv, IInv', NEW m \in Manager, Recycle(m)
  PROVE  Lease!Next \/ UNCHANGED Lease!vars
<1>1. UNCHANGED << pc, using, signalled, waitQueue, granted >> /\ removing[m] = << >>
  BY DEF Recycle, clusterVars, handlerVars
<1>2. PICK old, kept \in SUBSET (1 .. Len(freePool[m])) :
        \E e \in Ascending(old), f \in Ascending(kept) :
          removing' = [removing EXCEPT ![m] = Slice(freePool[m], e)]
  BY RecycleSlices DEF IInv
<1>3. PICK e \in Ascending(old) : removing' = [removing EXCEPT ![m] = Slice(freePool[m], e)]
  BY <1>2
<1>4. freePool[m] \in Seq(Holder)
  BY Members DEF IInv
<1>5. /\ removing'[m] = Slice(freePool[m], e)
      /\ \A k \in Manager : k # m => removing'[k] = removing[k]
  BY <1>3 DEF IInv, TypeOK
<1>6. \A i \in 1 .. Len(removing'[m]) :
        \E j \in 1 .. Len(freePool[m]) : removing'[m][i] = freePool[m][j]
  <2> DEFINE w == Slice(freePool[m], e)
  <2>1. /\ Len(w) = Cardinality(old)
        /\ \A i \in 1 .. Cardinality(old) : e[i] \in old /\ w[i] = freePool[m][e[i]]
    BY <1>4, SliceFacts
  <2>2. removing'[m] = w
    BY <1>5
  <2> HIDE DEF w
  <2>3. QED
    BY <2>1, <2>2
<1>7. PICK S : S = ToSet(removing'[m])
  OBVIOUS
<1>8. removing'[m] \in Seq(Holder)
  BY DEF IInv, TypeOK
<1>9. \A s \in S : s \in Holder /\ \E j \in 1 .. Len(freePool[m]) : s = freePool[m][j]
  BY <1>6, <1>7, <1>8 DEF ToSet
<1>10. S \subseteq LiveSets
  BY <1>9, LiveFacts
<1>11. ASSUME NEW s \in S
       PROVE  LeaseOwner[s] = NoSet
  <2>1. s \in Holder /\ \A k \in Manager : s \notin available[k]
    BY <1>9 DEF IInv, PlaceInv
  <2>2. \A q \in Request : ~Uses(q, s)
    BY <2>1, Members DEF IInv, UserInv
  <2>3. QED
    BY <2>1, <2>2, OwnerFacts DEF IInv, UserInv, OwnersMatch
<1>12. LiveSets' = LiveSets \ S
  <2>1. \A s : s \notin ToSet(removing[m])
    BY <1>1 DEF ToSet
  <2>2. ASSUME NEW s \in Holder
        PROVE  (\A k \in Manager : s \notin ToSet(removing'[k]))
                 <=> (\A k \in Manager : s \notin ToSet(removing[k])) /\ s \notin S
    BY <1>5, <1>7, <2>1
  <2>3. QED
    BY <1>1, <2>2 DEF LiveSets
<1>13. \A q \in Request, t \in Holder : Uses(q, t)' <=> Uses(q, t)
  BY <1>1 DEF Uses
<1>14. LeaseOwner' = LeaseOwner
  BY <1>13, OwnersStay DEF IInv, UserInv
<1>15. CASE S = {}
  BY <1>1, <1>12, <1>14, <1>15 DEF Lease!vars
<1>16. CASE S # {}
  <2>1. Lease!Retire(S)
    BY <1>1, <1>10, <1>11, <1>12, <1>14, <1>16 DEF Lease!Retire
  <2>2. S \in SUBSET Holder
    BY <1>9
  <2>3. QED
    BY <2>1, <2>2 DEF Lease!Next
<1>17. QED
  BY <1>15, <1>16

\* The members of a sequence.
LEMMA MembersOfSeq ==
  ASSUME NEW S, NEW q \in Seq(S)
  PROVE  \A t : t \in ToSet(q) <=> \E i \in 1 .. Len(q) : q[i] = t
  BY DEF ToSet

\* A retired set gives its slots back.
LEMMA ReturnLease ==
  ASSUME IInv, IInv', NEW m \in Manager, PutResource(m)
  PROVE  UNCHANGED Lease!vars
<1>1. /\ UNCHANGED << pc, using, signalled, waitQueue >>
      /\ removing[m] # << >>
      /\ removing' = [removing EXCEPT ![m] = Tail(@)]
      /\ granted' = [granted EXCEPT ![Head(removing[m])] = {}]
  BY DEF PutResource, Put, handlerVars
<1>2. /\ removing[m] \in Seq(Holder) /\ Len(removing[m]) \in Nat \ {0}
      /\ Head(removing[m]) = removing[m][1] /\ removing[m][1] \in Holder
  BY <1>1, Members DEF IInv
<1>3. PICK s \in Holder : s = Head(removing[m]) /\ s = removing[m][1]
  BY <1>2
<1>4. granted'[s] = {} /\ \A t \in Holder : t # s => granted'[t] = granted[t]
  BY <1>1, <1>3 DEF IInv, TypeOK, ClusterTypeOK
<1>5. removing'[m] = Tail(removing[m]) /\ \A k \in Manager : k # m => removing'[k] = removing[k]
  BY <1>1 DEF IInv, TypeOK
<1>6. s \in ToSet(removing[m])
  BY <1>2, <1>3 DEF ToSet
<1>7. \A t : t \in ToSet(removing[m]) <=> t = s \/ t \in ToSet(Tail(removing[m]))
  <2> DEFINE q == removing[m]
  <2>1. q \in Seq(Holder) /\ q # << >> /\ Len(q) \in Nat \ {0} /\ s = q[1]
    BY <1>1, <1>2, <1>3
  <2> HIDE DEF q
  <2>2. Tail(q) \in Seq(Holder) /\ Len(Tail(q)) = Len(q) - 1 /\ \A i \in 1 .. Len(Tail(q)) : Tail(q)[i] = q[i + 1]
    BY <2>1, HeadTailProperties
  <2>3. ASSUME NEW i \in 1 .. Len(q)
        PROVE  q[i] = s \/ \E j \in 1 .. Len(Tail(q)) : Tail(q)[j] = q[i]
    <3>1. CASE i = 1
      BY <2>1, <3>1
    <3>2. CASE i # 1
      <4>1. i - 1 \in 1 .. Len(Tail(q)) /\ (i - 1) + 1 = i
        BY <2>1, <2>2, <3>2
      <4>2. Tail(q)[i - 1] = q[i]
        BY <2>2, <4>1
      <4>3. QED
        BY <4>1, <4>2
    <3>3. QED
      BY <3>1, <3>2
  <2>4. ASSUME NEW j \in 1 .. Len(Tail(q))
        PROVE  \E i \in 1 .. Len(q) : q[i] = Tail(q)[j]
    <3>1. j + 1 \in 1 .. Len(q) /\ Tail(q)[j] = q[j + 1]
      BY <2>1, <2>2
    <3>2. QED
      BY <3>1
  <2>5. \A t : t \in ToSet(q) <=> \E i \in 1 .. Len(q) : q[i] = t
    BY <2>1 DEF ToSet
  <2>6. \A t : t \in ToSet(Tail(q)) <=> \E i \in 1 .. Len(Tail(q)) : Tail(q)[i] = t
    BY <2>2, MembersOfSeq
  <2>7. 1 \in 1 .. Len(q)
    BY <2>1
  <2>8. ASSUME NEW t \in ToSet(q)
        PROVE  t = s \/ t \in ToSet(Tail(q))
    <3>1. PICK i \in 1 .. Len(q) : q[i] = t
      BY <2>5
    <3>2. QED
      BY <2>3, <2>6, <3>1
  <2>9. ASSUME NEW t \in ToSet(Tail(q))
        PROVE  t \in ToSet(q)
    <3>1. PICK j \in 1 .. Len(Tail(q)) : Tail(q)[j] = t
      BY <2>6
    <3>2. QED
      BY <2>4, <2>5, <3>1
  <2>10. s \in ToSet(q)
    BY <2>1, <2>5, <2>7
  <2>11. QED
    BY <2>8, <2>9, <2>10 DEF q
<1>8. LiveSets' = LiveSets
  <2>1. \A t \in Holder : t # s => ((\A k \in Manager : t \notin ToSet(removing'[k]))
                                      <=> (\A k \in Manager : t \notin ToSet(removing[k])))
    BY <1>5, <1>7
  <2>2. QED
    BY <1>4, <1>6, <2>1 DEF LiveSets
<1>9. \A q \in Request, t \in Holder : Uses(q, t)' <=> Uses(q, t)
  BY <1>1 DEF Uses
<1>10. LeaseOwner' = LeaseOwner
  BY <1>9, OwnersStay DEF IInv, UserInv
<1>11. QED
  BY <1>1, <1>8, <1>10 DEF Lease!vars

\* The steps that leave queues, places and users alone.
LEMMA OtherLease ==
  ASSUME IInv, IInv',
         \/ \E r \in Request : Quiet(r) \/ Wake(r) \/ \E a \in Address : CreateContainer(r, a)
         \/ \E m \in Manager, a \in Address : RemoveContainer(m, a)
         \/ Tick
         \/ UNCHANGED vars
  PROVE  UNCHANGED Lease!vars
<1>1. UNCHANGED << using, waitQueue, removing, granted >>
  BY DEF Quiet, Arrive, NoResource, Retry, GetPanic, GetBlocked, LoadGraph, Loaded, RunDone,
         RunFails, GetPanics, Wake, CreateContainer, RemoveContainer, Tick, vars, clusterVars,
         handlerVars, poolVars
<1>2. \A q \in Request, t \in Holder : Uses(q, t)' <=> Uses(q, t)
  <2>1. CASE \E r \in Request : Quiet(r)
    <3>1. PICK r \in Request : Quiet(r)
      BY <2>1
    <3>2. /\ UNCHANGED signalled
          /\ \E l \in PCs : pc' = [pc EXCEPT ![r] = l]
          /\ \/ pc[r] \in {"idle", "get", "sleep"}
             \/ /\ pc[r] \in {"load", "create", "run"}
                /\ pc'[r] \in {"create", "run", "put", "panicked"}
      BY <3>1 DEF Quiet, Arrive, NoResource, Retry, GetPanic, GetBlocked, LoadGraph, Loaded,
                  RunDone, RunFails, NeedsNew, TryGet, Goto, IInv, TypeOK, PCs, handlerVars
    <3>3. \A q \in Request : q # r => pc'[q] = pc[q]
      BY <3>2 DEF IInv, TypeOK
    <3>4. CASE pc[r] \in {"idle", "get", "sleep"}
      <4>1. using[r] = NoSet
        BY <3>4 DEF IInv, HandlerInv
      <4>2. QED
        BY <1>1, <3>2, <3>3, <4>1, ControllerAssumption DEF Uses
    <3>5. CASE pc[r] \in {"load", "create", "run"} /\ pc'[r] \in {"create", "run", "put", "panicked"}
      BY <1>1, <3>2, <3>3, <3>5 DEF Uses
    <3>6. QED
      BY <3>2, <3>4, <3>5
  <2>2. CASE \E r \in Request : Wake(r)
    <3>1. PICK r \in Request : Wake(r)
      BY <2>2
    <3>2. /\ pc[r] = "wait" /\ r \in signalled /\ signalled' = signalled \ {r}
          /\ pc'[r] = "run" /\ \A q \in Request : q # r => pc'[q] = pc[q]
      BY <3>1 DEF Wake, Goto, IInv, TypeOK
    <3>3. QED
      BY <1>1, <3>2 DEF Uses
  <2>3. CASE ~\E r \in Request : Quiet(r) \/ Wake(r)
    <3>1. UNCHANGED << pc, signalled >>
      BY <2>3 DEF CreateContainer, RemoveContainer, Tick, vars, handlerVars
    <3>2. QED
      BY <1>1, <3>1 DEF Uses
  <2>4. QED
    BY <2>1, <2>2, <2>3
<1>3. LeaseOwner' = LeaseOwner
  BY <1>2, OwnersStay DEF IInv, UserInv
<1>4. LiveSets' = LiveSets
  BY <1>1 DEF LiveSets
<1>5. QED
  BY <1>1, <1>3, <1>4 DEF Lease!vars

\* Every step of the handlers and recyclers is a step of the lease protocol or leaves
\* every lease alone: sets are handed out to one request at a time, queues are served
\* in order, and no set in use is recycled.
THEOREM ControllerImplementsLease == Spec => ImplementsLease
<1>1. Init => Lease!Init
  <2> SUFFICES ASSUME Init PROVE Lease!Init
    OBVIOUS
  <2>1. LiveSets = {} /\ waitQueue = [s \in Holder |-> << >>]
    BY DEF Init, ClusterInit, LiveSets
  <2>2. \A r \in Request, s \in Holder : ~Uses(r, s)
    BY ControllerAssumption DEF Init, Uses
  <2>3. LeaseOwner = [s \in Holder |-> NoSet]
    BY <2>2 DEF LeaseOwner
  <2>4. QED
    BY <2>1, <2>3 DEF Lease!Init
<1>2. IInv /\ IInv' /\ [Next]_vars => [Lease!Next]_(Lease!vars)
  <2> SUFFICES ASSUME IInv, IInv', [Next]_vars
               PROVE  Lease!Next \/ UNCHANGED Lease!vars
    OBVIOUS
  <2>1. ASSUME NEW r \in Request, Arrive(r) \/ Handler(r) \/ RunFails(r)
        PROVE  Lease!Next \/ UNCHANGED Lease!vars
    BY <2>1, ReuseLease, JoinLease, CreateLease, PutLease, OtherLease DEF Handler, Quiet
  <2>2. ASSUME NEW m \in Manager, Recycler(m)
        PROVE  Lease!Next \/ UNCHANGED Lease!vars
    BY <2>2, RetireLease, ReturnLease, OtherLease DEF Recycler
  <2>3. QED
    BY <2>1, <2>2, OtherLease DEF Next
<1>3. QED
  BY <1>1, <1>2, ControllerInvariant, PTL DEF Spec, ImplementsLease, Lease!Spec

-----------------------------------------------------------------------------
(***************************************************************************)
(* Bounded scaling.  A new set is created only when every available set is *)
(* in use and has a full queue: 1 + QUEUE_LENGTH requests per set, none of *)
(* them the one that creates it.                                           *)
(***************************************************************************)

\* Sharing n things out, b to each.
LEMMA QuotientBound ==
  ASSUME NEW a \in Nat, NEW b \in Nat \ {0}, NEW n \in Nat, a * b <= n
  PROVE  a <= n \div b
<1>1. n \div b \in Nat /\ n < b * (n \div b + 1)
  OBVIOUS
<1>2. ASSUME n \div b + 1 <= a
      PROVE  FALSE
  <2>1. b * (n \div b + 1) <= b * a
    BY <1>1, <1>2
  <2>2. b * a = a * b
    OBVIOUS
  <2>3. QED
    BY <1>1, <2>1, <2>2
<1>3. QED
  BY <1>1, <1>2

\* The users of a manager's sets are among its own requests.
LEMMA UserOfManager ==
  ASSUME IInv, NEW m \in Manager, NEW s \in available[m]
  PROVE  /\ s \in Holder /\ LeaseOwner[s] \in RequestsOf(m) /\ Uses(LeaseOwner[s], s)
         /\ \A i \in 1 .. Len(waitQueue[s]) : waitQueue[s][i] \in RequestsOf(m)
<1>1. s \in Holder
  BY DEF IInv, TypeOK
<1>2. LeaseOwner[s] \in Request /\ Uses(LeaseOwner[s], s)
  BY <1>1, OwnerFacts DEF IInv, UserInv, OwnersMatch
<1>3. s \in available[ManagerOf[LeaseOwner[s]]]
  BY <1>1, <1>2 DEF IInv, UserInv
<1>4. ManagerOf[LeaseOwner[s]] = m
  BY <1>2, <1>3, Members DEF IInv, PlaceInv
<1>5. ASSUME NEW i \in 1 .. Len(waitQueue[s])
      PROVE  waitQueue[s][i] \in RequestsOf(m)
  <2>1. waitQueue[s][i] \in Request /\ s \in available[ManagerOf[waitQueue[s][i]]]
    BY <1>1, Members DEF IInv, QueueInv
  <2>2. QED
    BY <2>1, Members DEF IInv, PlaceInv, RequestsOf
<1>6. QED
  BY <1>1, <1>2, <1>4, <1>5 DEF RequestsOf

\* A manager has finitely many sets at work.
LEMMA AvailableFinite ==
  ASSUME IInv, IsFiniteSet(Request), NEW m \in Manager
  PROVE  IsFiniteSet(available[m]) /\ Cardinality(available[m]) \in Nat
<1> DEFINE f == [s \in available[m] |-> LeaseOwner[s]]
<1>1. f \in [available[m] -> Request]
  BY UserOfManager DEF RequestsOf
<1>2. ASSUME NEW s \in available[m], NEW t \in available[m], f[s] = f[t]
      PROVE  s = t
  BY <1>2, UserOfManager DEF Uses
<1>3. f \in Injection(available[m], Request)
  BY <1>1, <1>2 DEF Injection, IsInjective
<1>4. QED
  BY <1>3, FS_Injection, FS_CardinalityType

\* When a request needs a new set, every available one has QUEUE_LENGTH waiters.
LEMMA AllQueuesFull ==
  ASSUME IInv, NEW r \in Request, NeedsNew(r), NEW s \in available[ManagerOf[r]]
  PROVE  Len(waitQueue[s]) >= QueueLength
<1> DEFINE m == ManagerOf[r]
           T == { Len(waitQueue[t]) : t \in available[m] }
<1>1. available[m] \subseteq Holder
  BY Members DEF IInv, TypeOK
<1>2. \A t \in available[m] : Len(waitQueue[t]) \in Nat
  BY <1>1, Members DEF IInv
<1>3. T \in SUBSET Nat /\ T # {}
  BY <1>2
<1>4. PICK x \in T : \A y \in T : x <= y
  BY <1>3, Smallest
<1>5. PICK t \in available[m] : x = Len(waitQueue[t])
  BY <1>4
<1>6. \A u \in available[m] : Len(waitQueue[t]) <= Len(waitQueue[u])
  BY <1>4, <1>5
<1>7. ~ (Len(waitQueue[t]) < QueueLength)
  BY <1>6 DEF NeedsNew, Joinable
<1>8. QED
  BY <1>2, <1>6, <1>7, ControllerAssumption

\* With all queues full, 1 + QUEUE_LENGTH requests are at each available set, and the
\* one that asks for another set is none of them.
LEMMA RequestsPerSet ==
  ASSUME IInv, IsFiniteSet(Request), NEW r \in Request, NeedsNew(r)
  PROVE  Cardinality(available[ManagerOf[r]]) * (1 + QueueLength)
           <= Cardinality(RequestsOf(ManagerOf[r])) - 1
<1> DEFINE m == ManagerOf[r]
           A == available[m]
           Q == 0 .. QueueLength
           others == RequestsOf(m) \ {r}
           g == [p \in A \X Q |-> IF p[2] = 0 THEN LeaseOwner[p[1]] ELSE waitQueue[p[1]][p[2]]]
<1>1. m \in Manager /\ QueueLength \in Nat
  BY Members, ControllerAssumption DEF IInv
<1>2. pc[r] = "get"
  BY DEF NeedsNew, TryGet
<1>3. /\ r \notin signalled
      /\ \A s \in Holder : ~Uses(r, s)
      /\ \A s \in Holder : \A i \in 1 .. Len(waitQueue[s]) : waitQueue[s][i] # r
  BY <1>2, NewcomerFacts
<1>4. ASSUME NEW s \in A
      PROVE  /\ s \in Holder
             /\ LeaseOwner[s] \in others /\ Uses(LeaseOwner[s], s)
             /\ \A i \in 1 .. QueueLength :
                  /\ i \in 1 .. Len(waitQueue[s]) /\ waitQueue[s][i] \in others
                  /\ using[waitQueue[s][i]] = s
                  /\ ~ Uses(waitQueue[s][i], s)
  <2>1. s \in Holder /\ LeaseOwner[s] \in RequestsOf(m) /\ Uses(LeaseOwner[s], s)
    BY <1>1, UserOfManager
  <2>2. \A i \in 1 .. Len(waitQueue[s]) : waitQueue[s][i] \in RequestsOf(m)
    BY <1>1, UserOfManager
  <2>3. Len(waitQueue[s]) >= QueueLength /\ Len(waitQueue[s]) \in Nat
    BY <2>1, AllQueuesFull, Members DEF IInv
  <2>4. ASSUME NEW i \in 1 .. QueueLength
        PROVE  /\ i \in 1 .. Len(waitQueue[s]) /\ waitQueue[s][i] \in others
               /\ using[waitQueue[s][i]] = s
               /\ ~ Uses(waitQueue[s][i], s)
    <3>1. i \in 1 .. Len(waitQueue[s])
      BY <1>1, <2>3
    <3>2. waitQueue[s][i] \in others
      BY <1>3, <2>1, <2>2, <3>1
    <3>3. /\ pc[waitQueue[s][i]] = "wait" /\ using[waitQueue[s][i]] = s
          /\ waitQueue[s][i] \notin signalled
      BY <2>1, <3>1 DEF IInv, QueueInv
    <3>4. QED
      BY <3>1, <3>2, <3>3 DEF Uses
  <2>5. QED
    BY <1>3, <2>1, <2>4
<1>5. \A s \in A : g[<< s, 0 >>] = LeaseOwner[s]
  BY <1>1
<1>6. \A s \in A : \A i \in 1 .. QueueLength : g[<< s, i >>] = waitQueue[s][i]
  BY <1>1
<1>7. ASSUME NEW p \in A \X Q
      PROVE  \E s \in A : \/ p = << s, 0 >>
                          \/ \E i \in 1 .. QueueLength : p = << s, i >>
  BY <1>1
<1> HIDE DEF g
<1>8. ASSUME NEW p \in A \X Q
      PROVE  g[p] \in others
  BY <1>4, <1>5, <1>6, <1>7
<1>9. ASSUME NEW p \in A \X Q, NEW q \in A \X Q, g[p] = g[q]
      PROVE  p = q
  <2>1. PICK s \in A : p = << s, 0 >> \/ \E i \in 1 .. QueueLength : p = << s, i >>
    BY <1>7
  <2>2. PICK t \in A : q = << t, 0 >> \/ \E i \in 1 .. QueueLength : q = << t, i >>
    BY <1>7
  <2>3. using[g[p]] = s /\ using[g[q]] = t
    BY <1>4, <1>5, <1>6, <2>1, <2>2 DEF Uses
  <2>4. s = t
    BY <1>9, <2>3
  <2>5. CASE p = << s, 0 >>
    <3>1. Uses(g[p], s)
      BY <1>4, <1>5, <2>5
    <3>2. ASSUME NEW i \in 1 .. QueueLength, q = << s, i >>
          PROVE  FALSE
      <4>1. g[q] = waitQueue[s][i] /\ ~ Uses(g[q], s)
        BY <1>4, <1>6, <3>2
      <4>2. QED
        BY <1>9, <3>1, <4>1
    <3>3. QED
      BY <2>2, <2>4, <2>5, <3>2
  <2>6. CASE \E i \in 1 .. QueueLength : p = << s, i >>
    <3>1. PICK i \in 1 .. QueueLength : p = << s, i >>
      BY <2>6
    <3>2. g[p] = waitQueue[s][i] /\ ~ Uses(g[p], s)
      BY <1>4, <1>6, <3>1
    <3>3. q # << s, 0 >>
      <4>1. Uses(g[<< s, 0 >>], s)
        BY <1>4, <1>5
      <4>2. QED
        BY <1>9, <3>2, <4>1
    <3>4. PICK j \in 1 .. QueueLength : q = << s, j >>
      BY <2>2, <2>4, <3>3
    <3>5. g[q] = waitQueue[s][j] /\ i \in 1 .. Len(waitQueue[s]) /\ j \in 1 .. Len(waitQueue[s])
      BY <1>4, <1>6, <3>4
    <3>6. waitQueue[s][i] = waitQueue[s][j] /\ s \in Holder
      BY <1>4, <1>9, <3>2, <3>5
    <3>7. i = j
      BY <3>5, <3>6 DEF IInv, QueueInv
    <3>8. QED
      BY <3>1, <3>4, <3>7
  <2>7. QED
    BY <2>1, <2>5, <2>6
<1>10. g \in [A \X Q -> others]
  <2>1. g = [p \in A \X Q |-> g[p]]
    BY DEF g
  <2>2. QED
    BY <1>8, <2>1
<1>11. g \in Injection(A \X Q, others)
  BY <1>9, <1>10 DEF Injection, IsInjective
<1>12. IsFiniteSet(RequestsOf(m))
  BY FS_Subset DEF RequestsOf
<1>13. r \in RequestsOf(m)
  BY DEF RequestsOf
<1>14. IsFiniteSet(others) /\ Cardinality(others) = Cardinality(RequestsOf(m)) - 1
  BY <1>12, <1>13, FS_RemoveElement
<1>15. Cardinality(A \X Q) <= Cardinality(others)
  BY <1>11, <1>14, FS_Injection
<1>16. IsFiniteSet(A) /\ Cardinality(A) \in Nat
  BY <1>1, AvailableFinite
<1>17. IsFiniteSet(Q) /\ Cardinality(Q) = 1 + QueueLength
  BY <1>1, FS_Interval
<1>18. Cardinality(A \X Q) = Cardinality(A) * Cardinality(Q)
  BY <1>16, <1>17, FS_Product
<1>19. QED
  BY <1>14, <1>15, <1>17, <1>18

\* The sets a manager keeps for requests: those at work and those that are free.
Kept(m) == Cardinality(available[m]) + Len(freePool[m])
ScaleLimit(m) == 1 + (Cardinality(RequestsOf(m)) - 1) \div (1 + QueueLength)

KeptNat == \A m \in Manager : Kept(m) \in Nat

\* The number of sets kept for a manager is a natural number.
LEMMA KeptType ==
  ASSUME IsFiniteSet(Request)
  PROVE  (IInv => KeptNat) /\ (IInv' => KeptNat')
<1>1. IInv => KeptNat
  BY AvailableFinite, Members DEF IInv, Kept, KeptNat
<1>2. IInv' => KeptNat'
  BY <1>1, PTL
<1>3. QED
  BY <1>1, <1>2

\* How many elements a set may gain and an interval has.
LEMMA AddOne ==
  ASSUME NEW S, IsFiniteSet(S), NEW x
  PROVE  Cardinality(S \cup {x}) \in Nat /\ Cardinality(S \cup {x}) <= Cardinality(S) + 1
<1>1. Cardinality(S) \in Nat
  BY FS_CardinalityType
<1>2. IsFiniteSet(S \cup {x})
        /\ Cardinality(S \cup {x}) = IF x \in S THEN Cardinality(S) ELSE Cardinality(S) + 1
  BY FS_AddElement
<1>3. QED
  BY <1>1, <1>2

\* n indices are n.
LEMMA IndexCount ==
  ASSUME NEW n \in Nat
  PROVE  IsFiniteSet(1 .. n) /\ Cardinality(1 .. n) = n
  BY FS_Interval

\* A step leaves a manager with no more sets, or creates the set it has no other for.
LEMMA KeptStep ==
  ASSUME IInv, IInv', IsFiniteSet(Request), [Next]_vars, NEW m \in Manager
  PROVE  \/ Kept(m)' <= Kept(m)
         \/ \E r \in Request : ManagerOf[r] = m /\ NeedsNew(r) /\ Kept(m)' <= Cardinality(available[m]) + 1
<1>1. /\ IsFiniteSet(available[m]) /\ Cardinality(available[m]) \in Nat
      /\ freePool[m] \in Seq(Holder) /\ Len(freePool[m]) \in Nat
  BY AvailableFinite, Members DEF IInv
<1>2. ASSUME available'[m] = available[m], freePool'[m] = freePool[m]
      PROVE  Kept(m)' <= Kept(m)
  BY <1>1, <1>2 DEF Kept
<1>3. ASSUME NEW r \in Request, GetFree(r)
      PROVE  Kept(m)' <= Kept(m)
  <2>1. CASE m = ManagerOf[r]
    <3>1. PICK s : s = Last(freePool[m])
      OBVIOUS
    <3>2. /\ freePool[m] # << >>
          /\ freePool' = [freePool EXCEPT ![m] = Popped(@)]
          /\ available' = [available EXCEPT ![m] = @ \cup {s}]
      BY <1>3, <2>1, <3>1 DEF GetFree
    <3>3. freePool'[m] = Popped(freePool[m]) /\ available'[m] = available[m] \cup {s}
      BY <3>2 DEF IInv, TypeOK
    <3>4. Len(freePool'[m]) = Len(freePool[m]) - 1
      BY <1>1, <3>2, <3>3, StackFacts
    <3>5. Cardinality(available'[m]) \in Nat /\ Cardinality(available'[m]) <= Cardinality(available[m]) + 1
      BY <1>1, <3>3, AddOne
    <3>6. QED
      BY <1>1, <3>4, <3>5 DEF Kept
  <2>2. CASE m # ManagerOf[r]
    <3>1. available'[m] = available[m] /\ freePool'[m] = freePool[m]
      BY <1>3, <2>2 DEF GetFree, IInv, TypeOK
    <3>2. QED
      BY <1>2, <3>1
  <2>3. QED
    BY <2>1, <2>2
<1>4. ASSUME NEW r \in Request, NewContainerSet(r)
      PROVE  \/ Kept(m)' <= Kept(m)
             \/ ManagerOf[r] = m /\ NeedsNew(r) /\ Kept(m)' <= Cardinality(available[m]) + 1
  <2>1. PICK s \in Holder : available' = [available EXCEPT ![ManagerOf[r]] = @ \cup {s}]
    BY <1>4 DEF NewContainerSet
  <2>2. UNCHANGED freePool /\ NeedsNew(r) /\ freePool[ManagerOf[r]] = << >>
    BY <1>4 DEF NewContainerSet, NeedsNew
  <2>3. CASE m = ManagerOf[r]
    <3>1. available'[m] = available[m] \cup {s}
      BY <2>1, <2>3 DEF IInv, TypeOK
    <3>2. Cardinality(available'[m]) \in Nat /\ Cardinality(available'[m]) <= Cardinality(available[m]) + 1
      BY <1>1, <3>1, AddOne
    <3>3. Len(freePool'[m]) = 0
      BY <2>2, <2>3
    <3>4. QED
      BY <2>2, <2>3, <3>2, <3>3 DEF Kept
  <2>4. CASE m # ManagerOf[r]
    <3>1. available'[m] = available[m] /\ freePool'[m] = freePool[m]
      BY <2>1, <2>2, <2>4 DEF IInv, TypeOK
    <3>2. QED
      BY <1>2, <3>1
  <2>5. QED
    BY <2>3, <2>4
<1>5. ASSUME NEW r \in Request, PutContainerSet(r)
      PROVE  Kept(m)' <= Kept(m)
  <2>1. pc[r] = "put"
    BY <1>5 DEF PutContainerSet
  <2>2. CASE m = ManagerOf[r] /\ MakeFree(m, using[r])
    <3>1. PICK s : s = using[r]
      OBVIOUS
    <3>2. s \in available[m] /\ s \in Holder
      BY <2>1, <2>2, <3>1, PutFacts
    <3>3. available'[m] = available[m] \ {s} /\ freePool'[m] = Append(freePool[m], s)
      BY <2>2, <3>1 DEF MakeFree, IInv, TypeOK
    <3>4. Len(freePool'[m]) = Len(freePool[m]) + 1
      BY <1>1, <3>2, <3>3, AppendProperties
    <3>5. Cardinality(available'[m]) = Cardinality(available[m]) - 1
      BY <1>1, <3>2, <3>3, FS_RemoveElement
    <3>6. QED
      BY <1>1, <3>4, <3>5 DEF Kept
  <2>3. CASE ~(m = ManagerOf[r] /\ MakeFree(m, using[r]))
    <3>1. available'[m] = available[m] /\ freePool'[m] = freePool[m]
      BY <1>5, <2>3 DEF PutContainerSet, MakeFree, IInv, TypeOK
    <3>2. QED
      BY <1>2, <3>1
  <2>4. QED
    BY <2>2, <2>3
<1>6. ASSUME NEW k \in Manager, Recycle(k)
      PROVE  Kept(m)' <= Kept(m)
  <2>1. UNCHANGED available
    BY <1>6 DEF Recycle
  <2>2. PICK old, kept \in SUBSET (1 .. Len(freePool[k])) :
          \E e \in Ascending(old), f \in Ascending(kept) :
             freePool' = [freePool EXCEPT ![k] = Slice(freePool[k], f)]
    BY <1>6, RecycleSlices DEF IInv
  <2>3. PICK f \in Ascending(kept) : freePool' = [freePool EXCEPT ![k] = Slice(freePool[k], f)]
    BY <2>2
  <2>4. CASE k = m
    <3>1. freePool'[m] = Slice(freePool[m], f)
      BY <2>3, <2>4 DEF IInv, TypeOK
    <3>2. Len(freePool'[m]) = Cardinality(kept) /\ Cardinality(kept) \in Nat
      BY <1>1, <2>4, <3>1, SliceFacts
    <3>3. IsFiniteSet(1 .. Len(freePool[m])) /\ Cardinality(1 .. Len(freePool[m])) = Len(freePool[m])
      BY <1>1, IndexCount
    <3>4. Cardinality(kept) <= Len(freePool[m])
      BY <2>4, <3>3, FS_Subset
    <3>5. QED
      BY <1>1, <2>1, <3>2, <3>4 DEF Kept
  <2>5. CASE k # m
    <3>1. available'[m] = available[m] /\ freePool'[m] = freePool[m]
      BY <2>1, <2>3, <2>5 DEF IInv, TypeOK
    <3>2. QED
      BY <1>2, <3>1
  <2>6. QED
    BY <2>4, <2>5
<1>7. CASE UNCHANGED << available, freePool >>
  BY <1>2, <1>7
<1>8. QED
  BY <1>3, <1>4, <1>5, <1>6, <1>7
     DEF Next, Arrive, Handler, JoinQueue, Wake, NoResource, Retry, GetPanic, GetBlocked, LoadGraph,
         CreateContainer, Loaded, RunDone, RunFails, Recycler, RemoveContainer, PutResource, Tick,
         vars, handlerVars, poolVars

\* With R requests a manager never keeps more than 1 + (R - 1) \div (1 + QUEUE_LENGTH)
\* sets, whatever the order in which requests come and sets are recycled.
THEOREM ScalingIsBounded ==
  ASSUME IsFiniteSet(Request)
  PROVE  Spec => []BoundedScaling
<1>1. Init => BoundedScaling
  <2> SUFFICES ASSUME Init, NEW m \in Manager
               PROVE  Cardinality(available[m]) + Len(freePool[m])
                        <= 1 + (Cardinality(RequestsOf(m)) - 1) \div (1 + QueueLength)
    BY DEF BoundedScaling
  <2> DEFINE R == Cardinality(RequestsOf(m))
  <2>1. Cardinality(available[m]) = 0 /\ Len(freePool[m]) = 0
    BY FS_EmptySet DEF Init
  <2>2. R \in Nat /\ QueueLength \in Nat
    BY FS_Subset, FS_CardinalityType, ControllerAssumption DEF RequestsOf
  <2>3. CASE R >= 1
    <3>1. R - 1 \in Nat /\ 1 + QueueLength \in Nat \ {0}
      BY <2>2, <2>3
    <3>2. (R - 1) \div (1 + QueueLength) >= 0
      BY <3>1, QuotientBound
    <3>3. QED
      BY <2>1, <3>1, <3>2
  <2>4. CASE R = 0
    <3>1. (R - 1) \div (1 + QueueLength) = -1
      BY <2>2, <2>4
    <3>2. QED
      BY <2>1, <3>1
  <2>5. QED
    BY <2>2, <2>3, <2>4
<1>2. ASSUME IInv, IInv', BoundedScaling, [Next]_vars
      PROVE  BoundedScaling'
  <2>1. ASSUME NEW m \in Manager
        PROVE  Kept(m)' <= ScaleLimit(m)
    <3>1. Kept(m) <= ScaleLimit(m)
      BY <1>2 DEF BoundedScaling, Kept, ScaleLimit
    <3>2. Kept(m) \in Nat /\ ScaleLimit(m) \in Int
      <4>1. Kept(m) \in Nat
        BY <1>2, KeptType DEF KeptNat
      <4>2. Cardinality(RequestsOf(m)) \in Nat /\ 1 + QueueLength \in Nat \ {0}
        BY FS_Subset, FS_CardinalityType, ControllerAssumption DEF RequestsOf
      <4>3. QED
        BY <4>1, <4>2 DEF ScaleLimit
    <3>3. ASSUME NEW r \in Request, ManagerOf[r] = m, NeedsNew(r)
          PROVE  Cardinality(available[m]) + 1 <= ScaleLimit(m)
      <4>1. Cardinality(available[m]) * (1 + QueueLength) <= Cardinality(RequestsOf(m)) - 1
        BY <1>2, <3>3, RequestsPerSet
      <4>2. Cardinality(available[m]) \in Nat
        BY <1>2, AvailableFinite
      <4>3. 1 + QueueLength \in Nat \ {0}
        BY ControllerAssumption
      <4>4. Cardinality(RequestsOf(m)) - 1 \in Nat
        <5>1. IsFiniteSet(RequestsOf(m)) /\ r \in RequestsOf(m)
          BY <3>3, FS_Subset DEF RequestsOf
        <5>2. IsFiniteSet(RequestsOf(m) \ {r})
                /\ Cardinality(RequestsOf(m) \ {r}) = Cardinality(RequestsOf(m)) - 1
          BY <5>1, FS_RemoveElement
        <5>3. QED
          BY <5>2, FS_CardinalityType
      <4>5. Cardinality(available[m]) <= (Cardinality(RequestsOf(m)) - 1) \div (1 + QueueLength)
        BY <4>1, <4>2, <4>3, <4>4, QuotientBound
      <4>6. QED
        BY <4>2, <4>3, <4>4, <4>5 DEF ScaleLimit
    <3>4. Kept(m)' \in Int
      BY <1>2, KeptType DEF KeptNat
    <3>5. CASE Kept(m)' <= Kept(m)
      BY <3>1, <3>2, <3>4, <3>5
    <3>6. CASE \E r \in Request : /\ ManagerOf[r] = m /\ NeedsNew(r)
                                   /\ Kept(m)' <= Cardinality(available[m]) + 1
      <4>1. Cardinality(available[m]) \in Nat
        BY <1>2, AvailableFinite
      <4>2. QED
        BY <3>2, <3>3, <3>4, <3>6, <4>1
    <3>7. QED
      BY <1>2, <3>5, <3>6, KeptStep
  <2>2. QED
    BY <2>1 DEF BoundedScaling, Kept, ScaleLimit, RequestsOf
<1>3. QED
  BY <1>1, <1>2, ControllerInvariant, PTL DEF Spec
===============================================================================
