--------------------------- MODULE LoadGraphProofs ---------------------------
(***************************************************************************)
(* Theorems about LoadGraph: that its steps are steps of the ledger, that  *)
(* every container on a host has one owner, that a set that is up has      *)
(* every key where keyContainer says, and in one container only unless     *)
(* START_NODES repeats it, and that without SHARE_MEMORY the streams       *)
(* between partitions end at the containers of their keys.                 *)
(***************************************************************************)
EXTENDS LoadGraph, ClusterProofs

-----------------------------------------------------------------------------
(***************************************************************************)
(* The inductive invariant.                                                *)
(***************************************************************************)
StageType ==
  /\ stage \in [Holder -> {"none", "create", "load", "up", "destroy"}]
  /\ status \in [Address -> {"none", "started", "ready"}]
  /\ created \in [Holder -> SUBSET Address]
  /\ graphs \in [Address -> SUBSET UNION { 0 .. d.partition - 1 : d \in Demand }]
  /\ list \in [Holder -> Seq(Address)]
  /\ parts \in [Holder -> PartCounts \cup {0}]
  /\ loading \in [Holder -> SUBSET (Nat \X Nat)]

\* A set has a grant from its Get to its Put, and creates only what was granted.
Granting == \A h \in Holder : stage[h] = "none" <=> granted[h] = {}
CreatesOwn == \A h \in Holder : created[h] \subseteq Addresses(h)

\* What docker runs at an address was created by a set that still knows it.
Owned == \A a \in Address : status[a] # "none" <=> \E h \in Holder : a \in created[h]

\* The arguments of LoadGraph are the addresses of the grant, each once.
ListsGrant ==
  \A h \in Holder :
    /\ Len(list[h]) = Cardinality(granted[h])
    /\ \A i, j \in 1 .. Len(list[h]) : list[h][i] = list[h][j] => i = j
    /\ \A i \in 1 .. Len(list[h]) : \E c \in granted[h] : list[h][i] = AddressOf(c)

\* Words are loaded only where the second loop sends them, and into new runners; every word
\* is loaded there or still to be.
Calls(h, i, w) == i \in 1 .. Len(list[h]) /\ w \in WordsOf(h, i)
Placed(h) == \A i \in 1 .. Len(list[h]) :
  /\ graphs[list[h][i]] \subseteq KeysOf(h, i)
  /\ \A w \in WordsOf(h, i) : << i, w >> \in loading[h] \/ StartNode(h, w) \in graphs[list[h][i]]
LoadingAt(h) ==
  /\ stage[h] # "load" => loading[h] = {}
  /\ \A c \in loading[h] : Calls(h, c[1], c[2])
  /\ stage[h] = "create" => \A a \in created[h] : graphs[a] = {}
  /\ stage[h] \in {"load", "up"} => created[h] = Addresses(h) /\ Placed(h)
Loading == \A h \in Holder : LoadingAt(h)

\* The words and keys of a set stay the same.
SameWords(h) ==
  /\ Word(h)' = Word(h)
  /\ \A w : StartNode(h, w)' = StartNode(h, w)
  /\ \A i : WordsOf(h, i)' = WordsOf(h, i)
  /\ \A i : KeysOf(h, i)' = KeysOf(h, i)

IInv == StageType /\ Granting /\ CreatesOwn /\ Owned /\ ListsGrant /\ Loading

-----------------------------------------------------------------------------
(***************************************************************************)
(* The ledger below the sets: a set asks for resources only while it has   *)
(* none, so what holds of the ledger holds here.                           *)
(***************************************************************************)
LEMMA InitGranting == Init => ClusterTypeOK /\ StageType /\ Granting
<1> SUFFICES ASSUME Init PROVE ClusterTypeOK /\ StageType /\ Granting
  OBVIOUS
<1>1. << >> \in Seq(Address)
  OBVIOUS
<1> QED
  BY <1>1, InitTypes DEF Init, ClusterInit, StageType, Granting

\* A step of the loader is a step of the ledger or leaves it alone.
LEMMA GrantingStep ==
  ASSUME ClusterTypeOK, stage \in [Holder -> {"none", "create", "load", "up", "destroy"}],
         Granting, [Next]_vars
  PROVE  /\ [ClusterNext]_clusterVars
         /\ stage' \in [Holder -> {"none", "create", "load", "up", "destroy"}]
         /\ Granting'
<1>1. ASSUME NEW h \in Holder, NEW d \in Demand, NewContainerSet(h, d)
      PROVE  /\ [ClusterNext]_clusterVars
             /\ stage' \in [Holder -> {"none", "create", "load", "up", "destroy"}]
             /\ Granting'
  <2>1. Get(h, d) /\ granted[h] = {}
    BY <1>1 DEF NewContainerSet, Granting
  <2>2. /\ granted'[h] # {}
        /\ \A g \in Holder : g # h => granted'[g] = granted[g]
    BY <2>1, GetGrants
  <2> QED
    BY <1>1, <2>1, <2>2 DEF NewContainerSet, Granting, ClusterNext
<1>2. ASSUME NEW d \in Demand, GetPanic(d)
      PROVE  /\ [ClusterNext]_clusterVars
             /\ stage' \in [Holder -> {"none", "create", "load", "up", "destroy"}]
             /\ Granting'
  BY <1>2 DEF GetPanic, GetPanics, setVars, Granting, ClusterNext
<1>3. ASSUME NEW h \in Holder, PutResource(h)
      PROVE  /\ [ClusterNext]_clusterVars
             /\ stage' \in [Holder -> {"none", "create", "load", "up", "destroy"}]
             /\ Granting'
  <2>1. Put(h)
    BY <1>3 DEF PutResource
  <2>2. /\ granted'[h] = {}
        /\ \A g \in Holder : g # h => granted'[g] = granted[g]
    BY <2>1 DEF Put, ClusterTypeOK
  <2> QED
    BY <1>3, <2>1, <2>2 DEF PutResource, Granting, ClusterNext
<1>4. ASSUME NEW h \in Holder, Load(h) \/ Recycle(h) \/ \E a \in created[h] : RemoveContainer(h, a)
      PROVE  /\ UNCHANGED clusterVars
             /\ stage' \in [Holder -> {"none", "create", "load", "up", "destroy"}]
             /\ \A g \in Holder : stage'[g] = "none" <=> stage[g] = "none"
  BY <1>4 DEF Load, CreateContainer, InitContainer, StartLoading, LoadKey, LoadDone, Recycle,
              RemoveContainer
<1>5. ASSUME NEW h \in Holder, Load(h) \/ Recycle(h) \/ \E a \in created[h] : RemoveContainer(h, a)
      PROVE  Granting'
  BY <1>4, <1>5 DEF Granting, clusterVars
<1>6. CASE UNCHANGED vars
  BY <1>6 DEF vars, setVars, clusterVars, Granting
<1> QED
  BY <1>1, <1>2, <1>3, <1>4, <1>5, <1>6 DEF Next

\* What the controller does to the ledger when it brings sets up and takes them
\* down are the ledger's own steps, so its theorems hold of LoadGraph too.
THEOREM SetsUseLedger == Spec => ClusterSpec
<1> DEFINE G == /\ ClusterTypeOK
                /\ stage \in [Holder -> {"none", "create", "load", "up", "destroy"}]
                /\ Granting
<1>1. Init => G
  BY InitGranting DEF StageType
<1>2. G /\ [Next]_vars => G' /\ [ClusterNext]_clusterVars
  BY GrantingStep, LedgerTypeStep
<1>3. Init => ClusterInit
  BY DEF Init
<1> QED
  BY <1>1, <1>2, <1>3, PTL DEF Spec, ClusterSpec

Ledger == Books /\ OneCoordinator

\* So the ledger's invariants hold of the loader.
LEMMA LedgerHolds == Spec => [](Ledger /\ Granting)
<1>1. Init => ClusterTypeOK /\ StageType /\ Granting
  BY InitGranting
<1>2. Init => /\ stage \in [Holder -> {"none", "create", "load", "up", "destroy"}]
              /\ Granting
  BY InitGranting DEF StageType
<1>3. /\ Books
      /\ stage \in [Holder -> {"none", "create", "load", "up", "destroy"}]
      /\ Granting
      /\ [Next]_vars
      => /\ (stage \in [Holder -> {"none", "create", "load", "up", "destroy"}])'
         /\ Granting'
  BY GrantingStep DEF Books
<1> QED
  BY <1>2, <1>3, SetsUseLedger, BooksKept, PortsKept, PTL DEF Spec, Ledger

-----------------------------------------------------------------------------
(***************************************************************************)
(* The invariant is kept, action by action.                                *)
(***************************************************************************)

\* A sequence of a finite set has every member once.
LEMMA SeqOfSet ==
  ASSUME NEW S, IsFiniteSet(S), NEW l \in SetToSeqs(S)
  PROVE  /\ l \in Seq(S)
         /\ Len(l) = Cardinality(S)
         /\ \A i, j \in 1 .. Len(l) : l[i] = l[j] => i = j
<1>1. Cardinality(S) \in Nat
  BY FS_CardinalityType
<1>2. /\ l \in [1 .. Cardinality(S) -> S]
      /\ \A i, j \in 1 .. Cardinality(S) : i # j => l[i] # l[j]
  BY DEF SetToSeqs
<1>3. l \in Seq(S) /\ Len(l) = Cardinality(S)
  BY <1>1, <1>2
<1> QED
  BY <1>2, <1>3

\* A set has as many addresses of containers as containers.
LEMMA AddressCount ==
  ASSUME NEW S \in SUBSET Container, \A b, c \in S : AddressOf(b) = AddressOf(c) => b = c
  PROVE  /\ IsFiniteSet({ AddressOf(c) : c \in S })
         /\ Cardinality({ AddressOf(c) : c \in S }) = Cardinality(S)
<1>1. IsFiniteSet(S)
  BY ContainersFinite
<1>2. [c \in S |-> AddressOf(c)] \in Bijection(S, { AddressOf(c) : c \in S })
  BY DEF Bijection, Injection, IsInjective, Surjection
<1>3. ExistsBijection(S, { AddressOf(c) : c \in S })
  BY <1>2 DEF ExistsBijection
<1> QED
  BY <1>1, <1>3, FS_Bijection

\* Words and keys depend on the demand and the number of parts only.
LEMMA WordsStay ==
  ASSUME NEW h \in Holder, demand'[h] = demand[h], parts'[h] = parts[h]
  PROVE  SameWords(h)
<1>1. /\ Word(h)' = Word(h) /\ SlotsPer(h)' = SlotsPer(h)
      /\ \A w : StartNode(h, w)' = StartNode(h, w)
  BY DEF Word, SlotsPer, StartNode, Least
<1>2. \A i : WordsOf(h, i)' = WordsOf(h, i)
  BY <1>1 DEF WordsOf
<1>3. \A i : KeysOf(h, i)' = KeysOf(h, i)
  BY <1>1, <1>2 DEF KeysOf
<1> QED
  BY <1>1, <1>2, <1>3 DEF SameWords

\* A set that a step does not touch, nor its containers, stays loaded as it is.
LEMMA LoadingStays ==
  ASSUME NEW h \in Holder, LoadingAt(h), SameWords(h), Addresses(h)' = Addresses(h),
         list'[h] = list[h], loading'[h] = loading[h], stage'[h] = stage[h],
         created'[h] = created[h],
         \A i \in 1 .. Len(list[h]) : list[h][i] \in Addresses(h),
         \A a \in created[h] : graphs'[a] = graphs[a]
  PROVE  LoadingAt(h)'
<1>1. \A i, w : Calls(h, i, w)' <=> Calls(h, i, w)
  BY DEF Calls, SameWords
<1>2. ASSUME created[h] = Addresses(h), Placed(h)
      PROVE  Placed(h)'
  <2> SUFFICES ASSUME NEW i \in 1 .. Len(list[h])
               PROVE  /\ graphs'[list[h][i]] \subseteq KeysOf(h, i)
                      /\ \A w \in WordsOf(h, i) : \/ << i, w >> \in loading[h]
                                                  \/ StartNode(h, w) \in graphs'[list[h][i]]
    BY DEF Placed, SameWords
  <2>1. graphs'[list[h][i]] = graphs[list[h][i]]
    BY <1>2
  <2> QED
    BY <1>2, <2>1 DEF Placed
<1> QED
  BY <1>1, <1>2 DEF LoadingAt

\* The addresses in the list of a set are its own.
LEMMA ListOwn ==
  ASSUME ListsGrant, NEW h \in Holder
  PROVE  \A i \in 1 .. Len(list[h]) : list[h][i] \in Addresses(h)
  BY DEF ListsGrant, Addresses

\* The number of parts is a number, 0 while there is no set.
LEMMA PartsCounted ==
  ASSUME IInv, NEW h \in Holder
  PROVE  parts[h] \in Nat
<1>1. parts[h] \in PartCounts \cup {0}
  BY DEF IInv, StageType
<1>2. \A n \in PartCounts : n \in Nat
  BY PartCountsAssumption
<1>3. CASE parts[h] \in PartCounts
  BY <1>2, <1>3
<1>4. CASE parts[h] = 0
  BY <1>4
<1> QED
  BY <1>1, <1>3, <1>4

\* A set gets its slots.
LEMMA NewSetKeeps ==
  ASSUME Ledger, Ledger', IInv, NEW h \in Holder, NEW d \in Demand, NewContainerSet(h, d)
  PROVE  StageType' /\ CreatesOwn' /\ Owned' /\ ListsGrant' /\ Loading'
<1>1. /\ Get(h, d) /\ granted[h] = {} /\ coordinator[h] = {}
      /\ ClusterTypeOK /\ ClusterTypeOK' /\ PortExclusive'
  BY DEF NewContainerSet, IInv, Granting, Ledger, OneCoordinator, Books
<1>2. \A g \in Holder : g # h => /\ granted'[g] = granted[g] /\ coordinator'[g] = coordinator[g]
                                 /\ demand'[g] = demand[g]
  BY <1>1, GetGrants DEF Get, ClusterTypeOK
<1>2a. PICK m \in PartCounts : parts' = [parts EXCEPT ![h] = m]
  BY DEF NewContainerSet
<1>3. created[h] = {}
  BY <1>1 DEF IInv, CreatesOwn, Addresses
<1>4. PICK l \in SetToSeqs({ AddressOf(c) : c \in granted'[h] }) : list' = [list EXCEPT ![h] = l]
  BY DEF NewContainerSet
<1>5. PICK S \in SUBSET Container : S = granted'[h]
  BY <1>1 DEF ClusterTypeOK
<1>6. PICK A : A = { AddressOf(c) : c \in S }
  OBVIOUS
<1>7. A \subseteq Address
  BY <1>6 DEF AddressOf, Container, Address
<1>8. IsFiniteSet(A) /\ Cardinality(A) = Cardinality(S)
  <2>1. \A b, c \in S : AddressOf(b) = AddressOf(c) => b = c
    BY <1>1, <1>5 DEF PortExclusive, AddressOf
  <2> QED
    BY <1>6, <2>1, AddressCount
<1>9. /\ l \in Seq(A) /\ Len(l) = Cardinality(S)
      /\ \A i, j \in 1 .. Len(l) : l[i] = l[j] => i = j
  <2>1. l \in SetToSeqs(A)
    BY <1>4, <1>5, <1>6
  <2> QED
    BY <1>8, <2>1, SeqOfSet
<1>10. \A i \in 1 .. Len(l) : l[i] \in A
  BY <1>9
<1>11. l \in Seq(Address)
  BY <1>7, <1>9
<1>12. /\ stage' = [stage EXCEPT ![h] = "create"]
       /\ UNCHANGED << status, created, loading, graphs >>
       /\ \A g \in Holder : g # h =>
            list'[g] = list[g] /\ stage'[g] = stage[g] /\ parts'[g] = parts[g]
       /\ list'[h] = l /\ stage'[h] = "create"
  BY <1>2a, <1>4 DEF NewContainerSet, IInv, StageType
<1>13. StageType'
  BY <1>2a, <1>4, <1>11, <1>12 DEF IInv, StageType
<1>14. \A g \in Holder : g # h => Addresses(g)' = Addresses(g)
  BY <1>2 DEF Addresses
<1>15. CreatesOwn' /\ Owned'
  BY <1>3, <1>12, <1>14 DEF IInv, CreatesOwn, Owned
<1>16. ListsGrant'
  <2> SUFFICES ASSUME NEW g \in Holder
               PROVE  /\ Len(list'[g]) = Cardinality(granted'[g])
                      /\ \A i, j \in 1 .. Len(list'[g]) : list'[g][i] = list'[g][j] => i = j
                      /\ \A i \in 1 .. Len(list'[g]) :
                           \E c \in granted'[g] : list'[g][i] = AddressOf(c)
    BY DEF ListsGrant, AddressOf
  <2>1. CASE g = h
    BY <1>5, <1>6, <1>9, <1>10, <1>12, <2>1
  <2>2. CASE g # h
    BY <1>2, <1>12, <2>2 DEF IInv, ListsGrant
  <2> QED
    BY <2>1, <2>2
<1>17. Loading'
  <2> SUFFICES ASSUME NEW g \in Holder PROVE LoadingAt(g)'
    BY DEF Loading
  <2>1. LoadingAt(g)
    BY DEF IInv, Loading
  <2>2. CASE g = h
    <3>1. loading[h] = {}
      BY <2>1, <2>2 DEF LoadingAt, NewContainerSet
    <3> QED
      BY <1>3, <1>12, <2>2, <3>1 DEF LoadingAt
  <2>3. CASE g # h
    BY <1>2, <1>12, <1>14, <2>1, <2>3, WordsStay, LoadingStays, ListOwn DEF IInv
  <2> QED
    BY <2>2, <2>3
<1> QED
  BY <1>13, <1>15, <1>16, <1>17

\* A retired set gives its slots back.
LEMMA PutKeeps ==
  ASSUME Ledger, IInv, NEW h \in Holder, PutResource(h)
  PROVE  StageType' /\ CreatesOwn' /\ Owned' /\ ListsGrant' /\ Loading'
<1>1. /\ \A g \in Holder : g # h => /\ granted'[g] = granted[g] /\ coordinator'[g] = coordinator[g]
                                    /\ demand'[g] = demand[g]
      /\ granted'[h] = {} /\ ClusterTypeOK
  BY DEF PutResource, Put, Ledger, Books, ClusterTypeOK
<1>2. created[h] = {}
  BY DEF PutResource, Destroyed
<1>3. /\ UNCHANGED << status, loading, graphs >>
      /\ created' = created
      /\ parts' = [parts EXCEPT ![h] = 0]
      /\ \A g \in Holder : g # h =>
           list'[g] = list[g] /\ stage'[g] = stage[g] /\ parts'[g] = parts[g]
      /\ list'[h] = << >> /\ stage'[h] = "none"
      /\ list' = [list EXCEPT ![h] = << >>] /\ stage' = [stage EXCEPT ![h] = "none"]
  BY <1>2 DEF PutResource, IInv, StageType
<1>4. << >> \in Seq(Address) /\ Len(<< >>) = 0
  OBVIOUS
<1>5. StageType'
  BY <1>3, <1>4 DEF IInv, StageType
<1>6. \A g \in Holder : g # h => Addresses(g)' = Addresses(g)
  BY <1>1 DEF Addresses
<1>7. CreatesOwn' /\ Owned'
  BY <1>2, <1>3, <1>6 DEF IInv, CreatesOwn, Owned
<1>8. ListsGrant'
  <2>1. Len(list'[h]) = Cardinality(granted'[h])
    BY <1>1, <1>3, <1>4, FS_EmptySet
  <2>2. ASSUME NEW g \in Holder, g # h
        PROVE  /\ Len(list'[g]) = Cardinality(granted'[g])
               /\ \A i, j \in 1 .. Len(list'[g]) : list'[g][i] = list'[g][j] => i = j
               /\ \A i \in 1 .. Len(list'[g]) :
                    \E c \in granted'[g] : list'[g][i] = AddressOf(c)
    BY <1>1, <1>3, <2>2 DEF IInv, ListsGrant
  <2>3. 1 .. Len(list'[h]) = {}
    BY <1>3, <1>4
  <2> QED
    BY <2>1, <2>2, <2>3 DEF ListsGrant, AddressOf
<1>9. Loading'
  <2> SUFFICES ASSUME NEW g \in Holder PROVE LoadingAt(g)'
    BY DEF Loading
  <2>1. LoadingAt(g)
    BY DEF IInv, Loading
  <2>2. CASE g = h
    <3>1. loading[h] = {}
      BY <2>1, <2>2 DEF LoadingAt, PutResource
    <3> QED
      BY <1>3, <2>2, <3>1 DEF LoadingAt
  <2>3. CASE g # h
    BY <1>1, <1>3, <1>6, <2>1, <2>3, WordsStay, LoadingStays, ListOwn DEF IInv
  <2> QED
    BY <2>2, <2>3
<1> QED
  BY <1>5, <1>7, <1>8, <1>9

\* The other steps leave the ledger and the lists alone.
LEMMA LedgerFixed ==
  ASSUME UNCHANGED << clusterVars, list, parts >>, IInv
  PROVE  /\ ListsGrant'
         /\ \A h \in Holder : Addresses(h)' = Addresses(h)
         /\ \A h \in Holder : SameWords(h)
<1>1. \A h \in Holder : SameWords(h)
  BY WordsStay DEF clusterVars
<1> QED
  BY <1>1 DEF clusterVars, IInv, ListsGrant, Addresses, AddressOf

\* A container is created.
LEMMA CreateKeeps ==
  ASSUME Ledger, IInv, NEW h \in Holder, NEW a \in Addresses(h), CreateContainer(h, a)
  PROVE  StageType' /\ CreatesOwn' /\ Owned' /\ ListsGrant' /\ Loading'
<1>1. /\ UNCHANGED << clusterVars, list, parts, stage, loading >>
      /\ stage[h] = "create" /\ status[a] = "none"
      /\ status' = [status EXCEPT ![a] = "started"]
      /\ created' = [created EXCEPT ![h] = @ \cup {a}]
      /\ graphs' = [graphs EXCEPT ![a] = {}]
  BY DEF CreateContainer
<1>2. /\ ListsGrant'
      /\ \A g \in Holder : Addresses(g)' = Addresses(g)
      /\ \A g \in Holder : SameWords(g)
  BY <1>1, LedgerFixed
<1>3. a \in Address
  BY DEF Ledger, Books, ClusterTypeOK, Addresses, AddressOf, Container, Address
<1>4. StageType'
  BY <1>1, <1>3 DEF IInv, StageType
<1>5. /\ created'[h] = created[h] \cup {a}
      /\ \A g \in Holder : g # h => created'[g] = created[g]
      /\ status'[a] = "started"
      /\ \A b \in Address : b # a => status'[b] = status[b] /\ graphs'[b] = graphs[b]
      /\ graphs'[a] = {}
  BY <1>1, <1>3 DEF IInv, StageType
<1>6. CreatesOwn' /\ Owned'
  BY <1>2, <1>5 DEF IInv, CreatesOwn, Owned
<1>7. \A g \in Holder : a \notin created[g]
  BY <1>1, <1>3 DEF IInv, Owned
<1>9. Loading'
  <2> SUFFICES ASSUME NEW g \in Holder PROVE LoadingAt(g)'
    BY DEF Loading
  <2>1. LoadingAt(g)
    BY DEF IInv, Loading
  <2>2. CASE g = h
    <3>1. loading[h] = {} /\ stage'[h] = "create" /\ \A b \in created[h] : graphs[b] = {}
      BY <1>1, <2>1, <2>2 DEF LoadingAt
    <3>2. \A b \in created'[h] : graphs'[b] = {}
      BY <1>5, <3>1 DEF IInv, StageType
    <3> QED
      BY <1>1, <2>2, <3>1, <3>2 DEF LoadingAt
  <2>3. CASE g # h
    <3>1. \A b \in created[g] : b # a /\ b \in Address
      BY <1>7 DEF IInv, StageType
    <3> QED
      BY <1>1, <1>2, <1>5, <2>1, <2>3, <3>1, LoadingStays, ListOwn DEF IInv
  <2> QED
    BY <2>2, <2>3
<1> QED
  BY <1>2, <1>4, <1>6, <1>9

\* A created container gets its runner.
LEMMA InitContainerKeeps ==
  ASSUME Ledger, IInv, NEW h \in Holder, NEW a \in Addresses(h), InitContainer(h, a)
  PROVE  StageType' /\ CreatesOwn' /\ Owned' /\ ListsGrant' /\ Loading'
<1>1. /\ UNCHANGED << clusterVars, list, parts, stage, created, loading, graphs >>
      /\ a \in created[h] /\ status[a] = "started"
      /\ status' = [status EXCEPT ![a] = "ready"]
  BY DEF InitContainer
<1>2. /\ ListsGrant'
      /\ \A g \in Holder : Addresses(g)' = Addresses(g)
      /\ \A g \in Holder : SameWords(g)
  BY <1>1, LedgerFixed
<1>3. a \in Address
  BY <1>1 DEF IInv, StageType
<1>4. StageType'
  BY <1>1, <1>3 DEF IInv, StageType
<1>5. \A b \in Address : status'[b] = "none" <=> status[b] = "none"
  BY <1>1, <1>3 DEF IInv, StageType
<1>6. CreatesOwn' /\ Owned'
  BY <1>1, <1>2, <1>5 DEF IInv, CreatesOwn, Owned
<1>7. Loading'
  BY <1>1, <1>2, LoadingStays, ListOwn DEF IInv, Loading
<1> QED
  BY <1>2, <1>4, <1>6, <1>7

\* A set goes to its next stage.
LEMMA StageKeeps ==
  ASSUME IInv, NEW h \in Holder, StartLoading(h) \/ LoadDone(h) \/ Recycle(h)
  PROVE  StageType' /\ CreatesOwn' /\ Owned' /\ ListsGrant' /\ Loading'
<1>1. UNCHANGED << clusterVars, list, parts, status, created, graphs >>
  BY DEF StartLoading, LoadDone, Recycle
<1>2. /\ ListsGrant'
      /\ \A g \in Holder : Addresses(g)' = Addresses(g)
      /\ \A g \in Holder : SameWords(g)
  BY <1>1, LedgerFixed
<1>3. PICK to \in {"load", "up", "destroy"} : stage' = [stage EXCEPT ![h] = to]
  BY DEF StartLoading, LoadDone, Recycle
<1>4. stage'[h] = to /\ \A g \in Holder : g # h => stage'[g] = stage[g]
  BY <1>3 DEF IInv, StageType
<1>5. /\ DOMAIN list[h] = 1 .. Len(list[h]) /\ Len(list[h]) \in Nat
      /\ demand[h].partition \in Int => Word(h) \subseteq Nat
  BY DEF IInv, StageType, Word
<1>6. PICK C \in SUBSET (Nat \X Nat) :
        /\ loading' = [loading EXCEPT ![h] = C]
        /\ \A c \in C : Calls(h, c[1], c[2])
        /\ StartLoading(h) => \A i, w : Calls(h, i, w) => << i, w >> \in C
        /\ ~StartLoading(h) => C = loading[h]
  <2>1. CASE StartLoading(h)
    <3> DEFINE D == { c \in (DOMAIN list[h]) \X Word(h) : c[2] \in WordsOf(h, c[1]) }
    <3>1. loading' = [loading EXCEPT ![h] = D]
      BY <2>1 DEF StartLoading
    <3>2. \A i, w : << i, w >> \in D <=> Calls(h, i, w)
      BY <1>5 DEF Calls, WordsOf
    <3>3. \A c \in D : c = << c[1], c[2] >>
      OBVIOUS
    <3>4. Word(h) \subseteq Nat
      BY DEF Word
    <3>5. D \subseteq Nat \X Nat
      BY <1>5, <3>4
    <3> HIDE DEF D
    <3>6. \A c \in D : Calls(h, c[1], c[2])
      BY <3>2, <3>3
    <3> QED
      BY <2>1, <3>1, <3>2, <3>5, <3>6
  <2>2. CASE ~StartLoading(h)
    <3>1. UNCHANGED loading
      BY <2>2 DEF LoadDone, Recycle
    <3>2. LoadingAt(h) /\ loading[h] \in SUBSET (Nat \X Nat)
      BY DEF IInv, Loading, StageType
    <3>3. loading' = [loading EXCEPT ![h] = loading[h]]
      BY <3>1 DEF IInv, StageType
    <3> QED
      BY <2>2, <3>2, <3>3 DEF LoadingAt
  <2> QED
    BY <2>1, <2>2
<1>7. loading'[h] = C /\ \A g \in Holder : g # h => loading'[g] = loading[g]
  BY <1>6 DEF IInv, StageType
<1>8. StageType' /\ CreatesOwn' /\ Owned'
  BY <1>1, <1>2, <1>3, <1>6 DEF IInv, StageType, CreatesOwn, Owned
<1>9. LoadingAt(h)
  BY DEF IInv, Loading
<1>10. \A i, w : Calls(h, i, w)' <=> Calls(h, i, w)
  BY <1>1, <1>2 DEF Calls, SameWords
<1>11. ASSUME NEW i \in 1 .. Len(list[h])
       PROVE  list[h][i] \in Addresses(h) /\ i \in DOMAIN list[h]
  BY DEF IInv, ListsGrant, Addresses, StageType
<1>12. LoadingAt(h)'
  <2>1. CASE StartLoading(h)
    <3>1. stage[h] = "create" /\ created[h] = Addresses(h) /\ stage'[h] = "load"
      BY <1>4, <2>1 DEF StartLoading, AllReady, IInv, StageType
    <3>2. \A a \in created[h] : graphs[a] = {}
      BY <1>9, <3>1 DEF LoadingAt
    <3>3. Placed(h)'
      <4> SUFFICES ASSUME NEW i \in 1 .. Len(list[h])
                   PROVE  /\ graphs[list[h][i]] \subseteq KeysOf(h, i)
                          /\ \A w \in WordsOf(h, i) : << i, w >> \in C
        BY <1>1, <1>2, <1>7 DEF Placed, SameWords
      <4> QED
        BY <1>6, <1>11, <2>1, <3>1, <3>2 DEF Calls
    <3> QED
      BY <1>1, <1>2, <1>6, <1>7, <1>10, <3>1, <3>3 DEF LoadingAt
  <2>2. CASE LoadDone(h) \/ Recycle(h)
    <3>1. /\ ~StartLoading(h)
          /\ LoadDone(h) => stage[h] = "load" /\ stage'[h] = "up" /\ loading[h] = {}
          /\ Recycle(h) => stage[h] = "up" /\ stage'[h] = "destroy"
      BY <1>4, <2>2 DEF StartLoading, LoadDone, Recycle, IInv, StageType
    <3>2. C = loading[h] /\ C = {}
      BY <1>6, <1>9, <2>2, <3>1 DEF LoadingAt
    <3>3. Placed(h) => Placed(h)'
      BY <1>1, <1>2, <1>7, <3>2 DEF Placed, SameWords
    <3> QED
      BY <1>1, <1>2, <1>7, <1>9, <2>2, <3>1, <3>2, <3>3 DEF LoadingAt
  <2> QED
    BY <2>1, <2>2
<1>13. Loading'
  <2> SUFFICES ASSUME NEW g \in Holder, g # h PROVE LoadingAt(g)'
    BY <1>12 DEF Loading
  <2>1. LoadingAt(g)
    BY DEF IInv, Loading
  <2> QED
    BY <1>1, <1>2, <1>4, <1>7, <2>1, LoadingStays, ListOwn DEF IInv
<1> QED
  BY <1>2, <1>8, <1>13

\* A container answers one call of load_key.
LEMMA LoadKeyKeeps ==
  ASSUME Ledger, IInv, NEW h \in Holder, NEW i \in DOMAIN list[h], NEW w \in Word(h),
         LoadKey(h, i, w)
  PROVE  StageType' /\ CreatesOwn' /\ Owned' /\ ListsGrant' /\ Loading'
<1> DEFINE k == StartNode(h, w)
<1>1. /\ UNCHANGED << clusterVars, list, parts, stage, status, created >>
      /\ stage[h] = "load" /\ << i, w >> \in loading[h]
      /\ graphs' = [graphs EXCEPT ![list[h][i]] = @ \cup {k}]
      /\ loading' = [loading EXCEPT ![h] = @ \ {<< i, w >>}]
  BY DEF LoadKey
<1>2. /\ ListsGrant'
      /\ \A g \in Holder : Addresses(g)' = Addresses(g)
      /\ \A g \in Holder : SameWords(g)
  BY <1>1, LedgerFixed
<1>3. PICK a \in Address : a = list[h][i] /\ a \in Addresses(h) /\ i \in 1 .. Len(list[h])
  <2>1. i \in 1 .. Len(list[h]) /\ list[h][i] \in Address
    BY DEF IInv, StageType
  <2>2. list[h][i] \in Addresses(h)
    BY <2>1 DEF IInv, ListsGrant, Addresses
  <2> QED
    BY <2>1, <2>2
<1>4. granted[h] # {} /\ demand[h] \in Demand
  BY <1>1 DEF IInv, Granting, Ledger, Books, Demanded
<1>5. k \in UNION { 0 .. d.partition - 1 : d \in Demand }
  <2>1. parts[h] \in Nat /\ demand[h].partition \in Nat
    BY <1>4, ClusterAssumption, PartsCounted
  <2>2. k \in 0 .. demand[h].partition - 1
    BY <2>1 DEF StartNode, Least, Word
  <2> QED
    BY <1>4, <2>2
<1>6. /\ LoadingAt(h) /\ Placed(h) /\ created[h] = Addresses(h)
      /\ Calls(h, i, w) /\ k \in KeysOf(h, i)
  <2>1. LoadingAt(h)
    BY DEF IInv, Loading
  <2>2. Calls(h, i, w)
    BY <1>1, <2>1 DEF LoadingAt
  <2> QED
    BY <1>1, <2>1, <2>2 DEF LoadingAt, Calls, KeysOf
<1> HIDE DEF k
<1>7. StageType'
  BY <1>1, <1>3, <1>5 DEF IInv, StageType
<1>8. CreatesOwn' /\ Owned'
  BY <1>1, <1>2 DEF IInv, CreatesOwn, Owned
<1>9. /\ graphs'[a] = graphs[a] \cup {k}
      /\ \A b \in Address : b # a => graphs'[b] = graphs[b]
      /\ loading'[h] = loading[h] \ {<< i, w >>}
      /\ \A g \in Holder : g # h => loading'[g] = loading[g]
  BY <1>1, <1>3 DEF IInv, StageType
<1>10. \A g \in Holder : g # h => a \notin Addresses(g)
  BY <1>3 DEF Ledger, Books, PortExclusive
<1>11. LoadingAt(h)'
  <2>1. Placed(h)'
    <3> SUFFICES ASSUME NEW j \in 1 .. Len(list[h])
                 PROVE  /\ graphs'[list[h][j]] \subseteq KeysOf(h, j)
                        /\ \A v \in WordsOf(h, j) : \/ << j, v >> \in loading'[h]
                                                    \/ StartNode(h, v) \in graphs'[list[h][j]]
      BY <1>1, <1>2 DEF Placed, SameWords
    <3>1. /\ graphs[list[h][j]] \subseteq KeysOf(h, j)
          /\ \A v \in WordsOf(h, j) : \/ << j, v >> \in loading[h]
                                      \/ StartNode(h, v) \in graphs[list[h][j]]
      BY <1>6 DEF Placed
    <3>2. CASE j = i
      <4>1. graphs'[list[h][j]] = graphs[list[h][j]] \cup {k}
        BY <1>3, <1>9, <3>2
      <4>2. ASSUME NEW v \in WordsOf(h, j)
            PROVE  \/ << j, v >> \in loading'[h]
                   \/ StartNode(h, v) \in graphs'[list[h][j]]
        <5>1. v = w => StartNode(h, v) = k
          BY DEF k
        <5> QED
          BY <1>9, <3>1, <4>1, <5>1
      <4> QED
        BY <1>6, <3>1, <3>2, <4>1, <4>2
    <3>3. CASE j # i
      <4>1. list[h][j] # a /\ list[h][j] \in Address
        BY <1>3, <3>3 DEF IInv, ListsGrant, StageType
      <4> QED
        BY <1>9, <3>1, <3>3, <4>1
    <3> QED
      BY <3>2, <3>3
  <2>2. \A c \in loading'[h] : Calls(h, c[1], c[2])'
    BY <1>1, <1>2, <1>6, <1>9 DEF LoadingAt, Calls, SameWords
  <2> QED
    BY <1>1, <1>2, <1>6, <2>1, <2>2 DEF LoadingAt
<1>12. Loading'
  <2> SUFFICES ASSUME NEW g \in Holder, g # h PROVE LoadingAt(g)'
    BY <1>11 DEF Loading
  <2>1. LoadingAt(g)
    BY DEF IInv, Loading
  <2>2. \A b \in created[g] : b # a /\ b \in Address
    BY <1>10 DEF IInv, CreatesOwn, StageType
  <2> QED
    BY <1>1, <1>2, <1>9, <2>1, <2>2, LoadingStays, ListOwn DEF IInv
<1> QED
  BY <1>2, <1>7, <1>8, <1>12

\* A container of a retired set is removed.
LEMMA RemoveKeeps ==
  ASSUME Ledger, IInv, NEW h \in Holder, NEW a \in created[h], RemoveContainer(h, a)
  PROVE  StageType' /\ CreatesOwn' /\ Owned' /\ ListsGrant' /\ Loading'
<1>1. /\ UNCHANGED << clusterVars, list, parts, stage, loading, graphs >>
      /\ stage[h] = "destroy"
      /\ created' = [created EXCEPT ![h] = @ \ {a}]
      /\ status' = [status EXCEPT ![a] = "none"]
  BY DEF RemoveContainer
<1>2. /\ ListsGrant'
      /\ \A g \in Holder : Addresses(g)' = Addresses(g)
      /\ \A g \in Holder : SameWords(g)
  BY <1>1, LedgerFixed
<1>3. a \in Address /\ a \in Addresses(h)
  BY DEF IInv, StageType, CreatesOwn
<1>4. StageType'
  BY <1>1, <1>3 DEF IInv, StageType
<1>5. \A g \in Holder : g # h => a \notin created[g] /\ created'[g] = created[g]
  BY <1>1, <1>3 DEF IInv, CreatesOwn, StageType, Ledger, Books, PortExclusive
<1>6. /\ created'[h] = created[h] \ {a}
      /\ status'[a] = "none"
      /\ \A b \in Address : b # a => status'[b] = status[b]
  BY <1>1, <1>3 DEF IInv, StageType
<1>7. CreatesOwn' /\ Owned'
  BY <1>2, <1>5, <1>6 DEF IInv, CreatesOwn, Owned
<1>8. Loading'
  <2> SUFFICES ASSUME NEW g \in Holder PROVE LoadingAt(g)'
    BY DEF Loading
  <2>1. LoadingAt(g)
    BY DEF IInv, Loading
  <2>2. CASE g = h
    <3>1. loading[h] = {}
      BY <1>1, <2>1, <2>2 DEF LoadingAt
    <3> QED
      BY <1>1, <2>2, <3>1 DEF LoadingAt
  <2>3. CASE g # h
    BY <1>1, <1>2, <1>5, <2>1, <2>3, LoadingStays, ListOwn DEF IInv
  <2> QED
    BY <2>2, <2>3
<1> QED
  BY <1>2, <1>4, <1>7, <1>8

\* A step of nothing but the lock, and no step at all.
LEMMA StutterKeeps ==
  ASSUME IInv, UNCHANGED << granted, coordinator, demand, setVars >>
  PROVE  StageType' /\ CreatesOwn' /\ Owned' /\ ListsGrant' /\ Loading'
<1>1. UNCHANGED << granted, coordinator, demand, list, parts, stage, status, created, loading,
                   graphs >>
  BY DEF setVars
<1>2. /\ \A g \in Holder : Addresses(g)' = Addresses(g)
      /\ \A g \in Holder : SameWords(g)
  BY <1>1, WordsStay DEF Addresses
<1>3. StageType' /\ CreatesOwn' /\ Owned'
  BY <1>1, <1>2 DEF IInv, StageType, CreatesOwn, Owned
<1>4. ListsGrant'
  BY <1>1 DEF IInv, ListsGrant, AddressOf
<1>5. Loading'
  BY <1>1, <1>2, LoadingStays, ListOwn DEF IInv, Loading
<1> QED
  BY <1>3, <1>4, <1>5

\* Without sets the invariant holds.
LEMMA InitSets == Init => IInv
<1> SUFFICES ASSUME Init PROVE IInv
  OBVIOUS
<1>1. /\ list = [h \in Holder |-> << >>]
      /\ stage = [h \in Holder |-> "none"]
      /\ status = [a \in Address |-> "none"]
      /\ created = [h \in Holder |-> {}]
      /\ loading = [h \in Holder |-> {}]
      /\ granted = [h \in Holder |-> {}]
  BY DEF Init, ClusterInit
<1>2. StageType /\ Granting
  BY InitGranting
<1>3. CreatesOwn /\ Owned /\ Loading
  BY <1>1 DEF CreatesOwn, Owned, Loading, LoadingAt
<1>4. ListsGrant
  <2>1. Len(<< >>) = 0 /\ 1 .. 0 = {} /\ Cardinality({}) = 0
    BY FS_EmptySet
  <2> SUFFICES ASSUME NEW h \in Holder
               PROVE  /\ Len(list[h]) = Cardinality(granted[h])
                      /\ 1 .. Len(list[h]) = {}
    BY DEF ListsGrant
  <2> QED
    BY <1>1, <2>1
<1> QED
  BY <1>2, <1>3, <1>4 DEF IInv

\* Every step keeps the invariant.
LEMMA SetsStep ==
  ASSUME Ledger, Ledger', IInv, [Next]_vars
  PROVE  StageType' /\ CreatesOwn' /\ Owned' /\ ListsGrant' /\ Loading'
<1>1. ASSUME NEW h \in Holder, NEW d \in Demand, NewContainerSet(h, d)
      PROVE  StageType' /\ CreatesOwn' /\ Owned' /\ ListsGrant' /\ Loading'
  BY <1>1, NewSetKeeps
<1>2. ASSUME NEW d \in Demand, GetPanic(d)
      PROVE  StageType' /\ CreatesOwn' /\ Owned' /\ ListsGrant' /\ Loading'
  <2>1. UNCHANGED << granted, coordinator, demand, setVars >>
    BY <1>2 DEF GetPanic, GetPanics
  <2> QED
    BY <2>1, StutterKeeps
<1>3. ASSUME NEW h \in Holder, Load(h)
      PROVE  StageType' /\ CreatesOwn' /\ Owned' /\ ListsGrant' /\ Loading'
  <2>1. ASSUME NEW a \in Addresses(h), CreateContainer(h, a) \/ InitContainer(h, a)
        PROVE  StageType' /\ CreatesOwn' /\ Owned' /\ ListsGrant' /\ Loading'
    BY <2>1, CreateKeeps, InitContainerKeeps
  <2>2. CASE StartLoading(h) \/ LoadDone(h)
    BY <2>2, StageKeeps
  <2>3. ASSUME NEW i \in DOMAIN list[h], NEW w \in Word(h), LoadKey(h, i, w)
        PROVE  StageType' /\ CreatesOwn' /\ Owned' /\ ListsGrant' /\ Loading'
    BY <2>3, LoadKeyKeeps
  <2> QED
    BY <1>3, <2>1, <2>2, <2>3 DEF Load
<1>4. ASSUME NEW h \in Holder, Recycle(h)
      PROVE  StageType' /\ CreatesOwn' /\ Owned' /\ ListsGrant' /\ Loading'
  BY <1>4, StageKeeps
<1>5. ASSUME NEW h \in Holder, PutResource(h)
      PROVE  StageType' /\ CreatesOwn' /\ Owned' /\ ListsGrant' /\ Loading'
  BY <1>5, PutKeeps
<1>6. ASSUME NEW h \in Holder, NEW a \in created[h], RemoveContainer(h, a)
      PROVE  StageType' /\ CreatesOwn' /\ Owned' /\ ListsGrant' /\ Loading'
  BY <1>6, RemoveKeeps
<1>7. CASE UNCHANGED vars
  <2>1. UNCHANGED << granted, coordinator, demand, setVars >>
    BY <1>7 DEF vars, clusterVars
  <2> QED
    BY <2>1, StutterKeeps
<1> QED
  BY <1>1, <1>2, <1>3, <1>4, <1>5, <1>6, <1>7 DEF Next

\* Every reachable state has the inductive invariant: containers are created,
\* known and removed by the set that was granted them, and keys go where the
\* second loop of LoadGraph sends them.
THEOREM SetsInvariant == Spec => [](Ledger /\ IInv)
<1>1. Init => StageType /\ CreatesOwn /\ Owned /\ ListsGrant /\ Loading
  BY InitSets DEF IInv
<1>2. /\ Ledger /\ Ledger' /\ Granting
      /\ StageType /\ CreatesOwn /\ Owned /\ ListsGrant /\ Loading
      /\ [Next]_vars
      => StageType' /\ CreatesOwn' /\ Owned' /\ ListsGrant' /\ Loading'
  BY SetsStep DEF IInv
<1> QED
  BY <1>1, <1>2, LedgerHolds, PTL DEF Spec, IInv

-----------------------------------------------------------------------------
(***************************************************************************)
(* What the runs check.                                                    *)
(***************************************************************************)
\* Types: the ledger's, and those of the sets, the containers and their keys.
THEOREM SetsTypeCorrect == Spec => []TypeOK
<1>1. ASSUME Ledger, IInv PROVE TypeOK
  <2>1. \A h \in Holder : loading[h] \subseteq (DOMAIN list[h]) \X Word(h)
    <3> SUFFICES ASSUME NEW h \in Holder, NEW c \in loading[h]
                 PROVE  c \in (DOMAIN list[h]) \X Word(h)
      OBVIOUS
    <3>1. c \in Nat \X Nat /\ DOMAIN list[h] = 1 .. Len(list[h])
      BY <1>1 DEF IInv, StageType
    <3>2. Calls(h, c[1], c[2])
      BY <1>1 DEF IInv, Loading, LoadingAt
    <3> QED
      BY <3>1, <3>2 DEF Calls, WordsOf
  <2> QED
    BY <1>1, <2>1 DEF Ledger, Books, IInv, StageType, CreatesOwn, TypeOK
<1> QED
  BY <1>1, SetsInvariant, PTL

\* Every container on a host is known to exactly one set, whichever order the
\* concurrent requests create and destroy theirs in; an address docker runs
\* nothing at is known to none.
THEOREM EveryContainerHasOneOwner == Spec => []OneOwner
<1>1. ASSUME Ledger, IInv PROVE OneOwner
  <2> SUFFICES ASSUME NEW a \in Address
               PROVE  Cardinality({ h \in Holder : a \in created[h] })
                        = IF status[a] = "none" THEN 0 ELSE 1
    BY DEF OneOwner
  <2>1. CASE status[a] = "none"
    <3>1. { h \in Holder : a \in created[h] } = {}
      BY <1>1, <2>1 DEF IInv, Owned
    <3> QED
      BY <2>1, <3>1, FS_EmptySet
  <2>2. CASE status[a] # "none"
    <3>1. PICK h \in Holder : a \in created[h]
      BY <1>1, <2>2 DEF IInv, Owned
    <3>2. \A g \in Holder : a \in created[g] => g = h
      BY <1>1, <3>1 DEF IInv, CreatesOwn, Ledger, Books, PortExclusive
    <3>3. { g \in Holder : a \in created[g] } = {h}
      BY <3>1, <3>2
    <3>4. Cardinality({h}) = 1
      BY FS_Singleton
    <3> QED
      BY <2>2, <3>3, <3>4
  <2> QED
    BY <2>1, <2>2
<1> QED
  BY <1>1, SetsInvariant, PTL

\* The keys of one container are an interval as long as its slots.
LEMMA KeysInterval ==
  ASSUME NEW s \in Nat \ {0}, NEW i \in Nat \ {0}, NEW k \in Nat, k \div s = i - 1
  PROVE  k \in (i - 1) * s .. (i - 1) * s + s - 1
<1>1. (k \div s) * s <= k /\ k < (k \div s) * s + s
  BY SMT
<1>2. PICK p \in Int : p = (i - 1) * s
  OBVIOUS
<1>3. p <= k /\ k < p + s
  BY <1>1, <1>2
<1>4. k \in p .. p + s - 1
  BY <1>3
<1> QED
  BY <1>2, <1>4

\* A key below n * s goes to one of the first n containers.
LEMMA KeyPlace ==
  ASSUME NEW s \in Nat \ {0}, NEW n \in Nat, NEW k \in Nat, k < n * s
  PROVE  k \div s + 1 \in 1 .. n
<1>1. k \div s \in Nat /\ (k \div s) * s <= k
  BY SMT
<1>2. PICK q \in Nat : q = k \div s /\ q * s <= k
  BY <1>1
<1>3. q * s < n * s
  BY <1>2
<1>4. q < n
  BY <1>3
<1> QED
  BY <1>2, <1>4

\* A word is sent nowhere behind the container of a later word.
LEMMA LaterPlace ==
  ASSUME NEW s \in Nat \ {0}, NEW v \in Nat, NEW w \in Nat, v <= w
  PROVE  v \div s <= w \div s
<1>1. PICK c \in Nat : c = v \div s /\ c * s <= v
  <2>1. v \div s \in Nat /\ (v \div s) * s <= v
    BY SMT
  <2> QED
    BY <2>1
<1>2. PICK d \in Nat : d = w \div s /\ w < d * s + s
  <2>1. w \div s \in Nat /\ w < (w \div s) * s + s
    BY SMT
  <2> QED
    BY <2>1
<1>3. c * s < (d + 1) * s
  BY <1>1, <1>2
<1>4. c < d + 1
  BY <1>3
<1> QED
  BY <1>1, <1>2, <1>4

\* A key has a last word, and all its words are that one if it is the first vertex of a part.
LEMMA LastWord ==
  ASSUME NEW h \in Holder, parts[h] \in Nat, demand[h].partition \in Nat, NEW k \in Key(h)
  PROVE  \E w \in Word(h) : /\ StartNode(h, w) = k
                            /\ \A v \in Word(h) : StartNode(h, v) = k => v <= w
<1>1. PICK p \in Nat : p = demand[h].partition
  OBVIOUS
<1>2. PICK m \in Nat : m = parts[h]
  OBVIOUS
<1>3. Word(h) = 0 .. p - 1
  BY <1>1 DEF Word
<1>4. \A w \in 0 .. p - 1 : StartNode(h, w) = IF w < m THEN w ELSE m
  BY <1>2 DEF StartNode, Least
<1>5. PICK u \in 0 .. p - 1 : StartNode(h, u) = k
  BY <1>3 DEF Key
<1>6. CASE u < m
  BY <1>3, <1>4, <1>5, <1>6
<1>7. CASE ~(u < m)
  <2>1. k = m /\ p - 1 \in 0 .. p - 1 /\ u <= p - 1
    BY <1>4, <1>5, <1>7
  <2>2. StartNode(h, p - 1) = m
    BY <1>4, <1>7, <2>1
  <2>3. \A v \in 0 .. p - 1 : v <= p - 1
    OBVIOUS
  <2> QED
    BY <1>3, <2>1, <2>2, <2>3
<1> QED
  BY <1>6, <1>7

\* When LoadGraph has returned, the container that the coordinator will call for a key has
\* loaded it, and no other container has if START_NODES names the key once, as it does the
\* first vertex of every part; no container has keys of an earlier set or more than its slots.
THEOREM EveryKeyLoadedOnce == Spec => []KeysLoadedOnce
<1>1. ASSUME Ledger, IInv, NEW h \in Holder, stage[h] = "up"
      PROVE  /\ \A k \in Key(h) : \E i \in KeyContainer(h, k) :
                  /\ k \in graphs[list[h][i]]
                  /\ Once(h, k) => \A j \in DOMAIN list[h] : k \in graphs[list[h][j]] => j = i
             /\ \A k \in 0 .. parts[h] - 1 : Once(h, k)
             /\ \A i \in DOMAIN list[h] :
                  /\ graphs[list[h][i]] \subseteq Key(h)
                  /\ Cardinality(graphs[list[h][i]]) <= SlotsPer(h)
  <2>1. /\ granted[h] # {} /\ demand[h] \in Demand
        /\ TotalSlot(demand[h]) <= Cardinality(granted[h]) * demand[h].slotPerContainer
    BY <1>1 DEF IInv, Granting, Ledger, Books, Demanded, EnoughSlots
  <2>2. PICK s \in Nat \ {0} : s = SlotsPer(h)
    BY <2>1, ClusterAssumption DEF SlotsPer
  <2>3. PICK p \in Nat \ {0} : p = demand[h].partition
    BY <2>1, ClusterAssumption
  <2>4. PICK n \in Nat : n = Len(list[h]) /\ DOMAIN list[h] = 1 .. n
    BY <1>1 DEF IInv, StageType
  <2>5. p <= n * s
    <3>1. n = Cardinality(granted[h])
      BY <1>1, <2>4 DEF IInv, ListsGrant
    <3>2. TotalSlot(demand[h]) <= n * s
      BY <2>1, <2>2, <3>1 DEF SlotsPer
    <3>3. p <= TotalSlot(demand[h]) /\ TotalSlot(demand[h]) \in Int
      BY <2>3 DEF TotalSlot
    <3>4. PICK x \in Int : x = n * s
      OBVIOUS
    <3> QED
      BY <3>2, <3>3, <3>4
  <2>6. parts[h] \in Nat
    BY <1>1, PartsCounted
  <2>7. /\ \A i \in 1 .. n : graphs[list[h][i]] \subseteq KeysOf(h, i)
        /\ \A i \in 1 .. n : \A w \in WordsOf(h, i) : StartNode(h, w) \in graphs[list[h][i]]
    <3>1. loading[h] = {} /\ Placed(h)
      BY <1>1 DEF IInv, Loading, LoadingAt
    <3> QED
      BY <2>4, <3>1 DEF Placed
  <2>8. \A w, i : w \in WordsOf(h, i) <=> w \in Word(h) /\ w \div s = i - 1
    BY <2>2 DEF WordsOf
  <2>9. Word(h) = 0 .. p - 1
    BY <2>3 DEF Word
  <2>10. ASSUME NEW k \in Key(h)
         PROVE  \E i \in KeyContainer(h, k) :
                  /\ k \in graphs[list[h][i]]
                  /\ Once(h, k) => \A j \in DOMAIN list[h] : k \in graphs[list[h][j]] => j = i
    <3>1. PICK w \in Word(h) : /\ StartNode(h, w) = k
                               /\ \A v \in Word(h) : StartNode(h, v) = k => v <= w
      BY <2>3, <2>6, LastWord
    <3>2. w \in Nat /\ w < n * s
      <4>1. PICK x \in Int : x = n * s
        OBVIOUS
      <4> QED
        BY <2>5, <2>9, <4>1
    <3>3. w \div s + 1 \in 1 .. n /\ w \div s \in Int
      BY <3>2, KeyPlace
    <3>4. PICK i \in 1 .. n : i = w \div s + 1 /\ w \div s = i - 1
      BY <3>3
    <3>5. w \in WordsOf(h, i) /\ k \in KeysOf(h, i) /\ k \in graphs[list[h][i]]
      BY <2>7, <2>8, <3>1, <3>4 DEF KeysOf
    <3>6. ASSUME NEW j \in 1 .. n, k \in KeysOf(h, j)
          PROVE  j <= i /\ (Once(h, k) => j = i)
      <4>1. PICK v \in Word(h) : v \div s = j - 1 /\ StartNode(h, v) = k
        BY <2>8, <3>6 DEF KeysOf
      <4>2. v <= w /\ v \in Nat
        BY <2>9, <3>1, <4>1
      <4>3. v \div s <= w \div s
        BY <3>2, <4>2, LaterPlace
      <4>4. Once(h, k) => v = w
        BY <3>1, <4>1 DEF Once
      <4> QED
        BY <3>4, <4>1, <4>3, <4>4
    <3>7. i \in KeyContainer(h, k)
      BY <2>4, <3>5, <3>6 DEF KeyContainer
    <3> QED
      BY <2>4, <2>7, <3>5, <3>6, <3>7
  <2>11. ASSUME NEW k \in 0 .. parts[h] - 1
         PROVE  Once(h, k)
    BY <2>6, <2>9, <2>11 DEF Once, StartNode, Least
  <2>12. ASSUME NEW i \in DOMAIN list[h]
         PROVE  /\ graphs[list[h][i]] \subseteq Key(h)
                /\ Cardinality(graphs[list[h][i]]) <= SlotsPer(h)
    <3>1. graphs[list[h][i]] \subseteq KeysOf(h, i)
      BY <2>4, <2>7
    <3>2. PICK b \in Int : b = (i - 1) * s /\ i \in Nat \ {0}
      BY <2>4
    <3>3. ASSUME NEW w \in WordsOf(h, i) PROVE w \in b .. b + s - 1
      <4>1. w \in Nat /\ w \div s = i - 1
        BY <2>8, <2>9
      <4> QED
        BY <3>2, <4>1, KeysInterval
    <3>4. IsFiniteSet(b .. b + s - 1) /\ Cardinality(b .. b + s - 1) = s
      <4>1. b + s - 1 \in Int /\ b <= b + s - 1 /\ (b + s - 1) - b + 1 = s
        OBVIOUS
      <4> QED
        BY <4>1, FS_Interval
    <3>5. IsFiniteSet(WordsOf(h, i)) /\ Cardinality(WordsOf(h, i)) <= s
      <4>1. WordsOf(h, i) \subseteq b .. b + s - 1
        BY <3>3
      <4> QED
        BY <3>4, <4>1, FS_Subset
    <3>6. /\ IsFiniteSet(KeysOf(h, i))
          /\ Cardinality(KeysOf(h, i)) <= Cardinality(WordsOf(h, i))
      <4> DEFINE f == [w \in WordsOf(h, i) |-> StartNode(h, w)]
      <4>1. f \in Surjection(WordsOf(h, i), KeysOf(h, i))
        BY DEF KeysOf, Surjection
      <4> QED
        BY <3>5, <4>1, FS_Surjection
    <3>7. /\ Cardinality(graphs[list[h][i]]) <= Cardinality(KeysOf(h, i))
          /\ IsFiniteSet(graphs[list[h][i]])
      BY <3>1, <3>6, FS_Subset
    <3>8. KeysOf(h, i) \subseteq Key(h)
      BY <2>8 DEF KeysOf, Key
    <3>9. /\ Cardinality(graphs[list[h][i]]) \in Nat /\ Cardinality(KeysOf(h, i)) \in Nat
          /\ Cardinality(WordsOf(h, i)) \in Nat
      BY <3>5, <3>6, <3>7, FS_CardinalityType
    <3> QED
      BY <2>2, <3>1, <3>5, <3>6, <3>7, <3>8, <3>9
  <2> QED
    BY <2>10, <2>11, <2>12
<1>2. Ledger /\ IInv => KeysLoadedOnce
  BY <1>1 DEF KeysLoadedOnce
<1> QED
  BY <1>2, SetsInvariant, PTL

\* While sets come up and go down concurrently, no CPU and no port of a host is
\* granted twice, and the cached total is the sum of the hosts' slots.
COROLLARY LedgerUnderSets == Spec => [](CpuExclusive /\ PortExclusive /\ BooksBalance)
  BY SetsUseLedger, NoCpuGrantedTwice, NoPortGrantedTwice, SlotsAddUp, PTL

-----------------------------------------------------------------------------
(***************************************************************************)
(* Streams between partitions.  The first loop of LoadGraph agrees with    *)
(* the second where containers come out whole: every PARTITION and the     *)
(* slots of every host are multiples of MAX_SLOT_PER_CONTAINER.  Then a    *)
(* set has exactly as many slots as it asked for.                          *)
(***************************************************************************)
WholeSizes(s) ==
  /\ s \in Nat \ {0}
  /\ \A d \in Demand : d.slotPerContainer = s /\ TotalSlot(d) \in Multiples(s)
  /\ \A n \in Node : Capacity[n] \in Multiples(s)

NoSlotOver(s) ==
  \A h \in Holder : granted[h] # {} => Cardinality(granted[h]) * s = TotalSlot(demand[h])

\* Get takes whole containers from every host.
LEMMA GetLeavesNothingOver ==
  ASSUME NEW s, WholeSizes(s), Books, WholeSlots(s), NoSlotOver(s),
         NEW h \in Holder, NEW d \in Demand, Get(h, d)
  PROVE  WholeSlots(s)' /\ NoSlotOver(s)'
<1> DEFINE total == TotalSlot(d)
<1>1. /\ s \in Nat \ {0} /\ d.slotPerContainer = s
      /\ total \in Nat \ {0} /\ total \in Multiples(s)
  BY DemandType DEF WholeSizes
<1>2. ClusterTypeOK' /\ IsFiniteSet(Node)
  BY GetTypes, ClusterAssumption DEF Books
<1>3. PICK pos \in SortedPositions : \E rest \in Fills(pos, total) :
        \A n \in Node :
          /\ UseSlot(pos, rest, n) \in 0 .. slot[n]
          /\ slot'[n] = slot[n] - UseSlot(pos, rest, n)
          /\ Cardinality(At(granted'[h], n)) = NewContainers(pos, rest, s, n)
  BY <1>1, GetByHost DEF Books
<1>4. PICK rest \in Fills(pos, total) :
        \A n \in Node :
          /\ UseSlot(pos, rest, n) \in 0 .. slot[n]
          /\ slot'[n] = slot[n] - UseSlot(pos, rest, n)
          /\ Cardinality(At(granted'[h], n)) = NewContainers(pos, rest, s, n)
  BY <1>3
<1>5. ASSUME NEW n \in Node
      PROVE  /\ UseSlot(pos, rest, n) \in Nat
             /\ UseSlot(pos, rest, n) <= slot[n]
             /\ UseSlot(pos, rest, n) \in Multiples(s)
             /\ Cardinality(At(granted'[h], n)) \in Nat
             /\ UseSlot(pos, rest, n) = Cardinality(At(granted'[h], n)) * s
  <2>1. \A m \in Node : slot[m] \in Multiples(s)
    BY DEF WholeSlots
  <2>2. slot[n] \in Nat
    BY DEF Books, ClusterTypeOK
  <2>3. /\ UseSlot(pos, rest, n) \in Multiples(s)
        /\ NewContainers(pos, rest, s, n) \in Nat
        /\ UseSlot(pos, rest, n) = NewContainers(pos, rest, s, n) * s
    BY <1>1, <2>1, WholeWalk DEF Books
  <2> QED
    BY <1>4, <2>2, <2>3
<1>6. WholeSlots(s)'
  <2> SUFFICES ASSUME NEW n \in Node PROVE slot'[n] \in Multiples(s)
    BY DEF WholeSlots
  <2>1. PICK x \in Multiples(s) : x = slot[n]
    BY DEF WholeSlots
  <2>2. PICK y \in Multiples(s) : y = UseSlot(pos, rest, n)
    BY <1>5
  <2>3. y <= x /\ slot'[n] = x - y
    BY <1>4, <1>5, <2>1, <2>2
  <2> QED
    BY <1>1, <2>3, MultiplesClosed
<1>7. PICK S \in SUBSET Container : S = granted'[h]
  BY <1>2 DEF ClusterTypeOK
<1>8. Cardinality(S) * s = total
  <2>1. PICK used : used = Used(pos, rest)
    OBVIOUS
  <2>2. PICK count : count = CountAt(S)
    OBVIOUS
  <2>3. \A n \in Node : /\ count[n] \in Int /\ used[n] \in Int
                        /\ used[n] = count[n] * s
    BY <1>5, <1>7, <2>1, <2>2 DEF CountAt, Used
  <2>4. SumFunctionOnSet(count, Node) = Cardinality(S)
    BY <2>2, CountByPlace
  <2>5. SumFunctionOnSet(used, Node) = SumFunctionOnSet(count, Node) * s
    BY <1>1, <1>2, <2>3, SumTimes
  <2>6. total <= SumFunctionOnSet(slot, Node)
    BY SumOfSlots DEF Get, Books, BooksBalance
  <2>7. SumFunctionOnSet(used, Node) = total
    BY <1>1, <2>1, <2>6, GetFindsAll DEF Books
  <2> QED
    BY <2>4, <2>5, <2>7
<1>9. /\ demand'[h] = d
      /\ \A g \in Holder : g # h => demand'[g] = demand[g] /\ granted'[g] = granted[g]
  BY GetGrants DEF Get, Books, ClusterTypeOK
<1>10. NoSlotOver(s)'
  BY <1>7, <1>8, <1>9 DEF NoSlotOver, TotalSlot
<1> QED
  BY <1>6, <1>10

\* Put returns whole containers.
LEMMA PutLeavesNothingOver ==
  ASSUME NEW s, WholeSizes(s), Books, WholeSlots(s), NoSlotOver(s), NEW h \in Holder, Put(h)
  PROVE  WholeSlots(s)' /\ NoSlotOver(s)'
<1>1. s \in Nat \ {0} /\ demand[h].slotPerContainer = s
  BY DEF WholeSizes, Books, Demanded, Put
<1>2. WholeSlots(s)'
  <2> SUFFICES ASSUME NEW n \in Node PROVE slot'[n] \in Multiples(s)
    BY DEF WholeSlots
  <2>1. PICK x \in Multiples(s) : x = slot[n]
    BY DEF WholeSlots
  <2>2. PICK k \in Nat : k = Cardinality(OnNode(h, n))
    <3>1. OnNode(h, n) \in SUBSET Container
      BY DEF OnNode, Books, ClusterTypeOK
    <3> QED
      BY <3>1, ContainersFinite
  <2>3. k * s \in Multiples(s)
    BY DEF Multiples
  <2>4. slot'[n] = x + k * s
    BY <1>1, <2>1, <2>2 DEF Put, Books, ClusterTypeOK
  <2> QED
    BY <1>1, <2>3, <2>4, MultiplesClosed
<1>3. /\ granted'[h] = {}
      /\ \A g \in Holder : g # h => demand'[g] = demand[g] /\ granted'[g] = granted[g]
  BY DEF Put, Books, ClusterTypeOK
<1>4. NoSlotOver(s)'
  BY <1>3 DEF NoSlotOver, TotalSlot
<1> QED
  BY <1>2, <1>4

\* So every set has exactly the slots it asked for.
LEMMA NothingOver ==
  ASSUME NEW s, WholeSizes(s)
  PROVE  ClusterSpec => []NoSlotOver(s)
<1>1. ClusterInit => WholeSlots(s) /\ NoSlotOver(s)
  BY DEF ClusterInit, WholeSlots, NoSlotOver, WholeSizes
<1>2. ASSUME Books, WholeSlots(s), NoSlotOver(s), [ClusterNext]_clusterVars
      PROVE  WholeSlots(s)' /\ NoSlotOver(s)'
  <2>1. CASE \E h \in Holder, d \in Demand : granted[h] = {} /\ Get(h, d)
    BY <1>2, <2>1, GetLeavesNothingOver
  <2>2. CASE \E d \in Demand : GetPanics(d)
    BY <1>2, <2>2 DEF GetPanics, WholeSlots, NoSlotOver, TotalSlot
  <2>3. CASE \E h \in Holder : Put(h)
    BY <1>2, <2>3, PutLeavesNothingOver
  <2>4. CASE UNCHANGED clusterVars
    BY <1>2, <2>4 DEF clusterVars, WholeSlots, NoSlotOver, TotalSlot
  <2> QED
    BY <1>2, <2>1, <2>2, <2>3, <2>4 DEF ClusterNext
<1> QED
  BY <1>1, <1>2, BooksKept, PTL DEF ClusterSpec

\* An entry of the first loop and a key of the second have the same container.
LEMMA EntryPlace ==
  ASSUME NEW s \in Nat \ {0}, NEW i \in Nat \ {0}, NEW j \in 1 .. s
  PROVE  ((i - 1) * s + j - 1) \div s = i - 1
<1>1. PICK q \in Nat : q = i - 1
  OBVIOUS
<1>2. PICK a \in Nat : a = q * s
  OBVIOUS
<1>3. PICK k \in Nat : k = a + j - 1
  OBVIOUS
<1>4. PICK c \in Nat : c = k \div s /\ c * s <= k /\ k < c * s + s
  <2>1. k \div s \in Nat /\ (k \div s) * s <= k /\ k < (k \div s) * s + s
    BY SMT
  <2> QED
    BY <2>1
<1>5. c = q
  <2>1. c * s < (q + 1) * s /\ q * s < (c + 1) * s
    BY <1>2, <1>3, <1>4
  <2>2. c < q + 1 /\ q < c + 1
    BY <1>4, <2>1
  <2> QED
    BY <2>2
<1> QED
  BY <1>1, <1>2, <1>3, <1>4, <1>5

ByKey(h, l, n, p, s) ==
  /\ DOMAIN ContainerAddrList(h) = 1 .. p
  /\ \A x \in 1 .. p : /\ (x - 1) \div s + 1 \in 1 .. n
                       /\ ContainerAddrList(h)[x] = l[(x - 1) \div s + 1]

\* The first loop lists the container of every key once, in the order of the keys.
LEMMA AddrListByKey ==
  ASSUME NEW h \in Holder, NEW s \in Nat \ {0}, NEW p \in Nat \ {0}, NEW n \in Nat,
         NEW l, l = list[h], l \in Seq(Address), Len(l) = n,
         SlotsPer(h) = s, demand[h].partition = p, n * s = TotalSlot(demand[h])
  PROVE  ByKey(h, l, n, p, s)
<1> DEFINE seqs == [i \in DOMAIN l |-> [j \in 1 .. Entries(h, i) |-> l[i]]]
           flat == FlattenSeq(seqs)
<1>0. p > 1 => n * s = p
  <2>1. PICK m \in Nat : m = n * s
    OBVIOUS
  <2>2. m = IF p < 2 THEN 2 ELSE p
    BY <2>1 DEF TotalSlot
  <2> QED
    BY <2>1, <2>2
<1>1. DOMAIN l = 1 .. n /\ \A i \in 1 .. n : l[i] \in Address
  OBVIOUS
<1>2. ASSUME NEW i \in 1 .. n
      PROVE  /\ Entries(h, i) \in 0 .. s
             /\ p > 1 => Entries(h, i) = s
             /\ p = 1 => Entries(h, i) = IF i = 1 THEN 1 ELSE 0
  <2>1. Entries(h, i) = IF i - 1 < p THEN IF s < p - (i - 1) THEN s ELSE p - (i - 1) ELSE 0
    BY DEF Entries, Least
  <2>2. ASSUME p > 1
        PROVE  s <= p - (i - 1)
    <3>1. p = n * s
      BY <1>0, <2>2
    <3>2. PICK m \in Nat : n = i + m
      <4>1. n - i \in Nat /\ n = i + (n - i)
        OBVIOUS
      <4> QED
        BY <4>1
    <3>3. PICK t \in Nat : s = t + 1
      <4>1. s - 1 \in Nat /\ s = (s - 1) + 1
        OBVIOUS
      <4> QED
        BY <4>1
    <3>4. PICK r \in Nat : i = r + 1
      <4>1. i - 1 \in Nat /\ i = (i - 1) + 1
        OBVIOUS
      <4> QED
        BY <4>1
    <3>5. p = (r + m) * t + t + r + m + 1
      BY <3>1, <3>2, <3>3, <3>4
    <3>6. (r + m) * t \in Nat
      OBVIOUS
    <3> QED
      BY <3>3, <3>4, <3>5, <3>6
  <2>3. ASSUME p = 1
        PROVE  Entries(h, i) = IF i = 1 THEN 1 ELSE 0
    BY <2>1, <2>3
  <2>4. p - (i - 1) \in Int
    OBVIOUS
  <2> QED
    BY <2>1, <2>2, <2>3, <2>4
<1>3. seqs \in [1 .. n -> Seq(Address)]
  <2>1. ASSUME NEW i \in 1 .. n
        PROVE  [j \in 1 .. Entries(h, i) |-> l[i]] \in Seq(Address)
    <3>1. PICK e \in Nat : e = Entries(h, i)
      BY <1>2
    <3> QED
      BY <1>1, <3>1
  <2> QED
    BY <1>1, <2>1
<1>4. \A i \in 1 .. n : /\ Len(seqs[i]) = Entries(h, i)
                        /\ \A j \in 1 .. Entries(h, i) : seqs[i][j] = l[i]
  <2>1. ASSUME NEW i \in 1 .. n
        PROVE  Len([j \in 1 .. Entries(h, i) |-> l[i]]) = Entries(h, i)
    <3>1. PICK e \in Nat : e = Entries(h, i)
      BY <1>2
    <3> QED
      BY <3>1
  <2> QED
    BY <1>1, <2>1
<1>5. ContainerAddrList(h) = flat
  BY DEF ContainerAddrList
<1> HIDE DEF seqs
<1>6. flat \in Seq(Address) /\ \E ends : Laid(seqs, n, flat, ends)
  BY <1>3, FlattenLays
<1>7. PICK ends : Laid(seqs, n, flat, ends)
  BY <1>6
<1> HIDE DEF flat
<1>8. /\ \A i \in 0 .. n : ends[i] \in Nat
      /\ ends[0] = 0 /\ Len(flat) = ends[n]
      /\ \A i \in 1 .. n : ends[i] = ends[i - 1] + Entries(h, i)
      /\ \A i \in 1 .. n : \A j \in 1 .. Entries(h, i) : flat[ends[i - 1] + j] = l[i]
  <2>1. /\ ends \in [0 .. n -> Nat] /\ ends[0] = 0 /\ Len(flat) = ends[n]
        /\ \A i \in 1 .. n : ends[i] = ends[i - 1] + Len(seqs[i])
        /\ \A i \in 1 .. n : \A j \in 1 .. Len(seqs[i]) : flat[ends[i - 1] + j] = seqs[i][j]
    BY <1>7 DEF Laid
  <2>2. ASSUME NEW i \in 1 .. n
        PROVE  /\ ends[i] = ends[i - 1] + Entries(h, i)
               /\ \A j \in 1 .. Entries(h, i) : flat[ends[i - 1] + j] = l[i]
    <3>1. Len(seqs[i]) = Entries(h, i) /\ \A j \in 1 .. Entries(h, i) : seqs[i][j] = l[i]
      BY <1>4
    <3>2. /\ ends[i] = ends[i - 1] + Len(seqs[i])
          /\ \A j \in 1 .. Len(seqs[i]) : flat[ends[i - 1] + j] = seqs[i][j]
      BY <2>1
    <3> QED
      BY <3>1, <3>2, Zenon
  <2>3. \A i \in 0 .. n : ends[i] \in Nat
    BY <2>1
  <2> QED
    BY <2>1, <2>2, <2>3, Zenon
<1>9. /\ p > 1 => \A i \in 0 .. n : ends[i] = i * s
      /\ ends[n] = p
  <2>1. ASSUME p > 1
        PROVE  /\ \A i \in 0 .. n : ends[i] = i * s
               /\ ends[n] = p
    <3> DEFINE P == { i \in Nat : i <= n => ends[i] = i * s }
    <3>1. 0 \in P
      BY <1>8
    <3>2. ASSUME NEW i \in Nat, i \in P
          PROVE  i + 1 \in P
      <4> SUFFICES ASSUME i + 1 <= n PROVE ends[i + 1] = (i + 1) * s
        OBVIOUS
      <4>1. i + 1 \in 1 .. n /\ (i + 1) - 1 = i
        OBVIOUS
      <4>2. ends[i + 1] = ends[(i + 1) - 1] + Entries(h, i + 1) /\ Entries(h, i + 1) = s
        BY <1>2, <1>8, <2>1, <4>1
      <4>3. ends[i] = i * s
        BY <3>2
      <4>4. ends[i + 1] = i * s + s
        BY <4>1, <4>2, <4>3
      <4> QED
        BY <4>4
    <3>3. Nat \subseteq P
      <4> HIDE DEF P
      <4> QED
        BY <3>1, <3>2, Induction
    <3> QED
      BY <1>0, <2>1, <3>3
  <2>2. ASSUME p = 1
        PROVE  ends[n] = p
    <3>1. n * s = 2
      BY <2>2 DEF TotalSlot
    <3>2. n = 1 \/ n = 2
      <4>1. ASSUME n > 2 PROVE FALSE
        <5>1. n * s >= n
          OBVIOUS
        <5> QED
          BY <3>1, <4>1, <5>1
      <4>2. ASSUME n = 0 PROVE FALSE
        BY <3>1, <4>2
      <4> QED
        BY <4>1, <4>2
    <3>3. ends[1] = 1
      <4>1. 1 \in 1 .. n /\ 1 - 1 = 0
        BY <3>2
      <4>2. ends[1] = ends[1 - 1] + Entries(h, 1) /\ Entries(h, 1) = 1
        BY <1>2, <1>8, <2>2, <4>1
      <4> QED
        BY <1>8, <4>1, <4>2
    <3>4. n = 2 => ends[2] = 1
      <4>1. n = 2 => 2 \in 1 .. n /\ 2 - 1 = 1
        OBVIOUS
      <4>2. n = 2 => ends[2] = ends[2 - 1] + Entries(h, 2) /\ Entries(h, 2) = 0
        BY <1>2, <1>8, <2>2, <4>1
      <4> QED
        BY <3>3, <4>1, <4>2
    <3> QED
      BY <2>2, <3>2, <3>3, <3>4
  <2>3. p > 1 \/ p = 1
    OBVIOUS
  <2> QED
    BY <2>1, <2>2, <2>3
<1>10. DOMAIN flat = 1 .. p
  BY <1>6, <1>8, <1>9
<1>11. ASSUME NEW x \in 1 .. p
       PROVE  (x - 1) \div s + 1 \in 1 .. n /\ flat[x] = l[(x - 1) \div s + 1]
  <2>0. Filled(seqs, n, ends)
    BY <1>3, <1>7, LaidPlace
  <2>1. PICK i \in 1 .. n : \E j \in 1 .. Len(seqs[i]) : x = ends[i - 1] + j
    <3>1. x \in 1 .. ends[n]
      BY <1>9
    <3> QED
      BY <2>0, <3>1, Zenon DEF Filled
  <2>2. PICK j \in 1 .. Entries(h, i) : x = ends[i - 1] + j
    BY <1>4, <2>1
  <2>3. flat[x] = l[i] /\ j \in 1 .. s
    BY <1>2, <1>8, <2>2
  <2>4. ends[i - 1] = (i - 1) * s
    <3>1. CASE p > 1
      <4>1. i - 1 \in 0 .. n
        OBVIOUS
      <4> QED
        BY <1>9, <3>1, <4>1
    <3>2. CASE p = 1
      <4>1. i = 1
        BY <1>2, <2>2, <3>2
      <4> QED
        BY <1>8, <4>1
    <3>3. p > 1 \/ p = 1
      OBVIOUS
    <3> QED
      BY <3>1, <3>2, <3>3
  <2>5. ((i - 1) * s + j - 1) \div s = i - 1
    <3>1. i \in Nat \ {0}
      OBVIOUS
    <3> QED
      BY <2>3, <3>1, EntryPlace, Zenon
  <2>6. x - 1 = (i - 1) * s + j - 1
    BY <2>2, <2>4
  <2>7. (x - 1) \div s = i - 1
    BY <2>5, <2>6
  <2>8. (x - 1) \div s + 1 = i
    BY <2>7
  <2> QED
    BY <2>3, <2>8
<1> QED
  BY <1>5, <1>10, <1>11 DEF ByKey

\* Without SHARE_MEMORY every partition of a set that is up opens one stream for each word
\* that names another key, at a container that has loaded that key, wherever PARTITION and
\* the slots of the hosts are multiples of MAX_SLOT_PER_CONTAINER: the two loops of LoadGraph
\* agree although the first does not advance as it was written to.
THEOREM StreamsReachPartitions ==
  ASSUME NEW s, WholeSizes(s)
  PROVE  Spec => []PushesFindPartition
<1>1. ASSUME Ledger, IInv, NoSlotOver(s), NEW h \in Holder, stage[h] = "up", NEW k \in Key(h)
      PROVE  /\ PushEntries(h, k) = { w + 1 : w \in { v \in Word(h) : StartNode(h, v) # k } }
             /\ \A x \in PushEntries(h, k) : EntryKey(h, x) \in graphs[ContainerAddrList(h)[x]]
  <2>1. granted[h] # {} /\ demand[h] \in Demand
    BY <1>1 DEF IInv, Granting, Ledger, Books, Demanded
  <2>2. s \in Nat \ {0} /\ SlotsPer(h) = s
    BY <2>1 DEF SlotsPer, WholeSizes
  <2>3. PICK p \in Nat \ {0} : p = demand[h].partition
    BY <2>1, ClusterAssumption
  <2>4. PICK l \in Seq(Address) : l = list[h]
    BY <1>1 DEF IInv, StageType
  <2>5. PICK n \in Nat : n = Len(l) /\ DOMAIN l = 1 .. n
    OBVIOUS
  <2>6. n * s = TotalSlot(demand[h])
    <3>1. n = Cardinality(granted[h])
      BY <1>1, <2>4, <2>5 DEF IInv, ListsGrant
    <3> QED
      BY <1>1, <2>1, <3>1 DEF NoSlotOver
  <2>7. /\ DOMAIN ContainerAddrList(h) = 1 .. p
        /\ \A x \in 1 .. p : /\ (x - 1) \div s + 1 \in 1 .. n
                             /\ ContainerAddrList(h)[x] = l[(x - 1) \div s + 1]
    <3>1. Len(l) = n /\ demand[h].partition = p
      BY <2>3, <2>5
    <3> QED
      BY <2>2, <2>4, <2>6, <3>1, AddrListByKey DEF ByKey
  <2>8. Word(h) = 0 .. p - 1
    BY <2>3 DEF Word
  <2>9. \A x \in 1 .. p : x - 1 \in Word(h) /\ EntryKey(h, x) = StartNode(h, x - 1)
    BY <2>8 DEF EntryKey
  <2> DEFINE Others == { v \in Word(h) : StartNode(h, v) # k }
  <2>10. PushEntries(h, k) = { w + 1 : w \in Others }
    <3>1. \A x : x \in PushEntries(h, k) <=> x \in 1 .. p /\ StartNode(h, x - 1) # k
      BY <2>7, <2>9 DEF PushEntries
    <3>2. \A x : x \in 1 .. p /\ StartNode(h, x - 1) # k <=> \E w \in Others : x = w + 1
      <4>1. ASSUME NEW x \in 1 .. p, StartNode(h, x - 1) # k
            PROVE  \E w \in Others : x = w + 1
        <5>1. PICK w \in Word(h) : w = x - 1
          BY <2>9
        <5>2. w \in Others
          BY <4>1, <5>1
        <5>3. x = w + 1
          BY <5>1
        <5> QED
          BY <5>2, <5>3
      <4>2. ASSUME NEW w \in Others
            PROVE  w + 1 \in 1 .. p /\ StartNode(h, (w + 1) - 1) # k
        <5>1. w \in 0 .. p - 1 /\ (w + 1) - 1 = w
          BY <2>8
        <5> QED
          BY <5>1
      <4> QED
        BY <4>1, <4>2
    <3> HIDE DEF Others
    <3> QED
      BY <3>1, <3>2
  <2>11. ASSUME NEW x \in 1 .. p
         PROVE  EntryKey(h, x) \in graphs[ContainerAddrList(h)[x]]
    <3>1. PICK i \in 1 .. n : i = (x - 1) \div s + 1
      BY <2>7
    <3>2. ContainerAddrList(h)[x] = l[i]
      BY <2>7, <3>1
    <3>3. x - 1 \in Word(h) /\ (x - 1) \div s = i - 1
      <4>1. PICK c \in Int : c = (x - 1) \div s
        BY <2>2, SMT
      <4>2. c = i - 1
        BY <3>1, <4>1
      <4> QED
        BY <2>9, <4>1, <4>2
    <3>4. x - 1 \in WordsOf(h, i)
      BY <2>2, <3>3 DEF WordsOf
    <3>5. loading[h] = {} /\ Placed(h)
      BY <1>1 DEF IInv, Loading, LoadingAt
    <3>6. StartNode(h, x - 1) \in graphs[l[i]]
      BY <2>4, <2>5, <3>4, <3>5 DEF Placed
    <3> QED
      BY <2>9, <3>2, <3>6
  <2>12. PushEntries(h, k) \subseteq 1 .. p
    BY <2>7 DEF PushEntries
  <2> QED
    BY <2>10, <2>11, <2>12
<1>2. Ledger /\ IInv /\ NoSlotOver(s) => PushesFindPartition
  BY <1>1 DEF PushesFindPartition
<1> QED
  BY <1>2, SetsInvariant, SetsUseLedger, NothingOver, PTL
=============================================================================
