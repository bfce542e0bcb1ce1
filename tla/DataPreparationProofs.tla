------------------------- MODULE DataPreparationProofs -------------------------
(***************************************************************************)
(* Theorems about DataPreparation: that the hashed file is the text with   *)
(* its vertices numbered in order, that the parts of a split cover every   *)
(* vertex once and are no more than PARTITION, that controller and         *)
(* executors cut the graph alike, and that every edge of the text reaches  *)
(* the executor of its vertex as often as it is in the text.               *)
(***************************************************************************)
EXTENDS DataPreparation, FiniteSums, FiniteSetTheorems, SequenceTheorems, TLAPS

-----------------------------------------------------------------------------
(***************************************************************************)
(* What hash.go reads.                                                     *)
(***************************************************************************)

\* The complete lines but the comments are edges.
LEMMA EdgesRead ==
  ASSUME NEW f \in RawFile
  PROVE  EdgesOf(f) \in Seq(Nat \X Nat)
<1> DEFINE complete == IF f.terminated THEN f.lines ELSE Front(f.lines)
           N == Len(complete)
           Is(e) == e = [i \in 0 .. N |->
                           IF i = 0 THEN << >>
                           ELSE IF complete[i] = Comment THEN e[i - 1]
                           ELSE Append(e[i - 1], complete[i])]
           edges == CHOOSE e : Is(e)
<1>1. complete \in Seq((Nat \X Nat) \cup {Comment})
  BY DataAssumption DEF Front
<1>2. N \in Nat /\ \A i \in 1 .. N : complete[i] \in (Nat \X Nat) \cup {Comment}
  BY <1>1
<1>3. EdgesOf(f) = edges[N]
  BY DEF EdgesOf
<1> HIDE DEF N, complete
<1> DEFINE V == Seq(Nat \X Nat)
           Value(e, i) == IF i = 0 THEN << >>
                          ELSE IF complete[i] = Comment THEN e[i - 1]
                          ELSE Append(e[i - 1], complete[i])
           step == [e \in [0 .. N -> V] |-> [i \in 0 .. N |-> Value(e, i)]]
           rank == [i \in 0 .. N |-> i]
           first == [i \in 0 .. N |-> << >>]
<1>4. ASSUME NEW e \in [0 .. N -> V], NEW i \in 0 .. N
      PROVE  Value(e, i) \in V
  <2>1. CASE i = 0
    BY <2>1
  <2>2. CASE i # 0
    <3>1. i - 1 \in 0 .. N /\ i \in 1 .. N
      BY <1>2, <2>2
    <3>2. e[i - 1] \in V
      BY <3>1
    <3>3. complete[i] = Comment \/ complete[i] \in Nat \X Nat
      BY <1>2, <3>1
    <3> QED
      BY <2>2, <3>2, <3>3
  <2> QED
    BY <2>1, <2>2
<1>5. step \in [[0 .. N -> V] -> [0 .. N -> V]]
  <2> HIDE DEF Value, V
  <2> QED
    BY <1>4
<1>6. rank \in [0 .. N -> 0 .. N] /\ first \in [0 .. N -> V]
  <2>1. << >> \in V
    OBVIOUS
  <2> HIDE DEF V
  <2> QED
    BY <2>1
<1>7. Determined(step, 0 .. N, V, rank)
  <2> SUFFICES ASSUME NEW e \in [0 .. N -> V], NEW k \in [0 .. N -> V], NEW i \in 0 .. N,
                      \A t \in 0 .. N : rank[t] < rank[i] => e[t] = k[t]
               PROVE  step[e][i] = step[k][i]
    BY DEF Determined
  <2>1. Value(e, i) = Value(k, i)
    <3>1. CASE i = 0
      BY <3>1
    <3>2. CASE i # 0
      <4>1. i - 1 \in 0 .. N /\ i - 1 < i
        BY <1>2, <3>2
      <4>2. e[i - 1] = k[i - 1]
        BY <4>1
      <4> QED
        BY <3>2, <4>2
    <3> QED
      BY <3>1, <3>2
  <2> HIDE DEF Value, V
  <2> QED
    BY <2>1
<1>8. PICK e : Fixed(step, 0 .. N, V, e)
  <2> HIDE DEF step, rank, first, V
  <2> QED
    BY <1>2, <1>5, <1>6, <1>7, FixedPoint
<1>9. Is(e)
  <2>1. e \in [0 .. N -> V] /\ step[e] = e
    BY <1>8 DEF Fixed
  <2>2. step[e] = [i \in 0 .. N |-> Value(e, i)]
    BY <2>1
  <2> HIDE DEF step
  <2> QED
    BY <2>1, <2>2
<1>10. Is(edges)
  <2> HIDE DEF Is
  <2> QED
    BY <1>9
<1> HIDE DEF edges
<1>11. \A i \in 0 .. N : edges[i] = Value(edges, i)
  BY <1>10
<1> DEFINE P == { i \in Nat : i <= N => edges[i] \in V }
<1> HIDE DEF V
<1>12. 0 \in P
  <2>1. 0 \in 0 .. N
    BY <1>2
  <2>2. edges[0] = << >>
    BY <1>11, <2>1
  <2>3. << >> \in V
    BY DEF V
  <2> QED
    BY <2>2, <2>3
<1>13. ASSUME NEW i \in Nat, i \in P
       PROVE  i + 1 \in P
  <2> SUFFICES ASSUME i + 1 <= N PROVE edges[i + 1] \in V
    OBVIOUS
  <2>1. edges[i] \in V
    BY <1>2, <1>13
  <2>2. i + 1 \in 1 .. N /\ i + 1 \in 0 .. N /\ i + 1 # 0 /\ (i + 1) - 1 = i
    BY <1>2
  <2>3. edges[i + 1] = IF complete[i + 1] = Comment THEN edges[i]
                       ELSE Append(edges[i], complete[i + 1])
    BY <1>11, <2>2
  <2>4. complete[i + 1] = Comment \/ complete[i + 1] \in Nat \X Nat
    BY <1>2, <2>2
  <2> QED
    BY <2>1, <2>3, <2>4 DEF V
<1>14. N \in P
  <2> HIDE DEF P
  <2> QED
    BY <1>2, <1>12, <1>13, Induction
<1> QED
  BY <1>2, <1>3, <1>14 DEF V

\* The ids of a text are finitely many numbers.
LEMMA IdsFinite ==
  ASSUME NEW edges \in Seq(Nat \X Nat)
  PROVE  /\ Ids(edges) \in SUBSET Nat
         /\ IsFiniteSet(Ids(edges))
         /\ \A i \in DOMAIN edges : edges[i][1] \in Ids(edges) /\ edges[i][2] \in Ids(edges)
<1>1. PICK n \in Nat : n = Len(edges) /\ DOMAIN edges = 1 .. n
  OBVIOUS
<1>2. \A i \in 1 .. n : edges[i] \in Nat \X Nat
  BY <1>1
<1>3. Ids(edges) = { edges[i][1] : i \in 1 .. n } \cup { edges[i][2] : i \in 1 .. n }
  <2>1. ToSet(edges) = { edges[i] : i \in 1 .. n }
    BY <1>1 DEF ToSet
  <2>2. \A x : x \in Ids(edges) <=> \E e \in ToSet(edges) : x = e[1] \/ x = e[2]
    BY DEF Ids
  <2>3. \A x : x \in Ids(edges) <=> \E i \in 1 .. n : x = edges[i][1] \/ x = edges[i][2]
    BY <2>1, <2>2
  <2> QED
    BY <2>3
<1>4. IsFiniteSet(1 .. n)
  BY FS_Interval
<1>5. IsFiniteSet({ edges[i][1] : i \in 1 .. n })
  <2>1. [i \in 1 .. n |-> edges[i][1]] \in Surjection(1 .. n, { edges[i][1] : i \in 1 .. n })
    BY DEF Surjection
  <2> QED
    BY <1>4, <2>1, FS_Surjection
<1>6. IsFiniteSet({ edges[i][2] : i \in 1 .. n })
  <2>1. [i \in 1 .. n |-> edges[i][2]] \in Surjection(1 .. n, { edges[i][2] : i \in 1 .. n })
    BY DEF Surjection
  <2> QED
    BY <1>4, <2>1, FS_Surjection
<1>7. IsFiniteSet(Ids(edges))
  BY <1>3, <1>5, <1>6, FS_Union, ZenonT(40)
<1>8. Ids(edges) \in SUBSET Nat
  BY <1>2, <1>3
<1> QED
  BY <1>1, <1>3, <1>7, <1>8

\* A finite set of numbers has a largest one.
LEMMA LargestIs ==
  ASSUME NEW S \in SUBSET Nat, IsFiniteSet(S), S # {}
  PROVE  Largest(S) \in S /\ \A y \in S : y <= Largest(S)
<1> DEFINE Has(T) == T = {} \/ \E x \in T : \A y \in T : y <= x
           Q == { T \in SUBSET S : Has(T) }
<1>1. {} \in Q
  OBVIOUS
<1>2. ASSUME NEW T \in SUBSET S, NEW x \in S \ T, T \in Q
      PROVE  T \cup {x} \in Q
  <2>1. CASE T = {}
    <3>1. Has(T \cup {x})
      BY <2>1
    <3> QED
      BY <3>1
  <2>2. CASE T # {}
    <3>1. PICK t \in T : \A y \in T : y <= t
      BY <1>2, <2>2
    <3>2. t \in Nat /\ x \in Nat /\ \A y \in T : y \in Nat
      OBVIOUS
    <3>3. CASE x <= t
      <4>1. Has(T \cup {x})
        BY <3>1, <3>2, <3>3
      <4> QED
        BY <4>1
    <3>4. CASE ~ (x <= t)
      <4>1. Has(T \cup {x})
        BY <3>1, <3>2, <3>4
      <4> QED
        BY <4>1
    <3> QED
      BY <3>3, <3>4
  <2> QED
    BY <2>1, <2>2
<1>3. S \in Q
  <2> HIDE DEF Q
  <2> QED
    BY <1>1, <1>2, SetInduction
<1>4. \E x \in S : \A y \in S : y <= x
  BY <1>3
<1> QED
  BY <1>4 DEF Largest

UpTo(S, i) == { j \in S : j <= i }
Below(S, i) == { j \in S : j < i }

\* One more id is counted where an id is.
LEMMA CountGrows ==
  ASSUME NEW S \in SUBSET Nat, IsFiniteSet(S), NEW i \in Nat
  PROVE  /\ IsFiniteSet(UpTo(S, i)) /\ Count(UpTo(S, i)) \in Nat
         /\ IsFiniteSet(Below(S, i)) /\ Count(Below(S, i)) \in Nat
         /\ Count(UpTo(S, i)) = Count(Below(S, i)) + (IF i \in S THEN 1 ELSE 0)
         /\ i > 0 => Below(S, i) = UpTo(S, i - 1)
         /\ i = 0 => Below(S, i) = {}
         /\ i \in S => Count(Below(S, i)) < Count(S)
<1>1. UpTo(S, i) \in SUBSET S /\ Below(S, i) \in SUBSET S
  BY DEF UpTo, Below
<1>2. /\ IsFiniteSet(UpTo(S, i)) /\ Count(UpTo(S, i)) \in Nat
      /\ IsFiniteSet(Below(S, i)) /\ Count(Below(S, i)) \in Nat
  BY <1>1, FS_Subset, FS_CardinalityType DEF Count
<1>0. \A j \in S : j \in Nat
  OBVIOUS
<1>3. UpTo(S, i) = IF i \in S THEN Below(S, i) \cup {i} ELSE Below(S, i)
  <2>1. \A j \in S : j <= i <=> j < i \/ j = i
    BY <1>0
  <2> QED
    BY <2>1, Zenon DEF UpTo, Below
<1>4. i \notin Below(S, i)
  BY DEF Below
<1>5. Count(UpTo(S, i)) = Count(Below(S, i)) + (IF i \in S THEN 1 ELSE 0)
  <2>1. Cardinality(Below(S, i) \cup {i}) = Cardinality(Below(S, i)) + 1
    BY <1>2, <1>4, FS_AddElement
  <2> QED
    BY <1>2, <1>3, <2>1 DEF Count
<1>6. i > 0 => Below(S, i) = UpTo(S, i - 1)
  <2>1. i > 0 => \A j \in S : j < i <=> j <= i - 1
    BY <1>0
  <2> QED
    BY <2>1, Zenon DEF UpTo, Below
<1>7. i = 0 => Below(S, i) = {}
  <2>1. i = 0 => \A j \in S : ~ (j < i)
    BY <1>0
  <2> QED
    BY <2>1, Zenon DEF Below
<1>8. i \in S => Count(Below(S, i)) < Count(S)
  <2>1. Count(UpTo(S, i)) <= Count(S) /\ Count(S) \in Nat
    BY <1>1, FS_Subset, FS_CardinalityType DEF Count
  <2> QED
    BY <1>2, <1>5, <2>1
<1> QED
  BY <1>2, <1>5, <1>6, <1>7, <1>8

\* The table holds the place of every id among the ids.
LEMMA HashTableRanks ==
  ASSUME NEW edges \in Seq(Nat \X Nat), Count(Ids(edges)) <= Word
  PROVE  \A i \in Ids(edges) : /\ HashTable(edges)[i] = Count(Below(Ids(edges), i))
                               /\ HashTable(edges)[i] \in 0 .. Count(Ids(edges)) - 1
<1> DEFINE S == Ids(edges)
           mx == Largest(S \cup {0})
           Value(e, i) == (IF i \in S THEN 1 ELSE 0) + (IF Summed(i) THEN e[i - 1] ELSE 0)
           Is(e) == e = [i \in 0 .. mx |-> Value(e, i)]
           sum == CHOOSE e : Is(e)
           total == [i \in 0 .. mx |-> Count(UpTo(S, i))]
<1>1. HashTable(edges) = [i \in 0 .. mx |-> Rank(sum[i])]
  BY DEF HashTable
<1>2. S \in SUBSET Nat /\ IsFiniteSet(S)
  BY IdsFinite
<1>3. mx \in Nat /\ \A i \in S : i \in 0 .. mx
  <2>1. IsFiniteSet(S \cup {0})
    BY <1>2, FS_AddElement
  <2>2. S \cup {0} \in SUBSET Nat /\ S \cup {0} # {}
    BY <1>2
  <2>3. mx \in S \cup {0} /\ \A y \in S \cup {0} : y <= mx
    BY <2>1, <2>2, LargestIs
  <2> HIDE DEF mx, S
  <2>4. \A i \in S : i \in Nat
    BY <1>2
  <2> QED
    BY <2>3, <2>4
<1> HIDE DEF mx
<1>4. ASSUME NEW i \in 0 .. mx
      PROVE  total[i] = Value(total, i)
  <2>1. /\ Count(UpTo(S, i)) = Count(Below(S, i)) + (IF i \in S THEN 1 ELSE 0)
        /\ Count(Below(S, i)) \in Nat
        /\ i > 0 => Below(S, i) = UpTo(S, i - 1)
        /\ i = 0 => Below(S, i) = {}
    <3> HIDE DEF S
    <3>1. i \in Nat
      BY <1>3
    <3> QED
      BY <1>2, <3>1, CountGrows
  <2>2. total[i] = Count(UpTo(S, i))
    OBVIOUS
  <2>3. CASE i > 0
    <3>1. i - 1 \in 0 .. mx
      BY <1>3, <2>3
    <3>2. total[i - 1] = Count(UpTo(S, i - 1))
      BY <3>1
    <3>3. total[i - 1] = Count(Below(S, i))
      BY <2>1, <2>3, <3>2
    <3> HIDE DEF total, S
    <3> QED
      BY <2>1, <2>2, <2>3, <3>3 DEF Summed
  <2>4. CASE i = 0
    <3>1. Count({}) = 0
      BY FS_EmptySet DEF Count
    <3> HIDE DEF total, S
    <3> QED
      <4>1. ~ (i > 0)
        BY <2>4
      <4>2. Count(Below(S, i)) = 0
        BY <2>1, <2>4, <3>1
      <4>3. total[i] = IF i \in S THEN 1 ELSE 0
        BY <2>1, <2>2, <4>2
      <4> QED
        BY <4>1, <4>3 DEF Summed
  <2> QED
    BY <1>3, <2>3, <2>4
<1>5. Is(total)
  <2> HIDE DEF Value
  <2>1. total = [i \in 0 .. mx |-> total[i]]
    OBVIOUS
  <2> HIDE DEF total
  <2> QED
    BY <1>4, <2>1
<1>6. Is(sum)
  <2> HIDE DEF Is
  <2> QED
    BY <1>5
<1> HIDE DEF sum
<1>7. \A i \in 0 .. mx : sum[i] = Value(sum, i)
  BY <1>6
<1> DEFINE P == { i \in Nat : i <= mx => sum[i] = total[i] }
<1> HIDE DEF total, S
<1>8. 0 \in P
  <2>1. 0 \in 0 .. mx
    BY <1>3
  <2>2. sum[0] = Value(sum, 0) /\ total[0] = Value(total, 0)
    BY <1>4, <1>7, <2>1
  <2>3. Value(sum, 0) = Value(total, 0)
    BY DEF Summed
  <2> QED
    BY <2>2, <2>3
<1>9. ASSUME NEW i \in Nat, i \in P
      PROVE  i + 1 \in P
  <2> SUFFICES ASSUME i + 1 <= mx PROVE sum[i + 1] = total[i + 1]
    OBVIOUS
  <2>1. i + 1 \in 0 .. mx /\ (i + 1) - 1 = i
    BY <1>3
  <2>2. sum[i + 1] = Value(sum, i + 1) /\ total[i + 1] = Value(total, i + 1)
    BY <1>4, <1>7, <2>1
  <2>3. sum[i] = total[i]
    BY <1>3, <1>9
  <2>4. sum[(i + 1) - 1] = total[(i + 1) - 1]
    BY <2>1, <2>3
  <2> QED
    BY <2>2, <2>4
<1>10. \A i \in 0 .. mx : sum[i] = Count(UpTo(S, i))
  <2>1. Nat \subseteq P
    <3> HIDE DEF P
    <3> QED
      BY <1>8, <1>9, Induction
  <2>2. \A i \in 0 .. mx : total[i] = Count(UpTo(S, i))
    BY DEF total
  <2> QED
    BY <1>3, <2>1, <2>2
<1>11. ASSUME NEW i \in S
       PROVE  /\ HashTable(edges)[i] = Count(Below(S, i))
              /\ HashTable(edges)[i] \in 0 .. Count(S) - 1
  <2>1. i \in 0 .. mx /\ i \in Nat
    BY <1>2, <1>3
  <2>2. /\ Count(UpTo(S, i)) = Count(Below(S, i)) + 1
        /\ Count(Below(S, i)) \in Nat
        /\ Count(Below(S, i)) < Count(S)
    BY <1>2, <2>1, CountGrows
  <2>3. PICK b \in Nat : b = Count(Below(S, i))
    BY <2>2
  <2>4. Count(S) \in Nat /\ Count(S) <= Word
    BY <1>2, FS_CardinalityType DEF Count, S
  <2>5. b < Word
    BY <2>2, <2>3, <2>4, DataAssumption
  <2>6. b % Word = b
    BY <2>5, DataAssumption
  <2>7. sum[i] - 1 = b
    BY <1>10, <2>1, <2>2, <2>3
  <2>8. HashTable(edges)[i] = b
    BY <1>1, <2>1, <2>6, <2>7 DEF Rank
  <2> QED
    BY <2>2, <2>3, <2>4, <2>8
<1> QED
  BY <1>11 DEF S

-----------------------------------------------------------------------------
(***************************************************************************)
(* Degrees and offsets.                                                    *)
(***************************************************************************)
SumOf(f, S) == SumFunctionOnSet(f, S)
Times(f, I, v) == Cardinality({ i \in I : f[i] = v })

\* The members of a finite set are those that f sends to one value or another.
LEMMA Fibers ==
  ASSUME NEW I, IsFiniteSet(I), NEW V, IsFiniteSet(V), NEW f, \A i \in I : f[i] \in V
  PROVE  /\ \A v \in V : Times(f, I, v) \in Nat
         /\ SumOf([v \in V |-> Times(f, I, v)], V) = Cardinality(I)
<1> DEFINE Of(T) == [v \in V |-> Times(f, T, v)]
           Q == { T \in SUBSET I : SumOf(Of(T), V) = Cardinality(T) }
<1>1. ASSUME NEW T \in SUBSET I
      PROVE  \A v \in V : /\ Of(T)[v] = Times(f, T, v) /\ Times(f, T, v) \in Nat
                          /\ IsFiniteSet({ i \in T : f[i] = v })
  <2> SUFFICES ASSUME NEW v \in V
               PROVE  Times(f, T, v) \in Nat /\ IsFiniteSet({ i \in T : f[i] = v })
    OBVIOUS
  <2>1. { i \in T : f[i] = v } \in SUBSET I
    OBVIOUS
  <2> QED
    BY <2>1, FS_Subset, FS_CardinalityType DEF Times
<1>2. {} \in Q
  <2>1. \A v \in V : Of({})[v] = 0
    <3>1. \A v \in V : { i \in {} : f[i] = v } = {}
      OBVIOUS
    <3>2. Cardinality({}) = 0
      BY FS_EmptySet
    <3> QED
      BY <3>1, <3>2 DEF Times
  <2>2. SumOf(Of({}), V) = SumOf(Of({}), {})
    <3> HIDE DEF Of
    <3> QED
      BY <2>1, SumZeros DEF SumOf
  <2>3. SumOf(Of({}), {}) = 0
    BY SumEmpty DEF SumOf
  <2> QED
    BY <2>2, <2>3, FS_EmptySet
<1>3. ASSUME NEW T \in SUBSET I, NEW x \in I \ T, T \in Q
      PROVE  T \cup {x} \in Q
  <2>1. PICK y \in V : y = f[x]
    OBVIOUS
  <2>2. PICK g : g = Of(T)
    OBVIOUS
  <2>3. PICK k : k = Of(T \cup {x})
    OBVIOUS
  <2>4. T \cup {x} \in SUBSET I /\ IsFiniteSet(T)
    BY FS_Subset
  <2>5. \A v \in V : g[v] \in Int /\ k[v] \in Int /\ g[v] = Times(f, T, v) /\ k[v] = Times(f, T \cup {x}, v)
    <3>1. \A v \in V : Times(f, T, v) \in Nat /\ g[v] = Times(f, T, v)
      BY <1>1, <2>2
    <3>2. \A v \in V : Times(f, T \cup {x}, v) \in Nat
      BY <1>1, <2>4
    <3>3. \A v \in V : k[v] = Times(f, T \cup {x}, v)
      BY <2>3
    <3>4. \A z \in Nat : z \in Int
      OBVIOUS
    <3> QED
      BY <3>1, <3>2, <3>3, <3>4, Zenon
  <2>6. k[y] = g[y] + 1
    <3>1. { i \in T \cup {x} : f[i] = y } = { i \in T : f[i] = y } \cup {x}
      BY <2>1
    <3>2. IsFiniteSet({ i \in T : f[i] = y }) /\ x \notin { i \in T : f[i] = y }
      BY <1>1
    <3>3. Cardinality({ i \in T : f[i] = y } \cup {x}) = Cardinality({ i \in T : f[i] = y }) + 1
      BY <3>2, FS_AddElement
    <3> QED
      BY <2>5, <3>1, <3>3 DEF Times
  <2>7. \A v \in V \ {y} : k[v] = g[v]
    <3> SUFFICES ASSUME NEW v \in V \ {y} PROVE Times(f, T \cup {x}, v) = Times(f, T, v)
      BY <2>5
    <3>1. { i \in T \cup {x} : f[i] = v } = { i \in T : f[i] = v }
      BY <2>1
    <3> QED
      BY <3>1 DEF Times
  <2>8. SumOf(k, V) = SumOf(g, V) - g[y] + k[y]
    BY <2>5, <2>7, SumChange DEF SumOf
  <2>9. SumOf(g, V) = Cardinality(T) /\ Cardinality(T) \in Nat
    BY <1>3, <2>2, <2>4, FS_CardinalityType
  <2>10. Cardinality(T \cup {x}) = Cardinality(T) + 1
    BY <2>4, FS_AddElement
  <2>11. SumOf(k, V) = Cardinality(T \cup {x})
    BY <2>5, <2>6, <2>8, <2>9, <2>10
  <2> QED
    BY <2>3, <2>4, <2>11
<1>4. I \in Q
  <2> HIDE DEF Q
  <2> QED
    BY <1>2, <1>3, SetInduction
<1> QED
  BY <1>1, <1>4

\* An offset is the sum of the degrees before it.
IsOffsets(offset, degree) ==
  /\ offset \in Seq(Nat) /\ Len(offset) = TotalNode + 1
  /\ offset[1] = 0
  /\ \A v \in Nodes : offset[v + 2] = offset[v + 1] + degree[v]
  /\ offset[TotalNode + 1] = SumOf(degree, Nodes)

\* What txt2csr writes as offsets are the sums of the degrees.
LEMMA OffsetsSum ==
  ASSUME TotalNode \in Nat, NEW degree \in [Nodes -> Nat]
  PROVE  IsOffsets(Offsets(degree), degree)
<1>1. PICK N \in Nat : N = TotalNode
  OBVIOUS
<1> DEFINE Value(e, v) == IF v = 0 THEN 0 ELSE e[v - 1] + degree[v - 1]
           Is(e) == e = [v \in 0 .. N |-> Value(e, v)]
           sum == CHOOSE e : Is(e)
           total == [v \in 0 .. N |-> SumOf(degree, 0 .. v - 1)]
           offset == [i \in 1 .. N + 1 |-> sum[i - 1]]
<1>2. Offsets(degree) = offset
  BY <1>1 DEF Offsets
<1>3. \A v \in 0 .. N - 1 : degree[v] \in Nat
  BY <1>1 DEF Nodes
<1>4. ASSUME NEW v \in 0 .. N
      PROVE  /\ total[v] \in Nat
             /\ total[v] = Value(total, v)
             /\ total[v] = SumOf(degree, 0 .. v - 1)
  <2>1. total[v] = SumOf(degree, 0 .. v - 1)
    OBVIOUS
  <2>2. IsFiniteSet(0 .. v - 1) /\ \A x \in 0 .. v - 1 : degree[x] \in Nat
    BY <1>3, FS_Interval
  <2>3. total[v] \in Nat
    BY <2>1, <2>2, SumType DEF SumOf
  <2>4. CASE v = 0
    <3>1. 0 .. v - 1 = {}
      BY <2>4
    <3>2. SumOf(degree, {}) = 0
      BY SumEmpty DEF SumOf
    <3> HIDE DEF total
    <3> QED
      BY <2>1, <2>3, <2>4, <3>1, <3>2
  <2>5. CASE v # 0
    <3>1. /\ v - 1 \in 0 .. N /\ v - 1 \in 0 .. N - 1 /\ v - 1 \notin 0 .. (v - 1) - 1
          /\ 0 .. v - 1 = (0 .. (v - 1) - 1) \cup {v - 1}
      BY <2>5
    <3>2. IsFiniteSet(0 .. (v - 1) - 1) /\ \A x \in (0 .. (v - 1) - 1) \cup {v - 1} : degree[x] \in Int
      BY <1>3, <3>1, FS_Interval
    <3>3. SumOf(degree, (0 .. (v - 1) - 1) \cup {v - 1}) = degree[v - 1] + SumOf(degree, 0 .. (v - 1) - 1)
      BY <3>1, <3>2, SumAdd DEF SumOf
    <3>4. total[v - 1] = SumOf(degree, 0 .. (v - 1) - 1) /\ total[v - 1] \in Nat
      <4>1. total[v - 1] = SumOf(degree, 0 .. (v - 1) - 1)
        BY <3>1
      <4>2. IsFiniteSet(0 .. (v - 1) - 1) /\ \A x \in 0 .. (v - 1) - 1 : degree[x] \in Nat
        BY <1>3, <3>2
      <4> QED
        BY <4>1, <4>2, SumType DEF SumOf
    <3>5. total[v] = total[v - 1] + degree[v - 1]
      <4> HIDE DEF total
      <4>1. degree[v - 1] \in Nat
        BY <1>3, <3>1
      <4>2. total[v] = degree[v - 1] + total[v - 1]
        BY <2>1, <3>1, <3>3, <3>4, Zenon
      <4> QED
        BY <3>4, <4>1, <4>2
    <3> HIDE DEF total
    <3> QED
      BY <2>1, <2>3, <2>5, <3>5
  <2> QED
    BY <2>4, <2>5
<1>5. Is(total)
  <2> HIDE DEF Value
  <2>1. total = [v \in 0 .. N |-> total[v]]
    OBVIOUS
  <2> HIDE DEF total
  <2> QED
    BY <1>4, <2>1
<1>6. Is(sum)
  <2> HIDE DEF Is
  <2> QED
    BY <1>5
<1> HIDE DEF sum, total
<1>7. \A v \in 0 .. N : sum[v] = Value(sum, v)
  BY <1>6
<1> DEFINE P == { v \in Nat : v <= N => sum[v] = total[v] }
<1>8. 0 \in P
  <2>1. 0 \in 0 .. N
    OBVIOUS
  <2> QED
    BY <1>4, <1>7, <2>1
<1>9. ASSUME NEW v \in Nat, v \in P
      PROVE  v + 1 \in P
  <2> SUFFICES ASSUME v + 1 <= N PROVE sum[v + 1] = total[v + 1]
    OBVIOUS
  <2>1. v + 1 \in 0 .. N /\ (v + 1) - 1 = v /\ v + 1 # 0
    OBVIOUS
  <2>2. sum[v + 1] = sum[v] + degree[v] /\ total[v + 1] = total[v] + degree[v]
    BY <1>4, <1>7, <2>1
  <2>3. sum[v] = total[v]
    BY <1>9, <2>1
  <2> QED
    BY <2>2, <2>3
<1>10. \A v \in 0 .. N : sum[v] = total[v]
  <2>1. Nat \subseteq P
    <3> HIDE DEF P
    <3> QED
      BY <1>8, <1>9, Induction
  <2> QED
    BY <2>1
<1>11. \A i \in 1 .. N + 1 : offset[i] = total[i - 1] /\ total[i - 1] \in Nat
  BY <1>4, <1>10
<1>12. offset \in Seq(Nat) /\ Len(offset) = N + 1
  <2>1. \A i \in 1 .. N + 1 : sum[i - 1] \in Nat
    BY <1>4, <1>10
  <2> QED
    BY <2>1
<1> HIDE DEF offset
<1>13. offset[1] = 0
  <2>1. 1 \in 1 .. N + 1 /\ 1 - 1 = 0 /\ 0 \in 0 .. N
    OBVIOUS
  <2>2. total[0] = 0
    BY <1>4, <2>1
  <2> QED
    BY <1>11, <2>1, <2>2
<1>14. ASSUME NEW v \in Nodes
       PROVE  offset[v + 2] = offset[v + 1] + degree[v]
  <2>1. v \in Nat /\ v <= N - 1
    BY <1>1 DEF Nodes
  <2>2. /\ v + 1 \in 0 .. N /\ v + 1 # 0 /\ (v + 1) - 1 = v
        /\ v + 2 \in 1 .. N + 1 /\ (v + 2) - 1 = v + 1
        /\ v + 1 \in 1 .. N + 1
    BY <2>1
  <2>3. offset[v + 2] = total[v + 1] /\ offset[v + 1] = total[v]
    BY <1>11, <2>2
  <2>4. total[v + 1] = total[v] + degree[v]
    BY <1>4, <2>2
  <2> QED
    BY <2>3, <2>4
<1>15. offset[N + 1] = SumOf(degree, Nodes)
  <2>1. N + 1 \in 1 .. N + 1 /\ (N + 1) - 1 = N /\ N \in 0 .. N
    OBVIOUS
  <2> QED
    BY <1>1, <1>4, <1>11, <2>1 DEF Nodes
<1> QED
  BY <1>1, <1>2, <1>12, <1>13, <1>14, <1>15 DEF IsOffsets

\* Both tools count every line twice, an undirected one four times.
EdgeEnds(directed) == Len(hashed) * (IF directed THEN 1 ELSE 2) * 2
Degree(directed) == [v \in Nodes |-> InDegree(directed)[v] + OutDegree(directed)[v]]

\* Each edge has two ends, so the degrees of all vertices add up to EdgeEnds.
LEMMA DegreeSum ==
  ASSUME TotalNode \in Nat, hashed \in Seq(Nodes \X Nodes), NEW directed \in BOOLEAN
  PROVE  /\ InDegree(directed) \in [Nodes -> Nat]
         /\ OutDegree(directed) \in [Nodes -> Nat]
         /\ Degree(directed) \in [Nodes -> Nat]
         /\ SumOf(Degree(directed), Nodes) = EdgeEnds(directed)
<1>1. PICK n \in Nat : n = Len(hashed) /\ DOMAIN hashed = 1 .. n
  OBVIOUS
<1>2. IsFiniteSet(1 .. n) /\ Cardinality(1 .. n) = n /\ IsFiniteSet(Nodes)
  <2>1. IsFiniteSet(1 .. n) /\ Cardinality(1 .. n) = IF 1 > n THEN 0 ELSE n - 1 + 1
    BY FS_Interval
  <2>2. IsFiniteSet(Nodes)
    BY FS_Interval DEF Nodes
  <2> QED
    BY <2>1, <2>2
<1> DEFINE End(k) == [i \in 1 .. n |-> hashed[i][k]]
           ends(k) == [v \in Nodes |-> Ends(k, v)]
<1>3. ASSUME NEW k \in {1, 2}
      PROVE  /\ \A v \in Nodes : Ends(k, v) \in Nat
             /\ SumOf(ends(k), Nodes) = n
  <2>1. PICK f : f = End(k)
    OBVIOUS
  <2>2. \A i \in 1 .. n : hashed[i] \in Nodes \X Nodes
    BY <1>1
  <2>3. \A i \in 1 .. n : f[i] = hashed[i][k] /\ f[i] \in Nodes
    BY <2>1, <2>2
  <2>4. \A v : Ends(k, v) = Times(f, 1 .. n, v)
    <3>1. \A v : { i \in 1 .. n : hashed[i][k] = v } = { i \in 1 .. n : f[i] = v }
      BY <2>3
    <3> QED
      BY <1>1, <3>1 DEF Ends, Times, Count
  <2>5. /\ \A v \in Nodes : Times(f, 1 .. n, v) \in Nat
        /\ SumOf([v \in Nodes |-> Times(f, 1 .. n, v)], Nodes) = Cardinality(1 .. n)
    BY <1>2, <2>3, Fibers
  <2>6. ends(k) = [v \in Nodes |-> Times(f, 1 .. n, v)]
    BY <2>4
  <2> QED
    BY <1>2, <2>4, <2>5, <2>6
<1>4. PICK a : a = ends(1)
  OBVIOUS
<1>5. PICK b : b = ends(2)
  OBVIOUS
<1>6. /\ \A v \in Nodes : /\ a[v] \in Nat /\ b[v] \in Nat
                          /\ a[v] = Ends(1, v) /\ b[v] = Ends(2, v)
      /\ SumOf(a, Nodes) = n /\ SumOf(b, Nodes) = n
  BY <1>3, <1>4, <1>5
<1>7. ASSUME NEW v \in Nodes
      PROVE  /\ InDegree(directed)[v] = b[v] + (IF directed THEN 0 ELSE a[v])
             /\ OutDegree(directed)[v] = a[v] + (IF directed THEN 0 ELSE b[v])
             /\ Degree(directed)[v] = (a[v] + b[v]) * (IF directed THEN 1 ELSE 2)
  <2>1. /\ InDegree(directed)[v] = b[v] + (IF directed THEN 0 ELSE a[v])
        /\ OutDegree(directed)[v] = a[v] + (IF directed THEN 0 ELSE b[v])
    BY <1>6 DEF InDegree, OutDegree
  <2>2. Degree(directed)[v] = InDegree(directed)[v] + OutDegree(directed)[v]
    BY DEF Degree
  <2>3. a[v] \in Nat /\ b[v] \in Nat
    BY <1>6
  <2> QED
    BY <2>1, <2>2, <2>3
<1>8. /\ InDegree(directed) \in [Nodes -> Nat]
      /\ OutDegree(directed) \in [Nodes -> Nat]
      /\ Degree(directed) \in [Nodes -> Nat]
  <2>1. \A v \in Nodes : /\ InDegree(directed)[v] \in Nat
                         /\ OutDegree(directed)[v] \in Nat
                         /\ Degree(directed)[v] \in Nat
    <3> SUFFICES ASSUME NEW v \in Nodes
                 PROVE  /\ InDegree(directed)[v] \in Nat
                        /\ OutDegree(directed)[v] \in Nat
                        /\ Degree(directed)[v] \in Nat
      OBVIOUS
    <3>1. PICK x \in Nat : x = a[v]
      BY <1>6
    <3>2. PICK y \in Nat : y = b[v]
      BY <1>6
    <3>3. /\ InDegree(directed)[v] = y + (IF directed THEN 0 ELSE x)
          /\ OutDegree(directed)[v] = x + (IF directed THEN 0 ELSE y)
          /\ Degree(directed)[v] = (x + y) * (IF directed THEN 1 ELSE 2)
      BY <1>7, <3>1, <3>2
    <3> QED
      BY <3>3
  <2>2. /\ InDegree(directed) = [v \in Nodes |-> InDegree(directed)[v]]
        /\ OutDegree(directed) = [v \in Nodes |-> OutDegree(directed)[v]]
        /\ Degree(directed) = [v \in Nodes |-> Degree(directed)[v]]
    BY DEF InDegree, OutDegree, Degree
  <2> QED
    BY <2>1, <2>2
<1>9. SumOf(Degree(directed), Nodes) = EdgeEnds(directed)
  <2>1. PICK both : both = [v \in Nodes |-> a[v] + b[v]]
    OBVIOUS
  <2>2. PICK m \in Nat : m = IF directed THEN 1 ELSE 2
    OBVIOUS
  <2>3. PICK d : d = Degree(directed)
    OBVIOUS
  <2>4. \A v \in Nodes : /\ a[v] \in Int /\ b[v] \in Int /\ both[v] = a[v] + b[v]
                         /\ both[v] \in Int /\ d[v] = both[v] * m
    <3> SUFFICES ASSUME NEW v \in Nodes
                 PROVE  /\ a[v] \in Int /\ b[v] \in Int /\ both[v] = a[v] + b[v]
                        /\ both[v] \in Int /\ d[v] = both[v] * m
      OBVIOUS
    <3>1. a[v] \in Nat /\ b[v] \in Nat /\ both[v] = a[v] + b[v]
      BY <1>6, <2>1
    <3>2. d[v] = both[v] * m
      BY <1>7, <2>2, <2>3, <3>1
    <3> QED
      BY <3>1, <3>2
  <2>5. SumOf(both, Nodes) = n + n
    <3>1. SumOf(both, Nodes) = SumOf(a, Nodes) + SumOf(b, Nodes)
      BY <1>2, <2>4, SumPlus DEF SumOf
    <3> QED
      BY <1>6, <3>1
  <2>6. SumOf(d, Nodes) = SumOf(both, Nodes) * m
    <3>1. m \in Int
      OBVIOUS
    <3> QED
      BY <1>2, <2>4, <3>1, SumTimes DEF SumOf
  <2>7. (n + n) * m = n * m * 2
    OBVIOUS
  <2> QED
    BY <1>1, <2>2, <2>3, <2>5, <2>6, <2>7 DEF EdgeEnds
<1> QED
  BY <1>8, <1>9

-----------------------------------------------------------------------------
(***************************************************************************)
(* The parts of a split.  The start nodes are a recursive function of the  *)
(* first vertex of a part.                                                 *)
(***************************************************************************)
Limit(directed, partition) == EdgeEnds(directed) \div partition

\* The part that begins at s may end before e.
Closes(sum, limit, s, e) == e = TotalNode \/ OverLimit(sum[e + 1] - sum[s + 1], limit)
StopAt(sum, limit, s) ==
  CHOOSE e \in s + 1 .. TotalNode :
    /\ e = TotalNode \/ OverLimit(sum[e + 1] - sum[s + 1], limit)
    /\ \A f \in s + 1 .. e - 1 : ~OverLimit(sum[f + 1] - sum[s + 1], limit)
IsFrom(from, sum, limit) ==
  from = [s \in 0 .. TotalNode |->
            IF s = TotalNode THEN << s >> ELSE << s >> \o from[StopAt(sum, limit, s)]]
From(sum, limit) == CHOOSE from : IsFrom(from, sum, limit)

\* The start nodes are the list that begins at vertex 0.
LEMMA StartNodesFrom ==
  \A directed, partition :
    StartNodes(directed, partition) = From(Offsets(Degree(directed)), Limit(directed, partition))[0]
  BY DEF StartNodes, From, IsFrom, StopAt, Limit, EdgeEnds, Degree

\* A part that is not empty has an end.
LEMMA StopFound ==
  ASSUME TotalNode \in Nat, NEW sum, NEW limit, NEW s \in 0 .. TotalNode - 1
  PROVE  /\ StopAt(sum, limit, s) \in s + 1 .. TotalNode
         /\ Closes(sum, limit, s, StopAt(sum, limit, s))
<1>1. PICK N \in Nat : N = TotalNode
  OBVIOUS
<1> DEFINE E == { e \in s + 1 .. N : Closes(sum, limit, s, e) }
<1>2. E \in SUBSET Nat /\ N \in E
  <2>1. s \in Nat /\ s + 1 <= N
    BY <1>1
  <2>2. N \in s + 1 .. N
    BY <2>1
  <2>3. \A e \in s + 1 .. N : e \in Nat
    BY <2>1
  <2>4. Closes(sum, limit, s, N)
    BY <1>1 DEF Closes
  <2> QED
    BY <2>2, <2>3, <2>4
<1>3. PICK e \in E : \A x \in E : e <= x
  <2> HIDE DEF E
  <2> QED
    BY <1>2, Smallest
<1>4. ASSUME NEW f \in s + 1 .. e - 1
      PROVE  ~ OverLimit(sum[f + 1] - sum[s + 1], limit)
  <2>1. f \in s + 1 .. N /\ ~ (e <= f)
    BY <1>1
  <2>2. f \notin E
    BY <1>3, <2>1
  <2> QED
    BY <2>1, <2>2 DEF Closes
<1>5. e \in s + 1 .. TotalNode /\ Closes(sum, limit, s, e)
  BY <1>1
<1>6. \E x \in s + 1 .. TotalNode :
        /\ x = TotalNode \/ OverLimit(sum[x + 1] - sum[s + 1], limit)
        /\ \A f \in s + 1 .. x - 1 : ~ OverLimit(sum[f + 1] - sum[s + 1], limit)
  BY <1>4, <1>5 DEF Closes
<1> HIDE DEF E
<1> QED
  BY <1>6 DEF StopAt, Closes

\* The function exists.
LEMMA FromFound ==
  ASSUME TotalNode \in Nat, NEW sum, NEW limit
  PROVE  IsFrom(From(sum, limit), sum, limit)
<1>1. PICK N \in Nat : N = TotalNode
  OBVIOUS
<1> DEFINE S == 0 .. N
           V == Seq(S)
           Value(f, s) == IF s = N THEN << s >> ELSE << s >> \o f[StopAt(sum, limit, s)]
           step == [f \in [S -> V] |-> [s \in S |-> Value(f, s)]]
           rank == [s \in S |-> N - s]
           first == [s \in S |-> << >>]
<1>2. \A s \in S : s # N => StopAt(sum, limit, s) \in S /\ StopAt(sum, limit, s) > s
  <2> SUFFICES ASSUME NEW s \in S, s # N
               PROVE  StopAt(sum, limit, s) \in S /\ StopAt(sum, limit, s) > s
    OBVIOUS
  <2>1. s \in 0 .. TotalNode - 1
    BY <1>1
  <2>2. StopAt(sum, limit, s) \in s + 1 .. N
    BY <1>1, <2>1, StopFound
  <2> QED
    BY <1>1, <2>2
<1>3. ASSUME NEW f \in [S -> V], NEW s \in S
      PROVE  Value(f, s) \in V
  <2>1. << s >> \in V
    OBVIOUS
  <2>2. CASE s = N
    BY <2>1, <2>2
  <2>3. CASE s # N
    <3>1. f[StopAt(sum, limit, s)] \in V
      BY <1>2, <2>3
    <3>2. PICK t \in V : t = f[StopAt(sum, limit, s)]
      BY <3>1
    <3>3. << s >> \o t \in V
      BY <2>1
    <3> QED
      BY <2>3, <3>2, <3>3
  <2> QED
    BY <2>2, <2>3
<1>4. step \in [[S -> V] -> [S -> V]]
  <2> HIDE DEF Value, V, S
  <2> QED
    BY <1>3
<1>5. rank \in [S -> 0 .. N] /\ first \in [S -> V]
  <2>1. << >> \in V /\ \A s \in S : N - s \in 0 .. N
    OBVIOUS
  <2> HIDE DEF V, S
  <2> QED
    BY <2>1
<1>6. Determined(step, S, V, rank)
  <2> SUFFICES ASSUME NEW f \in [S -> V], NEW k \in [S -> V], NEW s \in S,
                      \A t \in S : rank[t] < rank[s] => f[t] = k[t]
               PROVE  step[f][s] = step[k][s]
    BY DEF Determined
  <2>1. Value(f, s) = Value(k, s)
    <3>1. CASE s = N
      BY <3>1
    <3>2. CASE s # N
      <4>1. PICK t \in S : t = StopAt(sum, limit, s) /\ t > s
        BY <1>2, <3>2
      <4>2. rank[t] < rank[s]
        BY <4>1
      <4>3. f[t] = k[t]
        BY <4>2
      <4> QED
        BY <3>2, <4>1, <4>3
    <3> QED
      BY <3>1, <3>2
  <2>2. step[f][s] = Value(f, s) /\ step[k][s] = Value(k, s)
    <3> HIDE DEF Value, V, S
    <3> QED
      OBVIOUS
  <2> QED
    BY <2>1, <2>2
<1>7. PICK f : Fixed(step, S, V, f)
  <2> HIDE DEF step, rank, first, V, S
  <2> QED
    BY <1>4, <1>5, <1>6, FixedPoint
<1>8. f = [s \in S |-> Value(f, s)]
  <2>1. f \in [S -> V] /\ step[f] = f
    BY <1>7 DEF Fixed
  <2>2. step[f] = [s \in S |-> Value(f, s)]
    BY <2>1
  <2> HIDE DEF step
  <2> QED
    BY <2>1, <2>2
<1>9. IsFrom(f, sum, limit)
  BY <1>1, <1>8 DEF IsFrom
<1> QED
  BY <1>9 DEF From

\* A list of start nodes from s to the end.
IsCut(list, sum, limit, s) ==
  /\ list \in Seq(s .. TotalNode) /\ Len(list) >= 1
  /\ list[1] = s /\ list[Len(list)] = TotalNode
  /\ \A i \in 1 .. Len(list) - 1 : list[i] < list[i + 1]
  /\ \A i \in 1 .. Len(list) - 1 : Closes(sum, limit, list[i], list[i + 1])

\* From every vertex the parts follow each other up to the end.
LEMMA FromCuts ==
  ASSUME TotalNode \in Nat, NEW sum, NEW limit
  PROVE  \A s \in 0 .. TotalNode : IsCut(From(sum, limit)[s], sum, limit, s)
<1>1. PICK N \in Nat : N = TotalNode
  OBVIOUS
<1>2. PICK from : from = From(sum, limit) /\ IsFrom(from, sum, limit)
  BY FromFound
<1>3. \A s \in 0 .. N :
        from[s] = IF s = N THEN << s >> ELSE << s >> \o from[StopAt(sum, limit, s)]
  BY <1>1, <1>2 DEF IsFrom
<1> DEFINE Good(s) == IsCut(from[s], sum, limit, s)
           P == { n \in Nat : \A s \in 0 .. N : N - s <= n => Good(s) }
<1>4. Good(N)
  <2>1. from[N] = << N >>
    <3>1. N \in 0 .. N
      OBVIOUS
    <3> QED
      BY <1>3, <3>1, Zenon
  <2>2. /\ << N >> \in Seq(N .. N) /\ Len(<< N >>) = 1 /\ << N >>[1] = N
    OBVIOUS
  <2> QED
    BY <1>1, <2>1, <2>2 DEF IsCut
<1>5. ASSUME NEW s \in 0 .. N, s # N, \A t \in 0 .. N : t > s => Good(t)
      PROVE  Good(s)
  <2>1. s \in 0 .. TotalNode - 1 /\ s \in Nat /\ s < N
    BY <1>1, <1>5
  <2>2. PICK e \in s + 1 .. N : e = StopAt(sum, limit, s) /\ Closes(sum, limit, s, e)
    BY <1>1, <2>1, StopFound
  <2>3. e \in 0 .. N /\ e > s /\ e \in Nat
    BY <2>1
  <2>4. IsCut(from[e], sum, limit, e)
    BY <1>5, <2>3
  <2>5. PICK t : t = from[e]
    OBVIOUS
  <2>6. /\ t \in Seq(e .. N) /\ Len(t) >= 1
        /\ t[1] = e /\ t[Len(t)] = N
        /\ \A i \in 1 .. Len(t) - 1 : t[i] < t[i + 1]
        /\ \A i \in 1 .. Len(t) - 1 : Closes(sum, limit, t[i], t[i + 1])
    BY <1>1, <2>4, <2>5 DEF IsCut
  <2>7. PICK m \in Nat : m = Len(t) /\ m >= 1
    BY <2>6
  <2>8. from[s] = << s >> \o t
    BY <1>3, <1>5, <2>2, <2>5
  <2>9. PICK list : list = << s >> \o t
    OBVIOUS
  <2>10. t \in Seq(s .. N)
    <3>1. \A x \in e .. N : x \in s .. N
      BY <2>3
    <3> QED
      BY <2>6, <3>1
  <2>11. /\ list \in Seq(s .. N) /\ Len(list) = m + 1
         /\ list[1] = s /\ \A i \in 1 .. m : list[i + 1] = t[i]
    <3>1. << s >> \in Seq(s .. N) /\ Len(<< s >>) = 1 /\ << s >>[1] = s
      BY <2>1
    <3> QED
      BY <2>7, <2>9, <2>10, <3>1
  <2>12. list[m + 1] = N
    <3>1. m \in 1 .. m
      BY <2>7
    <3> QED
      BY <2>6, <2>7, <2>11, <3>1
  <2>13. ASSUME NEW i \in 1 .. m
         PROVE  list[i] < list[i + 1] /\ Closes(sum, limit, list[i], list[i + 1])
    <3>1. CASE i = 1
      <4>1. list[i] = s /\ list[i + 1] = e
        BY <2>6, <2>11, <3>1
      <4> QED
        BY <2>2, <2>3, <4>1
    <3>2. CASE i # 1
      <4>1. i - 1 \in 1 .. m /\ i - 1 \in 1 .. Len(t) - 1 /\ (i - 1) + 1 = i
        BY <2>7, <3>2
      <4>2. list[i] = t[i - 1] /\ list[i + 1] = t[(i - 1) + 1]
        BY <2>11, <4>1, SMTT(30)
      <4>3. t[i - 1] < t[(i - 1) + 1] /\ Closes(sum, limit, t[i - 1], t[(i - 1) + 1])
        BY <2>6, <4>1
      <4> QED
        BY <4>2, <4>3
    <3> QED
      BY <3>1, <3>2
  <2>14. IsCut(list, sum, limit, s)
    <3>1. (m + 1) - 1 = m /\ m + 1 >= 1
      BY <2>7
    <3> QED
      BY <1>1, <2>11, <2>12, <2>13, <3>1 DEF IsCut
  <2> QED
    BY <2>8, <2>9, <2>14
<1> HIDE DEF Good
<1>6. 0 \in P
  BY <1>4
<1>7. ASSUME NEW n \in Nat, n \in P
      PROVE  n + 1 \in P
  <2> SUFFICES ASSUME NEW s \in 0 .. N, N - s <= n + 1
               PROVE  Good(s)
    OBVIOUS
  <2>1. CASE s = N
    BY <1>4, <2>1
  <2>2. CASE s # N
    <3>1. \A t \in 0 .. N : t > s => Good(t)
      BY <1>7
    <3> QED
      BY <1>5, <2>2, <3>1
  <2> QED
    BY <2>1, <2>2
<1>8. N \in P
  <2> HIDE DEF P
  <2> QED
    BY <1>6, <1>7, Induction
<1>9. \A s \in 0 .. N : Good(s)
  BY <1>8
<1> QED
  BY <1>1, <1>2, <1>9 DEF Good

\* A sequence that grows from each entry to the next one grows between any two.
LEMMA Increasing ==
  ASSUME NEW m \in Nat, NEW list, \A i \in 1 .. m : list[i] \in Nat,
         \A i \in 1 .. m - 1 : list[i] < list[i + 1]
  PROVE  \A i, j \in 1 .. m : i < j => list[i] < list[j]
<1> DEFINE P == { j \in Nat : j \in 1 .. m => \A i \in 1 .. j - 1 : list[i] < list[j] }
<1>1. 0 \in P
  OBVIOUS
<1>2. ASSUME NEW n \in Nat, n \in P
      PROVE  n + 1 \in P
  <2> SUFFICES ASSUME n + 1 \in 1 .. m, NEW i \in 1 .. n
               PROVE  list[i] < list[n + 1]
    BY <1>2
  <2>1. n \in 1 .. m - 1 /\ n \in 1 .. m /\ i \in 1 .. m /\ n + 1 \in 1 .. m
    OBVIOUS
  <2>2. list[n] < list[n + 1] /\ list[n] \in Nat /\ list[i] \in Nat /\ list[n + 1] \in Nat
    BY <2>1
  <2>3. CASE i = n
    BY <2>2, <2>3
  <2>4. CASE i # n
    <3>1. i \in 1 .. n - 1
      BY <2>4
    <3>2. list[i] < list[n]
      BY <1>2, <2>1, <3>1
    <3> QED
      BY <2>2, <3>2
  <2> QED
    BY <2>3, <2>4
<1>3. \A n \in Nat : n \in P
  <2> HIDE DEF P
  <2> QED
    BY <1>1, <1>2, Induction
<1> QED
  BY <1>3

\* Offsets never decrease.
LEMMA OffsetsGrow ==
  ASSUME TotalNode \in Nat, NEW degree \in [Nodes -> Nat], NEW offset, IsOffsets(offset, degree)
  PROVE  /\ \A v \in 0 .. TotalNode : offset[v + 1] \in Nat
         /\ \A v, w \in 0 .. TotalNode : v <= w => offset[v + 1] <= offset[w + 1]
<1>1. PICK N \in Nat : N = TotalNode
  OBVIOUS
<1>2. \A v \in 0 .. N : offset[v + 1] \in Nat
  BY <1>1 DEF IsOffsets
<1>3. \A v \in 0 .. N - 1 : offset[v + 2] = offset[v + 1] + degree[v] /\ degree[v] \in Nat
  BY <1>1 DEF IsOffsets, Nodes
<1> DEFINE P == { n \in Nat : n \in 0 .. N =>
                    \A v \in 0 .. n : offset[v + 1] <= offset[n + 1] }
<1>4. 0 \in P
  BY <1>2
<1>5. ASSUME NEW n \in Nat, n \in P
      PROVE  n + 1 \in P
  <2> SUFFICES ASSUME n + 1 \in 0 .. N, NEW v \in 0 .. n + 1
               PROVE  offset[v + 1] <= offset[(n + 1) + 1]
    OBVIOUS
  <2>1. n \in 0 .. N - 1 /\ n \in 0 .. N /\ v \in 0 .. N /\ (n + 1) + 1 = n + 2
    OBVIOUS
  <2>2. /\ offset[n + 2] = offset[n + 1] + degree[n] /\ degree[n] \in Nat
        /\ offset[n + 1] \in Nat /\ offset[v + 1] \in Nat
    BY <1>2, <1>3, <2>1
  <2>3. CASE v = n + 1
    BY <2>1, <2>2, <2>3
  <2>4. CASE v # n + 1
    <3>1. v \in 0 .. n
      BY <2>4
    <3>2. offset[v + 1] <= offset[n + 1]
      BY <1>5, <2>1, <3>1
    <3> QED
      BY <2>1, <2>2, <3>2
  <2> QED
    BY <2>3, <2>4
<1>6. \A n \in Nat : n \in P
  <2> HIDE DEF P
  <2> QED
    BY <1>4, <1>5, Induction
<1>7. \A v, w \in 0 .. N : v <= w => offset[v + 1] <= offset[w + 1]
  BY <1>6
<1> QED
  BY <1>1, <1>2, <1>7

\* What the tools and the executors rely on: the start nodes grow from the first vertex
\* to the end, and there are no more parts than asked for.
IsParts(list, partition) ==
  /\ list \in Seq(0 .. TotalNode) /\ Len(list) >= 1
  /\ list[1] = 0 /\ list[Len(list)] = TotalNode
  /\ \A i, j \in 1 .. Len(list) : i < j => list[i] < list[j]
  /\ Len(list) <= partition + 1

\* Every part but the last has more than its share of the ends.
LEMMA PartsBounded ==
  ASSUME NEW T \in Nat, NEW p \in Nat \ {0}, NEW m \in Nat \ {0}, NEW load,
         \A i \in 1 .. m : load[i] \in Nat,
         \A i \in 1 .. m - 1 : load[i + 1] - load[i] > T \div p,
         load[m] <= T
  PROVE  m <= p
<1>1. PICK c \in Nat : c = T \div p + 1 /\ T < c * p
  <2>1. PICK q \in Nat : q = T \div p /\ T < (q + 1) * p
    OBVIOUS
  <2>2. q + 1 \in Nat
    OBVIOUS
  <2> QED
    BY <2>1, <2>2
<1> DEFINE P == { n \in Nat : n + 1 \in 1 .. m => load[n + 1] >= n * c }
<1>2. 0 \in P
  OBVIOUS
<1>3. ASSUME NEW n \in Nat, n \in P
      PROVE  n + 1 \in P
  <2> SUFFICES ASSUME (n + 1) + 1 \in 1 .. m
               PROVE  load[(n + 1) + 1] >= (n + 1) * c
    OBVIOUS
  <2>1. n + 1 \in 1 .. m - 1 /\ n + 1 \in 1 .. m
    OBVIOUS
  <2>2. load[n + 1] >= n * c
    BY <1>3, <2>1
  <2>3. load[(n + 1) + 1] - load[n + 1] >= c
    <3>1. load[(n + 1) + 1] \in Nat /\ load[n + 1] \in Nat
      BY <2>1
    <3>2. load[(n + 1) + 1] - load[n + 1] > T \div p
      BY <2>1
    <3>3. T \div p = c - 1
      BY <1>1
    <3> QED
      BY <3>1, <3>2, <3>3
  <2>4. (n + 1) * c = n * c + c /\ n * c \in Nat
    OBVIOUS
  <2>5. load[(n + 1) + 1] \in Nat /\ load[n + 1] \in Nat
    BY <2>1
  <2> QED
    BY <2>2, <2>3, <2>4, <2>5
<1>4. \A n \in Nat : n \in P
  <2> HIDE DEF P
  <2> QED
    BY <1>2, <1>3, Induction
<1>5. (m - 1) * c <= T
  <2>1. m - 1 \in Nat /\ (m - 1) + 1 = m /\ m \in 1 .. m
    OBVIOUS
  <2>2. load[m] >= (m - 1) * c
    BY <1>4, <2>1
  <2>3. (m - 1) * c \in Nat /\ load[m] \in Nat
    BY <2>1
  <2> QED
    BY <2>2, <2>3
<1> SUFFICES ASSUME m > p
             PROVE  FALSE
  OBVIOUS
<1>6. PICK d \in Nat : m - 1 = p + d
  <2>1. m - 1 - p \in Nat /\ m - 1 = p + (m - 1 - p)
    OBVIOUS
  <2> QED
    BY <2>1
<1>7. (p + d) * c = c * p + d * c /\ d * c \in Nat /\ c * p \in Nat
  OBVIOUS
<1> QED
  BY <1>1, <1>5, <1>6, <1>7

\* split.go: the start nodes of every split are parts.
LEMMA StartNodesParts ==
  ASSUME TotalNode \in Nat, hashed \in Seq(Nodes \X Nodes), NEW directed \in BOOLEAN,
         NEW p \in Nat \ {0}
  PROVE  IsParts(StartNodes(directed, p), p)
<1>1. PICK N \in Nat : N = TotalNode
  OBVIOUS
<1>2. PICK degree : /\ degree = Degree(directed) /\ degree \in [Nodes -> Nat]
                    /\ SumOf(degree, Nodes) = EdgeEnds(directed)
  BY DegreeSum
<1>3. PICK sum : sum = Offsets(degree) /\ IsOffsets(sum, degree)
  BY <1>2, OffsetsSum
<1>4. PICK T \in Nat : T = EdgeEnds(directed)
  <2>1. Len(hashed) \in Nat
    OBVIOUS
  <2>2. Len(hashed) * (IF directed THEN 1 ELSE 2) * 2 \in Nat
    BY <2>1
  <2> QED
    BY <2>2 DEF EdgeEnds
<1>5. sum[N + 1] = T
  BY <1>1, <1>2, <1>3, <1>4 DEF IsOffsets
<1>6. PICK list : /\ list = From(sum, T \div p)[0]
                  /\ IsCut(list, sum, T \div p, 0)
  <2>1. 0 \in 0 .. TotalNode
    BY <1>1
  <2> QED
    BY <2>1, FromCuts
<1>7. StartNodes(directed, p) = list
  BY <1>2, <1>3, <1>4, <1>6, StartNodesFrom DEF Limit
<1>8. PICK n \in Nat : n = Len(list) /\ n >= 1
  BY <1>6, SMTT(30) DEF IsCut
<1>9. /\ \A i \in 1 .. n : list[i] \in 0 .. N
      /\ list[1] = 0 /\ list[n] = N
      /\ \A i \in 1 .. n - 1 : list[i] < list[i + 1] /\ Closes(sum, T \div p, list[i], list[i + 1])
  BY <1>1, <1>6, <1>8 DEF IsCut
<1>10. \A i, j \in 1 .. n : i < j => list[i] < list[j]
  <2>1. \A i \in 1 .. n : list[i] \in Nat
    BY <1>9
  <2>2. \A i \in 1 .. n - 1 : list[i] < list[i + 1]
    BY <1>9
  <2> QED
    BY <2>1, <2>2, Increasing
<1>11. n <= p + 1
  <2>1. CASE n = 1
    BY <2>1
  <2>2. CASE n # 1
    <3>1. PICK m \in Nat \ {0} : m = n - 1
      BY <1>8, <2>2
    <3> DEFINE load == [i \in 1 .. m |-> sum[list[i] + 1]]
    <3>2. \A i \in 1 .. m : load[i] \in Nat
      <4>1. \A i \in 1 .. m : list[i] \in 0 .. N
        BY <1>9, <3>1
      <4>2. \A v \in 0 .. N : sum[v + 1] \in Nat
        BY <1>1, <1>2, <1>3, OffsetsGrow
      <4> QED
        BY <4>1, <4>2
    <3>3. ASSUME NEW i \in 1 .. m - 1
          PROVE  load[i + 1] - load[i] > T \div p
      <4>1. i \in 1 .. n - 1 /\ i + 1 \in 1 .. m /\ i \in 1 .. m /\ i + 1 \in 1 .. n /\ i + 1 < n
        BY <3>1
      <4>2. list[i + 1] < list[n]
        BY <1>8, <1>10, <4>1
      <4>3. list[i + 1] # N
        BY <1>9, <4>1, <4>2
      <4>4. Closes(sum, T \div p, list[i], list[i + 1])
        BY <1>9, <4>1
      <4>5. OverLimit(sum[list[i + 1] + 1] - sum[list[i] + 1], T \div p)
        BY <1>1, <4>3, <4>4 DEF Closes
      <4>6. load[i + 1] = sum[list[i + 1] + 1] /\ load[i] = sum[list[i] + 1]
        BY <4>1
      <4> QED
        BY <4>5, <4>6 DEF OverLimit
    <3>4. load[m] <= T
      <4>1. m \in 1 .. m /\ list[m] \in 0 .. N /\ N \in 0 .. N /\ list[m] <= N
        BY <1>9, <3>1
      <4>2. sum[list[m] + 1] <= sum[N + 1]
        BY <1>1, <1>2, <1>3, <4>1, OffsetsGrow
      <4> QED
        BY <1>5, <4>1, <4>2
    <3> HIDE DEF load
    <3>5. m <= p
      BY <3>2, <3>3, <3>4, PartsBounded
    <3> QED
      BY <3>1, <3>5
  <2> QED
    BY <2>1, <2>2
<1>12. list \in Seq(0 .. TotalNode)
  BY <1>6 DEF IsCut
<1>13. IsParts(list, p)
  BY <1>1, <1>8, <1>9, <1>10, <1>11, <1>12 DEF IsParts
<1> QED
  BY <1>7, <1>13

-----------------------------------------------------------------------------
(***************************************************************************)
(* The invariant: every file and every structure read from it is what the  *)
(* code computes from the files before it, and is not changed under those  *)
(* that read it.                                                           *)
(***************************************************************************)
HashedOK ==
  /\ hashed \in Seq(Nodes \X Nodes) /\ Len(hashed) = Len(RawEdges)
  /\ \A i \in DOMAIN hashed :
       hashed[i] = << Count(Below(Ids(RawEdges), RawEdges[i][1])),
                      Count(Below(Ids(RawEdges), RawEdges[i][2])) >>

EdgeFile(weighted, directed, own, other) ==
  FlattenSeq([i \in 1 .. TotalNode |-> EdgeList(Arcs(directed), own, other, weighted, i - 1)])

CsrOK ==
  /\ hashed # NoFile
  /\ csr.weighted \in BOOLEAN /\ csr.directed \in BOOLEAN
  /\ csr.inOffset = Offsets(InDegree(csr.directed))
  /\ csr.outOffset = Offsets(OutDegree(csr.directed))
  /\ csr.inEdge = EdgeFile(csr.weighted, csr.directed, 2, 1)
  /\ csr.outEdge = EdgeFile(csr.weighted, csr.directed, 1, 2)

\* The start nodes that controller and executors find in CSR_PATH.
Cut == IF config.partition \in DOMAIN startNodes THEN startNodes[config.partition] ELSE << >>

ConfigOK ==
  /\ csr # NoFile
  /\ config.partition \in PartCount
  /\ config.startNodes = [i \in 1 .. config.partition |-> WordRead(Cut, i)]
  /\ config.sizes = Sizes(config.startNodes)

GraphsOK ==
  \A k \in DOMAIN graphs : /\ ConfigOK
                           /\ config.partition \in DOMAIN startNodes
                           /\ k \in ToSet(config.startNodes)
                           /\ graphs[k] = LoadGraph(k)

IInv ==
  /\ raw \in RawFile
  /\ hashed # NoFile => HashedOK
  /\ csr # NoFile => CsrOK
  /\ DOMAIN startNodes \subseteq PartCount
  /\ \A p \in DOMAIN startNodes : IsParts(startNodes[p], p)
  /\ stage \in {"prepare", "configured", "serving", "dead"}
  /\ stage = "prepare" => config = NoFile
  /\ stage \in {"prepare", "configured"} => graphs = << >>
  /\ stage \in {"configured", "serving"} \/ config # NoFile => ConfigOK
  /\ GraphsOK

\* The number of vertices, and what the hash needs to know of the text.
LEMMA FileFacts ==
  ASSUME raw \in RawFile
  PROVE  /\ TotalNode \in Nat
         /\ RawEdges \in Seq(Nat \X Nat)
         /\ Count(Ids(RawEdges)) \in Nat
         /\ Count(Ids(RawEdges)) <= TotalNode
         /\ Count(Ids(RawEdges)) <= Word
<1>1. TotalNode \in Nat
  BY DataAssumption DEF TotalNode
<1>2. RawEdges \in Seq(Nat \X Nat)
  BY EdgesRead DEF RawEdges
<1>3. Count(Ids(RawEdges)) \in Nat
  BY <1>2, IdsFinite, FS_CardinalityType DEF Count
<1>4. Word \in Nat
  BY DataAssumption
<1>5. Count(Ids(RawEdges)) <= TotalNode /\ TotalNode <= Word
  BY TotalAssumption DEF TotalNode, RawEdges
<1> QED
  BY <1>1, <1>2, <1>3, <1>4, <1>5

\* hash.go writes an edge for every edge it reads, its ends numbered by their rank.
LEMMA HashWrites ==
  ASSUME raw \in RawFile, Hash
  PROVE  HashedOK'
<1>1. PICK edges \in Seq(Nat \X Nat) : edges = RawEdges
  BY FileFacts
<1>2. PICK n \in Nat : n = Len(edges) /\ DOMAIN edges = 1 .. n
  BY <1>1
<1>3. PICK t : t = HashTable(edges)
  OBVIOUS
<1>4. hashed' = [i \in 1 .. n |-> << t[edges[i][1]], t[edges[i][2]] >>]
  BY <1>1, <1>2, <1>3 DEF Hash
<1>5. ASSUME NEW i \in 1 .. n, NEW k \in {1, 2}
      PROVE  edges[i][k] \in Ids(edges)
  <2>1. edges[i] \in ToSet(edges)
    BY <1>2 DEF ToSet
  <2>2. edges[i][k] \in {edges[i][1], edges[i][2]}
    OBVIOUS
  <2> QED
    BY <2>1, <2>2 DEF Ids
<1>6. \A x \in Ids(edges) : t[x] = Count(Below(Ids(edges), x)) /\ t[x] \in Nodes
  <2>1. PICK c \in Nat : c = Count(Ids(edges)) /\ c <= TotalNode /\ c <= Word
    BY <1>1, FileFacts
  <2>2. \A x \in Ids(edges) : t[x] = Count(Below(Ids(edges), x)) /\ t[x] \in 0 .. c - 1
    BY <1>3, <2>1, HashTableRanks
  <2>3. TotalNode \in Nat
    BY FileFacts
  <2> QED
    BY <2>1, <2>2, <2>3 DEF Nodes
<1>7. hashed' \in Seq(Nodes \X Nodes) /\ Len(hashed') = n /\ DOMAIN hashed' = 1 .. n
  <2>1. \A i \in 1 .. n : << t[edges[i][1]], t[edges[i][2]] >> \in Nodes \X Nodes
    BY <1>5, <1>6
  <2> QED
    BY <1>4, <2>1
<1>8. \A i \in 1 .. n :
        hashed'[i] = << Count(Below(Ids(edges), edges[i][1])),
                        Count(Below(Ids(edges), edges[i][2])) >>
  BY <1>4, <1>5, <1>6
<1>9. raw' = raw
  BY DEF Hash
<1>10. RawEdges' = edges /\ Nodes' = Nodes
  BY <1>1, <1>9 DEF RawEdges, Nodes, TotalNode
<1> QED
  BY <1>2, <1>7, <1>8, <1>10 DEF HashedOK

\* Before the tools have run there is nothing to say.
LEMMA InvariantStarts == Init => IInv
  BY DEF Init, IInv, GraphsOK

\* What is computed from a text and its hash changes only with them.
LEMMA FilesKept ==
  ASSUME UNCHANGED << raw, hashed >>
  PROVE  /\ HashedOK' = HashedOK
         /\ TotalNode' = TotalNode
         /\ \A d : /\ Offsets(InDegree(d))' = Offsets(InDegree(d))
                   /\ Offsets(OutDegree(d))' = Offsets(OutDegree(d))
         /\ \A w, d, own, other : EdgeFile(w, d, own, other)' = EdgeFile(w, d, own, other)
<1>1. TotalNode' = TotalNode /\ Nodes' = Nodes /\ RawEdges' = RawEdges
  BY DEF TotalNode, Nodes, RawEdges
<1>2. HashedOK' = HashedOK
  BY <1>1 DEF HashedOK
<1>3. \A k, v : Ends(k, v)' = Ends(k, v)
  BY DEF Ends
<1>4. ASSUME NEW d
      PROVE  /\ Offsets(InDegree(d))' = Offsets(InDegree(d))
             /\ Offsets(OutDegree(d))' = Offsets(OutDegree(d))
  <2>1. InDegree(d)' = InDegree(d) /\ OutDegree(d)' = OutDegree(d)
    BY <1>1, <1>3 DEF InDegree, OutDegree
  <2> QED
    BY <1>1, <2>1 DEF Offsets
<1>5. ASSUME NEW w, NEW d, NEW own, NEW other
      PROVE  EdgeFile(w, d, own, other)' = EdgeFile(w, d, own, other)
  <2>1. Arcs(d)' = Arcs(d)
    BY DEF Arcs
  <2> QED
    BY <1>1, <2>1 DEF EdgeFile
<1> QED
  BY <1>1, <1>2, <1>4, <1>5

\* The CSR files are those of the hashed file as long as both stay.
LEMMA CsrKept ==
  ASSUME UNCHANGED << raw, hashed, csr >>
  PROVE  CsrOK' = CsrOK
<1>1. \A d : /\ Offsets(InDegree(d))' = Offsets(InDegree(d))
             /\ Offsets(OutDegree(d))' = Offsets(OutDegree(d))
  BY FilesKept
<1>2. \A w, d, own, other : EdgeFile(w, d, own, other)' = EdgeFile(w, d, own, other)
  BY FilesKept
<1>3. /\ Offsets(InDegree(csr.directed))' = Offsets(InDegree(csr.directed))
      /\ Offsets(OutDegree(csr.directed))' = Offsets(OutDegree(csr.directed))
  BY <1>1
<1>4. /\ EdgeFile(csr.weighted, csr.directed, 2, 1)' = EdgeFile(csr.weighted, csr.directed, 2, 1)
      /\ EdgeFile(csr.weighted, csr.directed, 1, 2)' = EdgeFile(csr.weighted, csr.directed, 1, 2)
  BY <1>2
<1> QED
  BY <1>3, <1>4 DEF CsrOK

\* What an executor reads changes only with the files and the configuration.
LEMMA GraphsKept ==
  ASSUME UNCHANGED << raw, csr, startNodes, config >>
  PROVE  \A k : LoadGraph(k)' = LoadGraph(k)
<1>1. TotalNode' = TotalNode /\ WordsPerEdge' = WordsPerEdge
  BY DEF TotalNode, WordsPerEdge
<1>2. \A k : StopNode(k)' = StopNode(k)
  BY <1>1 DEF StopNode
<1>3. \A offset : LocalOffset(offset)' = LocalOffset(offset)
  BY <1>1 DEF LocalOffset
<1>4. \A file, offset : Segment(file, offset)' = Segment(file, offset)
  BY <1>1 DEF Segment
<1> SUFFICES ASSUME NEW k
             PROVE  LoadGraph(k)' = LoadGraph(k)
  OBVIOUS
<1> DEFINE in == SubSeq(csr.inOffset, k + 1, StopNode(k) + 1)
           out == SubSeq(csr.outOffset, k + 1, StopNode(k) + 1)
<1>5. in' = in /\ out' = out
  BY <1>2
<1> QED
  BY <1>2, <1>3, <1>4, <1>5 DEF LoadGraph

\* Each tool and each reader keeps the invariant.
LEMMA InvariantStep == IInv /\ [Next]_vars => IInv'
<1> SUFFICES ASSUME IInv, [Next]_vars
             PROVE  IInv'
  OBVIOUS
<1> USE DEF IInv
<1>1. CASE Hash
  <2>1. HashedOK'
    BY <1>1, HashWrites
  <2>2. /\ UNCHANGED << raw, csr, startNodes, config, graphs, stage >>
        /\ hashed = NoFile /\ stage = "prepare"
    BY <1>1 DEF Hash
  <2>3. csr = NoFile
    BY <2>2 DEF CsrOK
  <2>4. \A p \in DOMAIN startNodes : IsParts(startNodes[p], p)'
    BY <2>2 DEF IsParts, TotalNode
  <2>5. GraphsOK'
    BY <2>2 DEF GraphsOK
  <2> QED
    BY <2>1, <2>2, <2>3, <2>4, <2>5
<1>2. CASE HashPanics
  <2>1. /\ UNCHANGED << raw, hashed, csr, startNodes, config, graphs >>
        /\ hashed = NoFile /\ stage = "prepare" /\ stage' = "dead"
    BY <1>2 DEF HashPanics
  <2>2. csr = NoFile /\ config = NoFile
    BY <2>1 DEF CsrOK
  <2>3. \A p \in DOMAIN startNodes : IsParts(startNodes[p], p)'
    BY <2>1 DEF IsParts, TotalNode
  <2>4. GraphsOK'
    BY <2>1 DEF GraphsOK
  <2> QED
    BY <2>1, <2>2, <2>3, <2>4
<1>3. ASSUME NEW weighted \in BOOLEAN, NEW directed \in BOOLEAN, Txt2Csr(weighted, directed)
      PROVE  IInv'
  <2>1. /\ UNCHANGED << raw, hashed, config, graphs, stage >>
        /\ stage = "prepare" /\ hashed # NoFile /\ startNodes' = << >>
    BY <1>3 DEF Txt2Csr
  <2>2. CsrOK'
    <3>1. /\ csr'.weighted = weighted /\ csr'.directed = directed
          /\ csr'.inOffset = Offsets(InDegree(directed))
          /\ csr'.outOffset = Offsets(OutDegree(directed))
          /\ csr'.inEdge = EdgeFile(weighted, directed, 2, 1)
          /\ csr'.outEdge = EdgeFile(weighted, directed, 1, 2)
      BY <1>3 DEF Txt2Csr, EdgeFile
    <3>2. /\ Offsets(InDegree(directed))' = Offsets(InDegree(directed))
          /\ Offsets(OutDegree(directed))' = Offsets(OutDegree(directed))
      BY <2>1, FilesKept
    <3>3. /\ EdgeFile(weighted, directed, 2, 1)' = EdgeFile(weighted, directed, 2, 1)
          /\ EdgeFile(weighted, directed, 1, 2)' = EdgeFile(weighted, directed, 1, 2)
      BY <2>1, FilesKept
    <3> QED
      BY <2>1, <3>1, <3>2, <3>3 DEF CsrOK
  <2>3. HashedOK'
    BY <2>1, FilesKept
  <2>4. DOMAIN startNodes' = {}
    BY <2>1
  <2>5. GraphsOK'
    BY <2>1 DEF GraphsOK
  <2> QED
    BY <2>1, <2>2, <2>3, <2>4, <2>5
<1>4. ASSUME NEW directed \in BOOLEAN, NEW p \in PartCount, Split(directed, p)
      PROVE  IInv'
  <2>1. /\ UNCHANGED << raw, hashed, csr, config, graphs, stage >>
        /\ stage = "prepare" /\ csr # NoFile
        /\ startNodes' = [q \in DOMAIN startNodes \cup {p} |->
                            IF q = p THEN StartNodes(directed, q) ELSE startNodes[q]]
    BY <1>4 DEF Split
  <2>2. HashedOK
    BY <2>1 DEF CsrOK
  <2>3. IsParts(StartNodes(directed, p), p)
    <3>1. p \in Nat \ {0} /\ TotalNode \in Nat
      BY FileFacts, DataAssumption
    <3>2. hashed \in Seq(Nodes \X Nodes)
      BY <2>2 DEF HashedOK
    <3> QED
      BY <3>1, <3>2, StartNodesParts
  <2>4. \A list, q : IsParts(list, q)' = IsParts(list, q)
    BY <2>1 DEF IsParts, TotalNode
  <2>5. \A q \in DOMAIN startNodes' : IsParts(startNodes'[q], q)
    BY <2>1, <2>3
  <2>6. \A q \in DOMAIN startNodes' : IsParts(startNodes[q], q)'
    <3> SUFFICES ASSUME NEW q \in DOMAIN startNodes'
                 PROVE  IsParts(startNodes[q], q)'
      OBVIOUS
    <3>1. IsParts(startNodes'[q], q)
      BY <2>5
    <3> QED
      BY <2>1, <3>1 DEF IsParts, TotalNode
  <2>7. HashedOK' = HashedOK /\ CsrOK' = CsrOK
    BY <2>1, FilesKept, CsrKept
  <2>8. GraphsOK'
    BY <2>1 DEF GraphsOK
  <2> QED
    BY <2>1, <2>6, <2>7, <2>8
<1>5. ASSUME NEW p \in PartCount, NEW inEdge \in BOOLEAN, NEW outEdge \in BOOLEAN,
             LoadGraphConfig(p, inEdge, outEdge)
      PROVE  IInv'
  <2>1. /\ UNCHANGED << raw, hashed, csr, startNodes, graphs >>
        /\ stage = "prepare" /\ csr # NoFile /\ stage' = "configured"
    BY <1>5 DEF LoadGraphConfig
  <2>2. HashedOK' = HashedOK /\ CsrOK' = CsrOK
    BY <2>1, FilesKept, CsrKept
  <2>3. ConfigOK'
    <3> DEFINE file == IF p \in DOMAIN startNodes THEN startNodes[p] ELSE << >>
               nodes == [i \in 1 .. p |-> WordRead(file, i)]
    <3>1. /\ config'.partition = p /\ config'.startNodes = nodes
          /\ config'.sizes = Sizes(nodes)
      BY <1>5 DEF LoadGraphConfig
    <3>2. Cut' = file
      BY <2>1, <3>1 DEF Cut
    <3>3. Sizes(nodes)' = Sizes(nodes)
      BY <2>1 DEF Sizes, SizeAt, TotalNode, WordRead
    <3>4. Sizes(config.startNodes)' = Sizes(nodes)
      BY <2>1, <3>1 DEF Sizes, SizeAt, TotalNode
    <3> HIDE DEF file
    <3> QED
      BY <2>1, <3>1, <3>2, <3>4 DEF ConfigOK, WordRead
  <2>4. graphs' = << >> /\ GraphsOK'
    BY <2>1 DEF GraphsOK
  <2>5. \A q \in DOMAIN startNodes : IsParts(startNodes[q], q)'
    BY <2>1 DEF IsParts, TotalNode
  <2> QED
    BY <2>1, <2>2, <2>3, <2>4, <2>5
<1>6. CASE LoadKeys
  <2>1. /\ UNCHANGED << raw, hashed, csr, startNodes, config >>
        /\ stage' = "serving"
        /\ config.partition \in DOMAIN startNodes
        /\ graphs' = [k \in ToSet(config.startNodes) |-> LoadGraph(k)]
    BY <1>6 DEF LoadKeys
  <2>2. HashedOK' = HashedOK /\ CsrOK' = CsrOK
    BY <2>1, FilesKept, CsrKept
  <2>3. ConfigOK'
    <3>1. ConfigOK' = ConfigOK
      BY <2>1 DEF ConfigOK, Cut, Sizes, SizeAt, TotalNode
    <3> QED
      BY <1>6, <3>1 DEF LoadKeys
  <2>4. GraphsOK'
    <3>1. \A k : LoadGraph(k)' = LoadGraph(k)
      BY <2>1, GraphsKept
    <3>2. \A k \in DOMAIN graphs' : k \in ToSet(config.startNodes) /\ graphs'[k] = LoadGraph(k)
      BY <2>1
    <3> QED
      BY <2>1, <2>3, <3>1, <3>2 DEF GraphsOK
  <2>5. \A q \in DOMAIN startNodes : IsParts(startNodes[q], q)'
    BY <2>1 DEF IsParts, TotalNode
  <2> QED
    BY <2>1, <2>2, <2>3, <2>4, <2>5
<1>7. ASSUME UNCHANGED << raw, hashed, csr, startNodes, config, graphs >>,
             stage' = "dead" \/ stage' = stage
      PROVE  IInv'
  <2>1. HashedOK' = HashedOK /\ CsrOK' = CsrOK
    BY <1>7, FilesKept, CsrKept
  <2>2. ConfigOK' = ConfigOK
    BY <1>7 DEF ConfigOK, Cut, Sizes, SizeAt, TotalNode
  <2>3. GraphsOK' = GraphsOK
    BY <1>7, <2>2, GraphsKept DEF GraphsOK
  <2>4. \A q \in DOMAIN startNodes : IsParts(startNodes[q], q)'
    BY <1>7 DEF IsParts, TotalNode
  <2> QED
    BY <1>7, <2>1, <2>2, <2>3, <2>4
<1>8. CASE LoadKeysPanics
  BY <1>7, <1>8 DEF LoadKeysPanics
<1>9. CASE UNCHANGED vars
  BY <1>7, <1>9 DEF vars
<1> QED
  BY <1>1, <1>2, <1>3, <1>4, <1>5, <1>6, <1>8, <1>9 DEF Next

-----------------------------------------------------------------------------
(***************************************************************************)
(* Controller and executors read the same parts.                           *)
(***************************************************************************)

\* The size of a key is that of its last place in the list.
LastSizes(sizes, nodes, p) ==
  /\ DOMAIN sizes = { nodes[i] : i \in 1 .. p }
  /\ \A k \in DOMAIN sizes : \E i \in 1 .. p :
       /\ nodes[i] = k /\ \A j \in 1 .. p : nodes[j] = k => j <= i
       /\ sizes[k] = SizeAt(nodes, i)

\* config.SIZES is a map by key: a later size replaces an earlier one.
LEMMA SizesRead ==
  ASSUME NEW p \in Nat \ {0}, NEW nodes \in Seq(Nat), Len(nodes) = p
  PROVE  LastSizes(Sizes(nodes), nodes, p)
<1>1. DOMAIN nodes = 1 .. p
  OBVIOUS
<1>2. ToSet(nodes) = { nodes[i] : i \in 1 .. p }
  BY <1>1 DEF ToSet
<1>3. DOMAIN Sizes(nodes) = ToSet(nodes)
  BY DEF Sizes
<1>4. ASSUME NEW k \in ToSet(nodes)
      PROVE  \E i \in 1 .. p :
               /\ nodes[i] = k /\ \A j \in 1 .. p : nodes[j] = k => j <= i
               /\ Sizes(nodes)[k] = SizeAt(nodes, i)
  <2> DEFINE at == { i \in DOMAIN nodes : nodes[i] = k }
  <2>1. at \in SUBSET Nat /\ at # {}
    BY <1>1, <1>2
  <2>2. IsFiniteSet(at)
    <3>1. IsFiniteSet(1 .. p) /\ at \subseteq 1 .. p
      BY <1>1, FS_Interval
    <3> QED
      BY <3>1, FS_Subset
  <2>3. Sizes(nodes)[k] = SizeAt(nodes, Largest(at))
    BY DEF Sizes
  <2>4. Largest(at) \in at /\ \A y \in at : y <= Largest(at)
    <3> HIDE DEF at
    <3> QED
      BY <2>1, <2>2, LargestIs
  <2>5. PICK i \in at : i = Largest(at) /\ \A y \in at : y <= i
    <3> HIDE DEF at
    <3> QED
      BY <2>4
  <2> QED
    BY <1>1, <2>3, <2>5
<1> QED
  BY <1>2, <1>3, <1>4 DEF LastSizes

\* The sizes of the controller are those of the parts.
CutBy(sizes, list) ==
  /\ \A k \in DOMAIN sizes :
       \/ k = TotalNode /\ sizes[k] = 0
       \/ \E i \in 1 .. Len(list) - 1 : k = list[i] /\ sizes[k] = list[i + 1] - list[i]
  /\ \A i \in 1 .. Len(list) - 1 : list[i] \in DOMAIN sizes

\* common/config.go, when the file of the split is there.  Past its end the last word,
\* which is the end of the graph, is read again; the key it makes is of size 0.
LEMMA SizesCut ==
  ASSUME TotalNode \in Nat, NEW p \in Nat \ {0}, NEW list, IsParts(list, p)
  PROVE  CutBy(Sizes([i \in 1 .. p |-> WordRead(list, i)]), list)
<1>1. PICK N \in Nat : N = TotalNode
  OBVIOUS
<1>2. PICK n \in Nat : n = Len(list) /\ n >= 1 /\ n <= p + 1
  BY DEF IsParts
<1>3. /\ \A i \in 1 .. n : list[i] \in 0 .. N
      /\ list[1] = 0 /\ list[n] = N /\ list # << >>
      /\ \A i, j \in 1 .. n : i < j => list[i] < list[j]
  BY <1>1, <1>2 DEF IsParts
<1>4. PICK nodes : nodes = [i \in 1 .. p |-> WordRead(list, i)]
  OBVIOUS
<1>5. \A i \in 1 .. p : nodes[i] = IF i <= n THEN list[i] ELSE N
  BY <1>1, <1>2, <1>3, <1>4 DEF WordRead, Last
<1>6. nodes \in Seq(Nat) /\ Len(nodes) = p
  <2>1. \A i \in 1 .. p : nodes[i] \in Nat
    <3> SUFFICES ASSUME NEW i \in 1 .. p
                 PROVE  nodes[i] \in Nat
      OBVIOUS
    <3>1. CASE i <= n
      <4>1. i \in 1 .. n
        BY <3>1
      <4>2. list[i] \in 0 .. N
        BY <1>3, <4>1
      <4> QED
        BY <1>5, <3>1, <4>2
    <3>2. CASE ~ (i <= n)
      BY <1>5, <3>2
    <3> QED
      BY <3>1, <3>2
  <2>2. nodes = [i \in 1 .. p |-> nodes[i]]
    BY <1>4
  <2> QED
    BY <2>1, <2>2
<1>7. PICK sizes : sizes = Sizes(nodes)
  OBVIOUS
<1>8. /\ DOMAIN sizes = { nodes[i] : i \in 1 .. p }
      /\ \A k \in DOMAIN sizes : \E i \in 1 .. p :
           /\ nodes[i] = k /\ \A j \in 1 .. p : nodes[j] = k => j <= i
           /\ sizes[k] = SizeAt(nodes, i)
  <2>1. LastSizes(Sizes(nodes), nodes, p)
    BY <1>6, SizesRead
  <2> QED
    BY <1>7, <2>1 DEF LastSizes
<1>9. ASSUME NEW k \in DOMAIN sizes
      PROVE  \/ k = N /\ sizes[k] = 0
             \/ \E i \in 1 .. n - 1 : k = list[i] /\ sizes[k] = list[i + 1] - list[i]
  <2>1. PICK i \in 1 .. p : /\ nodes[i] = k /\ \A j \in 1 .. p : nodes[j] = k => j <= i
                            /\ sizes[k] = SizeAt(nodes, i)
    BY <1>8
  <2>2. sizes[k] = (IF i = p THEN N ELSE nodes[i + 1]) - nodes[i]
    BY <1>1, <1>6, <2>1 DEF SizeAt
  <2>3. CASE i < n
    <3>1. nodes[i] = list[i] /\ i \in 1 .. n - 1
      BY <1>2, <1>5, <2>3
    <3>2. (IF i = p THEN N ELSE nodes[i + 1]) = list[i + 1]
      <4>1. CASE i = p
        <5>1. i + 1 = n
          BY <1>2, <2>3, <4>1
        <5> QED
          BY <1>3, <4>1, <5>1
      <4>2. CASE i # p
        <5>1. i + 1 \in 1 .. p /\ i + 1 <= n
          BY <1>2, <2>3, <4>2
        <5> QED
          BY <1>5, <4>2, <5>1
      <4> QED
        BY <4>1, <4>2
    <3> QED
      BY <2>1, <2>2, <3>1, <3>2
  <2>4. CASE i >= n
    <3>1. nodes[i] = N
      <4>1. CASE i = n
        BY <1>3, <1>5, <4>1
      <4>2. CASE i # n
        <5>1. ~ (i <= n)
          BY <1>2, <2>4, <4>2
        <5> QED
          BY <1>5, <5>1
      <4> QED
        BY <4>1, <4>2
    <3>2. nodes[p] = N /\ p \in 1 .. p
      <4>1. CASE p = n
        BY <1>3, <1>5, <4>1
      <4>2. CASE p # n
        <5>1. ~ (p <= n) /\ p \in 1 .. p
          BY <1>2, <2>4, <4>2
        <5> QED
          BY <1>5, <5>1
      <4> QED
        BY <4>1, <4>2
    <3>3. i = p
      <4>1. p <= i
        BY <2>1, <3>1, <3>2
      <4> QED
        BY <4>1
    <3> QED
      BY <2>1, <2>2, <3>1, <3>3
  <2> QED
    BY <1>2, <2>3, <2>4
<1>10. ASSUME NEW i \in 1 .. n - 1
       PROVE  list[i] \in DOMAIN sizes
  <2>1. i \in 1 .. p /\ i <= n
    BY <1>2
  <2>2. nodes[i] = list[i]
    BY <1>5, <2>1
  <2> QED
    BY <1>8, <2>1, <2>2
<1>11. CutBy(sizes, list)
  BY <1>1, <1>2, <1>9, <1>10 DEF CutBy
<1> QED
  BY <1>4, <1>7, <1>11

\* common/config.go without a file: one part, the whole graph.
LEMMA SizesWhole ==
  ASSUME TotalNode \in Nat, NEW p \in Nat \ {0}
  PROVE  \E list : IsParts(list, p) /\ CutBy(Sizes([i \in 1 .. p |-> WordRead(<< >>, i)]), list)
<1>1. PICK N \in Nat : N = TotalNode
  OBVIOUS
<1>2. PICK nodes : nodes = [i \in 1 .. p |-> 0]
  OBVIOUS
<1>3. [i \in 1 .. p |-> WordRead(<< >>, i)] = nodes
  BY <1>2 DEF WordRead
<1>4. nodes \in Seq(Nat) /\ Len(nodes) = p /\ \A i \in 1 .. p : nodes[i] = 0
  BY <1>2
<1>5. PICK sizes : sizes = Sizes(nodes)
  OBVIOUS
<1>6. DOMAIN sizes = {0} /\ sizes[0] = N
  <2>1. /\ DOMAIN sizes = { nodes[i] : i \in 1 .. p }
        /\ \A k \in DOMAIN sizes : \E i \in 1 .. p :
             /\ nodes[i] = k /\ \A j \in 1 .. p : nodes[j] = k => j <= i
             /\ sizes[k] = SizeAt(nodes, i)
    <3>1. LastSizes(Sizes(nodes), nodes, p)
      BY <1>4, SizesRead
    <3> QED
      BY <1>5, <3>1 DEF LastSizes
  <2>2. p \in 1 .. p
    OBVIOUS
  <2>3. DOMAIN sizes = {0}
    BY <1>4, <2>1, <2>2
  <2>4. PICK i \in 1 .. p : (\A j \in 1 .. p : nodes[j] = 0 => j <= i) /\ sizes[0] = SizeAt(nodes, i)
    BY <2>1, <2>3
  <2>5. p <= i
    BY <1>4, <2>2, <2>4
  <2>6. i = p
    BY <2>5
  <2> QED
    BY <1>1, <1>4, <2>3, <2>4, <2>6 DEF SizeAt
<1>7. CASE N = 0
  <2>1. PICK list : list = << 0 >>
    OBVIOUS
  <2>2. list \in Seq(0 .. N) /\ Len(list) = 1 /\ list[1] = 0
    BY <2>1
  <2>3. IsParts(list, p)
    BY <1>1, <1>7, <2>2 DEF IsParts
  <2>4. CutBy(sizes, list)
    BY <1>1, <1>6, <1>7, <2>2 DEF CutBy
  <2> QED
    BY <1>3, <1>5, <2>3, <2>4
<1>8. CASE N # 0
  <2>1. PICK list : list = << 0, N >>
    OBVIOUS
  <2>2. list \in Seq(0 .. N) /\ Len(list) = 2 /\ list[1] = 0 /\ list[2] = N
    BY <2>1
  <2>3. IsParts(list, p)
    <3>1. \A i, j \in 1 .. 2 : i < j => list[i] < list[j]
      <4>1. \A i, j \in 1 .. 2 : i < j => i = 1 /\ j = 2
        OBVIOUS
      <4> QED
        BY <1>8, <2>2, <4>1
    <3> QED
      BY <1>1, <2>2, <3>1 DEF IsParts
  <2>4. CutBy(sizes, list)
    <3>1. 1 .. Len(list) - 1 = {1}
      BY <2>2
    <3>2. list[1] = 0 /\ list[1 + 1] - list[1] = N
      BY <2>2
    <3> QED
      BY <1>6, <3>1, <3>2 DEF CutBy
  <2> QED
    BY <1>3, <1>5, <2>3, <2>4
<1> QED
  BY <1>7, <1>8

\* Each vertex is in one part.
LEMMA CutOnce ==
  ASSUME TotalNode \in Nat, NEW p \in Nat \ {0}, NEW list, IsParts(list, p),
         NEW sizes, CutBy(sizes, list), NEW v \in Nodes
  PROVE  Count({ k \in DOMAIN sizes : k <= v /\ v < k + sizes[k] }) = 1
<1>1. PICK N \in Nat : N = TotalNode
  OBVIOUS
<1>2. PICK n \in Nat : n = Len(list) /\ n >= 1
  BY DEF IsParts
<1>3. /\ \A i \in 1 .. n : list[i] \in 0 .. N
      /\ list[1] = 0 /\ list[n] = N
      /\ \A i, j \in 1 .. n : i < j => list[i] < list[j]
  BY <1>1, <1>2 DEF IsParts
<1>4. v \in 0 .. N - 1
  BY <1>1 DEF Nodes
<1> DEFINE before == { i \in 1 .. n : list[i] <= v }
<1>5. PICK i \in before : \A j \in before : j <= i
  <2>1. before \in SUBSET Nat /\ 1 \in before
    BY <1>2, <1>3, <1>4
  <2>2. IsFiniteSet(before)
    <3>1. IsFiniteSet(1 .. n) /\ before \subseteq 1 .. n
      BY FS_Interval
    <3> QED
      BY <3>1, FS_Subset
  <2> HIDE DEF before
  <2> QED
    BY <2>1, <2>2, LargestIs
<1>6. i \in 1 .. n /\ list[i] <= v /\ i # n
  BY <1>3, <1>4, <1>5
<1>7. i + 1 \in 1 .. n /\ i \in 1 .. n - 1 /\ ~ (list[i + 1] <= v)
  <2>1. i + 1 \in 1 .. n /\ i \in 1 .. n - 1 /\ ~ (i + 1 <= i)
    BY <1>6
  <2>2. i + 1 \notin before
    BY <1>5, <2>1
  <2> QED
    BY <2>1, <2>2
<1>8. list[i] \in 0 .. N /\ list[i + 1] \in 0 .. N /\ v < list[i + 1]
  BY <1>3, <1>4, <1>6, <1>7
<1>9. /\ \A k \in DOMAIN sizes :
           \/ k = N /\ sizes[k] = 0
           \/ \E j \in 1 .. n - 1 : k = list[j] /\ sizes[k] = list[j + 1] - list[j]
      /\ list[i] \in DOMAIN sizes
  BY <1>1, <1>2, <1>7 DEF CutBy
<1>10. ASSUME NEW k \in DOMAIN sizes
       PROVE  k <= v /\ v < k + sizes[k] <=> k = list[i]
  <2>1. CASE k = N /\ sizes[k] = 0
    BY <1>4, <1>6, <2>1
  <2>2. ASSUME NEW j \in 1 .. n - 1, k = list[j], sizes[k] = list[j + 1] - list[j]
        PROVE  k <= v /\ v < k + sizes[k] <=> k = list[i]
    <3>1. j \in 1 .. n /\ j + 1 \in 1 .. n
      BY <1>2
    <3>2. list[j] \in 0 .. N /\ list[j + 1] \in 0 .. N
      BY <1>3, <3>1
    <3>3. CASE j = i
      BY <1>6, <1>8, <2>2, <3>2, <3>3
    <3>4. CASE j < i
      <4>1. list[j] < list[i] /\ list[j + 1] <= list[i]
        <5>1. CASE j + 1 = i
          BY <1>3, <1>6, <3>1, <3>4, <5>1, <1>8
        <5>2. CASE j + 1 < i
          <6>1. list[j] < list[i] /\ list[j + 1] < list[i]
            BY <1>3, <1>6, <3>1, <3>4, <5>2
          <6> QED
            BY <1>8, <3>2, <6>1
        <5> QED
          BY <1>6, <3>4, <5>1, <5>2
      <4> QED
        BY <1>4, <1>6, <1>8, <2>2, <3>2, <4>1
    <3>5. CASE i < j
      <4>1. list[i] < list[j] /\ list[i + 1] <= list[j]
        <5>1. CASE i + 1 = j
          BY <1>3, <1>6, <3>1, <3>5, <5>1, <3>2
        <5>2. CASE i + 1 < j
          <6>1. list[i] < list[j] /\ list[i + 1] < list[j]
            BY <1>3, <1>6, <1>7, <3>1, <3>5, <5>2
          <6> QED
            BY <1>8, <3>2, <6>1
        <5> QED
          BY <1>6, <3>5, <5>1, <5>2
      <4> QED
        BY <1>4, <1>6, <1>8, <2>2, <3>2, <4>1
    <3> QED
      BY <1>6, <3>3, <3>4, <3>5
  <2> QED
    BY <1>9, <2>1, <2>2
<1>11. { k \in DOMAIN sizes : k <= v /\ v < k + sizes[k] } = {list[i]}
  BY <1>9, <1>10, Zenon
<1> QED
  BY <1>11, FS_Singleton DEF Count

\* GetKeyFromFile: the part that begins at a start node ends at the next one.
LEMMA StopNodeIs ==
  ASSUME TotalNode \in Nat, NEW p, NEW list, list = startNodes[config.partition],
         IsParts(list, p), NEW i \in 1 .. Len(list)
  PROVE  StopNode(list[i]) = IF i < Len(list) THEN list[i + 1] ELSE TotalNode
<1>1. PICK N \in Nat : N = TotalNode
  OBVIOUS
<1>2. PICK n \in Nat : n = Len(list) /\ n >= 1 /\ i \in 1 .. n
  BY DEF IsParts
<1>3. /\ \A j \in 1 .. n : list[j] \in 0 .. N
      /\ list[n] = N /\ list \in Seq(0 .. N)
      /\ \A j, m \in 1 .. n : j < m => list[j] < list[m]
  BY <1>1, <1>2, SMTT(30) DEF IsParts
<1>4. PICK more : more = list \o << N >>
  OBVIOUS
<1>5. /\ DOMAIN more = 1 .. n + 1 /\ more[n + 1] = N
      /\ \A j \in 1 .. n : more[j] = list[j]
  <2>1. << N >> \in Seq(0 .. N) /\ Len(<< N >>) = 1 /\ << N >>[1] = N
    OBVIOUS
  <2>2. /\ more \in Seq(0 .. N) /\ Len(more) = n + 1
        /\ \A j \in 1 .. n + 1 : more[j] = IF j <= n THEN list[j] ELSE << N >>[j - n]
    BY <1>2, <1>3, <1>4, <2>1, ConcatProperties
  <2>3. n + 1 \in 1 .. n + 1 /\ ~ (n + 1 <= n) /\ (n + 1) - n = 1
    OBVIOUS
  <2> QED
    BY <2>1, <2>2, <2>3
<1> DEFINE first(x) == more[x] = list[i] /\ \A j \in DOMAIN more : more[j] = list[i] => x <= j
<1>6. i \in DOMAIN more /\ first(i)
  <2>1. i \in DOMAIN more /\ more[i] = list[i]
    BY <1>2, <1>5
  <2>2. ASSUME NEW j \in DOMAIN more, more[j] = list[i]
        PROVE  i <= j
    <3>1. CASE j = n + 1
      BY <1>2, <3>1
    <3>2. CASE j # n + 1
      <4>1. j \in 1 .. n /\ list[j] = list[i]
        BY <1>5, <2>2, <3>2
      <4>2. list[j] \in 0 .. N /\ list[i] \in 0 .. N /\ ~ (list[j] < list[i])
        BY <1>2, <1>3, <4>1
      <4>3. ~ (j < i)
        BY <1>2, <1>3, <4>1, <4>2
      <4> QED
        BY <1>2, <4>1, <4>3
    <3> QED
      BY <3>1, <3>2
  <2> QED
    BY <2>1, <2>2
<1>7. \A x \in DOMAIN more : first(x) => x = i
  BY <1>5, <1>6
<1>8. (CHOOSE x \in DOMAIN more : first(x)) = i
  <2> HIDE DEF first
  <2> QED
    BY <1>6, <1>7
<1>9. StopNode(list[i]) = more[i + 1]
  BY <1>1, <1>4, <1>8 DEF StopNode
<1>10. more[i + 1] = IF i < n THEN list[i + 1] ELSE N
  <2>1. CASE i < n
    <3>1. i + 1 \in 1 .. n
      BY <1>2, <2>1
    <3> QED
      BY <1>5, <2>1, <3>1
  <2>2. CASE ~ (i < n)
    <3>1. i + 1 = n + 1
      BY <1>2, <2>2
    <3> QED
      BY <1>5, <2>2, <3>1
  <2> QED
    BY <2>1, <2>2
<1> QED
  BY <1>1, <1>2, <1>9, <1>10

\* An executor holds the vertices that the controller counts for its key.
LEMMA KeyStops ==
  ASSUME IInv, NEW k \in DOMAIN graphs
  PROVE  /\ k \in 0 .. TotalNode
         /\ StopNode(k) \in k .. TotalNode
         /\ config.sizes[k] = StopNode(k) - k
<1>1. PICK N \in Nat : N = TotalNode
  BY FileFacts DEF IInv
<1>2. PICK p \in Nat \ {0} : p = config.partition /\ p \in DOMAIN startNodes
  BY DataAssumption DEF IInv, ConfigOK, GraphsOK
<1>3. PICK list : list = startNodes[p] /\ IsParts(list, p)
  BY <1>2 DEF IInv
<1>4. PICK n \in Nat : n = Len(list) /\ n >= 1 /\ n <= p + 1
  BY <1>3 DEF IsParts
<1>5. /\ \A j \in 1 .. n : list[j] \in 0 .. N
      /\ list[n] = N /\ list # << >>
      /\ \A j, m \in 1 .. n : j < m => list[j] < list[m]
  BY <1>1, <1>3, <1>4 DEF IsParts
<1>6. PICK nodes : nodes = [i \in 1 .. p |-> WordRead(list, i)]
  OBVIOUS
<1>7. config.startNodes = nodes /\ k \in ToSet(nodes)
  BY <1>2, <1>3, <1>6 DEF IInv, ConfigOK, GraphsOK, Cut
<1>8. PICK sizes : sizes = config.sizes /\ CutBy(sizes, list)
  <2>1. TotalNode \in Nat
    BY <1>1
  <2>2. CutBy(Sizes(nodes), list)
    BY <1>3, <1>6, <2>1, SizesCut
  <2> QED
    BY <1>7, <2>2 DEF IInv, ConfigOK, GraphsOK
<1>9. k \in DOMAIN sizes
  BY <1>7, <1>8 DEF IInv, ConfigOK, GraphsOK, Sizes
<1>10. PICK i \in 1 .. n : k = list[i]
  <2>1. PICK x \in 1 .. p : k = WordRead(list, x)
    BY <1>6, <1>7 DEF ToSet
  <2>2. CASE x <= n
    <3>1. x \in 1 .. n /\ k = list[x]
      BY <1>4, <1>5, <2>1, <2>2 DEF WordRead
    <3> QED
      BY <3>1
  <2>3. CASE ~ (x <= n)
    <3>1. n \in 1 .. n /\ k = list[n]
      BY <1>4, <1>5, <2>1, <2>3 DEF WordRead, Last
    <3> QED
      BY <3>1
  <2> QED
    BY <2>2, <2>3
<1>11. StopNode(k) = IF i < n THEN list[i + 1] ELSE N
  <2>1. TotalNode \in Nat /\ list = startNodes[config.partition] /\ i \in 1 .. Len(list)
    BY <1>1, <1>2, <1>3, <1>4, <1>10
  <2> QED
    BY <1>1, <1>3, <1>4, <1>10, <2>1, StopNodeIs
<1>12. \/ k = N /\ sizes[k] = 0
       \/ \E j \in 1 .. n - 1 : k = list[j] /\ sizes[k] = list[j + 1] - list[j]
  BY <1>1, <1>4, <1>8, <1>9 DEF CutBy
<1>13. CASE i = n
  <2>1. k = N /\ StopNode(k) = N
    BY <1>5, <1>10, <1>11, <1>13
  <2>2. ASSUME NEW j \in 1 .. n - 1, k = list[j]
        PROVE  FALSE
    <3>1. j \in 1 .. n /\ n \in 1 .. n /\ j < n
      BY <1>4
    <3>2. list[j] < list[n] /\ list[j] \in 0 .. N
      BY <1>5, <3>1
    <3> QED
      BY <1>5, <2>1, <2>2, <3>2
  <2>3. sizes[k] = 0
    BY <1>12, <2>2
  <2> QED
    BY <1>1, <1>8, <2>1, <2>3
<1>14. CASE i # n
  <2>1. i < n /\ i + 1 \in 1 .. n /\ n \in 1 .. n
    BY <1>4, <1>10, <1>14
  <2>2. /\ list[i] < list[i + 1] /\ list[i] < list[n]
        /\ list[i] \in 0 .. N /\ list[i + 1] \in 0 .. N
    BY <1>5, <1>10, <2>1
  <2>3. k # N
    BY <1>5, <1>10, <2>2
  <2>4. PICK j \in 1 .. n - 1 : k = list[j] /\ sizes[k] = list[j + 1] - list[j]
    BY <1>12, <2>3
  <2>5. j = i
    <3>1. j \in 1 .. n /\ list[j] = list[i] /\ list[j] \in 0 .. N
      BY <1>5, <1>10, <2>4
    <3>2. ~ (j < i) /\ ~ (i < j)
      BY <1>5, <1>10, <3>1
    <3> QED
      BY <1>4, <1>10, <3>1, <3>2
  <2> QED
    BY <1>1, <1>8, <1>10, <1>11, <2>1, <2>2, <2>4, <2>5
<1> QED
  BY <1>13, <1>14

\* Offsets of a partition, before they are made local.
LEMMA OffsetsRead ==
  ASSUME IInv, csr # NoFile
  PROVE  /\ TotalNode \in Nat
         /\ IsOffsets(csr.inOffset, InDegree(csr.directed))
         /\ IsOffsets(csr.outOffset, OutDegree(csr.directed))
         /\ InDegree(csr.directed) \in [Nodes -> Nat]
         /\ OutDegree(csr.directed) \in [Nodes -> Nat]
<1>1. TotalNode \in Nat /\ CsrOK /\ HashedOK
  BY FileFacts DEF IInv, CsrOK
<1>2. csr.directed \in BOOLEAN /\ hashed \in Seq(Nodes \X Nodes)
  BY <1>1 DEF CsrOK, HashedOK
<1>3. PICK in \in [Nodes -> Nat], out \in [Nodes -> Nat] :
        in = InDegree(csr.directed) /\ out = OutDegree(csr.directed)
  BY <1>1, <1>2, DegreeSum
<1>4. IsOffsets(Offsets(in), in) /\ IsOffsets(Offsets(out), out)
  BY <1>1, OffsetsSum
<1> QED
  BY <1>1, <1>3, <1>4 DEF CsrOK

\* A cut of the offset file has one offset more than vertices.
LEMMA SegmentLength ==
  ASSUME TotalNode \in Nat, NEW offset \in Seq(Nat), Len(offset) = TotalNode + 1,
         NEW k \in 0 .. TotalNode, NEW e \in k .. TotalNode
  PROVE  /\ SubSeq(offset, k + 1, e + 1) \in Seq(Nat)
         /\ Len(SubSeq(offset, k + 1, e + 1)) = e - k + 1
         /\ \A i \in 1 .. e - k + 1 : SubSeq(offset, k + 1, e + 1)[i] = offset[k + i]
<1>1. k + 1 \in Int /\ e + 1 \in Int /\ k + 1 <= e + 1 /\ (e + 1) - (k + 1) + 1 = e - k + 1
  OBVIOUS
<1>2. \A i \in k + 1 .. e + 1 : offset[i] \in Nat
  <2>1. \A i \in k + 1 .. e + 1 : i \in 1 .. TotalNode + 1
    OBVIOUS
  <2> QED
    BY <2>1
<1>3. PICK s : s = SubSeq(offset, k + 1, e + 1)
  OBVIOUS
<1>4. /\ s \in Seq(Nat) /\ Len(s) = e - k + 1
      /\ \A i \in 1 .. e - k + 1 : s[i] = offset[k + 1 + i - 1]
  BY <1>1, <1>2, <1>3, SubSeqProperties
<1>5. \A i \in 1 .. e - k + 1 : k + 1 + i - 1 = k + i
  OBVIOUS
<1> QED
  BY <1>3, <1>4, <1>5

\* An executor has one offset more than its key has vertices.
LEMMA LocalLength ==
  ASSUME IInv, NEW k \in DOMAIN graphs
  PROVE  Len(graphs[k].inOffset) = config.sizes[k] + 1
<1>1. /\ k \in 0 .. TotalNode /\ StopNode(k) \in k .. TotalNode
      /\ config.sizes[k] = StopNode(k) - k
  BY KeyStops
<1>2. csr # NoFile
  BY DEF IInv, ConfigOK, GraphsOK
<1>3. TotalNode \in Nat /\ csr.inOffset \in Seq(Nat) /\ Len(csr.inOffset) = TotalNode + 1
  BY <1>2, OffsetsRead DEF IsOffsets
<1>4. PICK s : s = SubSeq(csr.inOffset, k + 1, StopNode(k) + 1)
  OBVIOUS
<1>5. s \in Seq(Nat) /\ Len(s) = StopNode(k) - k + 1
  BY <1>1, <1>3, <1>4, SegmentLength
<1>6. graphs[k].inOffset = LocalOffset(s)
  BY <1>4 DEF IInv, GraphsOK, LoadGraph
<1>7. Len(LocalOffset(s)) = Len(s)
  BY <1>5 DEF LocalOffset
<1> QED
  BY <1>1, <1>5, <1>6, <1>7

-----------------------------------------------------------------------------
(***************************************************************************)
(* Theorems.                                                               *)
(***************************************************************************)

\* Every file is what the code computes from the files before it, the start nodes of a
\* split are parts of the graph, and no graph of an executor is older than its files.
THEOREM PreparationInvariant == Spec => []IInv
<1>1. Init => IInv
  BY InvariantStarts
<1>2. IInv /\ [Next]_vars => IInv'
  BY InvariantStep
<1> QED
  BY <1>1, <1>2, PTL DEF Spec

\* The hashed file, the offsets of the CSR files and the start nodes are in their ranges:
\* vertices below TOTAL_VERTEX, one offset per vertex and one more.
THEOREM PreparationTypes == Spec => []TypeOK
<1>1. IInv => TypeOK
  <2> SUFFICES ASSUME IInv
               PROVE  TypeOK
    OBVIOUS
  <2>1. hashed # NoFile => hashed \in Seq(Nodes \X Nodes)
    BY DEF IInv, HashedOK
  <2>2. csr # NoFile => \A offset \in {csr.inOffset, csr.outOffset} :
                          offset \in Seq(Nat) /\ Len(offset) = TotalNode + 1
    BY OffsetsRead DEF IsOffsets
  <2>3. \A p \in DOMAIN startNodes : startNodes[p] \in Seq(0 .. TotalNode)
    BY DEF IInv, IsParts
  <2> QED
    BY <2>1, <2>2, <2>3 DEF IInv, TypeOK
<1> QED
  BY <1>1, PreparationInvariant, PTL

\* hash.go loses no edge and adds none, and numbers the vertices of the text from 0
\* without a gap in the order of their ids.
THEOREM HashingKeepsGraph == Spec => []HashKeepsGraph
<1>1. IInv => HashKeepsGraph
  BY DEF IInv, HashedOK, HashKeepsGraph, Below
<1> QED
  BY <1>1, PreparationInvariant, PTL

\* The sizes the controller counts queues by and the ranges the executors load are the
\* same, and every vertex is in one of them: also when a skewed graph falls into fewer
\* parts than PARTITION, or PARTITION has no file.
THEOREM VerticesInOnePart == Spec => []EachVertexOnce
<1>1. IInv => EachVertexOnce
  <2> SUFFICES ASSUME IInv, config # NoFile
               PROVE  /\ \A v \in Nodes :
                           Count({ k \in DOMAIN config.sizes :
                                     k <= v /\ v < k + config.sizes[k] }) = 1
                      /\ \A k \in DOMAIN graphs :
                           Len(graphs[k].inOffset) = config.sizes[k] + 1
    BY DEF EachVertexOnce
  <2>1. TotalNode \in Nat
    BY FileFacts DEF IInv
  <2>2. PICK p \in Nat \ {0} : p = config.partition
    BY DataAssumption DEF IInv, ConfigOK
  <2>3. /\ config.startNodes = [i \in 1 .. p |-> WordRead(Cut, i)]
        /\ config.sizes = Sizes(config.startNodes)
    BY <2>2 DEF IInv, ConfigOK
  <2>4. PICK list : IsParts(list, p) /\ CutBy(config.sizes, list)
    <3>1. CASE p \in DOMAIN startNodes
      <4>1. PICK l : l = startNodes[p] /\ IsParts(l, p)
        BY <3>1 DEF IInv
      <4>2. Cut = l
        BY <2>2, <3>1, <4>1 DEF Cut
      <4>3. CutBy(Sizes([i \in 1 .. p |-> WordRead(l, i)]), l)
        BY <2>1, <4>1, SizesCut
      <4> QED
        BY <2>3, <4>1, <4>2, <4>3
    <3>2. CASE p \notin DOMAIN startNodes
      <4>1. Cut = << >>
        BY <2>2, <3>2 DEF Cut
      <4>2. PICK l : /\ IsParts(l, p)
                     /\ CutBy(Sizes([i \in 1 .. p |-> WordRead(<< >>, i)]), l)
        BY <2>1, SizesWhole
      <4> QED
        BY <2>3, <4>1, <4>2
    <3> QED
      BY <3>1, <3>2
  <2>5. \A v \in Nodes : Count({ k \in DOMAIN config.sizes :
                                   k <= v /\ v < k + config.sizes[k] }) = 1
    BY <2>1, <2>4, CutOnce
  <2> QED
    BY <2>5, LocalLength
<1> QED
  BY <1>1, PreparationInvariant, PTL

-----------------------------------------------------------------------------
(***************************************************************************)
(* The arcs that txt2csr.go adds: one for every line, and the opposite one *)
(* after it if the graph is undirected.                                    *)
(***************************************************************************)
CountIs(S, n) == IsFiniteSet(S) /\ Count(S) = n /\ n \in Nat

\* Positions can be counted.
LEMMA CountOf ==
  ASSUME NEW n \in Nat, NEW S \in SUBSET (1 .. n)
  PROVE  CountIs(S, Count(S))
<1>1. IsFiniteSet(1 .. n)
  BY FS_Interval
<1>2. IsFiniteSet(S)
  BY <1>1, FS_Subset
<1> QED
  BY <1>2, FS_CardinalityType DEF CountIs, Count

\* One more.
LEMMA CountAdd ==
  ASSUME NEW S, NEW n, CountIs(S, n), NEW x, x \notin S
  PROVE  CountIs(S \cup {x}, n + 1)
<1>1. IsFiniteSet(S \cup {x}) /\ Cardinality(S \cup {x}) = Cardinality(S) + 1
  BY FS_AddElement DEF CountIs
<1> QED
  BY <1>1 DEF CountIs, Count

\* Nothing to count.
LEMMA CountNone == CountIs({}, 0)
  BY FS_EmptySet DEF CountIs, Count

\* Numbers up to 2n, odd and even.
LEMMA Halves ==
  ASSUME NEW n \in Nat, NEW S \in SUBSET (1 .. 2 * n)
  PROVE  Count(S) = Count({ i \in 1 .. n : 2 * i - 1 \in S }) + Count({ i \in 1 .. n : 2 * i \in S })
<1> DEFINE all(m) == { x \in S : x <= 2 * m }
           odd(m) == { i \in 1 .. m : 2 * i - 1 \in S }
           even(m) == { i \in 1 .. m : 2 * i \in S }
           Good(m) == \E a, b \in Nat : /\ CountIs(odd(m), a) /\ CountIs(even(m), b)
                                        /\ CountIs(all(m), a + b)
           P == { m \in Nat : m <= n => Good(m) }
<1>0. \A x \in S : x \in Nat /\ x >= 1 /\ x <= 2 * n
  OBVIOUS
<1>1. 0 \in P
  <2>1. all(0) = {} /\ odd(0) = {} /\ even(0) = {}
    <3>1. \A x \in S : ~ (x <= 2 * 0)
      BY <1>0
    <3>2. 1 .. 0 = {}
      OBVIOUS
    <3> QED
      BY <3>1, <3>2, Zenon
  <2>2. Good(0)
    <3>1. 0 \in Nat /\ 0 + 0 = 0
      OBVIOUS
    <3> HIDE DEF all, odd, even
    <3>2. CountIs(odd(0), 0) /\ CountIs(even(0), 0) /\ CountIs(all(0), 0 + 0)
      BY <2>1, <3>1, CountNone
    <3> QED
      BY <3>1, <3>2
  <2> HIDE DEF Good
  <2> QED
    BY <2>2
<1>2. ASSUME NEW m \in Nat, m \in P
      PROVE  m + 1 \in P
  <2> HIDE DEF Good
  <2> SUFFICES ASSUME m + 1 <= n
               PROVE  Good(m + 1)
    OBVIOUS
  <2>0. Good(m)
    BY <1>2
  <2> USE DEF Good
  <2>1. PICK a \in Nat, b \in Nat : CountIs(odd(m), a) /\ CountIs(even(m), b) /\ CountIs(all(m), a + b)
    <3> HIDE DEF odd, even, all
    <3> QED
      BY <2>0
  <2>2. PICK p \in Nat : p = 2 * m + 1
    OBVIOUS
  <2>3. 2 * (m + 1) - 1 = p /\ 2 * (m + 1) = p + 1 /\ m + 1 \in Nat /\ 2 * m = p - 1
    BY <2>2
  <2>4. \E c \in Nat : CountIs(odd(m + 1), c) /\ CountIs(all(m) \cup ({p} \cap S), c + b)
    <3>1. CASE p \in S
      <4>1. odd(m + 1) = odd(m) \cup {m + 1} /\ m + 1 \notin odd(m)
        BY <2>3, <3>1
      <4>2. {p} \cap S = {p} /\ p \notin all(m)
        BY <2>3, <3>1
      <4>3. CountIs(odd(m) \cup {m + 1}, a + 1)
        <5> HIDE DEF odd
        <5> QED
          BY <2>1, <4>1, CountAdd
      <4>4. CountIs(all(m) \cup {p}, (a + b) + 1)
        <5> HIDE DEF all
        <5> QED
          BY <2>1, <4>2, CountAdd
      <4>5. (a + b) + 1 = (a + 1) + b /\ a + 1 \in Nat
        OBVIOUS
      <4> HIDE DEF odd, all
      <4> QED
        BY <4>1, <4>2, <4>3, <4>4, <4>5
    <3>2. CASE p \notin S
      <4>1. odd(m + 1) = odd(m)
        BY <2>3, <3>2
      <4>2. all(m) \cup ({p} \cap S) = all(m)
        BY <3>2
      <4> HIDE DEF odd, all
      <4> QED
        BY <2>1, <4>1, <4>2
    <3> QED
      BY <3>1, <3>2
  <2>5. PICK c \in Nat : CountIs(odd(m + 1), c) /\ CountIs(all(m) \cup ({p} \cap S), c + b)
    BY <2>4
  <2>6. \E d \in Nat : /\ CountIs(even(m + 1), d)
                       /\ CountIs((all(m) \cup ({p} \cap S)) \cup ({p + 1} \cap S), c + d)
    <3>1. CASE p + 1 \in S
      <4>1. even(m + 1) = even(m) \cup {m + 1} /\ m + 1 \notin even(m)
        BY <2>3, <3>1
      <4>2. {p + 1} \cap S = {p + 1} /\ p + 1 \notin all(m) \cup ({p} \cap S)
        BY <2>3, <3>1
      <4>3. CountIs(even(m) \cup {m + 1}, b + 1)
        <5> HIDE DEF even
        <5> QED
          BY <2>1, <4>1, CountAdd
      <4>4. CountIs((all(m) \cup ({p} \cap S)) \cup {p + 1}, (c + b) + 1)
        <5> DEFINE T == all(m) \cup ({p} \cap S)
        <5>1. CountIs(T, c + b) /\ p + 1 \notin T
          BY <2>5, <4>2
        <5> HIDE DEF T
        <5>2. CountIs(T \cup {p + 1}, (c + b) + 1)
          BY <5>1, CountAdd
        <5> QED
          BY <5>2 DEF T
      <4>5. (c + b) + 1 = c + (b + 1) /\ b + 1 \in Nat
        OBVIOUS
      <4> HIDE DEF even, all
      <4> QED
        BY <4>1, <4>2, <4>3, <4>4, <4>5
    <3>2. CASE p + 1 \notin S
      <4>1. even(m + 1) = even(m)
        BY <2>3, <3>2
      <4>2. (all(m) \cup ({p} \cap S)) \cup ({p + 1} \cap S) = all(m) \cup ({p} \cap S)
        BY <3>2
      <4> HIDE DEF even, all
      <4> QED
        BY <2>1, <2>5, <4>1, <4>2
    <3> QED
      BY <3>1, <3>2
  <2>7. all(m + 1) = (all(m) \cup ({p} \cap S)) \cup ({p + 1} \cap S)
    <3>1. \A x \in S : x <= 2 * (m + 1) <=> x <= 2 * m \/ x = p \/ x = p + 1
      BY <1>0, <2>3
    <3> QED
      BY <3>1, Zenon
  <2> HIDE DEF all, odd, even
  <2> QED
    BY <2>5, <2>6, <2>7
<1>3. \A m \in Nat : m \in P
  <2> HIDE DEF P
  <2> QED
    BY <1>1, <1>2, Induction
<1>4. Good(n)
  <2> HIDE DEF Good
  <2> QED
    BY <1>3
<1>5. all(n) = S
  BY <1>0, Zenon
<1>6. PICK a \in Nat, b \in Nat : CountIs(odd(n), a) /\ CountIs(even(n), b) /\ CountIs(all(n), a + b)
  <2> HIDE DEF odd, even, all
  <2> QED
    BY <1>4
<1> QED
  BY <1>5, <1>6 DEF CountIs

\* Lines whose ends are v and u.
Between(own, other, v, u) ==
  Count({ i \in DOMAIN hashed : hashed[i][own] = v /\ hashed[i][other] = u })

\* The arcs at v, and those between v and u, are the lines of the text, taken from both
\* sides in an undirected graph.
ArcsAt(arcs, m, own, v) == Count({ j \in 1 .. m : arcs[j][own] = v })
ArcsTo(arcs, m, own, other, v, u) ==
  Count({ j \in 1 .. m : arcs[j][own] = v /\ arcs[j][other] = u })
IsArcs(arcs, m, directed) ==
  /\ arcs \in [1 .. m -> Nodes \X Nodes]
  /\ \A own \in {1, 2}, other \in {1, 2} : own # other => \A v :
       /\ ArcsAt(arcs, m, own, v) = Ends(own, v) + (IF directed THEN 0 ELSE Ends(other, v))
       /\ \A u : ArcsTo(arcs, m, own, other, v, u)
                   = Between(own, other, v, u)
                     + (IF directed THEN 0 ELSE Between(other, own, v, u))

\* The opposite of every line follows the line.
TwoWay(arcs, n) ==
  /\ arcs \in [1 .. 2 * n -> Nodes \X Nodes]
  /\ \A i \in 1 .. n : /\ arcs[2 * i - 1] = hashed[i]
                       /\ arcs[2 * i] = << hashed[i][2], hashed[i][1] >>

\* That is what txt2csr reads an undirected text as.
LEMMA TwoWayArcs ==
  ASSUME hashed \in Seq(Nodes \X Nodes), NEW n \in Nat, n = Len(hashed)
  PROVE  TwoWay(Arcs(FALSE), n)
<1> DEFINE D == Nodes \X Nodes
           Pair(i) == << hashed[i], << hashed[i][2], hashed[i][1] >> >>
<1>1. DOMAIN hashed = 1 .. n /\ \A i \in 1 .. n : hashed[i] \in D
  OBVIOUS
<1>2. PICK seqs : seqs = [i \in 1 .. n |-> Pair(i)]
  OBVIOUS
<1>3. Arcs(FALSE) = FlattenSeq(seqs)
  BY <1>1, <1>2 DEF Arcs
<1>4. \A i \in 1 .. n : /\ seqs[i] \in Seq(D) /\ Len(seqs[i]) = 2
                        /\ seqs[i][1] = hashed[i]
                        /\ seqs[i][2] = << hashed[i][2], hashed[i][1] >>
  <2> SUFFICES ASSUME NEW i \in 1 .. n
               PROVE  /\ seqs[i] \in Seq(D) /\ Len(seqs[i]) = 2
                      /\ seqs[i][1] = hashed[i]
                      /\ seqs[i][2] = << hashed[i][2], hashed[i][1] >>
    OBVIOUS
  <2>1. PICK a \in D : a = hashed[i]
    BY <1>1
  <2>2. PICK b \in D : b = << a[2], a[1] >>
    OBVIOUS
  <2>3. seqs[i] = << a, b >>
    BY <1>2, <2>1, <2>2
  <2> HIDE DEF D
  <2> QED
    BY <2>1, <2>2, <2>3
<1>5. seqs \in [1 .. n -> Seq(D)]
  <2> HIDE DEF D, Pair
  <2> QED
    BY <1>2, <1>4
<1>flat. FlattenSeq(seqs) \in Seq(D) /\ \E ends : Laid(seqs, n, FlattenSeq(seqs), ends)
  <2> HIDE DEF D
  <2> QED
    BY <1>5, FlattenLays
<1>ends. PICK ends : Laid(seqs, n, FlattenSeq(seqs), ends)
  BY <1>flat
<1>6. PICK flat \in Seq(D) : flat = FlattenSeq(seqs) /\ Laid(seqs, n, flat, ends)
  <2> HIDE DEF D
  <2> QED
    BY <1>flat, <1>ends
<1>7. /\ ends[0] = 0 /\ \A i \in 1 .. n : ends[i] = ends[i - 1] + 2
      /\ Len(flat) = ends[n]
      /\ \A i \in 1 .. n : /\ flat[ends[i - 1] + 1] = hashed[i]
                           /\ flat[ends[i - 1] + 2] = << hashed[i][2], hashed[i][1] >>
  <2>1. /\ ends[0] = 0 /\ Len(flat) = ends[n]
        /\ \A i \in 1 .. n : ends[i] = ends[i - 1] + Len(seqs[i])
        /\ \A i \in 1 .. n : \A j \in 1 .. Len(seqs[i]) : flat[ends[i - 1] + j] = seqs[i][j]
    BY <1>6 DEF Laid
  <2>2. ASSUME NEW i \in 1 .. n
        PROVE  /\ ends[i] = ends[i - 1] + 2
               /\ flat[ends[i - 1] + 1] = seqs[i][1] /\ flat[ends[i - 1] + 2] = seqs[i][2]
    <3>1. Len(seqs[i]) = 2
      BY <1>4
    <3>2. 1 \in 1 .. Len(seqs[i]) /\ 2 \in 1 .. Len(seqs[i])
      BY <3>1
    <3> QED
      BY <2>1, <3>1, <3>2
  <2> QED
    BY <1>4, <2>1, <2>2
<1> DEFINE P == { m \in Nat : m <= n => ends[m] = 2 * m }
<1>8. \A m \in Nat : m \in P
  <2>1. 0 \in P
    BY <1>7
  <2>2. ASSUME NEW m \in Nat, m \in P
        PROVE  m + 1 \in P
    <3> SUFFICES ASSUME m + 1 <= n
                 PROVE  ends[m + 1] = 2 * (m + 1)
      OBVIOUS
    <3>1. m + 1 \in 1 .. n /\ (m + 1) - 1 = m /\ ends[m] = 2 * m
      BY <2>2
    <3> QED
      BY <1>7, <3>1
  <2> HIDE DEF P
  <2> QED
    BY <2>1, <2>2, Induction
<1>9. Len(flat) = 2 * n /\ flat \in [1 .. 2 * n -> D]
  <2>1. Len(flat) = 2 * n
    BY <1>7, <1>8
  <2> HIDE DEF D
  <2> QED
    BY <2>1
<1>10. ASSUME NEW i \in 1 .. n
       PROVE  /\ flat[2 * i - 1] = hashed[i]
              /\ flat[2 * i] = << hashed[i][2], hashed[i][1] >>
  <2>1. i - 1 \in Nat /\ i - 1 <= n
    OBVIOUS
  <2>2. ends[i - 1] = 2 * (i - 1)
    BY <1>8, <2>1
  <2>3. ends[i - 1] + 1 = 2 * i - 1 /\ ends[i - 1] + 2 = 2 * i
    BY <2>2
  <2> QED
    BY <1>7, <2>3
<1> QED
  BY <1>3, <1>6, <1>9, <1>10 DEF TwoWay

\* So the arcs have the ends and the pairs of the text, directed or not.
LEMMA ArcsAre ==
  ASSUME hashed \in Seq(Nodes \X Nodes), NEW directed \in BOOLEAN
  PROVE  \E m \in Nat : IsArcs(Arcs(directed), m, directed)
<1>1. PICK n \in Nat : n = Len(hashed) /\ DOMAIN hashed = 1 .. n
  OBVIOUS
<1>2. \A i \in 1 .. n : hashed[i] \in Nodes \X Nodes
  BY <1>1
<1>3. CASE directed
  <2>1. Arcs(directed) = hashed /\ hashed \in [1 .. n -> Nodes \X Nodes]
    BY <1>1, <1>3 DEF Arcs
  <2>2. ASSUME NEW own \in {1, 2}, NEW other \in {1, 2}, NEW v
        PROVE  /\ Count({ j \in 1 .. n : hashed[j][own] = v }) = Ends(own, v) + (IF directed THEN 0 ELSE Ends(other, v))
               /\ \A u : Count({ j \in 1 .. n : hashed[j][own] = v /\ hashed[j][other] = u })
                           = Between(own, other, v, u)
                             + (IF directed THEN 0 ELSE Between(other, own, v, u))
    <3>1. Count({ j \in 1 .. n : hashed[j][own] = v }) = Ends(own, v)
      BY <1>1 DEF Ends
    <3>2. { j \in 1 .. n : hashed[j][own] = v } \in SUBSET (1 .. n)
      OBVIOUS
    <3>3. Ends(own, v) \in Nat
      BY <3>1, <3>2, CountOf DEF CountIs
    <3>4. ASSUME NEW u
          PROVE  Count({ j \in 1 .. n : hashed[j][own] = v /\ hashed[j][other] = u })
                   = Between(own, other, v, u) + 0
      <4> DEFINE S == { j \in 1 .. n : hashed[j][own] = v /\ hashed[j][other] = u }
      <4>1. S \in SUBSET (1 .. n) /\ Between(own, other, v, u) = Count(S)
        BY <1>1 DEF Between
      <4>2. Count(S) \in Nat
        <5> HIDE DEF S
        <5> QED
          BY <4>1, CountOf DEF CountIs
      <4> QED
        BY <4>1, <4>2
    <3> QED
      BY <1>3, <3>1, <3>3, <3>4
  <2>3. IsArcs(hashed, n, directed)
    BY <2>1, <2>2 DEF IsArcs, ArcsAt, ArcsTo
  <2> QED
    BY <2>1, <2>3
<1>4. CASE ~ directed
  <2>1. PICK arcs : arcs = Arcs(directed) /\ TwoWay(arcs, n)
    <3>1. directed = FALSE
      BY <1>4
    <3> QED
      BY <1>1, <3>1, TwoWayArcs
  <2>2. /\ arcs \in [1 .. 2 * n -> Nodes \X Nodes]
        /\ \A i \in 1 .. n : /\ arcs[2 * i - 1] = hashed[i]
                             /\ arcs[2 * i] = << hashed[i][2], hashed[i][1] >>
    BY <2>1 DEF TwoWay
  <2>3. ASSUME NEW i \in 1 .. n
        PROVE  2 * i - 1 \in 1 .. 2 * n /\ 2 * i \in 1 .. 2 * n
    OBVIOUS
  <2>4. ASSUME NEW own \in {1, 2}, NEW other \in {1, 2}, own # other, NEW i \in 1 .. n
        PROVE  /\ arcs[2 * i - 1][own] = hashed[i][own] /\ arcs[2 * i - 1][other] = hashed[i][other]
               /\ arcs[2 * i][own] = hashed[i][other] /\ arcs[2 * i][other] = hashed[i][own]
    <3>1. PICK a \in Nodes, b \in Nodes : hashed[i] = << a, b >>
      BY <1>2
    <3>2. arcs[2 * i - 1] = << a, b >> /\ arcs[2 * i] = << b, a >>
      BY <2>2, <3>1
    <3>3. CASE own = 1 /\ other = 2
      BY <3>1, <3>2, <3>3
    <3>4. CASE own = 2 /\ other = 1
      BY <3>1, <3>2, <3>4
    <3> QED
      BY <2>4, <3>3, <3>4
  <2>5. ASSUME NEW own \in {1, 2}, NEW other \in {1, 2}, own # other, NEW v
        PROVE  Count({ j \in 1 .. 2 * n : arcs[j][own] = v }) = Ends(own, v) + Ends(other, v)
    <3> DEFINE S == { j \in 1 .. 2 * n : arcs[j][own] = v }
    <3>1. \A i \in 1 .. n : /\ 2 * i - 1 \in S <=> hashed[i][own] = v
                            /\ 2 * i \in S <=> hashed[i][other] = v
      BY <2>3, <2>4, <2>5
    <3>2. /\ { i \in 1 .. n : 2 * i - 1 \in S } = { i \in 1 .. n : hashed[i][own] = v }
          /\ { i \in 1 .. n : 2 * i \in S } = { i \in 1 .. n : hashed[i][other] = v }
      BY <3>1
    <3>3. S \in SUBSET (1 .. 2 * n)
      OBVIOUS
    <3>4. Count(S) = Count({ i \in 1 .. n : 2 * i - 1 \in S }) + Count({ i \in 1 .. n : 2 * i \in S })
      <4> HIDE DEF S
      <4> QED
        BY <3>3, Halves
    <3> QED
      BY <1>1, <3>2, <3>4 DEF Ends
  <2>6. ASSUME NEW own \in {1, 2}, NEW other \in {1, 2}, own # other, NEW v, NEW u
        PROVE  Count({ j \in 1 .. 2 * n : arcs[j][own] = v /\ arcs[j][other] = u })
                 = Between(own, other, v, u) + Between(other, own, v, u)
    <3> DEFINE S == { j \in 1 .. 2 * n : arcs[j][own] = v /\ arcs[j][other] = u }
    <3>1. \A i \in 1 .. n : /\ 2 * i - 1 \in S <=> hashed[i][own] = v /\ hashed[i][other] = u
                            /\ 2 * i \in S <=> hashed[i][other] = v /\ hashed[i][own] = u
      BY <2>3, <2>4, <2>6, ZenonT(40)
    <3>2. /\ { i \in 1 .. n : 2 * i - 1 \in S }
               = { i \in 1 .. n : hashed[i][own] = v /\ hashed[i][other] = u }
          /\ { i \in 1 .. n : 2 * i \in S }
               = { i \in 1 .. n : hashed[i][other] = v /\ hashed[i][own] = u }
      BY <3>1
    <3>3. S \in SUBSET (1 .. 2 * n)
      OBVIOUS
    <3>4. Count(S) = Count({ i \in 1 .. n : 2 * i - 1 \in S }) + Count({ i \in 1 .. n : 2 * i \in S })
      <4> HIDE DEF S
      <4> QED
        BY <3>3, Halves
    <3> QED
      BY <1>1, <3>2, <3>4 DEF Between
  <2>7. IsArcs(arcs, 2 * n, directed)
    BY <1>4, <2>2, <2>5, <2>6 DEF IsArcs, ArcsAt, ArcsTo
  <2> QED
    BY <2>1, <2>7
<1> QED
  BY <1>3, <1>4

-----------------------------------------------------------------------------
(***************************************************************************)
(* The edge list of a vertex: as many words per arc as an edge has.        *)
(***************************************************************************)

\* Each number of M takes w words, from E to E.
Strides(m, w, M, E) ==
  /\ M \subseteq 1 .. m
  /\ \A i \in 0 .. m : E[i] \in Nat
  /\ E[0] = 0
  /\ \A i \in 1 .. m : E[i] = E[i - 1] + (IF i \in M THEN w ELSE 0)

EndsAt(w, M, E, i) == \E c \in Nat : CountIs({ k \in M : k <= i }, c) /\ E[i] = w * c

\* Every end is a multiple of the stride.
LEMMA StrideEnds ==
  ASSUME NEW m \in Nat, NEW w \in {1, 2}, NEW M, NEW E, Strides(m, w, M, E)
  PROVE  \A i \in 0 .. m : EndsAt(w, M, E, i)
<1> DEFINE upTo(i) == { k \in M : k <= i }
           Good(i) == \E c \in Nat : CountIs(upTo(i), c) /\ E[i] = w * c
           P == { i \in Nat : i <= m => Good(i) }
<1>1. /\ \A k \in M : k \in Nat /\ k >= 1 /\ k <= m
      /\ \A i \in 0 .. m : E[i] \in Nat
      /\ E[0] = 0 /\ w \in Nat
      /\ \A i \in 1 .. m : E[i] = E[i - 1] + (IF i \in M THEN w ELSE 0)
  BY DEF Strides
<1>2. 0 \in P
  <2>1. upTo(0) = {}
    BY <1>1
  <2>2. E[0] = w * 0 /\ 0 \in Nat
    BY <1>1
  <2>3. Good(0)
    <3> HIDE DEF upTo
    <3> QED
      BY <2>1, <2>2, CountNone
  <2> HIDE DEF Good
  <2> QED
    BY <2>3
<1>3. ASSUME NEW i \in Nat, i \in P
      PROVE  i + 1 \in P
  <2> HIDE DEF Good
  <2> SUFFICES ASSUME i + 1 <= m
               PROVE  Good(i + 1)
    OBVIOUS
  <2>1. Good(i)
    BY <1>3
  <2>2. PICK c \in Nat : CountIs(upTo(i), c) /\ E[i] = w * c
    BY <2>1 DEF Good
  <2>3. i + 1 \in 1 .. m /\ (i + 1) - 1 = i
    OBVIOUS
  <2>4. E[i + 1] = E[i] + (IF i + 1 \in M THEN w ELSE 0)
    BY <1>1, <2>3
  <2>5. CASE i + 1 \in M
    <3>1. upTo(i + 1) = upTo(i) \cup {i + 1} /\ i + 1 \notin upTo(i)
      BY <1>1, <2>5
    <3>2. CountIs(upTo(i) \cup {i + 1}, c + 1)
      <4> HIDE DEF upTo
      <4> QED
        BY <2>2, <3>1, CountAdd
    <3>3. E[i + 1] = w * (c + 1) /\ c + 1 \in Nat
      BY <1>1, <2>2, <2>4, <2>5
    <3> HIDE DEF upTo
    <3> QED
      BY <3>1, <3>2, <3>3 DEF Good
  <2>6. CASE i + 1 \notin M
    <3>1. upTo(i + 1) = upTo(i)
      BY <1>1, <2>6
    <3>2. E[i + 1] = w * c
      BY <1>1, <2>2, <2>4, <2>6
    <3> HIDE DEF upTo
    <3> QED
      BY <2>2, <3>1, <3>2 DEF Good
  <2> QED
    BY <2>5, <2>6
<1>4. \A i \in Nat : i \in P
  <2> HIDE DEF P
  <2> QED
    BY <1>2, <1>3, Induction
<1>5. \A i \in 0 .. m : Good(i)
  <2> HIDE DEF Good
  <2> QED
    BY <1>4
<1> QED
  BY <1>5 DEF EndsAt

\* The first word of an edge is the one whose place is 1 modulo the words of an edge.
LEMMA FirstWord ==
  ASSUME NEW w \in {1, 2}, NEW c \in Nat, NEW j \in w * c + 1 .. w * c + w
  PROVE  j % w = 1 % w <=> j = w * c + 1
<1>1. CASE w = 1
  BY <1>1
<1>2. CASE w = 2
  <2>1. (2 * c + 1) % 2 = 1 /\ (2 * c + 2) % 2 = 0 /\ 1 % 2 = 1
    OBVIOUS
  <2>2. j = 2 * c + 1 \/ j = 2 * c + 2
    BY <1>2
  <2> QED
    BY <1>2, <2>1, <2>2
<1> QED
  BY <1>1, <1>2

\* First words are as many as the numbers they come from.
Firsts(w, flat, E, i, u) == { j \in 1 .. E[i] : j % w = 1 % w /\ flat[j] = u }
Froms(M, x, i, u) == { k \in M : k <= i /\ x[k] = u }

\* The next number adds its first word, or neither side grows.
LEMMA FirstsStep ==
  ASSUME NEW m \in Nat, NEW w \in {1, 2}, NEW M, NEW E, Strides(m, w, M, E), NEW flat, NEW x,
         \A i \in M : flat[E[i - 1] + 1] = x[i],
         NEW u, NEW i \in 0 .. m - 1
  PROVE  \/ /\ Firsts(w, flat, E, i + 1, u) = Firsts(w, flat, E, i, u)
            /\ Froms(M, x, i + 1, u) = Froms(M, x, i, u)
         \/ \E e : /\ e \notin Firsts(w, flat, E, i, u) /\ i + 1 \notin Froms(M, x, i, u)
                   /\ Firsts(w, flat, E, i + 1, u) = Firsts(w, flat, E, i, u) \cup {e}
                   /\ Froms(M, x, i + 1, u) = Froms(M, x, i, u) \cup {i + 1}
<1>1. /\ \A k \in M : k \in Nat /\ k >= 1 /\ k <= m
      /\ E[i] \in Nat /\ E[i + 1] \in Nat
      /\ E[i + 1] = E[i] + (IF i + 1 \in M THEN w ELSE 0)
  <2>1. i + 1 \in 1 .. m /\ i + 1 \in 0 .. m /\ i \in 0 .. m /\ (i + 1) - 1 = i
    OBVIOUS
  <2>2. /\ \A k \in M : k \in Nat /\ k >= 1 /\ k <= m
        /\ E[i] \in Nat /\ E[i + 1] \in Nat
    BY <2>1 DEF Strides
  <2> QED
    BY <2>1, <2>2 DEF Strides
<1>2. PICK a \in Nat : a = E[i]
  BY <1>1
<1>3. PICK c \in Nat : a = w * c
  <2>1. \A k \in 0 .. m : EndsAt(w, M, E, k)
    BY StrideEnds
  <2>2. i \in 0 .. m
    OBVIOUS
  <2> QED
    BY <1>2, <2>1, <2>2 DEF EndsAt
<1>4. i \in Nat /\ w \in Nat
  OBVIOUS
<1>5. CASE i + 1 \notin M
  <2>1. E[i + 1] = a
    BY <1>1, <1>2, <1>5
  <2>2. Firsts(w, flat, E, i + 1, u) = Firsts(w, flat, E, i, u)
    BY <1>2, <2>1 DEF Firsts
  <2>3. \A k \in M : k <= i + 1 <=> k <= i
    BY <1>1, <1>4, <1>5
  <2>4. Froms(M, x, i + 1, u) = Froms(M, x, i, u)
    BY <2>3, Zenon DEF Froms
  <2> QED
    BY <2>2, <2>4
<1>6. CASE i + 1 \in M
  <2>1. E[i + 1] = a + w
    BY <1>1, <1>2, <1>6
  <2>2. \A j \in a + 1 .. a + w : j % w = 1 % w <=> j = a + 1
    BY <1>3, FirstWord
  <2>3. flat[a + 1] = x[i + 1]
    <3>1. (i + 1) - 1 = i
      BY <1>4
    <3> QED
      BY <1>2, <1>6, <3>1
  <2>4. \A j : j \in 1 .. a + w <=> j \in 1 .. a \/ j \in a + 1 .. a + w
    BY <1>4
  <2>5. \A k \in M : k <= i + 1 <=> k <= i \/ k = i + 1
    BY <1>1, <1>4
  <2>6. a + 1 \in a + 1 .. a + w /\ a + 1 \notin 1 .. a /\ ~ (i + 1 <= i)
    BY <1>4
  <2>7. CASE x[i + 1] = u
    <3>1. \A j : j \in 1 .. a + w /\ j % w = 1 % w /\ flat[j] = u
                   <=> (j \in 1 .. a /\ j % w = 1 % w /\ flat[j] = u) \/ j = a + 1
      BY <2>2, <2>3, <2>4, <2>6, <2>7
    <3>2. Firsts(w, flat, E, i + 1, u) = Firsts(w, flat, E, i, u) \cup {a + 1}
      <4> HIDE DEF Firsts
      <4>1. \A j : j \in Firsts(w, flat, E, i + 1, u)
                     <=> j \in Firsts(w, flat, E, i, u) \cup {a + 1}
        BY <1>2, <2>1, <3>1, Zenon DEF Firsts
      <4> QED
        BY <4>1
    <3>3. \A k : k \in Froms(M, x, i + 1, u) <=> k \in Froms(M, x, i, u) \cup {i + 1}
      BY <1>6, <2>5, <2>7, Zenon DEF Froms
    <3>4. Froms(M, x, i + 1, u) = Froms(M, x, i, u) \cup {i + 1}
      BY <3>3
    <3>5. a + 1 \notin Firsts(w, flat, E, i, u) /\ i + 1 \notin Froms(M, x, i, u)
      BY <1>2, <2>6 DEF Firsts, Froms
    <3> QED
      BY <3>2, <3>4, <3>5
  <2>8. CASE x[i + 1] # u
    <3>1. \A j : j \in 1 .. a + w /\ j % w = 1 % w /\ flat[j] = u
                   <=> j \in 1 .. a /\ j % w = 1 % w /\ flat[j] = u
      BY <2>2, <2>3, <2>4, <2>8
    <3>2. Firsts(w, flat, E, i + 1, u) = Firsts(w, flat, E, i, u)
      <4>1. \A j : j \in Firsts(w, flat, E, i + 1, u) <=> j \in Firsts(w, flat, E, i, u)
        BY <1>2, <2>1, <3>1, Zenon DEF Firsts
      <4> QED
        BY <4>1
    <3>3. \A k : k \in Froms(M, x, i + 1, u) <=> k \in Froms(M, x, i, u)
      BY <1>6, <2>5, <2>8, Zenon DEF Froms
    <3> QED
      BY <3>2, <3>3
  <2> QED
    BY <2>7, <2>8
<1> QED
  BY <1>5, <1>6

SameFirsts(m, w, M, E, flat, x, u) ==
  Count({ j \in 1 .. E[m] : j % w = 1 % w /\ flat[j] = u }) = Count({ i \in M : x[i] = u })

\* So in the whole sequence, for every value.
LEMMA FirstsCount ==
  ASSUME NEW m \in Nat, NEW w \in {1, 2}, NEW M, NEW E, Strides(m, w, M, E), NEW flat, NEW x,
         \A i \in M : flat[E[i - 1] + 1] = x[i],
         NEW u
  PROVE  SameFirsts(m, w, M, E, flat, x, u)
<1> DEFINE Good(i) == \E c : CountIs(Firsts(w, flat, E, i, u), c) /\ CountIs(Froms(M, x, i, u), c)
           P == { i \in Nat : i <= m => Good(i) }
<1>1. \A k \in M : k \in Nat /\ k >= 1 /\ k <= m
  BY DEF Strides
<1>2. 0 \in P
  <2>1. Firsts(w, flat, E, 0, u) = {}
    BY DEF Firsts, Strides
  <2>2. Froms(M, x, 0, u) = {}
    BY <1>1 DEF Froms
  <2>3. Good(0)
    BY <2>1, <2>2, CountNone
  <2> HIDE DEF Good
  <2> QED
    BY <2>3
<1>3. ASSUME NEW i \in Nat, i \in P
      PROVE  i + 1 \in P
  <2> HIDE DEF Good
  <2> SUFFICES ASSUME i + 1 <= m
               PROVE  Good(i + 1)
    OBVIOUS
  <2>1. Good(i)
    BY <1>3
  <2>2. PICK c : CountIs(Firsts(w, flat, E, i, u), c) /\ CountIs(Froms(M, x, i, u), c)
    BY <2>1 DEF Good
  <2>3. i \in 0 .. m - 1
    OBVIOUS
  <2>4. \/ /\ Firsts(w, flat, E, i + 1, u) = Firsts(w, flat, E, i, u)
           /\ Froms(M, x, i + 1, u) = Froms(M, x, i, u)
        \/ \E e : /\ e \notin Firsts(w, flat, E, i, u) /\ i + 1 \notin Froms(M, x, i, u)
                  /\ Firsts(w, flat, E, i + 1, u) = Firsts(w, flat, E, i, u) \cup {e}
                  /\ Froms(M, x, i + 1, u) = Froms(M, x, i, u) \cup {i + 1}
    BY <2>3, FirstsStep
  <2>5. ASSUME NEW e, e \notin Firsts(w, flat, E, i, u), i + 1 \notin Froms(M, x, i, u),
               Firsts(w, flat, E, i + 1, u) = Firsts(w, flat, E, i, u) \cup {e},
               Froms(M, x, i + 1, u) = Froms(M, x, i, u) \cup {i + 1}
        PROVE  Good(i + 1)
    <3>1. CountIs(Firsts(w, flat, E, i, u) \cup {e}, c + 1)
      BY <2>2, <2>5, CountAdd
    <3>2. CountIs(Froms(M, x, i, u) \cup {i + 1}, c + 1)
      BY <2>2, <2>5, CountAdd
    <3> QED
      BY <2>5, <3>1, <3>2 DEF Good
  <2> QED
    BY <2>2, <2>4, <2>5 DEF Good
<1>4. \A i \in Nat : i \in P
  <2> HIDE DEF P
  <2> QED
    BY <1>2, <1>3, Induction
<1>5. PICK c : CountIs(Firsts(w, flat, E, m, u), c) /\ CountIs(Froms(M, x, m, u), c)
  BY <1>4
<1>6. Froms(M, x, m, u) = { i \in M : x[i] = u }
  BY <1>1 DEF Froms
<1> QED
  BY <1>5, <1>6 DEF CountIs, Firsts, SameFirsts

\* A small number survives the conversion to int32.
LEMMA Int32Small ==
  ASSUME NEW x \in Nat, x < Half
  PROVE  Int32(x) = x
<1>1. PICK h \in Nat : h = Half /\ x < h
  BY DataAssumption
<1>2. (x + h) % (2 * h) = x + h
  <2>1. x + h \in 0 .. 2 * h - 1 /\ 2 * h > 0
    BY <1>1
  <2> QED
    BY <2>1
<1> QED
  BY <1>1, <1>2 DEF Int32

\* A weight is a number, if maybe a negative one.
LEMMA WeightInt ==
  ASSUME NEW a \in Nat, NEW b \in Nat
  PROVE  Weight(a, b) \in Int
<1>1. PICK h \in Nat : h = Half /\ h > 0
  BY DataAssumption
<1>2. PICK r \in Int : r = (a + b + h) % (2 * h)
  <2>1. 2 * h \in Nat /\ 2 * h > 0 /\ a + b + h \in Int
    BY <1>1
  <2>2. PICK d \in Nat : d = 2 * h /\ d > 0
    BY <2>1
  <2>3. (a + b + h) % d \in Int
    BY <2>1, <2>2
  <2> QED
    BY <2>2, <2>3
<1>3. PICK x \in Int : x = Int32(a + b)
  BY <1>1, <1>2 DEF Int32
<1>4. Rem100(x) \in Int
  BY DEF Rem100
<1> QED
  BY <1>3, <1>4 DEF Weight

\* Ids whose sum is an int32 have the weight that the tool means.
LEMMA WeightSmall ==
  ASSUME NEW a \in Nat, NEW b \in Nat, a + b < Half
  PROVE  Weight(a, b) = (a + b) % 100
<1>1. PICK x \in Nat : x = a + b /\ x < Half
  OBVIOUS
<1>2. Int32(x) = x
  BY <1>1, Int32Small
<1>3. Rem100(x) = x % 100
  BY DEF Rem100
<1> QED
  BY <1>1, <1>2, <1>3 DEF Weight

Words(weighted) == IF weighted THEN 2 ELSE 1

\* A list that holds the other ends of the arcs at v, and their weights.
Entries(list, w, u) == Count({ j \in 1 .. Len(list) : j % w = 1 % w /\ list[j] = u })
IsList(list, arcs, m, own, other, w, v) ==
  /\ list \in Seq(Int)
  /\ Len(list) = w * ArcsAt(arcs, m, own, v)
  /\ \A u : Entries(list, w, u) = ArcsTo(arcs, m, own, other, v, u)
  /\ w = 2 => \A j \in 1 .. Len(list) :
       j % 2 = 1 => list[j] \in Nat /\ list[j + 1] = Weight(list[j], v)

\* What an arc adds to the list of v.
Piece(arcs, own, other, weighted, v, i) ==
  IF arcs[i][own] # v THEN << >>
  ELSE IF weighted THEN << arcs[i][other], Weight(arcs[i][1], arcs[i][2]) >>
  ELSE << arcs[i][other] >>

\* That is nothing, or the other end, with its weight if there is one.
LEMMA PieceIs ==
  ASSUME TotalNode \in Nat, NEW a \in Nodes, NEW b \in Nodes, NEW arcs, NEW i, arcs[i] = << a, b >>,
         NEW own \in {1, 2}, NEW other \in {1, 2}, own # other,
         NEW weighted \in BOOLEAN, NEW v, NEW piece, piece = Piece(arcs, own, other, weighted, v, i)
  PROVE  /\ piece \in Seq(Int)
         /\ arcs[i][other] \in Nat
         /\ arcs[i][own] # v => Len(piece) = 0
         /\ arcs[i][own] = v => /\ Len(piece) = Words(weighted)
                                /\ piece[1] = arcs[i][other]
                                /\ weighted => piece[2] = Weight(arcs[i][other], v)
<1>1. \A x \in Nodes : x \in Nat
  BY DEF Nodes
<1>2. a \in Nat /\ b \in Nat /\ Weight(a, b) \in Int
  BY <1>1, WeightInt
<1>3. arcs[i][1] = a /\ arcs[i][2] = b
  OBVIOUS
<1>4. PICK o \in Nat : o = arcs[i][other] /\ (own = 1 => o = b) /\ (own = 2 => o = a)
  BY <1>2, <1>3
<1>5. CASE arcs[i][own] # v
  <2>1. piece = << >>
    BY <1>5 DEF Piece
  <2> QED
    BY <1>4, <1>5, <2>1
<1>6. CASE arcs[i][own] = v /\ weighted
  <2>1. piece = << o, Weight(a, b) >>
    BY <1>3, <1>4, <1>6 DEF Piece
  <2>2. a + b = o + v
    <3>1. CASE own = 1
      BY <1>2, <1>3, <1>4, <1>6, <3>1
    <3>2. CASE own = 2
      BY <1>2, <1>3, <1>4, <1>6, <3>2
    <3> QED
      BY <3>1, <3>2
  <2>3. PICK d \in Int : d = Weight(a, b)
    BY <1>2
  <2>4. piece \in Seq(Int) /\ Len(piece) = 2 /\ piece[1] = o /\ piece[2] = d
    BY <2>1, <2>3
  <2>5. d = Weight(o, v)
    BY <2>2, <2>3 DEF Weight
  <2> QED
    BY <1>4, <1>6, <2>4, <2>5, Zenon DEF Words
<1>7. CASE arcs[i][own] = v /\ ~ weighted
  <2>1. piece = << o >>
    BY <1>4, <1>7 DEF Piece
  <2> QED
    BY <1>4, <1>7, <2>1 DEF Words
<1> QED
  BY <1>5, <1>6, <1>7

\* The pieces of all arcs, one after the other, are the list of v.
LEMMA EdgeListIs ==
  ASSUME TotalNode \in Nat, NEW m \in Nat, NEW arcs \in [1 .. m -> Nodes \X Nodes],
         NEW own \in {1, 2}, NEW other \in {1, 2}, own # other,
         NEW weighted \in BOOLEAN, NEW v
  PROVE  IsList(EdgeList(arcs, own, other, weighted, v), arcs, m, own, other, Words(weighted), v)
<1>1. PICK w \in {1, 2} : w = Words(weighted) /\ (w = 2 <=> weighted)
  BY DEF Words
<1>2. PICK pieces : pieces = [i \in 1 .. m |-> Piece(arcs, own, other, weighted, v, i)]
  OBVIOUS
<1>3. EdgeList(arcs, own, other, weighted, v) = FlattenSeq(pieces)
  <2>1. DOMAIN arcs = 1 .. m
    OBVIOUS
  <2> QED
    BY <1>2, <2>1 DEF EdgeList, Piece
<1>4. ASSUME NEW i \in 1 .. m
      PROVE  /\ pieces[i] \in Seq(Int)
             /\ arcs[i][other] \in Nat
             /\ arcs[i][own] # v => Len(pieces[i]) = 0
             /\ arcs[i][own] = v => /\ Len(pieces[i]) = w
                                    /\ pieces[i][1] = arcs[i][other]
                                    /\ w = 2 => pieces[i][2] = Weight(arcs[i][other], v)
  <2>1. PICK a \in Nodes, b \in Nodes : arcs[i] = << a, b >>
    OBVIOUS
  <2>2. PICK piece : piece = pieces[i] /\ piece = Piece(arcs, own, other, weighted, v, i)
    BY <1>2
  <2>3. /\ piece \in Seq(Int)
        /\ arcs[i][other] \in Nat
        /\ arcs[i][own] # v => Len(piece) = 0
        /\ arcs[i][own] = v => /\ Len(piece) = Words(weighted)
                               /\ piece[1] = arcs[i][other]
                               /\ weighted => piece[2] = Weight(arcs[i][other], v)
    BY <2>1, <2>2, PieceIs, SMTT(30)
  <2> QED
    BY <1>1, <2>2, <2>3
<1>5. pieces \in [1 .. m -> Seq(Int)]
  BY <1>2, <1>4
<1>flat. FlattenSeq(pieces) \in Seq(Int) /\ \E ends : Laid(pieces, m, FlattenSeq(pieces), ends)
  BY <1>5, FlattenLays
<1>ends. PICK E : Laid(pieces, m, FlattenSeq(pieces), E)
  BY <1>flat
<1>6. PICK flat \in Seq(Int) : flat = FlattenSeq(pieces) /\ Laid(pieces, m, flat, E)
  BY <1>flat, <1>ends
<1> DEFINE M == { i \in 1 .. m : arcs[i][own] = v }
           x == [i \in 1 .. m |-> arcs[i][other]]
<1>7. Strides(m, w, M, E)
  <2>1. /\ E \in [0 .. m -> Nat] /\ E[0] = 0
        /\ \A i \in 1 .. m : E[i] = E[i - 1] + Len(pieces[i])
    BY <1>6 DEF Laid
  <2>2. \A i \in 1 .. m : Len(pieces[i]) = IF i \in M THEN w ELSE 0
    BY <1>4
  <2>3. \A i \in 0 .. m : E[i] \in Nat
    BY <2>1
  <2>4. M \subseteq 1 .. m
    OBVIOUS
  <2> HIDE DEF M
  <2> QED
    BY <2>1, <2>2, <2>3, <2>4 DEF Strides
<1>8. /\ Len(flat) = E[m]
      /\ \A i \in M : flat[E[i - 1] + 1] = x[i]
      /\ w = 2 => \A i \in M : flat[E[i - 1] + 2] = Weight(x[i], v)
  <2>1. /\ Len(flat) = E[m]
        /\ \A i \in 1 .. m : \A j \in 1 .. Len(pieces[i]) : flat[E[i - 1] + j] = pieces[i][j]
    BY <1>6 DEF Laid
  <2>2. ASSUME NEW i \in M
        PROVE  /\ flat[E[i - 1] + 1] = x[i]
               /\ w = 2 => flat[E[i - 1] + 2] = Weight(x[i], v)
    <3>1. /\ i \in 1 .. m /\ Len(pieces[i]) = w /\ pieces[i][1] = x[i]
          /\ w = 2 => pieces[i][2] = Weight(x[i], v)
      BY <1>4
    <3>2. 1 \in 1 .. w /\ (w = 2 => 2 \in 1 .. w)
      OBVIOUS
    <3> HIDE DEF x
    <3> QED
      BY <2>1, <3>1, <3>2
  <2> QED
    BY <2>1, <2>2
<1>9. Len(flat) = w * Count(M)
  <2>1. EndsAt(w, M, E, m)
    <3>1. \A i \in 0 .. m : EndsAt(w, M, E, i)
      <4> HIDE DEF M
      <4> QED
        BY <1>7, StrideEnds
    <3> QED
      BY <3>1
  <2>2. { k \in M : k <= m } = M
    OBVIOUS
  <2> HIDE DEF M
  <2> QED
    BY <1>8, <2>1, <2>2 DEF EndsAt, CountIs
<1>10. ASSUME NEW u
       PROVE  Count({ j \in 1 .. Len(flat) : j % w = 1 % w /\ flat[j] = u })
                = Count({ i \in 1 .. m : arcs[i][own] = v /\ arcs[i][other] = u })
  <2>1. SameFirsts(m, w, M, E, flat, x, u)
    <3> HIDE DEF M, x
    <3>1. \A i \in M : flat[E[i - 1] + 1] = x[i]
      BY <1>8
    <3> QED
      BY <1>7, <3>1, FirstsCount
  <2>2. { i \in M : x[i] = u } = { i \in 1 .. m : arcs[i][own] = v /\ arcs[i][other] = u }
    OBVIOUS
  <2>3. Len(flat) = E[m]
    BY <1>8
  <2> HIDE DEF M, x
  <2> QED
    BY <2>1, <2>2, <2>3 DEF SameFirsts
<1>11. ASSUME w = 2, NEW j \in 1 .. Len(flat), j % 2 = 1
       PROVE  flat[j] \in Nat /\ flat[j + 1] = Weight(flat[j], v)
  <2>1. Filled(pieces, m, E)
    BY <1>5, <1>6, LaidPlace
  <2>2. PICK i \in 1 .. m : \E y \in 1 .. Len(pieces[i]) : j = E[i - 1] + y
    <3>1. j \in 1 .. E[m]
      BY <1>8
    <3> QED
      BY <2>1, <3>1 DEF Filled
  <2>3. PICK y \in 1 .. Len(pieces[i]) : j = E[i - 1] + y
    BY <2>2
  <2>4. i \in M
    <3>1. arcs[i][own] # v => Len(pieces[i]) = 0
      BY <1>4
    <3>2. Len(pieces[i]) # 0
      OBVIOUS
    <3> QED
      BY <3>1, <3>2
  <2>5. y \in 1 .. 2
    BY <1>4, <1>11, <2>4
  <2>6. PICK c \in Nat : E[i - 1] = 2 * c
    <3>1. \A k \in 0 .. m : EndsAt(w, M, E, k)
      <4> HIDE DEF M
      <4> QED
        BY <1>7, StrideEnds
    <3>2. i - 1 \in 0 .. m
      OBVIOUS
    <3> HIDE DEF M
    <3> QED
      BY <1>11, <3>1, <3>2 DEF EndsAt
  <2>7. y = 1
    BY <1>11, <2>3, <2>5, <2>6
  <2>8. flat[j] = x[i] /\ flat[j + 1] = Weight(x[i], v)
    <3>1. j = E[i - 1] + 1 /\ j + 1 = E[i - 1] + 2
      BY <2>3, <2>6, <2>7
    <3> HIDE DEF x, M
    <3> QED
      BY <1>8, <1>11, <2>4, <3>1
  <2>9. x[i] \in Nat
    BY <1>4
  <2> QED
    BY <2>8, <2>9
<1>12. IsList(flat, arcs, m, own, other, w, v)
  <2>1. Len(flat) = w * ArcsAt(arcs, m, own, v)
    BY <1>9 DEF ArcsAt
  <2>2. \A u : Entries(flat, w, u) = ArcsTo(arcs, m, own, other, v, u)
    BY <1>10 DEF Entries, ArcsTo
  <2> QED
    BY <1>11, <2>1, <2>2 DEF IsList
<1> QED
  BY <1>1, <1>3, <1>6, <1>12

\* The edge lists of all vertices are in the file, each where its offset says.
IsEdgeFile(file, off, degree, arcs, own, other, weighted) ==
  /\ file \in Seq(Int) /\ Len(file) = off[TotalNode + 1] * Words(weighted)
  /\ \A v \in Nodes :
       /\ Len(EdgeList(arcs, own, other, weighted, v)) = degree[v] * Words(weighted)
       /\ \A j \in 1 .. degree[v] * Words(weighted) :
            file[off[v + 1] * Words(weighted) + j]
              = EdgeList(arcs, own, other, weighted, v)[j]

\* txt2csr writes such a file.
LEMMA EdgeFileIs ==
  ASSUME TotalNode \in Nat, NEW m \in Nat, NEW directed, NEW arcs \in [1 .. m -> Nodes \X Nodes],
         arcs = Arcs(directed),
         NEW own \in {1, 2}, NEW other \in {1, 2}, own # other, NEW weighted \in BOOLEAN,
         NEW degree \in [Nodes -> Nat],
         \A v \in Nodes : ArcsAt(arcs, m, own, v) = degree[v],
         NEW off, IsOffsets(off, degree)
  PROVE  IsEdgeFile(EdgeFile(weighted, directed, own, other), off, degree, arcs, own, other, weighted)
<1>1. PICK N \in Nat : N = TotalNode
  OBVIOUS
<1>2. PICK w \in {1, 2} : w = Words(weighted)
  BY DEF Words
<1> DEFINE List(v) == EdgeList(arcs, own, other, weighted, v)
<1>3. \A v \in Nodes : List(v) \in Seq(Int) /\ Len(List(v)) = degree[v] * w
  <2> SUFFICES ASSUME NEW v \in Nodes
               PROVE  List(v) \in Seq(Int) /\ Len(List(v)) = degree[v] * w
    OBVIOUS
  <2>1. IsList(List(v), arcs, m, own, other, w, v)
    <3>1. IsList(EdgeList(arcs, own, other, weighted, v), arcs, m, own, other, Words(weighted), v)
      BY EdgeListIs
    <3> QED
      BY <1>2, <3>1
  <2>2. List(v) \in Seq(Int) /\ Len(List(v)) = w * degree[v]
    <3> HIDE DEF List
    <3> QED
      BY <2>1 DEF IsList
  <2>3. degree[v] \in Nat
    OBVIOUS
  <2>4. w * degree[v] = degree[v] * w
    BY <2>3
  <2> QED
    BY <2>2, <2>4
<1>4. PICK seqs : seqs = [i \in 1 .. N |-> List(i - 1)]
  OBVIOUS
<1>5. EdgeFile(weighted, directed, own, other) = FlattenSeq(seqs)
  BY <1>1, <1>4 DEF EdgeFile
<1> HIDE DEF List
<1>6. \A i \in 1 .. N : /\ i - 1 \in Nodes /\ seqs[i] = List(i - 1)
                        /\ seqs[i] \in Seq(Int) /\ Len(seqs[i]) = degree[i - 1] * w
  <2>1. \A i \in 1 .. N : i - 1 \in Nodes
    BY <1>1 DEF Nodes
  <2> QED
    BY <1>3, <1>4, <2>1
<1>7. seqs \in [1 .. N -> Seq(Int)]
  BY <1>4, <1>6
<1>flat. FlattenSeq(seqs) \in Seq(Int) /\ \E ends : Laid(seqs, N, FlattenSeq(seqs), ends)
  BY <1>7, FlattenLays
<1>ends. PICK E : Laid(seqs, N, FlattenSeq(seqs), E)
  BY <1>flat
<1>8. PICK flat \in Seq(Int) : flat = FlattenSeq(seqs) /\ Laid(seqs, N, flat, E)
  BY <1>flat, <1>ends
<1>9. /\ E[0] = 0 /\ Len(flat) = E[N]
      /\ \A i \in 1 .. N : E[i] = E[i - 1] + Len(seqs[i])
      /\ \A i \in 1 .. N : \A j \in 1 .. Len(seqs[i]) : flat[E[i - 1] + j] = seqs[i][j]
  BY <1>8 DEF Laid
<1>10. /\ off[1] = 0
       /\ \A v \in Nodes : off[v + 2] = off[v + 1] + degree[v]
       /\ \A v \in 0 .. N : off[v + 1] \in Nat
  BY <1>1, OffsetsGrow DEF IsOffsets
<1> DEFINE P == { i \in Nat : i <= N => E[i] = off[i + 1] * w }
<1>11. \A i \in Nat : i \in P
  <2>1. 0 \in P
    BY <1>9, <1>10
  <2>2. ASSUME NEW i \in Nat, i \in P
        PROVE  i + 1 \in P
    <3> SUFFICES ASSUME i + 1 <= N
                 PROVE  E[i + 1] = off[(i + 1) + 1] * w
      OBVIOUS
    <3>1. i + 1 \in 1 .. N /\ (i + 1) - 1 = i /\ (i + 1) + 1 = i + 2 /\ i \in 0 .. N
      OBVIOUS
    <3>2. i \in Nodes
      BY <1>6, <3>1
    <3>3. PICK d \in Nat : d = degree[i]
      BY <3>2
    <3>4. E[i + 1] = E[i] + d * w
      BY <1>6, <1>9, <3>1, <3>3
    <3>5. PICK o \in Nat : o = off[i + 1]
      BY <1>10, <3>1
    <3>6. off[i + 2] = o + d
      BY <1>10, <3>2, <3>3, <3>5
    <3>7. E[i] = o * w
      BY <2>2, <3>5
    <3>8. (o + d) * w = o * w + d * w
      OBVIOUS
    <3> QED
      BY <3>1, <3>4, <3>6, <3>7, <3>8
  <2> HIDE DEF P
  <2> QED
    BY <2>1, <2>2, Induction
<1>12. ASSUME NEW v \in Nodes, NEW j \in 1 .. degree[v] * w
       PROVE  flat[off[v + 1] * w + j] = List(v)[j]
  <2>1. v \in 0 .. N - 1
    BY <1>1 DEF Nodes
  <2>2. v + 1 \in 1 .. N /\ (v + 1) - 1 = v /\ v \in Nat /\ v <= N
    BY <2>1
  <2>3. E[v] = off[v + 1] * w
    <3>1. v \in P
      <4> HIDE DEF P
      <4> QED
        BY <1>11, <2>2
    <3> QED
      BY <2>2, <3>1
  <2>4. seqs[v + 1] = List(v) /\ j \in 1 .. Len(seqs[v + 1])
    BY <1>6, <2>2
  <2>5. flat[E[(v + 1) - 1] + j] = seqs[v + 1][j]
    BY <1>9, <2>2, <2>4
  <2> QED
    BY <2>2, <2>3, <2>4, <2>5
<1>13. Len(flat) = off[N + 1] * w
  <2>1. N \in P
    <3> HIDE DEF P
    <3> QED
      BY <1>11
  <2>2. E[N] = off[N + 1] * w
    BY <2>1
  <2> QED
    BY <1>9, <2>2
<1>14. IsEdgeFile(flat, off, degree, arcs, own, other, weighted)
  BY <1>1, <1>2, <1>3, <1>12, <1>13 DEF IsEdgeFile, List
<1> QED
  BY <1>5, <1>8, <1>14

\* A part of a part of a file.
IsPart(file, c, d, list) ==
  list \in Seq(Int) /\ Len(list) = d - c /\ \A j \in 1 .. d - c : file[c + j] = list[j]
PartAt(file, a, b, c, d) == SubSeq(SubSeq(file, a + 1, b), c - a + 1, d - a)

\* A cut of a cut is a cut of the file.
LEMMA PartOfPart ==
  ASSUME NEW file \in Seq(Int), NEW a \in Nat, NEW b \in Nat, NEW c \in Nat, NEW d \in Nat,
         a <= c, c <= d, d <= b, b <= Len(file),
         NEW list, IsPart(file, c, d, list)
  PROVE  PartAt(file, a, b, c, d) = list
<1>0. list \in Seq(Int) /\ Len(list) = d - c /\ \A j \in 1 .. d - c : file[c + j] = list[j]
  BY DEF IsPart
<1>1. PICK part : part = SubSeq(file, a + 1, b)
  OBVIOUS
<1>2. part \in Seq(Int) /\ Len(part) = b - a /\ \A i \in 1 .. b - a : part[i] = file[a + i]
  <2>1. \A i \in a + 1 .. b : file[i] \in Int
    OBVIOUS
  <2>2. a + 1 \in Int /\ b \in Int /\ b - (a + 1) + 1 = b - a
    OBVIOUS
  <2>3. /\ part \in Seq(Int) /\ Len(part) = IF a + 1 <= b THEN b - (a + 1) + 1 ELSE 0
        /\ \A i \in 1 .. b - (a + 1) + 1 : part[i] = file[(a + 1) + i - 1]
    BY <1>1, <2>1, <2>2, SubSeqProperties
  <2>4. \A i \in 1 .. b - a : (a + 1) + i - 1 = a + i
    OBVIOUS
  <2> QED
    BY <2>2, <2>3, <2>4
<1>3. PICK p \in Nat, q \in Nat : p = c - a /\ q = d - a /\ p <= q /\ q <= b - a /\ q - p = d - c
  <2>1. c - a \in Nat /\ d - a \in Nat
    OBVIOUS
  <2> QED
    BY <2>1
<1>4. PICK piece : piece = SubSeq(part, p + 1, q)
  OBVIOUS
<1>5. piece \in Seq(Int) /\ Len(piece) = q - p /\ \A i \in 1 .. q - p : piece[i] = part[p + i]
  <2>1. \A i \in p + 1 .. q : part[i] \in Int
    BY <1>2, <1>3
  <2>2. p + 1 \in Int /\ q \in Int /\ q - (p + 1) + 1 = q - p
    OBVIOUS
  <2>3. /\ piece \in Seq(Int) /\ Len(piece) = IF p + 1 <= q THEN q - (p + 1) + 1 ELSE 0
        /\ \A i \in 1 .. q - (p + 1) + 1 : piece[i] = part[(p + 1) + i - 1]
    BY <1>4, <2>1, <2>2, SubSeqProperties
  <2>4. \A i \in 1 .. q - p : (p + 1) + i - 1 = p + i
    OBVIOUS
  <2>5. (IF p + 1 <= q THEN q - (p + 1) + 1 ELSE 0) = q - p
    BY <1>3
  <2>6. \A i \in 1 .. q - p : piece[i] = part[p + i]
    BY <2>2, <2>3, <2>4
  <2> QED
    BY <2>3, <2>5, <2>6
<1>6. ASSUME NEW i \in 1 .. q - p
      PROVE  piece[i] = list[i]
  <2>1. p + i \in 1 .. b - a /\ a + (p + i) = c + i /\ i \in 1 .. d - c
    BY <1>3
  <2>2. piece[i] = part[p + i] /\ part[p + i] = file[a + (p + i)]
    BY <1>2, <1>5, <2>1
  <2> QED
    BY <1>0, <2>1, <2>2
<1>7. piece = list
  <2>1. Len(piece) = Len(list) /\ \A i \in 1 .. Len(piece) : piece[i] = list[i]
    BY <1>0, <1>3, <1>5, <1>6
  <2> QED
    BY <1>0, <1>5, <2>1, SeqEqual
<1> QED
  BY <1>1, <1>3, <1>4, <1>7 DEF PartAt

-----------------------------------------------------------------------------
(***************************************************************************)
(* What an executor makes of its part of the files.                        *)
(***************************************************************************)

\* The part of the file that belongs to a key, cut at the local offsets of a vertex, is
\* the edge list of the vertex.
Reads(off, file, k, e, v, list, d) ==
  LET own == SubSeq(off, k + 1, e + 1)
      local == LocalOffset(own)
  IN  /\ local[v - k + 2] - local[v - k + 1] = d * WordsPerEdge
      /\ SubSeq(Segment(file, own), local[v - k + 1] + 1, local[v - k + 2]) = list

\* An executor reads the edge list of every vertex it holds.
LEMMA ExecutorReads ==
  ASSUME TotalNode \in Nat, NEW degree \in [Nodes -> Nat], NEW off, IsOffsets(off, degree),
         NEW arcs, NEW own \in {1, 2}, NEW other \in {1, 2}, NEW file,
         IsEdgeFile(file, off, degree, arcs, own, other, csr.weighted),
         NEW k \in 0 .. TotalNode, NEW e \in k .. TotalNode, NEW v \in k .. e - 1,
         \A x \in k .. e : (off[x + 1] - off[k + 1]) * WordsPerEdge < Half,
         NEW list \in Seq(Int), list = EdgeList(arcs, own, other, csr.weighted, v)
  PROVE  Reads(off, file, k, e, v, list, degree[v])
<1>1. PICK N \in Nat : N = TotalNode
  OBVIOUS
<1>2. PICK w \in {1, 2} : w = WordsPerEdge /\ w = Words(csr.weighted)
  BY DEF WordsPerEdge, Words
<1>3. /\ k \in Nat /\ e \in Nat /\ v \in Nat /\ k <= v /\ v < e /\ e <= N
      /\ v \in Nodes
  BY <1>1 DEF Nodes
<1>4. /\ off \in Seq(Nat) /\ Len(off) = N + 1
      /\ \A x \in 0 .. N : off[x + 1] \in Nat
      /\ \A x, y \in 0 .. N : x <= y => off[x + 1] <= off[y + 1]
      /\ off[v + 2] = off[v + 1] + degree[v]
  BY <1>1, <1>3, OffsetsGrow DEF IsOffsets
<1>5. PICK s \in Seq(Nat) : /\ s = SubSeq(off, k + 1, e + 1) /\ Len(s) = e - k + 1
                            /\ \A i \in 1 .. e - k + 1 : s[i] = off[k + i]
  BY <1>1, <1>4, SegmentLength
<1>6. PICK oa \in Nat, oc \in Nat, od \in Nat, ob \in Nat, on \in Nat :
        /\ oa = off[k + 1] /\ oc = off[v + 1] /\ od = off[v + 2] /\ ob = off[e + 1] /\ on = off[N + 1]
        /\ oa <= oc /\ oc <= od /\ od <= ob /\ ob <= on
  <2>1. k \in 0 .. N /\ v \in 0 .. N /\ v + 1 \in 0 .. N /\ e \in 0 .. N /\ N \in 0 .. N
    BY <1>3
  <2>2. k <= v /\ v <= v + 1 /\ v + 1 <= e /\ e <= N /\ (v + 1) + 1 = v + 2
    BY <1>3
  <2>3. /\ off[k + 1] \in Nat /\ off[v + 1] \in Nat /\ off[(v + 1) + 1] \in Nat
        /\ off[e + 1] \in Nat /\ off[N + 1] \in Nat
    BY <1>4, <2>1
  <2>4. /\ off[k + 1] <= off[v + 1] /\ off[v + 1] <= off[(v + 1) + 1]
        /\ off[(v + 1) + 1] <= off[e + 1] /\ off[e + 1] <= off[N + 1]
    BY <1>4, <2>1, <2>2
  <2> QED
    BY <2>2, <2>3, <2>4
<1>7. PICK dv \in Nat : dv = degree[v] /\ od = oc + dv
  BY <1>3, <1>4, <1>6
<1>8. PICK a \in Nat, b \in Nat, c \in Nat, d \in Nat :
        /\ a = oa * w /\ b = ob * w /\ c = oc * w /\ d = od * w
        /\ a <= c /\ c <= d /\ d <= b /\ b <= on * w /\ d - c = dv * w
        /\ (oc - oa) * w = c - a /\ (od - oa) * w = d - a
  <2>1. oa * w \in Nat /\ ob * w \in Nat /\ oc * w \in Nat /\ od * w \in Nat
    OBVIOUS
  <2>2. PICK a \in Nat, b \in Nat, c \in Nat, d \in Nat :
          a = oa * w /\ b = ob * w /\ c = oc * w /\ d = od * w
    BY <2>1
  <2>3. /\ a <= c /\ c <= d /\ d <= b /\ b <= on * w /\ d - c = dv * w
        /\ (oc - oa) * w = c - a /\ (od - oa) * w = d - a
    <3>1. oa <= oc /\ oc <= od /\ od <= ob /\ ob <= on /\ od = oc + dv
      BY <1>6, <1>7
    <3>2. CASE w = 1
      <4>1. a = oa /\ b = ob /\ c = oc /\ d = od /\ on * w = on /\ dv * w = dv
        BY <2>2, <3>2
      <4>2. (oc - oa) * w = oc - oa /\ (od - oa) * w = od - oa
        BY <3>2
      <4> QED
        BY <3>1, <4>1, <4>2
    <3>3. CASE w = 2
      <4>1. /\ a = oa * 2 /\ b = ob * 2 /\ c = oc * 2 /\ d = od * 2
            /\ on * w = on * 2 /\ dv * w = dv * 2
        BY <2>2, <3>3
      <4>2. (oc - oa) * w = oc * 2 - oa * 2 /\ (od - oa) * w = od * 2 - oa * 2
        BY <3>3
      <4> QED
        BY <3>1, <4>1, <4>2
    <3> QED
      BY <3>2, <3>3
  <2> QED
    BY <2>2, <2>3
<1>9. PICK local : local = LocalOffset(s)
  OBVIOUS
<1>10. local[v - k + 1] = c - a /\ local[v - k + 2] = d - a
  <2>1. /\ v - k + 1 \in 1 .. e - k + 1 /\ v - k + 2 \in 1 .. e - k + 1 /\ 1 \in 1 .. e - k + 1
        /\ k + (v - k + 1) = v + 1 /\ k + (v - k + 2) = v + 2
    BY <1>3
  <2>2. s[v - k + 1] = oc /\ s[v - k + 2] = od /\ s[1] = oa
    BY <1>5, <1>6, <2>1
  <2>3. DOMAIN s = 1 .. e - k + 1
    BY <1>5
  <2>4. local[v - k + 1] = Int32((oc - oa) * w) /\ local[v - k + 2] = Int32((od - oa) * w)
    BY <1>2, <1>9, <2>1, <2>2, <2>3 DEF LocalOffset
  <2>5. v \in k .. e /\ v + 1 \in k .. e /\ (v + 1) + 1 = v + 2
    BY <1>3
  <2>6. (oc - oa) * w < Half /\ (od - oa) * w < Half
    BY <1>2, <1>6, <2>5
  <2>7. c - a \in Nat /\ d - a \in Nat /\ c - a < Half /\ d - a < Half
    BY <1>8, <2>6
  <2>8. Int32(c - a) = c - a /\ Int32(d - a) = d - a
    BY <2>7, Int32Small
  <2> QED
    BY <1>8, <2>4, <2>8
<1>11. Segment(file, s) = SubSeq(file, a + 1, b)
  <2>1. 1 \in 1 .. e - k + 1 /\ e - k + 1 \in 1 .. e - k + 1 /\ k + (e - k + 1) = e + 1
    BY <1>3
  <2>2. s[1] = oa /\ Last(s) = ob
    BY <1>5, <1>6, <2>1 DEF Last
  <2> QED
    BY <1>2, <1>8, <2>2 DEF Segment
<1>12. /\ file \in Seq(Int) /\ Len(file) = on * w
       /\ Len(list) = dv * w
       /\ \A j \in 1 .. dv * w : file[c + j] = list[j]
  <2>1. file \in Seq(Int) /\ Len(file) = off[TotalNode + 1] * w
    BY <1>2 DEF IsEdgeFile
  <2>2. /\ Len(list) = degree[v] * w
        /\ \A j \in 1 .. degree[v] * w : file[off[v + 1] * w + j] = list[j]
    BY <1>2, <1>3 DEF IsEdgeFile
  <2>3. on = off[TotalNode + 1] /\ off[v + 1] * w = c /\ degree[v] = dv
    BY <1>1, <1>6, <1>7, <1>8
  <2> QED
    BY <2>1, <2>2, <2>3
<1>13. SubSeq(SubSeq(file, a + 1, b), c - a + 1, d - a) = list
  <2>1. b <= Len(file) /\ IsPart(file, c, d, list)
    BY <1>8, <1>12 DEF IsPart
  <2>2. file \in Seq(Int) /\ a <= c /\ c <= d /\ d <= b
    BY <1>8, <1>12
  <2>3. PartAt(file, a, b, c, d) = list
    BY <2>1, <2>2, PartOfPart
  <2> QED
    BY <2>3 DEF PartAt
<1>14. (d - a) - (c - a) = dv * w
  BY <1>8
<1>15. SubSeq(Segment(file, s), local[v - k + 1] + 1, local[v - k + 2]) = list
  <2>1. (c - a) + 1 = c - a + 1
    OBVIOUS
  <2> QED
    BY <1>10, <1>11, <1>13, <2>1
<1>16. local[v - k + 2] - local[v - k + 1] = degree[v] * WordsPerEdge
  BY <1>2, <1>7, <1>10, <1>14
<1> QED
  BY <1>5, <1>9, <1>15, <1>16 DEF Reads

\* The list of v has an entry for every line between v and u, with the weight of the line.
Kept(list, own, other, v) ==
  /\ list \in Seq(Int)
  /\ \A u : Entries(list, Words(csr.weighted), u)
              = Between(own, other, v, u)
                + (IF csr.directed THEN 0 ELSE Between(other, own, v, u))
  /\ csr.weighted => \A j \in 1 .. Len(list) :
       j % 2 = 1 => list[j] \in Nat /\ list[j + 1] = Weight(list[j], v)

\* The degrees of one direction: lines with v at one end, or at either if undirected.
IsDegree(degree, own, other) ==
  /\ degree \in [Nodes -> Nat]
  /\ \A x \in Nodes : degree[x] = Ends(own, x) + (IF csr.directed THEN 0 ELSE Ends(other, x))

\* The words of the vertices k .. e - 1 can be counted in an int32; and an executor that
\* holds these vertices finds a kept list of v.
FitsIn(off, k, e) == \A x \in k .. e : (off[x + 1] - off[k + 1]) * WordsPerEdge < Half
Delivered(off, file, k, e, v, own, other, d) ==
  \E list : Reads(off, file, k, e, v, list, d) /\ Kept(list, own, other, v)

\* So it is for every vertex that an executor holds, in one direction.
LEMMA DirectionKept ==
  ASSUME IInv, csr # NoFile,
         NEW own \in {1, 2}, NEW other \in {1, 2}, own # other,
         NEW degree, IsDegree(degree, own, other), NEW off, IsOffsets(off, degree),
         NEW file, file = EdgeFile(csr.weighted, csr.directed, own, other),
         NEW k \in 0 .. TotalNode, NEW e \in k .. TotalNode, NEW v \in k .. e - 1,
         FitsIn(off, k, e)
  PROVE  Delivered(off, file, k, e, v, own, other, degree[v])
<1>1. /\ TotalNode \in Nat /\ hashed \in Seq(Nodes \X Nodes)
      /\ csr.directed \in BOOLEAN /\ csr.weighted \in BOOLEAN
  BY FileFacts DEF IInv, CsrOK, HashedOK
<1>2. PICK directed \in BOOLEAN, weighted \in BOOLEAN :
        directed = csr.directed /\ weighted = csr.weighted
  BY <1>1
<1>3. PICK arcs : arcs = Arcs(directed)
  OBVIOUS
<1>4. PICK m \in Nat : IsArcs(arcs, m, directed)
  BY <1>1, <1>3, ArcsAre
<1>5. arcs \in [1 .. m -> Nodes \X Nodes]
  BY <1>4 DEF IsArcs
<1>6. degree \in [Nodes -> Nat]
  BY DEF IsDegree
<1>7. \A x \in Nodes : ArcsAt(arcs, m, own, x) = degree[x]
  BY <1>2, <1>4 DEF IsArcs, IsDegree
<1>8. IsEdgeFile(file, off, degree, arcs, own, other, weighted)
  <2>1. IsEdgeFile(EdgeFile(weighted, directed, own, other), off, degree, arcs, own, other, weighted)
    BY <1>1, <1>3, <1>5, <1>6, <1>7, EdgeFileIs, ZenonT(40)
  <2> QED
    BY <1>2, <2>1
<1>9. PICK list : list = EdgeList(arcs, own, other, weighted, v)
  OBVIOUS
<1>10. PICK w \in {1, 2} : w = Words(weighted) /\ (weighted => w = 2)
  BY DEF Words
<1>11. IsList(list, arcs, m, own, other, w, v)
  <2>1. IsList(EdgeList(arcs, own, other, weighted, v), arcs, m, own, other, Words(weighted), v)
    BY <1>1, <1>5, EdgeListIs
  <2> QED
    BY <1>9, <1>10, <2>1
<1>12. Reads(off, file, k, e, v, list, degree[v])
  <2>1. list \in Seq(Int)
    BY <1>11 DEF IsList
  <2>2. IsEdgeFile(file, off, degree, arcs, own, other, csr.weighted)
    BY <1>2, <1>8
  <2>3. list = EdgeList(arcs, own, other, csr.weighted, v)
    BY <1>2, <1>9
  <2> QED
    BY <1>1, <1>6, <2>1, <2>2, <2>3, ExecutorReads DEF FitsIn
<1>13. Kept(list, own, other, v)
  <2>1. \A u : Entries(list, w, u)
                = Between(own, other, v, u) + (IF directed THEN 0 ELSE Between(other, own, v, u))
    BY <1>4, <1>11 DEF IsList, IsArcs
  <2>2. list \in Seq(Int) /\ (weighted => \A j \in 1 .. Len(list) :
                                j % 2 = 1 => /\ list[j] \in Nat
                                             /\ list[j + 1] = Weight(list[j], v))
    BY <1>10, <1>11 DEF IsList
  <2> QED
    BY <1>2, <1>10, <2>1, <2>2 DEF Kept
<1> QED
  BY <1>12, <1>13 DEF Delivered

\* The pairs counted in the arcs are the lines of the text.
LEMMA LinesBetween ==
  ASSUME hashed \in Seq(Nodes \X Nodes), NEW v, NEW u
  PROVE  /\ Between(1, 2, v, u) = Lines(v, u) /\ Between(2, 1, v, u) = Lines(u, v)
         /\ Lines(v, u) \in Nat /\ Lines(u, v) \in Nat
<1>1. PICK n \in Nat : DOMAIN hashed = 1 .. n /\ \A i \in 1 .. n : hashed[i] \in Nodes \X Nodes
  OBVIOUS
<1>2. \A i \in 1 .. n : /\ hashed[i] = << v, u >> <=> hashed[i][1] = v /\ hashed[i][2] = u
                        /\ hashed[i] = << u, v >> <=> hashed[i][2] = v /\ hashed[i][1] = u
  <2> SUFFICES ASSUME NEW i \in 1 .. n
               PROVE  /\ hashed[i] = << v, u >> <=> hashed[i][1] = v /\ hashed[i][2] = u
                      /\ hashed[i] = << u, v >> <=> hashed[i][2] = v /\ hashed[i][1] = u
    OBVIOUS
  <2>1. PICK a \in Nodes, b \in Nodes : hashed[i] = << a, b >>
    BY <1>1
  <2> QED
    BY <2>1
<1>3. /\ { i \in 1 .. n : hashed[i] = << v, u >> }
           = { i \in 1 .. n : hashed[i][1] = v /\ hashed[i][2] = u }
      /\ { i \in 1 .. n : hashed[i] = << u, v >> }
           = { i \in 1 .. n : hashed[i][2] = v /\ hashed[i][1] = u }
  BY <1>2
<1>4. /\ { i \in 1 .. n : hashed[i] = << v, u >> } \in SUBSET (1 .. n)
      /\ { i \in 1 .. n : hashed[i] = << u, v >> } \in SUBSET (1 .. n)
  OBVIOUS
<1>5. /\ Count({ i \in 1 .. n : hashed[i] = << v, u >> }) \in Nat
      /\ Count({ i \in 1 .. n : hashed[i] = << u, v >> }) \in Nat
  BY <1>4, CountOf DEF CountIs
<1> QED
  BY <1>1, <1>3, <1>5 DEF Between, Lines

\* What EdgesKept says of a list of out-edges and of a list of in-edges.
Both == IF csr.directed THEN 0 ELSE 1
SameOut(list, v) == SameAs(list, v, LAMBDA u : Lines(v, u) + Both * Lines(u, v))
SameIn(list, v) == SameAs(list, v, LAMBDA u : Lines(u, v) + Both * Lines(v, u))

\* A kept list has the lines of the text.
LEMMA SameLines ==
  ASSUME IInv, csr # NoFile, NEW own \in {1, 2}, NEW other \in {1, 2}, own # other,
         NEW list, NEW v \in Nat, Kept(list, own, other, v)
  PROVE  /\ own = 1 => SameOut(list, v)
         /\ own = 2 => SameIn(list, v)
<1>1. /\ hashed \in Seq(Nodes \X Nodes)
      /\ csr.directed \in BOOLEAN /\ csr.weighted \in BOOLEAN
  BY DEF IInv, CsrOK, HashedOK
<1>2. PICK w \in {1, 2} : w = Words(csr.weighted) /\ (csr.weighted <=> w = 2)
  BY <1>1 DEF Words
<1>3. /\ list \in Seq(Int)
      /\ \A u : Entries(list, w, u)
                  = Between(own, other, v, u)
                    + (IF csr.directed THEN 0 ELSE Between(other, own, v, u))
      /\ csr.weighted => \A j \in 1 .. Len(list) :
           j % 2 = 1 => list[j] \in Nat /\ list[j + 1] = Weight(list[j], v)
  BY <1>2 DEF Kept
<1>4. DOMAIN list = 1 .. Len(list)
  BY <1>3
<1> DEFINE entries == { i \in DOMAIN list : i % w = 1 % w }
<1>5. ASSUME NEW u
      PROVE  Count({ i \in entries : list[i] = u }) = Entries(list, w, u)
  <2>1. { i \in entries : list[i] = u }
          = { j \in 1 .. Len(list) : j % w = 1 % w /\ list[j] = u }
    BY <1>4
  <2> QED
    BY <2>1 DEF Entries
<1>6. ASSUME NEW u
      PROVE  /\ own = 1 => Count({ i \in entries : list[i] = u }) = Lines(v, u) + Both * Lines(u, v)
             /\ own = 2 => Count({ i \in entries : list[i] = u }) = Lines(u, v) + Both * Lines(v, u)
  <2>1. /\ Between(1, 2, v, u) = Lines(v, u) /\ Between(2, 1, v, u) = Lines(u, v)
        /\ Lines(v, u) \in Nat /\ Lines(u, v) \in Nat
    BY <1>1, LinesBetween
  <2>2. PICK a \in Nat, b \in Nat : a = Lines(v, u) /\ b = Lines(u, v)
    BY <2>1
  <2>3. Entries(list, w, u) = Between(own, other, v, u)
                              + (IF csr.directed THEN 0 ELSE Between(other, own, v, u))
    BY <1>3
  <2>4. PICK c : c = Count({ i \in entries : list[i] = u }) /\ c = Entries(list, w, u)
    BY <1>5
  <2>5. CASE own = 1
    <3>1. other = 2
      BY <2>5
    <3>2. c = a + (IF csr.directed THEN 0 ELSE b)
      BY <2>1, <2>2, <2>3, <2>4, <2>5, <3>1
    <3>3. a + (IF csr.directed THEN 0 ELSE b) = a + Both * b
      BY <1>1 DEF Both
    <3> QED
      BY <2>2, <2>4, <2>5, <3>2, <3>3
  <2>6. CASE own = 2
    <3>1. other = 1
      BY <2>6
    <3>2. c = b + (IF csr.directed THEN 0 ELSE a)
      BY <2>1, <2>2, <2>3, <2>4, <2>6, <3>1
    <3>3. b + (IF csr.directed THEN 0 ELSE a) = b + Both * a
      BY <1>1 DEF Both
    <3> QED
      BY <2>2, <2>4, <2>6, <3>2, <3>3
  <2> QED
    BY <2>5, <2>6
<1>7. ASSUME csr.weighted, NEW i \in entries
      PROVE  list[i] + v < Half => list[i + 1] = (list[i] + v) % 100
  <2>1. w = 2 /\ i \in 1 .. Len(list) /\ i % w = 1 % w
    BY <1>2, <1>4, <1>7
  <2>2. i % 2 = 1
    <3>1. 1 % 2 = 1
      OBVIOUS
    <3> QED
      BY <2>1, <3>1
  <2>3. list[i] \in Nat /\ list[i + 1] = Weight(list[i], v)
    BY <1>3, <1>7, <2>1, <2>2
  <2> QED
    BY <2>3, WeightSmall
<1>8. w = IF csr.weighted THEN 2 ELSE 1
  BY <1>1, <1>2
<1>9. CASE own = 1
  <2>1. \A u \in Nodes : Count({ i \in entries : list[i] = u }) = Lines(v, u) + Both * Lines(u, v)
    BY <1>6, <1>9
  <2> QED
    BY <1>7, <1>8, <1>9, <2>1 DEF SameOut, SameAs
<1>10. CASE own = 2
  <2>1. \A u \in Nodes : Count({ i \in entries : list[i] = u }) = Lines(u, v) + Both * Lines(v, u)
    BY <1>6, <1>10
  <2> QED
    BY <1>7, <1>8, <1>10, <2>1 DEF SameIn, SameAs
<1> QED
  BY <1>9, <1>10

\* The list that an executor returns for one direction, and the degree it computes.
LEMMA ListKept ==
  ASSUME NEW off, NEW file, NEW k, NEW e, NEW v, NEW list, NEW d \in Nat,
         csr.weighted \in BOOLEAN, Reads(off, file, k, e, v, list, d),
         NEW offset, offset = LocalOffset(SubSeq(off, k + 1, e + 1)),
         NEW words, words = Segment(file, SubSeq(off, k + 1, e + 1))
  PROVE  /\ SubSeq(words, offset[v - k + 1] + 1, offset[v - k + 2]) = list
         /\ CalcDegree(offset, k, v) = d
<1>1. /\ offset[v - k + 2] - offset[v - k + 1] = d * WordsPerEdge
      /\ SubSeq(words, offset[v - k + 1] + 1, offset[v - k + 2]) = list
  BY DEF Reads
<1>2. (d * WordsPerEdge) \div WordsPerEdge = d
  <2>1. WordsPerEdge = 1 \/ WordsPerEdge = 2
    BY DEF WordsPerEdge
  <2>2. (d * 1) \div 1 = d /\ (d * 2) \div 2 = d
    OBVIOUS
  <2> QED
    BY <2>1, <2>2
<1> QED
  BY <1>1, <1>2 DEF CalcDegree

\* All that EdgesKept says of one vertex.
LEMMA VertexKept ==
  ASSUME IInv, NEW k \in DOMAIN graphs, Fits(k), NEW v \in k .. k + config.sizes[k] - 1
  PROVE  /\ config.outEdge => SameOut(OutEdge(k, v), v)
         /\ config.inEdge => SameIn(InEdge(k, v), v)
         /\ CalcDegree(graphs[k].outOffset, k, v) = OutDegree(csr.directed)[v]
         /\ CalcDegree(graphs[k].inOffset, k, v) = InDegree(csr.directed)[v]
<1>1. PICK e : e = StopNode(k)
  OBVIOUS
<1>2. /\ k \in 0 .. TotalNode /\ e \in k .. TotalNode /\ config.sizes[k] = e - k
  BY <1>1, KeyStops
<1>3. csr # NoFile
  BY DEF IInv, GraphsOK, ConfigOK
<1>4. /\ TotalNode \in Nat
      /\ IsOffsets(csr.inOffset, InDegree(csr.directed))
      /\ IsOffsets(csr.outOffset, OutDegree(csr.directed))
      /\ InDegree(csr.directed) \in [Nodes -> Nat]
      /\ OutDegree(csr.directed) \in [Nodes -> Nat]
  BY <1>3, OffsetsRead
<1>5. v \in k .. e - 1
  BY <1>2, <1>4
<1>6. v \in Nodes
  BY <1>2, <1>4, <1>5 DEF Nodes
<1>7. /\ csr.weighted \in BOOLEAN
      /\ csr.inEdge = EdgeFile(csr.weighted, csr.directed, 2, 1)
      /\ csr.outEdge = EdgeFile(csr.weighted, csr.directed, 1, 2)
  BY <1>3 DEF IInv, CsrOK
<1>8. IsDegree(OutDegree(csr.directed), 1, 2) /\ IsDegree(InDegree(csr.directed), 2, 1)
  BY <1>4 DEF IsDegree, OutDegree, InDegree
<1>9. FitsIn(csr.outOffset, k, e) /\ FitsIn(csr.inOffset, k, e)
  BY <1>1 DEF Fits, FitsIn
<1>10. PICK out : /\ Reads(csr.outOffset, csr.outEdge, k, e, v, out, OutDegree(csr.directed)[v])
               /\ Kept(out, 1, 2, v)
  <2>1. Delivered(csr.outOffset, csr.outEdge, k, e, v, 1, 2, OutDegree(csr.directed)[v])
    BY <1>2, <1>3, <1>4, <1>5, <1>7, <1>8, <1>9, DirectionKept
  <2> QED
    BY <2>1 DEF Delivered
<1>11. PICK in : /\ Reads(csr.inOffset, csr.inEdge, k, e, v, in, InDegree(csr.directed)[v])
              /\ Kept(in, 2, 1, v)
  <2>1. Delivered(csr.inOffset, csr.inEdge, k, e, v, 2, 1, InDegree(csr.directed)[v])
    BY <1>2, <1>3, <1>4, <1>5, <1>7, <1>8, <1>9, DirectionKept
  <2> QED
    BY <2>1 DEF Delivered
<1>12. PICK g : /\ g = graphs[k]
                /\ g.inOffset = LocalOffset(SubSeq(csr.inOffset, k + 1, e + 1))
                /\ g.outOffset = LocalOffset(SubSeq(csr.outOffset, k + 1, e + 1))
                /\ config.inEdge => g.inCSR = Segment(csr.inEdge, SubSeq(csr.inOffset, k + 1, e + 1))
                /\ config.outEdge => g.outCSR = Segment(csr.outEdge, SubSeq(csr.outOffset, k + 1, e + 1))
  BY <1>1 DEF IInv, GraphsOK, LoadGraph
<1>13. PICK dOut \in Nat, dIn \in Nat :
         dOut = OutDegree(csr.directed)[v] /\ dIn = InDegree(csr.directed)[v]
  BY <1>4, <1>6
<1>14. /\ CalcDegree(g.outOffset, k, v) = dOut
       /\ config.outEdge => OutEdge(k, v) = out
  <2>1. PICK words : words = Segment(csr.outEdge, SubSeq(csr.outOffset, k + 1, e + 1))
    OBVIOUS
  <2>2. Reads(csr.outOffset, csr.outEdge, k, e, v, out, dOut)
    BY <1>10, <1>13
  <2>3. /\ SubSeq(words, g.outOffset[v - k + 1] + 1, g.outOffset[v - k + 2]) = out
        /\ CalcDegree(g.outOffset, k, v) = dOut
    BY <1>7, <1>12, <2>1, <2>2, ListKept
  <2> QED
    BY <1>12, <2>1, <2>3 DEF OutEdge
<1>15. /\ CalcDegree(g.inOffset, k, v) = dIn
       /\ config.inEdge => InEdge(k, v) = in
  <2>1. PICK words : words = Segment(csr.inEdge, SubSeq(csr.inOffset, k + 1, e + 1))
    OBVIOUS
  <2>2. Reads(csr.inOffset, csr.inEdge, k, e, v, in, dIn)
    BY <1>11, <1>13
  <2>3. /\ SubSeq(words, g.inOffset[v - k + 1] + 1, g.inOffset[v - k + 2]) = in
        /\ CalcDegree(g.inOffset, k, v) = dIn
    BY <1>7, <1>12, <2>1, <2>2, ListKept
  <2> QED
    BY <1>12, <2>1, <2>3 DEF InEdge
<1>vn. v \in Nat
  BY <1>2, <1>4, <1>5
<1>16. SameOut(out, v)
  BY <1>3, <1>10, <1>vn, SameLines
<1>17. SameIn(in, v)
  BY <1>3, <1>11, <1>vn, SameLines
<1> QED
  BY <1>12, <1>13, <1>14, <1>15, <1>16, <1>17

\* An edge of the text is in the adjacency of its source on the executor that holds the
\* source (and of its target, if undirected) exactly as often as in the text, with its
\* weight if the sum of its two ids is an int32; so are in-edges, and the degrees are those
\* of the text.  This holds while the words of a partition can be counted in an int32,
\* which is what Fits says.  A sum that wraps puts another weight in the file, and nothing
\* else changes.
THEOREM EdgesReachExecutors == Spec => []EdgesKept
<1>1. IInv => EdgesKept
  <2> SUFFICES ASSUME IInv, NEW k \in DOMAIN graphs, Fits(k),
                      NEW v \in k .. k + config.sizes[k] - 1
               PROVE  /\ config.outEdge =>
                           SameAs(OutEdge(k, v), v, LAMBDA u : Lines(v, u) + Both * Lines(u, v))
                      /\ config.inEdge =>
                           SameAs(InEdge(k, v), v, LAMBDA u : Lines(u, v) + Both * Lines(v, u))
                      /\ CalcDegree(graphs[k].outOffset, k, v) = OutDegree(csr.directed)[v]
                      /\ CalcDegree(graphs[k].inOffset, k, v) = InDegree(csr.directed)[v]
    BY Zenon DEF EdgesKept, Both
  <2>1. /\ config.outEdge => SameOut(OutEdge(k, v), v)
        /\ config.inEdge => SameIn(InEdge(k, v), v)
        /\ CalcDegree(graphs[k].outOffset, k, v) = OutDegree(csr.directed)[v]
        /\ CalcDegree(graphs[k].inOffset, k, v) = InDegree(csr.directed)[v]
    BY VertexKept
  <2> QED
    BY <2>1 DEF SameOut, SameIn
<1> QED
  BY <1>1, PreparationInvariant, PTL
==============================================================================
