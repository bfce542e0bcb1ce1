------------------------------ MODULE FiniteSums ------------------------------
(***************************************************************************)
(* Induction over sets of numbers, by the smallest counterexample;         *)
(* recursive functions on Nat; lemmas about SumFunction over finite sets,  *)
(* which the ledger's books are kept with and Folds defines by a recursive *)
(* function; and lemmas about FlattenSeq, another one.                     *)
(***************************************************************************)
EXTENDS SequencesExt, Functions, FiniteSetTheorems, WellFoundedInduction, TLAPS

\* A non-empty set of numbers has a smallest one.
LEMMA Smallest ==
  ASSUME NEW T \in SUBSET Nat, T # {}
  PROVE  \E x \in T : \A y \in T : x <= y
<1> DEFINE R == { p \in Nat \X Nat : p[1] < p[2] }
<1>1. IsWellFoundedOn(R, Nat)
  BY NatLessThanWellFounded DEF OpToRel
<1> HIDE DEF R
<1>2. PICK x \in T : \A y \in T : ~ (<< y, x >> \in R)
  BY <1>1, WFMin
<1>3. ASSUME NEW y \in T
      PROVE  x <= y
  <2>1. ~ (y < x)
    BY <1>2 DEF R
  <2> QED
    BY <2>1
<1> QED
  BY <1>3

\* Induction over a set of numbers.
LEMMA Induction ==
  ASSUME NEW S, 0 \in S, \A n \in Nat : n \in S => n + 1 \in S
  PROVE  Nat \subseteq S
<1> SUFFICES ASSUME Nat \ S # {} PROVE FALSE
  OBVIOUS
<1>1. PICK x \in Nat \ S : \A y \in Nat \ S : x <= y
  BY Smallest
<1>2. x # 0 /\ x - 1 \in Nat /\ x - 1 \notin S
  BY <1>1
<1> QED
  BY <1>1, <1>2

\* Induction over the subsets of a finite set.
LEMMA SetInduction ==
  ASSUME NEW S, IsFiniteSet(S), NEW Q, {} \in Q,
         \A T \in SUBSET S : \A x \in S \ T : T \in Q => T \cup {x} \in Q
  PROVE  \A T \in SUBSET S : T \in Q
<1> DEFINE P == { n \in Nat : \A T \in SUBSET S : Cardinality(T) = n => T \in Q }
<1>1. \A T \in SUBSET S : IsFiniteSet(T) /\ Cardinality(T) \in Nat
  BY FS_Subset, FS_CardinalityType
<1>2. 0 \in P
  BY <1>1, FS_EmptySet
<1>3. ASSUME NEW n \in Nat, n \in P
      PROVE  n + 1 \in P
  <2> SUFFICES ASSUME NEW T \in SUBSET S, Cardinality(T) = n + 1
               PROVE  T \in Q
    OBVIOUS
  <2>1. T # {}
    <3>1. Cardinality({}) = 0
      BY FS_EmptySet
    <3> QED
      BY <3>1
  <2>2. PICK x \in T : TRUE
    BY <2>1
  <2>3. Cardinality(T \ {x}) = n /\ T \ {x} \in SUBSET S
    <3>1. IsFiniteSet(T)
      BY <1>1
    <3>2. Cardinality(T \ {x}) = Cardinality(T) - 1
      BY <2>2, <3>1, FS_RemoveElement
    <3> QED
      BY <3>2
  <2>4. T \ {x} \in Q
    BY <1>3, <2>3
  <2>5. (T \ {x}) \cup {x} \in Q
    BY <2>2, <2>3, <2>4
  <2>6. (T \ {x}) \cup {x} = T
    BY <2>2
  <2> QED
    BY <2>5, <2>6
<1>4. Nat \subseteq P
  BY <1>2, <1>3, Induction
<1> QED
  BY <1>1, <1>4

-----------------------------------------------------------------------------
(***************************************************************************)
(* Recursive functions on Nat, their step given by a function.             *)
(***************************************************************************)
Iterates(step, a, D, n, g) ==
  /\ g \in [0 .. n -> D]
  /\ g[0] = a
  /\ \A i \in 0 .. n - 1 : g[i + 1] = step[g[i]]

\* Two such sequences are the same where both are defined.
LEMMA IteratesAgree ==
  ASSUME NEW D, NEW a \in D, NEW step \in [D -> D], NEW m \in Nat, NEW n \in Nat, NEW g, NEW k,
         Iterates(step, a, D, m, g), Iterates(step, a, D, n, k),
         NEW i \in Nat, i <= m, i <= n
  PROVE  g[i] = k[i]
<1> DEFINE P == { j \in Nat : j <= m /\ j <= n => g[j] = k[j] }
<1>1. 0 \in P
  BY DEF Iterates
<1>2. ASSUME NEW j \in Nat, j \in P
      PROVE  j + 1 \in P
  <2> SUFFICES ASSUME j + 1 <= m, j + 1 <= n
               PROVE  g[j + 1] = k[j + 1]
    OBVIOUS
  <2>1. g[j] = k[j]
    BY <1>2
  <2>2. j \in 0 .. m - 1 /\ j \in 0 .. n - 1
    OBVIOUS
  <2> QED
    BY <2>1, <2>2 DEF Iterates
<1>3. Nat \subseteq P
  BY <1>1, <1>2, Induction
<1> QED
  BY <1>3

\* The function that iterates step from a exists.
LEMMA Recursion ==
  ASSUME NEW D, NEW a \in D, NEW step \in [D -> D]
  PROVE  \E g \in [Nat -> D] : g[0] = a /\ \A n \in Nat : g[n + 1] = step[g[n]]
<1> DEFINE P == { n \in Nat : \E g : Iterates(step, a, D, n, g) }
           Upto(n) == CHOOSE g : Iterates(step, a, D, n, g)
           G == [n \in Nat |-> Upto(n)[n]]
<1>1. 0 \in P
  <2> DEFINE g == [i \in 0 .. 0 |-> a]
  <2>1. Iterates(step, a, D, 0, g)
    BY DEF Iterates
  <2> QED
    BY <2>1
<1>2. ASSUME NEW n \in Nat, n \in P
      PROVE  n + 1 \in P
  <2>1. PICK g : Iterates(step, a, D, n, g)
    BY <1>2
  <2> DEFINE k == [i \in 0 .. n + 1 |-> IF i = n + 1 THEN step[g[n]] ELSE g[i]]
  <2>2. \A i \in 0 .. n : g[i] \in D /\ k[i] = g[i]
    BY <2>1 DEF Iterates
  <2>3. k[n + 1] = step[g[n]] /\ step[g[n]] \in D
    BY <2>2
  <2>4. k \in [0 .. n + 1 -> D]
    BY <2>2, <2>3
  <2>5. k[0] = a
    BY <2>1, <2>2 DEF Iterates
  <2> HIDE DEF k
  <2>6. ASSUME NEW i \in 0 .. (n + 1) - 1
        PROVE  k[i + 1] = step[k[i]]
    <3>1. CASE i = n
      BY <2>2, <2>3, <3>1
    <3>2. CASE i # n
      <4>1. i \in 0 .. n - 1 /\ i + 1 \in 0 .. n /\ i \in 0 .. n
        BY <3>2
      <4> QED
        BY <2>1, <2>2, <4>1 DEF Iterates
    <3> QED
      BY <3>1, <3>2
  <2>7. Iterates(step, a, D, n + 1, k)
    BY <2>4, <2>5, <2>6 DEF Iterates
  <2> QED
    BY <2>7
<1>3. ASSUME NEW n \in Nat
      PROVE  Iterates(step, a, D, n, Upto(n))
  <2>1. n \in P
    BY <1>1, <1>2, Induction
  <2> QED
    BY <2>1
<1> HIDE DEF Upto
<1>4. G \in [Nat -> D]
  BY <1>3 DEF Iterates
<1>5. G[0] = a
  BY <1>3 DEF Iterates
<1>6. ASSUME NEW n \in Nat
      PROVE  G[n + 1] = step[G[n]]
  <2>1. Upto(n + 1)[n + 1] = step[Upto(n + 1)[n]]
    <3>1. Iterates(step, a, D, n + 1, Upto(n + 1)) /\ n \in 0 .. (n + 1) - 1
      BY <1>3
    <3> QED
      BY <3>1 DEF Iterates
  <2>2. Upto(n + 1)[n] = Upto(n)[n]
    BY <1>3, IteratesAgree
  <2>3. n + 1 \in Nat
    OBVIOUS
  <2> QED
    BY <2>1, <2>2, <2>3
<1> QED
  BY <1>4, <1>5, <1>6

Sequence(step, a, D, g) ==
  g \in [Nat -> D] /\ g[0] = a /\ \A n \in Nat : g[n + 1] = step[g[n]]

\* Every step function has such a sequence.
LEMMA SequenceExists ==
  ASSUME NEW D, NEW a \in D, NEW step \in [D -> D]
  PROVE  \E g : Sequence(step, a, D, g)
  BY Recursion DEF Sequence

Determined(step, S, V, rank) ==
  \A f, k \in [S -> V] : \A s \in S :
    (\A t \in S : rank[t] < rank[s] => f[t] = k[t]) => step[f][s] = step[k][s]
Fixed(step, S, V, f) == f \in [S -> V] /\ step[f] = f

\* A recursive definition on a set whose members have a rank exists, when the value at a
\* member is made of values at members of lower rank.
LEMMA FixedPoint ==
  ASSUME NEW S, NEW V, NEW N \in Nat, NEW rank \in [S -> 0 .. N],
         NEW step \in [[S -> V] -> [S -> V]], NEW first \in [S -> V],
         Determined(step, S, V, rank)
  PROVE  \E f : Fixed(step, S, V, f)
<1>1. PICK D : D = [S -> V]
  OBVIOUS
<1>2. PICK g : Sequence(step, first, D, g)
  <2>1. step \in [D -> D] /\ first \in D
    BY <1>1
  <2> QED
    BY <2>1, SequenceExists
<1> DEFINE Stays(n, s) == g[n + 1][s] = g[n][s]
           P == { n \in Nat : \A s \in S : rank[s] < n => Stays(n, s) }
<1>3. 0 \in P
  OBVIOUS
<1>4. ASSUME NEW n \in Nat, n \in P
      PROVE  n + 1 \in P
  <2> SUFFICES ASSUME NEW s \in S, rank[s] < n + 1
               PROVE  Stays(n + 1, s)
    OBVIOUS
  <2>1. \A t \in S : rank[t] < rank[s] => g[n + 1][t] = g[n][t]
    BY <1>4
  <2>2. g[n + 1] \in [S -> V] /\ g[n] \in [S -> V]
    BY <1>1, <1>2 DEF Sequence
  <2>3. step[g[n + 1]][s] = step[g[n]][s]
    BY <2>1, <2>2 DEF Determined
  <2>4. n + 1 \in Nat
    OBVIOUS
  <2>5. g[n + 1] = step[g[n]] /\ g[(n + 1) + 1] = step[g[n + 1]]
    BY <1>2, <2>4 DEF Sequence
  <2> QED
    BY <2>3, <2>5, Zenon
<1>5. N + 1 \in P
  <2> HIDE DEF P
  <2>1. N + 1 \in Nat
    OBVIOUS
  <2> QED
    BY <1>3, <1>4, <2>1, Induction
<1>6. PICK k : k = g[N + 1]
  OBVIOUS
<1>7. k \in [S -> V] /\ g[(N + 1) + 1] = step[k]
  <2>1. N + 1 \in Nat
    OBVIOUS
  <2> QED
    BY <1>1, <1>2, <1>6, <2>1 DEF Sequence
<1>8. \A s \in S : step[k][s] = k[s]
  <2>1. ASSUME NEW s \in S
        PROVE  Stays(N + 1, s)
    BY <1>5
  <2> QED
    BY <1>6, <1>7, <2>1
<1>9. step[k] = k
  <2>1. step[k] \in [S -> V]
    BY <1>7
  <2> HIDE DEF P
  <2> QED
    BY <1>7, <1>8, <2>1
<1> QED
  BY <1>7, <1>9 DEF Fixed

\* Sets that grow within a finite one, and do not grow again once they have stopped, have
\* stopped when as many steps were made as it has elements.
LEMMA GrowthEnds ==
  ASSUME NEW A, IsFiniteSet(A), NEW S \in [Nat -> SUBSET A],
         \A n \in Nat : S[n] \subseteq S[n + 1] /\ (S[n + 1] = S[n] => S[n + 2] = S[n + 1])
  PROVE  S[Cardinality(A) + 1] = S[Cardinality(A)]
<1>1. \A n \in Nat : IsFiniteSet(S[n]) /\ Cardinality(S[n]) \in Nat
  BY FS_Subset, FS_CardinalityType
<1> DEFINE P == { n \in Nat : S[n + 1] = S[n] \/ Cardinality(S[n]) >= n }
<1>2. 0 \in P
  BY <1>1
<1>3. ASSUME NEW n \in Nat, n \in P
      PROVE  n + 1 \in P
  <2>1. CASE S[n + 1] = S[n]
    <3>1. S[(n + 1) + 1] = S[n + 1]
      BY <2>1
    <3> QED
      BY <3>1
  <2>2. CASE S[n + 1] # S[n]
    <3>1. Cardinality(S[n]) >= n
      BY <1>3, <2>2
    <3>2. S[n] \subseteq S[n + 1] /\ IsFiniteSet(S[n + 1])
      BY <1>1
    <3>3. Cardinality(S[n]) < Cardinality(S[n + 1])
      <4>1. /\ Cardinality(S[n]) <= Cardinality(S[n + 1])
            /\ Cardinality(S[n + 1]) = Cardinality(S[n]) => S[n + 1] = S[n]
        BY <3>2, FS_Subset
      <4>2. n + 1 \in Nat
        OBVIOUS
      <4> QED
        BY <1>1, <2>2, <4>1, <4>2
    <3>4. Cardinality(S[n + 1]) >= n + 1
      BY <1>1, <3>1, <3>3
    <3> QED
      BY <3>4
  <2> QED
    BY <2>1, <2>2
<1>4. PICK c \in Nat : c = Cardinality(A)
  BY FS_CardinalityType
<1>5. c \in P
  BY <1>2, <1>3, Induction
<1>6. CASE Cardinality(S[c]) >= c
  <2>1. S[c] \subseteq A /\ Cardinality(S[c]) <= c
    BY <1>4, FS_Subset
  <2>2. S[c] = A
    BY <1>1, <1>4, <1>6, <2>1, FS_Subset
  <2>3. S[c] \subseteq S[c + 1] /\ S[c + 1] \subseteq A
    OBVIOUS
  <2> QED
    BY <1>4, <2>2, <2>3
<1> QED
  BY <1>4, <1>5, <1>6

\* The sets of elements from which f comes to the root in n steps.
Before(S, f, A, root) ==
  /\ S \in [Nat -> SUBSET A] /\ S[0] = {root}
  /\ \A n \in Nat : S[n + 1] = { t \in A : f[t] \in S[n] }

\* These sets exist.
LEMMA Backwards ==
  ASSUME NEW A, NEW f, NEW root \in A
  PROVE  \E S : Before(S, f, A, root)
<1> DEFINE D == SUBSET A
           start == {root}
           step == [S \in D |-> { t \in A : f[t] \in S }]
<1>1. start \in D
  OBVIOUS
<1>2. step \in [D -> D]
  OBVIOUS
<1> HIDE DEF step, D, start
<1>3. PICK S \in [Nat -> D] : S[0] = start /\ \A n \in Nat : S[n + 1] = step[S[n]]
  BY <1>1, <1>2, Recursion, Z3
<1>4. \A n \in Nat : S[n + 1] = { t \in A : f[t] \in S[n] }
  BY <1>3 DEF step
<1> QED
  BY <1>3, <1>4 DEF Before, D, start

\* f leads everything in A to the root, which it leaves there: it leaves no set without the
\* root closed.  And the way from an element.
Leads(f, A, root) ==
  /\ f \in [A -> A] /\ root \in A /\ f[root] = root
  /\ \A B \in SUBSET (A \ {root}) : B # {} => \E t \in B : f[t] \notin B
Way(up, f, A) == up[0] \in A /\ \A n \in Nat : up[n + 1] = f[up[n]]

\* There is a way from every element.
LEMMA WayExists ==
  ASSUME NEW A, NEW f \in [A -> A], NEW x \in A
  PROVE  \E up : Way(up, f, A) /\ up[0] = x /\ up \in [Nat -> A]
<1>1. PICK up \in [Nat -> A] : up[0] = x /\ \A n \in Nat : up[n + 1] = f[up[n]]
  BY Recursion, Z3
<1>2. Way(up, f, A)
  BY <1>1 DEF Way
<1> QED
  BY <1>1, <1>2

\* The root is reached in as many steps as there are elements.
LEMMA RootReached ==
  ASSUME NEW V, IsFiniteSet(V), NEW A \in SUBSET V, NEW f, NEW root, NEW up,
         Leads(f, A, root), Way(up, f, A)
  PROVE  up[Cardinality(V)] = root
<1> DEFINE c == Cardinality(V)
<1>0. /\ f \in [A -> A] /\ root \in A /\ f[root] = root
      /\ \A B \in SUBSET (A \ {root}) : B # {} => \E t \in B : f[t] \notin B
      /\ up[0] \in A /\ \A n \in Nat : up[n + 1] = f[up[n]]
  BY DEF Leads, Way
<1>1. c \in Nat
  BY FS_CardinalityType
<1>2. PICK S : Before(S, f, A, root)
  BY <1>0, Backwards
<1>3. /\ S \in [Nat -> SUBSET A] /\ S[0] = {root}
      /\ \A n \in Nat : S[n + 1] = { t \in A : f[t] \in S[n] }
  BY <1>2 DEF Before
<1>4. \A n \in Nat : S[n] \subseteq S[n + 1]
  <2> DEFINE P == { n \in Nat : S[n] \subseteq S[n + 1] }
  <2>1. 0 \in P
    BY <1>0, <1>3
  <2>2. ASSUME NEW n \in Nat, n \in P
        PROVE  n + 1 \in P
    <3>1. S[n] \subseteq S[n + 1] /\ n + 1 \in Nat
      BY <2>2
    <3>2. S[n + 1] = { t \in A : f[t] \in S[n] } /\ S[(n + 1) + 1] = { t \in A : f[t] \in S[n + 1] }
      BY <1>3, <3>1
    <3> QED
      BY <3>1, <3>2
  <2> HIDE DEF P
  <2>3. Nat \subseteq P
    BY <2>1, <2>2, Induction
  <2> QED
    BY <2>3 DEF P
<1>5. S[c + 1] = S[c]
  <2>1. \A n \in Nat : S[n + 1] = S[n] => S[n + 2] = S[n + 1]
    <3> SUFFICES ASSUME NEW n \in Nat, S[n + 1] = S[n]
                 PROVE  S[n + 2] = S[n + 1]
      OBVIOUS
    <3>1. n + 1 \in Nat /\ (n + 1) + 1 = n + 2
      OBVIOUS
    <3>2. S[(n + 1) + 1] = { t \in A : f[t] \in S[n + 1] } /\ S[n + 1] = { t \in A : f[t] \in S[n] }
      BY <1>3, <3>1
    <3> QED
      BY <3>1, <3>2
  <2>2. S \in [Nat -> SUBSET V]
    BY <1>3
  <2> QED
    BY <1>4, <2>1, <2>2, GrowthEnds
<1>6. S[c] = A
  <2> DEFINE B == A \ S[c]
  <2>1. root \in S[c]
    <3> DEFINE P == { n \in Nat : root \in S[n] }
    <3>1. 0 \in P /\ \A n \in Nat : n \in P => n + 1 \in P
      BY <1>3, <1>4
    <3> HIDE DEF P
    <3>2. c \in P
      BY <1>1, <3>1, Induction
    <3> QED
      BY <3>2 DEF P
  <2>2. ASSUME B # {}
        PROVE  FALSE
    <3>1. PICK t \in B : f[t] \notin B
      BY <1>0, <2>1, <2>2
    <3>2. t \in A /\ f[t] \in S[c]
      BY <1>0, <3>1
    <3>3. t \in S[c + 1]
      BY <1>1, <1>3, <3>2
    <3> QED
      BY <1>5, <3>1, <3>3
  <2> QED
    BY <1>1, <1>3, <2>2
<1>7. \A n \in Nat : n <= c => up[n] \in S[c - n]
  <2> DEFINE P == { n \in Nat : n <= c => up[n] \in S[c - n] }
  <2>1. 0 \in P
    BY <1>0, <1>1, <1>6
  <2>2. ASSUME NEW n \in Nat, n \in P, n + 1 <= c
        PROVE  up[n + 1] \in S[c - (n + 1)]
    <3>1. PICK m \in Nat : m = c - (n + 1) /\ m + 1 = c - n
      BY <1>1, <2>2
    <3>2. up[n] \in S[m + 1]
      BY <1>1, <2>2, <3>1
    <3>3. f[up[n]] \in S[m]
      BY <1>3, <3>2
    <3> QED
      BY <1>0, <3>1, <3>3
  <2>3. \A n \in Nat : n \in P => n + 1 \in P
    BY <2>2
  <2> HIDE DEF P
  <2>4. Nat \subseteq P
    BY <2>1, <2>3, Induction
  <2> QED
    BY <2>4 DEF P
<1> QED
  BY <1>1, <1>3, <1>7

-----------------------------------------------------------------------------
(***************************************************************************)
(* The recursive function behind SumFunctionOnSet.                         *)
(***************************************************************************)
Chosen(s) == CHOOSE x \in s : TRUE
Term(f, g, s) == IF s = {} THEN 0 ELSE f[Chosen(s)] + g[s \ {Chosen(s)}]
Folding(f, S) == CHOOSE g : g = [s \in SUBSET S |-> Term(f, g, s)]

\* The community modules' sum is the recursive function of this module.
LEMMA SumIsFolding ==
  ASSUME NEW f, NEW S
  PROVE  SumFunctionOnSet(f, S) = Folding(f, S)[S]
  BY DEF SumFunctionOnSet, FoldFunctionOnSet, MapThenFoldSet, Folding, Chosen, Term

\* CHOOSE picks a member of a set that has one.
LEMMA ChosenIn ==
  ASSUME NEW s, s # {}
  PROVE  Chosen(s) \in s
  BY DEF Chosen

\* It exists.
LEMMA FoldingExists ==
  ASSUME NEW f, NEW S, IsFiniteSet(S)
  PROVE  \A s \in SUBSET S : Folding(f, S)[s] = Term(f, Folding(f, S), s)
<1> DEFINE Upto(n) == \E g : /\ g = [s \in SUBSET S |-> g[s]]
                             /\ \A s \in SUBSET S : Cardinality(s) <= n => g[s] = Term(f, g, s)
           P == { n \in Nat : Upto(n) }
<1>1. \A s \in SUBSET S : /\ IsFiniteSet(s) /\ Cardinality(s) \in Nat
                          /\ Cardinality(s) <= Cardinality(S)
                          /\ Cardinality(s) = 0 <=> s = {}
  BY FS_Subset, FS_CardinalityType, FS_EmptySet
<1>2. 0 \in P
  <2> DEFINE g == [s \in SUBSET S |-> 0]
  <2>1. g = [s \in SUBSET S |-> g[s]]
    OBVIOUS
  <2>2. \A s \in SUBSET S : Cardinality(s) <= 0 => g[s] = Term(f, g, s)
    BY <1>1 DEF Term
  <2> HIDE DEF g
  <2>3. Upto(0)
    BY <2>1, <2>2
  <2> QED
    BY <2>3
<1>3. ASSUME NEW n \in Nat, n \in P
      PROVE  n + 1 \in P
  <2>1. PICK g : /\ g = [s \in SUBSET S |-> g[s]]
                 /\ \A s \in SUBSET S : Cardinality(s) <= n => g[s] = Term(f, g, s)
    BY <1>3
  <2> DEFINE k == [s \in SUBSET S |-> Term(f, g, s)]
  <2>2. k = [s \in SUBSET S |-> k[s]]
    OBVIOUS
  <2>3. ASSUME NEW s \in SUBSET S, Cardinality(s) <= n + 1
        PROVE  k[s] = Term(f, k, s)
    <3>1. CASE s = {}
      BY <3>1 DEF Term
    <3>2. CASE s # {}
      <4>1. s \ {Chosen(s)} \in SUBSET S /\ Cardinality(s \ {Chosen(s)}) <= n
        BY <1>1, <2>3, <3>2, ChosenIn, FS_RemoveElement
      <4>2. k[s \ {Chosen(s)}] = g[s \ {Chosen(s)}]
        BY <2>1, <4>1
      <4>3. k[s] = f[Chosen(s)] + g[s \ {Chosen(s)}]
        BY <3>2 DEF Term
      <4> QED
        BY <3>2, <4>2, <4>3 DEF Term
    <3> QED
      BY <3>1, <3>2
  <2> HIDE DEF k
  <2>4. Upto(n + 1)
    BY <2>2, <2>3
  <2>5. n + 1 \in Nat
    OBVIOUS
  <2> HIDE DEF Upto
  <2> QED
    BY <2>4, <2>5
<1>4. Cardinality(S) \in P
  BY <1>1, <1>2, <1>3, Induction
<1>5. PICK g : /\ g = [s \in SUBSET S |-> g[s]]
               /\ \A s \in SUBSET S : Cardinality(s) <= Cardinality(S) => g[s] = Term(f, g, s)
  BY <1>4
<1>6. g = [s \in SUBSET S |-> Term(f, g, s)]
  BY <1>1, <1>5
<1>7. Folding(f, S) = [s \in SUBSET S |-> Term(f, Folding(f, S), s)]
  BY <1>6 DEF Folding
<1> QED
  BY <1>7

\* A sum does not depend on the set the recursion started from.
LEMMA FoldingOfSubset ==
  ASSUME NEW f, NEW S, IsFiniteSet(S), NEW T \in SUBSET S
  PROVE  Folding(f, S)[T] = SumFunctionOnSet(f, T)
<1> DEFINE P == { n \in Nat : \A s \in SUBSET T :
                    Cardinality(s) <= n => Folding(f, S)[s] = Folding(f, T)[s] }
<1>1. IsFiniteSet(T)
  BY FS_Subset
<1>2. \A s \in SUBSET T : /\ IsFiniteSet(s) /\ Cardinality(s) \in Nat
                          /\ Cardinality(s) = 0 <=> s = {}
  BY <1>1, FS_Subset, FS_CardinalityType, FS_EmptySet
<1>3. \A s \in SUBSET T : /\ Folding(f, S)[s] = Term(f, Folding(f, S), s)
                          /\ Folding(f, T)[s] = Term(f, Folding(f, T), s)
  <2>1. \A s \in SUBSET S : Folding(f, S)[s] = Term(f, Folding(f, S), s)
    BY FoldingExists
  <2>2. \A s \in SUBSET T : Folding(f, T)[s] = Term(f, Folding(f, T), s)
    BY <1>1, FoldingExists
  <2> QED
    BY <2>1, <2>2
<1>4. 0 \in P
  BY <1>2, <1>3 DEF Term
<1>5. ASSUME NEW n \in Nat, n \in P
      PROVE  n + 1 \in P
  <2> SUFFICES ASSUME NEW s \in SUBSET T, Cardinality(s) <= n + 1
               PROVE  Folding(f, S)[s] = Folding(f, T)[s]
    OBVIOUS
  <2>1. CASE s = {}
    BY <1>3, <2>1 DEF Term
  <2>2. CASE s # {}
    <3>1. s \ {Chosen(s)} \in SUBSET T /\ Cardinality(s \ {Chosen(s)}) <= n
      BY <1>2, <2>2, ChosenIn, FS_RemoveElement, SMTT(30)
    <3>2. Folding(f, S)[s \ {Chosen(s)}] = Folding(f, T)[s \ {Chosen(s)}]
      BY <1>5, <3>1
    <3> QED
      BY <1>3, <2>2, <3>2 DEF Term
  <2> QED
    BY <2>1, <2>2
<1>6. Cardinality(T) \in P
  BY <1>2, <1>4, <1>5, Induction
<1>7. Folding(f, S)[T] = Folding(f, T)[T]
  BY <1>2, <1>6
<1> QED
  BY <1>7, SumIsFolding

-----------------------------------------------------------------------------
(***************************************************************************)
(* Adding up integers over a finite set.                                   *)
(***************************************************************************)
LEMMA SumEmpty ==
  ASSUME NEW f
  PROVE  SumFunctionOnSet(f, {}) = 0
<1>1. {} \in SUBSET {} /\ IsFiniteSet({})
  BY FS_EmptySet
<1>2. Folding(f, {})[{}] = Term(f, Folding(f, {}), {})
  BY <1>1, FoldingExists
<1> QED
  BY <1>2, SumIsFolding DEF Term

\* The sum takes the chosen member first.
LEMMA SumChosen ==
  ASSUME NEW f, NEW S, IsFiniteSet(S), S # {}
  PROVE  SumFunctionOnSet(f, S) = f[Chosen(S)] + SumFunctionOnSet(f, S \ {Chosen(S)})
<1>1. Folding(f, S)[S] = Term(f, Folding(f, S), S)
  BY FoldingExists
<1>2. S \ {Chosen(S)} \in SUBSET S
  OBVIOUS
<1>3. Folding(f, S)[S \ {Chosen(S)}] = SumFunctionOnSet(f, S \ {Chosen(S)})
  BY <1>2, FoldingOfSubset
<1> QED
  BY <1>1, <1>3, SumIsFolding DEF Term

\* A sum of integers, and of numbers, is one.
LEMMA SumType ==
  ASSUME NEW S, IsFiniteSet(S), NEW f, NEW D \in {Nat, Int}, \A x \in S : f[x] \in D
  PROVE  SumFunctionOnSet(f, S) \in D
<1> DEFINE P == { n \in Nat : \A T \in SUBSET S : Cardinality(T) <= n => SumFunctionOnSet(f, T) \in D }
<1>1. \A T \in SUBSET S : /\ IsFiniteSet(T) /\ Cardinality(T) \in Nat
                          /\ Cardinality(T) = 0 <=> T = {}
  BY FS_Subset, FS_CardinalityType, FS_EmptySet
<1>2. 0 \in P
  BY <1>1, SumEmpty
<1>3. ASSUME NEW n \in Nat, n \in P
      PROVE  n + 1 \in P
  <2> SUFFICES ASSUME NEW T \in SUBSET S, Cardinality(T) <= n + 1
               PROVE  SumFunctionOnSet(f, T) \in D
    OBVIOUS
  <2>1. CASE T = {}
    BY <2>1, SumEmpty
  <2>2. CASE T # {}
    <3>1. T \ {Chosen(T)} \in SUBSET S /\ Cardinality(T \ {Chosen(T)}) <= n
      BY <1>1, <2>2, ChosenIn, FS_RemoveElement
    <3>2. SumFunctionOnSet(f, T \ {Chosen(T)}) \in D
      BY <1>3, <3>1
    <3>3. SumFunctionOnSet(f, T) = f[Chosen(T)] + SumFunctionOnSet(f, T \ {Chosen(T)})
      BY <1>1, <2>2, SumChosen
    <3>4. f[Chosen(T)] \in D
      BY <2>2, ChosenIn
    <3> QED
      BY <3>2, <3>3, <3>4
  <2> QED
    BY <2>1, <2>2
<1>4. Cardinality(S) \in P
  BY <1>1, <1>2, <1>3, Induction
<1> QED
  BY <1>1, <1>4

\* Any element can be split off, not only the chosen one.
LEMMA SumAdd ==
  ASSUME NEW S, IsFiniteSet(S), NEW y, y \notin S,
         NEW f, \A x \in S \cup {y} : f[x] \in Int
  PROVE  SumFunctionOnSet(f, S \cup {y}) = f[y] + SumFunctionOnSet(f, S)
<1> DEFINE W == S \cup {y}
           Splits(T, z) == SumFunctionOnSet(f, T \cup {z}) = f[z] + SumFunctionOnSet(f, T)
           P == { n \in Nat : \A T \in SUBSET W : \A z \in W \ T : Cardinality(T) <= n => Splits(T, z) }
<1>1. \A T \in SUBSET W : /\ IsFiniteSet(T) /\ Cardinality(T) \in Nat
                          /\ Cardinality(T) = 0 <=> T = {}
  <2>1. IsFiniteSet(W)
    BY FS_AddElement
  <2> QED
    BY <2>1, FS_Subset, FS_CardinalityType, FS_EmptySet
<1>2. \A T \in SUBSET W : SumFunctionOnSet(f, T) \in Int
  BY <1>1, SumType
<1>3. ASSUME NEW T \in SUBSET W, NEW z \in W \ T, Chosen(T \cup {z}) = z
      PROVE  Splits(T, z)
  <2>1. IsFiniteSet(T \cup {z}) /\ T \cup {z} # {} /\ (T \cup {z}) \ {z} = T
    BY <1>1
  <2> QED
    BY <1>3, <2>1, SumChosen
<1>4. 0 \in P
  <2> SUFFICES ASSUME NEW T \in SUBSET W, NEW z \in W \ T, Cardinality(T) <= 0
               PROVE  Splits(T, z)
    OBVIOUS
  <2>1. T \cup {z} = {z}
    BY <1>1
  <2>2. Chosen(T \cup {z}) = z
    BY <2>1, ChosenIn
  <2> QED
    BY <1>3, <2>2
<1>5. ASSUME NEW n \in Nat, n \in P
      PROVE  n + 1 \in P
  <2> SUFFICES ASSUME NEW T \in SUBSET W, NEW z \in W \ T, Cardinality(T) <= n + 1
               PROVE  Splits(T, z)
    OBVIOUS
  <2>1. PICK x \in T \cup {z} : x = Chosen(T \cup {z})
    BY ChosenIn
  <2>2. CASE x = z
    BY <1>3, <2>1, <2>2
  <2>3. CASE x # z
    <3>1. PICK U \in SUBSET W : U = T \ {x}
      OBVIOUS
    <3>2. x \in T /\ x \in W \ U /\ z \in W \ U
      BY <2>1, <2>3, <3>1
    <3>3. Cardinality(U) <= n
      <4>1. IsFiniteSet(T) /\ Cardinality(T) \in Nat
        BY <1>1
      <4>2. Cardinality(U) = Cardinality(T) - 1
        BY <3>1, <3>2, <4>1, FS_RemoveElement
      <4> QED
        BY <4>1, <4>2
    <3>4. /\ SumFunctionOnSet(f, U \cup {z}) = f[z] + SumFunctionOnSet(f, U)
          /\ SumFunctionOnSet(f, U \cup {x}) = f[x] + SumFunctionOnSet(f, U)
      BY <1>5, <3>2, <3>3
    <3>5. U \cup {x} = T /\ (T \cup {z}) \ {x} = U \cup {z}
      BY <2>3, <3>1, <3>2
    <3>6. SumFunctionOnSet(f, T \cup {z}) = f[x] + SumFunctionOnSet(f, U \cup {z})
      <4>1. IsFiniteSet(T \cup {z}) /\ T \cup {z} # {}
        BY <1>1
      <4> QED
        BY <2>1, <3>5, <4>1, SumChosen
    <3>7. f[x] \in Int /\ f[z] \in Int /\ SumFunctionOnSet(f, U) \in Int
      BY <1>2, <3>2
    <3>8. SumFunctionOnSet(f, T) = f[x] + SumFunctionOnSet(f, U)
      BY <3>4, <3>5
    <3> QED
      BY <3>4, <3>6, <3>7, <3>8
  <2> QED
    BY <2>2, <2>3
<1>6. Cardinality(S) \in P
  BY <1>1, <1>4, <1>5, Induction
<1> QED
  BY <1>1, <1>6

\* Functions that agree have the same sum.
LEMMA SumSame ==
  ASSUME NEW S, IsFiniteSet(S), NEW f, NEW g,
         \A x \in S : f[x] \in Int /\ g[x] = f[x]
  PROVE  SumFunctionOnSet(g, S) = SumFunctionOnSet(f, S)
<1> DEFINE Q == { T \in SUBSET S : SumFunctionOnSet(g, T) = SumFunctionOnSet(f, T) }
<1>1. {} \in Q
  BY SumEmpty
<1>2. ASSUME NEW T \in SUBSET S, NEW x \in S \ T, T \in Q
      PROVE  T \cup {x} \in Q
  <2>1. IsFiniteSet(T)
    BY FS_Subset
  <2>2. /\ SumFunctionOnSet(f, T \cup {x}) = f[x] + SumFunctionOnSet(f, T)
        /\ SumFunctionOnSet(g, T \cup {x}) = g[x] + SumFunctionOnSet(g, T)
    BY <2>1, SumAdd
  <2> QED
    BY <1>2, <2>2
<1> HIDE DEF Q
<1>3. S \in Q
  BY <1>1, <1>2, SetInduction
<1> QED
  BY <1>3 DEF Q

\* The sum of a pointwise sum.
LEMMA SumPlus ==
  ASSUME NEW S, IsFiniteSet(S), NEW f, NEW g, NEW k,
         \A x \in S : f[x] \in Int /\ g[x] \in Int /\ k[x] = f[x] + g[x]
  PROVE  SumFunctionOnSet(k, S) = SumFunctionOnSet(f, S) + SumFunctionOnSet(g, S)
<1> DEFINE Q == { T \in SUBSET S :
                    SumFunctionOnSet(k, T) = SumFunctionOnSet(f, T) + SumFunctionOnSet(g, T) }
<1>1. {} \in Q
  BY SumEmpty
<1>2. ASSUME NEW T \in SUBSET S, NEW x \in S \ T, T \in Q
      PROVE  T \cup {x} \in Q
  <2>1. IsFiniteSet(T)
    BY FS_Subset
  <2>2. /\ SumFunctionOnSet(f, T \cup {x}) = f[x] + SumFunctionOnSet(f, T)
        /\ SumFunctionOnSet(g, T \cup {x}) = g[x] + SumFunctionOnSet(g, T)
        /\ SumFunctionOnSet(k, T \cup {x}) = k[x] + SumFunctionOnSet(k, T)
    <3>1. \A z \in S : f[z] \in Int /\ g[z] \in Int /\ k[z] \in Int
      OBVIOUS
    <3> QED
      BY <2>1, <3>1, SumAdd
  <2>3. SumFunctionOnSet(f, T) \in Int /\ SumFunctionOnSet(g, T) \in Int
    BY <2>1, SumType
  <2>4. k[x] = f[x] + g[x] /\ f[x] \in Int /\ g[x] \in Int
    OBVIOUS
  <2>5. SumFunctionOnSet(k, T) = SumFunctionOnSet(f, T) + SumFunctionOnSet(g, T)
    BY <1>2
  <2> QED
    BY <2>2, <2>3, <2>4, <2>5
<1> HIDE DEF Q
<1>3. S \in Q
  BY <1>1, <1>2, SetInduction
<1> QED
  BY <1>3 DEF Q

\* Changing one term changes the sum by as much.
LEMMA SumChange ==
  ASSUME NEW S, IsFiniteSet(S), NEW f, NEW g, NEW y \in S,
         \A x \in S : f[x] \in Int,
         g[y] \in Int, \A x \in S \ {y} : g[x] = f[x]
  PROVE  SumFunctionOnSet(g, S) = SumFunctionOnSet(f, S) - f[y] + g[y]
<1>1. PICK T \in SUBSET S : T = S \ {y}
  OBVIOUS
<1>2. IsFiniteSet(T) /\ y \notin T /\ T \cup {y} = S
  BY <1>1, FS_Subset
<1>3. SumFunctionOnSet(f, S) = f[y] + SumFunctionOnSet(f, T)
  <2>1. SumFunctionOnSet(f, T \cup {y}) = f[y] + SumFunctionOnSet(f, T)
    BY <1>2, SumAdd
  <2> QED
    BY <1>2, <2>1
<1>4. SumFunctionOnSet(g, S) = g[y] + SumFunctionOnSet(g, T)
  <2>1. SumFunctionOnSet(g, T \cup {y}) = g[y] + SumFunctionOnSet(g, T)
    BY <1>1, <1>2, SumAdd
  <2> QED
    BY <1>2, <2>1
<1>5. SumFunctionOnSet(g, T) = SumFunctionOnSet(f, T) /\ SumFunctionOnSet(f, T) \in Int
  BY <1>1, <1>2, SumSame, SumType
<1> QED
  BY <1>2, <1>3, <1>4, <1>5

\* A sum of numbers bounds each of its terms.
LEMMA SumBounds ==
  ASSUME NEW S, IsFiniteSet(S), NEW f, \A x \in S : f[x] \in Nat, NEW y \in S
  PROVE  f[y] <= SumFunctionOnSet(f, S)
<1>1. PICK T \in SUBSET S : T = S \ {y}
  OBVIOUS
<1>2. IsFiniteSet(T) /\ y \notin T /\ T \cup {y} = S
  BY <1>1, FS_Subset
<1>3. SumFunctionOnSet(f, S) = f[y] + SumFunctionOnSet(f, T)
  <2>1. \A z \in S : f[z] \in Int
    OBVIOUS
  <2>2. SumFunctionOnSet(f, T \cup {y}) = f[y] + SumFunctionOnSet(f, T)
    BY <1>2, <2>1, SumAdd
  <2> QED
    BY <1>2, <2>2
<1>4. SumFunctionOnSet(f, T) \in Nat
  BY <1>2, SumType
<1> QED
  BY <1>2, <1>3, <1>4

\* A smaller function has a smaller sum.
LEMMA SumMonotone ==
  ASSUME NEW S, IsFiniteSet(S), NEW f, NEW g,
         \A x \in S : f[x] \in Int /\ g[x] \in Int /\ f[x] <= g[x]
  PROVE  SumFunctionOnSet(f, S) <= SumFunctionOnSet(g, S)
<1> DEFINE k == [x \in S |-> g[x] - f[x]]
<1>1. \A x \in S : k[x] \in Nat /\ f[x] \in Int /\ g[x] = f[x] + k[x]
  OBVIOUS
<1> HIDE DEF k
<1>2. SumFunctionOnSet(g, S) = SumFunctionOnSet(f, S) + SumFunctionOnSet(k, S)
  BY <1>1, SumPlus
<1>3. SumFunctionOnSet(k, S) \in Nat /\ SumFunctionOnSet(f, S) \in Int
  BY <1>1, SumType
<1> QED
  BY <1>2, <1>3

\* The sum of a multiple is the multiple of the sum.
LEMMA SumTimes ==
  ASSUME NEW S, IsFiniteSet(S), NEW f, NEW g, NEW c \in Int,
         \A x \in S : f[x] \in Int /\ g[x] = f[x] * c
  PROVE  SumFunctionOnSet(g, S) = SumFunctionOnSet(f, S) * c
<1> DEFINE Q == { T \in SUBSET S : SumFunctionOnSet(g, T) = SumFunctionOnSet(f, T) * c }
<1>1. {} \in Q
  BY SumEmpty
<1>2. ASSUME NEW T \in SUBSET S, NEW x \in S \ T, T \in Q
      PROVE  T \cup {x} \in Q
  <2>1. IsFiniteSet(T)
    BY FS_Subset
  <2>2. f[x] \in Int /\ g[x] \in Int /\ \A z \in S : g[z] \in Int
    OBVIOUS
  <2>3. /\ SumFunctionOnSet(f, T \cup {x}) = f[x] + SumFunctionOnSet(f, T)
        /\ SumFunctionOnSet(g, T \cup {x}) = g[x] + SumFunctionOnSet(g, T)
    BY <2>1, <2>2, SumAdd
  <2>4. SumFunctionOnSet(f, T) \in Int
    BY <2>1, SumType
  <2>5. \A a, b \in Int : (a + b) * c = a * c + b * c
    OBVIOUS
  <2>6. SumFunctionOnSet(g, T) = SumFunctionOnSet(f, T) * c /\ g[x] = f[x] * c
    BY <1>2
  <2>7. (f[x] + SumFunctionOnSet(f, T)) * c = f[x] * c + SumFunctionOnSet(f, T) * c
    BY <2>2, <2>4, <2>5
  <2>8. SumFunctionOnSet(g, T \cup {x}) = SumFunctionOnSet(f, T \cup {x}) * c
    BY <2>3, <2>6, <2>7
  <2> QED
    BY <2>8
<1> HIDE DEF Q
<1>3. S \in Q
  BY <1>1, <1>2, SetInduction
<1> QED
  BY <1>3 DEF Q

\* Terms that are zero do not count.
LEMMA SumZeros ==
  ASSUME NEW S, IsFiniteSet(S), NEW T \in SUBSET S, NEW f,
         \A x \in S : f[x] \in Int, \A x \in S \ T : f[x] = 0
  PROVE  SumFunctionOnSet(f, S) = SumFunctionOnSet(f, T)
<1>1. PICK W \in SUBSET S : W = S \ T
  OBVIOUS
<1>2. IsFiniteSet(W) /\ IsFiniteSet(T)
  BY FS_Subset
<1> DEFINE Q == { U \in SUBSET W : SumFunctionOnSet(f, T \cup U) = SumFunctionOnSet(f, T) }
<1>3. {} \in Q
  <2>1. T \cup {} = T
    OBVIOUS
  <2> QED
    BY <2>1
<1>4. ASSUME NEW U \in SUBSET W, NEW x \in W \ U, U \in Q
      PROVE  U \cup {x} \in Q
  <2>1. PICK V \in SUBSET S : V = T \cup U
    BY <1>1
  <2>2. IsFiniteSet(V) /\ x \notin V /\ f[x] = 0
    BY <1>1, <2>1, FS_Subset
  <2>3. \A z \in V \cup {x} : f[z] \in Int
    BY <1>1
  <2>4. SumFunctionOnSet(f, V \cup {x}) = f[x] + SumFunctionOnSet(f, V)
    BY <2>2, <2>3, SumAdd
  <2>5. SumFunctionOnSet(f, V) \in Int
    BY <2>2, <2>3, SumType
  <2>6. V \cup {x} = T \cup (U \cup {x})
    BY <2>1
  <2>7. SumFunctionOnSet(f, V) = SumFunctionOnSet(f, T)
    BY <1>4, <2>1
  <2>8. SumFunctionOnSet(f, T \cup (U \cup {x})) = SumFunctionOnSet(f, T)
    <3>1. SumFunctionOnSet(f, V \cup {x}) = SumFunctionOnSet(f, V)
      BY <2>2, <2>4, <2>5
    <3> QED
      BY <2>6, <2>7, <3>1
  <2> QED
    BY <2>8
<1> HIDE DEF Q
<1>5. W \in Q
  BY <1>2, <1>3, <1>4, SetInduction
<1>6. T \cup W = S
  BY <1>1
<1> QED
  BY <1>5, <1>6 DEF Q

-----------------------------------------------------------------------------
(***************************************************************************)
(* FlattenSeq, which SequencesExt defines by a recursive function: where   *)
(* each sequence begins and ends in the flat one.                          *)
(***************************************************************************)
Flattening(seqs, n, D, g) ==
  /\ g \in [0 .. n -> Seq(D)]
  /\ g[0] = << >>
  /\ \A i \in 0 .. n - 1 : g[i + 1] = g[i] \o seqs[i + 1]

\* The sequences flattened one after the other.
LEMMA FlatteningExists ==
  ASSUME NEW D, NEW n \in Nat, NEW seqs \in [1 .. n -> Seq(D)]
  PROVE  \E g : Flattening(seqs, n, D, g)
<1> DEFINE Defined(m) == \E g : Flattening(seqs, m, D, g)
           P == { m \in Nat : m <= n => Defined(m) }
<1>1. 0 \in P
  <2> DEFINE g == [i \in 0 .. 0 |-> << >>]
  <2>1. << >> \in Seq(D)
    OBVIOUS
  <2>2. Flattening(seqs, 0, D, g)
    BY <2>1 DEF Flattening
  <2>3. Defined(0)
    BY <2>2
  <2> HIDE DEF Defined
  <2> QED
    BY <2>3
<1>2. ASSUME NEW m \in Nat, m \in P
      PROVE  m + 1 \in P
  <2> HIDE DEF Defined
  <2> SUFFICES ASSUME m + 1 <= n PROVE Defined(m + 1)
    OBVIOUS
  <2>0. Defined(m)
    BY <1>2
  <2>1. PICK g : Flattening(seqs, m, D, g)
    BY <2>0 DEF Defined
  <2>2. seqs[m + 1] \in Seq(D) /\ g[m] \in Seq(D)
    BY <2>1 DEF Flattening
  <2>3. PICK last \in Seq(D) : last = g[m] \o seqs[m + 1]
    <3>1. \A s, t \in Seq(D) : s \o t \in Seq(D)
      OBVIOUS
    <3> QED
      BY <2>2, <3>1, Zenon
  <2> DEFINE k == [i \in 0 .. m + 1 |-> IF i = m + 1 THEN last ELSE g[i]]
  <2>4. k \in [0 .. m + 1 -> Seq(D)]
    BY <2>1, <2>3 DEF Flattening
  <2>5. /\ \A i \in 0 .. m : k[i] = g[i]
        /\ k[m + 1] = last
    OBVIOUS
  <2> HIDE DEF k
  <2>6. k[0] = << >>
    BY <2>1, <2>5, SMTT(30) DEF Flattening
  <2>7. ASSUME NEW i \in 0 .. (m + 1) - 1
        PROVE  k[i + 1] = k[i] \o seqs[i + 1]
    <3>1. CASE i = m
      <4>1. k[m] = g[m] /\ k[m + 1] = g[m] \o seqs[m + 1]
        BY <2>3, <2>5
      <4> QED
        BY <3>1, <4>1, Zenon
    <3>2. CASE i # m
      <4>1. i \in 0 .. m - 1 /\ i \in 0 .. m /\ i + 1 \in 0 .. m
        BY <3>2
      <4> QED
        BY <2>1, <2>5, <4>1 DEF Flattening
    <3> QED
      BY <3>1, <3>2
  <2>8. Flattening(seqs, m + 1, D, k)
    BY <2>4, <2>6, <2>7 DEF Flattening
  <2> QED
    BY <2>8 DEF Defined
<1>3. n \in P
  <2> HIDE DEF P
  <2> QED
    BY <1>1, <1>2, Induction
<1> QED
  BY <1>3

\* FlattenSeq is the last of them.
LEMMA FlattenSeqIsLast ==
  ASSUME NEW D, NEW n \in Nat, NEW seqs \in [1 .. n -> Seq(D)], NEW g, Flattening(seqs, n, D, g)
  PROVE  FlattenSeq(seqs) = g[n]
<1>1. Len(seqs) = n /\ DOMAIN seqs = 1 .. n
  <2>1. seqs \in Seq(Seq(D))
    OBVIOUS
  <2> QED
    BY <2>1
<1>2. CASE n = 0
  <2>1. seqs = << >>
    BY <1>1, <1>2
  <2> QED
    BY <1>1, <1>2, <2>1 DEF FlattenSeq, Flattening
<1>3. CASE n # 0
  <2> DEFINE Is(f) == f = [i \in 1 .. n |-> IF i = 1 THEN seqs[i] ELSE f[i - 1] \o seqs[i]]
             flat == CHOOSE f : Is(f)
             k == [i \in 1 .. n |-> g[i]]
  <2>1. FlattenSeq(seqs) = flat[n]
    BY <1>1, <1>3 DEF FlattenSeq
  <2>2. \A i \in 1 .. n : /\ k[i] = g[i]
                          /\ i # 1 => k[i - 1] = g[i - 1]
    OBVIOUS
  <2>3. \A i \in 1 .. n : g[i] = IF i = 1 THEN seqs[i] ELSE g[i - 1] \o seqs[i]
    <3>1. ASSUME NEW i \in 1 .. n
          PROVE  g[i] = g[i - 1] \o seqs[i]
      <4>1. i - 1 \in 0 .. n - 1 /\ (i - 1) + 1 = i
        OBVIOUS
      <4> QED
        BY <4>1 DEF Flattening
    <3>2. g[1] = seqs[1]
      <4>1. seqs[1] \in Seq(D) /\ g[0] = << >>
        BY <1>3 DEF Flattening
      <4>2. << >> \o seqs[1] = seqs[1]
        BY <4>1
      <4>3. 1 \in 1 .. n /\ 1 - 1 = 0
        BY <1>3
      <4>4. g[1] = g[1 - 1] \o seqs[1]
        BY <3>1, <4>3, Zenon
      <4> QED
        BY <4>1, <4>2, <4>3, <4>4, Zenon
    <3>3. \A i \in 1 .. n : i = 1 => g[i] = seqs[i]
      BY <3>2
    <3> QED
      BY <3>1, <3>3
  <2>4. Is(k)
    BY <2>2, <2>3
  <2> HIDE DEF k, Is
  <2>5. Is(flat)
    BY <2>4
  <2> HIDE DEF flat
  <2>6. \A i \in 1 .. n : flat[i] = IF i = 1 THEN seqs[i] ELSE flat[i - 1] \o seqs[i]
    BY <2>5 DEF Is
  <2> DEFINE P == { m \in Nat : m + 1 <= n => flat[m + 1] = g[m + 1] }
  <2>7. 0 \in P
    BY <1>3, <2>3, <2>6
  <2>8. ASSUME NEW m \in Nat, m \in P
        PROVE  m + 1 \in P
    <3> SUFFICES ASSUME (m + 1) + 1 <= n
                 PROVE  flat[(m + 1) + 1] = g[(m + 1) + 1]
      OBVIOUS
    <3>1. flat[m + 1] = g[m + 1]
      BY <2>8
    <3>2. PICK i \in 1 .. n : i = (m + 1) + 1 /\ i # 1 /\ i - 1 = m + 1
      OBVIOUS
    <3>3. flat[i] = flat[i - 1] \o seqs[i] /\ g[i] = g[i - 1] \o seqs[i]
      BY <2>3, <2>6, <3>2
    <3> QED
      BY <3>1, <3>2, <3>3
  <2>9. n - 1 \in Nat
    BY <1>3
  <2>10. n - 1 \in P
    BY <2>7, <2>8, <2>9, Induction
  <2> QED
    BY <2>1, <2>9, <2>10
<1> QED
  BY <1>2, <1>3

\* flat has seqs[i] behind the place ends[i - 1].
Laid(seqs, n, flat, ends) ==
  /\ ends \in [0 .. n -> Nat] /\ ends[0] = 0
  /\ \A i \in 1 .. n : ends[i] = ends[i - 1] + Len(seqs[i])
  /\ Len(flat) = ends[n]
  /\ \A i \in 1 .. n : \A j \in 1 .. Len(seqs[i]) : flat[ends[i - 1] + j] = seqs[i][j]

\* Every sequence is in the flat one, and nothing else is.
LEMMA FlattenLays ==
  ASSUME NEW D, NEW n \in Nat, NEW seqs \in [1 .. n -> Seq(D)]
  PROVE  /\ FlattenSeq(seqs) \in Seq(D)
         /\ \E ends : Laid(seqs, n, FlattenSeq(seqs), ends)
<1>1. PICK g : Flattening(seqs, n, D, g)
  BY FlatteningExists
<1>2. FlattenSeq(seqs) = g[n]
  BY <1>1, FlattenSeqIsLast
<1> DEFINE ends == [i \in 0 .. n |-> Len(g[i])]
<1>3. \A i \in 0 .. n : g[i] \in Seq(D) /\ ends[i] = Len(g[i]) /\ ends[i] \in Nat
  BY <1>1 DEF Flattening
<1>4. ends \in [0 .. n -> Nat] /\ ends[0] = 0
  <2>1. ends[0] = Len(<< >>)
    BY <1>1 DEF Flattening
  <2> QED
    BY <1>3, <2>1
<1> HIDE DEF ends
<1>5. ASSUME NEW i \in 1 .. n
      PROVE  /\ seqs[i] \in Seq(D) /\ i - 1 \in 0 .. n /\ i \in 0 .. n
             /\ g[i] = g[i - 1] \o seqs[i]
             /\ ends[i] = ends[i - 1] + Len(seqs[i])
             /\ \A x \in 1 .. ends[i - 1] : g[i][x] = g[i - 1][x]
             /\ \A j \in 1 .. Len(seqs[i]) : g[i][ends[i - 1] + j] = seqs[i][j]
  <2>1. i - 1 \in 0 .. n - 1 /\ (i - 1) + 1 = i /\ i - 1 \in 0 .. n /\ i \in 0 .. n
    OBVIOUS
  <2>2. g[i] = g[i - 1] \o seqs[i]
    BY <1>1, <2>1 DEF Flattening
  <2>3. PICK s \in Seq(D) : s = g[i - 1]
    BY <1>3, <2>1
  <2>4. PICK t \in Seq(D) : t = seqs[i]
    OBVIOUS
  <2>5. /\ Len(s \o t) = Len(s) + Len(t)
        /\ \A x \in 1 .. Len(s) : (s \o t)[x] = s[x]
        /\ \A j \in 1 .. Len(t) : (s \o t)[Len(s) + j] = t[j]
    OBVIOUS
  <2> QED
    BY <1>3, <2>1, <2>2, <2>3, <2>4, <2>5
<1> DEFINE P == { m \in Nat : m <= n =>
                    \A i \in 1 .. m : \A j \in 1 .. Len(seqs[i]) :
                      /\ ends[i - 1] + j <= ends[m]
                      /\ g[m][ends[i - 1] + j] = seqs[i][j] }
<1>6. 0 \in P
  OBVIOUS
<1>7. ASSUME NEW m \in Nat, m \in P
      PROVE  m + 1 \in P
  <2> SUFFICES ASSUME m + 1 <= n, NEW i \in 1 .. m + 1, NEW j \in 1 .. Len(seqs[i])
               PROVE  /\ ends[i - 1] + j <= ends[m + 1]
                      /\ g[m + 1][ends[i - 1] + j] = seqs[i][j]
    OBVIOUS
  <2>1. m + 1 \in 1 .. n /\ (m + 1) - 1 = m /\ m \in 0 .. n /\ i \in 1 .. n
    OBVIOUS
  <2>2. /\ ends[m + 1] = ends[m] + Len(seqs[m + 1])
        /\ \A x \in 1 .. ends[m] : g[m + 1][x] = g[m][x]
        /\ \A y \in 1 .. Len(seqs[m + 1]) : g[m + 1][ends[m] + y] = seqs[m + 1][y]
    BY <1>5, <2>1
  <2>3. ends[m] \in Nat /\ Len(seqs[i]) \in Nat /\ Len(seqs[m + 1]) \in Nat /\ ends[i - 1] \in Nat
    <3>1. seqs[i] \in Seq(D) /\ seqs[m + 1] \in Seq(D) /\ i - 1 \in 0 .. n
      BY <2>1
    <3> QED
      BY <1>3, <2>1, <3>1
  <2>4. CASE i = m + 1
    BY <2>1, <2>2, <2>3, <2>4, SMTT(30)
  <2>5. CASE i # m + 1
    <3>1. i \in 1 .. m
      BY <2>5
    <3>2. ends[i - 1] + j <= ends[m] /\ g[m][ends[i - 1] + j] = seqs[i][j]
      BY <1>7, <2>1, <3>1
    <3>3. PICK x \in 1 .. ends[m] : x = ends[i - 1] + j
      BY <2>3, <3>2
    <3>4. g[m + 1][x] = g[m][x]
      BY <2>2
    <3>5. ends[i - 1] + j <= ends[m + 1]
      BY <2>2, <2>3, <3>2, SMTT(30)
    <3> QED
      BY <3>2, <3>3, <3>4, <3>5
  <2> QED
    BY <2>4, <2>5
<1>8. n \in P
  <2> HIDE DEF P
  <2> QED
    BY <1>6, <1>7, Induction
<1>9. Laid(seqs, n, FlattenSeq(seqs), ends)
  <2>1. n \in 0 .. n
    OBVIOUS
  <2> QED
    BY <1>2, <1>3, <1>4, <1>5, <1>8, <2>1 DEF Laid
<1>10. FlattenSeq(seqs) \in Seq(D)
  <2>1. n \in 0 .. n
    OBVIOUS
  <2> QED
    BY <1>2, <1>3, <2>1
<1> QED
  BY <1>9, <1>10

InOrder(n, ends) == \A i \in 0 .. n : \A k \in 0 .. i : ends[k] <= ends[i]
Filled(seqs, n, ends) ==
  \A x \in 1 .. ends[n] : \E i \in 1 .. n : \E j \in 1 .. Len(seqs[i]) : x = ends[i - 1] + j

\* The places are in order, and every place of the flat sequence is in one of them.
LEMMA LaidPlace ==
  ASSUME NEW D, NEW n \in Nat, NEW seqs \in [1 .. n -> Seq(D)], NEW flat, NEW ends,
         Laid(seqs, n, flat, ends)
  PROVE  InOrder(n, ends) /\ Filled(seqs, n, ends)
<1>1. /\ \A i \in 0 .. n : ends[i] \in Nat
      /\ ends[0] = 0
      /\ \A i \in 1 .. n : ends[i] = ends[i - 1] + Len(seqs[i]) /\ Len(seqs[i]) \in Nat
  BY DEF Laid
<1> DEFINE P == { m \in Nat : m <= n =>
                    /\ \A k \in 0 .. m : ends[k] <= ends[m]
                    /\ \A x \in 1 .. ends[m] :
                         \E i \in 1 .. n : \E j \in 1 .. Len(seqs[i]) : x = ends[i - 1] + j }
<1>2. 0 \in P
  BY <1>1
<1>3. ASSUME NEW m \in Nat, m \in P
      PROVE  m + 1 \in P
  <2> SUFFICES ASSUME m + 1 <= n
               PROVE  /\ \A k \in 0 .. m + 1 : ends[k] <= ends[m + 1]
                      /\ \A x \in 1 .. ends[m + 1] :
                           \E i \in 1 .. n : \E j \in 1 .. Len(seqs[i]) : x = ends[i - 1] + j
    OBVIOUS
  <2>1. /\ m + 1 \in 1 .. n /\ m \in 0 .. n /\ (m + 1) - 1 = m
        /\ ends[m + 1] = ends[m] + Len(seqs[m + 1])
        /\ ends[m] \in Nat /\ Len(seqs[m + 1]) \in Nat
    <3>1. m + 1 \in 1 .. n /\ m \in 0 .. n /\ (m + 1) - 1 = m
      OBVIOUS
    <3> QED
      BY <1>1, <3>1
  <2>2. /\ \A k \in 0 .. m : ends[k] <= ends[m]
        /\ \A x \in 1 .. ends[m] :
             \E i \in 1 .. n : \E j \in 1 .. Len(seqs[i]) : x = ends[i - 1] + j
    BY <1>3
  <2>3. ASSUME NEW k \in 0 .. m + 1
        PROVE  ends[k] <= ends[m + 1]
    <3>1. CASE k = m + 1
      BY <2>1, <3>1
    <3>2. CASE k # m + 1
      <4>1. k \in 0 .. m /\ k \in 0 .. n
        BY <3>2
      <4>2. ends[k] <= ends[m] /\ ends[k] \in Nat
        BY <1>1, <2>2, <4>1
      <4> QED
        BY <2>1, <4>2
    <3> QED
      BY <3>1, <3>2
  <2>4. ASSUME NEW x \in 1 .. ends[m + 1]
        PROVE  \E i \in 1 .. n : \E j \in 1 .. Len(seqs[i]) : x = ends[i - 1] + j
    <3>1. CASE x <= ends[m]
      BY <2>1, <2>2, <3>1
    <3>2. CASE ~ (x <= ends[m])
      <4>1. x - ends[m] \in 1 .. Len(seqs[m + 1]) /\ x = ends[m] + (x - ends[m])
        BY <2>1, <3>2
      <4> QED
        BY <2>1, <4>1
    <3> QED
      BY <3>1, <3>2
  <2> QED
    BY <2>3, <2>4
<1> HIDE DEF P
<1>4. Nat \subseteq P
  BY <1>2, <1>3, Induction
<1>5. \A i \in 0 .. n : i \in P /\ i <= n
  BY <1>4
<1> QED
  BY <1>5 DEF P, InOrder, Filled
=============================================================================
