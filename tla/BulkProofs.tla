---------------------------- MODULE BulkProofs ----------------------------
(***************************************************************************)
(* Proofs about Bulk: a bulk write is cut into runs that hold every         *)
(* operation once, and each command and its reply take from what is left   *)
(* and add to the result what they should.                                 *)
(***************************************************************************)
EXTENDS Bulk, WellFoundedInduction, FiniteSetTheorems, TLAPS

\* A set of numbers has a least one: what proofs by induction use here.
LEMMA Least ==
    ASSUME NEW T, \A x \in T : x \in Nat, T # {}
    PROVE  \E n \in T : \A m \in T : n <= m
  <1>0. T \subseteq Nat
    OBVIOUS
  <1>1. PICK n \in T : \A m \in T : ~(<<m, n>> \in OpToRel(<, Nat))
    BY <1>0, NatLessThanWellFounded, WFMin, Zenon
  <1>2. \A m \in T : <<m, n>> \in Nat \X Nat
    OBVIOUS
  <1>3. \A m \in T : ~(m < n)
    BY <1>1, <1>2 DEF OpToRel
  <1> QED  BY <1>3

\* The numbers of S that are less than i, and how many they are.
Below(S, i) == {j \in S : j < i}

LEMMA BelowSize ==
    ASSUME NEW S, IsFiniteSet(S), \A x \in S : x \in Nat, NEW i \in S
    PROVE  /\ IsFiniteSet(Below(S, i)) /\ Cardinality(Below(S, i)) \in Nat
           /\ Cardinality(Below(S, i)) < Cardinality(S)
  <1>1. Below(S, i) \subseteq S \ {i} /\ IsFiniteSet(S \ {i})
    BY FS_RemoveElement DEF Below
  <1>2. Cardinality(S \ {i}) = Cardinality(S) - 1
    BY FS_RemoveElement
  <1> QED  BY <1>1, <1>2, FS_Subset, FS_CardinalityType

LEMMA BelowOrder ==
    ASSUME NEW S, IsFiniteSet(S), \A x \in S : x \in Nat, NEW i \in S, NEW k \in S
    PROVE  i < k <=> Cardinality(Below(S, i)) < Cardinality(Below(S, k))
  <1>1. ASSUME NEW a \in S, NEW b \in S, a < b
        PROVE  Cardinality(Below(S, a)) < Cardinality(Below(S, b))
    <2>1. Below(S, a) \cup {a} \subseteq Below(S, b)
      BY <1>1 DEF Below
    <2>2. a \notin Below(S, a)
      BY <1>1 DEF Below
    <2>3. Cardinality(Below(S, a) \cup {a}) = Cardinality(Below(S, a)) + 1
      BY <2>2, BelowSize, FS_AddElement
    <2>4. Cardinality(Below(S, a) \cup {a}) <= Cardinality(Below(S, b))
      BY <2>1, BelowSize, FS_Subset
    <2> QED  BY <2>3, <2>4, BelowSize
  <1>2. CASE i < k
    BY <1>1, <1>2
  <1>3. CASE k < i
    BY <1>1, <1>3, BelowSize
  <1>4. CASE i = k
    BY <1>4, BelowSize
  <1> QED  BY <1>2, <1>3, <1>4

LEMMA HasRank ==
    ASSUME NEW S, IsFiniteSet(S), \A x \in S : x \in Nat, NEW k \in 1..Cardinality(S)
    PROVE  \E i \in S : Cardinality(Below(S, i)) = k - 1
  <1> DEFINE T == {n \in 1..Cardinality(S) : ~\E i \in S : Cardinality(Below(S, i)) = n - 1}
  <1>0. Cardinality(S) \in Nat
    BY FS_CardinalityType
  <1>1. SUFFICES ASSUME T # {} PROVE FALSE
    OBVIOUS
  <1>a. \A x \in T : x \in Nat
    BY <1>0
  <1>2. PICK n \in T : \A m \in T : n <= m
    <2> HIDE DEF T
    <2> QED  BY <1>a, <1>1, Least
  <1>3. n \in 1..Cardinality(S) /\ ~\E i \in S : Cardinality(Below(S, i)) = n - 1
    BY <1>2
  <1>4. \A m \in 1..(n - 1) : \E i \in S : Cardinality(Below(S, i)) = m - 1
    BY <1>0, <1>2, <1>3
  <1>5. CASE n = 1
    <2>1. S # {}
      BY <1>0, <1>3, FS_EmptySet
    <2>2. PICK i \in S : \A j \in S : i <= j
      BY <2>1, Least
    <2>3. Below(S, i) = {}
      BY <2>2 DEF Below
    <2> QED  BY <1>3, <1>5, <2>3, FS_EmptySet
  <1>6. CASE n # 1
    <2>1. PICK a \in S : Cardinality(Below(S, a)) = n - 2
      BY <1>0, <1>3, <1>4, <1>6
    <2> DEFINE U == {j \in S : a < j}
    <2>2. U # {}
      <3>1. SUFFICES ASSUME U = {} PROVE FALSE
        OBVIOUS
      <3>2. S = Below(S, a) \cup {a} /\ a \notin Below(S, a)
        BY <3>1 DEF Below
      <3>3. Cardinality(S) = Cardinality(Below(S, a)) + 1
        BY <3>2, BelowSize, FS_AddElement
      <3> QED  BY <1>0, <1>3, <2>1, <3>3
    <2>3. PICK i \in U : \A j \in U : i <= j
      BY <2>2, Least
    <2>4. Below(S, i) = Below(S, a) \cup {a} /\ a \notin Below(S, a)
      BY <2>3 DEF Below
    <2>5. Cardinality(Below(S, i)) = Cardinality(Below(S, a)) + 1
      BY <2>4, BelowSize, FS_AddElement
    <2> QED  BY <1>0, <1>3, <2>1, <2>5
  <1> QED  BY <1>5, <1>6

\* Sorted(S) lists every number of S once, in ascending order.
LEMMA SortedLists ==
    ASSUME NEW S, IsFiniteSet(S), \A x \in S : x \in Nat
    PROVE  /\ Sorted(S) \in Seq(S) /\ Len(Sorted(S)) = Cardinality(S)
           /\ \A k, m \in 1..Cardinality(S) : k < m <=> Sorted(S)[k] < Sorted(S)[m]
           /\ \A i \in S : \E k \in 1..Cardinality(S) : Sorted(S)[k] = i
  <1> DEFINE n == Cardinality(S)
             f == Sorted(S)
  <1>0. n \in Nat
    BY FS_CardinalityType
  <1>1. f = [k \in 1..n |-> CHOOSE i \in S : Cardinality(Below(S, i)) = k - 1]
    BY DEF Sorted, Below
  <1> HIDE DEF n, f
  <1>2. ASSUME NEW k \in 1..n
        PROVE  f[k] \in S /\ Cardinality(Below(S, f[k])) = k - 1
    <2>1. \E i \in S : Cardinality(Below(S, i)) = k - 1
      BY HasRank DEF n
    <2> QED  BY <1>1, <2>1
  <1>3. f \in Seq(S) /\ Len(f) = n
    <2>1. f \in [1..n -> S]
      BY <1>1, <1>2
    <2> QED  BY <1>0, <2>1
  <1>4. \A k, m \in 1..n : k < m <=> f[k] < f[m]
    BY <1>0, <1>2, BelowOrder
  <1>5. ASSUME NEW i \in S
        PROVE  \E k \in 1..n : f[k] = i
    <2> DEFINE k == Cardinality(Below(S, i)) + 1
    <2>1. k \in 1..n
      BY <1>0, BelowSize DEF n
    <2>2. f[k] \in S /\ Cardinality(Below(S, f[k])) = Cardinality(Below(S, i))
      BY <1>2, <2>1, BelowSize
    <2>3. ~(f[k] < i) /\ ~(i < f[k])
      BY <2>2, BelowOrder, BelowSize
    <2> QED  BY <2>1, <2>2, <2>3
  <1> QED  BY <1>3, <1>4, <1>5 DEF n, f

\* gen cuts the operations 1..n into runs: none is empty, and every operation
\* is in one run, once.
Cut(gen, n) ==
    /\ gen \in Seq(Seq(Nat)) /\ gen # <<>>
    /\ \A k \in DOMAIN gen : gen[k] # NoRun
    /\ \A k \in DOMAIN gen : \A i \in DOMAIN gen[k] : gen[k][i] \in 1..n
    /\ \A k, m \in DOMAIN gen : \A i \in DOMAIN gen[k], h \in DOMAIN gen[m] :
         gen[k][i] = gen[m][h] => k = m /\ i = h
    /\ \A j \in 1..n : \E k \in DOMAIN gen : \E i \in DOMAIN gen[k] : gen[k][i] = j

\* The runs of an ordered bulk write are in the order of its operations.
Ascending(gen) ==
    \A k, m \in DOMAIN gen : \A i \in DOMAIN gen[k], h \in DOMAIN gen[m] :
       k < m \/ (k = m /\ i < h) => gen[k][i] < gen[m][h]

\* A sequence lists S: every element, once.
Lists(f, S) ==
    /\ f \in Seq(Nat) /\ \A k \in DOMAIN f : f[k] \in S
    /\ \A k, m \in DOMAIN f : k < m <=> f[k] < f[m]
    /\ \A i \in S : \E k \in DOMAIN f : f[k] = i

LEMMA SortedIs ==
    ASSUME NEW S, IsFiniteSet(S), \A x \in S : x \in Nat
    PROVE  Lists(Sorted(S), S) /\ (S # {} => Sorted(S) # <<>>)
  <1> DEFINE f == Sorted(S)
  <1>1. /\ f \in Seq(S) /\ Len(f) = Cardinality(S)
        /\ \A k, m \in 1..Cardinality(S) : k < m <=> f[k] < f[m]
        /\ \A i \in S : \E k \in 1..Cardinality(S) : f[k] = i
    BY SortedLists
  <1> HIDE DEF f
  <1>2. DOMAIN f = 1..Cardinality(S) /\ f \in Seq(Nat) /\ \A k \in DOMAIN f : f[k] \in S
    BY <1>1
  <1>3. Lists(f, S)
    BY <1>1, <1>2 DEF Lists
  <1>4. S # {} => f # <<>>
    BY <1>1
  <1> QED  BY <1>3, <1>4 DEF f

LEMMA NonEmpty ==
    ASSUME NEW f, NEW S, Lists(f, S), f # <<>>
    PROVE  \E last \in Nat : last > 0 /\ DOMAIN f = 1..last /\ Len(f) = last
  <1>1. f \in Seq(Nat)
    BY DEF Lists
  <1>2. Len(f) \in Nat /\ DOMAIN f = 1..Len(f) /\ Len(f) # 0
    BY <1>1
  <1>3. Len(f) > 0
    BY <1>2
  <1> QED  BY <1>2, <1>3, Zenon

\* Elements of a list are one and the same at one place only.
LEMMA ListsOnce ==
    ASSUME NEW f, NEW S, Lists(f, S), NEW k \in DOMAIN f, NEW m \in DOMAIN f, f[k] = f[m]
    PROVE  k = m
  <1>1. k \in Nat /\ m \in Nat /\ f[k] \in Nat
    BY DEF Lists
  <1> QED  BY <1>1 DEF Lists

LEMMA Bounded ==
    ASSUME NEW n \in Nat, NEW S, \A x \in S : x \in 1..n
    PROVE  IsFiniteSet(S) /\ \A x \in S : x \in Nat
  <1>1. S \in SUBSET (1..n) /\ IsFiniteSet(1..n)
    BY FS_Interval
  <1>2. IsFiniteSet(S)
    BY <1>1, FS_Subset
  <1> QED  BY <1>2

LEMMA ClientCut ==
    ASSUME NEW types \in Seq(OpTypes), types # <<>>
    PROVE  Cut(client_runs(types), Len(types)) /\ Ascending(client_runs(types))
  <1> DEFINE n == Len(types)
             f == Sorted(DOMAIN types)
             gen == client_runs(types)
  <1>1. n \in Nat /\ n > 0 /\ DOMAIN types = 1..n /\ 1 \in 1..n
    OBVIOUS
  <1>a. IsFiniteSet(1..n) /\ \A x \in 1..n : x \in Nat
    BY <1>1, Bounded
  <1>b. f = Sorted(1..n)
    BY <1>1
  <1>2. Lists(f, 1..n) /\ f # <<>>
    <2> HIDE DEF f, n
    <2> QED  BY <1>1, <1>a, <1>b, SortedIs
  <1>3. gen = <<f>> /\ DOMAIN gen = {1} /\ gen[1] = f
    BY DEF client_runs
  <1> HIDE DEF f, gen, n
  <1>4. gen \in Seq(Seq(Nat)) /\ gen # <<>>
    BY <1>2, <1>3 DEF Lists
  <1>5. \A i \in DOMAIN f, h \in DOMAIN f : f[i] = f[h] => i = h
    BY <1>2, ListsOnce
  <1>6. Cut(gen, n)
    BY <1>2, <1>3, <1>4, <1>5 DEF Cut, NoRun, Lists
  <1>7. Ascending(gen)
    BY <1>2, <1>3 DEF Ascending, Lists
  <1> QED  BY <1>6, <1>7 DEF gen, n

\* A sequence of lists of disjoint sets.
LEMMA ListsCut ==
    ASSUME NEW n \in Nat, NEW gen, NEW S, NEW last \in Nat, last > 0,
           gen = [k \in 1..last |-> Sorted(S[k])],
           \A k \in 1..last : S[k] # {} /\ \A x \in S[k] : x \in 1..n,
           \A k, m \in 1..last : \A j \in 1..n : j \in S[k] /\ j \in S[m] => k = m,
           \A j \in 1..n : \E k \in 1..last : j \in S[k]
    PROVE  Cut(gen, n) /\ \A k \in 1..last : Lists(gen[k], S[k])
  <1>1. ASSUME NEW k \in 1..last
        PROVE  Lists(gen[k], S[k]) /\ gen[k] # <<>>
    <2>1. IsFiniteSet(S[k]) /\ \A x \in S[k] : x \in Nat
      BY Bounded
    <2>2. gen[k] = Sorted(S[k]) /\ S[k] # {}
      OBVIOUS
    <2> QED  BY <2>1, <2>2, SortedIs
  <1>2. gen \in Seq(Seq(Nat)) /\ gen # <<>> /\ DOMAIN gen = 1..last
    <2>1. gen \in [1..last -> Seq(Nat)]
      BY <1>1 DEF Lists
    <2> QED  BY <2>1
  <1>3. \A k \in 1..last : \A i \in DOMAIN gen[k] : gen[k][i] \in S[k] /\ gen[k][i] \in 1..n
    BY <1>1 DEF Lists
  <1>4. ASSUME NEW k \in 1..last, NEW m \in 1..last, NEW i \in DOMAIN gen[k], NEW h \in DOMAIN gen[m],
               gen[k][i] = gen[m][h]
        PROVE  k = m /\ i = h
    <2> DEFINE j == gen[k][i]
    <2>1. j \in 1..n /\ j \in S[k] /\ j \in S[m]
      BY <1>3, <1>4
    <2> HIDE DEF j
    <2>2. k = m
      BY <2>1
    <2> QED  BY <1>1, <1>4, <2>2, ListsOnce
  <1>5. ASSUME NEW j \in 1..n
        PROVE  \E k \in 1..last : \E i \in DOMAIN gen[k] : gen[k][i] = j
    <2>1. PICK k \in 1..last : j \in S[k]
      OBVIOUS
    <2>2. PICK i \in DOMAIN gen[k] : gen[k][i] = j
      BY <1>1, <2>1 DEF Lists
    <2> QED  BY <2>2
  <1>6. Cut(gen, n)
    <2>1. \A k \in DOMAIN gen : gen[k] # NoRun
      BY <1>1, <1>2 DEF NoRun
    <2>2. \A k \in DOMAIN gen : \A i \in DOMAIN gen[k] : gen[k][i] \in 1..n
      BY <1>2, <1>3
    <2>3. \A k, m \in DOMAIN gen : \A i \in DOMAIN gen[k], h \in DOMAIN gen[m] :
            gen[k][i] = gen[m][h] => k = m /\ i = h
      BY <1>2, <1>4
    <2>4. \A j \in 1..n : \E k \in DOMAIN gen : \E i \in DOMAIN gen[k] : gen[k][i] = j
      BY <1>2, <1>5
    <2> QED  BY <1>2, <2>1, <2>2, <2>3, <2>4 DEF Cut
  <1> QED  BY <1>1, <1>6

LEMMA UnorderedCut ==
    ASSUME NEW types \in Seq(OpTypes), types # <<>>
    PROVE  Cut(gen_unordered(types), Len(types))
  <1> DEFINE n == Len(types)
             T == {types[i] : i \in DOMAIN types}
             kinds == Sorted(T)
             gen == gen_unordered(types)
             S == [k \in DOMAIN kinds |-> {i \in DOMAIN types : types[i] = kinds[k]}]
  <1>1. n \in Nat /\ n > 0 /\ DOMAIN types = 1..n /\ \A i \in 1..n : types[i] \in 1..3
    BY DEF OpTypes
  <1>2. T # {} /\ \A x \in T : x \in 1..3
    BY <1>1
  <1>4. Lists(kinds, T) /\ kinds # <<>>
    <2> HIDE DEF T
    <2>1. IsFiniteSet(T) /\ \A x \in T : x \in Nat
      BY <1>2, Bounded
    <2> QED  BY <1>2, <2>1, SortedIs
  <1>5. gen = [k \in DOMAIN kinds |-> Sorted(S[k])]
    BY DEF gen_unordered
  <1>6. /\ \A k \in DOMAIN kinds : kinds[k] \in T
        /\ \A t \in T : \E k \in DOMAIN kinds : kinds[k] = t
        /\ \A k, m \in DOMAIN kinds : kinds[k] = kinds[m] => k = m
    BY <1>4, ListsOnce DEF Lists
  <1> HIDE DEF kinds, gen
  <1>7. PICK last \in Nat : last > 0 /\ DOMAIN kinds = 1..last
    BY <1>4, NonEmpty
  <1>8. \A k \in 1..last : S[k] # {} /\ \A x \in S[k] : x \in 1..n
    BY <1>1, <1>6, <1>7
  <1>9. \A k, m \in 1..last : \A j \in 1..n : j \in S[k] /\ j \in S[m] => k = m
    BY <1>1, <1>6, <1>7
  <1>10. \A j \in 1..n : \E k \in 1..last : j \in S[k]
    BY <1>1, <1>6, <1>7
  <1>11. gen = [k \in 1..last |-> Sorted(S[k])]
    BY <1>5, <1>7
  <1> HIDE DEF S, T, n
  <1>12. Cut(gen, n)
    BY <1>1, <1>7, <1>8, <1>9, <1>10, <1>11, ListsCut
  <1> QED  BY <1>12 DEF gen, n

LEMMA OrderedCut ==
    ASSUME NEW types \in Seq(OpTypes), types # <<>>
    PROVE  Cut(gen_ordered(types), Len(types)) /\ Ascending(gen_ordered(types))
  <1> DEFINE n == Len(types)
             B == {i \in DOMAIN types : i = 1 \/ types[i] # types[i - 1]}
             starts == Sorted(B)
             end(k) == IF k = Len(starts) THEN Len(types) ELSE starts[k + 1] - 1
             gen == gen_ordered(types)
             S == [k \in DOMAIN starts |-> starts[k]..end(k)]
  <1>1. n \in Nat /\ n > 0 /\ DOMAIN types = 1..n
    OBVIOUS
  <1>2. 1 \in B /\ \A x \in B : x \in 1..n
    BY <1>1
  <1>4. Lists(starts, B) /\ starts # <<>>
    <2> HIDE DEF B, n
    <2>1. IsFiniteSet(B) /\ \A x \in B : x \in Nat
      BY <1>1, <1>2, Bounded
    <2> QED  BY <1>2, <2>1, SortedIs
  <1>5. gen = [k \in DOMAIN starts |-> Sorted(S[k])]
    BY DEF gen_ordered
  <1>6. PICK last \in Nat : last > 0 /\ DOMAIN starts = 1..last /\ Len(starts) = last
    <2> HIDE DEF starts, B
    <2> QED  BY <1>4, NonEmpty
  <1>7. /\ \A k \in 1..last : starts[k] \in 1..n
        /\ \A k, m \in 1..last : k < m <=> starts[k] < starts[m]
        /\ \E k \in 1..last : starts[k] = 1
    <2> HIDE DEF starts, B, n
    <2> QED  BY <1>2, <1>4, <1>6 DEF Lists
  <1>8. \A k \in 1..last : S[k] = starts[k]..(IF k = last THEN n ELSE starts[k + 1] - 1)
    BY <1>6
  <1> HIDE DEF starts, S, gen, B, n
  <1>s. ASSUME NEW k \in 1..last
        PROVE  /\ starts[k] \in S[k]
               /\ \A j \in S[k] : j \in 1..n /\ starts[k] <= j /\ (k # last => j < starts[k + 1])
               /\ \A j \in 1..n : starts[k] <= j /\ (k # last => j < starts[k + 1]) => j \in S[k]
    <2>1. CASE k = last
      <3>1. S[k] = starts[k]..n /\ starts[k] \in 1..n
        BY <1>7, <1>8, <2>1
      <3> QED  BY <1>1, <2>1, <3>1
    <2>2. CASE k # last
      <3>1. k + 1 \in 1..last /\ k < k + 1
        BY <1>6, <2>2
      <3>2. S[k] = starts[k]..(starts[k + 1] - 1) /\ starts[k] \in 1..n /\ starts[k + 1] \in 1..n
            /\ starts[k] < starts[k + 1]
        BY <1>7, <1>8, <2>2, <3>1
      <3> QED  BY <1>1, <2>2, <3>2
    <2> QED  BY <2>1, <2>2
  <1>9. starts[1] = 1
    BY <1>6, <1>7
  <1>10. \A k \in 1..last : S[k] # {} /\ \A x \in S[k] : x \in 1..n
    BY <1>s
  <1>11. ASSUME NEW k \in 1..last, NEW m \in 1..last, k < m, NEW i \in S[k], NEW j \in S[m]
         PROVE  i < j
    <2>1. k + 1 \in 1..last /\ k # last /\ k \in Nat /\ m \in Nat
      BY <1>6, <1>11
    <2>2. starts[k + 1] <= starts[m]
      <3>1. CASE k + 1 = m
        BY <1>7, <3>1
      <3>2. CASE k + 1 < m
        BY <1>7, <2>1, <3>2
      <3> QED  BY <1>11, <2>1, <3>1, <3>2
    <2>3. i \in 1..n /\ i < starts[k + 1]
      BY <1>s, <2>1
    <2>4. j \in 1..n /\ starts[m] <= j
      BY <1>s
    <2>5. starts[k + 1] \in 1..n /\ starts[m] \in 1..n
      BY <1>7, <2>1
    <2> QED  BY <2>2, <2>3, <2>4, <2>5
  <1>12. \A k, m \in 1..last : \A j \in 1..n : j \in S[k] /\ j \in S[m] => k = m
    <2> SUFFICES ASSUME NEW k \in 1..last, NEW m \in 1..last, NEW j \in 1..n, j \in S[k], j \in S[m]
                 PROVE  k = m
      OBVIOUS
    <2>1. ~(k < m) /\ ~(m < k)
      <3>1. ~(j < j)
        OBVIOUS
      <3> QED  BY <1>11, <3>1
    <2> QED  BY <1>6, <2>1
  <1>13. ASSUME NEW j \in 1..n
         PROVE  \E k \in 1..last : j \in S[k]
    <2> DEFINE T == {k \in 1..last : k = last \/ starts[k + 1] > j}
    <2>1. T # {} /\ \A x \in T : x \in Nat
      BY <1>6
    <2>2. PICK k \in T : \A m \in T : k <= m
      <3> HIDE DEF T
      <3> QED  BY <2>1, Least
    <2>3. k \in 1..last /\ (k = last \/ starts[k + 1] > j)
      BY <2>2
    <2>4. starts[k] <= j
      <3>1. CASE k = 1
        BY <1>9, <3>1
      <3>2. CASE k # 1
        <4>1. k - 1 \in 1..last /\ k - 1 # last /\ ~(k <= k - 1)
          BY <1>6, <2>3, <3>2
        <4>2. k - 1 \notin T
          BY <2>2, <4>1
        <4>3. ~(starts[(k - 1) + 1] > j)
          BY <4>1, <4>2
        <4>4. (k - 1) + 1 = k
          BY <2>3
        <4> QED  BY <1>7, <2>3, <4>3, <4>4
      <3> QED  BY <3>1, <3>2
    <2>5. k # last => j < starts[k + 1]
      <3>1. k # last => k + 1 \in 1..last
        BY <1>6, <2>3
      <3> QED  BY <1>7, <2>3, <3>1
    <2> QED  BY <1>s, <2>3, <2>4, <2>5
  <1>14. gen = [k \in 1..last |-> Sorted(S[k])]
    BY <1>5, <1>6
  <1>15. Cut(gen, n) /\ \A k \in 1..last : Lists(gen[k], S[k])
    BY <1>1, <1>6, <1>10, <1>12, <1>13, <1>14, ListsCut
  <1>16. Ascending(gen)
    <2> SUFFICES ASSUME NEW k \in 1..last, NEW m \in 1..last, NEW i \in DOMAIN gen[k], NEW h \in DOMAIN gen[m],
                        k < m \/ (k = m /\ i < h)
                 PROVE  gen[k][i] < gen[m][h]
      BY <1>14 DEF Ascending
    <2>1. gen[k][i] \in S[k] /\ gen[m][h] \in S[m]
      BY <1>15 DEF Lists
    <2>2. CASE k < m
      BY <1>11, <2>1, <2>2
    <2>3. CASE k = m /\ i < h
      BY <1>15, <2>3 DEF Lists
    <2> QED  BY <2>2, <2>3
  <1> QED  BY <1>15, <1>16 DEF gen, n

\* gen_ordered, gen_unordered and MongoClient.bulk_write cut a bulk write into
\* runs none of which is empty, in which every operation occurs exactly once,
\* and in the order of the request if it is ordered, whatever its length and
\* however its types alternate.
THEOREM BulkCut ==
    ASSUME NEW r, r.types \in Seq(OpTypes), r.types # <<>>, r.client \in BOOLEAN, r.ordered \in BOOLEAN
    PROVE  /\ Cut(NewBulk(r).gen, Len(r.types))
           /\ r.ordered => Ascending(NewBulk(r).gen)
  <1>1. NewBulk(r).gen = IF r.client THEN client_runs(r.types)
                         ELSE IF r.ordered THEN gen_ordered(r.types) ELSE gen_unordered(r.types)
    BY DEF NewBulk
  <1> QED  BY <1>1, ClientCut, OrderedCut, UnorderedCut

-----------------------------------------------------------------------------
(* What is left of a bulk write.                                           *)

\* A bulk write as its caller makes it.
Request(r) == /\ r.types \in Seq(OpTypes) /\ r.types # <<>>
              /\ r.client \in BOOLEAN /\ r.ordered \in BOOLEAN

\* The operations of a run, of those that wait, and of the run at work that no
\* reply came for.
Items(r) == {r[k] : k \in DOMAIN r}
Queue(gen) == UNION {Items(gen[g]) : g \in DOMAIN gen}
After(r, offset) == {r[k] : k \in offset + 1..Len(r)}
Rest(b) == After(b.cur, b.offset)
Left(b) == Rest(b) \cup Items(b.next) \cup Queue(b.gen)

\* S and T have nothing in common and, if that matters, S comes first.
Before(S, T, ordered) == \A i \in S, j \in T : i # j /\ (ordered => i < j)

\* A run, and the runs that wait.
Once(r, n, ordered) ==
    /\ r \in Seq(Nat) /\ \A k \in DOMAIN r : r[k] \in 1..n
    /\ \A k, m \in DOMAIN r : k < m => r[k] # r[m] /\ (ordered => r[k] < r[m])
Queued(gen, n, ordered) ==
    /\ gen \in Seq(Seq(Nat))
    /\ \A g \in DOMAIN gen : gen[g] # NoRun /\ Once(gen[g], n, ordered)
    /\ \A g, h \in DOMAIN gen : g < h => Before(Items(gen[g]), Items(gen[h]), ordered)

Waits(b, n, ordered) ==
    /\ Once(b.cur, n, ordered) /\ b.offset \in 0..Len(b.cur)
    /\ Once(b.next, n, ordered) /\ Queued(b.gen, n, ordered)
    /\ Before(Rest(b), Items(b.next), ordered) /\ Before(Rest(b), Queue(b.gen), ordered)
    /\ Before(Items(b.next), Queue(b.gen), ordered)
    /\ b.cur = NoRun => b.next = NoRun
    /\ b.request.client => (b.cur = NoRun /\ Len(b.gen) = 1) \/ (b.gen = <<>> /\ b.next = NoRun)

\* a says how often each operation was applied; done: the command at work was
\* executed.  Of what is left nothing was applied but the command at work, and
\* what is not left was applied, and counted, or is an error.
Settled(b, L, a, n, ordered) ==
    /\ \A j \in 1..n : (a[j] = 0 \/ a[j] = 1) /\ (j \in L \/ a[j] = 1 \/ j \in b.errors)
    /\ \A j \in b.errors : j \in 1..n /\ a[j] = 0 /\ j \notin L
    /\ b.n = Cardinality({j \in 1..n : a[j] = 1 /\ j \notin L})
    /\ ordered => b.errors = {} /\ \A i \in L, j \in 1..n : i < j => j \in L
BulkInv(b, a, done) ==
    LET n == Len(b.request.types)
        ordered == b.request.ordered
    IN  /\ Request(b.request)
        /\ Waits(b, n, ordered) /\ Settled(b, Left(b), a, n, ordered)
        /\ b.cur = NoRun => ~done
        /\ \A j \in Left(b) : a[j] = 1 <=> done /\ j \in Writes(b)

LEMMA QueueHead ==
    ASSUME NEW n \in Nat, NEW ordered \in BOOLEAN, NEW gen, Queued(gen, n, ordered), gen # <<>>
    PROVE  /\ Once(Head(gen), n, ordered) /\ Head(gen) # NoRun
           /\ Queued(Tail(gen), n, ordered) /\ Len(Tail(gen)) = Len(gen) - 1
           /\ Queue(gen) = Items(Head(gen)) \cup Queue(Tail(gen))
           /\ Before(Items(Head(gen)), Queue(Tail(gen)), ordered)
  <1> DEFINE m == Len(gen)
             t == Tail(gen)
  <1>1. gen \in Seq(Seq(Nat))
    BY DEF Queued
  <1>2. /\ m \in Nat \ {0} /\ DOMAIN gen = 1..m /\ 1 \in 1..m /\ Head(gen) = gen[1]
        /\ t \in Seq(Seq(Nat)) /\ Len(t) = m - 1 /\ DOMAIN t = 1..(m - 1)
    BY <1>1
  <1>a. \A k \in 1..(m - 1) : t[k] = gen[k + 1]
    BY <1>1
  <1> HIDE DEF m, t
  <1>b. \A k \in DOMAIN t : k \in Nat /\ k + 1 \in DOMAIN gen /\ t[k] = gen[k + 1] /\ 1 < k + 1
    BY <1>2, <1>a
  <1>c. \A k \in DOMAIN gen : k = 1 \/ (k - 1 \in DOMAIN t /\ t[k - 1] = gen[k])
    <2> SUFFICES ASSUME NEW k \in DOMAIN gen, k # 1
                 PROVE  k - 1 \in DOMAIN t /\ t[k - 1] = gen[k]
      OBVIOUS
    <2>1. k - 1 \in 1..(m - 1) /\ (k - 1) + 1 = k
      BY <1>2
    <2> QED  BY <1>2, <1>a, <2>1
  <1>3. Once(Head(gen), n, ordered) /\ Head(gen) # NoRun
    BY <1>2 DEF Queued
  <1>4. Queued(t, n, ordered)
    <2>1. \A g \in DOMAIN t : t[g] # NoRun /\ Once(t[g], n, ordered)
      BY <1>2, <1>b DEF Queued
    <2>2. \A g, h \in DOMAIN t : g < h => Before(Items(t[g]), Items(t[h]), ordered)
      <3> SUFFICES ASSUME NEW g \in DOMAIN t, NEW h \in DOMAIN t, g < h
                   PROVE  Before(Items(t[g]), Items(t[h]), ordered)
        OBVIOUS
      <3>1. g + 1 \in DOMAIN gen /\ h + 1 \in DOMAIN gen /\ g + 1 < h + 1 /\ t[g] = gen[g + 1] /\ t[h] = gen[h + 1]
        BY <1>b
      <3> QED  BY <3>1 DEF Queued
    <2> QED  BY <1>2, <2>1, <2>2 DEF Queued
  <1>5. \A j : j \in Queue(gen) <=> j \in Items(Head(gen)) \cup Queue(t)
    <2> SUFFICES ASSUME NEW j
                 PROVE  j \in Queue(gen) <=> j \in Items(Head(gen)) \cup Queue(t)
      OBVIOUS
    <2>1. ASSUME j \in Queue(gen)
          PROVE  j \in Items(Head(gen)) \cup Queue(t)
      <3>1. PICK g \in DOMAIN gen : j \in Items(gen[g])
        BY <2>1 DEF Queue
      <3>2. g = 1 \/ (g - 1 \in DOMAIN t /\ t[g - 1] = gen[g])
        BY <1>c
      <3> QED  BY <1>2, <3>1, <3>2 DEF Queue
    <2>2. ASSUME j \in Items(Head(gen)) \cup Queue(t)
          PROVE  j \in Queue(gen)
      <3>1. CASE j \in Items(Head(gen))
        BY <1>2, <3>1 DEF Queue
      <3>2. CASE j \in Queue(t)
        <4>1. PICK g \in DOMAIN t : j \in Items(t[g])
          BY <3>2 DEF Queue
        <4>2. g + 1 \in DOMAIN gen /\ t[g] = gen[g + 1]
          BY <1>b
        <4> QED  BY <4>1, <4>2 DEF Queue
      <3> QED  BY <2>2, <3>1, <3>2
    <2> QED  BY <2>1, <2>2
  <1>6. Before(Items(Head(gen)), Queue(t), ordered)
    <2> SUFFICES ASSUME NEW i \in Items(Head(gen)), NEW j \in Queue(t)
                 PROVE  i # j /\ (ordered => i < j)
      BY DEF Before
    <2>1. PICK g \in DOMAIN t : j \in Items(t[g])
      BY DEF Queue
    <2>2. g + 1 \in DOMAIN gen /\ t[g] = gen[g + 1] /\ 1 < g + 1
      BY <1>b
    <2>3. Before(Items(gen[1]), Items(gen[g + 1]), ordered)
      BY <1>2, <2>2 DEF Queued
    <2> QED  BY <1>2, <2>1, <2>2, <2>3 DEF Before
  <1>7. Queue(gen) = Items(Head(gen)) \cup Queue(t)
    BY <1>5
  <1> QED  BY <1>2, <1>3, <1>4, <1>6, <1>7 DEF t, m

LEMMA QueueEmpty == Queue(<<>>) = {} /\ Items(NoRun) = {}
  BY DEF Queue, Items, NoRun

LEMMA OnceItems ==
    ASSUME NEW n, NEW ordered, NEW r, Once(r, n, ordered)
    PROVE  \A j \in Items(r) : j \in 1..n
  BY DEF Once, Items

LEMMA LeftIn ==
    ASSUME NEW b, NEW n \in Nat, NEW ordered, Waits(b, n, ordered)
    PROVE  \A j \in Left(b) : j \in 1..n
  <1>1. \A j \in Items(b.next) : j \in 1..n
    BY OnceItems DEF Waits
  <1>2. \A j \in Queue(b.gen) : j \in 1..n
    BY OnceItems DEF Waits, Queued, Queue
  <1>3. \A j \in Rest(b) : j \in 1..n
    <2>1. b.cur \in Seq(Nat) /\ b.offset \in 0..Len(b.cur) /\ \A k \in DOMAIN b.cur : b.cur[k] \in 1..n
      BY DEF Waits, Once
    <2> QED  BY <2>1 DEF Rest, After
  <1> QED  BY <1>1, <1>2, <1>3 DEF Left

\* A command takes the first operations of what is left of its run.
Splits(r, offset, size, ordered) ==
    LET q == SubSeq(r, offset + 1, offset + size)
    IN  /\ Len(q) = size /\ offset + size \in 0..Len(r)
        /\ After(r, offset) = Items(q) \cup After(r, offset + size)
        /\ Before(Items(q), After(r, offset + size), ordered)

LEMMA BatchSplits ==
    ASSUME NEW n \in Nat, NEW ordered \in BOOLEAN, NEW r, Once(r, n, ordered), NEW offset \in 0..Len(r),
           NEW size \in Nat, size <= Len(r) - offset
    PROVE  Splits(r, offset, size, ordered)
  <1> DEFINE q == SubSeq(r, offset + 1, offset + size)
  <1>1. r \in Seq(Nat) /\ Len(r) \in Nat /\ DOMAIN r = 1..Len(r) /\ offset \in Nat
    BY DEF Once
  <1>2. offset + size \in 0..Len(r) /\ (offset + size) - (offset + 1) + 1 = size
    BY <1>1
  <1>3. q = [i \in 1..size |-> r[i + (offset + 1) - 1]]
    BY <1>2 DEF SubSeq
  <1> HIDE DEF q
  <1>4. Len(q) = size /\ DOMAIN q = 1..size
    BY <1>3
  <1>5. \A i \in 1..size : i + (offset + 1) - 1 = offset + i
    BY <1>1
  <1>6. \A i \in DOMAIN q : offset + i \in offset + 1..offset + size /\ q[i] = r[offset + i]
    BY <1>1, <1>3, <1>4, <1>5
  <1>7. \A k \in offset + 1..offset + size : k - offset \in DOMAIN q /\ q[k - offset] = r[k]
    <2> SUFFICES ASSUME NEW k \in offset + 1..offset + size
                 PROVE  k - offset \in DOMAIN q /\ q[k - offset] = r[k]
      OBVIOUS
    <2>1. k - offset \in 1..size /\ offset + (k - offset) = k
      BY <1>1
    <2> QED  BY <1>4, <1>6, <2>1
  <1> DEFINE T == {r[k] : k \in offset + 1..offset + size}
  <1>8. Items(q) = T
    <2>1. \A j \in Items(q) : j \in T
      BY <1>6 DEF Items
    <2>2. \A j \in T : j \in Items(q)
      BY <1>7 DEF Items
    <2> QED  BY <2>1, <2>2
  <1>9. \A k : k \in offset + 1..Len(r) <=> k \in offset + 1..offset + size \/ k \in offset + size + 1..Len(r)
    BY <1>1, <1>2
  <1>10. \A k \in offset + 1..offset + size, m \in offset + size + 1..Len(r) :
           k < m /\ k \in DOMAIN r /\ m \in DOMAIN r
    BY <1>1, <1>2
  <1>11. After(r, offset) = Items(q) \cup After(r, offset + size)
    BY <1>8, <1>9 DEF After
  <1>12. Before(Items(q), After(r, offset + size), ordered)
    <2> SUFFICES ASSUME NEW i \in Items(q), NEW j \in After(r, offset + size)
                 PROVE  i # j /\ (ordered => i < j)
      BY DEF Before
    <2>1. PICK k \in offset + 1..offset + size : i = r[k]
      BY <1>8
    <2>2. PICK m \in offset + size + 1..Len(r) : j = r[m]
      BY DEF After
    <2> QED  BY <1>10, <2>1, <2>2 DEF Once
  <1> QED  BY <1>2, <1>4, <1>11, <1>12 DEF Splits, q

LEMMA BatchIs ==
    ASSUME NEW b, NEW n \in Nat, NEW ordered \in BOOLEAN, Waits(b, n, ordered)
    PROVE  LET offset == b.offset + Len(Batch(b))
           IN  /\ offset \in 0..Len(b.cur)
               /\ Rest(b) = InBatch(b) \cup After(b.cur, offset)
               /\ Before(InBatch(b), After(b.cur, offset), ordered)
  <1> DEFINE left == Len(b.cur) - b.offset
             size == IF left < MaxBatch THEN left ELSE MaxBatch
             q == Batch(b)
  <1>1. Once(b.cur, n, ordered) /\ b.offset \in 0..Len(b.cur) /\ Len(b.cur) \in Nat
    BY DEF Waits, Once
  <1>2. size \in Nat /\ size <= Len(b.cur) - b.offset
    BY <1>1, BulkAssumption
  <1>3. q = SubSeq(b.cur, b.offset + 1, b.offset + size) /\ InBatch(b) = Items(q)
    BY DEF Batch, InBatch, Items
  <1> HIDE DEF size, q
  <1>4. Splits(b.cur, b.offset, size, ordered)
    BY <1>1, <1>2, BatchSplits
  <1> QED  BY <1>3, <1>4 DEF Splits, Rest, q

\* What the server does with a command.
LEMMA WritesIs ==
    ASSUME NEW b, b.request.ordered \in BOOLEAN, \A j \in InBatch(b) : j \in Nat
    PROVE  /\ \A j \in Writes(b) : j \in InBatch(b) /\ j \notin Refuses(b)
           /\ \A j \in Refuses(b) : j \in InBatch(b)
           /\ ~(b.request.ordered /\ Refuses(b) # {}) =>
                \A j \in InBatch(b) : j \in Writes(b) \/ j \in Refuses(b)
           /\ b.request.ordered =>
                \A j \in Writes(b), i \in InBatch(b) : i < j => i \in Writes(b)
  <1> DEFINE B == InBatch(b)
             bad == {i \in B : i \in b.request.bad}
  <1>1. Refuses(b) = IF b.request.ordered THEN {i \in bad : \A j \in bad : i <= j} ELSE bad
    BY DEF Refuses
  <1>2. Writes(b) = {i \in B : i \notin b.request.bad /\ (b.request.ordered => \A j \in Refuses(b) : i < j)}
    BY DEF Writes
  <1>3. bad # {} => \E i \in bad : \A j \in bad : i <= j
    <2>1. \A j \in bad : j \in Nat
      OBVIOUS
    <2> HIDE DEF bad
    <2> QED  BY <2>1, Least
  <1>4. bad # {} => Refuses(b) # {}
    BY <1>1, <1>3
  <1>5. \A i \in Refuses(b) : i \in B /\ i \in b.request.bad
    BY <1>1
  <1> HIDE DEF B
  <1>6. \A j \in Writes(b) : j \in B /\ j \notin Refuses(b)
    BY <1>2, <1>5
  <1>7. ~(b.request.ordered /\ Refuses(b) # {}) => \A j \in B : j \in Writes(b) \/ j \in Refuses(b)
    BY <1>1, <1>2, <1>4
  <1>8. ASSUME b.request.ordered, NEW j \in Writes(b), NEW i \in B, i < j
        PROVE  i \in Writes(b)
    <2>1. \A k \in Refuses(b) : k \in Nat /\ i < k
      BY <1>2, <1>5, <1>8 DEF B
    <2>2. i \notin b.request.bad
      <3>1. SUFFICES ASSUME i \in b.request.bad PROVE FALSE
        OBVIOUS
      <3>2. PICK k \in bad : \A m \in bad : k <= m
        BY <1>3, <3>1
      <3>3. k \in Refuses(b) /\ k <= i
        BY <1>1, <1>8, <3>1, <3>2
      <3> QED  BY <2>1, <3>3 DEF B
    <2> QED  BY <1>2, <2>1, <2>2
  <1> QED  BY <1>5, <1>6, <1>7, <1>8 DEF B
====
