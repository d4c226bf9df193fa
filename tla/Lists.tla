------------------------------- MODULE Lists -------------------------------
(***************************************************************************)
(* Facts about numbers, lists and the sizes of sets that the proofs about  *)
(* the ranking of markets and of hot mints rest on.                        *)
(***************************************************************************)
EXTENDS Integers, SequencesExt, SequenceTheorems, FunctionTheorems, FiniteSetTheorems,
        WellFoundedInduction, TLAPS

\* A set of numbers that is not empty has a least one: what the proofs use in place of
\* induction, on the set of counterexamples.
LEMMA NatMin ==
    ASSUME NEW T \in SUBSET Nat, T # {}
    PROVE  \E x \in T : \A y \in T : x <= y
<1> DEFINE R == OpToRel(<, Nat)
<1>1. R = {ss \in Nat \X Nat : ss[1] < ss[2]}
    BY DEF OpToRel
<1>2. IsWellFoundedOn(R, Nat)
    BY NatLessThanWellFounded
<1> HIDE DEF R
<1>3. PICK x \in T : \A y \in T : ~(<<y, x>> \in R)
    BY <1>2, WFMin
<1>4. ASSUME NEW y \in T, ~(x <= y) PROVE FALSE
  <2>1. y < x /\ <<y, x>> \in Nat \X Nat
      BY <1>4
  <2>2. <<y, x>> \in R
      BY <1>1, <2>1
  <2> QED
      BY <1>3, <2>2
<1> QED
    BY <1>4

LEMMA CountUpTo ==
    ASSUME NEW n \in Nat
    PROVE  IsFiniteSet(1..n) /\ Cardinality(1..n) = n
<1>1. 1 \in Int /\ n \in Int
    OBVIOUS
<1>2. IsFiniteSet(1..n) /\ Cardinality(1..n) = IF 1 > n THEN 0 ELSE n - 1 + 1
    BY <1>1, FS_Interval
<1> QED
    BY <1>2

\* What as many numbers are paired with, one to one, are that many.
LEMMA CountPaired ==
    ASSUME NEW n \in Nat, NEW T, NEW f \in [1..n -> T],
           \A i, j \in 1..n : f[i] = f[j] => i = j, \A t \in T : \E i \in 1..n : f[i] = t
    PROVE  IsFiniteSet(T) /\ Cardinality(T) = n
<1>1. f \in Bijection(1..n, T)
    BY Fun_IsBij
<1>2. ExistsBijection(1..n, T)
    BY <1>1, Fun_ExistsBij
<1> QED
    BY <1>2, CountUpTo, FS_Bijection

\* A list that names everything once is as long as the set of what it names.
LEMMA DistinctCount ==
    ASSUME NEW S, NEW s \in Seq(S), \A i, j \in DOMAIN s : i < j => s[i] # s[j]
    PROVE  IsFiniteSet(ToSet(s)) /\ Cardinality(ToSet(s)) = Len(s)
<1>1. Len(s) \in Nat /\ DOMAIN s = 1..Len(s)
    BY LenProperties
<1>2. s \in [1..Len(s) -> ToSet(s)]
    BY <1>1, LenProperties DEF ToSet
<1>3. \A a, b \in 1..Len(s) : s[a] = s[b] => a = b
    BY <1>1
<1>4. \A t \in ToSet(s) : \E a \in 1..Len(s) : s[a] = t
    BY <1>1 DEF ToSet
<1> QED
    BY <1>1, <1>2, <1>3, <1>4, CountPaired

\* Step by step: what holds of 0 and passes from each number to the next.
LEMMA UpTo ==
    ASSUME NEW n \in Nat, NEW P, 0 \in P, \A i \in 1..n : i - 1 \in P => i \in P
    PROVE  0..n \subseteq P
<1> DEFINE T == {i \in 0..n : i \notin P}
<1> SUFFICES ASSUME T # {} PROVE FALSE
    OBVIOUS
<1>1. PICK x \in T : \A y \in T : x <= y
  <2>1. T \in SUBSET Nat
      OBVIOUS
  <2> HIDE DEF T
  <2> QED
      BY <2>1, NatMin
<1>2. x \in 1..n /\ x - 1 \in 0..n
    BY <1>1
<1>3. x - 1 \in P
    BY <1>1, <1>2
<1> QED
    BY <1>1, <1>2, <1>3

\* What a loop of n turns, each turning what the one before left into something new,
\* goes through: it always exists, and with it the functions that the modules define
\* by recursion over a list.
Histories(n, A, a, turn) ==
    {f \in [0..n -> A] : f[0] = a /\ \A i \in 1..n : f[i] = turn[i][f[i - 1]]}

LEMMA Loop ==
    ASSUME NEW n \in Nat, NEW A, NEW a \in A, NEW turn \in [1..n -> [A -> A]]
    PROVE  Histories(n, A, a, turn) # {}
<1> DEFINE P == {k \in 0..n : \E f \in [0..k -> A] :
                                 f[0] = a /\ \A i \in 1..k : f[i] = turn[i][f[i - 1]]}
<1>1. 0 \in P
  <2> DEFINE g == [i \in 0..0 |-> a]
  <2>1. g \in [0..0 -> A] /\ g[0] = a /\ \A i \in 1..0 : g[i] = turn[i][g[i - 1]]
      OBVIOUS
  <2> HIDE DEF g
  <2>2. \E f \in [0..0 -> A] : f[0] = a /\ \A i \in 1..0 : f[i] = turn[i][f[i - 1]]
      BY <2>1
  <2> QED
      BY <2>2
<1>2. ASSUME NEW k \in 1..n, k - 1 \in P
      PROVE  k \in P
  <2>1. PICK f \in [0..(k - 1) -> A] :
            f[0] = a /\ \A i \in 1..(k - 1) : f[i] = turn[i][f[i - 1]]
      BY <1>2
  <2> DEFINE g == [i \in 0..k |-> IF i = k THEN turn[k][f[k - 1]] ELSE f[i]]
  <2>2. turn[k][f[k - 1]] \in A
      OBVIOUS
  <2>3. g \in [0..k -> A]
      BY <2>2
  <2>4. g[0] = a /\ \A i \in 1..k : g[i] = turn[i][g[i - 1]]
      BY <2>1
  <2> HIDE DEF g
  <2>5. \E h \in [0..k -> A] : h[0] = a /\ \A i \in 1..k : h[i] = turn[i][h[i - 1]]
      BY <2>3, <2>4
  <2>6. k \in 0..n
      OBVIOUS
  <2> QED
      BY <2>5, <2>6, Zenon
<1>3. 0..n \subseteq P
    BY <1>1, <1>2, UpTo
<1>4. \E f \in [0..n -> A] : f[0] = a /\ \A i \in 1..n : f[i] = turn[i][f[i - 1]]
    BY <1>3
<1> QED
    BY <1>4 DEF Histories

\* Numbers can be put in ascending order: everyone stands as far from the front as
\* there are others to stand before it.
LEMMA SortingOrder ==
    ASSUME NEW n \in Nat, NEW g \in [1..n -> Nat]
    PROVE  \E o \in [1..n -> 1..n] :
              /\ \A i, j \in 1..n : i # j => o[i] # o[j]
              /\ \A i, j \in 1..n : i < j => g[o[i]] <= g[o[j]]
<1> DEFINE Before(i) == {j \in 1..n : g[j] < g[i] \/ (g[j] = g[i] /\ j <= i)}
           r == [i \in 1..n |-> Cardinality(Before(i))]
<1>1. IsFiniteSet(1..n) /\ Cardinality(1..n) = n
    BY FS_Interval
<1>2. \A i \in 1..n : IsFiniteSet(Before(i)) /\ Cardinality(Before(i)) \in 1..n
  <2> TAKE i \in 1..n
  <2>1. Before(i) \in SUBSET (1..n) /\ i \in Before(i)
      OBVIOUS
  <2>2. IsFiniteSet(Before(i)) /\ Cardinality(Before(i)) <= n /\ Cardinality(Before(i)) \in Nat
      BY <1>1, <2>1, FS_Subset, FS_CardinalityType
  <2>3. Cardinality(Before(i)) # 0
      BY <2>1, <2>2, FS_EmptySet
  <2> QED
      BY <2>2, <2>3
<1>3. ASSUME NEW i \in 1..n, NEW j \in 1..n, i # j, j \notin Before(i)
      PROVE  r[i] < r[j]
  <2>1. Before(i) \in SUBSET Before(j) /\ j \in Before(j) /\ Before(i) # Before(j)
      BY <1>3
  <2> HIDE DEF Before
  <2>2. Cardinality(Before(i)) <= Cardinality(Before(j))
        /\ Cardinality(Before(i)) # Cardinality(Before(j))
      BY <1>2, <2>1, FS_Subset
  <2>3. Cardinality(Before(i)) \in 1..n /\ Cardinality(Before(j)) \in 1..n
      BY <1>2
  <2> QED
      BY <2>2, <2>3
<1>4. \A i, j \in 1..n : i # j => j \notin Before(i) \/ i \notin Before(j)
    OBVIOUS
<1>5. r \in [1..n -> 1..n] /\ \A i, j \in 1..n : r[i] = r[j] => i = j
  <2>1. r \in [1..n -> 1..n]
      BY <1>2
  <2> HIDE DEF r
  <2>2. \A i, j \in 1..n : i # j => r[i] < r[j] \/ r[j] < r[i]
      BY <1>3, <1>4
  <2> SUFFICES ASSUME NEW i \in 1..n, NEW j \in 1..n, r[i] = r[j] PROVE i = j
      BY <2>1
  <2>3. r[i] \in 1..n /\ r[j] \in 1..n
      BY <2>1
  <2> QED
      BY <2>2, <2>3
<1>6. r \in Injection(1..n, 1..n)
    BY <1>5, Fun_IsInj
<1>7. r \in Surjection(1..n, 1..n)
    BY <1>1, <1>6, FS_Injection
<1>8. \A k \in 1..n : \E i \in 1..n : r[i] = k
    BY <1>7 DEF Surjection
<1> DEFINE o == [k \in 1..n |-> CHOOSE i \in 1..n : r[i] = k]
<1>9. o \in [1..n -> 1..n] /\ \A k \in 1..n : r[o[k]] = k
    BY <1>8
<1> HIDE DEF o, r
<1>10. \A i, j \in 1..n : i # j => o[i] # o[j]
    BY <1>9
<1>11. ASSUME NEW i \in 1..n, NEW j \in 1..n, i < j
       PROVE  g[o[i]] <= g[o[j]]
  <2>1. o[i] \in 1..n /\ o[j] \in 1..n /\ o[i] # o[j]
      BY <1>9, <1>10, <1>11
  <2>2. r[o[i]] = i /\ r[o[j]] = j
      BY <1>9, Zenon
  <2>3. ~(r[o[j]] < r[o[i]])
      BY <1>11, <2>2
  <2>4. o[i] \in Before(o[j])
      BY <1>3, <2>1, <2>3
  <2> QED
      BY <2>1, <2>4
<1> QED
    BY <1>9, <1>10, <1>11
=============================================================================
