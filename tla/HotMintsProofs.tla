---------------------------- MODULE HotMintsProofs ----------------------------
(***************************************************************************)
(* Proofs about the hot-mint tracker and what it lets into the book, for   *)
(* every set of transactions, every number of trades, every percentile and *)
(* every way the ranking may break its ties.                               *)
(***************************************************************************)
EXTENDS Pipeline, Lists

-----------------------------------------------------------------------------
(* What the loops over a list compute.                                     *)

\* An amount that parses is a number.
LEMMA AmountType ==
    ASSUME NEW bs \in Seq(Balance), NEW i \in 1..Len(bs), bs[i].amount # None
    PROVE  bs[i].amount \in Nat
<1>1. bs[i] \in Balance
    BY ElementOfSeq
<1> QED
    BY <1>1 DEF Balance

\* The running total of SumOf.
LEMMA SumHistory ==
    ASSUME NEW bs \in Seq(Balance), NEW S
    PROVE  \E f \in [0..Len(bs) -> Nat] :
              /\ f[0] = 0
              /\ \A i \in 1..Len(bs) : f[i] = f[i - 1] +
                    (IF i \in S /\ bs[i].amount # None THEN bs[i].amount ELSE 0)
              /\ SumOf(bs, S) = f[Len(bs)]
<1> DEFINE n == Len(bs)
           add(i) == IF i \in S /\ bs[i].amount # None THEN bs[i].amount ELSE 0
           turn == [i \in 1..n |-> [x \in Nat |-> x + add(i)]]
           g == CHOOSE g : g = [i \in 0..n |-> IF i = 0 THEN 0 ELSE g[i - 1] + add(i)]
<1>1. n \in Nat /\ DOMAIN bs = 1..n
    BY LenProperties
<1>2. \A i \in 1..n : add(i) \in Nat
    BY AmountType
<1> HIDE DEF n, add
<1>3. turn \in [1..n -> [Nat -> Nat]]
    BY <1>2
<1>4. PICK f \in [0..n -> Nat] : f[0] = 0 /\ \A i \in 1..n : f[i] = turn[i][f[i - 1]]
  <2> HIDE DEF turn
  <2>1. Histories(n, Nat, 0, turn) # {}
      BY <1>1, <1>3, Loop
  <2> QED
      BY <2>1 DEF Histories
<1>5. ASSUME NEW i \in 1..n
      PROVE  f[i] = f[i - 1] + add(i)
  <2>1. i - 1 \in 0..n
      BY <1>1
  <2>2. f[i - 1] \in Nat
      BY <2>1
  <2>3. turn[i][f[i - 1]] = f[i - 1] + add(i)
      BY <2>2
  <2> QED
      BY <1>4, <2>3
<1>6. f = [i \in 0..n |-> IF i = 0 THEN 0 ELSE f[i - 1] + add(i)]
    BY <1>1, <1>4, <1>5
<1>7. g = [i \in 0..n |-> IF i = 0 THEN 0 ELSE g[i - 1] + add(i)]
    BY <1>6
<1>8. SumOf(bs, S) = g[n]
    BY DEF SumOf, n, add
<1> HIDE DEF g
<1>9. g[0] = 0 /\ \A i \in 1..n : g[i] = g[i - 1] + add(i)
    BY <1>1, <1>7
<1>10. \A i \in 0..n : g[i] \in Nat
  <2> DEFINE P == {i \in 0..n : g[i] \in Nat}
  <2>1. 0 \in P
      BY <1>1, <1>9
  <2>2. \A i \in 1..n : i - 1 \in P => i \in P
      BY <1>1, <1>2, <1>9
  <2>3. 0..n \subseteq P
      BY <1>1, <2>1, <2>2, UpTo
  <2> QED
      BY <2>3
<1>11. g \in [0..n -> Nat]
    BY <1>7, <1>10
<1> QED
    BY <1>8, <1>9, <1>11 DEF n, add

\* What is added up over two sets of balances is the sum of both.
LEMMA SumSplit ==
    ASSUME NEW bs \in Seq(Balance), NEW S, NEW T, S \cap T = {}
    PROVE  /\ SumOf(bs, S) \in Nat /\ SumOf(bs, T) \in Nat
           /\ SumOf(bs, S \cup T) = SumOf(bs, S) + SumOf(bs, T)
<1> DEFINE n == Len(bs)
           add(U, i) == IF i \in U /\ bs[i].amount # None THEN bs[i].amount ELSE 0
<1>1. n \in Nat /\ DOMAIN bs = 1..n
    BY LenProperties
<1>2. \A i \in 1..n : /\ add(S, i) \in Nat /\ add(T, i) \in Nat
                      /\ add(S \cup T, i) = add(S, i) + add(T, i)
  <2> TAKE i \in 1..n
  <2>1. bs[i].amount # None => bs[i].amount \in Nat
      BY AmountType
  <2> QED
      BY <2>1
<1>3. PICK f \in [0..n -> Nat] :
          f[0] = 0 /\ (\A i \in 1..n : f[i] = f[i - 1] + add(S, i)) /\ SumOf(bs, S) = f[n]
    BY SumHistory
<1>4. PICK g \in [0..n -> Nat] :
          g[0] = 0 /\ (\A i \in 1..n : g[i] = g[i - 1] + add(T, i)) /\ SumOf(bs, T) = g[n]
    BY SumHistory
<1>5. PICK h \in [0..n -> Nat] :
          /\ h[0] = 0 /\ \A i \in 1..n : h[i] = h[i - 1] + add(S \cup T, i)
          /\ SumOf(bs, S \cup T) = h[n]
    BY SumHistory
<1> HIDE DEF n, add
<1> DEFINE P == {i \in 0..n : h[i] = f[i] + g[i]}
<1>6. 0 \in P
    BY <1>1, <1>3, <1>4, <1>5
<1>7. ASSUME NEW i \in 1..n, i - 1 \in P
      PROVE  i \in P
  <2>1. i \in 0..n /\ i - 1 \in 0..n /\ h[i - 1] = f[i - 1] + g[i - 1]
      BY <1>1, <1>7
  <2>2. /\ h[i] = h[i - 1] + add(S \cup T, i) /\ f[i] = f[i - 1] + add(S, i)
        /\ g[i] = g[i - 1] + add(T, i) /\ add(S \cup T, i) = add(S, i) + add(T, i)
      BY <1>2, <1>3, <1>4, <1>5
  <2>3. f[i - 1] \in Nat /\ g[i - 1] \in Nat /\ add(S, i) \in Nat /\ add(T, i) \in Nat
      BY <1>2, <2>1
  <2>4. h[i] = f[i] + g[i]
    <3> DEFINE a == add(S, i)
               b == add(T, i)
               c == add(S \cup T, i)
    <3>1. a \in Nat /\ b \in Nat /\ c = a + b /\ h[i] = h[i - 1] + c
          /\ f[i] = f[i - 1] + a /\ g[i] = g[i - 1] + b
        BY <2>2, <2>3
    <3> HIDE DEF a, b, c
    <3> QED
        BY <2>1, <2>3, <3>1
  <2> QED
      BY <2>1, <2>4
<1>8. n \in P
  <2> HIDE DEF P
  <2>1. 0..n \subseteq P
      BY <1>1, <1>6, <1>7, UpTo
  <2> QED
      BY <1>1, <2>1
<1> QED
    BY <1>1, <1>3, <1>4, <1>5, <1>8

\* A loop that appends some elements of a list keeps their order, and each once.
LEMMA PickedOnes ==
    ASSUME NEW X, NEW s \in Seq(X), NEW S \in SUBSET (DOMAIN s)
    PROVE  /\ Picked(s, S) \in Seq(X)
           /\ \E at \in [1..Len(Picked(s, S)) -> S] :
                 /\ \A i, j \in 1..Len(Picked(s, S)) : i < j => at[i] < at[j]
                 /\ \A t \in S : \E i \in 1..Len(Picked(s, S)) : at[i] = t
                 /\ \A i \in 1..Len(Picked(s, S)) : Picked(s, S)[i] = s[at[i]]
<1> DEFINE n == Len(s)
           next(q, i) == IF i \in S THEN Append(q, s[i]) ELSE q
           turn == [i \in 1..n |-> [q \in Seq(X) |-> next(q, i)]]
           p == CHOOSE p : p = [i \in 0..n |-> IF i = 0 THEN <<>> ELSE next(p[i - 1], i)]
           Fits(q, k, at) ==
               /\ \A i, j \in 1..Len(q) : i < j => at[i] < at[j]
               /\ \A t \in S \cap 1..k : \E i \in 1..Len(q) : at[i] = t
               /\ \A i \in 1..Len(q) : q[i] = s[at[i]]
           P == {k \in 0..n : p[k] \in Seq(X) /\ \E at \in [1..Len(p[k]) -> S \cap 1..k] :
                                 Fits(p[k], k, at)}
<1>1. n \in Nat /\ DOMAIN s = 1..n /\ \A i \in 1..n : s[i] \in X
    BY LenProperties, ElementOfSeq
<1> HIDE DEF n
<1>2. turn \in [1..n -> [Seq(X) -> Seq(X)]]
    BY <1>1, AppendProperties
<1>3. PICK f \in [0..n -> Seq(X)] : f[0] = <<>> /\ \A i \in 1..n : f[i] = turn[i][f[i - 1]]
  <2> HIDE DEF turn
  <2>1. Histories(n, Seq(X), <<>>, turn) # {}
      BY <1>1, <1>2, EmptySeq, Loop
  <2> QED
      BY <2>1 DEF Histories
<1> HIDE DEF next
<1>4. ASSUME NEW i \in 1..n
      PROVE  f[i] = next(f[i - 1], i)
  <2>1. i - 1 \in 0..n
      BY <1>1
  <2>2. f[i - 1] \in Seq(X)
      BY <2>1
  <2> QED
      BY <1>3, <2>2
<1>5. f = [i \in 0..n |-> IF i = 0 THEN <<>> ELSE next(f[i - 1], i)]
    BY <1>1, <1>3, <1>4
<1>6. p = [i \in 0..n |-> IF i = 0 THEN <<>> ELSE next(p[i - 1], i)]
    BY <1>5
<1>7. Picked(s, S) = p[n]
    BY DEF Picked, n, next
<1> HIDE DEF p, turn
<1>8. 0 \in P
  <2>1. p[0] = <<>>
      BY <1>1, <1>6
  <2> DEFINE none == [i \in 1..Len(p[0]) |-> 0]
  <2>2. Len(p[0]) = 0 /\ p[0] \in Seq(X)
      BY <2>1, EmptySeq
  <2>3. none \in [1..Len(p[0]) -> S \cap 1..0] /\ Fits(p[0], 0, none)
      BY <2>2
  <2> HIDE DEF none, Fits
  <2>4. 0 \in 0..n /\ \E at \in [1..Len(p[0]) -> S \cap 1..0] : Fits(p[0], 0, at)
      BY <1>1, <2>3
  <2> QED
      BY <2>2, <2>4
<1>9. ASSUME NEW k \in 1..n, k - 1 \in P
      PROVE  k \in P
  <2>1. p[k - 1] \in Seq(X)
      BY <1>9
  <2> HIDE DEF Fits
  <2>2. PICK at \in [1..Len(p[k - 1]) -> S \cap 1..(k - 1)] : Fits(p[k - 1], k - 1, at)
      BY <1>9
  <2> USE DEF Fits
  <2> DEFINE q == p[k - 1]
             m == Len(q)
  <2>3. m \in Nat /\ DOMAIN q = 1..m
      BY <2>1, LenProperties
  <2>4. p[k] = IF k \in S THEN Append(q, s[k]) ELSE q
    <3>1. p[k] = next(q, k)
        BY <1>1, <1>6
    <3> QED
        BY <3>1 DEF next
  <2> HIDE DEF q, m
  <2>5. CASE k \notin S
    <3>1. p[k] = q /\ S \cap 1..k = S \cap 1..(k - 1)
        BY <1>1, <2>4, <2>5
    <3>2. at \in [1..Len(p[k]) -> S \cap 1..k] /\ Fits(p[k], k, at)
        BY <2>2, <3>1 DEF q
    <3> HIDE DEF Fits
    <3>3. p[k] \in Seq(X) /\ k \in 0..n
        BY <1>1, <2>1, <3>1 DEF q
    <3> QED
        BY <3>2, <3>3
  <2>6. CASE k \in S
    <3>1. /\ p[k] \in Seq(X) /\ Len(p[k]) = m + 1 /\ k \in 0..n
          /\ (\A i \in 1..m : p[k][i] = q[i]) /\ p[k][m + 1] = s[k]
        BY <1>1, <2>1, <2>3, <2>4, <2>6, AppendProperties DEF q, m
    <3> DEFINE b == [i \in 1..(m + 1) |-> IF i = m + 1 THEN k ELSE at[i]]
    <3>2. \A i \in 1..m : at[i] \in S \cap 1..(k - 1)
        BY <2>2 DEF m, q
    <3>3. b \in [1..Len(p[k]) -> S \cap 1..k]
        BY <1>1, <2>3, <2>6, <3>1, <3>2
    <3>4. (\A i \in 1..m : b[i] = at[i]) /\ b[m + 1] = k
        BY <2>3
    <3> HIDE DEF b
    <3>5. \A i, j \in 1..(m + 1) : i < j => b[i] < b[j]
      <4> SUFFICES ASSUME NEW i \in 1..(m + 1), NEW j \in 1..(m + 1), i < j
                   PROVE  b[i] < b[j]
          OBVIOUS
      <4>1. i \in 1..m
          BY <2>3
      <4>2. CASE j \in 1..m
          BY <2>2, <3>4, <4>1, <4>2 DEF m, q
      <4>3. CASE j = m + 1
          BY <3>2, <3>4, <4>1, <4>3
      <4> QED
          BY <2>3, <4>2, <4>3
    <3>6. \A t \in S \cap 1..k : \E i \in 1..(m + 1) : b[i] = t
      <4> TAKE t \in S \cap 1..k
      <4>1. CASE t = k
          BY <2>3, <3>4, <4>1
      <4>2. CASE t # k
        <5>1. t \in S \cap 1..(k - 1)
            BY <1>1, <4>2
        <5>2. PICK i \in 1..m : at[i] = t
            BY <2>2, <5>1 DEF m, q
        <5> QED
            BY <2>3, <3>4, <5>2
      <4> QED
          BY <4>1, <4>2
    <3>7. \A i \in 1..(m + 1) : p[k][i] = s[b[i]]
      <4> TAKE i \in 1..(m + 1)
      <4>1. CASE i \in 1..m
          BY <2>2, <3>1, <3>4, <4>1 DEF m, q
      <4>2. CASE i = m + 1
          BY <3>1, <3>4, <4>2
      <4> QED
          BY <2>3, <4>1, <4>2
    <3>8. Fits(p[k], k, b)
        BY <3>1, <3>5, <3>6, <3>7
    <3> HIDE DEF Fits
    <3> QED
        BY <3>1, <3>3, <3>8
  <2> QED
      BY <2>5, <2>6
<1>10. n \in P
  <2> HIDE DEF P
  <2>1. 0..n \subseteq P
      BY <1>1, <1>8, <1>9, UpTo
  <2> QED
      BY <1>1, <2>1
<1>11. S \cap 1..n = S
    BY <1>1
<1>12. Picked(s, S) \in Seq(X)
    BY <1>7, <1>10
<1>13. \E at \in [1..Len(p[n]) -> S \cap 1..n] : Fits(p[n], n, at)
  <2> HIDE DEF Fits
  <2> QED
      BY <1>10
<1>14. PICK at \in [1..Len(p[n]) -> S \cap 1..n] : Fits(p[n], n, at)
  <2> HIDE DEF Fits
  <2> QED
      BY <1>13
<1> QED
    BY <1>7, <1>11, <1>12, <1>14

-----------------------------------------------------------------------------
(* The price of a mint.                                                    *)

Trade == [price: Nat, age: 0..(Window + 1)]

\* sort.Float64s has an order to put the prices in.
LEMMA SortedOnes ==
    ASSUME NEW prices \in Seq(Nat)
    PROVE  \E o \in [1..Len(prices) -> 1..Len(prices)] :
              /\ \A i, j \in 1..Len(prices) : i # j => o[i] # o[j]
              /\ \A i, j \in 1..Len(prices) : i < j => prices[o[i]] <= prices[o[j]]
              /\ Sorted(prices) = [i \in 1..Len(prices) |-> prices[o[i]]]
<1> DEFINE n == Len(prices)
           Ascends(o) == \A i, j \in DOMAIN prices : i < j => prices[o[i]] <= prices[o[j]]
           o == CHOOSE o \in SetToSeqs(DOMAIN prices) : Ascends(o)
<1>1. n \in Nat /\ DOMAIN prices = 1..n /\ prices \in [1..n -> Nat] /\ Cardinality(1..n) = n
  <2>1. n \in Nat /\ DOMAIN prices = 1..n /\ prices \in [1..n -> Nat]
      BY LenProperties
  <2> QED
      BY <2>1, CountUpTo
<1>2. SetToSeqs(DOMAIN prices) =
          {f \in [1..n -> 1..n] : \A i, j \in 1..n : i # j => f[i] # f[j]}
    BY <1>1 DEF SetToSeqs
<1>3. \E f \in SetToSeqs(DOMAIN prices) : Ascends(f)
  <2>1. PICK f \in [1..n -> 1..n] :
            /\ \A i, j \in 1..n : i # j => f[i] # f[j]
            /\ \A i, j \in 1..n : i < j => prices[f[i]] <= prices[f[j]]
      BY <1>1, SortingOrder
  <2>2. f \in SetToSeqs(DOMAIN prices)
      BY <1>2, <2>1
  <2>3. Ascends(f)
      BY <1>1, <2>1
  <2> HIDE DEF Ascends
  <2> QED
      BY <2>2, <2>3
<1>4. o \in SetToSeqs(DOMAIN prices) /\ Ascends(o)
  <2> HIDE DEF Ascends
  <2> QED
      BY <1>3
<1>5. Sorted(prices) = [i \in 1..n |-> prices[o[i]]]
    BY <1>1 DEF Sorted
<1> HIDE DEF o
<1> QED
    BY <1>1, <1>2, <1>4, <1>5

\* percentileCUPrice takes a price of the list: as many are lower as its index says, at
\* most, and more are no higher.
LEMMA PercentileOfTrades ==
    ASSUME NEW ts \in Seq(Trade)
    PROVE  LET h == percentileCUPrice(extractCUPrices(ts))
               priced == {i \in DOMAIN ts : ts[i].price > 0}
               below == Cardinality({i \in priced : ts[i].price < h})
               upTo == Cardinality({i \in priced : ts[i].price <= h})
               rank == ((Cardinality(priced) - 1) * Percentile) \div 100
           IN  /\ h \in Nat
               /\ IF priced = {} THEN h = 0 ELSE below <= rank /\ rank < upTo
<1> DEFINE paid == [i \in DOMAIN ts |-> ts[i].price]
           priced == {i \in DOMAIN ts : ts[i].price > 0}
           ps == Picked(paid, priced)
           n == Len(ps)
           h == percentileCUPrice(ps)
           rank == ((n - 1) * Percentile) \div 100
<1>1. /\ Len(ts) \in Nat /\ DOMAIN ts = 1..Len(ts)
      /\ \A i \in 1..Len(ts) : ts[i].price \in Nat
  <2>1. \A i \in 1..Len(ts) : ts[i] \in Trade
      BY ElementOfSeq
  <2> QED
      BY <2>1, LenProperties DEF Trade
<1>2. paid \in Seq(Nat) /\ DOMAIN paid = DOMAIN ts /\ Len(paid) = Len(ts)
  <2>1. paid \in [1..Len(ts) -> Nat]
      BY <1>1
  <2> HIDE DEF paid
  <2> QED
      BY <1>1, <2>1, SeqDef, LenProperties
<1>3. extractCUPrices(ts) = ps
    BY DEF extractCUPrices
<1>4. PICK at \in [1..n -> priced] :
          /\ ps \in Seq(Nat)
          /\ \A i, j \in 1..n : i < j => at[i] < at[j]
          /\ \A t \in priced : \E i \in 1..n : at[i] = t
          /\ \A i \in 1..n : ps[i] = paid[at[i]]
  <2>1. priced \in SUBSET (DOMAIN paid)
      BY <1>2
  <2> HIDE DEF paid, priced
  <2> QED
      BY <1>2, <2>1, PickedOnes
<1>5. priced \in SUBSET (1..Len(ts)) /\ \A i \in priced : paid[i] = ts[i].price
    BY <1>1
<1>6. n \in Nat
    BY <1>4, LenProperties
<1> HIDE DEF paid, priced, ps, n
<1>7. \A i, j \in 1..n : i # j => at[i] # at[j]
  <2> SUFFICES ASSUME NEW i \in 1..n, NEW j \in 1..n, i # j
               PROVE  at[i] # at[j]
      OBVIOUS
  <2>1. at[i] \in priced /\ at[j] \in priced
      OBVIOUS
  <2>2. at[i] \in Nat /\ at[j] \in Nat
    <3>1. at[i] \in 1..Len(ts) /\ at[j] \in 1..Len(ts)
        BY <1>5, <2>1
    <3> QED
        BY <1>1, <3>1
  <2>3. i < j \/ j < i
      BY <1>6
  <2> QED
      BY <1>4, <2>2, <2>3
<1>8. n = Cardinality(priced) /\ IsFiniteSet(priced)
  <2>1. \A i, j \in 1..n : at[i] = at[j] => i = j
      BY <1>7
  <2> QED
      BY <1>4, <1>6, <2>1, CountPaired
<1>9. PICK o \in [1..n -> 1..n] :
          /\ \A i, j \in 1..n : i # j => o[i] # o[j]
          /\ \A i, j \in 1..n : i < j => ps[o[i]] <= ps[o[j]]
          /\ Sorted(ps) = [i \in 1..n |-> ps[o[i]]]
    BY <1>4, SortedOnes DEF n
\* The positions of the priced trades by price.
<1> DEFINE q == [k \in 1..n |-> at[o[k]]]
<1>10. q \in [1..n -> priced]
    BY <1>4, <1>9
<1>11. \A i, j \in 1..n : i # j => q[i] # q[j]
  <2> SUFFICES ASSUME NEW i \in 1..n, NEW j \in 1..n, i # j
               PROVE  at[o[i]] # at[o[j]]
      OBVIOUS
  <2>1. o[i] \in 1..n /\ o[j] \in 1..n /\ o[i] # o[j]
      BY <1>9
  <2> QED
      BY <1>7, <2>1
<1>12. \A k \in 1..n : ps[o[k]] = ts[q[k]].price /\ ts[q[k]].price \in Nat
  <2> TAKE k \in 1..n
  <2>1. o[k] \in 1..n /\ q[k] = at[o[k]] /\ q[k] \in priced
      BY <1>4, <1>9
  <2> QED
      BY <1>1, <1>4, <1>5, <2>1
<1> HIDE DEF q
<1>13. \A i, j \in 1..n : i < j => ts[q[i]].price <= ts[q[j]].price
    BY <1>9, <1>12
<1>14. IsFiniteSet(1..n) /\ Cardinality(1..n) = n
    BY <1>6, CountUpTo
<1>15. \A t \in priced : \E k \in 1..n : q[k] = t
  <2>1. \A i, j \in 1..n : q[i] = q[j] => i = j
      BY <1>11
  <2>2. q \in Injection(1..n, priced)
      BY <1>10, <2>1, Fun_IsInj
  <2>3. q \in Surjection(1..n, priced)
      BY <1>8, <1>14, <2>2, FS_Injection
  <2> QED
      BY <2>3 DEF Surjection
<1>16. (ps = <<>> <=> n = 0) /\ (priced = {} <=> n = 0)
    BY <1>4, <1>8, EmptySeq, FS_EmptySet DEF n
<1>17. CASE n = 0
    BY <1>3, <1>16, <1>17 DEF percentileCUPrice, priced
<1>18. CASE n # 0
  <2>1. rank \in 0..(n - 1)
    <3> DEFINE x == n - 1
               y == x * Percentile
    <3>1. x \in Nat /\ Percentile \in 0..100
        BY <1>6, <1>18, ConstantsAssumption DEF ConstantsAssumption
    <3>2. y \in Nat /\ y <= x * 100
        BY <3>1
    <3> HIDE DEF y, x
    <3>3. y \div 100 \in 0..x
        BY <3>1, <3>2
    <3> QED
        BY <3>3 DEF x, y
  <2>2. h = Sorted(ps)[rank + 1] /\ rank + 1 \in 1..n
      BY <1>6, <1>16, <1>18, <2>1 DEF percentileCUPrice, Rank, n
  <2> HIDE DEF rank, h
  <2>3. h = ts[q[rank + 1]].price /\ h \in Nat
      BY <1>9, <1>12, <2>2
  <2>4. Cardinality({i \in priced : ts[i].price < h}) <= rank
    <3> DEFINE B == {i \in priced : ts[i].price < h}
               f == [k \in 1..rank |-> q[k]]
               F == {f[k] : k \in 1..rank}
    <3>1. rank \in Nat /\ \A k \in 1..rank : k \in 1..n
        BY <1>6, <2>1
    <3>2. IsFiniteSet(F) /\ Cardinality(F) = rank
      <4>1. \A i, j \in 1..rank : f[i] = f[j] => i = j
          BY <1>11, <3>1
      <4>2. f \in [1..rank -> F] /\ \A t \in F : \E k \in 1..rank : f[k] = t
          OBVIOUS
      <4> HIDE DEF f, F
      <4> QED
          BY <3>1, <4>1, <4>2, CountPaired
    <3>3. B \in SUBSET F
      <4> SUFFICES ASSUME NEW i \in B PROVE i \in F
          OBVIOUS
      <4>1. PICK k \in 1..n : i = q[k]
          BY <1>15
      <4>2. ts[q[k]].price < h /\ ts[q[k]].price \in Nat
          BY <1>12, <4>1
      <4>3. ~(rank + 1 <= k)
        <5> SUFFICES ASSUME rank + 1 <= k PROVE FALSE
            OBVIOUS
        <5>1. rank + 1 = k \/ rank + 1 < k
            BY <3>1
        <5>2. rank + 1 < k => ts[q[rank + 1]].price <= ts[q[k]].price
            BY <1>13, <2>2
        <5> QED
            BY <2>3, <4>2, <5>1, <5>2
      <4> QED
          BY <3>1, <4>1, <4>3
    <3> HIDE DEF F
    <3> QED
        BY <3>2, <3>3, FS_Subset
  <2>5. rank < Cardinality({i \in priced : ts[i].price <= h})
    <3> DEFINE B == {i \in priced : ts[i].price <= h}
               f == [k \in 1..(rank + 1) |-> q[k]]
               F == {f[k] : k \in 1..(rank + 1)}
    <3>1. rank + 1 \in Nat /\ \A k \in 1..(rank + 1) : k \in 1..n
        BY <1>6, <2>1
    <3>2. IsFiniteSet(F) /\ Cardinality(F) = rank + 1
      <4>1. \A i, j \in 1..(rank + 1) : f[i] = f[j] => i = j
          BY <1>11, <3>1
      <4>2. f \in [1..(rank + 1) -> F] /\ \A t \in F : \E k \in 1..(rank + 1) : f[k] = t
          OBVIOUS
      <4> HIDE DEF f, F
      <4> QED
          BY <3>1, <4>1, <4>2, CountPaired
    <3>3. F \in SUBSET B
      <4> SUFFICES ASSUME NEW k \in 1..(rank + 1) PROVE q[k] \in B
          OBVIOUS
      <4>1. k \in 1..n /\ q[k] \in priced
          BY <1>10, <3>1
      <4>2. k < rank + 1 \/ k = rank + 1
          BY <3>1
      <4> QED
          BY <1>12, <1>13, <2>2, <2>3, <4>1, <4>2
    <3>4. B \in SUBSET priced
        OBVIOUS
    <3> HIDE DEF F, B
    <3>5. IsFiniteSet(B) /\ Cardinality(B) \in Nat
        BY <1>8, <3>4, FS_Subset, FS_CardinalityType
    <3>6. rank + 1 <= Cardinality(B)
        BY <3>2, <3>3, <3>5, FS_Subset
    <3> QED
        BY <2>1, <3>5, <3>6 DEF B
  <2> QED
      BY <1>3, <1>8, <1>16, <1>18, <2>3, <2>4, <2>5 DEF h, rank, priced
<1> QED
    BY <1>6, <1>17, <1>18

-----------------------------------------------------------------------------
(* What a report names.                                                    *)

LEMMA TradesType ==
    ASSUME TypeOK, NEW m \in Mints
    PROVE  /\ mintTracker[m] \in Seq(Trade) /\ Trades(m) \in Nat
           /\ m \in Tracked <=> Trades(m) # 0
<1>1. mintTracker[m] \in Seq(Trade)
    BY DEF TypeOK, Trade
<1> QED
    BY <1>1, LenProperties, EmptySeq DEF Trades, Tracked

\* A ranking names every tracked mint once.
LEMMA RankingOnce ==
    ASSUME TypeOK, NEW s \in Rankings
    PROVE  /\ s \in Seq(Mints) /\ Len(s) \in Nat /\ DOMAIN s = 1..Len(s)
           /\ \A i, j \in 1..Len(s) : i # j => s[i] # s[j]
           /\ \A i, j \in 1..Len(s) : i < j => Trades(s[i]) >= Trades(s[j])
           /\ \A m \in Tracked : \E i \in 1..Len(s) : s[i] = m
<1> DEFINE n == Cardinality(Tracked)
<1>1. Tracked \in SUBSET Mints /\ IsFiniteSet(Mints)
    BY ConstantsAssumption DEF Tracked, ConstantsAssumption
<1>2. IsFiniteSet(Tracked) /\ n \in Nat
    BY <1>1, FS_Subset, FS_CardinalityType
<1>3. /\ s \in [1..n -> Tracked] /\ \A i, j \in 1..n : i # j => s[i] # s[j]
      /\ \A i, j \in DOMAIN s : i < j => Trades(s[i]) >= Trades(s[j])
    BY DEF Rankings, SetToSeqs
<1> HIDE DEF n
<1>4. s \in Seq(Mints) /\ Len(s) = n /\ DOMAIN s = 1..n
  <2>1. s \in [1..n -> Mints]
      BY <1>1, <1>3
  <2>2. s \in Seq(Mints)
      BY <1>2, <2>1, SeqDef
  <2> QED
      BY <1>2, <2>1, <2>2, LenProperties
<1>5. \A m \in Tracked : \E i \in 1..n : s[i] = m
  <2>1. s \in Injection(1..n, Tracked)
    <3>1. \A i, j \in 1..n : s[i] = s[j] => i = j
        BY <1>3
    <3> QED
        BY <1>3, <3>1, Fun_IsInj
  <2>2. s \in Surjection(1..n, Tracked)
      BY <1>2, <2>1, CountUpTo, FS_Injection DEF n
  <2> QED
      BY <2>2 DEF Surjection
<1> QED
    BY <1>2, <1>3, <1>4, <1>5

\* How many of a ranking are looked at.
Top(s) == IF Len(s) < TopMints THEN Len(s) ELSE TopMints

\* A report names the hot ones of them, in their order.
LEMMA ReportNames ==
    ASSUME TypeOK, NEW s \in Rankings
    PROVE  /\ Top(s) \in Nat /\ Top(s) <= Len(s) /\ Top(s) <= TopMints
           /\ Len(HotOfFirst(s)) \in Nat /\ DOMAIN Report(s) = 1..Len(HotOfFirst(s))
           /\ \E at \in [1..Len(HotOfFirst(s)) -> {i \in 1..Top(s) : Hot(s[i])}] :
                 /\ \A i, j \in 1..Len(HotOfFirst(s)) : i < j => at[i] < at[j]
                 /\ \A t \in 1..Top(s) : Hot(s[t]) => \E i \in 1..Len(HotOfFirst(s)) : at[i] = t
                 /\ \A i \in 1..Len(HotOfFirst(s)) : Report(s)[i] = HotMint(s[at[i]])
<1>1. s \in Seq(Mints) /\ Len(s) \in Nat
    BY RankingOnce
<1>2. Top(s) \in Nat /\ Top(s) <= Len(s) /\ Top(s) <= TopMints
    BY <1>1, ConstantsAssumption DEF ConstantsAssumption, Top
<1>3. /\ First(s) \in Seq(Mints) /\ Len(First(s)) = Top(s) /\ DOMAIN First(s) = 1..Top(s)
      /\ \A i \in 1..Top(s) : First(s)[i] = s[i]
  <2>1. First(s) = SubSeq(s, 1, Top(s))
      BY DEF First, Top
  <2>2. /\ First(s) \in Seq(Mints) /\ Len(First(s)) = Top(s)
        /\ \A i \in 1..Top(s) : First(s)[i] = s[i]
      BY <1>1, <1>2, <2>1, SubSeqProperties
  <2> QED
      BY <2>2, LenProperties
<1> DEFINE S == {i \in DOMAIN First(s) : Hot(s[i])}
           hot == Picked(First(s), S)
<1>4. S = {i \in 1..Top(s) : Hot(s[i])}
    BY <1>3
<1>5. HotOfFirst(s) = hot
    BY DEF HotOfFirst
<1>6. S \in SUBSET (DOMAIN First(s))
    OBVIOUS
<1> HIDE DEF S
<1>7. PICK at \in [1..Len(hot) -> S] :
          /\ hot \in Seq(Mints)
          /\ \A i, j \in 1..Len(hot) : i < j => at[i] < at[j]
          /\ \A t \in S : \E i \in 1..Len(hot) : at[i] = t
          /\ \A i \in 1..Len(hot) : hot[i] = First(s)[at[i]]
    BY <1>3, <1>6, PickedOnes
<1> HIDE DEF hot
<1>8. Len(hot) \in Nat /\ DOMAIN hot = 1..Len(hot)
    BY <1>7, LenProperties
<1>9. \A i \in 1..Len(hot) : hot[i] = s[at[i]]
    BY <1>3, <1>4, <1>7
<1>10. Report(s) = [i \in 1..Len(hot) |-> HotMint(hot[i])]
    BY <1>5, <1>8 DEF Report
<1>11. \A i \in 1..Len(hot) : Report(s)[i] = HotMint(s[at[i]])
    BY <1>9, <1>10
<1>12. \A t \in 1..Top(s) : Hot(s[t]) => \E i \in 1..Len(hot) : at[i] = t
    BY <1>4, <1>7
<1> QED
    BY <1>2, <1>4, <1>5, <1>7, <1>8, <1>10, <1>11, <1>12

\* It is as long as allowed, and its prices are numbers.
LEMMA ReportType ==
    ASSUME TypeOK, NEW s \in Rankings
    PROVE  Report(s) \in Seq([mint: Mints, price: Nat]) /\ Len(Report(s)) <= TopMints
<1> DEFINE n == Len(HotOfFirst(s))
           k == Top(s)
<1>1. PICK at \in [1..n -> {i \in 1..k : Hot(s[i])}] :
          /\ \A i, j \in 1..n : i < j => at[i] < at[j]
          /\ \A i \in 1..n : Report(s)[i] = HotMint(s[at[i]])
    BY ReportNames
<1>2. k \in Nat /\ k <= Len(s) /\ k <= TopMints /\ n \in Nat /\ DOMAIN Report(s) = 1..n
    BY ReportNames
<1>3. s \in Seq(Mints) /\ Len(s) \in Nat
    BY RankingOnce
<1> HIDE DEF n, k
<1>4. \A i \in 1..n : at[i] \in 1..k
    BY <1>1
<1>5. n <= k
  <2>1. \A i, j \in 1..n : i # j => at[i] # at[j]
    <3> SUFFICES ASSUME NEW i \in 1..n, NEW j \in 1..n, i # j
                 PROVE  at[i] # at[j]
        OBVIOUS
    <3>1. at[i] \in 1..k /\ at[j] \in 1..k
        BY <1>4
    <3>2. at[i] \in Nat /\ at[j] \in Nat /\ (i < j \/ j < i)
        BY <1>2, <3>1
    <3> QED
        BY <1>1, <3>2
  <2>2. at \in [1..n -> 1..k] /\ \A i, j \in 1..n : at[i] = at[j] => i = j
      BY <1>1, <2>1
  <2>3. at \in Injection(1..n, 1..k)
      BY <2>2, Fun_IsInj
  <2>4. /\ IsFiniteSet(1..k) /\ Cardinality(1..k) = k
        /\ IsFiniteSet(1..n) /\ Cardinality(1..n) = n
      BY <1>2, CountUpTo
  <2> QED
      BY <2>3, <2>4, FS_Injection
<1>6. \A i \in 1..n : Report(s)[i] \in [mint: Mints, price: Nat]
  <2> TAKE i \in 1..n
  <2>1. at[i] \in 1..Len(s)
    <3>1. at[i] \in 1..k
        BY <1>4
    <3> QED
        BY <1>2, <1>3, <3>1
  <2>2. s[at[i]] \in Mints
      BY <1>3, <2>1, ElementOfSeq
  <2>3. percentileCUPrice(extractCUPrices(mintTracker[s[at[i]]])) \in Nat
      BY <2>2, TradesType, PercentileOfTrades
  <2> DEFINE m == s[at[i]]
             h == percentileCUPrice(extractCUPrices(mintTracker[m]))
  <2>4. HotMint(m) = [mint |-> m, price |-> h]
      BY DEF HotMint
  <2>5. Report(s)[i] = HotMint(m) /\ m \in Mints /\ h \in Nat
      BY <1>1, <2>2, <2>3
  <2> HIDE DEF m, h
  <2> QED
      BY <2>4, <2>5
<1>7. Report(s) \in [1..n -> [mint: Mints, price: Nat]]
  <2>1. Report(s) = [i \in DOMAIN HotOfFirst(s) |-> HotMint(HotOfFirst(s)[i])]
      BY DEF Report
  <2>2. Report(s) = [i \in 1..n |-> Report(s)[i]]
      BY <1>2, <2>1
  <2> QED
      BY <1>6, <2>2
<1>8. Report(s) \in Seq([mint: Mints, price: Nat]) /\ Len(Report(s)) = n
  <2>1. Report(s) \in Seq([mint: Mints, price: Nat])
      BY <1>2, <1>7, SeqDef
  <2> QED
      BY <1>2, <1>7, <2>1, LenProperties
<1> QED
    BY <1>2, <1>5, <1>8, ConstantsAssumption DEF ConstantsAssumption

-----------------------------------------------------------------------------
(* The tracker keeps TrackerInv.                                           *)

\* The token a recognised transaction traded: a mint whose total did not change.
LEMMA TradedMint ==
    ASSUME NEW t \in Txs, TradedAt(t) # {}
    PROVE  /\ getTradedToken(t) \in Mints
           /\ Total(t.post, getTradedToken(t)) = Total(t.pre, getTradedToken(t))
<1>1. t.post \in Seq(Balance)
    BY ConstantsAssumption DEF ConstantsAssumption
<1>2. DOMAIN t.post = 1..Len(t.post) /\ Len(t.post) \in Nat
      /\ \A i \in 1..Len(t.post) : t.post[i] \in Balance
    BY <1>1, LenProperties, ElementOfSeq
<1>3. TradedAt(t) \in SUBSET Nat
    BY <1>2 DEF TradedAt
<1>4. Min(TradedAt(t)) \in TradedAt(t)
    BY <1>3, NatMin DEF Min
<1>5. PICK i \in TradedAt(t) : getTradedToken(t) = t.post[i].mint
    BY <1>4 DEF getTradedToken
<1>6. /\ t.post[i] \in Balance /\ t.post[i].mint # WSOL
      /\ Total(t.post, t.post[i].mint) = Total(t.pre, t.post[i].mint)
    BY <1>2, <1>5 DEF TradedAt
<1>7. t.post[i].mint \in Mints
    BY <1>6 DEF Balance
<1> QED
    BY <1>5, <1>6, <1>7

LEMMA TrackerInit == Init => TrackerInv
<1> SUFFICES ASSUME Init PROVE TrackerInv
    OBVIOUS
<1> USE DEF Init
<1>1. TypeOK
    BY EmptySeq, ConstantsAssumption DEF ConstantsAssumption, TypeOK
<1> QED
    BY <1>1 DEF TrackerInv, Recognised, Reported

\* A step that leaves every mint as many trades, at the same prices, changes nothing
\* in what a report of them says.
LEMMA SameReports ==
    ASSUME TypeOK, TypeOK',
           \A m \in Mints : /\ Len(mintTracker'[m]) = Len(mintTracker[m])
                            /\ \A i \in 1..Len(mintTracker[m]) :
                                  mintTracker'[m][i].price = mintTracker[m][i].price,
           NEW s \in Rankings
    PROVE  s \in Rankings' /\ Report(s)' = Report(s)
<1>1. \A m \in Mints : /\ Trades(m)' = Trades(m) /\ Hot(m)' = Hot(m)
                       /\ mintTracker'[m] \in Seq(Trade) /\ mintTracker[m] \in Seq(Trade)
    BY DEF Trades, Hot, TypeOK, Trade
<1>2. Tracked' = Tracked
  <2>1. \A m \in Mints : mintTracker'[m] = <<>> <=> mintTracker[m] = <<>>
      BY <1>1, EmptySeq
  <2> QED
      BY <2>1 DEF Tracked
<1>3. /\ s \in Seq(Mints) /\ Len(s) \in Nat /\ DOMAIN s = 1..Len(s)
      /\ \A i \in 1..Len(s) : s[i] \in Mints
    BY RankingOnce, ElementOfSeq
<1>4. s \in Rankings'
  <2>1. s \in SetToSeqs(Tracked)'
      BY <1>2 DEF Rankings, SetToSeqs
  <2>2. \A i, j \in DOMAIN s : i < j => Trades(s[i])' >= Trades(s[j])'
      BY <1>1, <1>3 DEF Rankings
  <2> QED
      BY <2>1, <2>2 DEF Rankings
<1>5. \A m \in Mints : HotMint(m)' = HotMint(m)
  <2> SUFFICES ASSUME NEW m \in Mints
               PROVE  extractCUPrices(mintTracker'[m]) = extractCUPrices(mintTracker[m])
      BY DEF HotMint
  <2>1. DOMAIN mintTracker'[m] = 1..Len(mintTracker[m])
        /\ DOMAIN mintTracker[m] = 1..Len(mintTracker[m])
      BY <1>1, LenProperties
  <2>2. [i \in DOMAIN mintTracker'[m] |-> mintTracker'[m][i].price]
          = [i \in DOMAIN mintTracker[m] |-> mintTracker[m][i].price]
      BY <2>1
  <2>3. {i \in DOMAIN mintTracker'[m] : mintTracker'[m][i].price > 0}
          = {i \in DOMAIN mintTracker[m] : mintTracker[m][i].price > 0}
      BY <2>1
  <2> QED
      BY <2>2, <2>3 DEF extractCUPrices
<1>6. HotOfFirst(s)' = HotOfFirst(s)
  <2>1. DOMAIN First(s) = 1..Top(s) /\ Top(s) \in Nat /\ Top(s) <= Len(s)
        /\ First(s)' = First(s)
    <3>1. Top(s) \in Nat /\ Top(s) <= Len(s)
        BY ReportNames
    <3>2. First(s) = SubSeq(s, 1, Top(s))
        BY DEF First, Top
    <3>3. Len(First(s)) = Top(s) /\ First(s) \in Seq(Mints)
        BY <1>3, <3>1, <3>2, SubSeqProperties
    <3>4. First(s)' = First(s)
        BY DEF First
    <3> QED
        BY <3>1, <3>3, <3>4, LenProperties
  <2>2. \A i \in DOMAIN First(s) : Hot(s[i])' = Hot(s[i])
      BY <1>1, <1>3, <2>1
  <2>3. {i \in DOMAIN First(s) : Hot(s[i])}' = {i \in DOMAIN First(s) : Hot(s[i])}
      BY <2>1, <2>2
  <2> QED
      BY <2>1, <2>3 DEF HotOfFirst, Picked
<1>7. \A i \in DOMAIN HotOfFirst(s) : HotOfFirst(s)[i] \in Mints
  <2>1. First(s) = SubSeq(s, 1, Top(s)) /\ Top(s) \in Nat /\ Top(s) <= Len(s)
      BY ReportNames DEF First, Top
  <2>2. First(s) \in Seq(Mints)
      BY <1>3, <2>1, SubSeqProperties
  <2>3. HotOfFirst(s) \in Seq(Mints)
      BY <2>2, PickedOnes DEF HotOfFirst
  <2> QED
      BY <2>3, LenProperties, ElementOfSeq
<1>8. Report(s)' = Report(s)
    BY <1>5, <1>6, <1>7 DEF Report
<1> QED
    BY <1>4, <1>8

\* Every step keeps the invariant.
LEMMA TrackerNext == TrackerInv /\ [Next]_vars => TrackerInv'
<1> SUFFICES ASSUME TrackerInv, [Next]_vars
             PROVE  TrackerInv'
    OBVIOUS
<1>1. /\ TypeOK /\ Recognised /\ Reported
      /\ mintTracker \in [Mints -> Seq(Trade)]
    BY DEF TrackerInv, TypeOK, Trade
<1>2. CASE Elapse
  <2>1. \A m \in Mints :
           /\ mintTracker'[m] \in Seq(Trade) /\ Len(mintTracker'[m]) = Len(mintTracker[m])
           /\ \A i \in 1..Len(mintTracker[m]) :
                 mintTracker'[m][i].price = mintTracker[m][i].price
    <3> TAKE m \in Mints
    <3> DEFINE ts == mintTracker[m]
    <3>1. ts \in Seq(Trade) /\ Len(ts) \in Nat /\ DOMAIN ts = 1..Len(ts)
          /\ \A i \in 1..Len(ts) : ts[i] \in Trade
        BY <1>1, LenProperties, ElementOfSeq
    <3>2. mintTracker'[m] = [i \in 1..Len(ts) |->
              [ts[i] EXCEPT !.age = IF @ <= Window THEN @ + 1 ELSE @]]
        BY <1>2, <3>1 DEF Elapse
    <3> HIDE DEF ts
    <3>3. \A i \in 1..Len(ts) : mintTracker'[m][i] \in Trade
                                 /\ mintTracker'[m][i].price = ts[i].price
        BY <3>1, <3>2, ConstantsAssumption DEF Trade, ConstantsAssumption
    <3>4. mintTracker'[m] \in [1..Len(ts) -> Trade]
        BY <3>2, <3>3
    <3>5. mintTracker'[m] \in Seq(Trade)
        BY <3>1, <3>4, SeqDef
    <3>6. Len(mintTracker'[m]) = Len(ts)
        BY <3>1, <3>4, <3>5, LenProperties
    <3> QED
        BY <3>3, <3>5, <3>6 DEF ts
  <2>2. TypeOK'
    <3>1. mintTracker' \in [Mints -> Seq(Trade)]
        BY <1>2, <2>1 DEF Elapse
    <3> QED
        BY <1>1, <1>2, <3>1 DEF Elapse, TypeOK, Trade
  <2>3. Reported'
    <3>1. \A s \in Rankings : s \in Rankings' /\ Report(s)' = Report(s)
        BY <1>1, <2>1, <2>2, SameReports
    <3> QED
        BY <1>1, <1>2, <3>1 DEF Elapse, Reported
  <2> QED
      BY <1>1, <1>2, <2>2, <2>3 DEF Elapse, TrackerInv, Recognised
<1>3. CASE Receive
  <2>1. TypeOK'
      BY <1>1, <1>3 DEF Receive, TypeOK
  <2>2. \A s \in Rankings : s \in Rankings' /\ Report(s)' = Report(s)
      BY <1>1, <1>3, <2>1, SameReports DEF Receive
  <2> QED
      BY <1>1, <1>3, <2>1, <2>2 DEF Receive, TrackerInv, Recognised, Reported
<1>4. CASE ProcessTrade
  <2>1. tx \in Txs /\ TradedAt(tx) # {} /\ tx' = None /\ lpc' = lpc /\ lpc # "push"
        /\ HotMintsList' = HotMintsList
      BY <1>1, <1>4 DEF ProcessTrade, TypeOK, Recognised
  <2> DEFINE m == getTradedToken(tx)
             new == [price |-> tx.price, age |-> 0]
  <2>2. m \in Mints /\ new \in Trade
      BY <2>1, TradedMint, ConstantsAssumption DEF ConstantsAssumption, Trade
  <2>3. mintTracker' = [mintTracker EXCEPT ![m] = Append(@, new)]
      BY <1>4 DEF ProcessTrade
  <2> HIDE DEF m, new
  <2>4. mintTracker' \in [Mints -> Seq(Trade)]
      BY <1>1, <2>2, <2>3, AppendProperties
  <2> QED
      BY <1>1, <2>1, <2>4 DEF TrackerInv, TypeOK, Trade, Recognised, Reported
<1>5. CASE PruneOldTrades
  <2>1. mintTracker' \in [Mints -> Seq(Trade)]
    <3>1. \A m \in Mints : Picked(mintTracker[m],
              {i \in DOMAIN mintTracker[m] : Recent(mintTracker[m][i])}) \in Seq(Trade)
        BY <1>1, PickedOnes
    <3> QED
        BY <1>5, <3>1 DEF PruneOldTrades
  <2> QED
      BY <1>1, <1>5, <2>1 DEF PruneOldTrades, TrackerInv, TypeOK, Trade, Recognised, Reported
<1>6. CASE PrintHotMints
  <2>1. PICK s \in Rankings : HotMintsList' = Report(s)
      BY <1>6 DEF PrintHotMints
  <2>2. TypeOK'
      BY <1>1, <1>6, <2>1, ReportType DEF PrintHotMints, TypeOK
  <2>3. s \in Rankings' /\ Report(s)' = Report(s)
      BY <1>1, <1>6, <2>2, SameReports DEF PrintHotMints
  <2> QED
      BY <1>1, <1>6, <2>1, <2>2, <2>3 DEF PrintHotMints, TrackerInv, Recognised, Reported
<1>7. CASE PrintReturn
    BY <1>1, <1>7 DEF PrintReturn, TrackerInv, TypeOK, Recognised, Reported
<1>8. CASE UNCHANGED vars
  <2>1. TypeOK'
      BY <1>1, <1>8 DEF vars, TypeOK
  <2>2. \A s \in Rankings : s \in Rankings' /\ Report(s)' = Report(s)
      BY <1>1, <1>8, <2>1, SameReports DEF vars
  <2> QED
      BY <1>1, <1>8, <2>1, <2>2 DEF vars, TrackerInv, Recognised, Reported
<1> QED
    BY <1>2, <1>3, <1>4, <1>5, <1>6, <1>7, <1>8 DEF Next, LoggerStep

\* The tracker keeps its types, the trade it is about to record passed both tests, and
\* the list it holds during a push is a report of what it still holds.
THEOREM TrackerCorrect == Spec => []TrackerInv
<1> QED
    BY TrackerInit, TrackerNext, PTL DEF Spec

-----------------------------------------------------------------------------
(* What the tracker promises.                                              *)

\* What the accounts of all hold is what the signer's and the others' hold.
LEMMA OwnAndOthers ==
    ASSUME NEW bs \in Seq(Balance), NEW m
    PROVE  LET others == SumOf(bs, {i \in DOMAIN bs : bs[i].mint = m /\ bs[i].owner = "other"})
           IN  Own(bs, m) \in Nat /\ others \in Nat /\ Total(bs, m) = Own(bs, m) + others
<1> DEFINE S == {i \in DOMAIN bs : bs[i].mint = m /\ bs[i].owner = "signer"}
           T == {i \in DOMAIN bs : bs[i].mint = m /\ bs[i].owner = "other"}
<1>1. \A i \in DOMAIN bs : bs[i].owner \in {"signer", "other"}
  <2>1. \A i \in DOMAIN bs : bs[i] \in Balance
      BY LenProperties, ElementOfSeq
  <2> QED
      BY <2>1 DEF Balance
<1>2. {i \in DOMAIN bs : bs[i].mint = m} = S \cup T /\ S \cap T = {}
    BY <1>1
<1> HIDE DEF S, T
<1>3. SumOf(bs, S) \in Nat /\ SumOf(bs, T) \in Nat
      /\ SumOf(bs, S \cup T) = SumOf(bs, S) + SumOf(bs, T)
    BY <1>2, SumSplit
<1> QED
    BY <1>2, <1>3 DEF Own, Total, S, T

\* The opposite of what the comments of getTradedToken say, whichever amounts could not be
\* read: of a recorded mint the signer holds as much as before, and so do the others.
THEOREM RecordedCorrect == Spec => []RecordedUnchanged
<1>1. TrackerInv => RecordedUnchanged
  <2> SUFFICES ASSUME TrackerInv, tx # None
               PROVE  LET m == getTradedToken(tx)
                          others(bs) == SumOf(bs, {i \in DOMAIN bs :
                                           bs[i].mint = m /\ bs[i].owner = "other"})
                      IN  /\ m \in Mints
                          /\ Own(tx.post, m) = Own(tx.pre, m)
                          /\ others(tx.post) = others(tx.pre)
      BY DEF RecordedUnchanged
  <2> DEFINE m == getTradedToken(tx)
             others(bs) == SumOf(bs, {i \in DOMAIN bs : bs[i].mint = m /\ bs[i].owner = "other"})
  <2>1. tx \in Txs /\ isArbitrageTx(tx) /\ TradedAt(tx) # {}
      BY DEF TrackerInv, TypeOK, Recognised
  <2>2. tx.pre \in Seq(Balance) /\ tx.post \in Seq(Balance)
      BY <2>1, ConstantsAssumption DEF ConstantsAssumption
  <2>3. m \in Mints /\ Total(tx.post, m) = Total(tx.pre, m)
      BY <2>1, TradedMint
  <2>4. Own(tx.post, m) = Own(tx.pre, m)
      BY <2>1, <2>3 DEF isArbitrageTx
  <2>5. /\ Own(tx.post, m) \in Nat /\ others(tx.post) \in Nat
        /\ Total(tx.post, m) = Own(tx.post, m) + others(tx.post)
      BY <2>2, OwnAndOthers
  <2>6. /\ Own(tx.pre, m) \in Nat /\ others(tx.pre) \in Nat
        /\ Total(tx.pre, m) = Own(tx.pre, m) + others(tx.pre)
      BY <2>2, OwnAndOthers
  <2> HIDE DEF m, others
  <2>7. others(tx.post) = others(tx.pre)
    <3> DEFINE own == Own(tx.pre, m)
               after == others(tx.post)
               before == others(tx.pre)
    <3>1. own \in Nat /\ after \in Nat /\ before \in Nat /\ own + after = own + before
        BY <2>3, <2>4, <2>5, <2>6
    <3> HIDE DEF own, after, before
    <3>2. after = before
        BY <3>1
    <3> QED
        BY <3>2 DEF after, before
  <2> QED
      BY <2>3, <2>4, <2>7 DEF m, others
<1> QED
    BY <1>1, TrackerCorrect, PTL

\* How a list published during a push lies in the ranking it came from.
LEMMA PublishedFrom ==
    ASSUME TrackerInv, lpc = "push"
    PROVE  \E s \in Rankings :
              /\ HotMintsList = Report(s)
              /\ \A i \in DOMAIN HotMintsList :
                    HotMintsList[i] = HotMint(HotMintsList[i].mint)
              /\ \A i \in DOMAIN HotMintsList : \E k \in 1..Top(s) :
                    HotMintsList[i].mint = s[k] /\ Hot(s[k])
              /\ \A i, j \in DOMAIN HotMintsList : i < j =>
                    \E k, l \in 1..Top(s) :
                       HotMintsList[i].mint = s[k] /\ HotMintsList[j].mint = s[l] /\ k < l
              /\ \A k \in 1..Top(s) : Hot(s[k]) => s[k] \in Published
<1>1. PICK s \in Rankings : HotMintsList = Report(s)
    BY DEF TrackerInv, Reported
<1> DEFINE n == Len(HotOfFirst(s))
<1>2. TypeOK
    BY DEF TrackerInv
<1>3. PICK at \in [1..n -> {i \in 1..Top(s) : Hot(s[i])}] :
          /\ DOMAIN HotMintsList = 1..n
          /\ \A i, j \in 1..n : i < j => at[i] < at[j]
          /\ \A t \in 1..Top(s) : Hot(s[t]) => \E i \in 1..n : at[i] = t
          /\ \A i \in 1..n : HotMintsList[i] = HotMint(s[at[i]])
    BY <1>1, <1>2, ReportNames
<1> HIDE DEF n
<1>4. \A i \in 1..n : HotMintsList[i].mint = s[at[i]] /\ at[i] \in 1..Top(s) /\ Hot(s[at[i]])
    BY <1>3 DEF HotMint
<1>5. \A i \in 1..n : HotMintsList[i] = HotMint(HotMintsList[i].mint)
    BY <1>3, <1>4
<1>6. \A k \in 1..Top(s) : Hot(s[k]) => s[k] \in Published
  <2> SUFFICES ASSUME NEW k \in 1..Top(s), Hot(s[k])
               PROVE  s[k] \in Published
      OBVIOUS
  <2>1. PICK i \in 1..n : at[i] = k
      BY <1>3
  <2> QED
      BY <1>3, <1>4, <2>1 DEF Published
<1> QED
    BY <1>1, <1>3, <1>4, <1>5, <1>6

\* The published list is the hot part of the top of the ranking.
THEOREM HotListCorrect == Spec => []HotListIsTop
<1>1. TrackerInv => HotListIsTop
  <2> SUFFICES ASSUME TrackerInv, lpc = "push"
               PROVE  HotListIsTop
      BY DEF HotListIsTop
  <2>1. PICK s \in Rankings :
           /\ \A i \in DOMAIN HotMintsList : \E k \in 1..Top(s) :
                 HotMintsList[i].mint = s[k] /\ Hot(s[k])
           /\ \A i, j \in DOMAIN HotMintsList : i < j =>
                 \E k, l \in 1..Top(s) :
                    HotMintsList[i].mint = s[k] /\ HotMintsList[j].mint = s[l] /\ k < l
           /\ \A k \in 1..Top(s) : Hot(s[k]) => s[k] \in Published
      BY PublishedFrom
  <2>2. TypeOK /\ IsFiniteSet(Mints) /\ TopMints \in Nat /\ NumArbsFilter \in Nat
      BY ConstantsAssumption DEF TrackerInv, ConstantsAssumption
  <2>3. /\ s \in Seq(Mints) /\ Len(s) \in Nat /\ \A k \in 1..Len(s) : s[k] \in Mints
        /\ \A k, l \in 1..Len(s) : k # l => s[k] # s[l]
        /\ \A k, l \in 1..Len(s) : k < l => Trades(s[k]) >= Trades(s[l])
        /\ \A m \in Tracked : \E k \in 1..Len(s) : s[k] = m
      BY <2>2, RankingOnce, ElementOfSeq
  <2>4. Top(s) \in Nat /\ Top(s) <= Len(s) /\ Top(s) <= TopMints
        /\ \A k \in 1..Top(s) : k \in 1..Len(s)
      BY <2>2, <2>3 DEF Top
  <2>5. ASSUME NEW i \in DOMAIN HotMintsList, NEW j \in DOMAIN HotMintsList, i < j
        PROVE  /\ Trades(HotMintsList[i].mint) >= Trades(HotMintsList[j].mint)
               /\ HotMintsList[i].mint # HotMintsList[j].mint
    <3>1. PICK k \in 1..Top(s), l \in 1..Top(s) :
             HotMintsList[i].mint = s[k] /\ HotMintsList[j].mint = s[l] /\ k < l
        BY <2>1, <2>5
    <3>2. k \in 1..Len(s) /\ l \in 1..Len(s) /\ k # l
        BY <2>4, <3>1
    <3> QED
        BY <2>3, <3>1, <3>2
  <2>6. ASSUME NEW m \in Published
        PROVE  Hot(m) /\ Cardinality({x \in Mints : Trades(x) > Trades(m)}) < TopMints
    <3>1. PICK k \in 1..Top(s) : m = s[k] /\ Hot(m)
        BY <2>1 DEF Published
    <3> DEFINE B == {x \in Mints : Trades(x) > Trades(m)}
               f == [l \in 1..(k - 1) |-> s[l]]
               F == {f[l] : l \in 1..(k - 1)}
    <3>2. k \in 1..Len(s) /\ k - 1 \in Nat /\ m \in Mints /\ Trades(m) \in Nat
          /\ \A l \in 1..(k - 1) : l \in 1..Len(s)
        BY <2>2, <2>3, <2>4, <3>1, TradesType
    <3>3. IsFiniteSet(F) /\ Cardinality(F) = k - 1
      <4>1. \A i, j \in 1..(k - 1) : f[i] = f[j] => i = j
          BY <2>3, <3>2
      <4>2. f \in [1..(k - 1) -> F] /\ \A t \in F : \E i \in 1..(k - 1) : f[i] = t
          OBVIOUS
      <4> HIDE DEF f, F
      <4> QED
          BY <3>2, <4>1, <4>2, CountPaired
    <3>4. B \in SUBSET F
      <4> SUFFICES ASSUME NEW x \in Mints, Trades(x) > Trades(m) PROVE x \in F
          OBVIOUS
      <4>1. Trades(x) \in Nat /\ x \in Tracked
          BY <2>2, <3>2, TradesType
      <4>2. PICK l \in 1..Len(s) : s[l] = x
          BY <2>3, <4>1
      <4>3. l < k
        <5>1. ~(k < l) /\ k # l
            BY <2>3, <3>1, <3>2, <4>1, <4>2
        <5> QED
            BY <2>3, <3>2, <5>1
      <4> QED
          BY <3>2, <4>2, <4>3
    <3> HIDE DEF B, F
    <3>5. Cardinality(B) <= k - 1 /\ Cardinality(B) \in Nat
        BY <3>3, <3>4, FS_Subset, FS_CardinalityType
    <3>6. Cardinality(B) < TopMints
        BY <2>2, <2>4, <3>1, <3>5
    <3> QED
        BY <3>1, <3>6 DEF B
  <2>7. ASSUME NEW m \in Mints \ Published, Hot(m)
        PROVE  Cardinality({x \in Mints \ {m} : Trades(x) >= Trades(m)}) >= TopMints
    <3>1. Trades(m) \in Nat /\ m \in Tracked
        BY <2>2, <2>7, TradesType DEF Hot
    <3>2. PICK k \in 1..Len(s) : s[k] = m
        BY <2>3, <3>1
    <3>3. k \notin 1..Top(s)
        BY <2>1, <2>7, <3>2
    <3>4. TopMints < k
        BY <2>2, <2>3, <2>4, <3>3 DEF Top
    <3> DEFINE B == {x \in Mints \ {m} : Trades(x) >= Trades(m)}
               f == [l \in 1..TopMints |-> s[l]]
               F == {f[l] : l \in 1..TopMints}
    <3>5. \A l \in 1..TopMints : l \in 1..Len(s) /\ l < k
        BY <2>2, <2>3, <3>4
    <3>6. IsFiniteSet(F) /\ Cardinality(F) = TopMints
      <4>1. \A i, j \in 1..TopMints : f[i] = f[j] => i = j
          BY <2>3, <3>5
      <4>2. f \in [1..TopMints -> F] /\ \A t \in F : \E i \in 1..TopMints : f[i] = t
          OBVIOUS
      <4> HIDE DEF f, F
      <4> QED
          BY <2>2, <4>1, <4>2, CountPaired
    <3>7. F \in SUBSET B
      <4> SUFFICES ASSUME NEW l \in 1..TopMints PROVE s[l] \in B
          OBVIOUS
      <4>1. l \in 1..Len(s) /\ l < k /\ l # k
          BY <3>5, <2>2
      <4> QED
          BY <2>3, <3>2, <4>1
    <3>8. B \in SUBSET Mints
        OBVIOUS
    <3> HIDE DEF B, F
    <3>9. IsFiniteSet(B) /\ Cardinality(B) \in Nat
        BY <2>2, <3>8, FS_Subset, FS_CardinalityType
    <3>10. TopMints <= Cardinality(B)
        BY <3>6, <3>7, <3>9, FS_Subset
    <3> QED
        BY <2>2, <3>9, <3>10 DEF B
  <2> QED
      BY <2>5, <2>6, <2>7 DEF HotListIsTop
<1> QED
    BY <1>1, TrackerCorrect, PTL

\* The price of a published mint is the percentile of the positive prices paid for it.
THEOREM PriceCorrect == Spec => []PriceIsPercentile
<1>1. TrackerInv => PriceIsPercentile
  <2> SUFFICES ASSUME TrackerInv, lpc = "push", NEW i \in DOMAIN HotMintsList
               PROVE  LET h == HotMintsList[i]
                          ts == mintTracker[h.mint]
                          priced == {j \in DOMAIN ts : ts[j].price > 0}
                          below == Cardinality({j \in priced : ts[j].price < h.price})
                          upTo == Cardinality({j \in priced : ts[j].price <= h.price})
                          rank == ((Cardinality(priced) - 1) * Percentile) \div 100
                      IN  IF priced = {} THEN h.price = 0 ELSE below <= rank /\ rank < upTo
      BY DEF PriceIsPercentile
  <2> DEFINE m == HotMintsList[i].mint
  <2>1. HotMintsList[i] = HotMint(m)
      BY PublishedFrom
  <2>2. m \in Mints
    <3>1. HotMintsList[i] \in [mint: Mints, price: Nat]
        BY LenProperties, ElementOfSeq DEF TrackerInv, TypeOK
    <3> QED
        BY <3>1
  <2>3. mintTracker[m] \in Seq(Trade)
      BY <2>2, TradesType DEF TrackerInv
  <2>4. HotMintsList[i].price = percentileCUPrice(extractCUPrices(mintTracker[m]))
      BY <2>1 DEF HotMint
  <2> QED
      BY <2>3, <2>4, PercentileOfTrades
<1> QED
    BY <1>1, TrackerCorrect, PTL

\* The positions of the trades inside the window.
Inside(ts) == {i \in DOMAIN ts : ts[i].age <= Window}

LEMMA InsideFinite ==
    ASSUME NEW ts \in Seq(Trade)
    PROVE  IsFiniteSet(Inside(ts)) /\ Cardinality(Inside(ts)) \in Nat
<1>1. DOMAIN ts = 1..Len(ts) /\ Len(ts) \in Nat
    BY LenProperties
<1>2. Inside(ts) \in SUBSET (1..Len(ts)) /\ IsFiniteSet(1..Len(ts))
    BY <1>1, CountUpTo DEF Inside
<1> QED
    BY <1>2, FS_Subset, FS_CardinalityType

\* Pruning keeps as many trades as are inside the window, and all it keeps are inside.
LEMMA PruneKeepsInside ==
    ASSUME NEW ts \in Seq(Trade)
    PROVE  Cardinality(Inside(Picked(ts, Inside(ts)))) = Cardinality(Inside(ts))
<1> DEFINE kept == Picked(ts, Inside(ts))
           n == Len(kept)
<1>1. Inside(ts) \in SUBSET (DOMAIN ts)
    BY DEF Inside
<1>2. PICK at \in [1..n -> Inside(ts)] :
          /\ kept \in Seq(Trade)
          /\ \A i, j \in 1..n : i < j => at[i] < at[j]
          /\ \A t \in Inside(ts) : \E i \in 1..n : at[i] = t
          /\ \A i \in 1..n : kept[i] = ts[at[i]]
    BY <1>1, PickedOnes
<1> HIDE DEF kept
<1>3. n \in Nat /\ DOMAIN kept = 1..n
    BY <1>2, LenProperties
<1> HIDE DEF n
<1>4. \A i \in 1..n : at[i] \in Nat /\ kept[i].age <= Window
  <2> TAKE i \in 1..n
  <2>1. at[i] \in Inside(ts) /\ kept[i] = ts[at[i]]
      BY <1>2
  <2>2. DOMAIN ts = 1..Len(ts) /\ Len(ts) \in Nat
      BY LenProperties
  <2>3. at[i] \in 1..Len(ts) /\ ts[at[i]].age <= Window
      BY <2>1, <2>2 DEF Inside
  <2> QED
      BY <2>1, <2>2, <2>3
<1>5. Inside(kept) = 1..n
    BY <1>3, <1>4 DEF Inside
<1>6. \A i, j \in 1..n : at[i] = at[j] => i = j
  <2> SUFFICES ASSUME NEW i \in 1..n, NEW j \in 1..n, i # j
               PROVE  at[i] # at[j]
      OBVIOUS
  <2>1. (i < j \/ j < i) /\ at[i] \in Nat /\ at[j] \in Nat
      BY <1>3, <1>4
  <2> QED
      BY <1>2, <2>1
<1>7. Cardinality(Inside(ts)) = n
    BY <1>2, <1>3, <1>6, CountPaired
<1>8. Cardinality(1..n) = n
    BY <1>3, CountUpTo
<1> QED
    BY <1>5, <1>7, <1>8 DEF kept

\* Neither a report nor a trade recorded meanwhile loses a trade inside the window.
THEOREM RecentKept == Spec => RecentTradesKept
<1> DEFINE Kept == Elapse \/ \A m \in Mints :
              Cardinality({i \in DOMAIN mintTracker'[m] : mintTracker'[m][i].age <= Window})
                >= Cardinality({i \in DOMAIN mintTracker[m] : mintTracker[m][i].age <= Window})
<1>1. TrackerInv /\ [Next]_vars => [Kept]_vars
  <2> SUFFICES ASSUME TrackerInv, Next, ~Elapse, NEW m \in Mints
               PROVE  Cardinality(Inside(mintTracker'[m])) >= Cardinality(Inside(mintTracker[m]))
      BY DEF Inside
  <2>1. mintTracker[m] \in Seq(Trade) /\ mintTracker \in [Mints -> Seq(Trade)]
      BY DEF TrackerInv, TypeOK, Trade
  <2>2. Cardinality(Inside(mintTracker[m])) \in Nat
      BY <2>1, InsideFinite
  <2>3. CASE mintTracker' = mintTracker
      BY <2>2, <2>3
  <2>4. CASE ProcessTrade
    <3> DEFINE new == [price |-> tx.price, age |-> 0]
               ts == mintTracker[m]
    <3>1. \/ mintTracker'[m] = ts
          \/ mintTracker'[m] = Append(ts, new)
        BY <2>1, <2>4 DEF ProcessTrade
    <3>2. new \in Trade
      <4>1. tx \in Txs
          BY <2>4 DEF ProcessTrade, TrackerInv, TypeOK
      <4> QED
          BY <4>1, ConstantsAssumption DEF ConstantsAssumption, Trade
    <3> HIDE DEF new, ts
    <3>3. CASE mintTracker'[m] = ts
        BY <2>2, <3>3 DEF ts
    <3>4. CASE mintTracker'[m] = Append(ts, new)
      <4>1. ts \in Seq(Trade) /\ Len(ts) \in Nat /\ DOMAIN ts = 1..Len(ts)
          BY <2>1, LenProperties DEF ts
      <4>2. /\ mintTracker'[m] \in Seq(Trade) /\ DOMAIN mintTracker'[m] = 1..(Len(ts) + 1)
            /\ \A i \in 1..Len(ts) : mintTracker'[m][i] = ts[i]
          BY <3>2, <3>4, <4>1, AppendProperties, LenProperties
      <4>3. Inside(ts) \in SUBSET Inside(mintTracker'[m])
          BY <4>1, <4>2 DEF Inside
      <4>4. IsFiniteSet(Inside(mintTracker'[m])) /\ Cardinality(Inside(mintTracker'[m])) \in Nat
          BY <4>2, InsideFinite
      <4>5. Cardinality(Inside(ts)) <= Cardinality(Inside(mintTracker'[m]))
          BY <4>3, <4>4, FS_Subset
      <4> QED
          BY <2>2, <4>4, <4>5 DEF ts
    <3> QED
        BY <3>1, <3>3, <3>4
  <2>5. CASE PruneOldTrades
    <3>1. mintTracker'[m] = Picked(mintTracker[m], Inside(mintTracker[m]))
        BY <2>5 DEF PruneOldTrades, Recent, Inside
    <3> QED
        BY <2>1, <2>2, <3>1, PruneKeepsInside
  <2> QED
      BY <2>3, <2>4, <2>5 DEF Next, Receive, LoggerStep, PrintHotMints, PrintReturn
<1> QED
    BY <1>1, TrackerCorrect, PTL DEF Spec, RecentTradesKept

-----------------------------------------------------------------------------
(* From the tracker to the book.                                           *)

\* In the pipeline the tracker does what it does alone.
LEMMA PipelineIsTracker == PipelineSpec => Spec
<1>1. PipelineInit => Init
    BY DEF PipelineInit
<1>2. [PipelineNext]_allVars => [Next]_vars
    BY DEF PipelineNext, Watch, Return, allVars, Next, LoggerStep
<1> QED
    BY <1>1, <1>2, PTL DEF PipelineSpec, Spec

\* A mint enters the book only while it is hot, however many trades came in between.
THEOREM EntersCorrect == PipelineSpec => EntersWhenHot
<1> DEFINE Enters == \A m \in Mints : m \in DOMAIN book' \ DOMAIN book => Hot(m)
<1>1. TrackerInv /\ [PipelineNext]_allVars => [Enters]_allVars
  <2> SUFFICES ASSUME TrackerInv, PipelineNext, NEW m \in Mints,
                      m \in DOMAIN book', m \notin DOMAIN book
               PROVE  Hot(m)
      OBVIOUS
  <2>1. Return
      BY DEF PipelineNext, Watch
  <2>2. lpc = "push" /\ Book!Settle
      BY <2>1 DEF Return, PrintReturn
  <2>3. m \in Published
    <3> DEFINE hot == [x \in Published |-> PriceOf(x)]
    <3>1. DOMAIN hot = Published
        OBVIOUS
    <3>2. CASE Book!Replace
      <4>1. PICK S \in SUBSET DOMAIN hot : DOMAIN book' = S
          BY <3>2 DEF Book!Replace
      <4> QED
          BY <3>1, <4>1
    <3>3. CASE Book!Skip
        BY <3>3 DEF Book!Skip
    <3>4. CASE Book!Empty
        BY <3>4 DEF Book!Empty, Book!Nothing
    <3> QED
        BY <2>2, <3>2, <3>3, <3>4 DEF Book!Settle
  <2>4. PICK s \in Rankings :
           /\ \A i \in DOMAIN HotMintsList : \E k \in 1..Top(s) :
                 HotMintsList[i].mint = s[k] /\ Hot(s[k])
      BY <2>2, PublishedFrom
  <2> QED
      BY <2>3, <2>4 DEF Published
<1>2. PipelineSpec => []TrackerInv
    BY PipelineIsTracker, TrackerCorrect, PTL
<1> QED
    BY <1>1, <1>2, PTL DEF PipelineSpec, EntersWhenHot

\* A mint leaves the book only when it is cold or TopMints others match it: a settled
\* book keeps what is published, and what is not published is one or the other.
THEOREM LeavesCorrect == PipelineSpec => LeavesWhenOutdone
<1> DEFINE Outdone(m) == Cardinality({x \in Mints \ {m} : Trades(x) >= Trades(m)}) >= TopMints
           Leaves == \A m \in Mints : m \in DOMAIN book \ DOMAIN book' /\ Hot(m) => Outdone(m)
<1>1. HotListIsTop /\ [PipelineNext]_allVars => [Leaves]_allVars
  <2> SUFFICES ASSUME HotListIsTop, PipelineNext, NEW m \in Mints,
                      m \in DOMAIN book, m \notin DOMAIN book', Hot(m)
               PROVE  Outdone(m)
      OBVIOUS
  <2>1. Return
      BY DEF PipelineNext, Watch
  <2>2. lpc = "push" /\ Book!Settle
      BY <2>1 DEF Return, PrintReturn
  <2>3. m \notin Published
    <3> DEFINE hot == [x \in Published |-> PriceOf(x)]
    <3>1. DOMAIN hot = Published
        OBVIOUS
    <3>2. CASE Book!Replace
      <4>1. PICK S \in SUBSET DOMAIN hot :
                DOMAIN hot \cap DOMAIN book \subseteq S /\ DOMAIN book' = S
          BY <3>2 DEF Book!Replace
      <4> QED
          BY <3>1, <4>1
    <3>3. CASE Book!Skip
        BY <3>3 DEF Book!Skip
    <3>4. CASE Book!Empty
        BY <3>1, <3>4 DEF Book!Empty
    <3> QED
        BY <2>2, <3>2, <3>3, <3>4 DEF Book!Settle
  <2> QED
      BY <2>2, <2>3 DEF HotListIsTop
<1>2. PipelineSpec => []HotListIsTop
    BY PipelineIsTracker, HotListCorrect, PTL
<1> QED
    BY <1>1, <1>2, PTL DEF PipelineSpec, LeavesWhenOutdone

-----------------------------------------------------------------------------
(* The book of the pipeline.                                               *)

\* The conversions of a price counted in halves give natural numbers.
LEMMA Converted ==
    ASSUME NEW half \in Nat
    PROVE  Book!Rounded(half) \in Nat /\ Book!Truncated(half) \in Nat
BY DEF Book!Rounded, Book!Truncated

\* A published mint is one of Mints, at a price that can be converted.
LEMMA PublishedPrice ==
    ASSUME TypeOK, NEW m \in Published
    PROVE  /\ m \in Mints /\ PriceOf(m) \in Nat
           /\ Book!Rounded(PriceOf(m)) \in Nat /\ Book!Truncated(PriceOf(m)) \in Nat
<1> DEFINE H == {HotMintsList[i] : i \in DOMAIN HotMintsList}
           h == CHOOSE h \in H : h.mint = m
<1>1. \A g \in H : g \in [mint: Mints, price: Nat]
  <2>1. HotMintsList \in Seq([mint: Mints, price: Nat])
      BY DEF TypeOK
  <2>2. \A i \in DOMAIN HotMintsList : HotMintsList[i] \in [mint: Mints, price: Nat]
      BY <2>1, LenProperties, ElementOfSeq
  <2> QED
      BY <2>2
<1>2. \E g \in H : g.mint = m
    BY DEF Published
<1> HIDE DEF H
<1>3. h \in H /\ h.mint = m
    BY <1>2
<1>4. PriceOf(m) = h.price
    BY DEF PriceOf, H
<1> HIDE DEF h
<1>5. m \in Mints /\ PriceOf(m) \in Nat
    BY <1>1, <1>3, <1>4
<1> QED
    BY <1>5, Converted

LEMMA PublishedNext ==
    TypeOK' => \A m \in Published' : m \in Mints /\ PriceOf(m)' \in Nat
<1>1. TypeOK => \A m \in Published : m \in Mints /\ PriceOf(m) \in Nat
    BY PublishedPrice
<1>2. (TypeOK => \A m \in Published : m \in Mints /\ PriceOf(m) \in Nat)'
    BY <1>1, PTL
<1> QED
    BY <1>2

\* Whatever PushToMaster keeps or fetches for a hot mint has its published price,
\* converted one way or the other.
LEMMA SettledEntry ==
    ASSUME TypeOK, NEW m \in Published, m \in DOMAIN book => book[m] \in Entry,
           NEW e \in Book!EntriesFor(m)
    PROVE  /\ e \in Entry
           /\ e.price \in {Book!Truncated(PriceOf(m)), Book!Rounded(PriceOf(m))}
<1> DEFINE hot == [x \in Published |-> PriceOf(x)]
<1>1. hot[m] = PriceOf(m)
    OBVIOUS
<1> HIDE DEF hot
<1>2. CASE m \in DOMAIN book
  <2>1. e = [book[m] EXCEPT !.price = Book!Rounded(hot[m])]
      BY <1>2 DEF Book!EntriesFor, Book!KeptEntry, hot
  <2> QED
      BY <1>1, <1>2, <2>1, PublishedPrice DEF Entry
<1>3. CASE m \notin DOMAIN book
  <2>1. e \in [price: {Book!Truncated(hot[m])},
               bins: UNION {[ps -> {} \cup {0}] : ps \in SUBSET Book!PoolsOfMint(m)}]
      BY <1>3 DEF Book!EntriesFor, Book!FetchedEntries, hot
  <2>2. Book!PoolsOfMint(m) = {}
      BY DEF Book!PoolsOfMint
  <2>3. e.bins = Book!Nothing
      BY <2>1, <2>2 DEF Book!Nothing
  <2> QED
      BY <1>1, <2>1, <2>3, PublishedPrice DEF Entry
<1> QED
    BY <1>2, <1>3

LEMMA PipelineStep == PipelineInv /\ [PipelineNext]_allVars => PipelineInv'
<1> SUFFICES ASSUME PipelineInv, [PipelineNext]_allVars PROVE PipelineInv'
    OBVIOUS
<1>1. [Next]_vars
    BY DEF PipelineNext, Watch, Return, allVars, Next, LoggerStep
<1>2. TrackerInv /\ TrackerInv' /\ TypeOK /\ TypeOK'
    BY <1>1, TrackerNext DEF PipelineInv, TrackerInv
<1> DEFINE Follows == /\ DOMAIN book \subseteq Mints /\ \A m \in DOMAIN book : book[m] \in Entry
                      /\ BookFollowsReport
<1> SUFFICES Follows'
    BY <1>2 DEF PipelineInv
<1>3. Follows
    BY DEF PipelineInv
<1>4. CASE UNCHANGED book /\ UNCHANGED HotMintsList /\ (lpc' # "push" => lpc # "push")
    BY <1>3, <1>4 DEF BookFollowsReport, CurrentPrice, Published, PriceOf, Entry, Book!Nothing,
                      Book!Truncated, Book!Rounded
<1>5. CASE UNCHANGED book /\ PrintHotMints
    BY <1>3, <1>5 DEF PrintHotMints, BookFollowsReport, Entry, Book!Nothing
<1>6. CASE Return
  <2> DEFINE hot == [m \in Published |-> PriceOf(m)]
             Current(m) ==
                 book'[m].price \in {Book!Truncated(PriceOf(m)), Book!Rounded(PriceOf(m))}
  <2>1. DOMAIN hot = Published /\ UNCHANGED HotMintsList
      BY <1>6 DEF Return, PrintReturn
  <2>2. Published' = Published /\ \A m : PriceOf(m)' = PriceOf(m)
      BY <2>1 DEF Published, PriceOf
  <2> HIDE DEF hot
  <2> SUFFICES /\ DOMAIN book' \subseteq Mints /\ \A m \in DOMAIN book' : book'[m] \in Entry
               /\ \/ \A m \in DOMAIN book' : m \in Published /\ Current(m)
                  \/ DOMAIN book' \cap Published = {}
      BY <2>2 DEF BookFollowsReport, CurrentPrice, Entry, Book!Nothing, Book!Truncated,
                  Book!Rounded
  <2>3. CASE Book!Replace
    <3>1. PICK S \in SUBSET Published :
              DOMAIN book' = S /\ \A m \in S : book'[m] \in Book!EntriesFor(m)
        BY <2>1, <2>3 DEF Book!Replace, hot
    <3>2. \A m \in S : book'[m] \in Entry /\ Current(m) /\ m \in Mints
        BY <1>2, <1>3, <3>1, SettledEntry, PublishedPrice
    <3> QED
        BY <3>1, <3>2
  <2>4. CASE Book!Skip
      BY <1>3, <2>1, <2>4 DEF Book!Skip, hot
  <2>5. CASE Book!Empty
      BY <2>5 DEF Book!Empty, Book!Nothing
  <2> QED
      BY <1>6, <2>3, <2>4, <2>5 DEF Return, Book!Settle
<1>7. CASE UNCHANGED allVars
    BY <1>4, <1>7 DEF allVars, vars
<1>8. CASE Watch
    BY <1>4, <1>5, <1>8 DEF Watch, Elapse, Receive, ProcessTrade, PruneOldTrades
<1> QED
    BY <1>6, <1>7, <1>8 DEF PipelineNext

\* Between reports the book and the published list do not mix: all of the book is
\* published, at the price it stands at but for the conversion, or none of it is.
THEOREM PipelineCorrect == PipelineSpec => []PipelineInv
<1>1. PipelineInit => PipelineInv
  <2> SUFFICES ASSUME PipelineInit PROVE PipelineInv
      OBVIOUS
  <2>1. TrackerInv
      BY TrackerInit DEF PipelineInit
  <2>2. DOMAIN book = {}
      BY DEF PipelineInit, Book!Nothing
  <2> QED
      BY <2>1, <2>2 DEF PipelineInv, BookFollowsReport
<1> QED
    BY <1>1, PipelineStep, PTL DEF PipelineSpec

\* The tracker drives the book only as the book expects it: a list of hot mints and
\* prices, one report at a time, and no change to the list until the book has followed.
\* The composition therefore stays within what TradeBook is proved to implement.
THEOREM DrivesBook == PipelineSpec => Book!Spec
<1>1. PipelineInit => Book!Init
  <2> SUFFICES ASSUME PipelineInit PROVE Book!Init
      OBVIOUS
  <2>1. Published = {} /\ lpc = "idle" /\ book = Book!Nothing
      BY DEF PipelineInit, Init, Published
  <2>2. [m \in Published |-> PriceOf(m)] = Book!Nothing
      BY <2>1 DEF Book!Nothing
  <2> QED
      BY <2>1, <2>2 DEF Book!Init
<1>2. PipelineInv /\ PipelineInv' /\ [PipelineNext]_allVars => [Book!Next]_(Book!vars)
  <2> SUFFICES ASSUME PipelineInv, PipelineInv', [PipelineNext]_allVars
               PROVE  [Book!Next]_(Book!vars)
      OBVIOUS
  <2>1. CASE UNCHANGED book /\ UNCHANGED HotMintsList /\ ((lpc = "push") <=> (lpc' = "push"))
    <3>1. [m \in Published |-> PriceOf(m)]' = [m \in Published |-> PriceOf(m)]
        BY <2>1 DEF Published, PriceOf
    <3>2. (lpc = "push")' = (lpc = "push")
        BY <2>1
    <3> QED
        BY <2>1, <3>1, <3>2 DEF Book!vars
  <2>2. CASE UNCHANGED book /\ PrintHotMints
    <3>1. lpc # "push" /\ lpc' = "push"
        BY <2>2 DEF PrintHotMints
    <3>2. \A m \in Published' : m \in Mints /\ PriceOf(m)' \in Nat
      <4>1. TypeOK'
          BY DEF PipelineInv, TrackerInv
      <4> QED
          BY <4>1, PublishedNext
    <3>3. [m \in Published |-> PriceOf(m)]' \in [Published' -> Nat]
        BY <3>2
    <3>4. Published' \in SUBSET Mints
        BY <3>2
    <3> QED
        BY <2>2, <3>1, <3>3, <3>4 DEF Book!Next, Book!Report
  <2>3. CASE Return
      BY <2>3 DEF Return, Book!Next
  <2>4. CASE UNCHANGED allVars
      BY <2>1, <2>4 DEF allVars, vars
  <2>5. CASE Watch
      BY <2>1, <2>2, <2>5 DEF Watch, Elapse, Receive, ProcessTrade, PruneOldTrades
  <2> QED
      BY <2>3, <2>4, <2>5 DEF PipelineNext
<1> QED
    BY <1>1, <1>2, PipelineCorrect, PTL DEF PipelineSpec, Book!Spec
===============================================================================
