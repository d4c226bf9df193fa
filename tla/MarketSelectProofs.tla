-------------------------- MODULE MarketSelectProofs --------------------------
(***************************************************************************)
(* Proofs about the search for the markets of a hot mint, for every answer *)
(* of the service, every limit per kind and every failure of a request.    *)
(***************************************************************************)
EXTENDS MarketSelect, Lists

-----------------------------------------------------------------------------
(* The search keeps SelectInv.                                             *)

LEMMA LimitType ==
    ASSUME NEW k \in Kinds
    PROVE  Limit[k] \in Nat
BY ConstantsAssumption DEF ConstantsAssumption

\* Wanted is a number, and no more than the list has or the limit allows.
LEMMA WantedBounds ==
    ASSUME TypeOK, NEW k \in Kinds
    PROVE  /\ Len(mkts[k]) \in Nat /\ Len(got[k]) \in Nat
           /\ DOMAIN mkts[k] = 1..Len(mkts[k]) /\ DOMAIN got[k] = 1..Len(got[k])
           /\ Wanted(k) \in Nat /\ Wanted(k) <= Len(mkts[k]) /\ Wanted(k) <= Limit[k]
<1>1. Len(mkts[k]) \in Nat /\ Len(got[k]) \in Nat
      /\ DOMAIN mkts[k] = 1..Len(mkts[k]) /\ DOMAIN got[k] = 1..Len(got[k])
    BY LenProperties DEF TypeOK
<1> QED
    BY <1>1, LimitType DEF Wanted

LEMMA SelectInit == Init => SelectInv
<1> SUFFICES ASSUME Init PROVE SelectInv
    OBVIOUS
<1> USE DEF Init
<1>1. \A k \in Kinds : mkts[k] = <<>> /\ got[k] = <<>> /\ ToSet(mkts[k]) = {} /\ Len(got[k]) = 0
    BY EmptySeq DEF ToSet
<1>2. TypeOK
    BY <1>1, LimitType, EmptySeq DEF TypeOK, Kinds
<1>3. PassedInOrder
    BY <1>1, EmptySeq DEF PassedInOrder, Descends, Filtered
<1>4. FirstRead
    BY <1>1, <1>2, WantedBounds DEF FirstRead
<1>5. Counted
    BY DEF Counted, AskedFor, Kinds
<1> QED
    BY <1>2, <1>3, <1>4, <1>5 DEF SelectInv

\* A list of the pairs of an answer, ordered by liquidity.
LEMMA SortedAnswer ==
    ASSUME NEW S \in Answers, NEW s \in ByLiquidityQuote(S)
    PROVE  s \in Seq(Pairs) /\ Descends(s)
<1>1. S \subseteq Pairs /\ Cardinality(S) \in Nat
    BY FS_CardinalityType, ConstantsAssumption DEF ConstantsAssumption
<1>2. s \in [1..Cardinality(S) -> S] /\ \A i, j \in 1..Cardinality(S) : i # j => s[i] # s[j]
    BY DEF ByLiquidityQuote, SetToSeqs
<1>3. s \in Seq(Pairs)
    BY <1>1, <1>2, SeqDef
<1>4. Descends(s)
    BY <1>1, <1>2 DEF ByLiquidityQuote, Descends
<1> QED
    BY <1>3, <1>4

LEMMA QueryKeeps ==
    ASSUME SelectInv, Query
    PROVE  SelectInv'
<1>1. /\ pc = "query" /\ pc' \in {"filter", "pump"}
      /\ UNCHANGED <<n, mkts, got, numDex, fault>>
      /\ data = <<>>
    BY DEF Query, SelectInv, PassedInOrder
<1>2. data' \in Seq(Pairs) /\ Descends(data') /\ (pc' = "pump" => data' = <<>>)
  <2>1. CASE \E S \in Answers : data' \in ByLiquidityQuote(S) /\ pc' = "filter"
      BY <2>1, SortedAnswer
  <2>2. CASE data' = <<>> /\ pc' = "pump"
      BY <2>2, EmptySeq DEF Descends
  <2> QED
      BY <2>1, <2>2 DEF Query
<1>3. n = 1 /\ Filtered = 0 /\ Filtered' = 0
    BY <1>1, <1>2 DEF SelectInv, TypeOK, Filtered
<1>4. Len(data') \in Nat
    BY <1>2, LenProperties
<1>5. TypeOK'
    BY <1>1, <1>2, <1>3, <1>4 DEF SelectInv, TypeOK, Kinds
<1>6. PassedInOrder'
  <2>1. \A k \in Kinds : ToSet(mkts[k]) = {}
      BY <1>3 DEF SelectInv, PassedInOrder
  <2>2. \A k \in Kinds : {data'[i] : i \in {j \in 1..Filtered' :
                                 Passes(data'[j]) /\ IsKind(data'[j])[k]}} = {}
      BY <1>3
  <2>3. \A k \in Kinds : Descends(mkts[k]) /\ Len(mkts[k]) <= Filtered'
      BY <1>3 DEF SelectInv, PassedInOrder
  <2> QED
      BY <1>1, <1>2, <2>1, <2>2, <2>3 DEF PassedInOrder
<1>7. \A k \in Kinds : got[k] = <<>>
    BY <1>1 DEF SelectInv, FirstRead, AskedFor, Kinds
<1>8. FirstRead'
    BY <1>1, <1>7 DEF SelectInv, FirstRead, Wanted
<1>9. Counted'
  <2>1. numDex = 0
      BY <1>1 DEF SelectInv, Counted, AskedFor
  <2>2. AskedFor[pc'] = {} /\ Len(got.pump) + 1 = n
      BY <1>1, <1>3, <1>7, EmptySeq DEF AskedFor, Kinds
  <2> QED
      BY <1>1, <1>7, <2>1, <2>2 DEF Counted, Kinds
<1> QED
    BY <1>5, <1>6, <1>8, <1>9 DEF SelectInv

\* A turn of the filter: what it appends comes after, and lies no deeper than, the rest.
LEMMA FilterKeeps ==
    ASSUME SelectInv, Filter, fault' = fault
    PROVE  SelectInv'
<1> DEFINE e == data[n]
           fits(k) == Passes(e) /\ IsKind(e)[k]
<1>1. /\ pc = "filter" /\ n <= Len(data) /\ n' = n + 1
      /\ mkts' = [k \in Kinds |-> IF fits(k) THEN Append(mkts[k], e) ELSE mkts[k]]
      /\ UNCHANGED <<pc, data, got, numDex, fault>>
    BY ConstantsAssumption DEF Filter, Die, SelectInv, TypeOK, ConstantsAssumption
<1>2. /\ Len(data) \in Nat /\ DOMAIN data = 1..Len(data) /\ n \in 1..Len(data)
      /\ e \in Pairs
    BY <1>1, LenProperties DEF SelectInv, TypeOK
<1>3. Filtered = n - 1 /\ Filtered' = n
    BY <1>1, <1>2 DEF Filtered
<1> HIDE DEF e
<1>4. ASSUME NEW k \in Kinds
      PROVE  /\ mkts'[k] \in Seq(Pairs) /\ Descends(mkts'[k]) /\ Len(mkts'[k]) <= n
             /\ ToSet(mkts'[k]) = {data[i] : i \in {j \in 1..n :
                                                      Passes(data[j]) /\ IsKind(data[j])[k]}}
             /\ Len(mkts[k]) <= Len(mkts'[k])
             /\ \A i \in 1..Len(mkts[k]) : mkts'[k][i] = mkts[k][i]
  <2>1. /\ mkts[k] \in Seq(Pairs) /\ Descends(mkts[k]) /\ Len(mkts[k]) <= n - 1
        /\ ToSet(mkts[k]) = {data[i] : i \in {j \in 1..(n - 1) :
                                                Passes(data[j]) /\ IsKind(data[j])[k]}}
      BY <1>3 DEF SelectInv, TypeOK, PassedInOrder
  <2>2. Len(mkts[k]) \in Nat /\ DOMAIN mkts[k] = 1..Len(mkts[k])
      BY <2>1, LenProperties
  <2>3. CASE ~fits(k)
    <3>1. mkts'[k] = mkts[k]
        BY <1>1, <2>3
    <3>2. {j \in 1..n : Passes(data[j]) /\ IsKind(data[j])[k]}
            = {j \in 1..(n - 1) : Passes(data[j]) /\ IsKind(data[j])[k]}
        BY <1>2, <2>3 DEF e
    <3> QED
        BY <1>2, <2>1, <2>2, <3>1, <3>2
  <2>4. CASE fits(k)
    <3>1. mkts'[k] = Append(mkts[k], e)
        BY <1>1, <2>4
    <3>2. /\ mkts'[k] \in Seq(Pairs) /\ Len(mkts'[k]) = Len(mkts[k]) + 1
          /\ DOMAIN mkts'[k] = 1..(Len(mkts[k]) + 1)
          /\ \A i \in 1..Len(mkts[k]) : mkts'[k][i] = mkts[k][i]
          /\ mkts'[k][Len(mkts[k]) + 1] = e
        BY <1>2, <2>1, <3>1, AppendProperties, LenProperties
    <3>3. ToSet(mkts'[k]) = ToSet(mkts[k]) \cup {e}
      <4>1. ToSet(mkts'[k]) \subseteq ToSet(mkts[k]) \cup {e}
          BY <2>2, <3>2 DEF ToSet
      <4>2. ToSet(mkts[k]) \cup {e} \subseteq ToSet(mkts'[k])
          BY <2>2, <3>2 DEF ToSet
      <4> QED
          BY <4>1, <4>2
    <3>4. {j \in 1..n : Passes(data[j]) /\ IsKind(data[j])[k]}
            = {j \in 1..(n - 1) : Passes(data[j]) /\ IsKind(data[j])[k]} \cup {n}
        BY <1>2, <2>4 DEF e
    <3>5. ToSet(mkts'[k]) = {data[i] : i \in {j \in 1..n :
                                                Passes(data[j]) /\ IsKind(data[j])[k]}}
        BY <2>1, <3>3, <3>4 DEF e
    <3>6. \A x \in 1..Len(mkts[k]) : mkts[k][x] # e /\ mkts[k][x].liq >= e.liq
      <4> TAKE x \in 1..Len(mkts[k])
      <4>1. mkts[k][x] \in ToSet(mkts[k])
          BY <2>2 DEF ToSet
      <4>2. PICK i \in 1..(n - 1) : mkts[k][x] = data[i]
          BY <2>1, <4>1
      <4> QED
          BY <1>2, <4>2 DEF e, SelectInv, PassedInOrder, Descends
    <3>7. Descends(mkts'[k])
      <4> SUFFICES ASSUME NEW i \in 1..(Len(mkts[k]) + 1), NEW j \in 1..(Len(mkts[k]) + 1),
                          i < j
                   PROVE  mkts'[k][i] # mkts'[k][j] /\ mkts'[k][i].liq >= mkts'[k][j].liq
          BY <3>2 DEF Descends
      <4>1. i \in 1..Len(mkts[k]) /\ (j \in 1..Len(mkts[k]) \/ j = Len(mkts[k]) + 1)
          BY <2>2
      <4> QED
          BY <2>1, <2>2, <3>2, <3>6, <4>1 DEF Descends
    <3> QED
        BY <1>2, <2>1, <2>2, <3>2, <3>5, <3>7
  <2> QED
      BY <2>3, <2>4
<1>5. \A k \in Kinds : got[k] = <<>>
    BY <1>1 DEF SelectInv, FirstRead, AskedFor, Kinds
<1>6. TypeOK'
  <2>1. mkts' \in [Kinds -> Seq(Pairs)]
      BY <1>1, <1>4
  <2> QED
      BY <1>1, <1>2, <2>1 DEF SelectInv, TypeOK
<1>7. PassedInOrder'
    BY <1>1, <1>3, <1>4 DEF SelectInv, PassedInOrder
<1>8. FirstRead'
  <2>1. \A k \in Kinds : Wanted(k)' \in Nat
    <3> TAKE k \in Kinds
    <3>1. Len(mkts'[k]) \in Nat
        BY <1>4, LenProperties
    <3> QED
        BY <3>1, LimitType DEF Wanted
  <2> QED
      BY <1>1, <1>5, <2>1, EmptySeq DEF FirstRead
<1>9. Counted'
    BY <1>1 DEF SelectInv, Counted, AskedFor, Kinds
<1> QED
    BY <1>6, <1>7, <1>8, <1>9 DEF SelectInv

\* A step that leaves the lists as they are once the filter is done.
LEMMA SameLists ==
    ASSUME PassedInOrder, UNCHANGED <<data, mkts>>, Filtered' = Filtered, pc' # "query"
    PROVE  PassedInOrder'
<1>1. \A k \in Kinds : {data'[i] : i \in {j \in 1..Filtered' :
                             Passes(data'[j]) /\ IsKind(data'[j])[k]}}
          = {data[i] : i \in {j \in 1..Filtered : Passes(data[j]) /\ IsKind(data[j])[k]}}
    OBVIOUS
<1> QED
    BY <1>1 DEF PassedInOrder

LEMMA ReturnKeeps ==
    ASSUME SelectInv, Return, fault' = fault
    PROVE  SelectInv'
<1>1. /\ pc = "filter" /\ n > Len(data) /\ pc' = "pump" /\ n' = 1
      /\ UNCHANGED <<data, mkts, got, numDex, fault>>
    BY DEF Return, Die
<1>2. Len(data) \in Nat /\ n = Len(data) + 1
    BY <1>1, LenProperties DEF SelectInv, TypeOK
<1>3. Filtered' = Filtered
    BY <1>1, <1>2 DEF Filtered
<1>4. PassedInOrder'
    BY <1>1, <1>3, SameLists DEF SelectInv
<1>5. \A k \in Kinds : got[k] = <<>> /\ Len(got[k]) = 0
    BY <1>1, EmptySeq DEF SelectInv, FirstRead, AskedFor, Kinds
<1>6. TypeOK'
    BY <1>1, <1>2 DEF SelectInv, TypeOK, Kinds
<1>7. FirstRead'
    BY <1>1, <1>5 DEF SelectInv, FirstRead, Wanted
<1>8. Counted'
  <2>1. numDex = 0
      BY <1>1 DEF SelectInv, Counted, AskedFor
  <2>2. AskedFor[pc'] = {} /\ Len(got.pump) + 1 = n'
      BY <1>1, <1>5 DEF AskedFor, Kinds
  <2> QED
      BY <1>1, <1>5, <2>1, <2>2 DEF Counted, Kinds
<1> QED
    BY <1>4, <1>6, <1>7, <1>8 DEF SelectInv

\* One more pool is read: the next of its list.
LEMMA TakeKeeps ==
    ASSUME SelectInv, NEW k \in Kinds, Fetching(k), Take(k)
    PROVE  SelectInv'
<1>1. /\ pc = k /\ n <= Wanted(k) /\ n' = n + 1 /\ Asked(k)
      /\ got' = [got EXCEPT ![k] = Append(@, mkts[k][n])]
      /\ UNCHANGED <<pc, data, mkts, numDex, fault>>
    BY DEF Fetching, Take
<1>2. /\ n = Len(got[k]) + 1 /\ Len(got[k]) \in Nat /\ DOMAIN got[k] = 1..Len(got[k])
      /\ Len(mkts[k]) \in Nat /\ DOMAIN mkts[k] = 1..Len(mkts[k])
      /\ Wanted(k) \in Nat /\ Wanted(k) <= Len(mkts[k]) /\ Wanted(k) <= Limit[k]
    BY <1>1, WantedBounds DEF SelectInv, Counted
<1>3. got[k] \in Seq(Pairs) /\ mkts[k] \in Seq(Pairs) /\ mkts[k][n] \in Pairs
    BY <1>1, <1>2, ElementOfSeq DEF SelectInv, TypeOK
<1>4. /\ got'[k] \in Seq(Pairs) /\ Len(got'[k]) = n /\ DOMAIN got'[k] = 1..n
      /\ \A i \in 1..Len(got[k]) : got'[k][i] = got[k][i]
      /\ got'[k][n] = mkts[k][n]
  <2>1. got'[k] = Append(got[k], mkts[k][n])
      BY <1>1 DEF SelectInv, TypeOK
  <2> QED
      BY <1>2, <1>3, <2>1, AppendProperties, LenProperties
<1>5. \A x \in Kinds : x # k => got'[x] = got[x]
    BY <1>1 DEF SelectInv, TypeOK
<1>6. Filtered' = Filtered /\ Filtered = Len(data) /\ Len(data) \in Nat
    BY <1>1, LenProperties DEF Filtered, Kinds, SelectInv, TypeOK
<1>7. TypeOK'
  <2>1. n' \in 1..(Len(data) + 1)
      BY <1>1, <1>2, <1>6 DEF SelectInv, PassedInOrder
  <2>2. got' \in [Kinds -> Seq(Pairs)]
      BY <1>1, <1>4, <1>5 DEF SelectInv, TypeOK
  <2>3. \A x \in Kinds : Len(got'[x]) <= Limit[x]
    <3> TAKE x \in Kinds
    <3>1. CASE x = k
        BY <1>1, <1>2, <1>4, <3>1, LimitType
    <3>2. CASE x # k
        BY <1>5, <3>2 DEF SelectInv, TypeOK
    <3> QED
        BY <3>1, <3>2
  <2> QED
      BY <1>1, <2>1, <2>2, <2>3 DEF SelectInv, TypeOK
<1>8. PassedInOrder'
    BY <1>1, <1>6, SameLists DEF SelectInv, Kinds
<1>9. FirstRead'
  <2> SUFFICES ASSUME NEW x \in Kinds
               PROVE  /\ Len(got'[x]) <= Wanted(x)
                      /\ \A i \in DOMAIN got'[x] : got'[x][i] = mkts[x][i]
                      /\ x # pc /\ x \notin AskedFor[pc] => got'[x] = <<>>
      BY <1>1 DEF FirstRead, Wanted
  <2>1. CASE x # k
      BY <1>5, <2>1 DEF SelectInv, FirstRead
  <2>2. CASE x = k
      BY <1>1, <1>2, <1>4, <2>2 DEF SelectInv, FirstRead
  <2> QED
      BY <2>1, <2>2
<1>10. Counted'
  <2>1. k \notin AskedFor[pc]
      BY <1>1 DEF AskedFor, Kinds
  <2>2. \A x \in AskedFor[pc] : x \in Kinds /\ got'[x] = got[x]
      BY <1>1, <1>5, <2>1 DEF AskedFor, Kinds
  <2>3. \A x \in {"pump", "dlmm", "dyn", "cpmm"} : Wanted(x)' = Wanted(x)
      BY <1>1 DEF Wanted
  <2>4. pc' = k /\ n' = Len(got'[k]) + 1 /\ Asked(k)'
      BY <1>1, <1>4 DEF Asked
  <2> QED
    <3> DEFINE A == AskedFor[pc]
    <3>1. \A x \in Kinds : (IF x \in A THEN Len(got'[x]) ELSE 0)
                            = (IF x \in A THEN Len(got[x]) ELSE 0)
        BY <2>2
    <3>2. /\ "dyn" \in A => "pump" \in A /\ "dlmm" \in A
          /\ "cpmm" \in A => "pump" \in A /\ "dlmm" \in A /\ "dyn" \in A
        BY <1>1 DEF AskedFor, Kinds
    <3>3. AskedFor[pc'] = A /\ pc' = pc /\ numDex' = numDex
        BY <1>1
    <3>4. pc' \notin {"accepted", "rejected"}
        BY <1>1 DEF Kinds
    <3> HIDE DEF A
    <3>5. numDex' = (IF "pump" \in A THEN Len(got'["pump"]) ELSE 0)
                     + (IF "dlmm" \in A THEN Len(got'["dlmm"]) ELSE 0)
                     + (IF "dyn" \in A THEN Len(got'["dyn"]) ELSE 0)
                     + (IF "cpmm" \in A THEN Len(got'["cpmm"]) ELSE 0)
        BY <3>1, <3>3 DEF SelectInv, Counted, Kinds, A
    <3> QED
        BY <1>1, <2>2, <2>3, <2>4, <3>2, <3>3, <3>4, <3>5 DEF SelectInv, Counted, Asked, A
<1> QED
    BY <1>7, <1>8, <1>9, <1>10 DEF SelectInv

\* The process ends: nothing but the cause changes.
LEMMA DieKeeps ==
    ASSUME SelectInv, UNCHANGED <<pc, data, n, mkts, got, numDex>>,
           fault' \in {"none", "labels", "empty", "key", "account", "slice"}
    PROVE  SelectInv'
<1>1. TypeOK'
    BY DEF SelectInv, TypeOK
<1>2. Filtered' = Filtered /\ (pc' = "query" => data' = <<>>)
    BY DEF Filtered, SelectInv, PassedInOrder
<1>3. PassedInOrder'
  <2>1. \A k \in Kinds : {data'[i] : i \in {j \in 1..Filtered' :
                               Passes(data'[j]) /\ IsKind(data'[j])[k]}}
            = {data[i] : i \in {j \in 1..Filtered : Passes(data[j]) /\ IsKind(data[j])[k]}}
      BY <1>2
  <2> QED
      BY <1>2, <2>1 DEF SelectInv, PassedInOrder
<1>4. FirstRead'
    BY DEF SelectInv, FirstRead, Wanted
<1>5. Counted'
    BY DEF SelectInv, Counted, Wanted, Asked
<1> QED
    BY <1>1, <1>3, <1>4, <1>5 DEF SelectInv

\* The DLMM pools found are given up, before any of them was counted.
LEMMA GiveUpKeeps ==
    ASSUME SelectInv, pc = "dlmm", pc' = "dyn", n' = 1, got' = [got EXCEPT !.dlmm = <<>>],
           UNCHANGED <<data, mkts, numDex, fault>>
    PROVE  SelectInv'
<1>1. \A k \in Kinds : IF k = "dlmm" THEN got'[k] = <<>> ELSE got'[k] = got[k]
    BY DEF SelectInv, TypeOK, Kinds
<1>2. \A k \in Kinds : Wanted(k) \in Nat /\ Len(got[k]) \in Nat /\ Len(got'[k]) \in Nat
    BY <1>1, WantedBounds, EmptySeq DEF SelectInv
<1>3. Len(data) \in Nat /\ Filtered' = Filtered
    BY LenProperties DEF SelectInv, TypeOK, Filtered
<1>4. TypeOK'
  <2>1. got' \in [Kinds -> Seq(Pairs)]
      BY <1>1, EmptySeq DEF SelectInv, TypeOK
  <2>2. \A k \in Kinds : Len(got'[k]) <= Limit[k]
    <3>1. \A k \in Kinds : Len(got[k]) <= Limit[k] /\ 0 <= Limit[k]
        BY LimitType DEF SelectInv, TypeOK
    <3> QED
        BY <1>1, <3>1, EmptySeq
  <2> QED
      BY <1>3, <2>1, <2>2 DEF SelectInv, TypeOK, Kinds
<1>5. PassedInOrder'
    BY <1>3, SameLists DEF SelectInv
<1>6. FirstRead'
  <2> SUFFICES ASSUME NEW k \in Kinds
               PROVE  /\ Len(got'[k]) <= Wanted(k)
                      /\ \A i \in DOMAIN got'[k] : got'[k][i] = mkts[k][i]
                      /\ k # pc' /\ k \notin AskedFor[pc'] => got'[k] = <<>>
      BY DEF FirstRead, Wanted
  <2>1. CASE k = "dlmm"
      BY <1>1, <1>2, <2>1, EmptySeq
  <2>2. CASE k # "dlmm"
    <3>1. AskedFor[pc'] = AskedFor[pc] \cup {"dlmm"}
        BY DEF AskedFor
    <3> QED
        BY <1>1, <2>2, <3>1 DEF SelectInv, FirstRead
  <2> QED
      BY <2>1, <2>2
<1>7. Counted'
  <2>1. AskedFor["dlmm"] = {"pump"} /\ AskedFor["dyn"] = {"pump", "dlmm"}
      BY DEF AskedFor
  <2>2. got'["dyn"] = <<>> /\ Len(got'["dyn"]) = 0 /\ Len(got'["dlmm"]) = 0
        /\ got'["pump"] = got["pump"]
      BY <1>1, <2>1, EmptySeq DEF SelectInv, FirstRead, Kinds
  <2>3. numDex = Len(got["pump"]) /\ Len(got["pump"]) = Wanted("pump")
      BY <1>2, <2>1 DEF SelectInv, Counted, Kinds
  <2> QED
      BY <1>2, <2>1, <2>2, <2>3 DEF Counted, Kinds, Wanted
<1> QED
    BY <1>4, <1>5, <1>6, <1>7 DEF SelectInv

\* A kind is done when it is read as far as it is wanted, or was not asked for.
LEMMA NextKindKeeps ==
    ASSUME SelectInv, NextKind
    PROVE  SelectInv'
<1>1. /\ pc \in Kinds /\ ~Fetching(pc) /\ fault = "none" /\ n' = 1
      /\ numDex' = numDex + Len(got[pc])
      /\ pc' = IF pc # "cpmm" THEN After[pc] ELSE IF numDex' > 1 THEN "accepted" ELSE "rejected"
      /\ UNCHANGED <<data, mkts, got, fault>>
    BY DEF NextKind
<1>2. /\ pc' \in {"dlmm", "dyn", "cpmm", "accepted", "rejected"}
      /\ AskedFor[pc'] = AskedFor[pc] \cup {pc}
    BY <1>1 DEF Kinds, After, AskedFor
<1>3. \A k \in Kinds : Wanted(k) \in Nat /\ Len(got[k]) \in Nat /\ Wanted(k)' = Wanted(k)
    BY <1>1, WantedBounds DEF SelectInv, Wanted
<1>4. (Asked(pc) => Len(got[pc]) = Wanted(pc)) /\ (~Asked(pc) => got[pc] = <<>>)
  <2>1. Asked(pc) => n > Wanted(pc)
      BY <1>1, <1>3 DEF Fetching, SelectInv, TypeOK
  <2>2. n = Len(got[pc]) + 1 /\ (~Asked(pc) => got[pc] = <<>>)
      BY <1>1 DEF SelectInv, Counted
  <2>3. Len(got[pc]) <= Wanted(pc)
      BY <1>1 DEF SelectInv, FirstRead
  <2> QED
      BY <1>1, <1>3, <2>1, <2>2, <2>3
<1>5. Len(data) \in Nat /\ Filtered' = Filtered
    BY <1>1, <1>2, LenProperties DEF SelectInv, TypeOK, Filtered, Kinds
<1>6. TypeOK'
  <2>1. numDex' \in Nat /\ n' \in 1..(Len(data) + 1)
      BY <1>1, <1>3, <1>5 DEF SelectInv, TypeOK
  <2>2. pc' \in Kinds \cup {"query", "filter", "accepted", "rejected"}
      BY <1>2 DEF Kinds
  <2> QED
      BY <1>1, <2>1, <2>2 DEF SelectInv, TypeOK
<1>7. PassedInOrder'
    BY <1>1, <1>2, <1>5, SameLists DEF SelectInv
<1>8. FirstRead'
    BY <1>1, <1>2, <1>3 DEF SelectInv, FirstRead
<1>9. Counted'
  <2> DEFINE P == Len(got["pump"])
             D == Len(got["dlmm"])
             Y == Len(got["dyn"])
             C == Len(got["cpmm"])
  <2>1. \A k \in Kinds : k \notin AskedFor[pc] /\ k # pc => got[k] = <<>> /\ Len(got[k]) = 0
      BY EmptySeq DEF SelectInv, FirstRead
  <2>2. P \in Nat /\ D \in Nat /\ Y \in Nat /\ C \in Nat
      BY <1>3 DEF Kinds
  <2>3. /\ Wanted("pump")' = Wanted("pump") /\ Wanted("dyn")' = Wanted("dyn")
        /\ Wanted("cpmm")' = Wanted("cpmm")
      BY <1>3 DEF Kinds
  <2>4. /\ pc = "pump" => AskedFor[pc] = {} /\ pc' = "dlmm"
        /\ pc = "dlmm" => AskedFor[pc] = {"pump"} /\ pc' = "dyn"
        /\ pc = "dyn" => AskedFor[pc] = {"pump", "dlmm"} /\ pc' = "cpmm"
        /\ pc = "cpmm" => /\ AskedFor[pc] = {"pump", "dlmm", "dyn"}
                          /\ pc' \in {"accepted", "rejected"}
      BY <1>1 DEF AskedFor, After
  <2>5. numDex = (IF "pump" \in AskedFor[pc] THEN P ELSE 0)
                 + (IF "dlmm" \in AskedFor[pc] THEN D ELSE 0)
                 + (IF "dyn" \in AskedFor[pc] THEN Y ELSE 0)
                 + (IF "cpmm" \in AskedFor[pc] THEN C ELSE 0)
      BY DEF SelectInv, Counted
  <2>6. /\ pc = "pump" => numDex' = P
        /\ pc = "dlmm" => numDex' = P + D
        /\ pc = "dyn" => numDex = P + D /\ numDex' = P + D + Y
        /\ pc = "cpmm" => numDex = P + D + Y /\ numDex' = P + D + Y + C
    <3>1. CASE pc = "pump"
      <4>1. numDex = 0 + 0 + 0 + 0 /\ numDex' = numDex + P
          BY <1>1, <2>4, <2>5, <3>1
      <4> QED
          BY <2>2, <3>1, <4>1
    <3>2. CASE pc = "dlmm"
      <4>1. numDex = P + 0 + 0 + 0 /\ numDex' = numDex + D
          BY <1>1, <2>4, <2>5, <3>2
      <4> QED
          BY <2>2, <3>2, <4>1
    <3>3. CASE pc = "dyn"
      <4>1. numDex = P + D + 0 + 0 /\ numDex' = numDex + Y
          BY <1>1, <2>4, <2>5, <3>3
      <4> QED
          BY <2>2, <3>3, <4>1
    <3>4. CASE pc = "cpmm"
      <4>1. numDex = P + D + Y + 0 /\ numDex' = numDex + C
          BY <1>1, <2>4, <2>5, <3>4
      <4> QED
          BY <2>2, <3>4, <4>1
    <3> QED
        BY <3>1, <3>2, <3>3, <3>4
  <2>7. numDex' = (IF "pump" \in AskedFor[pc'] THEN P ELSE 0)
                  + (IF "dlmm" \in AskedFor[pc'] THEN D ELSE 0)
                  + (IF "dyn" \in AskedFor[pc'] THEN Y ELSE 0)
                  + (IF "cpmm" \in AskedFor[pc'] THEN C ELSE 0)
    <3>1. CASE pc = "pump"
      <4>1. AskedFor[pc'] = {"pump"}
          BY <1>2, <2>4, <3>1
      <4> QED
          BY <2>2, <2>6, <3>1, <4>1
    <3>2. CASE pc = "dlmm"
      <4>1. AskedFor[pc'] = {"pump", "dlmm"}
          BY <1>2, <2>4, <3>2
      <4> QED
          BY <2>2, <2>6, <3>2, <4>1
    <3>3. CASE pc = "dyn"
      <4>1. AskedFor[pc'] = {"pump", "dlmm", "dyn"}
          BY <1>2, <2>4, <3>3
      <4> QED
          BY <2>2, <2>6, <3>3, <4>1
    <3>4. CASE pc = "cpmm"
      <4>1. AskedFor[pc'] = {"pump", "dlmm", "dyn", "cpmm"}
          BY <1>2, <2>4, <3>4
      <4> QED
          BY <2>2, <2>6, <3>4, <4>1
    <3> QED
        BY <1>1, <3>1, <3>2, <3>3, <3>4 DEF Kinds
  <2>8. pc' \in Kinds => got[pc'] = <<>> /\ n' = Len(got[pc']) + 1
      BY <1>1, <2>1, <2>4 DEF Kinds
  <2>9. /\ Asked("pump") /\ Asked("dlmm")
        /\ Asked("dyn") <=> numDex < 2
        /\ Asked("cpmm") <=> numDex < 2
      BY DEF Asked
  <2>10. "pump" \in AskedFor[pc'] => P = Wanted("pump")
      BY <1>1, <1>2, <1>4, <2>4, <2>9 DEF SelectInv, Counted, Kinds
  <2>11. "dyn" \in AskedFor[pc'] /\ P + D < 2 => Y = Wanted("dyn")
      BY <1>1, <1>2, <1>4, <2>2, <2>4, <2>6, <2>9 DEF SelectInv, Counted, Kinds
  <2>12. "cpmm" \in AskedFor[pc'] /\ P + D + Y < 2 => C = Wanted("cpmm")
      BY <1>1, <1>2, <1>4, <2>2, <2>4, <2>6, <2>9 DEF SelectInv, Counted, Kinds
  <2>13. (pc' = "accepted" => numDex' > 1) /\ (pc' = "rejected" => numDex' <= 1)
      BY <1>1, <2>2, <2>4, <2>6 DEF Kinds
  <2> QED
      BY <1>1, <2>3, <2>7, <2>8, <2>10, <2>11, <2>12, <2>13 DEF Counted
<1> QED
    BY <1>6, <1>7, <1>8, <1>9 DEF SelectInv

\* Every step of the search keeps the invariant.
LEMMA SelectNext == SelectInv /\ [Next]_vars => SelectInv'
<1> SUFFICES ASSUME SelectInv, [Next]_vars
             PROVE  SelectInv'
    OBVIOUS
<1>1. CASE Query
    BY <1>1, QueryKeeps
<1>2. ASSUME NEW what \in {"labels", "empty", "key", "account", "slice"}, Die(what)
      PROVE  SelectInv'
    BY <1>2, DieKeeps DEF Die
<1>3. CASE Filter
  <2>1. CASE fault' = fault
      BY <1>3, <2>1, FilterKeeps
  <2>2. CASE fault' # fault
      BY <1>2, <1>3, <2>2 DEF Filter
  <2> QED
      BY <2>1, <2>2
<1>4. CASE Return
  <2>1. CASE fault' = fault
      BY <1>4, <2>1, ReturnKeeps
  <2>2. CASE fault' # fault
      BY <1>2, <1>4, <2>2 DEF Return
  <2> QED
      BY <2>1, <2>2
<1>5. CASE FetchPump
    BY <1>2, <1>5, TakeKeeps DEF FetchPump, Kinds
<1>6. CASE FetchDLMM
  <2>1. CASE Take("dlmm")
      BY <1>6, <2>1, TakeKeeps DEF FetchDLMM, Kinds
  <2>2. CASE Die("key") \/ Die("account")
      BY <1>2, <2>2
  <2>3. CASE /\ pc' = "dyn" /\ n' = 1
             /\ got' = [got EXCEPT !.dlmm = <<>>]
             /\ UNCHANGED <<data, mkts, numDex, fault>>
      BY <1>6, <2>3, GiveUpKeeps DEF FetchDLMM, Fetching
  <2> QED
      BY <1>6, <2>1, <2>2, <2>3 DEF FetchDLMM
<1>7. CASE FetchFallback
    BY <1>2, <1>7, TakeKeeps DEF FetchFallback, Kinds
<1>8. CASE NextKind
    BY <1>8, NextKindKeeps
<1>9. CASE UNCHANGED vars
    BY <1>9, DieKeeps DEF vars, SelectInv, TypeOK
<1> QED
    BY <1>1, <1>3, <1>4, <1>5, <1>6, <1>7, <1>8, <1>9 DEF Next

\* The search keeps its types, its lists and its count of pools: a list holds what
\* passed the filter, deepest first, and the pools read are the first of it.
THEOREM SelectCorrect == Spec => []SelectInv
<1> QED
    BY SelectInit, SelectNext, PTL DEF Spec

-----------------------------------------------------------------------------
(* What it finds.                                                          *)

\* Once the filter is done a kind's list is what the answer offers of that kind, so
\* what is wanted of it is what the answer offers.
LEMMA OfferedWanted ==
    ASSUME SelectInv, pc # "filter", NEW k \in Kinds
    PROVE  Eligible(k) = ToSet(mkts[k]) /\ Offered(k) = Wanted(k)
<1>1. DOMAIN data = 1..Len(data) /\ Filtered = Len(data)
    BY LenProperties DEF SelectInv, TypeOK, Filtered
<1>2. ToSet(mkts[k]) = {data[i] : i \in {j \in 1..Len(data) :
                                           Passes(data[j]) /\ IsKind(data[j])[k]}}
    BY <1>1 DEF SelectInv, PassedInOrder
<1>3. Eligible(k) = ToSet(mkts[k])
  <2>1. ASSUME NEW e \in Eligible(k)
        PROVE  e \in ToSet(mkts[k])
    <3>1. PICK i \in 1..Len(data) : e = data[i]
        BY <1>1, <2>1 DEF Eligible, ToSet
    <3>2. Passes(data[i]) /\ IsKind(data[i])[k]
        BY <2>1, <3>1 DEF Eligible
    <3> QED
        BY <1>2, <3>1, <3>2
  <2>2. ASSUME NEW e \in ToSet(mkts[k])
        PROVE  e \in Eligible(k)
    <3>1. PICK i \in 1..Len(data) : e = data[i] /\ Passes(data[i]) /\ IsKind(data[i])[k]
        BY <1>2, <2>2
    <3>2. e \in ToSet(data)
        BY <1>1, <3>1 DEF ToSet
    <3> QED
        BY <3>1, <3>2 DEF Eligible
  <2> QED
      BY <2>1, <2>2
<1>4. Cardinality(ToSet(mkts[k])) = Len(mkts[k])
  <2>1. mkts[k] \in Seq(Pairs) /\ Descends(mkts[k]) /\ DOMAIN mkts[k] = 1..Len(mkts[k])
        /\ Len(mkts[k]) \in Nat
      BY WantedBounds DEF SelectInv, TypeOK, PassedInOrder
  <2>2. \A i, j \in 1..Len(mkts[k]) : i # j => mkts[k][i] # mkts[k][j]
    <3> SUFFICES ASSUME NEW i \in 1..Len(mkts[k]), NEW j \in 1..Len(mkts[k]), i # j
                 PROVE  mkts[k][i] # mkts[k][j]
        OBVIOUS
    <3>1. i < j \/ j < i
        BY <2>1
    <3> QED
        BY <2>1, <3>1 DEF Descends
  <2> QED
      BY <2>1, <2>2, DistinctCount
<1> QED
    BY <1>3, <1>4 DEF Offered, Wanted

\* Asking for the kinds one by one and stopping early does not change the decision.
THEOREM EnoughCorrect == Spec => []EnoughMarkets
<1>1. SelectInv => EnoughMarkets
  <2> SUFFICES ASSUME SelectInv, pc \in {"accepted", "rejected"}
               PROVE  pc = "accepted" <=> Offered("pump") + Len(got.dlmm) + Offered("dyn")
                                            + Offered("cpmm") >= 2
      BY DEF EnoughMarkets
  <2> DEFINE P == Len(got["pump"])
             D == Len(got["dlmm"])
             Y == Len(got["dyn"])
             C == Len(got["cpmm"])
  <2>1. /\ Offered("pump") = Wanted("pump") /\ Offered("dyn") = Wanted("dyn")
        /\ Offered("cpmm") = Wanted("cpmm")
      BY OfferedWanted DEF Kinds
  <2>2. /\ P \in Nat /\ D \in Nat /\ Y \in Nat /\ C \in Nat
        /\ Wanted("dyn") \in Nat /\ Wanted("cpmm") \in Nat
      BY WantedBounds DEF SelectInv, Kinds
  <2>3. AskedFor[pc] = Kinds
      BY DEF AskedFor
  <2>4. /\ numDex = P + D + Y + C /\ P = Wanted("pump")
        /\ P + D < 2 => Y = Wanted("dyn")
        /\ P + D + Y < 2 => C = Wanted("cpmm")
        /\ pc = "accepted" => numDex > 1
        /\ pc = "rejected" => numDex <= 1
      BY <2>3 DEF SelectInv, Counted, Kinds
  <2>5. Y <= Wanted("dyn") /\ C <= Wanted("cpmm")
      BY DEF SelectInv, FirstRead, Kinds
  <2> HIDE DEF P, D, Y, C
  <2>6. CASE pc = "accepted"
    <3>1. Wanted("pump") + D + Wanted("dyn") + Wanted("cpmm") >= 2
        BY <2>2, <2>4, <2>5, <2>6
    <3> QED
        BY <2>1, <2>6, <3>1 DEF D
  <2>7. CASE pc = "rejected"
    <3>1. ~(Wanted("pump") + D + Wanted("dyn") + Wanted("cpmm") >= 2)
        BY <2>2, <2>4, <2>7
    <3> QED
        BY <2>1, <2>7, <3>1 DEF D
  <2> QED
      BY <2>6, <2>7
<1> QED
    BY <1>1, SelectCorrect, PTL

\* No pool is read while a deeper one of its kind is left out.
THEOREM DeepestCorrect == Spec => []DeepestFirst
<1>1. SelectInv => DeepestFirst
  <2> SUFFICES ASSUME SelectInv, pc \notin {"query", "filter"}, NEW k \in Kinds,
                      NEW e \in ToSet(got[k]) \cup (IF Fetching(k) THEN {mkts[k][n]} ELSE {}),
                      NEW f \in Eligible(k),
                      f \notin ToSet(got[k]) \cup (IF Fetching(k) THEN {mkts[k][n]} ELSE {})
               PROVE  e.liq >= f.liq
      BY DEF DeepestFirst
  <2> DEFINE m == IF Fetching(k) THEN n ELSE Len(got[k])
  <2>1. /\ Len(got[k]) \in Nat /\ DOMAIN got[k] = 1..Len(got[k])
        /\ Len(mkts[k]) \in Nat /\ DOMAIN mkts[k] = 1..Len(mkts[k])
        /\ Wanted(k) \in Nat /\ Wanted(k) <= Len(mkts[k])
      BY WantedBounds DEF SelectInv
  <2>2. Fetching(k) => n = Len(got[k]) + 1 /\ n <= Len(mkts[k])
      BY <2>1 DEF Fetching, SelectInv, Counted
  <2>3. \A i \in 1..Len(got[k]) : i \in 1..Len(mkts[k]) /\ got[k][i] = mkts[k][i]
      BY <2>1 DEF SelectInv, FirstRead
  <2>4. m \in 0..Len(mkts[k])
      BY <2>1, <2>2 DEF SelectInv, FirstRead
  <2>5. ToSet(got[k]) \cup (IF Fetching(k) THEN {mkts[k][n]} ELSE {}) = {mkts[k][i] : i \in 1..m}
    <3>1. ToSet(got[k]) = {mkts[k][i] : i \in 1..Len(got[k])}
        BY <2>1, <2>3 DEF ToSet
    <3>2. CASE Fetching(k)
      <4>1. 1..m = 1..Len(got[k]) \cup {n}
          BY <2>1, <2>2, <3>2
      <4> QED
          BY <3>1, <3>2, <4>1
    <3>3. CASE ~Fetching(k)
        BY <3>1, <3>3
    <3> QED
        BY <3>2, <3>3
  <2> HIDE DEF m
  <2>6. PICK i \in 1..m : e = mkts[k][i]
      BY <2>5
  <2>7. PICK j \in 1..Len(mkts[k]) : f = mkts[k][j]
      BY <2>1, OfferedWanted DEF ToSet
  <2>8. i < j
      BY <2>4, <2>5, <2>7
  <2> QED
      BY <2>1, <2>4, <2>6, <2>7, <2>8 DEF SelectInv, PassedInOrder, Descends
<1> QED
    BY <1>1, SelectCorrect, PTL
=============================================================================
