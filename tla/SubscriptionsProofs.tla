------------------------- MODULE SubscriptionsProofs -------------------------
(***************************************************************************)
(* Proofs about the account subscriptions, for every set of mints, pools   *)
(* and concurrent calls.                                                   *)
(***************************************************************************)
EXTENDS Subscriptions, Lists

-----------------------------------------------------------------------------
(* The pools of a book.                                                    *)

Config == [mint: Mints, pools: Seq(Pools)]

\* The loop over a book lists pools.
LEMMA PoolsOfType ==
    ASSUME NEW b \in Seq(Config)
    PROVE  PoolsOf(b) \in Seq(Pools)
<1> DEFINE n == Len(b)
           next(q, i) == q \o b[i].pools
           turn == [i \in 1..n |-> [q \in Seq(Pools) |-> next(q, i)]]
           a == CHOOSE a : a = [i \in 0..n |-> IF i = 0 THEN <<>> ELSE next(a[i - 1], i)]
<1>1. n \in Nat /\ DOMAIN b = 1..n
    BY LenProperties
<1> HIDE DEF n
<1>2. \A i \in 1..n : \A q \in Seq(Pools) : next(q, i) \in Seq(Pools)
  <2> TAKE i \in 1..n
  <2> TAKE q \in Seq(Pools)
  <2>1. b[i] \in Config
      BY <1>1, ElementOfSeq DEF n
  <2>2. b[i].pools \in Seq(Pools)
      BY <2>1 DEF Config
  <2> QED
      BY <2>2, ConcatProperties
<1> HIDE DEF next
<1>3. turn \in [1..n -> [Seq(Pools) -> Seq(Pools)]]
    BY <1>2
<1>4. PICK f \in [0..n -> Seq(Pools)] :
          f[0] = <<>> /\ \A i \in 1..n : f[i] = turn[i][f[i - 1]]
  <2> HIDE DEF turn
  <2>1. Histories(n, Seq(Pools), <<>>, turn) # {}
      BY <1>1, <1>3, EmptySeq, Loop
  <2> QED
      BY <2>1 DEF Histories
<1>5. ASSUME NEW i \in 1..n
      PROVE  f[i] = next(f[i - 1], i)
  <2>1. i - 1 \in 0..n
      BY <1>1
  <2>2. f[i - 1] \in Seq(Pools)
      BY <2>1
  <2> QED
      BY <1>4, <2>2
<1>6. f = [i \in 0..n |-> IF i = 0 THEN <<>> ELSE next(f[i - 1], i)]
    BY <1>1, <1>4, <1>5
<1>7. a = [i \in 0..n |-> IF i = 0 THEN <<>> ELSE next(a[i - 1], i)]
    BY <1>6
<1>8. PoolsOf(b) = a[n]
    BY DEF PoolsOf, n, next
<1> HIDE DEF a, turn
<1> DEFINE P == {i \in 0..n : a[i] \in Seq(Pools)}
<1>9. 0 \in P
    BY <1>1, <1>7, EmptySeq
<1>10. ASSUME NEW i \in 1..n, i - 1 \in P
       PROVE  i \in P
  <2>1. i \in 0..n /\ a[i] = next(a[i - 1], i) /\ a[i - 1] \in Seq(Pools)
      BY <1>1, <1>7, <1>10
  <2> QED
      BY <1>2, <2>1
<1>11. n \in P
  <2> HIDE DEF P
  <2>1. 0..n \subseteq P
      BY <1>1, <1>9, <1>10, UpTo
  <2> QED
      BY <1>1, <2>1
<1> QED
    BY <1>8, <1>11

\* Some of the members of a finite set, in some order.
LEMMA Orderings ==
    ASSUME NEW S, IsFiniteSet(S), NEW s \in SetToAllKPermutations(S)
    PROVE  s \in Seq(S)
<1>1. PICK T \in SUBSET S : s \in SetToSeqs(T)
    BY DEF SetToAllKPermutations
<1>2. Cardinality(T) \in Nat
    BY FS_Subset, FS_CardinalityType
<1>3. s \in [1..Cardinality(T) -> S]
    BY <1>1 DEF SetToSeqs
<1> QED
    BY <1>2, <1>3

\* Whatever is kept and whatever is fetched, a push makes a book.
LEMMA NextBooksType == TypeOK => \A b \in NextBooks : b \in Seq(Config)
<1> SUFFICES ASSUME TypeOK, NEW b \in NextBooks
             PROVE  b \in Seq(Config)
    OBVIOUS
<1>1. \A m \in Mints : \A e \in FetchedConfigs(m) : e \in Config
  <2> TAKE m \in Mints
  <2> TAKE e \in FetchedConfigs(m)
  <2> DEFINE own == {p \in Pools : PoolMint[p] = m}
  <2>1. IsFiniteSet(own) /\ own \subseteq Pools
      BY ConstantsAssumption, FS_Subset DEF ConstantsAssumption
  <2>2. e \in [mint: {m}, pools: SetToAllKPermutations(own)]
      BY DEF FetchedConfigs
  <2> HIDE DEF own
  <2>3. e.pools \in Seq(own)
      BY <2>1, <2>2, Orderings
  <2>4. e.pools \in Seq(Pools)
      BY <2>1, <2>3, SeqMonotonic
  <2> QED
      BY <2>2, <2>4 DEF Config
<1>2. \A m \in Mints : \A e \in Entries(m) : e \in Config
  <2>1. \A i \in DOMAIN book : book[i] \in Config
      BY ElementOfSeq, LenProperties DEF TypeOK, Config
  <2> QED
      BY <1>1, <2>1 DEF Entries
<1>3. PICK ms \in SetToAllKPermutations(Mints) :
          /\ b \in [DOMAIN ms -> UNION {Entries(m) : m \in Mints}]
          /\ \A i \in DOMAIN ms : b[i] \in Entries(ms[i])
    BY DEF NextBooks
<1>4. Len(ms) \in Nat /\ DOMAIN ms = 1..Len(ms)
  <2>1. ms \in Seq(Mints)
      BY ConstantsAssumption, Orderings DEF ConstantsAssumption
  <2> QED
      BY <2>1, LenProperties
<1>5. b \in [1..Len(ms) -> Config]
    BY <1>2, <1>3, <1>4
<1> QED
    BY <1>4, <1>5

-----------------------------------------------------------------------------
(* The calls.                                                              *)

LEMMA SubInit == Init => SubInv
<1> SUFFICES ASSUME Init PROVE SubInv
    OBVIOUS
<1> USE ConstantsAssumption DEF ConstantsAssumption, Init
<1>1. TypeOK
    BY EmptySeq DEF TypeOK
<1> QED
    BY <1>1 DEF SubInv, RecordedIsServed, OnlyHolderSends, SendsMarked

\* The keys a call marks are its own, and none was marked before.
LEMMA NewKeysUnmarked == \A s : NewKeys(s) \subseteq ToSet(s) /\ NewKeys(s) \cap marked = {}
BY DEF NewKeys, ToSet

LEMMA TypeNext == SubInv /\ [Next]_vars => TypeOK'
<1> SUFFICES ASSUME SubInv, [Next]_vars PROVE TypeOK'
    OBVIOUS
<1> USE DEF SubInv, TypeOK, callVars
<1>1. <<>> \in Seq(Pools) /\ <<>> \in Seq(Config)
    BY EmptySeq
<1>2. ASSUME NEW c \in Calls, Push(c) PROVE TypeOK'
  <2>1. book' \in Seq(Config)
      BY <1>2, NextBooksType DEF Push
  <2>2. PoolsOf(book') \in Seq(Pools)
      BY <2>1, PoolsOfType
  <2> QED
      BY <1>2, <2>1, <2>2 DEF Push, Config
<1>3. ASSUME NEW c \in Calls, Mark(c) PROVE TypeOK'
  <2>1. ToSet(pda[c]) \subseteq Pools
      BY ElementOfSeq, LenProperties DEF ToSet
  <2>2. marked' \subseteq Pools
      BY <1>3, <2>1, NewKeysUnmarked DEF Mark
  <2> QED
      BY <1>1, <1>3, <2>2 DEF Mark
<1>4. ASSUME NEW c \in Calls, SendEmpty(c) PROVE TypeOK'
    BY <1>4 DEF SendEmpty
<1>5. ASSUME NEW c \in Calls, SendUpdated(c) PROVE TypeOK'
    BY <1>1, <1>5 DEF SendUpdated
<1>6. CASE Clear
    BY <1>1, <1>6 DEF Clear, Config
<1>7. CASE Break
    BY <1>7 DEF Break
<1>8. CASE UNCHANGED vars
    BY <1>8 DEF vars
<1> QED
    BY <1>2, <1>3, <1>4, <1>5, <1>6, <1>7, <1>8 DEF Next

LEMMA SubNext == SubInv /\ [Next]_vars => SubInv'
<1> SUFFICES ASSUME SubInv, [Next]_vars PROVE SubInv'
    OBVIOUS
<1>types. TypeOK'
    BY TypeNext
<1>pcs. /\ cpc \in [Calls -> {"idle", "lock", "empty", "updated"}]
       /\ pda \in [Calls -> Seq(Pools)]
    BY DEF SubInv, TypeOK
<1> DEFINE Rest == /\ sub \subseteq marked /\ filter \subseteq marked
                   /\ OnlyHolderSends /\ SendsMarked /\ RecordedIsServed
<1> SUFFICES Rest'
    BY <1>types DEF SubInv
<1>rest. Rest
    BY DEF SubInv
<1> USE <1>pcs, <1>rest DEF callVars, OnlyHolderSends, SendsMarked, RecordedIsServed, Pausing
<1>1. ASSUME NEW c \in Calls, Push(c) PROVE Rest'
    BY <1>1 DEF Push
<1>2. ASSUME NEW c \in Calls, Mark(c) PROVE Rest'
  <2>1. /\ cpc[c] = "lock" /\ holder = None
        /\ marked' = marked \cup NewKeys(pda[c])
        /\ UNCHANGED <<sub, stream, filter>>
      BY <1>2 DEF Mark
  <2>2. \A x \in Calls : x # None /\ cpc[x] \notin {"empty", "updated"}
      BY <2>1, ConstantsAssumption DEF ConstantsAssumption
  <2>3. CASE /\ NewKeys(pda[c]) = ToSet(pda[c])
             /\ holder' = c /\ cpc' = [cpc EXCEPT ![c] = "empty"] /\ UNCHANGED pda
    <3>1. ToSet(pda[c]) \cap sub = {} /\ ToSet(pda[c]) \subseteq marked'
        BY <2>1, <2>3, NewKeysUnmarked
    <3> QED
        BY <2>1, <2>2, <2>3, <3>1
  <2>4. CASE /\ cpc' = [cpc EXCEPT ![c] = "idle"]
             /\ pda' = [pda EXCEPT ![c] = <<>>] /\ UNCHANGED holder
      BY <2>1, <2>2, <2>4
  <2> QED
      BY <1>2, <2>3, <2>4 DEF Mark
<1>3. ASSUME NEW c \in Calls, SendEmpty(c) PROVE Rest'
    BY <1>3 DEF SendEmpty
<1>4. ASSUME NEW c \in Calls, SendUpdated(c) PROVE Rest'
    BY <1>4, ConstantsAssumption DEF SendUpdated, ConstantsAssumption
<1>5. CASE Clear
    BY <1>5 DEF Clear
<1>6. CASE Break
    BY <1>6 DEF Break
<1>7. CASE UNCHANGED vars
    BY <1>7 DEF vars
<1> QED
    BY <1>1, <1>2, <1>3, <1>4, <1>5, <1>6, <1>7 DEF Next

\* Only the call that has SendMutex is between its marks and its last request, what it
\* sends is marked and was not followed, and nothing is recorded or served that no call
\* marked.
THEOREM SubCorrect == Spec => []SubInv
BY SubInit, SubNext, PTL DEF Spec

\* What a worker has recorded is what the server serves, whatever breaks and
\* however many calls race, except between the two requests of a call.
THEOREM RecordedCorrect == Spec => []RecordedIsServed
<1>1. SubInv => RecordedIsServed
    BY DEF SubInv
<1> QED
    BY <1>1, SubCorrect, PTL

\* A followed pool is never dropped from the recorded subscription.
THEOREM FollowedKept == Spec => FollowedForGood
<1>1. SubInv /\ [Next]_vars => [sub \subseteq sub']_vars
  <2> SUFFICES ASSUME SubInv, Next PROVE sub \subseteq sub'
      BY DEF vars
  <2> USE DEF SubInv
  <2> QED
      BY DEF Next, Push, Mark, SendEmpty, SendUpdated, Clear, Break, callVars
<1> QED
    BY <1>1, SubCorrect, PTL DEF Spec, FollowedForGood

\* A call interrupts the account updates only if none of its pools is followed.
THEOREM PauseJustified == Spec => PauseForNewPools
<1>1. SubInv => \A c \in Calls : cpc[c] = "empty" => ToSet(pda[c]) \cap sub = {}
    BY DEF SubInv, SendsMarked
<1>2. SubInv /\ [Next]_vars =>
        [\A c \in Calls :
            cpc[c] = "empty" /\ cpc'[c] = "updated" => ToSet(pda[c]) \cap sub = {}]_vars
    BY <1>1
<1> QED
    BY <1>2, SubCorrect, PTL DEF Spec, PauseForNewPools
=============================================================================
