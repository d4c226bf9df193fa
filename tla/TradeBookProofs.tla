--------------------------- MODULE TradeBookProofs ---------------------------
(***************************************************************************)
(* Proofs about the shared list of trade configurations, for every set of  *)
(* mints, pools, bins, prices, updaters and senders.                       *)
(***************************************************************************)
EXTENDS TradeBook, SequenceTheorems, TLAPS

-----------------------------------------------------------------------------
(* The bin-array window.                                                   *)

\* FloorDiv, which corrects Go's truncated quotient, is the floor of the
\* division by the size of a bin array.
LEMMA FloorDivFloors ==
    ASSUME NEW a \in Int
    PROVE  FloorDiv(a, ArraySize) = a \div ArraySize
BY DEF FloorDiv, TruncDiv, TruncMod, ArraySize

\* GetSurroundingBinPDAs returns the array that holds the active bin and its
\* two neighbours.
THEOREM WindowAroundBin ==
    ASSUME NEW a \in Int
    PROVE  SurroundingArrays(a) = {(a \div ArraySize) + d : d \in {-1, 0, 1}}
<1> DEFINE q == a \div ArraySize
<1>1. q \in Int
    BY DEF ArraySize
<1>2. SurroundingArrays(a) = (q - 1)..(q + 1)
    BY FloorDivFloors DEF SurroundingArrays
<1> HIDE DEF q
<1>3. (q - 1)..(q + 1) = {q + d : d \in {-1, 0, 1}}
    BY <1>1
<1> QED
    BY <1>2, <1>3 DEF q

LEMMA FreshTripleType ==
    ASSUME NEW b \in Int
    PROVE  FreshTriple(b) \in Triple
<1>1. b \div ArraySize \in Int
    BY DEF ArraySize
<1> QED
    BY <1>1, FloorDivFloors DEF FreshTriple, Triple, SurroundingArrays

-----------------------------------------------------------------------------
(* Type correctness.                                                       *)

LEMMA HotListType == HotLists \subseteq Seq(HotMint)
<1> SUFFICES ASSUME NEW n \in 0..3, NEW s \in [1..n -> HotMint]
             PROVE  s \in Seq(HotMint)
    BY DEF HotLists
<1> n \in Nat
    OBVIOUS
<1> QED
    BY SeqDef

LEMMA HeaderType ==
    ASSUME configs \in Seq(Config), NEW h \in HeaderSeen
    PROVE  h \in Seq(Config)
BY EmptySeq DEF HeaderSeen

LEMMA SeqElement ==
    ASSUME NEW S, NEW s \in Seq(S), NEW i \in DOMAIN s
    PROVE  s[i] \in S
OBVIOUS

LEMMA FetchedBinType ==
    ASSUME NEW ps, NEW bin \in [ps -> Bins \cup {0}], NEW p \in ps
    PROVE  bin[p] \in Int
<1>1. bin[p] \in Bins \cup {0}
    OBVIOUS
<1>2. Bins \subseteq Int
    BY ConstantsAssumption DEF ConstantsAssumption
<1>3. Bins \cup {0} \subseteq Int
    BY <1>2
<1> QED
    BY <1>1, <1>3

LEMMA TypeInit == Init => TypeOK
<1> SUFFICES ASSUME Init PROVE TypeOK
    OBVIOUS
<1> USE DEF Init
<1>1. heap \in [Refs -> [Pools -> Triple]]
    BY DEF Zero, Triple
<1>2. msg \in [Updaters -> [pool: Pools \cup {None}, bin: Int]]
    BY DEF NoMsg
<1>3. history \in [Mints -> Seq(Int)]
    BY EmptySeq
<1>4. configs \in Seq(Config) /\ hot \in Seq(HotMint) /\ new \in Seq(Config)
      /\ todo \in Seq(Config)
    BY EmptySeq
<1>5. /\ cfg \in [Senders -> Config \cup {Idle}]
      /\ \A s \in Senders : spc[s] # "idle" => cfg[s] \in Config
      /\ read \in [Senders -> [Pools -> SUBSET Int]]
      /\ seen \in [Pools -> SUBSET (Bins \cup {0})]
    OBVIOUS
<1>6. /\ upc \in [Updaters -> {"unborn", "lock", "walk", "done"}]
      /\ at \in [Updaters -> Nat \ {0}] /\ len \in [Updaters -> Nat]
      /\ spc \in [Senders -> {"idle", "check", "build"}]
    OBVIOUS
<1>7. /\ fault \in {"none", "fetch", "short", "index", "jitter", "send"}
      /\ lpc \in {"idle", "lock", "push", "clear", "clearing", "flag"}
      /\ mu \in {None, Logger} \cup Updaters
      /\ k \in Nat \ {0}
    OBVIOUS
<1>8. tradeActive \in BOOLEAN
    BY Zenon
<1> HIDE DEF Init
<1> QED
    BY <1>1, <1>2, <1>3, <1>4, <1>5, <1>6, <1>7, <1>8 DEF TypeOK

\* A hot price, counted in halves, rounds to a number.
LEMMA RoundedPrice ==
    ASSUME NEW h \in HotMint
    PROVE  h.price \in Nat /\ Rounded(h.price) \in Nat
<1>1. h.price \in Nat
    BY ConstantsAssumption DEF ConstantsAssumption, HotMint
<1> QED
    BY <1>1 DEF Rounded

\* Every step keeps the types.
LEMMA TypeNext ==
    ASSUME TypeOK, [Next]_vars
    PROVE  TypeOK'
<1> USE DEF TypeOK, bookVars, loggerVars, updaterVars, senderVars
<1>1. CASE Publish
    BY <1>1, HotListType DEF Publish
<1>2. CASE PushLock
    BY <1>2 DEF PushLock
<1>3. CASE PushKeep
  <2> PICK i \in DOMAIN configs :
        /\ configs' = [configs EXCEPT ![i] = Repriced(@, hot[k])]
        /\ new' = Append(new, Repriced(configs[i], hot[k]))
      BY <1>3 DEF PushKeep
  <2>1. configs[i] \in Config /\ hot[k] \in HotMint
      BY <1>3 DEF PushKeep
  <2>2. Repriced(configs[i], hot[k]) \in Config
    <3>1. Rounded(hot[k].price) \in Nat
        BY <2>1, RoundedPrice
    <3> QED
        BY <2>1, <3>1 DEF Repriced, Config
  <2> HIDE DEF TypeOK
  <2>3. configs' \in Seq(Config) /\ new' \in Seq(Config)
      BY <2>2, ExceptSeq, AppendProperties DEF TypeOK
  <2> QED
      BY <1>3, <2>3 DEF PushKeep, TypeOK
<1>4. CASE PushFetch
  <2> PICK ps \in SUBSET {p \in Pools : PoolMint[p] = hot[k].mint} :
        \E bin \in [ps -> Bins \cup {0}], r \in IF ps = {} THEN {None} ELSE FreeRefs :
            /\ new' = Append(new, Fetched(hot[k], r, ps))
            /\ heap' = [x \in Refs |->
                   IF x = r THEN FetchedPools(ps, bin)
                   ELSE IF x \in FreeRefs THEN [p \in Pools |-> Zero] ELSE heap[x]]
            /\ seen' = [p \in Pools |->
                   IF p \in ps THEN seen[p] \cup {bin[p]} ELSE seen[p]]
      BY <1>4 DEF PushFetch
  <2> PICK bin \in [ps -> Bins \cup {0}], r \in IF ps = {} THEN {None} ELSE FreeRefs :
            /\ new' = Append(new, Fetched(hot[k], r, ps))
            /\ heap' = [x \in Refs |->
                   IF x = r THEN FetchedPools(ps, bin)
                   ELSE IF x \in FreeRefs THEN [p \in Pools |-> Zero] ELSE heap[x]]
            /\ seen' = [p \in Pools |->
                   IF p \in ps THEN seen[p] \cup {bin[p]} ELSE seen[p]]
      OBVIOUS
  <2>1. hot[k] \in HotMint
      BY <1>4 DEF PushFetch
  <2>2. Fetched(hot[k], r, ps) \in Config
    <3>1. Truncated(hot[k].price) \in Nat
      <4>1. hot[k].price \in Nat
          BY <2>1, RoundedPrice
      <4> QED
          BY <4>1 DEF Truncated
    <3>2. r \in Refs \cup {None} /\ (ps # {} => r \in Refs)
        BY DEF FreeRefs
    <3> QED
        BY <2>1, <3>1, <3>2 DEF Config, HotMint, Fetched
  <2> HIDE DEF TypeOK
  <2>3. new' \in Seq(Config)
      BY <2>2, AppendProperties DEF TypeOK
  <2>4. heap' \in [Refs -> [Pools -> Triple]]
    <3>1. \A p \in ps : FreshTriple(bin[p]) \in Triple
        BY FetchedBinType, FreshTripleType
    <3>2. Zero \in Triple /\ heap \in [Refs -> [Pools -> Triple]]
        BY DEF Zero, Triple, TypeOK
    <3> QED
        BY <3>1, <3>2 DEF FetchedPools
  <2>5. seen' \in [Pools -> SUBSET (Bins \cup {0})]
      BY DEF TypeOK
  <2> QED
      BY <1>4, <2>3, <2>4, <2>5 DEF PushFetch, TypeOK
<1>5. CASE PushFail
    BY <1>5 DEF PushFail
<1>6. CASE PushCommit
    BY <1>6 DEF PushCommit
<1>7. CASE ClearBegin
    BY <1>7 DEF ClearBegin
<1>8. CASE ClearEnd
    BY <1>8 DEF ClearEnd
<1>9. CASE ClearFlag
    BY <1>9 DEF ClearFlag
<1>10. ASSUME NEW u \in Updaters, Deliver(u) PROVE TypeOK'
  <2>1. CASE fault' = "short" /\ UNCHANGED <<upc, msg, seen>>
      BY <1>10, <2>1 DEF Deliver
  <2>2. ASSUME NEW p \in Pools, NEW b \in Bins,
               msg' = [msg EXCEPT ![u] = [pool |-> p, bin |-> b]],
               seen' = [seen EXCEPT ![p] = @ \cup {b}],
               upc' = [upc EXCEPT ![u] = "lock"], UNCHANGED fault
        PROVE  TypeOK'
    <3>1. b \in Int
        BY ConstantsAssumption DEF ConstantsAssumption
    <3>2. msg' \in [Updaters -> [pool: Pools \cup {None}, bin: Int]]
        BY <2>2, <3>1
    <3>3. seen' \in [Pools -> SUBSET (Bins \cup {0})]
        BY <2>2
    <3> QED
        BY <1>10, <2>2, <3>2, <3>3 DEF Deliver
  <2> QED
      BY <1>10, <2>1, <2>2 DEF Deliver
<1>11. ASSUME NEW u \in Updaters, UpdateLock(u) PROVE TypeOK'
  <2> PICK h \in HeaderSeen : len' = [len EXCEPT ![u] = Len(h)]
      BY <1>11 DEF UpdateLock
  <2>1. Len(h) \in Nat
      BY HeaderType, LenProperties
  <2> QED
      BY <1>11, <2>1 DEF UpdateLock
<1>12. ASSUME NEW u \in Updaters, UpdateVisit(u) PROVE TypeOK'
  <2> PICK h \in HeaderSeen :
        /\ at[u] \in DOMAIN h
        /\ LET c == h[at[u]]
               hit == Moved(c, msg[u])
           IN  /\ heap' = [r \in Refs |-> [p \in Pools |->
                      IF r = c.ref /\ p \in hit THEN FreshTriple(msg[u].bin)
                                                 ELSE heap[r][p]]]
               /\ history' = IF hit = {} THEN history
                             ELSE [history EXCEPT ![c.mint] = Append(@, msg[u].bin)]
      BY <1>12 DEF UpdateVisit
  <2>1. msg[u].bin \in Int
      OBVIOUS
  <2>2. h[at[u]] \in Config
      BY HeaderType, SeqElement
  <2> DEFINE mint == h[at[u]].mint
  <2>3. mint \in Mints
      BY <2>2 DEF Config
  <2> HIDE DEF mint
  <2>4. Append(history[mint], msg[u].bin) \in Seq(Int)
      BY <2>1, <2>3
  <2>5. history' \in [Mints -> Seq(Int)]
      BY <2>3, <2>4 DEF mint
  <2>6. heap' \in [Refs -> [Pools -> Triple]]
    <3> DEFINE hit == Moved(h[at[u]], msg[u])
    <3>1. heap' = [x \in Refs |-> [p \in Pools |->
             IF x = h[at[u]].ref /\ p \in hit THEN FreshTriple(msg[u].bin)
             ELSE heap[x][p]]]
        OBVIOUS
    <3>2. FreshTriple(msg[u].bin) \in Triple
        BY <2>1, FreshTripleType
    <3> HIDE DEF hit
    <3> QED
        BY <3>1, <3>2
  <2> QED
      BY <1>12, <2>5, <2>6 DEF UpdateVisit
<1>13. ASSUME NEW u \in Updaters, UpdatePanic(u) PROVE TypeOK'
    BY <1>13 DEF UpdatePanic
<1>14. ASSUME NEW u \in Updaters, UpdateReturn(u) PROVE TypeOK'
    BY <1>14 DEF UpdateReturn, NoMsg
<1>15. CASE Snapshot
    BY <1>15, HeaderType DEF Snapshot
<1>16. ASSUME NEW s \in Senders, Spawn(s) PROVE TypeOK'
  <2>1. Head(todo) \in Config /\ Tail(todo) \in Seq(Config)
      BY <1>16, HeadTailProperties DEF Spawn
  <2> QED
      BY <1>16, <2>1 DEF Spawn
<1>17. ASSUME NEW s \in Senders, Check(s) PROVE TypeOK'
  <2> DEFINE mint == cfg[s].mint
             kept(drop) == SubSeq(history[mint], drop + 1, Len(history[mint]))
  <2>1. mint \in Mints
      BY <1>17 DEF Check, Config
  <2>2. PICK drop \in 0..Len(history[mint]) :
          /\ history' = [history EXCEPT ![mint] = kept(drop)]
          /\ \/ spc' = [spc EXCEPT ![s] = "build"] /\ cfg' = cfg
             \/ spc' = [spc EXCEPT ![s] = "idle"] /\ cfg' = [cfg EXCEPT ![s] = Idle]
      BY <1>17 DEF Check
  <2> HIDE DEF mint
  <2>3. kept(drop) \in Seq(Int)
    <3>1. history[mint] \in Seq(Int) /\ Len(history[mint]) \in Nat
        BY <2>1, LenProperties
    <3>2. \A i \in (drop + 1)..Len(history[mint]) : history[mint][i] \in Int
        BY <3>1, LenProperties
    <3> QED
        BY <3>1, <3>2, SubSeqProperties
  <2>4. history' \in [Mints -> Seq(Int)]
      BY <2>2, <2>3
  <2> HIDE DEF kept
  <2>5. /\ spc' \in [Senders -> {"idle", "check", "build"}]
        /\ cfg' \in [Senders -> Config \cup {Idle}]
        /\ \A x \in Senders : spc'[x] # "idle" => cfg'[x] \in Config
      BY <1>17, <2>2 DEF Check
  <2> QED
      BY <1>17, <2>4, <2>5 DEF Check
<1>18. ASSUME NEW s \in Senders, ReadArrays(s) PROVE TypeOK'
  <2> PICK p \in cfg[s].pools :
        read' = [read EXCEPT ![s][p] = heap[cfg[s].ref][p].arrays]
      BY <1>18 DEF ReadArrays
  <2>1. cfg[s].ref \in Refs /\ p \in Pools
      BY <1>18 DEF ReadArrays, Config
  <2>2. heap[cfg[s].ref][p].arrays \in SUBSET Int
      BY <2>1 DEF Triple
  <2> QED
      BY <1>18, <2>2 DEF ReadArrays
<1>19. ASSUME NEW s \in Senders, Send(s) PROVE TypeOK'
    BY <1>19 DEF Send
<1>20. CASE Dead
    BY <1>20 DEF Dead, vars
<1>21. CASE UNCHANGED vars
    BY <1>21 DEF vars
<1> QED
    BY <1>1, <1>2, <1>3, <1>4, <1>5, <1>6, <1>7, <1>8, <1>9, <1>10, <1>11, <1>12,
       <1>13, <1>14, <1>15, <1>16, <1>17, <1>18, <1>19, <1>20, <1>21
       DEF Next, LoggerStep, UpdaterStep, SenderStep

\* Every variable keeps its type in every behaviour.
THEOREM TypeCorrect == Spec => []TypeOK
<1>1. Init => TypeOK
    BY TypeInit
<1>2. TypeOK /\ [Next]_vars => TypeOK'
    BY TypeNext
<1> QED
    BY <1>1, <1>2, PTL DEF Spec

-----------------------------------------------------------------------------
(* The book and the lock.                                                  *)

\* The part of BookInv that speaks of the logger alone.
LoggerInv ==
    /\ PushedPrefix /\ FlagSet
    /\ BookFollowsHot /\ BookPricesCurrent /\ ActiveIffTrading

LEMMA LoggerInvSame ==
    ASSUME LoggerInv, UNCHANGED <<configs, hot, lpc, k, new, tradeActive>>
    PROVE  LoggerInv'
<1> USE DEF LoggerInv
<1>1. PushedPrefix'
    BY DEF PushedPrefix
<1>2. FlagSet' /\ ActiveIffTrading'
    BY Zenon DEF FlagSet, ActiveIffTrading
<1>3. BookFollowsHot'
    BY DEF BookFollowsHot
<1>4. BookPricesCurrent'
    BY Zenon DEF BookPricesCurrent, DistinctMints
<1> QED
    BY <1>1, <1>2, <1>3, <1>4

\* Neither conversion of a price is more than half a unit off.
LEMMA PriceConversions ==
    ASSUME NEW h \in Nat
    PROVE  /\ 2 * Rounded(h) - h \in {-1, 0, 1}
           /\ 2 * Truncated(h) - h \in {-1, 0, 1}
BY DEF Rounded, Truncated

LEMMA HotPriceType ==
    ASSUME TypeOK, NEW j \in DOMAIN hot
    PROVE  hot[j].price \in Nat
<1>1. hot[j] \in HotMint
    BY DEF TypeOK
<1> QED
    BY <1>1, ConstantsAssumption DEF ConstantsAssumption, HotMint

LEMMA BookInit == Init => BookInv
<1> SUFFICES ASSUME Init PROVE BookInv
    OBVIOUS
<1> USE DEF Init
<1>1. MutexHeld
    BY ConstantsAssumption DEF ConstantsAssumption, MutexHeld
<1>2. PushedPrefix /\ BookFollowsHot /\ BookPricesCurrent
    BY DEF PushedPrefix, BookFollowsHot, BookPricesCurrent, DistinctMints, MintsOf
<1>3. FlagSet /\ ActiveIffTrading /\ WalkInBook /\ IndexFaultOnlyFromClear
    BY DEF FlagSet, ActiveIffTrading, WalkInBook, IndexFaultOnlyFromClear
<1> QED
    BY <1>1, <1>2, <1>3 DEF BookInv

\* PushToMaster has dealt with one more hot mint and kept or fetched c for it.
LEMMA PushedOneMore ==
    ASSUME TypeOK, PushedPrefix, k <= Len(hot),
           NEW c \in Config, c.mint = hot[k].mint,
           2 * c.price - hot[k].price \in {-1, 0, 1},
           new' = Append(new, c), k' = k + 1, hot' = hot,
           MintsOf(configs') = MintsOf(configs)
    PROVE  PushedPrefix'
<1> USE DEF TypeOK
<1>1. /\ k \in 1..Len(hot) /\ k' - 1 = k
      /\ Len(hot) \in Nat /\ DOMAIN hot = 1..Len(hot)
      /\ Len(new) \in Nat /\ DOMAIN new = 1..Len(new)
    BY LenProperties
<1>2. /\ DOMAIN new' = 1..(Len(new) + 1)
      /\ \A i \in 1..Len(new) : new'[i] = new[i]
      /\ new'[Len(new) + 1] = c
    BY AppendProperties, LenProperties
<1> HIDE DEF TypeOK
<1>3. \A i \in 1..Len(new) : new[i].mint # hot[k].mint
  <2> TAKE i \in 1..Len(new)
  <2> PICK j \in 1..(k - 1) : new[i].mint = hot[j].mint
      BY <1>1 DEF PushedPrefix
  <2> QED
      BY <1>1 DEF PushedPrefix, DistinctMints
<1>4. DistinctMints(new')
    BY <1>1, <1>2, <1>3 DEF PushedPrefix, DistinctMints
<1>5. \A i \in DOMAIN new' : \E j \in 1..k :
          /\ new'[i].mint = hot[j].mint
          /\ 2 * new'[i].price - hot[j].price \in {-1, 0, 1}
  <2> TAKE i \in DOMAIN new'
  <2>1. CASE i = Len(new) + 1
      BY <1>1, <1>2, <2>1
  <2>2. CASE i \in 1..Len(new)
    <3> PICK j \in 1..(k - 1) : /\ new[i].mint = hot[j].mint
                                /\ 2 * new[i].price - hot[j].price \in {-1, 0, 1}
        BY <1>1, <2>2 DEF PushedPrefix
    <3> j \in 1..k
        BY <1>1
    <3> QED
        BY <1>2, <2>2
  <2> QED
      BY <1>1, <1>2, <2>1, <2>2
<1>6. \A m \in MintsOf(new) : m \in MintsOf(new')
    BY <1>1, <1>2 DEF MintsOf
<1>7. hot[k].mint \in MintsOf(new')
    BY <1>1, <1>2 DEF MintsOf
<1>8. \A j \in 1..k : hot[j].mint \in MintsOf(configs) => hot[j].mint \in MintsOf(new')
    BY <1>1, <1>6, <1>7 DEF PushedPrefix
<1> QED
    BY <1>1, <1>4, <1>5, <1>8 DEF PushedPrefix

\* At the end of the walk over the hot list the book follows it, whether or not
\* newConfigs is installed.
LEMMA PushedAll ==
    ASSUME TypeOK, PushedPrefix, DistinctMints(configs), k > Len(hot), k <= Len(hot) + 1,
           configs' = IF new # <<>> THEN new ELSE configs, hot' = hot
    PROVE  /\ \/ MintsOf(configs') \subseteq MintsOf(hot')
              \/ MintsOf(configs') \cap MintsOf(hot') = {}
           /\ DistinctMints(configs')
           /\ \A i \in DOMAIN configs', j \in DOMAIN hot' :
                 configs'[i].mint = hot'[j].mint =>
                     2 * configs'[i].price - hot'[j].price \in {-1, 0, 1}
<1>1. Len(hot) \in Nat /\ DOMAIN hot = 1..Len(hot) /\ k - 1 = Len(hot)
  <2>1. hot \in Seq(HotMint) /\ k \in Nat
      BY DEF TypeOK
  <2> QED
      BY <2>1, LenProperties
<1>2. CASE new # <<>>
  <2>1. \A i \in DOMAIN new, j \in DOMAIN hot :
           new[i].mint = hot[j].mint => 2 * new[i].price - hot[j].price \in {-1, 0, 1}
    <3> TAKE i \in DOMAIN new, j \in DOMAIN hot
    <3> PICK n \in 1..(k - 1) : /\ new[i].mint = hot[n].mint
                                /\ 2 * new[i].price - hot[n].price \in {-1, 0, 1}
        BY DEF PushedPrefix
    <3> QED
        BY <1>1 DEF PushedPrefix, DistinctMints
  <2>2. MintsOf(new) \subseteq MintsOf(hot)
      BY <1>1 DEF PushedPrefix, MintsOf
  <2> QED
      BY <1>2, <2>1, <2>2 DEF PushedPrefix
<1>3. CASE new = <<>>
  <2>1. \A j \in DOMAIN hot : hot[j].mint \notin MintsOf(configs)
      BY <1>1, <1>3 DEF PushedPrefix, MintsOf
  <2>2. MintsOf(configs) \cap MintsOf(hot) = {}
      BY <2>1 DEF MintsOf
  <2>3. \A i \in DOMAIN configs, j \in DOMAIN hot : configs[i].mint # hot[j].mint
      BY <2>1 DEF MintsOf
  <2> QED
      BY <1>3, <2>2, <2>3
<1> QED
    BY <1>2, <1>3

\* Repricing an entry keeps the mints of the book.
LEMMA RepricedBook ==
    ASSUME TypeOK, DistinctMints(configs), NEW i \in DOMAIN configs, NEW h,
           configs' = [configs EXCEPT ![i] = Repriced(@, h)]
    PROVE  /\ MintsOf(configs') = MintsOf(configs)
           /\ DistinctMints(configs')
           /\ Len(configs') = Len(configs) /\ configs' # <<>>
<1>1. configs \in Seq(Config) /\ configs[i] \in Config
    BY DEF TypeOK
<1>2. DOMAIN configs' = DOMAIN configs /\ Len(configs') = Len(configs)
    BY <1>1
<1>3. \A n \in DOMAIN configs : configs'[n].mint = configs[n].mint
    BY <1>1 DEF Repriced, Config
<1> QED
    BY <1>1, <1>2, <1>3 DEF MintsOf, DistinctMints

LEMMA LoggerInvNext ==
    ASSUME TypeOK, MutexHeld, LoggerInv, LoggerStep
    PROVE  LoggerInv'
<1> USE DEF LoggerInv, bookVars, loggerVars
<1>1. CASE Publish
  <2>1. DistinctMints(hot')
      BY <1>1 DEF Publish, HotLists
  <2>2. k' = 1 /\ new' = <<>> /\ new = <<>> /\ UNCHANGED <<configs, tradeActive>>
      BY <1>1 DEF Publish, MutexHeld
  <2>3. lpc' # "idle" /\ lpc' # "flag" /\ lpc = "idle"
      BY <1>1 DEF Publish
  <2>4. PushedPrefix'
      BY <2>1, <2>2 DEF PushedPrefix, DistinctMints
  <2>5. FlagSet' /\ ActiveIffTrading'
      BY <2>2, <2>3 DEF FlagSet, ActiveIffTrading
  <2> QED
      BY <2>2, <2>3, <2>4, <2>5 DEF BookFollowsHot, BookPricesCurrent
<1>2. CASE PushLock
  <2>1. k' = 1 /\ new' = <<>> /\ new = <<>> /\ UNCHANGED <<configs, hot, tradeActive>>
      BY <1>2 DEF PushLock, MutexHeld
  <2>2. lpc' = "push" /\ lpc = "lock"
      BY <1>2 DEF PushLock
  <2>3. PushedPrefix'
      BY <2>1 DEF PushedPrefix, DistinctMints
  <2>4. FlagSet' /\ ActiveIffTrading'
      BY <2>1, <2>2 DEF FlagSet, ActiveIffTrading
  <2> QED
      BY <2>1, <2>2, <2>3, <2>4 DEF BookFollowsHot, BookPricesCurrent
<1>3. CASE PushKeep
  <2>1. PICK i \in DOMAIN configs :
        /\ configs[i].mint = hot[k].mint
        /\ configs' = [configs EXCEPT ![i] = Repriced(@, hot[k])]
        /\ new' = Append(new, Repriced(configs[i], hot[k]))
      BY <1>3 DEF PushKeep
  <2>2. /\ lpc = "push" /\ k <= Len(hot) /\ k' = k + 1
        /\ UNCHANGED <<hot, lpc, tradeActive>>
      BY <1>3 DEF PushKeep
  <2>3. k \in DOMAIN hot /\ hot[k] \in HotMint /\ configs[i] \in Config
      BY <2>2, LenProperties DEF TypeOK
  <2>4. hot[k].price \in Nat
      BY <2>3, HotPriceType
  <2> DEFINE c == Repriced(configs[i], hot[k])
  <2>5. c \in Config /\ c.mint = hot[k].mint /\ c.price = Rounded(hot[k].price)
    <3>1. Rounded(hot[k].price) \in Nat
        BY <2>4 DEF Rounded
    <3> QED
        BY <2>1, <2>3, <3>1 DEF Repriced, Config
  <2>6. 2 * c.price - hot[k].price \in {-1, 0, 1}
      BY <2>4, <2>5, PriceConversions
  <2>7. /\ MintsOf(configs') = MintsOf(configs) /\ DistinctMints(configs')
        /\ configs' # <<>>
      BY <2>1, RepricedBook DEF BookPricesCurrent
  <2>8. new' = Append(new, c)
      BY <2>1
  <2> HIDE DEF c
  <2>9. PushedPrefix'
      BY <2>2, <2>5, <2>6, <2>7, <2>8, PushedOneMore
  <2>10. configs # <<>>
      BY <2>1, <2>3 DEF TypeOK
  <2>11. FlagSet' /\ ActiveIffTrading'
      BY <2>2, <2>7, <2>10 DEF FlagSet, ActiveIffTrading
  <2> QED
      BY <2>2, <2>7, <2>9, <2>11 DEF BookFollowsHot, BookPricesCurrent
<1>4. CASE PushFetch
  <2>1. PICK ps \in SUBSET {p \in Pools : PoolMint[p] = hot[k].mint} :
        \E r \in IF ps = {} THEN {None} ELSE FreeRefs :
            new' = Append(new, Fetched(hot[k], r, ps))
      BY <1>4 DEF PushFetch
  <2>2. PICK r \in IF ps = {} THEN {None} ELSE FreeRefs :
            new' = Append(new, Fetched(hot[k], r, ps))
      BY <2>1
  <2>3. /\ lpc = "push" /\ k <= Len(hot) /\ k' = k + 1 /\ tradeActive' = TRUE
        /\ hot[k].mint \notin MintsOf(configs)
        /\ UNCHANGED <<hot, lpc, configs>>
      BY <1>4 DEF PushFetch
  <2>4. k \in DOMAIN hot /\ hot[k] \in HotMint
      BY <2>3, LenProperties DEF TypeOK
  <2>5. hot[k].price \in Nat
      BY <2>4, HotPriceType
  <2> DEFINE c == Fetched(hot[k], r, ps)
  <2>6. c \in Config /\ c.mint = hot[k].mint /\ c.price = Truncated(hot[k].price)
    <3>1. Truncated(hot[k].price) \in Nat
        BY <2>5 DEF Truncated
    <3>2. r \in Refs \cup {None} /\ (ps # {} => r \in Refs)
        BY DEF FreeRefs
    <3> QED
        BY <2>4, <3>1, <3>2 DEF Config, HotMint, Fetched
  <2>7. 2 * c.price - hot[k].price \in {-1, 0, 1}
      BY <2>5, <2>6, PriceConversions
  <2>8. new' = Append(new, c)
      BY <2>2
  <2> HIDE DEF c
  <2>9. PushedPrefix'
      BY <2>3, <2>6, <2>7, <2>8, PushedOneMore
  <2>10. new' # <<>>
      BY <2>6, <2>8, AppendProperties DEF TypeOK
  <2>11. FlagSet' /\ ActiveIffTrading'
      BY <2>3, <2>10 DEF FlagSet, ActiveIffTrading
  <2> QED
      BY <2>3, <2>9, <2>11 DEF BookFollowsHot, BookPricesCurrent
<1>5. CASE PushFail
  <2>1. /\ lpc = "push" /\ k <= Len(hot) /\ (k' = k \/ k' = k + 1)
        /\ hot[k].mint \notin MintsOf(configs)
        /\ UNCHANGED <<configs, hot, lpc, new, tradeActive>>
      BY <1>5 DEF PushFail
  <2>2. k \in Nat \ {0}
      BY DEF TypeOK
  <2>3. ASSUME k' = k PROVE PushedPrefix'
      BY <2>1, <2>3 DEF PushedPrefix
  <2>4. ASSUME k' = k + 1 PROVE PushedPrefix'
    <3>1. \A j \in 1..((k + 1) - 1) : j \in 1..(k - 1) \/ j = k
        BY <2>2
    <3>2. \A j \in 1..(k - 1) : j \in 1..((k + 1) - 1)
        BY <2>2
    <3> QED
        BY <2>1, <2>4, <3>1, <3>2 DEF PushedPrefix
  <2>5. PushedPrefix'
      BY <2>1, <2>3, <2>4
  <2>6. FlagSet' /\ ActiveIffTrading'
      BY <2>1 DEF FlagSet, ActiveIffTrading
  <2> QED
      BY <2>1, <2>5, <2>6 DEF BookFollowsHot, BookPricesCurrent
<1>6. CASE PushCommit
  <2>1. /\ lpc = "push" /\ lpc' = "idle" /\ k > Len(hot) /\ k' = 1 /\ new' = <<>>
        /\ configs' = IF new # <<>> THEN new ELSE configs
        /\ UNCHANGED <<hot, tradeActive>>
      BY <1>6 DEF PushCommit
  <2>2. k <= Len(hot) + 1 /\ DistinctMints(configs)
      BY DEF MutexHeld, BookPricesCurrent
  <2>3. BookFollowsHot' /\ BookPricesCurrent'
      BY <2>1, <2>2, PushedAll DEF BookFollowsHot, BookPricesCurrent
  <2>4. PushedPrefix'
      BY <2>1 DEF PushedPrefix, DistinctMints
  <2>5. FlagSet' /\ ActiveIffTrading'
      BY <2>1 DEF FlagSet, ActiveIffTrading
  <2> QED
      BY <2>3, <2>4, <2>5
<1>7. CASE ClearBegin
  <2>1. lpc' = "clearing" /\ lpc = "clear"
        /\ UNCHANGED <<configs, hot, k, new, tradeActive>>
      BY <1>7 DEF ClearBegin
  <2>2. PushedPrefix'
      BY <2>1 DEF PushedPrefix
  <2> QED
      BY <2>1, <2>2 DEF FlagSet, ActiveIffTrading, BookFollowsHot, BookPricesCurrent
<1>8. CASE ClearEnd
  <2>1. lpc' = "flag" /\ lpc = "clearing" /\ configs' = <<>> /\ k = 1 /\ new = <<>>
        /\ UNCHANGED <<hot, k, new, tradeActive>>
      BY <1>8 DEF ClearEnd, MutexHeld
  <2>2. PushedPrefix'
      BY <2>1 DEF PushedPrefix, MintsOf
  <2>3. FlagSet' /\ ActiveIffTrading'
      BY <2>1 DEF FlagSet, ActiveIffTrading
  <2> QED
      BY <2>1, <2>2, <2>3 DEF BookFollowsHot, BookPricesCurrent, DistinctMints
<1>9. CASE ClearFlag
  <2>1. lpc' = "idle" /\ lpc = "flag" /\ tradeActive' = FALSE /\ new = <<>>
        /\ UNCHANGED <<configs, hot, k, new>>
      BY <1>9 DEF ClearFlag, MutexHeld
  <2>2. configs = <<>>
      BY <2>1 DEF FlagSet
  <2>3. PushedPrefix'
      BY <2>1 DEF PushedPrefix
  <2>4. FlagSet' /\ ActiveIffTrading'
      BY <2>1, <2>2 DEF FlagSet, ActiveIffTrading
  <2> QED
      BY <2>1, <2>2, <2>3, <2>4
      DEF BookFollowsHot, BookPricesCurrent, DistinctMints, MintsOf
<1> QED
    BY <1>1, <1>2, <1>3, <1>4, <1>5, <1>6, <1>7, <1>8, <1>9 DEF LoggerStep

LEMMA MutexNext ==
    ASSUME TypeOK, MutexHeld, [Next]_vars
    PROVE  MutexHeld'
<1>1. None # Logger /\ None \notin Updaters /\ Logger \notin Updaters
    BY ConstantsAssumption DEF ConstantsAssumption
<1>2. k \in Nat /\ Len(hot) \in Nat
    BY LenProperties DEF TypeOK
<1>3. upc \in [Updaters -> {"unborn", "lock", "walk", "done"}]
    BY DEF TypeOK
<1> USE <1>1, <1>2 DEF MutexHeld, bookVars, loggerVars, updaterVars, senderVars
<1>4. CASE Publish
  <2>1. Len(hot') \in Nat
      BY <1>4, HotListType, LenProperties DEF Publish
  <2> QED
      BY <1>4, <2>1 DEF Publish
<1>5. CASE PushLock
    BY <1>5 DEF PushLock
<1>6. CASE PushKeep
    BY <1>6 DEF PushKeep
<1>7. CASE PushFetch
    BY <1>7 DEF PushFetch
<1>8. CASE PushFail
    BY <1>8 DEF PushFail
<1>9. CASE PushCommit
    BY <1>9 DEF PushCommit
<1>10. CASE ClearBegin
    BY <1>10 DEF ClearBegin
<1>11. CASE ClearEnd
    BY <1>11 DEF ClearEnd
<1>12. CASE ClearFlag
    BY <1>12 DEF ClearFlag
<1>13. ASSUME NEW u \in Updaters, Deliver(u) PROVE MutexHeld'
    BY <1>3, <1>13 DEF Deliver
<1>14. ASSUME NEW u \in Updaters, UpdateLock(u) PROVE MutexHeld'
    BY <1>3, <1>14 DEF UpdateLock
<1>15. ASSUME NEW u \in Updaters, UpdateVisit(u) PROVE MutexHeld'
    BY <1>15 DEF UpdateVisit
<1>16. ASSUME NEW u \in Updaters, UpdatePanic(u) PROVE MutexHeld'
    BY <1>16 DEF UpdatePanic
<1>17. ASSUME NEW u \in Updaters, UpdateReturn(u) PROVE MutexHeld'
    BY <1>3, <1>17 DEF UpdateReturn
<1>18. CASE Snapshot
    BY <1>18 DEF Snapshot
<1>19. ASSUME NEW s \in Senders, SenderStep(s) PROVE MutexHeld'
    BY <1>19 DEF SenderStep, Spawn, Check, ReadArrays, Send
<1>20. CASE Dead \/ UNCHANGED vars
    BY <1>20 DEF Dead, vars
<1> QED
    BY <1>4, <1>5, <1>6, <1>7, <1>8, <1>9, <1>10, <1>11, <1>12, <1>13, <1>14, <1>15,
       <1>16, <1>17, <1>18, <1>19, <1>20 DEF Next, LoggerStep, UpdaterStep

\* One turn of a walk leaves the entry it visits at the bin of the message, and
\* so any other entry that shares its backing array.
LEMMA VisitedWalk ==
    ASSUME TypeOK, MutexHeld, WalkInBook, NEW u \in Updaters, UpdateVisit(u)
    PROVE  WalkInBook'
<1> USE DEF bookVars, loggerVars, senderVars
<1>1. /\ upc' = upc /\ msg' = msg /\ len' = len /\ configs' = configs /\ lpc' = lpc
      /\ mu = u /\ at' = [at EXCEPT ![u] = @ + 1]
    BY DEF UpdateVisit, MutexHeld
<1>2. \A x \in Updaters : upc[x] = "walk" => x = u
    BY <1>1 DEF MutexHeld
<1>3. PICK h \in HeaderSeen :
        /\ at[u] \in DOMAIN h
        /\ heap' = [r \in Refs |-> [p \in Pools |->
               IF r = h[at[u]].ref /\ p \in Moved(h[at[u]], msg[u])
               THEN FreshTriple(msg[u].bin) ELSE heap[r][p]]]
    BY DEF UpdateVisit
<1>4. h = configs
    BY <1>3 DEF HeaderSeen
<1> DEFINE here == h[at[u]]
           pool == msg[u].pool
<1>5. SUFFICES ASSUME NEW i \in DOMAIN configs, i < at[u] + 1, pool \in configs[i].pools
               PROVE  heap'[configs[i].ref][pool].bin = msg[u].bin
    BY <1>1, <1>2 DEF WalkInBook, TypeOK
<1>6. configs[i].ref \in Refs /\ pool \in Pools
  <2>1. configs[i] \in Config
      BY DEF TypeOK
  <2> QED
      BY <1>5, <2>1 DEF Config
<1>7. FreshTriple(msg[u].bin).bin = msg[u].bin
    BY DEF FreshTriple
<1>8. CASE configs[i].ref = here.ref /\ pool \in Moved(here, msg[u])
    BY <1>3, <1>6, <1>7, <1>8
<1>9. CASE ~(configs[i].ref = here.ref /\ pool \in Moved(here, msg[u]))
  <2>1. heap'[configs[i].ref][pool] = heap[configs[i].ref][pool]
      BY <1>3, <1>6, <1>9
  <2>2. CASE i = at[u]
    <3>1. pool \in here.pools /\ configs[i].ref = here.ref
        BY <1>4, <1>5, <2>2
    <3>2. heap[here.ref][pool].bin = msg[u].bin
        BY <1>9, <3>1 DEF Moved
    <3> QED
        BY <2>1, <3>1, <3>2
  <2>3. CASE i < at[u]
    <3>1. upc[u] = "walk"
        BY DEF UpdateVisit
    <3> QED
        BY <1>5, <2>1, <2>3, <3>1 DEF WalkInBook
  <2> QED
      BY <1>5, <2>2, <2>3 DEF TypeOK
<1> QED
    BY <1>8, <1>9

LEMMA WalkNext ==
    ASSUME TypeOK, MutexHeld, WalkInBook, [Next]_vars
    PROVE  WalkInBook'
<1> USE DEF bookVars, loggerVars, updaterVars, senderVars
<1>0. Logger \notin Updaters
    BY ConstantsAssumption DEF ConstantsAssumption
<1>1. CASE /\ UNCHANGED <<bookVars, updaterVars>>
           /\ lpc = "clearing" => lpc' = "clearing"
    BY <1>1 DEF WalkInBook
<1>2. CASE lpc = "push" /\ LoggerStep
  <2>1. \A u \in Updaters : upc[u] # "walk"
      BY <1>0, <1>2 DEF MutexHeld
  <2>2. upc' = upc
      BY <1>2 DEF LoggerStep, Publish, PushLock, PushKeep, PushFetch, PushFail,
                  PushCommit, ClearBegin, ClearEnd, ClearFlag
  <2> QED
      BY <2>1, <2>2 DEF WalkInBook
<1>3. CASE lpc # "push" /\ LoggerStep
  <2>1. CASE ClearEnd
    <3>1. configs' = <<>> /\ DOMAIN configs' = {}
        BY <2>1 DEF ClearEnd
    <3> QED
        BY <3>1 DEF WalkInBook
  <2> QED
      BY <1>1, <1>3, <2>1 DEF LoggerStep, Publish, PushLock, PushKeep, PushFetch,
                         PushFail, PushCommit, ClearBegin, ClearFlag
<1>4. ASSUME NEW u \in Updaters, Deliver(u) PROVE WalkInBook'
  <2>1. /\ upc'[u] # "walk" /\ UNCHANGED <<configs, heap, lpc, at, len>>
        /\ \A x \in Updaters : x # u => upc'[x] = upc[x] /\ msg'[x] = msg[x]
      BY <1>4 DEF Deliver, TypeOK
  <2> QED
      BY <2>1 DEF WalkInBook
<1>5. ASSUME NEW u \in Updaters, UpdateLock(u) PROVE WalkInBook'
  <2>1. PICK h \in HeaderSeen : len' = [len EXCEPT ![u] = Len(h)]
      BY <1>5 DEF UpdateLock
  <2>2. /\ len'[u] = Len(h) /\ at'[u] = 1 /\ UNCHANGED <<configs, heap, lpc, msg>>
        /\ \A x \in Updaters : x # u => upc'[x] = upc[x] /\ at'[x] = at[x] /\ len'[x] = len[x]
      BY <1>5, <2>1 DEF UpdateLock, TypeOK
  <2>3. h = configs \/ lpc = "clearing"
      BY DEF HeaderSeen
  <2>4. \A i \in DOMAIN configs : ~(i < 1)
      BY LenProperties DEF TypeOK
  <2> QED
      BY <2>2, <2>3, <2>4 DEF WalkInBook
<1>6. ASSUME NEW u \in Updaters, UpdateVisit(u) PROVE WalkInBook'
    BY <1>6, VisitedWalk
<1>7. ASSUME NEW u \in Updaters, UpdatePanic(u) PROVE WalkInBook'
    BY <1>1, <1>7 DEF UpdatePanic
<1>8. ASSUME NEW u \in Updaters, UpdateReturn(u) PROVE WalkInBook'
  <2>1. /\ upc'[u] # "walk" /\ UNCHANGED <<configs, heap, lpc>>
        /\ \A x \in Updaters : x # u => /\ upc'[x] = upc[x] /\ msg'[x] = msg[x]
                                       /\ at'[x] = at[x] /\ len'[x] = len[x]
      BY <1>8 DEF UpdateReturn, TypeOK
  <2> QED
      BY <2>1 DEF WalkInBook
<1>9. CASE Snapshot \/ Dead \/ UNCHANGED vars
    BY <1>1, <1>9 DEF Snapshot, Dead, vars
<1>10. ASSUME NEW s \in Senders, SenderStep(s) PROVE WalkInBook'
    BY <1>1, <1>10 DEF SenderStep, Spawn, Check, ReadArrays, Send
<1> QED
    BY <1>2, <1>3, <1>4, <1>5, <1>6, <1>7, <1>8, <1>9, <1>10 DEF Next, UpdaterStep

\* Only printHotMints' unlocked store can take the book away from a walk.
LEMMA IndexFaultNext ==
    ASSUME TypeOK, WalkInBook, IndexFaultOnlyFromClear, [Next]_vars
    PROVE  IndexFaultOnlyFromClear'
<1> USE DEF bookVars, loggerVars, updaterVars, senderVars
<1>1. CASE fault = "index"
  <2>1. UNCHANGED vars
      BY <1>1 DEF Next, LoggerStep, Publish, PushLock, PushKeep, PushFetch, PushFail,
         PushCommit, ClearBegin, ClearEnd, ClearFlag, UpdaterStep, Deliver, UpdateLock,
         UpdateVisit, UpdatePanic, UpdateReturn, Snapshot, SenderStep, Spawn, Check,
         ReadArrays, Send, Dead, Up
  <2> QED
      BY <2>1 DEF IndexFaultOnlyFromClear, vars
<1>2. CASE fault # "index" /\ fault' = "index"
  <2>1. CASE Snapshot
      BY <1>2, <2>1 DEF Snapshot, IndexFaultOnlyFromClear
  <2>2. ASSUME NEW u \in Updaters, UpdatePanic(u) PROVE IndexFaultOnlyFromClear'
    <3>1. CASE lpc = "clearing"
        BY <2>2, <3>1 DEF UpdatePanic, IndexFaultOnlyFromClear
    <3>2. CASE lpc # "clearing"
      <4>1. at[u] \in Nat \ {0} /\ len[u] \in Nat /\ Len(configs) \in Nat
            /\ DOMAIN configs = 1..Len(configs)
          BY LenProperties DEF TypeOK
      <4>2. at[u] <= len[u] /\ at[u] \notin DOMAIN configs
          BY <2>2, <3>2 DEF UpdatePanic, HeaderSeen
      <4>3. len[u] = Len(configs) \/ configs = <<>>
          BY <2>2, <3>2 DEF UpdatePanic, WalkInBook
      <4>4. configs = <<>>
          BY <4>1, <4>2, <4>3
      <4> QED
          BY <2>2, <4>4 DEF UpdatePanic, IndexFaultOnlyFromClear
    <3> QED
        BY <3>1, <3>2
  <2>3. ASSUME NEW u \in Updaters, UpdaterStep(u), ~UpdatePanic(u)
        PROVE  fault' \in {fault, "short"}
      BY <2>3 DEF UpdaterStep, Deliver, UpdateLock, UpdateVisit, UpdateReturn
  <2>4. LoggerStep => fault' \in {fault, "fetch"}
      BY DEF LoggerStep, Publish, PushLock, PushKeep, PushFetch, PushFail,
             PushCommit, ClearBegin, ClearEnd, ClearFlag
  <2>5. ASSUME NEW s \in Senders, SenderStep(s)
        PROVE  fault' \in {fault, "send", "jitter"}
      BY <2>5 DEF SenderStep, Spawn, Check, ReadArrays, Send
  <2>6. Dead \/ UNCHANGED vars => fault' = fault
      BY DEF Dead, vars
  <2> QED
      BY <1>2, <2>1, <2>2, <2>3, <2>4, <2>5, <2>6 DEF Next
<1>3. CASE fault' # "index"
    BY <1>3 DEF IndexFaultOnlyFromClear
<1> QED
    BY <1>1, <1>2, <1>3

\* Every step keeps the invariant of the book.
LEMMA BookNext ==
    ASSUME TypeOK, BookInv, [Next]_vars
    PROVE  BookInv'
<1>1. MutexHeld' /\ WalkInBook' /\ IndexFaultOnlyFromClear'
    BY MutexNext, WalkNext, IndexFaultNext DEF BookInv
<1>2. LoggerInv'
  <2>1. LoggerInv /\ MutexHeld
      BY DEF BookInv, LoggerInv
  <2>2. CASE LoggerStep
      BY <2>1, <2>2, LoggerInvNext
  <2>3. CASE ~LoggerStep
    <3>1. UNCHANGED <<configs, hot, lpc, k, new, tradeActive>>
        BY <2>3 DEF Next, UpdaterStep, Deliver, UpdateLock, UpdateVisit, UpdatePanic,
           UpdateReturn, Snapshot, SenderStep, Spawn, Check, ReadArrays, Send, Dead,
           vars, bookVars, loggerVars
    <3> QED
        BY <2>1, <3>1, LoggerInvSame
  <2> QED
      BY <2>2, <2>3
<1> QED
    BY <1>1, <1>2 DEF BookInv, LoggerInv

\* The lock, the book, the flag and the walks stay consistent in every
\* behaviour.
THEOREM BookCorrect == Spec => []BookInv
<1>1. Init => BookInv
    BY BookInit
<1>2. TypeOK /\ BookInv /\ [Next]_vars => BookInv'
    BY BookNext
<1> QED
    BY <1>1, <1>2, TypeCorrect, PTL DEF Spec

\* Between two reports the book is all hot or all stale.
THEOREM BookFollows == Spec => []BookFollowsHot
<1>1. BookInv => BookFollowsHot
    BY DEF BookInv
<1> QED
    BY <1>1, BookCorrect, PTL

\* A hot mint in the book is there once and at its published price.
THEOREM BookPriced == Spec => []BookPricesCurrent
<1>1. BookInv => BookPricesCurrent
    BY DEF BookInv
<1> QED
    BY <1>1, BookCorrect, PTL

\* TradeActive agrees with the book between two reports.
THEOREM FlagCorrect == Spec => []ActiveIffTrading
<1>1. BookInv => ActiveIffTrading
    BY DEF BookInv
<1> QED
    BY <1>1, BookCorrect, PTL

\* A walk runs out of the book only when printHotMints empties it.
THEOREM IndexFaultCorrect == Spec => []IndexFaultOnlyFromClear
<1>1. BookInv => IndexFaultOnlyFromClear
    BY DEF BookInv
<1> QED
    BY <1>1, BookCorrect, PTL

\* No account update is lost between the lock, the copies and the walk.
THEOREM UpdatesKept == Spec => UpdateNotLost
<1> DEFINE Kept ==
      \A u \in Updaters :
          upc[u] = "walk" /\ upc'[u] = "done" /\ at[u] > len[u] /\ lpc # "clearing" =>
              \A i \in DOMAIN configs :
                  msg[u].pool \in configs[i].pools =>
                      heap[configs[i].ref][msg[u].pool].bin = msg[u].bin
<1>1. ASSUME TypeOK, BookInv PROVE Kept
  <2> SUFFICES ASSUME NEW u \in Updaters,
                      upc[u] = "walk", at[u] > len[u], lpc # "clearing",
                      NEW i \in DOMAIN configs, msg[u].pool \in configs[i].pools
               PROVE  heap[configs[i].ref][msg[u].pool].bin = msg[u].bin
      OBVIOUS
  <2>1. Len(configs) \in Nat /\ DOMAIN configs = 1..Len(configs)
        /\ at[u] \in Nat /\ len[u] \in Nat
      BY <1>1, LenProperties DEF TypeOK
  <2>2. len[u] = Len(configs)
      BY <1>1, <2>1 DEF BookInv, WalkInBook
  <2>3. i < at[u]
      BY <2>1, <2>2
  <2> QED
      BY <1>1, <2>3 DEF BookInv, WalkInBook
<1>2. TypeOK /\ BookInv => [Kept]_vars
    BY <1>1
<1> QED
    BY <1>2, TypeCorrect, BookCorrect, PTL DEF UpdateNotLost

-----------------------------------------------------------------------------
(* The backing arrays shared between the book and the senders.             *)

LEMMA InUseType ==
    ASSUME TypeOK
    PROVE  InUse \subseteq Config
<1>1. /\ Entries(configs) \subseteq Config /\ Entries(new) \subseteq Config
      /\ Entries(todo) \subseteq Config
    BY DEF TypeOK, Entries
<1>2. {cfg[s] : s \in {x \in Senders : spc[x] # "idle"}} \subseteq Config
    BY DEF TypeOK
<1> QED
    BY <1>1, <1>2 DEF InUse

LEMMA EntriesAppend ==
    ASSUME NEW S, NEW s \in Seq(S), NEW e \in S
    PROVE  Entries(Append(s, e)) = Entries(s) \cup {e}
<1> DEFINE t == Append(s, e)
<1>1. /\ DOMAIN s = 1..Len(s) /\ Len(s) \in Nat /\ DOMAIN t = 1..(Len(s) + 1)
      /\ \A i \in 1..Len(s) : t[i] = s[i]
      /\ t[Len(s) + 1] = e
    BY AppendProperties, LenProperties
<1> HIDE DEF t
<1>2. Entries(t) \subseteq Entries(s) \cup {e}
  <2> SUFFICES ASSUME NEW i \in 1..(Len(s) + 1) PROVE t[i] \in Entries(s) \cup {e}
      BY <1>1 DEF Entries
  <2> i \in 1..Len(s) \/ i = Len(s) + 1
      BY <1>1
  <2> QED
      BY <1>1 DEF Entries
<1>3. Entries(s) \cup {e} \subseteq Entries(t)
  <2>1. \A i \in 1..Len(s) : i \in 1..(Len(s) + 1)
      BY <1>1
  <2>2. Len(s) + 1 \in 1..(Len(s) + 1)
      BY <1>1
  <2> QED
      BY <1>1, <2>1, <2>2 DEF Entries
<1> QED
    BY <1>2, <1>3 DEF t

\* A step that brings no configuration into use and writes no backing array.
LEMMA HeapInvSame ==
    ASSUME TypeOK, HeapInv, InUse' \subseteq InUse, heap' = heap,
           \A p \in Pools : seen[p] \subseteq seen'[p],
           UNCHANGED <<upc, msg, read>>
    PROVE  HeapInv'
<1>1. \A c \in InUse' : WholeWindows(c)'
    BY InUseType DEF HeapInv, WholeWindows, Config
<1>2. SentArraysReported'
    BY DEF HeapInv, SentArraysReported
<1> QED
    BY <1>1, <1>2 DEF HeapInv

\* PushFetch: the new configuration has a backing array of its own, and the
\* arrays in use are left alone.
LEMMA HeapInvFetch ==
    ASSUME TypeOK, HeapInv, PushFetch
    PROVE  HeapInv'
<1> USE DEF bookVars, loggerVars, updaterVars, senderVars
<1>1. PICK ps \in SUBSET {p \in Pools : PoolMint[p] = hot[k].mint} :
        \E bin \in [ps -> Bins \cup {0}], r \in IF ps = {} THEN {None} ELSE FreeRefs :
            /\ new' = Append(new, Fetched(hot[k], r, ps))
            /\ heap' = [x \in Refs |->
                   IF x = r THEN FetchedPools(ps, bin)
                   ELSE IF x \in FreeRefs THEN [p \in Pools |-> Zero] ELSE heap[x]]
            /\ seen' = [p \in Pools |->
                   IF p \in ps THEN seen[p] \cup {bin[p]} ELSE seen[p]]
    BY DEF PushFetch
<1>2. PICK bin \in [ps -> Bins \cup {0}], r \in IF ps = {} THEN {None} ELSE FreeRefs :
            /\ new' = Append(new, Fetched(hot[k], r, ps))
            /\ heap' = [x \in Refs |->
                   IF x = r THEN FetchedPools(ps, bin)
                   ELSE IF x \in FreeRefs THEN [p \in Pools |-> Zero] ELSE heap[x]]
            /\ seen' = [p \in Pools |->
                   IF p \in ps THEN seen[p] \cup {bin[p]} ELSE seen[p]]
    BY <1>1
<1> DEFINE c == Fetched(hot[k], r, ps)
<1>3. /\ lpc = "push" /\ k <= Len(hot)
      /\ UNCHANGED <<configs, todo, spc, cfg, upc, msg, read>>
    BY DEF PushFetch
<1>4. c \in Config
  <2>1. k \in DOMAIN hot /\ hot[k] \in HotMint
      BY <1>3, LenProperties DEF TypeOK
  <2>2. Truncated(hot[k].price) \in Nat
      BY <2>1, HotPriceType DEF Truncated
  <2>3. r \in Refs \cup {None} /\ (ps # {} => r \in Refs)
      BY DEF FreeRefs
  <2> QED
      BY <2>1, <2>2, <2>3 DEF Config, HotMint, Fetched
<1>5. c.ref = r /\ c.pools = ps
    BY DEF Fetched
<1>6. new' = Append(new, c)
    BY <1>2
<1>7. seen \in [Pools -> SUBSET (Bins \cup {0})]
    BY DEF TypeOK
<1>8. \A p \in Pools : seen[p] \subseteq seen'[p]
    BY <1>2, <1>7
<1> HIDE DEF c
<1>9. InUse' = InUse \cup {c}
  <2>1. Entries(new') = Entries(new) \cup {c}
      BY <1>4, <1>6, EntriesAppend DEF TypeOK
  <2> QED
      BY <1>3, <2>1 DEF InUse
<1>10. ASSUME NEW d \in InUse PROVE WholeWindows(d)'
  <2> SUFFICES ASSUME NEW p \in d.pools
               PROVE  \E b \in seen'[p] : heap'[d.ref][p].arrays = SurroundingArrays(b)
      BY DEF WholeWindows
  <2>1. d \in Config
      BY InUseType
  <2>2. p \in Pools /\ d.ref \in Refs /\ d.ref \notin FreeRefs
      BY <2>1 DEF Config, FreeRefs
  <2>3. d.ref # r
    <3>1. None \notin Refs
        BY ConstantsAssumption DEF ConstantsAssumption
    <3> QED
        BY <2>2, <3>1
  <2>4. heap'[d.ref] = heap[d.ref]
      BY <1>2, <2>2, <2>3
  <2>5. PICK b \in seen[p] : heap[d.ref][p].arrays = SurroundingArrays(b)
      BY DEF HeapInv, WholeWindows
  <2>6. b \in seen'[p]
      BY <1>8, <2>2
  <2> QED
      BY <2>4, <2>5, <2>6
<1>11. ASSUME NEW p \in ps
       PROVE  \E b \in seen'[p] : heap'[r][p].arrays = SurroundingArrays(b)
  <2>1. p \in Pools /\ r \in Refs
      BY DEF FreeRefs
  <2>2. heap'[r][p] = FreshTriple(bin[p])
      BY <1>2, <2>1 DEF FetchedPools
  <2>3. bin[p] \in seen'[p]
      BY <1>2, <1>7, <2>1
  <2> QED
      BY <2>2, <2>3 DEF FreshTriple
<1>12. SentArraysReported'
    BY <1>3, <1>8 DEF HeapInv, SentArraysReported
<1>13. \A u \in Updaters :
          upc'[u] \in {"lock", "walk"} =>
              msg'[u].pool \in Pools /\ msg'[u].bin \in seen'[msg'[u].pool]
    BY <1>3, <1>8 DEF HeapInv
<1>14. ASSUME NEW d \in InUse' PROVE WholeWindows(d)'
  <2>1. CASE d \in InUse
      BY <1>10, <2>1
  <2>2. CASE d = c
      BY <1>5, <1>11, <2>2 DEF WholeWindows
  <2> QED
      BY <1>9, <2>1, <2>2
<1> QED
    BY <1>12, <1>13, <1>14 DEF HeapInv

\* UpdateVisit: the pools it writes get the whole window of a reported bin.
LEMMA HeapInvVisit ==
    ASSUME TypeOK, HeapInv, NEW u \in Updaters, UpdateVisit(u)
    PROVE  HeapInv'
<1> USE DEF bookVars, loggerVars, updaterVars, senderVars
<1>1. /\ upc[u] = "walk"
      /\ UNCHANGED <<configs, new, todo, spc, cfg, upc, msg, read, seen>>
    BY DEF UpdateVisit
<1>2. PICK h \in HeaderSeen :
        heap' = [r \in Refs |-> [p \in Pools |->
               IF r = h[at[u]].ref /\ p \in Moved(h[at[u]], msg[u])
               THEN FreshTriple(msg[u].bin) ELSE heap[r][p]]]
    BY DEF UpdateVisit
<1>3. msg[u].bin \in seen[msg[u].pool]
    BY <1>1 DEF HeapInv
<1>4. InUse' = InUse
    BY <1>1 DEF InUse
<1>5. ASSUME NEW c \in InUse PROVE WholeWindows(c)'
  <2> SUFFICES ASSUME NEW p \in c.pools
               PROVE  \E b \in seen[p] : heap'[c.ref][p].arrays = SurroundingArrays(b)
      BY <1>1 DEF WholeWindows
  <2>1. p \in Pools /\ c.ref \in Refs
      BY InUseType DEF Config
  <2>2. CASE c.ref = h[at[u]].ref /\ p \in Moved(h[at[u]], msg[u])
    <3>1. heap'[c.ref][p].arrays = SurroundingArrays(msg[u].bin)
        BY <1>2, <2>1, <2>2 DEF FreshTriple
    <3>2. p = msg[u].pool
        BY <2>2 DEF Moved
    <3> QED
        BY <1>3, <3>1, <3>2
  <2>3. CASE ~(c.ref = h[at[u]].ref /\ p \in Moved(h[at[u]], msg[u]))
    <3>1. heap'[c.ref][p] = heap[c.ref][p]
        BY <1>2, <2>1, <2>3
    <3> QED
        BY <3>1 DEF HeapInv, WholeWindows
  <2> QED
      BY <2>2, <2>3
<1> QED
    BY <1>1, <1>4, <1>5 DEF HeapInv, SentArraysReported

LEMMA HeapInvNext ==
    ASSUME TypeOK, HeapInv, [Next]_vars
    PROVE  HeapInv'
<1> USE DEF bookVars, loggerVars, updaterVars, senderVars
<1>1. CASE PushKeep
  <2>1. PICK i \in DOMAIN configs :
        /\ configs' = [configs EXCEPT ![i] = Repriced(@, hot[k])]
        /\ new' = Append(new, Repriced(configs[i], hot[k]))
      BY <1>1 DEF PushKeep
  <2> DEFINE c == Repriced(configs[i], hot[k])
  <2>2. /\ lpc = "push" /\ k <= Len(hot)
        /\ UNCHANGED <<heap, seen, todo, spc, cfg, upc, msg, read>>
      BY <1>1 DEF PushKeep
  <2>3. configs[i] \in Config /\ k \in DOMAIN hot /\ hot[k] \in HotMint
      BY <2>2, LenProperties DEF TypeOK
  <2>4. hot[k].price \in Nat
      BY <2>3, HotPriceType
  <2>5. c \in Config /\ c.ref = configs[i].ref /\ c.pools = configs[i].pools
    <3>1. Rounded(hot[k].price) \in Nat
        BY <2>4 DEF Rounded
    <3> QED
        BY <2>3, <3>1 DEF Repriced, Config
  <2>6. new' = Append(new, c) /\ configs' = [configs EXCEPT ![i] = c]
      BY <2>1
  <2> HIDE DEF c
  <2>7. Entries(new') = Entries(new) \cup {c}
      BY <2>5, <2>6, EntriesAppend DEF TypeOK
  <2>8. Entries(configs') \subseteq Entries(configs) \cup {c}
      BY <2>6 DEF Entries, TypeOK
  <2>9. InUse' \subseteq InUse \cup {c}
      BY <2>2, <2>7, <2>8 DEF InUse
  <2>10. WholeWindows(configs[i])
      BY DEF HeapInv, InUse, Entries
  <2>11. WholeWindows(c)
      BY <2>5, <2>10 DEF WholeWindows
  <2>12. \A d \in InUse' : WholeWindows(d)'
      BY <2>2, <2>9, <2>11 DEF HeapInv, WholeWindows
  <2> QED
      BY <2>2, <2>12 DEF HeapInv, SentArraysReported
<1>2. CASE PushFetch
    BY <1>2, HeapInvFetch
<1>3. CASE LoggerStep /\ ~PushKeep /\ ~PushFetch
  <2>1. UNCHANGED <<heap, seen, todo, spc, cfg, upc, msg, read>>
      BY <1>3 DEF LoggerStep, Publish, PushLock, PushFail, PushCommit, ClearBegin,
                  ClearEnd, ClearFlag
  <2>2. /\ Entries(configs') \subseteq Entries(configs) \cup Entries(new)
        /\ Entries(new') \subseteq Entries(new)
      BY <1>3 DEF LoggerStep, Publish, PushLock, PushFail, PushCommit, ClearBegin,
                  ClearEnd, ClearFlag, Entries
  <2>3. InUse' \subseteq InUse
      BY <2>1, <2>2 DEF InUse
  <2> QED
      BY <2>1, <2>3, HeapInvSame
<1>4. ASSUME NEW u \in Updaters, Deliver(u) PROVE HeapInv'
  <2>1. UNCHANGED <<configs, new, heap, todo, spc, cfg, read>>
      BY <1>4 DEF Deliver
  <2>2. CASE UNCHANGED <<upc, msg, seen>>
    <3>1. InUse' \subseteq InUse
        BY <2>1 DEF InUse
    <3> QED
        BY <2>1, <2>2, <3>1, HeapInvSame
  <2>3. ASSUME NEW p \in Pools, NEW b \in Bins,
               msg' = [msg EXCEPT ![u] = [pool |-> p, bin |-> b]],
               seen' = [seen EXCEPT ![p] = @ \cup {b}],
               upc' = [upc EXCEPT ![u] = "lock"]
        PROVE  HeapInv'
    <3>1. \A q \in Pools : seen[q] \subseteq seen'[q]
        BY <2>3 DEF TypeOK
    <3>2. InUse' = InUse
        BY <2>1 DEF InUse
    <3>3. \A c \in InUse' : WholeWindows(c)'
        BY <2>1, <3>1, <3>2, InUseType DEF HeapInv, WholeWindows, Config
    <3>4. b \in seen'[p]
        BY <2>3 DEF TypeOK
    <3>5. /\ msg'[u].pool = p /\ msg'[u].bin = b
          /\ \A x \in Updaters : x # u => upc'[x] = upc[x] /\ msg'[x] = msg[x]
        BY <2>3 DEF TypeOK
    <3>6. \A x \in Updaters :
             upc'[x] \in {"lock", "walk"} =>
                 msg'[x].pool \in Pools /\ msg'[x].bin \in seen'[msg'[x].pool]
        BY <3>1, <3>4, <3>5 DEF HeapInv
    <3>7. SentArraysReported'
        BY <2>1, <3>1 DEF HeapInv, SentArraysReported
    <3> QED
        BY <3>3, <3>6, <3>7 DEF HeapInv
  <2> QED
      BY <1>4, <2>2, <2>3 DEF Deliver
<1>5. ASSUME NEW u \in Updaters, UpdateVisit(u) PROVE HeapInv'
    BY <1>5, HeapInvVisit
<1>6. ASSUME NEW u \in Updaters, UpdateLock(u) \/ UpdatePanic(u) \/ UpdateReturn(u)
      PROVE  HeapInv'
  <2>1. UNCHANGED <<configs, new, heap, todo, spc, cfg, read, seen>>
      BY <1>6 DEF UpdateLock, UpdatePanic, UpdateReturn
  <2>2. InUse' = InUse
      BY <2>1 DEF InUse
  <2>3. \A c \in InUse' : WholeWindows(c)'
      BY <2>1, <2>2 DEF HeapInv, WholeWindows
  <2>4. \A x \in Updaters :
           upc'[x] \in {"lock", "walk"} =>
               upc[x] \in {"lock", "walk"} /\ msg'[x] = msg[x]
      BY <1>6 DEF UpdateLock, UpdatePanic, UpdateReturn, TypeOK
  <2> QED
      BY <2>1, <2>3, <2>4 DEF HeapInv, SentArraysReported
<1>7. CASE Snapshot
  <2>1. UNCHANGED <<configs, new, heap, spc, cfg, upc, msg, read, seen>>
      BY <1>7 DEF Snapshot
  <2>2. Entries(todo') \subseteq Entries(configs) \cup Entries(todo)
      BY <1>7 DEF Snapshot, HeaderSeen, Entries
  <2>3. InUse' \subseteq InUse
      BY <2>1, <2>2 DEF InUse
  <2> QED
      BY <2>1, <2>3, HeapInvSame
<1>8. ASSUME NEW s \in Senders, Spawn(s) PROVE HeapInv'
  <2>1. /\ UNCHANGED <<configs, new, heap, upc, msg, read, seen>> /\ todo # <<>>
        /\ cfg' = [cfg EXCEPT ![s] = Head(todo)] /\ todo' = Tail(todo)
        /\ spc' = [spc EXCEPT ![s] = "check"]
      BY <1>8 DEF Spawn
  <2>2. Head(todo) \in Entries(todo) /\ Entries(Tail(todo)) \subseteq Entries(todo)
      BY <2>1, HeadTailProperties, LenProperties DEF TypeOK, Entries
  <2>3. \A x \in Senders : spc'[x] # "idle" =>
           cfg'[x] = Head(todo) \/ (spc[x] # "idle" /\ cfg'[x] = cfg[x])
      BY <2>1 DEF TypeOK
  <2>4. InUse' \subseteq InUse
      BY <2>1, <2>2, <2>3 DEF InUse
  <2> QED
      BY <2>1, <2>4, HeapInvSame
<1>9. ASSUME NEW s \in Senders, Check(s) PROVE HeapInv'
  <2>1. /\ UNCHANGED <<configs, new, todo, heap, upc, msg, read, seen>> /\ spc[s] = "check"
        /\ \/ spc' = [spc EXCEPT ![s] = "build"] /\ cfg' = cfg
           \/ spc' = [spc EXCEPT ![s] = "idle"] /\ cfg' = [cfg EXCEPT ![s] = Idle]
      BY <1>9 DEF Check
  <2>2. \A x \in Senders : spc'[x] # "idle" => spc[x] # "idle" /\ cfg'[x] = cfg[x]
      BY <2>1 DEF TypeOK
  <2>3. InUse' \subseteq InUse
      BY <2>1, <2>2 DEF InUse
  <2> QED
      BY <2>1, <2>3, HeapInvSame
<1>10. ASSUME NEW s \in Senders, ReadArrays(s) PROVE HeapInv'
  <2>1. PICK p \in cfg[s].pools :
        read' = [read EXCEPT ![s][p] = heap[cfg[s].ref][p].arrays]
      BY <1>10 DEF ReadArrays
  <2>2. UNCHANGED <<configs, new, todo, heap, spc, cfg, upc, msg, seen>> /\ spc[s] = "build"
      BY <1>10 DEF ReadArrays
  <2>3. cfg[s] \in InUse
      BY <2>2 DEF InUse
  <2>4. p \in Pools
      BY <2>3, InUseType DEF Config
  <2>5. PICK b \in seen[p] : heap[cfg[s].ref][p].arrays = SurroundingArrays(b)
      BY <2>3 DEF HeapInv, WholeWindows
  <2>6. b \in Int
    <3>1. b \in Bins \cup {0}
        BY <2>4 DEF TypeOK
    <3> QED
        BY <3>1, ConstantsAssumption DEF ConstantsAssumption
  <2>7. heap[cfg[s].ref][p].arrays = {(b \div ArraySize) + d : d \in {-1, 0, 1}}
      BY <2>5, <2>6, WindowAroundBin
  <2>8. \A x \in Senders, q \in Pools :
           read'[x][q] = read[x][q]
             \/ (q = p /\ read'[x][q] = {(b \div ArraySize) + d : d \in {-1, 0, 1}})
      BY <2>1, <2>4, <2>7 DEF TypeOK
  <2>9. SentArraysReported'
      BY <2>2, <2>8 DEF HeapInv, SentArraysReported
  <2>10. InUse' = InUse
      BY <2>2 DEF InUse
  <2>11. \A c \in InUse' : WholeWindows(c)'
      BY <2>2, <2>10 DEF HeapInv, WholeWindows
  <2> QED
      BY <2>2, <2>9, <2>11 DEF HeapInv
<1>11. ASSUME NEW s \in Senders, Send(s) PROVE HeapInv'
  <2>1. /\ UNCHANGED <<configs, new, todo, heap, upc, msg, seen>>
        /\ spc' = [spc EXCEPT ![s] = "idle"] /\ cfg' = [cfg EXCEPT ![s] = Idle]
        /\ read' = [read EXCEPT ![s] = [p \in Pools |-> {}]]
      BY <1>11 DEF Send
  <2>2. \A x \in Senders : spc'[x] # "idle" => spc[x] # "idle" /\ cfg'[x] = cfg[x]
      BY <2>1 DEF TypeOK
  <2>3. InUse' \subseteq InUse
      BY <2>1, <2>2 DEF InUse
  <2>4. \A c \in InUse' : WholeWindows(c)'
      BY <2>1, <2>3 DEF HeapInv, WholeWindows
  <2>5. \A x \in Senders, q \in Pools : read'[x][q] # {} => read'[x][q] = read[x][q]
      BY <2>1 DEF TypeOK
  <2>6. SentArraysReported'
      BY <2>1, <2>5 DEF HeapInv, SentArraysReported
  <2> QED
      BY <2>1, <2>4, <2>6 DEF HeapInv
<1>12. CASE Dead \/ UNCHANGED vars
    BY <1>12, HeapInvSame DEF Dead, vars, InUse
<1> QED
    BY <1>1, <1>2, <1>3, <1>4, <1>5, <1>6, <1>7, <1>8, <1>9, <1>10, <1>11, <1>12
       DEF Next, UpdaterStep, SenderStep

LEMMA HeapInit == Init => HeapInv
BY DEF Init, HeapInv, InUse, Entries, SentArraysReported

\* Every array any goroutine can still reach holds whole windows, also those of books
\* replaced long ago, and what was read from one earlier was whole when it was read.
THEOREM HeapCorrect == Spec => []HeapInv
<1>1. Init => HeapInv
    BY HeapInit
<1>2. TypeOK /\ HeapInv /\ [Next]_vars => HeapInv'
    BY HeapInvNext
<1> QED
    BY <1>1, <1>2, TypeCorrect, PTL DEF Spec

\* Every window in a transaction is a whole one around a bin its pool was
\* reported at, whatever the updates write while the sender reads.
THEOREM SentArraysCorrect == Spec => []SentArraysReported
<1>1. HeapInv => SentArraysReported
    BY DEF HeapInv
<1> QED
    BY <1>1, HeapCorrect, PTL
=============================================================================
