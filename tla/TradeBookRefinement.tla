------------------------- MODULE TradeBookRefinement -------------------------
(***************************************************************************)
(* The proof that TradeBook implements AtomicBook: seen through hotBar,    *)
(* bookBar and dueBar, every step of every goroutine is a step of the      *)
(* atomic book or changes nothing.                                         *)
(***************************************************************************)
EXTENDS TradeBookProofs

-----------------------------------------------------------------------------
(* What the mapping needs: MappingInv is kept by every step.               *)

LEMMA EntriesOf ==
    ASSUME NEW S, NEW s \in Seq(S)
    PROVE  /\ DOMAIN s = 1..Len(s) /\ Len(s) \in Nat
           /\ Entries(s) \subseteq S
           /\ \A e \in Entries(s) : \E i \in DOMAIN s : e = s[i]
           /\ \A i \in DOMAIN s : s[i] \in Entries(s) /\ s[i].mint \in MintsOf(s)
BY LenProperties DEF Entries, MintsOf

LEMMA MappingInit == Init => MappingInv
BY DEF Init, MappingInv, OwnArrays, KeptOrFetched, HotWhenPushed, RealBins, Entries

\* A step that leaves the lists, the arrays and the messages alone, or drops some.
LEMMA MappingSame ==
    ASSUME MappingInv, UNCHANGED <<hot, configs, heap, new, upc, msg>>, HotWhenPushed'
    PROVE  MappingInv'
<1>1. OwnArrays' /\ RealBins'
    BY DEF MappingInv, OwnArrays, RealBins
<1>2. KeptOrFetched'
    BY DEF MappingInv, KeptOrFetched
<1> QED
    BY <1>1, <1>2 DEF MappingInv

\* PushKeep: one entry of the book, with the array it had, stands in both lists.
LEMMA MappingKeep ==
    ASSUME TypeOK, BookInv, MappingInv, PushKeep
    PROVE  MappingInv'
<1> USE DEF bookVars, loggerVars, updaterVars, senderVars
<1>1. PICK i \in DOMAIN configs :
        /\ configs[i].mint = hot[k].mint
        /\ configs' = [configs EXCEPT ![i] = Repriced(@, hot[k])]
        /\ new' = Append(new, Repriced(configs[i], hot[k]))
    BY DEF PushKeep
<1> DEFINE c == Repriced(configs[i], hot[k])
<1>2. /\ lpc = "push" /\ k <= Len(hot) /\ k \in DOMAIN hot
      /\ UNCHANGED <<hot, heap, lpc, upc, msg>>
    BY LenProperties DEF PushKeep, TypeOK
<1>3. /\ c.mint = configs[i].mint /\ c.ref = configs[i].ref
      /\ c.pools = configs[i].pools /\ c.price = Rounded(hot[k].price)
  <2>1. configs[i] \in Config
      BY DEF TypeOK
  <2> QED
      BY <2>1 DEF Repriced, Config
<1>4. /\ DOMAIN configs' = DOMAIN configs /\ configs'[i] = c
      /\ \A j \in DOMAIN configs : j # i => configs'[j] = configs[j]
    BY <1>1 DEF TypeOK
<1>5. /\ DOMAIN new' = 1..(Len(new) + 1) /\ DOMAIN new = 1..Len(new) /\ Len(new) \in Nat
      /\ \A j \in DOMAIN new : new'[j] = new[j]
      /\ new'[Len(new) + 1] = c
    BY <1>1, AppendProperties, LenProperties DEF TypeOK
<1>6. DistinctMints(configs) /\ DistinctMints(hot)
    BY DEF BookInv, BookPricesCurrent, PushedPrefix
<1> HIDE DEF c
<1>7. OwnArrays'
  <2> SUFFICES ASSUME NEW d \in Entries(configs') \cup Entries(new'),
                      NEW e \in Entries(configs') \cup Entries(new'),
                      d.ref = e.ref, d.ref # None
               PROVE  d.mint = e.mint
      BY DEF OwnArrays
  <2>1. \A x \in Entries(configs') \cup Entries(new') :
           x = c \/ x \in Entries(configs) \cup Entries(new)
      BY <1>4, <1>5 DEF Entries
  <2>2. configs[i] \in Entries(configs)
      BY DEF Entries
  <2> DEFINE old(x) == IF x = c THEN configs[i] ELSE x
  <2>3. /\ old(d) \in Entries(configs) \cup Entries(new)
        /\ old(e) \in Entries(configs) \cup Entries(new)
        /\ old(d).ref = d.ref /\ old(e).ref = e.ref
        /\ old(d).mint = d.mint /\ old(e).mint = e.mint
      BY <1>3, <2>1, <2>2
  <2> HIDE DEF old
  <2> QED
      BY <2>3 DEF MappingInv, OwnArrays
<1>8. MintsOf(configs') = MintsOf(configs)
    BY <1>3, <1>4 DEF MintsOf
<1>9. KeptOrFetched'
  <2> SUFFICES ASSUME NEW n \in DOMAIN new', NEW j \in DOMAIN hot,
                      new'[n].mint = hot[j].mint
               PROVE  IF new'[n].mint \in MintsOf(configs')
                      THEN new'[n] \in Entries(configs') /\ new'[n].price = Rounded(hot[j].price)
                      ELSE /\ new'[n].price = Truncated(hot[j].price)
                           /\ \A p \in new'[n].pools :
                                 /\ PoolMint[p] = new'[n].mint
                                 /\ heap'[new'[n].ref][p].bin \in Bins \cup {0}
      BY <1>2 DEF KeptOrFetched
  <2>1. CASE n = Len(new) + 1
    <3>1. new'[n] = c
        BY <1>5, <2>1
    <3>2. j = k
        BY <1>1, <1>2, <1>3, <1>6, <3>1 DEF DistinctMints
    <3>3. c \in Entries(configs') /\ c.mint \in MintsOf(configs')
        BY <1>4 DEF Entries, MintsOf
    <3> QED
        BY <1>3, <3>1, <3>2, <3>3
  <2>2. CASE n \in DOMAIN new
    <3>1. new'[n] = new[n] /\ new[n].mint = hot[j].mint
        BY <1>5, <2>2
    <3>2. new[n].mint # hot[k].mint
      <4>1. PICK x \in 1..(k - 1) : new[n].mint = hot[x].mint
          BY <2>2 DEF BookInv, PushedPrefix
      <4>2. x \in DOMAIN hot /\ x # k
          BY <1>2, LenProperties DEF TypeOK
      <4> QED
          BY <1>2, <1>6, <4>1, <4>2 DEF DistinctMints
    <3>3. CASE new[n].mint \in MintsOf(configs)
      <4>1. new[n] \in Entries(configs) /\ new[n].price = Rounded(hot[j].price)
          BY <2>2, <3>1, <3>3 DEF MappingInv, KeptOrFetched
      <4>2. new[n] \in Entries(configs')
          BY <1>1, <1>4, <3>2, <4>1 DEF Entries
      <4> QED
          BY <1>8, <3>1, <3>3, <4>1, <4>2
    <3>4. CASE new[n].mint \notin MintsOf(configs)
        BY <1>2, <1>8, <2>2, <3>1, <3>4 DEF MappingInv, KeptOrFetched
    <3> QED
        BY <3>3, <3>4
  <2> QED
      BY <1>5, <2>1, <2>2
<1>10. HotWhenPushed' /\ RealBins'
    BY <1>2 DEF MappingInv, HotWhenPushed, RealBins
<1> QED
    BY <1>7, <1>9, <1>10 DEF MappingInv

\* The arrays that PushFetch writes are out of use.
LEMMA FetchKeepsArrays ==
    ASSUME TypeOK, PushFetch, NEW c \in InUse, NEW p \in c.pools
    PROVE  heap'[c.ref][p] = heap[c.ref][p]
<1>1. p \in Pools /\ c.ref \in Refs /\ c.ref \notin FreeRefs /\ c.ref # None
    BY InUseType, ConstantsAssumption DEF Config, FreeRefs, ConstantsAssumption
<1>2. PICK r \in FreeRefs \cup {None} :
        \A x \in Refs \ FreeRefs : x # r => heap'[x] = heap[x]
    BY DEF PushFetch
<1> QED
    BY <1>1, <1>2

\* PushFetch: the new entry has an array of its own and the bins its pools report.
LEMMA MappingFetch ==
    ASSUME TypeOK, BookInv, MappingInv, PushFetch
    PROVE  MappingInv'
<1> USE DEF bookVars, loggerVars, updaterVars, senderVars
<1>1. PICK ps \in SUBSET {p \in Pools : PoolMint[p] = hot[k].mint} :
        \E bin \in [ps -> Bins \cup {0}], r \in IF ps = {} THEN {None} ELSE FreeRefs :
            /\ new' = Append(new, Fetched(hot[k], r, ps))
            /\ heap' = [x \in Refs |->
                   IF x = r THEN FetchedPools(ps, bin)
                   ELSE IF x \in FreeRefs THEN [p \in Pools |-> Zero] ELSE heap[x]]
            /\ seen' = [p \in Pools |->
                   IF p \in ps THEN seen[p] \cup {bin[p]} ELSE seen[p]]
    BY DEF PushFetch
<1>2. PICK bin \in [ps -> Bins \cup {0}], r \in IF ps = {} THEN {None} ELSE FreeRefs :
            /\ new' = Append(new, Fetched(hot[k], r, ps))
            /\ heap' = [x \in Refs |->
                   IF x = r THEN FetchedPools(ps, bin)
                   ELSE IF x \in FreeRefs THEN [p \in Pools |-> Zero] ELSE heap[x]]
            /\ seen' = [p \in Pools |->
                   IF p \in ps THEN seen[p] \cup {bin[p]} ELSE seen[p]]
    BY <1>1
<1> DEFINE c == Fetched(hot[k], r, ps)
<1>3. /\ lpc = "push" /\ k <= Len(hot) /\ k \in DOMAIN hot
      /\ hot[k].mint \notin MintsOf(configs)
      /\ UNCHANGED <<hot, configs, lpc, upc, msg>>
    BY LenProperties DEF PushFetch, TypeOK
<1>4. /\ c.mint = hot[k].mint /\ c.ref = r /\ c.pools = ps
      /\ c.price = Truncated(hot[k].price)
    BY DEF Fetched
<1>5. /\ DOMAIN new' = 1..(Len(new) + 1) /\ DOMAIN new = 1..Len(new) /\ Len(new) \in Nat
      /\ \A j \in DOMAIN new : new'[j] = new[j]
      /\ new'[Len(new) + 1] = c
    BY <1>2, AppendProperties, LenProperties DEF TypeOK
<1>6. DistinctMints(hot)
    BY DEF BookInv, PushedPrefix
<1> HIDE DEF c
<1>7. OwnArrays'
  <2>1. \A x \in Entries(configs') \cup Entries(new') :
           x = c \/ x \in Entries(configs) \cup Entries(new)
      BY <1>3, <1>5 DEF Entries
  <2>2. \A x \in Entries(configs) \cup Entries(new) : x.ref # r \/ r = None
      BY DEF FreeRefs, InUse
  <2> QED
      BY <1>4, <2>1, <2>2 DEF MappingInv, OwnArrays
<1>8. KeptOrFetched'
  <2> SUFFICES ASSUME NEW n \in DOMAIN new', NEW j \in DOMAIN hot,
                      new'[n].mint = hot[j].mint
               PROVE  IF new'[n].mint \in MintsOf(configs)
                      THEN new'[n] \in Entries(configs) /\ new'[n].price = Rounded(hot[j].price)
                      ELSE /\ new'[n].price = Truncated(hot[j].price)
                           /\ \A p \in new'[n].pools :
                                 /\ PoolMint[p] = new'[n].mint
                                 /\ heap'[new'[n].ref][p].bin \in Bins \cup {0}
      BY <1>3 DEF KeptOrFetched
  <2>1. CASE n = Len(new) + 1
    <3>1. new'[n] = c
        BY <1>5, <2>1
    <3>2. j = k
        BY <1>3, <1>4, <1>6, <3>1 DEF DistinctMints
    <3>3. ASSUME NEW p \in ps
          PROVE  PoolMint[p] = c.mint /\ heap'[r][p].bin \in Bins \cup {0}
      <4>1. p \in Pools /\ r \in Refs
          BY DEF FreeRefs
      <4>2. heap'[r][p] = FreshTriple(bin[p])
          BY <1>2, <4>1 DEF FetchedPools
      <4> QED
          BY <1>4, <4>2 DEF FreshTriple
    <3> QED
        BY <1>3, <1>4, <3>1, <3>2, <3>3
  <2>2. CASE n \in DOMAIN new
    <3>1. new'[n] = new[n] /\ new[n].mint = hot[j].mint
        BY <1>5, <2>2
    <3>2. new[n] \in InUse
        BY <2>2 DEF InUse, Entries
    <3>3. \A p \in new[n].pools : heap'[new[n].ref][p] = heap[new[n].ref][p]
        BY <3>2, FetchKeepsArrays
    <3> QED
        BY <2>2, <3>1, <3>3 DEF MappingInv, KeptOrFetched
  <2> QED
      BY <1>5, <2>1, <2>2
<1>9. HotWhenPushed' /\ RealBins'
    BY <1>3 DEF MappingInv, HotWhenPushed, RealBins
<1> QED
    BY <1>7, <1>8, <1>9 DEF MappingInv

LEMMA MappingNext ==
    ASSUME TypeOK, BookInv, MappingInv, [Next]_vars
    PROVE  MappingInv'
<1> USE DEF bookVars, loggerVars, updaterVars, senderVars
<1>1. CASE PushKeep
    BY <1>1, MappingKeep
<1>2. CASE PushFetch
    BY <1>2, MappingFetch
<1>3. ASSUME LoggerStep, ~PushKeep, ~PushFetch, UNCHANGED <<configs, new>>
      PROVE  MappingInv'
  <2>1. UNCHANGED <<heap, upc, msg>> /\ (new # <<>> => UNCHANGED hot)
      BY <1>3 DEF LoggerStep, Publish, PushLock, PushFail, PushCommit, ClearBegin,
                  ClearEnd, ClearFlag, BookInv, MutexHeld
  <2>2. HotWhenPushed'
      BY <1>3 DEF LoggerStep, Publish, PushLock, PushFail, PushCommit, ClearBegin,
                  ClearEnd, ClearFlag, MappingInv, HotWhenPushed
  <2>3. OwnArrays' /\ RealBins'
      BY <1>3, <2>1 DEF MappingInv, OwnArrays, RealBins
  <2>4. KeptOrFetched'
      BY <1>3, <2>1 DEF MappingInv, KeptOrFetched
  <2> QED
      BY <2>2, <2>3, <2>4 DEF MappingInv
<1>4. ASSUME LoggerStep, ~PushKeep, ~PushFetch, ~UNCHANGED <<configs, new>>
      PROVE  MappingInv'
  <2>1. /\ UNCHANGED <<hot, heap, upc, msg>> /\ new' = <<>>
        /\ Entries(configs') \subseteq Entries(configs) \cup Entries(new)
        /\ lpc' \in {"idle", "push", "flag"} /\ (lpc' = "push" => lpc = "lock")
      BY <1>4 DEF LoggerStep, Publish, PushLock, PushFail, PushCommit, ClearBegin,
                  ClearEnd, ClearFlag, Entries, BookInv, MutexHeld
  <2>2. Entries(new') = {}
      BY <2>1 DEF Entries
  <2>3. OwnArrays'
      BY <2>1, <2>2 DEF MappingInv, OwnArrays
  <2> QED
      BY <2>1, <2>3 DEF MappingInv, KeptOrFetched, HotWhenPushed, RealBins
<1>5. ASSUME NEW u \in Updaters, UpdateVisit(u) PROVE MappingInv'
  <2>1. /\ UNCHANGED <<hot, configs, new, lpc, upc, msg>> /\ upc[u] = "walk"
      BY <1>5 DEF UpdateVisit
  <2>2. new = <<>>
      BY <2>1, ConstantsAssumption DEF ConstantsAssumption, BookInv, MutexHeld
  <2> QED
      BY <2>1, <2>2 DEF MappingInv, OwnArrays, KeptOrFetched, HotWhenPushed, RealBins
<1>6. ASSUME NEW u \in Updaters,
             Deliver(u) \/ UpdateLock(u) \/ UpdatePanic(u) \/ UpdateReturn(u)
      PROVE  MappingInv'
  <2>1. UNCHANGED <<hot, configs, heap, new, lpc>>
      BY <1>6 DEF Deliver, UpdateLock, UpdatePanic, UpdateReturn
  <2>2. \A x \in Updaters : upc'[x] \in {"lock", "walk"} =>
           \/ upc[x] \in {"lock", "walk"} /\ msg'[x] = msg[x]
           \/ msg'[x].pool \in Pools /\ msg'[x].bin \in Bins
      BY <1>6 DEF Deliver, UpdateLock, UpdatePanic, UpdateReturn, TypeOK
  <2>3. RealBins'
      BY <2>2 DEF MappingInv, RealBins
  <2>4. KeptOrFetched'
      BY <2>1 DEF MappingInv, KeptOrFetched
  <2> QED
      BY <2>1, <2>3, <2>4 DEF MappingInv, OwnArrays, HotWhenPushed
<1>7. CASE Snapshot \/ (\E s \in Senders : SenderStep(s)) \/ Dead \/ UNCHANGED vars
  <2>1. UNCHANGED <<hot, configs, heap, new, upc, msg, lpc>>
      BY <1>7 DEF Snapshot, SenderStep, Spawn, Check, ReadArrays, Send, Dead, vars
  <2> QED
      BY <2>1, MappingSame DEF MappingInv, HotWhenPushed
<1> QED
    BY <1>1, <1>2, <1>3, <1>4, <1>5, <1>6, <1>7 DEF Next, UpdaterStep

\* The book, the lock and what the mapping to AtomicBook needs hold together in every
\* reachable state: BookInv is needed for the order of the push, MappingInv for
\* whose arrays the entries hold.
THEOREM MappingCorrect == Spec => []RefinementInv
<1>1. Init => MappingInv
    BY MappingInit
<1>2. TypeOK /\ BookInv /\ MappingInv /\ [Next]_vars => MappingInv'
    BY MappingNext
<1>3. BookInv /\ MappingInv => RefinementInv
    BY DEF RefinementInv
<1> QED
    BY <1>1, <1>2, <1>3, TypeCorrect, BookCorrect, PTL DEF Spec

-----------------------------------------------------------------------------
(* The book through the eyes of AtomicBook.                                *)

\* In a list that names a mint once, EntryOf finds the entry.
LEMMA EntryFound ==
    ASSUME NEW s, DistinctMints(s), NEW i \in DOMAIN s
    PROVE  EntryOf(s, s[i].mint) = s[i]
<1>1. s[i] \in Entries(s)
    BY DEF Entries
<1>2. \A e \in Entries(s) : e.mint = s[i].mint => e = s[i]
    BY DEF Entries, DistinctMints
<1> QED
    BY <1>1, <1>2 DEF EntryOf

LEMMA HotListSeen ==
    ASSUME NEW s \in Seq(HotMint), DistinctMints(s)
    PROVE  /\ MintsOf(s) \subseteq Mints
           /\ \A j \in DOMAIN s : EntryOf(s, s[j].mint).price = s[j].price
           /\ [m \in MintsOf(s) |-> EntryOf(s, m).price] \in [MintsOf(s) -> HotPrices]
<1>1. \A j \in DOMAIN s : EntryOf(s, s[j].mint) = s[j]
    BY EntryFound
<1>2. \A j \in DOMAIN s : s[j].mint \in Mints /\ s[j].price \in HotPrices
  <2>1. \A j \in DOMAIN s : s[j] \in HotMint
      BY SeqElement
  <2> QED
      BY <2>1 DEF HotMint
<1> QED
    BY <1>1, <1>2 DEF MintsOf

LEMMA HotSeen ==
    ASSUME TypeOK, DistinctMints(hot)
    PROVE  /\ DOMAIN hotBar = MintsOf(hot)
           /\ \A j \in DOMAIN hot : hot[j].mint \in DOMAIN hotBar /\ hotBar[hot[j].mint] = hot[j].price
<1>1. \A j \in DOMAIN hot : EntryOf(hot, hot[j].mint).price = hot[j].price
    BY HotListSeen DEF TypeOK
<1> QED
    BY <1>1 DEF hotBar, MintsOf

LEMMA BookSeen ==
    ASSUME DistinctMints(configs)
    PROVE  /\ DOMAIN bookBar = MintsOf(configs)
           /\ \A i \in DOMAIN configs :
                 /\ configs[i].mint \in DOMAIN bookBar
                 /\ bookBar[configs[i].mint]
                      = [price |-> configs[i].price, bins |-> BinsOf(configs[i])]
<1>1. \A i \in DOMAIN configs : EntryOf(configs, configs[i].mint) = configs[i]
    BY EntryFound
<1> QED
    BY <1>1 DEF bookBar, MintsOf

\* A step that writes no array of the book leaves the book as it is seen.
LEMMA SeenSame ==
    ASSUME configs' = configs, DistinctMints(configs),
           \A c \in Entries(configs) : \A p \in c.pools : heap'[c.ref][p] = heap[c.ref][p]
    PROVE  bookBar' = bookBar
<1>1. ASSUME NEW m \in MintsOf(configs)
      PROVE  BinsOf(EntryOf(configs, m))' = BinsOf(EntryOf(configs, m))
  <2>1. PICK i \in DOMAIN configs : m = configs[i].mint
      BY DEF MintsOf
  <2>2. EntryOf(configs, m) = configs[i] /\ configs[i] \in Entries(configs)
      BY <2>1, EntryFound DEF Entries
  <2> QED
      BY <2>2 DEF BinsOf
<1> QED
    BY <1>1 DEF bookBar

-----------------------------------------------------------------------------
(* Every step is one of the atomic book's.                                 *)

LEMMA RefinementInit == Init => Atomic!Init
<1> SUFFICES ASSUME Init PROVE Atomic!Init
    OBVIOUS
<1>1. MintsOf(hot) = {} /\ MintsOf(configs) = {}
    BY DEF Init, MintsOf
<1>2. hotBar = Atomic!Nothing
    BY <1>1 DEF hotBar, Atomic!Nothing
<1>3. bookBar = Atomic!Nothing
    BY <1>1 DEF bookBar, Atomic!Nothing
<1>4. dueBar = FALSE
    BY DEF Init, dueBar
<1> QED
    BY <1>2, <1>3, <1>4 DEF Atomic!Init

\* A published list is reported, whatever is in it.
LEMMA PublishReports ==
    ASSUME TypeOK, RefinementInv, Publish, TypeOK', RefinementInv'
    PROVE  Atomic!Report
<1> USE DEF bookVars, loggerVars, updaterVars, senderVars
<1>1. lpc = "idle" /\ lpc' \in {"clear", "lock"} /\ UNCHANGED <<configs, heap>>
    BY DEF Publish
<1>2. dueBar = FALSE /\ dueBar' = TRUE
    BY <1>1 DEF dueBar
<1>3. bookBar' = bookBar
    BY <1>1 DEF bookBar, BinsOf
<1>4. hotBar' \in [MintsOf(hot') -> HotPrices] /\ MintsOf(hot') \in SUBSET Mints
  <2>1. hot' \in Seq(HotMint) /\ DistinctMints(hot')
      BY DEF TypeOK, RefinementInv, BookInv, PushedPrefix
  <2> QED
      BY <2>1, HotListSeen DEF hotBar
<1> QED
    BY <1>2, <1>3, <1>4 DEF Atomic!Report

\* What the mapping lemmas ask of a state, from its invariants.
LEMMA DistinctLists ==
    ASSUME RefinementInv
    PROVE  DistinctMints(hot) /\ DistinctMints(configs) /\ DistinctMints(new)
BY DEF RefinementInv, BookInv, PushedPrefix, BookPricesCurrent

\* The price that PushKeep writes into the book shows before the rest.
LEMMA KeepReprices ==
    ASSUME TypeOK, RefinementInv, PushKeep, RefinementInv'
    PROVE  \E m \in Mints : Atomic!Reprice(m)
<1> USE DEF bookVars, loggerVars, updaterVars, senderVars
<1>1. PICK i \in DOMAIN configs :
        /\ configs[i].mint = hot[k].mint
        /\ configs' = [configs EXCEPT ![i] = Repriced(@, hot[k])]
    BY DEF PushKeep
<1> DEFINE m == hot[k].mint
<1>2. /\ lpc = "push" /\ k \in DOMAIN hot /\ UNCHANGED <<hot, heap, lpc>>
    BY LenProperties DEF PushKeep, TypeOK
<1>3. DistinctMints(hot) /\ DistinctMints(configs) /\ DistinctMints(configs')
    BY DistinctLists DEF RefinementInv, BookInv, BookPricesCurrent
<1>4. /\ configs[i] \in Config /\ m \in Mints
      /\ DOMAIN configs' = DOMAIN configs
      /\ configs'[i] = [configs[i] EXCEPT !.price = Rounded(hot[k].price)]
      /\ \A j \in DOMAIN configs : j # i => configs'[j] = configs[j]
  <2>1. configs[i] \in Config
      BY DEF TypeOK
  <2> QED
      BY <1>1, <2>1 DEF TypeOK, Repriced, Config
<1>5. /\ configs'[i].mint = m /\ configs'[i].price = Rounded(hot[k].price)
      /\ configs'[i].ref = configs[i].ref /\ configs'[i].pools = configs[i].pools
    BY <1>1, <1>4 DEF Config
<1>6. MintsOf(configs') = MintsOf(configs) /\ m \in MintsOf(configs)
    BY <1>1, <1>4, <1>5 DEF MintsOf
<1>7. hotBar' = hotBar /\ m \in DOMAIN hotBar /\ hotBar[m] = hot[k].price
    BY <1>2, <1>3, HotSeen DEF hotBar
<1>8. dueBar = TRUE /\ dueBar' = TRUE
    BY <1>2 DEF dueBar
<1>9. /\ DOMAIN bookBar = MintsOf(configs)
      /\ bookBar[m] = [price |-> configs[i].price, bins |-> BinsOf(configs[i])]
    BY <1>1, <1>3, BookSeen
<1>10. \A x \in MintsOf(configs) :
          EntryOf(configs', x) = IF x = m THEN configs'[i] ELSE EntryOf(configs, x)
  <2> TAKE x \in MintsOf(configs)
  <2>1. PICK j \in DOMAIN configs : configs[j].mint = x
      BY DEF MintsOf
  <2>2. EntryOf(configs, x) = configs[j]
      BY <1>3, <2>1, EntryFound
  <2>3. configs'[j].mint = x
      BY <1>1, <1>4, <1>5, <2>1
  <2>4. EntryOf(configs', x) = configs'[j]
      BY <1>3, <1>4, <2>3, EntryFound
  <2> QED
      BY <1>1, <1>3, <1>4, <2>1, <2>2, <2>4 DEF DistinctMints
<1>11. bookBar' = [x \in MintsOf(configs) |->
          [price |-> EntryOf(configs', x).price,
           bins |-> [p \in EntryOf(configs', x).pools |-> heap[EntryOf(configs', x).ref][p].bin]]]
    BY <1>2, <1>6 DEF bookBar, BinsOf
<1>12. bookBar'[m] = [price |-> Rounded(hot[k].price), bins |-> BinsOf(configs[i])]
    BY <1>5, <1>6, <1>10, <1>11 DEF BinsOf
<1>13. \A x \in MintsOf(configs) : x # m => bookBar'[x] = bookBar[x]
    BY <1>10, <1>11 DEF bookBar, BinsOf
<1>14. bookBar' = [bookBar EXCEPT ![m] = Atomic!KeptEntry(m)]
  <2>1. Atomic!KeptEntry(m) = bookBar'[m]
      BY <1>7, <1>9, <1>12 DEF Atomic!KeptEntry, Atomic!Rounded, Rounded
  <2>2. DOMAIN bookBar' = DOMAIN bookBar
      BY <1>9, <1>11
  <2> QED
      BY <1>6, <1>9, <1>11, <1>13, <2>1, <2>2 DEF bookBar
<1> QED
    BY <1>4, <1>6, <1>7, <1>8, <1>9, <1>14 DEF Atomic!Reprice

\* An entry of newConfigs is one AtomicBook may install for its mint.
LEMMA NewEntryAllowed ==
    ASSUME TypeOK, RefinementInv, NEW i \in DOMAIN new
    PROVE  /\ new[i].mint \in DOMAIN hotBar
           /\ [price |-> new[i].price, bins |-> BinsOf(new[i])] \in Atomic!EntriesFor(new[i].mint)
<1> DEFINE m == new[i].mint
           e == [price |-> new[i].price, bins |-> BinsOf(new[i])]
<1>1. PICK j \in 1..(k - 1) : m = hot[j].mint
    BY DEF RefinementInv, BookInv, PushedPrefix
<1>2. j \in DOMAIN hot
    BY LenProperties DEF RefinementInv, BookInv, MutexHeld, TypeOK
<1>3. m \in DOMAIN hotBar /\ hotBar[m] = hot[j].price
    BY <1>1, <1>2, HotSeen, DistinctLists
<1>4. new[i] \in Config
    BY DEF TypeOK
<1>5. DOMAIN bookBar = MintsOf(configs)
    BY BookSeen, DistinctLists
<1>6. CASE m \in MintsOf(configs)
  <2>1. new[i] \in Entries(configs) /\ new[i].price = Rounded(hot[j].price)
      BY <1>1, <1>2, <1>6 DEF RefinementInv, MappingInv, KeptOrFetched
  <2>2. bookBar[m] = e
    <3>1. PICK x \in DOMAIN configs : new[i] = configs[x]
        BY <2>1 DEF Entries
    <3> QED
        BY <3>1, BookSeen, DistinctLists
  <2>3. Atomic!KeptEntry(m) = e
      BY <1>3, <2>1, <2>2 DEF Atomic!KeptEntry, Atomic!Rounded, Rounded
  <2> QED
      BY <1>3, <1>5, <1>6, <2>3 DEF Atomic!EntriesFor
<1>7. CASE m \notin MintsOf(configs)
  <2>1. /\ new[i].price = Truncated(hot[j].price)
        /\ \A p \in new[i].pools :
              PoolMint[p] = m /\ heap[new[i].ref][p].bin \in Bins \cup {0}
      BY <1>1, <1>2, <1>7 DEF RefinementInv, MappingInv, KeptOrFetched
  <2>2. new[i].pools \in SUBSET Atomic!PoolsOfMint(m)
      BY <1>4, <2>1 DEF Config, Atomic!PoolsOfMint
  <2>3. BinsOf(new[i]) \in [new[i].pools -> Bins \cup {0}]
      BY <2>1 DEF BinsOf
  <2>4. e.price = Atomic!Truncated(hotBar[m])
      BY <1>3, <2>1 DEF Truncated, Atomic!Truncated
  <2>5. e \in Atomic!FetchedEntries(m)
      BY <2>2, <2>3, <2>4 DEF Atomic!FetchedEntries
  <2> QED
      BY <1>3, <1>5, <1>7, <2>5 DEF Atomic!EntriesFor
<1> QED
    BY <1>3, <1>6, <1>7

\* The end of PushToMaster turns the book over, or leaves it alone when nothing of
\* the old book is hot and nothing could be fetched.
LEMMA CommitSettles ==
    ASSUME TypeOK, RefinementInv, PushCommit
    PROVE  Atomic!Replace \/ Atomic!Skip
<1> USE DEF bookVars, loggerVars, updaterVars, senderVars
<1>1. /\ lpc = "push" /\ lpc' = "idle" /\ UNCHANGED <<hot, heap>>
      /\ configs' = IF new # <<>> THEN new ELSE configs
    BY DEF PushCommit
<1>2. dueBar = TRUE /\ dueBar' = FALSE
    BY <1>1 DEF dueBar
<1>3. hotBar' = hotBar /\ DOMAIN hotBar = MintsOf(hot)
    BY <1>1, HotSeen, DistinctLists DEF hotBar
<1>4. DOMAIN bookBar = MintsOf(configs)
    BY BookSeen, DistinctLists
<1>5. MintsOf(hot) \cap MintsOf(configs) \subseteq MintsOf(new)
  <2>1. DOMAIN hot \subseteq 1..(k - 1)
      BY LenProperties DEF PushCommit, TypeOK
  <2> QED
      BY <2>1 DEF MintsOf, RefinementInv, BookInv, PushedPrefix
<1>6. CASE new = <<>>
  <2>1. bookBar' = bookBar
      BY <1>1, <1>6 DEF bookBar, BinsOf
  <2>2. MintsOf(new) = {}
      BY <1>6 DEF MintsOf
  <2>3. MintsOf(hot) # {}
    <3>1. hot # <<>>
        BY <1>1 DEF RefinementInv, MappingInv, HotWhenPushed
    <3>2. 1 \in DOMAIN hot
        BY <3>1, LenProperties, EmptySeq DEF TypeOK
    <3> QED
        BY <3>2 DEF MintsOf
  <2> QED
      BY <1>2, <1>3, <1>4, <1>5, <2>1, <2>2, <2>3 DEF Atomic!Skip
<1>7. CASE new # <<>>
  <2> DEFINE S == MintsOf(new)
  <2>1. configs' = new
      BY <1>1, <1>7
  <2>2. ASSUME NEW m \in S
        PROVE  m \in DOMAIN hotBar /\ bookBar'[m] \in Atomic!EntriesFor(m)
    <3>1. PICK i \in DOMAIN new : m = new[i].mint
        BY DEF MintsOf
    <3>2. EntryOf(new, m) = new[i]
        BY <3>1, EntryFound, DistinctLists
    <3>3. bookBar'[m] = [price |-> new[i].price, bins |-> BinsOf(new[i])]
        BY <1>1, <2>1, <3>2 DEF bookBar, BinsOf
    <3> QED
        BY <3>1, <3>3, NewEntryAllowed
  <2>3. S \in SUBSET DOMAIN hotBar /\ MintsOf(hot) \cap MintsOf(configs) \subseteq S
      BY <1>5, <2>2
  <2>4. S # {}
    <3>1. 1 \in DOMAIN new
        BY <1>7, LenProperties, EmptySeq DEF TypeOK
    <3> QED
        BY <3>1 DEF MintsOf
  <2>5. bookBar' = [m \in S |-> bookBar'[m]]
      BY <2>1 DEF bookBar
  <2> HIDE DEF S
  <2>6. bookBar' \in [S -> UNION {Atomic!EntriesFor(m) : m \in S}]
      BY <2>2, <2>5
  <2> QED
      BY <1>2, <1>3, <1>4, <2>2, <2>3, <2>4, <2>6 DEF Atomic!Replace
<1> QED
    BY <1>6, <1>7

\* The unlocked store of an empty slice empties the book.
LEMMA ClearEmpties ==
    ASSUME TypeOK, RefinementInv, ClearEnd
    PROVE  Atomic!Empty
<1>1. /\ lpc = "clearing" /\ lpc' = "flag" /\ UNCHANGED hot /\ configs' = <<>>
    BY DEF ClearEnd
<1>2. dueBar = TRUE /\ dueBar' = FALSE
    BY <1>1 DEF dueBar
<1>3. hot = <<>>
    BY <1>1 DEF RefinementInv, MappingInv, HotWhenPushed
<1>4. hotBar' = hotBar /\ DOMAIN hotBar = {}
    BY <1>1, <1>3 DEF hotBar, MintsOf
<1>5. bookBar' = Atomic!Nothing
    BY <1>1 DEF bookBar, MintsOf, Atomic!Nothing
<1> QED
    BY <1>2, <1>4, <1>5 DEF Atomic!Empty

\* A turn of the walk moves one pool of one entry, or nothing: no other entry of the
\* book shares the array it writes.
LEMMA VisitMoves ==
    ASSUME TypeOK, RefinementInv, NEW u \in Updaters, UpdateVisit(u)
    PROVE  \/ \E m \in Mints, p \in Pools, b \in Bins : Atomic!Move(m, p, b)
           \/ bookBar' = bookBar
<1> USE DEF bookVars, loggerVars, updaterVars, senderVars
<1>1. upc[u] = "walk" /\ UNCHANGED <<configs, hot, lpc>>
    BY DEF UpdateVisit
<1>2. PICK h \in HeaderSeen :
        /\ at[u] \in DOMAIN h
        /\ heap' = [r \in Refs |-> [p \in Pools |->
               IF r = h[at[u]].ref /\ p \in Moved(h[at[u]], msg[u])
               THEN FreshTriple(msg[u].bin) ELSE heap[r][p]]]
    BY DEF UpdateVisit
<1>3. h = configs
    BY <1>2 DEF HeaderSeen
<1> DEFINE i == at[u]
           c == configs[i]
           q == msg[u].pool
<1>4. i \in DOMAIN configs /\ c \in Config /\ c \in Entries(configs)
    BY <1>2, <1>3, EntriesOf DEF TypeOK
<1>5. q \in Pools /\ msg[u].bin \in Bins
    BY <1>1 DEF RefinementInv, MappingInv, RealBins
<1>6. hotBar' = hotBar /\ dueBar' = dueBar
    BY <1>1 DEF hotBar, dueBar
<1>7. \A x \in DOMAIN configs : EntryOf(configs, configs[x].mint) = configs[x]
    BY EntryFound, DistinctLists
<1>8. ASSUME NEW d \in Entries(configs), NEW p \in d.pools,
             heap'[d.ref][p] # heap[d.ref][p]
      PROVE  d = c /\ p = q /\ q \in c.pools /\ heap'[d.ref][p].bin = msg[u].bin
  <2>1. PICK x \in DOMAIN configs : d = configs[x]
      BY DEF Entries
  <2>2. d \in Config
      BY EntriesOf DEF TypeOK
  <2>3. p \in Pools /\ d.ref \in Refs /\ d.ref # None
      BY <2>2, ConstantsAssumption DEF Config, ConstantsAssumption
  <2>4. d.ref = c.ref /\ p \in Moved(c, msg[u])
      BY <1>2, <1>3, <1>8, <2>3
  <2>5. d.mint = c.mint
      BY <1>4, <2>3, <2>4 DEF RefinementInv, MappingInv, OwnArrays
  <2>6. d = c
      BY <1>4, <1>7, <2>1, <2>5
  <2> QED
      BY <1>2, <1>3, <2>3, <2>4, <2>6 DEF Moved, FreshTriple
<1>9. CASE \A d \in Entries(configs) : \A p \in d.pools : heap'[d.ref][p] = heap[d.ref][p]
    BY <1>1, <1>9, SeenSame, DistinctLists
<1>10. CASE \E d \in Entries(configs) : \E p \in d.pools : heap'[d.ref][p] # heap[d.ref][p]
  <2>1. q \in c.pools /\ heap'[c.ref][q].bin = msg[u].bin
      BY <1>8, <1>10
  <2>2. \A p \in c.pools : p # q => heap'[c.ref][p] = heap[c.ref][p]
      BY <1>4, <1>8
  <2>3. \A d \in Entries(configs) : d # c => \A p \in d.pools : heap'[d.ref][p] = heap[d.ref][p]
      BY <1>8
  <2> DEFINE m == c.mint
             bins == [p \in c.pools |-> heap[c.ref][p].bin]
             moved == [p \in c.pools |-> heap'[c.ref][p].bin]
  <2>4. moved = [bins EXCEPT ![q] = msg[u].bin]
      BY <2>1, <2>2
  <2>5. /\ DOMAIN bookBar = MintsOf(configs) /\ m \in DOMAIN bookBar
        /\ bookBar[m] = [price |-> c.price, bins |-> bins]
      BY <1>4, BookSeen, DistinctLists DEF BinsOf
  <2>6. bookBar' = [x \in MintsOf(configs) |->
            [price |-> EntryOf(configs, x).price,
             bins |-> [p \in EntryOf(configs, x).pools |-> heap'[EntryOf(configs, x).ref][p].bin]]]
      BY <1>1 DEF bookBar, BinsOf
  <2>7. bookBar'[m] = [price |-> c.price, bins |-> moved]
      BY <1>4, <1>7, <2>5, <2>6
  <2>8. ASSUME NEW x \in MintsOf(configs), x # m PROVE bookBar'[x] = bookBar[x]
    <3>1. PICK y \in DOMAIN configs : x = configs[y].mint
        BY DEF MintsOf
    <3>2. EntryOf(configs, x) = configs[y] /\ configs[y] \in Entries(configs) /\ configs[y] # c
        BY <1>7, <2>8, <3>1 DEF Entries
    <3>3. [p \in configs[y].pools |-> heap'[configs[y].ref][p].bin] = BinsOf(configs[y])
        BY <2>3, <3>2 DEF BinsOf
    <3>4. bookBar[x] = [price |-> configs[y].price, bins |-> BinsOf(configs[y])]
        BY <3>1, BookSeen, DistinctLists
    <3> QED
        BY <2>6, <3>2, <3>3, <3>4
  <2> HIDE DEF bins, moved, m, c, q
  <2>9. bookBar' = [bookBar EXCEPT ![m].bins[q] = msg[u].bin]
    <3>1. bookBar'[m] = [bookBar[m] EXCEPT !.bins[q] = msg[u].bin]
        BY <2>4, <2>5, <2>7
    <3>2. DOMAIN bookBar' = DOMAIN bookBar
        BY <2>5, <2>6
    <3>3. bookBar' = [bookBar EXCEPT ![m] = bookBar'[m]]
        BY <2>5, <2>6, <2>8, <3>2 DEF bookBar
    <3> QED
        BY <3>1, <3>3
  <2>10. m \in Mints
      BY <1>4 DEF m, Config
  <2>11. q \in DOMAIN bookBar[m].bins
      BY <2>1, <2>5 DEF bins
  <2> QED
      BY <1>5, <1>6, <2>5, <2>9, <2>10, <2>11 DEF Atomic!Move
<1> QED
    BY <1>9, <1>10

\* Every step, under the invariants before and after it.
LEMMA RefinementNext ==
    ASSUME TypeOK, RefinementInv, TypeOK', RefinementInv', [Next]_vars
    PROVE  [Atomic!Next]_<<hotBar, bookBar, dueBar>>
<1> USE DEF bookVars, loggerVars, updaterVars, senderVars
<1>1. CASE Publish
    BY <1>1, PublishReports DEF Atomic!Next
<1>2. CASE PushKeep
    BY <1>2, KeepReprices DEF Atomic!Next
<1>3. CASE PushCommit
    BY <1>3, CommitSettles DEF Atomic!Next, Atomic!Settle
<1>4. CASE ClearEnd
    BY <1>4, ClearEmpties DEF Atomic!Next, Atomic!Settle
<1>5. ASSUME NEW u \in Updaters, UpdateVisit(u)
      PROVE  [Atomic!Next]_<<hotBar, bookBar, dueBar>>
  <2>1. hotBar' = hotBar /\ dueBar' = dueBar
      BY <1>5 DEF UpdateVisit, hotBar, dueBar
  <2> QED
      BY <1>5, <2>1, VisitMoves DEF Atomic!Next
<1>6. CASE PushFetch
  <2>1. UNCHANGED <<configs, hot, lpc>>
      BY <1>6 DEF PushFetch
  <2>2. bookBar' = bookBar
      BY <1>6, <2>1, FetchKeepsArrays, SeenSame, DistinctLists DEF InUse
  <2> QED
      BY <2>1, <2>2 DEF hotBar, dueBar
<1>7. CASE PushLock \/ PushFail \/ ClearBegin \/ ClearFlag
  <2>1. UNCHANGED <<configs, heap, hot>>
      BY <1>7 DEF PushLock, PushFail, ClearBegin, ClearFlag
  <2>2. dueBar' = dueBar
      BY <1>7 DEF PushLock, PushFail, ClearBegin, ClearFlag, dueBar
  <2> QED
      BY <2>1, <2>2 DEF hotBar, bookBar, BinsOf
<1>8. CASE \/ \E u \in Updaters :
                 Deliver(u) \/ UpdateLock(u) \/ UpdatePanic(u) \/ UpdateReturn(u)
           \/ Snapshot \/ (\E s \in Senders : SenderStep(s)) \/ Dead \/ UNCHANGED vars
  <2>1. UNCHANGED <<configs, heap, hot, lpc>>
      BY <1>8 DEF Deliver, UpdateLock, UpdatePanic, UpdateReturn, Snapshot, SenderStep,
                  Spawn, Check, ReadArrays, Send, Dead, vars
  <2> QED
      BY <2>1 DEF hotBar, bookBar, dueBar, BinsOf
<1> QED
    BY <1>1, <1>2, <1>3, <1>4, <1>5, <1>6, <1>7, <1>8 DEF Next, LoggerStep, UpdaterStep

\* The goroutines that race over TradeConfigs implement the book that changes in one
\* step: no lock, copy, shared array or half-built list shows through.
THEOREM Refinement == Spec => ImplementsAtomicBook
<1>1. Init => Atomic!Init
    BY RefinementInit
<1>2. /\ TypeOK /\ TypeOK' /\ RefinementInv /\ RefinementInv' /\ [Next]_vars
      => [Atomic!Next]_<<hotBar, bookBar, dueBar>>
    BY RefinementNext
<1> QED
    BY <1>1, <1>2, TypeCorrect, MappingCorrect, PTL
       DEF Spec, ImplementsAtomicBook, Atomic!Spec, Atomic!vars
=============================================================================
