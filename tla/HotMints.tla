------------------------------ MODULE HotMints ------------------------------
(***************************************************************************)
(* Finding the hot mints (arbTracker.go).  The receive loop of the "main"  *)
(* stream recognises arbitrage transactions of other bots, names the mint  *)
(* they traded and records the price they paid in mintTracker.  The        *)
(* hot-mint logger drops what left the time window, ranks the mints and    *)
(* publishes HotMintsList; it holds mintTrackerMu while PushToMaster        *)
(* works on the list, and the receive loop waits for it.  A price is a     *)
(* float, counted in halves: the book will round or truncate it.           *)
(***************************************************************************)
EXTENDS SequencesExt

CONSTANTS
    Mints,          \* token mints
    WSOL,           \* the mint of wrapped SOL
    Txs,            \* transactions the stream may deliver
    MintsIgnore,    \* config.MintsIgnore
    NumArbsFilter,  \* config.NumArbsFilter
    Window,         \* config.WindowSeconds, in clock steps
    Percentile,     \* config.CuPricePercentile, in percent
    TopMints,       \* how many mints are looked at: 3 in the program
    MaxTrades,      \* bounds the run: trades recorded at a time
    None            \* no transaction; an amount that does not parse

Balance == [mint: Mints \cup {WSOL}, owner: {"signer", "other"}, amount: Nat \cup {None}]

ASSUME ConstantsAssumption ==
    /\ IsFiniteSet(Mints) /\ WSOL \notin Mints /\ None \notin Nat
    /\ Txs \subseteq [pre: Seq(Balance), post: Seq(Balance), price: Nat] /\ None \notin Txs
    /\ NumArbsFilter \in Nat /\ Window \in Nat /\ TopMints \in Nat
    /\ Percentile \in 0..100

VARIABLES
    mintTracker,   \* recorded trades per mint: price paid, age up to expiry
    HotMintsList,
    tx,            \* the transaction processTrade is called for, or None
    lpc            \* the logger: "idle", "print" or holding the lock in "push"

vars == <<mintTracker, HotMintsList, tx, lpc>>

-----------------------------------------------------------------------------
(* Recognising an arbitrage: pure functions of the token balances before   *)
(* and after the transaction.                                              *)

\* The amounts of the balances at S, added up one after the other; those that do not
\* parse are skipped.
SumOf(bs, S) ==
    LET sum[i \in 0..Len(bs)] ==
            IF i = 0 THEN 0
            ELSE sum[i - 1] + (IF i \in S /\ bs[i].amount # None THEN bs[i].amount ELSE 0)
    IN  sum[Len(bs)]

\* The amounts of a mint, over all owners and over the signer only.
Total(bs, m) == SumOf(bs, {i \in DOMAIN bs : bs[i].mint = m})
Own(bs, m) == SumOf(bs, {i \in DOMAIN bs : bs[i].mint = m /\ bs[i].owner = "signer"})

\* The signer gains WSOL and holds as much of every other mint as before.
isArbitrageTx(t) ==
    /\ \A m \in Mints : Own(t.post, m) = Own(t.pre, m)
    /\ Own(t.post, WSOL) > Own(t.pre, WSOL)

\* Positions of the balances whose mint getTradedToken would return: not WSOL and
\* the total is the same; it returns the first.
TradedAt(t) ==
    {i \in DOMAIN t.post : t.post[i].mint # WSOL
                             /\ Total(t.post, t.post[i].mint) = Total(t.pre, t.post[i].mint)}
getTradedToken(t) == t.post[Min(TradedAt(t))].mint

-----------------------------------------------------------------------------
(* Prices and the ranking.                                                 *)

\* A loop that appends the elements at S to a new list.
Picked(s, S) ==
    LET picked[i \in 0..Len(s)] ==
            IF i = 0 THEN <<>>
            ELSE IF i \in S THEN Append(picked[i - 1], s[i]) ELSE picked[i - 1]
    IN  picked[Len(s)]

\* extractCUPrices: trades without a price do not count.
extractCUPrices(trades) ==
    Picked([i \in DOMAIN trades |-> trades[i].price], {i \in DOMAIN trades : trades[i].price > 0})

\* sort.Float64s.
Sorted(prices) ==
    LET order == CHOOSE o \in SetToSeqs(DOMAIN prices) :
                     \A i, j \in DOMAIN prices : i < j => prices[o[i]] <= prices[o[j]]
    IN  [i \in DOMAIN prices |-> prices[order[i]]]

\* The last index without the minus one, and the index int(float64(n-1)*percentile); the
\* product is exact here, while a float may fall just short of a whole number.
RankPastEnd(n) == ((n * Percentile) \div 100) + 1
Rank(n) == (((n - 1) * Percentile) \div 100) + 1

percentileCUPrice(prices) ==
    IF prices = <<>> THEN 0 ELSE Sorted(prices)[Rank(Len(prices))]

Tracked == {m \in Mints : mintTracker[m] # <<>>}
Trades(m) == Len(mintTracker[m])

\* The orders the map may have handed them out in.
AnyOrder == SetToSeqs(Tracked)

\* The orders sort.Slice may leave the mints in: by trades, ties in any order.
Rankings ==
    {s \in SetToSeqs(Tracked) : \A i, j \in DOMAIN s : i < j => Trades(s[i]) >= Trades(s[j])}

Hot(m) == Trades(m) > NumArbsFilter /\ m \notin MintsIgnore
HotMint(m) == [mint |-> m, price |-> percentileCUPrice(extractCUPrices(mintTracker[m]))]

First(s) == SubSeq(s, 1, IF Len(s) < TopMints THEN Len(s) ELSE TopMints)

\* The hot ones of the first.
HotOfFirst(s) == Picked(First(s), {i \in DOMAIN First(s) : Hot(s[i])})
Report(s) == LET hot == HotOfFirst(s) IN [i \in DOMAIN hot |-> HotMint(hot[i])]

Init ==
    /\ mintTracker = [m \in Mints |-> <<>>]
    /\ HotMintsList = <<>>
    /\ tx = None
    /\ lpc = "idle"

-----------------------------------------------------------------------------
\* Time passes; a trade past the window ages no further.
Elapse ==
    /\ mintTracker' = [m \in Mints |-> [i \in DOMAIN mintTracker[m] |->
           [mintTracker[m][i] EXCEPT !.age = IF @ <= Window THEN @ + 1 ELSE @]]]
    /\ UNCHANGED <<HotMintsList, tx, lpc>>

\* monitorTransactions keeps an arbitrage with a traded token and drops the rest.
Receive ==
    /\ tx = None
    /\ \E t \in Txs :
        /\ isArbitrageTx(t) /\ TradedAt(t) # {}
        /\ MapThenSumSet(Trades, Mints) < MaxTrades
        /\ tx' = t
    /\ UNCHANGED <<mintTracker, HotMintsList, lpc>>

\* processTrade, when mintTrackerMu is free.
ProcessTrade ==
    /\ tx # None /\ lpc # "push"
    /\ mintTracker' = [mintTracker EXCEPT ![getTradedToken(tx)] =
           Append(@, [price |-> tx.price, age |-> 0])]
    /\ tx' = None
    /\ UNCHANGED <<HotMintsList, lpc>>

\* A comparison that loses the trades at the edge of the window.
StillIn(trade) == trade.age < Window
Recent(trade) == trade.age <= Window

\* A tick of the logger: pruneOldTrades takes and releases the lock ...
PruneOldTrades ==
    /\ lpc = "idle"
    /\ mintTracker' = [m \in Mints |->
           Picked(mintTracker[m], {i \in DOMAIN mintTracker[m] : Recent(mintTracker[m][i])})]
    /\ lpc' = "print"
    /\ UNCHANGED <<HotMintsList, tx>>

\* A report that leaves the old list when nothing is hot.
PrintAndKeep ==
    /\ lpc = "print"
    /\ \E s \in Rankings :
           HotMintsList' = IF HotOfFirst(s) = <<>> THEN HotMintsList ELSE Report(s)
    /\ lpc' = "push"
    /\ UNCHANGED <<mintTracker, tx>>

\* A report that adds to the old list.
PrintAndAppend ==
    /\ lpc = "print"
    /\ \E s \in Rankings : HotMintsList' = HotMintsList \o Report(s)
    /\ lpc' = "push"
    /\ UNCHANGED <<mintTracker, tx>>

\* ... printHotMints takes it again and publishes ...
PrintHotMints ==
    /\ lpc = "print"
    /\ \E s \in Rankings : HotMintsList' = Report(s)
    /\ lpc' = "push"
    /\ UNCHANGED <<mintTracker, tx>>

\* A return that forgets the lock when there was nothing to push.
PrintReturnLocked ==
    /\ lpc = "push" /\ HotMintsList # <<>>
    /\ lpc' = "idle"
    /\ UNCHANGED <<mintTracker, HotMintsList, tx>>

\* ... and returns from PushToMaster, or from emptying the book.
PrintReturn ==
    /\ lpc = "push"
    /\ lpc' = "idle"
    /\ UNCHANGED <<mintTracker, HotMintsList, tx>>

LoggerStep == PruneOldTrades \/ PrintHotMints \/ PrintReturn

Next == Elapse \/ Receive \/ ProcessTrade \/ LoggerStep

Spec == Init /\ [][Next]_vars

-----------------------------------------------------------------------------
(* Properties.                                                             *)

TypeOK ==
    /\ mintTracker \in [Mints -> Seq([price: Nat, age: 0..(Window + 1)])]
    /\ HotMintsList \in Seq([mint: Mints, price: Nat])
    /\ Len(HotMintsList) <= TopMints
    /\ tx \in Txs \cup {None}
    /\ lpc \in {"idle", "print", "push"}

Published == {HotMintsList[i].mint : i \in DOMAIN HotMintsList}

\* The published list is exactly the hot part of the top of the ranking: a mint in
\* it is hot and outdone by fewer than TopMints mints; a hot mint missing from it is
\* matched by TopMints others, ignored ones among them; and the list is in order,
\* however sort.Slice broke the ties.
HotListIsTop ==
    lpc = "push" =>
        /\ \A i, j \in DOMAIN HotMintsList :
              i < j => /\ Trades(HotMintsList[i].mint) >= Trades(HotMintsList[j].mint)
                       /\ HotMintsList[i].mint # HotMintsList[j].mint
        /\ \A m \in Published :
              Hot(m) /\ Cardinality({x \in Mints : Trades(x) > Trades(m)}) < TopMints
        /\ \A m \in Mints \ Published :
              Hot(m) => Cardinality({x \in Mints \ {m} : Trades(x) >= Trades(m)}) >= TopMints

\* The price of a published mint is the percentile of the positive prices paid for
\* it, by rank and not by the position of a sorted list; 0 if nobody named a price.
PriceIsPercentile ==
    lpc = "push" =>
        \A h \in {HotMintsList[i] : i \in DOMAIN HotMintsList} :
            LET ts == mintTracker[h.mint]
                priced == {i \in DOMAIN ts : ts[i].price > 0}
                below == Cardinality({i \in priced : ts[i].price < h.price})
                upTo == Cardinality({i \in priced : ts[i].price <= h.price})
                rank == ((Cardinality(priced) - 1) * Percentile) \div 100
            IN  IF priced = {} THEN h.price = 0 ELSE below <= rank /\ rank < upTo

\* No trade inside the window is ever dropped, by a report or by a trade recorded
\* at the same time.
RecentTradesKept ==
    [][Elapse \/ \A m \in Mints :
           Cardinality({i \in DOMAIN mintTracker'[m] : mintTracker'[m][i].age <= Window})
             >= Cardinality({i \in DOMAIN mintTracker[m] : mintTracker[m][i].age <= Window})]_vars

\* A mint nobody trades any more leaves the hot list for good.
Cools ==
    \A m \in Mints :
        <>[](\A i \in DOMAIN mintTracker[m] : mintTracker[m][i].age > 0)
            => <>[](m \notin Published)

\* A trade that was recognised is recorded, however long the reports hold the lock.
TradeRecorded == tx # None ~> tx = None

-----------------------------------------------------------------------------
(* Why the safety properties hold: what every step keeps true.             *)

\* The trade being recorded passed both tests.
Recognised == tx # None => isArbitrageTx(tx) /\ TradedAt(tx) # {}

\* Until the push is over, the published list is what the tracker, whose trades only
\* get older meanwhile, would be reported as.
Reported == lpc = "push" => \E s \in Rankings : HotMintsList = Report(s)

TrackerInv == TypeOK /\ Recognised /\ Reported
-----------------------------------------------------------------------------
(* A claim of the source that the code does not keep, and what it does.    *)

\* The comments of getTradedToken say that it returns the first mint whose balance
\* changed; the code returns the first whose total is the same before and after.
RecordedChanged ==
    tx # None => LET m == getTradedToken(tx) IN Total(tx.post, m) # Total(tx.pre, m)

\* A recorded mint is one of which neither the signer nor the others together hold
\* more or less than before, as isArbitrageTx looks at the signer's accounts and
\* getTradedToken at the sum of all; nothing says that the transaction traded it.
RecordedUnchanged ==
    tx # None =>
        LET m == getTradedToken(tx)
            others(bs) == SumOf(bs, {i \in DOMAIN bs : bs[i].mint = m /\ bs[i].owner = "other"})
        IN  /\ m \in Mints
            /\ Own(tx.post, m) = Own(tx.pre, m)
            /\ others(tx.post) = others(tx.pre)
=============================================================================
