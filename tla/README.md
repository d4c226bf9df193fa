# arbTracker in TLA+

arbTracker is a Solana arbitrage bot in Go: it watches the transactions of other
bots over gRPC, finds the mints they trade most, and sends transactions of its
own for those mints. It is one process of many goroutines over a few global
variables, some behind mutexes and some not, with no tests. This directory models
that shared state and who changes it when.

Paths below are relative to `src/`. `PROJECT.json` maps every definition to its
lines and lists the hazards, the disagreements found and the theorems.

## Inventory

| component | state | operations |
|---|---|---|
| hot-mint tracker (`arbTracker.go`) | `mintTracker` under `mintTrackerMu`, `HotMintsList` | `isArbitrageTx`, `getTradedToken`, `processTrade` (main stream); `pruneOldTrades`, `printHotMints` (logger, every `CheckInterval` s) |
| trade book (`types`, `tradeConfig`, `fetcherMeteora`) | `TradeConfigs` under `types.Mu` (mostly); the DLMM slices inside, shared by every copy | `PushToMaster`, the emptying in `printHotMints`, `UpdateDLMMActiveBin`, `GetAllConfigs` |
| bin-array window (`fetcherMeteora`) | none | `FloorDiv`, `GetSurroundingBinPDAs` |
| account subscriptions (`fetcherMeteora`, `globals`) | `CurrentDLMMPools`, `worker.Subscription` under `SendMutex`; the filter at the server | `ReplaceDLMMAccountSubscriptions` and its two requests |
| bin-movement gate (`binMonitor`) | `binHistories` under its own mutex | `RecordBinMovement`, `pruneAndCalculateVolatility` |
| trade loop and senders (`tradeLoop`, `onchainSMB`) | a snapshot per tick | snapshot, one goroutine per entry, `SendTx`, `BlastTx` |
| dynamic CU price (`dynamicCU`) | `LandedSlots` under `LandedMu`; `TradeActive`, `LastTradeTime`, `dynamicCUActive`, `CurrentMultiplier` under nothing | `RecordLandedSlot` (wallet stream), `UpdateTrackingState`, `updateCUPriceMultiplier` (every `DynamicLoopInterval` s) |
| gRPC streams (`arbTracker.go`) | `StreamWorkers` | connect, subscribe, receive loop |
| market discovery (`dexScreener`, `fetcher*`, `rayCpmm`, `meteoraAmm`) | the pairs listed and the pools read, while a mint is looked up | `QueryDexScreener`, `FetchTradeConfigForMint` and the four fetchers it asks |
| start-up and shutdown (`main`, `init`) | globals without locks: clients, key, tables, workers; the context | one sequence, with the loops already running; signals |
| blockhash cache (`blockhashRefresh`) | `LatestBlockhash` under a `RWMutex` | the refresher's loop, `GetCachedBlockhash` |
| lookup tables (`alt`), ATA creation (`GetOrCreateATA`) | two tables of addresses; an account on the chain | load at start-up, use by senders; one call per pushed mint |
| configuration, key file, flags, `kamino.go` | read once, or unused | see "Not modelled" |

How they interact:

    main stream --trades--> mintTracker --logger--> HotMintsList
        |                                             | PushToMaster (types.Mu)
        |                                             v
        +--account updates--> UpdateDLMMActiveBin --> TradeConfigs --go--> ReplaceDLMM...
               ^                                      |                        | two requests
               +--------- subscription ---------------|------------------------+
        market discovery --pools--> PushToMaster      v GetAllConfigs
    wallet stream --slots--> LandedSlots --> multiplier --> senders --> transactions

Calls go by shared variables except three: the logger calls `PushToMaster`
holding `mintTrackerMu`; `PushToMaster` holds `types.Mu` during RPC and HTTP
calls and starts the resubscription as a goroutine; every account update starts a
goroutine. What is hard: the interleavings over `types.Mu`, the accesses outside
it, the sharing of DLMM slices between copies, failures in the middle of a push or
of a resubscription, two-step unlocked flags, and integer edges.

Correctness, per component: the tracker drops no recent trade and publishes the right
mints at the right price; the book follows the hot
list, its prices and its flag agree with it, and no update is lost; what a sender
reads without a lock is still a whole window; the recorded subscription is the
served one and nothing followed is lost; the landing rate counts a window of
slots and tracking follows trading; a mint is refused only when it has too few
markets, and the deepest are used; nothing is used before it is set, a signal ends
the process wherever it is, and an expired blockhash is replaced. Across
components: what is traded was traded by others, and trading ends when they stop.

## Modules

| module | models |
|---|---|
| `BinArrays` | bin-array indices on signed ids, with Go's truncating division written out |
| `AtomicBook` | what the book promises: it follows a report in one step, and its bins move |
| `TradeBook` | the book, extends `BinArrays`; composes logger, update goroutines, trade loop, senders and the movement gate; implements `AtomicBook` |
| `Subscriptions` | the calls of `ReplaceDLMMAccountSubscriptions`, the worker and the server's filter |
| `DynamicCU` | landed slots, tracking state, multiplier and bid |
| `HotMints` | recognition, window, ranking, publication |
| `Pipeline` | `HotMints` composed with `AtomicBook`: from a trade of others to the book |
| `MarketSelect` | the markets of one mint: order, filter, counts, and what ends the process |
| `Lifecycle` | `main`, signals, all loops, and the globals they need, from start to end |
| `MC...` | constants for TLC; `DynamicCU` and `Lifecycle` need none |
| `TradeBookRefinement` | the proof that `TradeBook` implements `AtomicBook` |
| `...Proofs` | theorems about the module of that name; `HotMintsProofs` is about `Pipeline` too |
| `Lists` | lemmas about numbers, lists and loops that several proofs cite |

How state and actions correspond to the code:

* **TradeBook.** A configuration is its mint, price, set of DLMM pools and a
  reference to the backing array of its DLMM slice; `heap` holds the arrays, so that
  copies (book, half-built book, snapshot, senders) share them as in Go. `Refs`
  bounds the arrays alive at once; an array nobody reaches may be reused, as the
  collector would. The logger is `Publish`, then either `PushLock`, one of
  `PushKeep`/`PushFetch`/`PushFail` per hot mint, `PushCommit`; or `ClearBegin`,
  `ClearEnd`, `ClearFlag`. The assignment without the lock (`arbTracker.go:430`) has
  a begin and an end, and between them a reader may see either value
  (`HeaderSeen`) or end the process on a mixed one. An update goroutine is
  `Deliver`, `UpdateLock`, one `UpdateVisit` per entry, `UpdateReturn` or
  `UpdatePanic`; the bound of Go's `range` is taken once and each `&TradeConfigs[i]`
  reads the header anew. A sender is `Spawn`, `Check`, one `ReadArrays` per pool,
  `Send`. `fault` says what ended the process (panics and `log.Fatalf`), after which
  only `Dead` stutters. Prices are counted in halves, so that truncation and
  rounding differ. Public keys derived from an index are that index. The walk of one
  entry's pools is one step: it holds `types.Mu`, and a sender reads the arrays of one
  pool in one step. An instance without senders has no trade loop either (a guard of
  `Snapshot`), since copies nobody reads change nothing. A torn read of a slice header of `BinArrays` is not a further outcome:
  every value has length and capacity three, so only the pointer varies.
* **Subscriptions.** `marked` is `CurrentDLMMPools`, `sub` the accounts recorded in
  the worker, `filter` what the server serves. `Mark` is the loop with its early
  return, `SendEmpty` and `SendUpdated` the two requests, each of which may fail; a
  failed stream stays failed, because nothing reconnects it.
* **DynamicCU.** The multiplier starts at 1, is multiplied and divided by one factor
  and floored at 1, so it is a power of the factor, `level`. `LastTradeTime` is an
  age that stops at a minute. Every unlocked load and store of the flag and the
  stamp is a step; a clock step is longer than the gap between two adjacent ones. The
  pruning of `LandedSlots` is one step per deletion, since the loop reads its length
  without the lock. Floats are integers here except where the conversion to `int`
  matters: `Bid` has the width of `int` as a constant.
* **HotMints.** A transaction is its two lists of token balances, with mint, owner
  (the signer or not) and amount, and the price it paid. Amounts that do not parse
  are `None` and skipped, as in the code. A recorded trade is its price and its age.
  Prices are floats in the code and counted in halves here, as in `TradeBook`: the
  percentile picks one of them, and the book truncates or rounds it. `Rank` computes
  `int(float64(n-1)*percentile)` exactly; where the product of floats falls just short of a
  whole number, the code takes the price one rank lower.
  `sort.Slice` is not stable and the map has no order, so `Rankings` has every
  order of ties. The logger holds `mintTrackerMu` from `PrintHotMints` until
  `PrintReturn`, while `PushToMaster` works; `ProcessTrade` waits for it.
  `TopMints` is the literal 3 of the loop. `mintTradeTracker` is left out: it is
  written and never read.
* **AtomicBook and the refinement.** `AtomicBook` has a report, a book and whether
  the book has yet to follow the report. `Report` makes it due; `Replace`, `Skip` (none
  could be fetched: the old book stays) or `Empty` settles it in one step; a mint
  that stays may show its new price before the rest does (`Reprice`), because
  `PushToMaster` writes it through a pointer into the old book; an account update
  `Move`s one pool of one entry. `TradeBook` maps onto it with `hotBar`, the
  published prices, `bookBar`, the prices and the bins that the arrays of the
  current book stand for, and `dueBar`, the logger's place. The lock, the half-built
  book, the copies, the arrays and the goroutines are hidden.
* **Pipeline.** The book of the pipeline is an instance of `AtomicBook` whose report is
  `HotMintsList` and which is due while the logger is in `PushToMaster`: the return
  of `printHotMints` is `PrintReturn` of `HotMints` and a `Settle` of the book, in one
  step. Pools and bins are left out (`Pools <- {}`).
* **MarketSelect.** `data` is the answer as sorted; the sort is not stable, so ties come
  in any order. `Filter` is one turn of the loop over it and panics where
  `entry.Labels[0]` does; `Return` where `data[0]` of an empty answer does. `FetchPump`,
  `FetchDLMM` and `FetchFallback` are one turn of the loop of their fetcher; the last
  two kinds are asked only while fewer than two pools were found (`Asked`). An
  account is its length, against which the slices of `ExtractVaultData` and
  `ExtractCpmmData` are bounded.
* **Lifecycle.** A global is unset, nil after a load that failed, or ok; most
  are read without a lock. `pc` is the next thing `main` does and `at` the
  stream it is subscribing. The write of the map `StreamWorkers` has a begin and an
  end (`Register`, `Registered`), and a lookup between them may end the process, as the
  runtime does on finding both. The logger is reduced to the calls that need a
  global, a call of `ReplaceDLMMAccountSubscriptions` to its requests, a sender to
  what `SendTx` needs loaded. A sender whose `BlastTx` went through is "waiting": its
  `WaitGroup` is never done, and the goroutine stays; its place in `Senders` may be
  taken by the next one. `exit` says how the process ended: "nil" for a global that is
  not there, "race" for the map of workers, "panic" for what the process was fed or
  found (a market, a message, a price under 4, a book emptied under a walk), "fatal" for
  `log.Fatalf`. What is fed is abstracted, so these endings are choices of the step that has
  them.

## Runs

| run | instance | shows |
|---|---|---|
| `trade_book` | 2 mints, 1 pool, 1 array, 2 updates, prices 3.5 and 10, no sender | hot list, prices, flag and index fault against the book through successful, failing and repeated pushes; the inductive invariant `RefinementInv` (which contains `BookInv`); the refinement of `AtomicBook`; updates and reports come to an end |
| `trade_book_pools` | 1 mint, 1 pool, bins -65, -1 (and 0), 3 arrays, 2 updates, 1 sender | what the sender reads, what the updates write |
| `subscriptions` | 2 mints, 3 pools, 2 calls | recorded against served subscription, nothing lost, pauses, end of calls; the inductive invariant `SubInv` |
| `dynamic_cu` | slots 5..11, window 3, lag 1, minute of 2 steps | landing window, tracking |
| `pipeline` | 3 mints (one ignored), top 2, 3 trades at a time, 7 transactions, prices 0 to 1.5, threshold 0 | recording, expiry, ranking, price, publication; which mints enter and leave the book, and that it ends empty when trades stop; the inductive invariant `PipelineInv` |
| `market_select` | 11 pairs, all answers of up to 5 of them, account lengths around every bound | whether a mint is accepted, which pools are read; the inductive invariant `SelectInv` |
| `lifecycle` | 1 call and 1 sender at a time | use before set, failed loads, endings once up, shutdown, refreshed blockhash |
| `race_snapshot`, `marked`, `bid`, `recent`, `traded` | as above | a statement of the source that its code does not keep; see `PROJECT.json` "findings" |

Why the bounds are enough. *Book*: two mints give books that are kept, partly kept and
fully replaced, with a mint that enters while another stays; without senders an array is
free again as soon as the book drops its mint, so one is enough for one pool; price 3.5 is
truncated and rounded differently. With a sender, three arrays are the book, a
replaced book a sender still holds, and one being built; bins -65 and -1 lie in two
arrays below zero, where a truncating division errs. Two updates compete with
each other and with the push. *Subscriptions*: three pools allow a list whose first,
middle or last pool is marked, and two calls give a waiter with an outdated list.
*Dynamic price*: seven slots are more than two windows. *Hot mints*: with three
mints and a top of two, an ignored mint can displace a hot one, and ties occur;
trades of one mint at different prices tell ranks apart, half prices tell rounding from
truncating, and a window of one step lets a mint go cold while another stays. A threshold
above 0 is left to the proofs. *Markets*: eleven pairs have more of a
kind than its limit lets in, ties, both sides of the liquidity filter, a wrong quote
and missing labels; five of them are as many as all limits of the instance together,
and a decision needs two. *Life cycle*: calls exclude each other from `Mark` on and
senders share nothing, so a second of either adds no step one alone cannot take; the
proofs are for any number. Every bound that cuts a counter
(`Refs`, `LastSlot`, `MaxLevel`, `MaxTrades`, the sets of updaters, calls and senders) is a
constant named in its module. Symmetry is used only over arrays, goroutines of one
kind, and never in a run with a liveness property.

Deadlock is checked in every run but `market_select`, where the decision about a mint
is the end. The rest never stops: the logger can always report again, and a process
that has ended stutters.

**Fairness.** Goroutines that can run are run by the Go scheduler: weak fairness of
each step inside a critical section. `sync.Mutex` hands the lock to a waiter of more
than a millisecond (its starvation mode): strong fairness of each acquisition
(`PushLock`, `UpdateLock`, `Mark`, `ProcessTrade`). Tickers fire and time passes.
RPC calls are assumed to return, or to fail; the code gives most of them no timeout,
so this is an assumption about the network, not about the code. In `Lifecycle`, `main`
and the goroutine that waits for a signal run (weak fairness), and the RPC node
answers again and again (strong fairness of `Refresh`, which competes with any number
of errors); no other goroutine of `Lifecycle` is assumed to run, so `StopEnds` needs
none of them. `Pipeline` has the fairness of `HotMints`. No fairness is put on
what the environment may choose: new reports of hot mints, updates, pushes, stream
breaks.

## Proofs

All theorems hold for every value of the constants that satisfies the module's
`ConstantsAssumption`. The assumptions exclude only the following: a pool trades
one mint; mints, pools and the pairs of an answer are finite in number; markers
differ from the values they stand beside; `DynamicCU` assumes a ledger older than the
window, because the unsigned cutoff would wrap otherwise. Every safety property that a
passing run checks is stated by a theorem.

* `TradeBookProofs`. `WindowAroundBin`: the derived window is the floor and its two
  neighbours, for every integer. `TypeCorrect`: the type invariant. `BookCorrect`:
  `BookInv` is inductive; `BookFollows`, `BookPriced`, `FlagCorrect`,
  `IndexFaultCorrect` are parts of it. None of them is inductive alone: in the
  middle of a push the new book is half built, so `PushedPrefix` says what it holds
  of the hot mints already passed (and that a hot mint in the old book is never
  left out); `FlagSet` relates the flag to both books; `MutexHeld` says that one
  of logger and walks is in its critical section; `WalkInBook` bounds a walk by
  the book it walks and says what it has already set. `UpdatesKept` follows from
  `WalkInBook` at the end of a walk. `SentArraysCorrect` rests on `HeapInv` (stated
  by itself in `HeapCorrect`): every array some goroutine can still reach holds, for
  the pools of its configuration, whole windows around reported bins; this is what
  makes the unlocked read harmless, also for copies the book no longer has.
* `TradeBookRefinement`. `Refinement`: `TradeBook` implements `AtomicBook`, under the
  mapping `hotBar`, `bookBar`, `dueBar`; one step per action. Most are invisible; a
  commit is a `Replace`, a push without an entry a `Skip`, the end of the clear
  an `Empty`, a kept entry a `Reprice`, a visit a `Move` (or nothing, when no
  pool of the entry moves). The mapping reads the bins of an entry through its array, so
  `RefinementInv` adds to `BookInv` that no two mints share an array, or a write for
  one would move another, and that what a push has built so far stands in the
  book already, at its new price, or was fetched for a mint the book does not have.
* `SubscriptionsProofs`. `SubCorrect`: `SubInv` is inductive. A call is between its
  marks and its last request exactly while it has `SendMutex`; what it sends is
  marked, and before its first request not yet followed; and nothing is recorded or
  served that no call marked. `RecordedCorrect`, `FollowedKept` and `PauseJustified`
  follow. The pools of a book are the result of a loop, whose type is an induction
  (see below).
* `HotMintsProofs`. `TrackerCorrect`: `TrackerInv` is inductive. Its core is
  `Reported`: while `mintTrackerMu` is held, the published list remains a report of
  the tracker as it is, under *some* order that `sort.Slice` may have left, though the
  trades in it age meanwhile. `HotListCorrect` and `PriceCorrect` then are facts
  about one report: the first by counting, since a mint at rank k of an order
  without repetition is outdone by fewer than k others; the second because the sorted
  prices are the prices in some order, so that as many lie below the chosen rank as
  the percentile asks for. `RecordedCorrect` is about two sums over different sets of
  balances: the total splits into the signer's and the others', so that a mint of which
  the total and the signer's part are unchanged left the others' unchanged too. `RecentKept` pairs each
  trade inside the window with its place after the pruning.
* `HotMintsProofs`, on the composition. `PipelineCorrect`: `PipelineInv` adds that
  between reports the book and the published list do not mix
  (`BookFollowsReport`), prices being those published up to their conversion.
  `EntersCorrect` combines `Reported` with the one step that changes the book, and
  `LeavesCorrect` combines that step with `HotListIsTop`. `DrivesBook`: the pipeline implements `AtomicBook`, the module that
  `Refinement` shows `TradeBook` to implement: the tracker never reports twice before
  the book has followed and never touches the list meanwhile.
* `MarketSelectProofs`. `SelectCorrect`: `SelectInv` is inductive (`PassedInOrder`,
  `FirstRead`, `Counted`). `DeepestCorrect` follows from the order of the lists;
  `EnoughCorrect` from `Counted`, with the size of the set of eligible pairs being the
  length of the list that names each once.
* `LifecycleProofs`. `TypeCorrect`, `UseCorrect`, `UnreadyCorrect`, `SafeOnceUpCorrect`
  from one invariant. `UsedAfterSet` alone is not inductive: that a goroutine is about
  to use a global says nothing of how it got there. What makes it true is that each
  global is a matter of `main`'s place (`SetSoFar`), and that whatever the others do
  goes back to a trade of the main stream, which is received from only once `main` has
  gone on to the wallet stream (`Active => at = 2`). `KeyNeeded` adds that nobody gets
  past `GetOrCreateATA` without the key. `SafeOnceUpCorrect` says that a complete start
  leaves no global missing and no write of the map of workers; it does not say that the
  process goes on, since what it is fed may still end it.
* `DynamicCUProofs`. `TypeCorrect`; `SpanCorrect`, from the fact that pruning never
  deletes the slot being recorded and the rest lie within its window;
  `TrackingDelayed`, from the fact that the stamp is never older than the trading
  period it stands for.

Loops over lists (`SumOf`, `Picked`, `PoolsOf`) are recursive functions of the number
of turns. What they compute is proved for lists of any length, without the library's
induction theorems, whose operator parameters the provers cannot instantiate: `NatMin` of
`Lists` gives a set of numbers its least member, `UpTo` turns that into a step-by-step
argument about the *set* of numbers a claim holds of, and `Loop` shows that the
function defined by the recursion exists. `SortingOrder` gives every list of numbers an
ascending order, by the count of what stands before each.

Only model-checked: the liveness properties (`UpdateSettles`, `ReportSettles`,
`CallsEnd`, `TrackingFollows`, `Cools`, `TradeRecorded`, `SilenceStops`,
`ColdMintLeaves`, `StopEnds`, `HashRecovers`), which need fairness and with it
`ENABLED`. The violated claims of the source (`NoRaceOnSnapshot`, `MarkedIsFollowed`,
`BidCapped`, `LandedIsRecent`, `RecordedChanged`) are counterexamples of TLC.

## What the models showed besides

`getTradedToken` is documented to return the first mint "whose balance changed"
(`arbTracker.go:164`, `190`) and tests for equality (`198`). Since the tokens of a swap only
change hands, the traded mint has an unchanged total and passes; but so has a mint that
merely stands in the list before it. The run `traded` shows this, and
`RecordedCorrect` proves that the comment is true of no recorded mint. The other
disagreements are in `PROJECT.json` "findings" too.

Behaviour worth knowing:

* When none of the hot mints can be fetched, the old book stays and is traded on
  (`Skip`); that is why `ColdMintLeaves` has its second case.
* `FetchTradeConfigForMint` wants two pools (`numDex > 1`), while its message asks for "at
  least one" (`fetcher/fetcher.go:70`).
* A pool that was once followed is followed for ever, also when its mint has left the book:
  `FollowedForGood`. The comment "unsubscribe from the old accounts"
  (`fetcher/fetcherMeteora.go:181`) is true of the first of the two requests only; the log line
  below it speaks of "resending full subscription". The record stays after the stream
  broke, when nothing is served any more.
* A call with an empty list, for a book without DLMM pools, stops the updates of all others
  for the time between its two requests, for nothing; a bin move in any such pause is
  missed until the next one. `PauseForNewPools` excludes neither.
* The ledger of landed slots keeps slots up to `SlotsToCheck` behind the newest, one
  more than "last 150 slots" counts. The "inactivity timeout period" of
  `tradeLoop/dynamicCU.go:42` is not in the code.
* The process ends for a hot mint whose price is under 4 (`onchain/onchainSMB.go:213`), an account
  shorter than 80 bytes (`arbTracker.go:258`), and a book emptied under a walk
  (`arbTracker.go:430`).
* A signal that comes between the set-up of the handler and the end of subscribing
  cancels the context of a stream being opened, so the process may end in `log.Fatalf`
  instead of the announced graceful shutdown (`arbTracker.go:503`); `StopEnds` holds
  either way.
* A mint accepted without DLMM pools is never sent a transaction: the movement gate
  counts bin moves, and it has none. The history of a mint mixes the bins of its pools.
* An RPC client that fails one send ends the process, by `log.Fatalf`; a send that goes
  through leaves its goroutine behind.

## Not modelled, and why

Configuration, decryption of the key file and flags are I/O before anything runs, and
their only effect on the rest, a key that does not load, is `LoadKey`. Of the lookup
tables, extending one is behind a condition that is never true (`y := 3; if y == 2`,
`tradeConfig.go:86`), and the other functions of `alt.go` are called from
there or from nowhere; loading and use are in `Lifecycle`. Of `GetOrCreateATA` the account on the
chain is left out: its address is returned to nobody who uses it. `onchain/kamino.go` is
called by nothing. The `TradeChan` workers have a channel nothing sends to. How
a transaction is put together, byte by byte, and log output are wording and
layout. Within `BlastTx` the goroutines share nothing, so their sends are one outcome.
Prices other than multiples of a half are left out; none of the comparisons or
conversions tells them from these. With these, what is left of the source is formatting, HTTP requests, RPC calls and
constants: there is no further state to model.

## Plan

Done, in this order: `BinArrays`, `TradeBook` with its proofs, `Subscriptions`,
`DynamicCU`, their proofs, `HotMints`, `AtomicBook` and the refinement, `Pipeline`,
`MarketSelect`, `Lifecycle` with its proofs; then the proofs of the refinement, of
`MarketSelect`, of `HotMints` and `Pipeline`, and the types of `Subscriptions`.

Left to do:

1. The steps behind the liveness properties that need no fairness: what bounds a walk, a
   push and a call while it holds its lock.
2. That the bid of `DynamicCU` respects its cap within the range of `int`: this needs facts
   about powers of two, for which the provers know nothing of `^`.
3. Links between modules that are now arguments in prose: the markets of `MarketSelect` as
   the fetches of `TradeBook`, the globals of `Lifecycle` as what the others assume set.
