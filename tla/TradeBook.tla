------------------------------ MODULE TradeBook ------------------------------
(***************************************************************************)
(* The shared list of trade configurations, types.TradeConfigs, and the    *)
(* goroutines that race over it:                                           *)
(*   - the hot-mint logger replaces it (tradeConfig.PushToMaster, under    *)
(*     types.Mu) or empties it (printHotMints, without the lock);          *)
(*   - one goroutine per account update walks it under types.Mu and writes *)
(*     the DLMM pools inside it (fetcher.UpdateDLMMActiveBin);             *)
(*   - the trade loop copies it (types.GetAllConfigs) and starts one       *)
(*     sender per entry, which reads the pools of its copy without a lock  *)
(*     (tradeLoop.StartTradeLoop, onchainSMB.SendTx).                      *)
(* A configuration holds its DLMM pools in a Go slice, so copies of the    *)
(* configuration share them: "heap" holds the backing arrays and a         *)
(* configuration names its own by "ref".                                   *)
(***************************************************************************)
EXTENDS BinArrays, Sequences, FiniteSets

CONSTANTS
    Mints,             \* token mints
    Pools,             \* DLMM pools
    PoolMint,          \* the mint a pool trades
    Bins,              \* active bin ids a pool may report
    HotPrices,         \* CU prices of hot mints, a float counted in halves
    Refs,              \* DLMM backing arrays; bounds those alive at once
    Updaters,          \* goroutines running UpdateDLMMActiveBin, one shot each
    Senders,           \* goroutines the trade loop has running at once
    BinMovesInWindow,  \* config.BinMovesInWindow
    None, Logger       \* mu is free, an empty slice; the hot-mint logger holds mu

ASSUME ConstantsAssumption ==
    /\ PoolMint \in [Pools -> Mints]
    /\ Bins \subseteq Int
    /\ HotPrices \subseteq Nat
    /\ BinMovesInWindow \in Int
    /\ None # Logger /\ None \notin Refs \cup Pools \cup Mints
    /\ {None, Logger} \cap Updaters = {}

VARIABLES
    fault,        \* "none", or what ended the process
    mu,           \* holder of types.Mu
    configs,      \* types.TradeConfigs
    heap,         \* the DLMM backing arrays: bin id and bin arrays per pool
    hot,          \* types.HotMintsList as last published
    lpc,          \* the logger: where it is in printHotMints and PushToMaster
    k,            \* the logger: index of the hot mint PushToMaster is at
    new,          \* the logger: newConfigs
    tradeActive,  \* tradeLoop.TradeActive
    upc, msg,     \* the update goroutines: where each is, its pool and bin
    at, len,      \* and its index and bound in the walk over configs
    todo,         \* the trade loop: snapshot entries with no sender yet
    spc, cfg,     \* the senders: where each is, and its own copy of an entry
    read,         \* and the bin arrays it has put into its transaction
    history,      \* tradeLoop.binHistories: recent bin movements per mint
    seen          \* (history variable) bins each pool was ever reported at

bookVars == <<configs, heap>>
loggerVars == <<hot, lpc, k, new, tradeActive>>
updaterVars == <<upc, msg, at, len>>
senderVars == <<todo, spc, cfg, read>>
vars == <<fault, mu, bookVars, loggerVars, updaterVars, senderVars, history,
          seen>>

-----------------------------------------------------------------------------
Config ==
    {c \in [mint: Mints, price: Nat, ref: Refs \cup {None}, pools: SUBSET Pools] :
        c.pools # {} => c.ref \in Refs}
HotMint == [mint: Mints, price: HotPrices]
Triple == [bin: Int, arrays: SUBSET Int]
Zero == [bin |-> 0, arrays |-> {}]
NoMsg == [pool |-> None, bin |-> 0]
Idle == [mint |-> None]   \* the configuration of a sender that is not running

Up == fault = "none"
MintsOf(s) == {s[i].mint : i \in DOMAIN s}
Entries(s) == {s[i] : i \in DOMAIN s}
DistinctMints(s) == \A i, j \in DOMAIN s : s[i].mint = s[j].mint => i = j

\* What printHotMints can publish: at most three distinct mints.
HotLists == {s \in UNION {[1..n -> HotMint] : n \in 0..3} : DistinctMints(s)}

\* uint64(x) and uint64(math.Round(x)) of a price counted in halves.
Truncated(half) == half \div 2
Rounded(half) == (half + 1) \div 2

\* The argument of rand.Intn in SendTx, int(float64(CUPrice) * 0.3).
JitterBound(price) == (price * 3) \div 10

\* pruneAndCalculateVolatility: entries that differ from the one before, where
\* -1 stands before the first.
BinMoves(moves) ==
    Cardinality({i \in DOMAIN moves :
                    moves[i] # IF i = 1 THEN -1 ELSE moves[i - 1]})

\* A walk that only follows a price that rises.
MovedUp(c, m) == {p \in c.pools : p = m.pool /\ heap[c.ref][p].bin < m.bin}

\* The pools of c that an update message changes: same pair, another bin.
Moved(c, m) == {p \in c.pools : p = m.pool /\ heap[c.ref][p].bin # m.bin}

\* The configurations some goroutine can still reach, and the backing arrays
\* the collector may hand out again.
InUse ==
    Entries(configs) \cup Entries(new) \cup Entries(todo)
        \cup {cfg[s] : s \in {x \in Senders : spc[x] # "idle"}}
FreeRefs == Refs \ {c.ref : c \in InUse}

\* The value of the slice header TradeConfigs a goroutine may read: printHotMints
\* stores it without the lock, so during the store either value may be seen.
HeaderSeen == IF lpc = "clearing" THEN {configs, <<>>} ELSE {configs}

\* UpdateDLMMActiveBin and FetchMeteoraDLMM set BinID and BinArrays together.
FreshTriple(b) == [bin |-> b, arrays |-> SurroundingArrays(b)]

\* The DLMM pools FetchMeteoraDLMM returns: each at the bin its account reports.
FetchedPools(ps, bin) ==
    [p \in Pools |-> IF p \in ps THEN FreshTriple(bin[p]) ELSE Zero]

\* The configuration FetchTradeConfigForMint builds for a hot mint.
Fetched(h, r, ps) ==
    [mint |-> h.mint, price |-> Truncated(h.price), ref |-> r, pools |-> ps]

\* A configuration whose price PushToMaster forgets to refresh.
NotRepriced(c, h) == c

Repriced(c, h) == [c EXCEPT !.price = Rounded(h.price)]

Init ==
    /\ fault = "none"
    /\ mu = None
    /\ configs = <<>>
    /\ heap = [r \in Refs |-> [p \in Pools |-> Zero]]
    /\ hot = <<>>
    /\ lpc = "idle"
    /\ k = 1
    /\ new = <<>>
    /\ tradeActive = FALSE
    /\ upc = [u \in Updaters |-> "unborn"]
    /\ msg = [u \in Updaters |-> NoMsg]
    /\ at = [u \in Updaters |-> 1]
    /\ len = [u \in Updaters |-> 0]
    /\ todo = <<>>
    /\ spc = [s \in Senders |-> "idle"]
    /\ cfg = [s \in Senders |-> Idle]
    /\ read = [s \in Senders |-> [p \in Pools |-> {}]]
    /\ history = [m \in Mints |-> <<>>]
    /\ seen = [p \in Pools |-> {}]

-----------------------------------------------------------------------------
(* The hot-mint logger: printHotMints and PushToMaster.                    *)

\* printHotMints has ranked the mints and published HotMintsList.
Publish ==
    /\ Up /\ lpc = "idle"
    /\ hot' \in HotLists
    /\ lpc' = IF hot' = <<>> THEN "clear" ELSE "lock"
    /\ UNCHANGED <<fault, mu, bookVars, k, new, tradeActive, updaterVars,
                   senderVars, history, seen>>

\* A push that does not take the lock.
PushUnlocked ==
    /\ Up /\ lpc = "lock"
    /\ mu' = Logger
    /\ lpc' = "push" /\ k' = 1 /\ new' = <<>>
    /\ UNCHANGED <<fault, bookVars, hot, tradeActive, updaterVars, senderVars,
                   history, seen>>

PushLock ==
    /\ Up /\ lpc = "lock"
    /\ mu = None
    /\ mu' = Logger
    /\ lpc' = "push" /\ k' = 1 /\ new' = <<>>
    /\ UNCHANGED <<fault, bookVars, hot, tradeActive, updaterVars, senderVars,
                   history, seen>>

\* The hot mint is in the book at i: refresh its price, keep its pools.
PushKeep ==
    /\ Up /\ lpc = "push" /\ k <= Len(hot)
    /\ \E i \in DOMAIN configs :
        /\ configs[i].mint = hot[k].mint
        /\ configs' = [configs EXCEPT ![i] = Repriced(@, hot[k])]
        /\ new' = Append(new, Repriced(configs[i], hot[k]))
    /\ k' = k + 1
    /\ UNCHANGED <<fault, mu, heap, hot, lpc, tradeActive, updaterVars,
                   senderVars, history, seen>>

\* It is not: FetchTradeConfigForMint builds a configuration from what the RPC
\* node reports now, its DLMM pools in a fresh backing array.  A pool account
\* too short to decode leaves bin 0 (its error is overwritten): "seen" counts it.
PushFetch ==
    /\ Up /\ lpc = "push" /\ k <= Len(hot)
    /\ hot[k].mint \notin MintsOf(configs)
    /\ \E ps \in SUBSET {p \in Pools : PoolMint[p] = hot[k].mint} :
        \E bin \in [ps -> Bins \cup {0}], r \in IF ps = {} THEN {None} ELSE FreeRefs :
            /\ new' = Append(new, Fetched(hot[k], r, ps))
            /\ heap' = [x \in Refs |->
                   IF x = r THEN FetchedPools(ps, bin)
                   ELSE IF x \in FreeRefs THEN [p \in Pools |-> Zero] ELSE heap[x]]
            /\ seen' = [p \in Pools |->
                   IF p \in ps THEN seen[p] \cup {bin[p]} ELSE seen[p]]
    /\ tradeActive' = TRUE
    /\ k' = k + 1
    /\ UNCHANGED <<fault, mu, configs, hot, lpc, updaterVars, senderVars, history>>

\* The fetch reports an error and the mint is skipped, or ends the process
\* (log.Fatalf in DecodeActiveBinID and GetOracle, MustPublicKeyFromBase58 of
\* the empty string getPoolTokens returns when its request fails).
PushFail ==
    /\ Up /\ lpc = "push" /\ k <= Len(hot)
    /\ hot[k].mint \notin MintsOf(configs)
    /\ \/ k' = k + 1 /\ UNCHANGED fault
       \/ fault' = "fetch" /\ UNCHANGED k
    /\ UNCHANGED <<mu, bookVars, hot, lpc, new, tradeActive, updaterVars,
                   senderVars, history, seen>>

\* Ways to get the end of PushToMaster wrong: add to the old book instead of
\* replacing it; try again until something is fetched; start the next push before
\* the first hot mint.
PushAppend ==
    /\ Up /\ lpc = "push" /\ k > Len(hot)
    /\ configs' = configs \o SelectSeq(new, LAMBDA c : c.mint \notin MintsOf(configs))
    /\ mu' = None
    /\ lpc' = "idle" /\ k' = 1 /\ new' = <<>>
    /\ UNCHANGED <<fault, heap, hot, tradeActive, updaterVars, senderVars,
                   history, seen>>

PushRetry ==
    /\ Up /\ lpc = "push" /\ k > Len(hot)
    /\ configs' = IF new # <<>> THEN new ELSE configs
    /\ mu' = None
    /\ lpc' = IF new # <<>> THEN "idle" ELSE "lock"
    /\ k' = 1 /\ new' = <<>>
    /\ UNCHANGED <<fault, heap, hot, tradeActive, updaterVars, senderVars,
                   history, seen>>

PushFromZero ==
    /\ Up /\ lpc = "push" /\ k > Len(hot)
    /\ configs' = IF new # <<>> THEN new ELSE configs
    /\ mu' = None
    /\ lpc' = "idle" /\ k' = 0 /\ new' = <<>>
    /\ UNCHANGED <<fault, heap, hot, tradeActive, updaterVars, senderVars,
                   history, seen>>

\* Install newConfigs unless it is empty, and release the lock either way.
PushCommit ==
    /\ Up /\ lpc = "push" /\ k > Len(hot)
    /\ configs' = IF new # <<>> THEN new ELSE configs
    /\ mu' = None
    /\ lpc' = "idle" /\ k' = 1 /\ new' = <<>>
    /\ UNCHANGED <<fault, heap, hot, tradeActive, updaterVars, senderVars,
                   history, seen>>

\* No hot mints: store an empty slice in TradeConfigs, without types.Mu.
ClearBegin ==
    /\ Up /\ lpc = "clear"
    /\ lpc' = "clearing"
    /\ UNCHANGED <<fault, mu, bookVars, hot, k, new, tradeActive, updaterVars,
                   senderVars, history, seen>>

ClearEnd ==
    /\ Up /\ lpc = "clearing"
    /\ configs' = <<>>
    /\ lpc' = "flag"
    /\ UNCHANGED <<fault, mu, heap, hot, k, new, tradeActive, updaterVars,
                   senderVars, history, seen>>

\* Emptying the book without resetting the flag.
ClearOnly ==
    /\ Up /\ lpc = "flag"
    /\ lpc' = "idle"
    /\ UNCHANGED <<fault, mu, bookVars, hot, k, new, tradeActive, updaterVars,
                   senderVars, history, seen>>

ClearFlag ==
    /\ Up /\ lpc = "flag"
    /\ tradeActive' = FALSE
    /\ lpc' = "idle"
    /\ UNCHANGED <<fault, mu, bookVars, hot, k, new, updaterVars, senderVars,
                   history, seen>>

-----------------------------------------------------------------------------
(* The account updates: monitorTransactions starts one goroutine for each, *)
(* so they reach the lock in any order.                                    *)

\* An account shorter than 80 bytes (a closed pool) panics in the stream's own
\* goroutine.
Deliver(u) ==
    /\ Up /\ upc[u] = "unborn"
    /\ \/ /\ \E p \in Pools, b \in Bins :
              /\ msg' = [msg EXCEPT ![u] = [pool |-> p, bin |-> b]]
              /\ seen' = [seen EXCEPT ![p] = @ \cup {b}]
          /\ upc' = [upc EXCEPT ![u] = "lock"]
          /\ UNCHANGED fault
       \/ /\ fault' = "short"
          /\ UNCHANGED <<upc, msg, seen>>
    /\ UNCHANGED <<mu, bookVars, loggerVars, at, len, senderVars, history>>

\* Take types.Mu and evaluate the bound of the range loop, once.
UpdateLock(u) ==
    /\ Up /\ upc[u] = "lock"
    /\ mu = None
    /\ mu' = u
    /\ upc' = [upc EXCEPT ![u] = "walk"]
    /\ at' = [at EXCEPT ![u] = 1]
    /\ \E h \in HeaderSeen : len' = [len EXCEPT ![u] = Len(h)]
    /\ UNCHANGED <<fault, bookVars, loggerVars, msg, senderVars, history, seen>>

\* A turn that stays at an entry that does not hold the pool.
UpdateSpin(u) ==
    /\ Up /\ upc[u] = "walk" /\ at[u] <= len[u]
    /\ \E h \in HeaderSeen :
        /\ at[u] \in DOMAIN h
        /\ at' = IF Moved(h[at[u]], msg[u]) = {} THEN at ELSE [at EXCEPT ![u] = @ + 1]
    /\ UNCHANGED <<fault, mu, bookVars, loggerVars, upc, msg, len, senderVars,
                   history, seen>>

\* One turn of the range loop: &TradeConfigs[at] reads the header again.
UpdateVisit(u) ==
    /\ Up /\ upc[u] = "walk" /\ at[u] <= len[u]
    /\ \E h \in HeaderSeen :
        /\ at[u] \in DOMAIN h
        /\ LET c == h[at[u]]
               hit == Moved(c, msg[u])
           IN  /\ heap' = [r \in Refs |-> [p \in Pools |->
                      IF r = c.ref /\ p \in hit THEN FreshTriple(msg[u].bin)
                                                 ELSE heap[r][p]]]
               /\ history' = IF hit = {} THEN history
                             ELSE [history EXCEPT ![c.mint] = Append(@, msg[u].bin)]
    /\ at' = [at EXCEPT ![u] = @ + 1]
    /\ UNCHANGED <<fault, mu, configs, loggerVars, upc, msg, len, senderVars, seen>>

\* The header has shrunk since the bound was taken (index out of range), or it
\* is being stored and the old length is seen with the new base.
UpdatePanic(u) ==
    /\ Up /\ upc[u] = "walk" /\ at[u] <= len[u]
    /\ \/ \E h \in HeaderSeen : at[u] \notin DOMAIN h
       \/ lpc = "clearing"
    /\ fault' = "index"
    /\ UNCHANGED <<mu, bookVars, loggerVars, updaterVars, senderVars, history, seen>>

\* The end of the walk, or the early return when no PDA can be derived; the
\* deferred Unlock runs on both.
UpdateReturn(u) ==
    /\ Up /\ upc[u] = "walk"
    /\ \/ at[u] > len[u]
       \/ \E h \in HeaderSeen : at[u] \in DOMAIN h /\ Moved(h[at[u]], msg[u]) # {}
    /\ mu' = None
    /\ upc' = [upc EXCEPT ![u] = "done"]
    /\ msg' = [msg EXCEPT ![u] = NoMsg]
    /\ at' = [at EXCEPT ![u] = 1] /\ len' = [len EXCEPT ![u] = 0]
    /\ UNCHANGED <<fault, bookVars, loggerVars, senderVars, history, seen>>

-----------------------------------------------------------------------------
(* The trade loop and its senders.                                         *)

\* A tick: GetAllConfigs copies the slice under types.Mu.  (The trade loop is left out
\* of an instance without senders, where a copy would only lie about.)
Snapshot ==
    /\ Up /\ todo = <<>> /\ mu = None /\ Senders # {}
    /\ \/ todo' \in HeaderSeen /\ UNCHANGED fault
       \/ lpc = "clearing" /\ fault' = "index" /\ UNCHANGED todo
    /\ UNCHANGED <<mu, bookVars, loggerVars, updaterVars, spc, cfg, read,
                   history, seen>>

Spawn(s) ==
    /\ Up /\ todo # <<>> /\ spc[s] = "idle"
    /\ cfg' = [cfg EXCEPT ![s] = Head(todo)]
    /\ todo' = Tail(todo)
    /\ spc' = [spc EXCEPT ![s] = "check"]
    /\ UNCHANGED <<fault, mu, bookVars, loggerVars, updaterVars, read, history, seen>>

\* pruneAndCalculateVolatility drops the entries that left the window, some
\* prefix of the history, and the sender goes on if enough movements are left.
Check(s) ==
    /\ Up /\ spc[s] = "check"
    /\ \E drop \in 0..Len(history[cfg[s].mint]) :
        LET kept == SubSeq(history[cfg[s].mint], drop + 1, Len(history[cfg[s].mint]))
            go == BinMoves(kept) > BinMovesInWindow
        IN  /\ history' = [history EXCEPT ![cfg[s].mint] = kept]
            /\ spc' = [spc EXCEPT ![s] = IF go THEN "build" ELSE "idle"]
            /\ cfg' = IF go THEN cfg ELSE [cfg EXCEPT ![s] = Idle]
    /\ UNCHANGED <<fault, mu, bookVars, loggerVars, updaterVars, todo, read, seen>>

\* GenerateOnchainSwapInstruction appends the bin arrays of one more pool.
ReadArrays(s) ==
    /\ Up /\ spc[s] = "build"
    /\ \E p \in cfg[s].pools :
        /\ read[s][p] = {}
        /\ read' = [read EXCEPT ![s][p] = heap[cfg[s].ref][p].arrays]
    /\ UNCHANGED <<fault, mu, bookVars, loggerVars, updaterVars, todo, spc, cfg,
                   history, seen>>

\* All pools are in: price, sign and send.  rand.Intn panics on a bound that is
\* not positive; a failed send is log.Fatalf.
Send(s) ==
    /\ Up /\ spc[s] = "build"
    /\ \A p \in cfg[s].pools : read[s][p] # {}
    /\ \/ /\ JitterBound(cfg[s].price) > 0
          /\ \/ UNCHANGED fault
             \/ fault' = "send"
       \/ /\ JitterBound(cfg[s].price) <= 0
          /\ fault' = "jitter"
    /\ spc' = [spc EXCEPT ![s] = "idle"]
    /\ cfg' = [cfg EXCEPT ![s] = Idle]
    /\ read' = [read EXCEPT ![s] = [p \in Pools |-> {}]]
    /\ UNCHANGED <<mu, bookVars, loggerVars, updaterVars, todo, history, seen>>

\* A panic or log.Fatalf has ended the process.
Dead == ~Up /\ UNCHANGED vars

-----------------------------------------------------------------------------
LoggerStep ==
    \/ Publish \/ PushLock \/ PushKeep \/ PushFetch \/ PushFail \/ PushCommit
    \/ ClearBegin \/ ClearEnd \/ ClearFlag
UpdaterStep(u) ==
    Deliver(u) \/ UpdateLock(u) \/ UpdateVisit(u) \/ UpdatePanic(u) \/ UpdateReturn(u)
SenderStep(s) == Spawn(s) \/ Check(s) \/ ReadArrays(s) \/ Send(s)

Next ==
    \/ LoggerStep
    \/ \E u \in Updaters : UpdaterStep(u)
    \/ Snapshot
    \/ \E s \in Senders : SenderStep(s)
    \/ Dead

Spec == Init /\ [][Next]_vars

-----------------------------------------------------------------------------
(* Properties.                                                             *)

TypeOK ==
    /\ fault \in {"none", "fetch", "short", "index", "jitter", "send"}
    /\ mu \in {None, Logger} \cup Updaters
    /\ configs \in Seq(Config)
    /\ heap \in [Refs -> [Pools -> Triple]]
    /\ hot \in Seq(HotMint)
    /\ lpc \in {"idle", "lock", "push", "clear", "clearing", "flag"}
    /\ k \in Nat \ {0}
    /\ new \in Seq(Config)
    /\ tradeActive \in BOOLEAN
    /\ upc \in [Updaters -> {"unborn", "lock", "walk", "done"}]
    /\ msg \in [Updaters -> [pool: Pools \cup {None}, bin: Int]]
    /\ at \in [Updaters -> Nat \ {0}]
    /\ len \in [Updaters -> Nat]
    /\ todo \in Seq(Config)
    /\ spc \in [Senders -> {"idle", "check", "build"}]
    /\ cfg \in [Senders -> Config \cup {Idle}]
    /\ \A s \in Senders : spc[s] # "idle" => cfg[s] \in Config
    /\ read \in [Senders -> [Pools -> SUBSET Int]]
    /\ history \in [Mints -> Seq(Int)]
    /\ seen \in [Pools -> SUBSET (Bins \cup {0})]

\* Between two reports of the logger the book is either all hot or all stale:
\* PushToMaster keeps every hot mint it already had, and leaves the old book
\* alone only when none of its mints is hot any more.
BookFollowsHot ==
    lpc = "idle" =>
        \/ MintsOf(configs) \subseteq MintsOf(hot)
        \/ MintsOf(configs) \cap MintsOf(hot) = {}

\* A hot mint in the book carries the price it was last published with, up to
\* the rounding of the two conversions PushToMaster uses (and a mint appears
\* once, so the trade loop does not send it twice per tick).
BookPricesCurrent ==
    /\ DistinctMints(configs)
    /\ lpc = "idle" =>
        \A i \in DOMAIN configs, j \in DOMAIN hot :
            configs[i].mint = hot[j].mint =>
                2 * configs[i].price - hot[j].price \in {-1, 0, 1}

\* The flag that switches the dynamic compute-unit price on agrees with the
\* book whenever the logger is between two reports: it is set by the first
\* fetch and reset when the book is emptied.
ActiveIffTrading == lpc = "idle" => (tradeActive <=> configs # <<>>)

\* Although a sender reads the pools of its copy with no lock, each set of bin
\* arrays in its transaction is a whole one: the three arrays around a bin that
\* this very pool was reported at.
SentArraysReported ==
    \A s \in Senders, p \in Pools :
        read[s][p] # {} =>
            \E b \in seen[p] :
                read[s][p] = {(b \div ArraySize) + d : d \in {-1, 0, 1}}

\* The walk of UpdateDLMMActiveBin runs out of the slice only because
\* printHotMints empties it: a push, which takes the lock, never shortens it
\* under a walk.
IndexFaultOnlyFromClear ==
    fault = "index" => configs = <<>> \/ lpc = "clearing"

\* No account update is lost: a walk that reaches the end leaves the pool of its
\* message at the bin of its message wherever the book then holds that pool,
\* although PushToMaster copies the entries and senders hold older copies.  (A
\* header read during the unlocked store may still hide the old book.)
UpdateNotLost ==
    [][\A u \in Updaters :
          upc[u] = "walk" /\ upc'[u] = "done" /\ at[u] > len[u] /\ lpc # "clearing" =>
              \A i \in DOMAIN configs :
                  msg[u].pool \in configs[i].pools =>
                      heap[configs[i].ref][msg[u].pool].bin = msg[u].bin]_vars

-----------------------------------------------------------------------------
(* Why they hold: what every step of every goroutine keeps true.           *)

\* types.Mu is held by the push or by one walk, and what PushToMaster builds
\* exists only while it holds the lock.
MutexHeld ==
    /\ lpc = "push" <=> mu = Logger
    /\ \A u \in Updaters : upc[u] = "walk" <=> mu = u
    /\ lpc # "push" => k = 1 /\ new = <<>>
    /\ k <= Len(hot) + 1

\* newConfigs holds hot mints PushToMaster has passed, at their price, and of
\* those every one that the old book has.
PushedPrefix ==
    /\ DistinctMints(hot) /\ DistinctMints(new)
    /\ \A i \in DOMAIN new : \E j \in 1..(k - 1) :
          /\ new[i].mint = hot[j].mint
          /\ 2 * new[i].price - hot[j].price \in {-1, 0, 1}
    /\ \A j \in 1..(k - 1) :
          hot[j].mint \in MintsOf(configs) => hot[j].mint \in MintsOf(new)

\* TradeActive against both lists, also in the middle of a push.
FlagSet ==
    /\ configs # <<>> \/ new # <<>> => tradeActive
    /\ tradeActive => configs # <<>> \/ new # <<>> \/ lpc = "flag"
    /\ lpc = "flag" => configs = <<>>

\* A walk is bounded by the book it walks, unless that was emptied under it;
\* what it has passed is at the bin of its message.
WalkInBook ==
    \A u \in Updaters : upc[u] = "walk" =>
        /\ len[u] = Len(configs) \/ configs = <<>> \/ lpc = "clearing"
        /\ \A i \in DOMAIN configs :
              i < at[u] /\ msg[u].pool \in configs[i].pools =>
                  heap[configs[i].ref][msg[u].pool].bin = msg[u].bin

BookInv ==
    /\ MutexHeld /\ PushedPrefix /\ FlagSet /\ WalkInBook
    /\ BookFollowsHot /\ BookPricesCurrent /\ ActiveIffTrading
    /\ IndexFaultOnlyFromClear

\* The pools of a configuration in use hold whole windows around reported bins.
WholeWindows(c) ==
    \A p \in c.pools :
        \E b \in seen[p] : heap[c.ref][p].arrays = SurroundingArrays(b)

HeapInv ==
    /\ \A c \in InUse : WholeWindows(c)
    /\ \A u \in Updaters :
          upc[u] \in {"lock", "walk"} =>
              msg[u].pool \in Pools /\ msg[u].bin \in seen[msg[u].pool]
    /\ SentArraysReported

-----------------------------------------------------------------------------
(* What the book looks like to those who do not see its locks and copies.  *)

\* The entry of a list with a given mint, and the bins its pools are at.
EntryOf(s, m) == CHOOSE e \in Entries(s) : e.mint = m
BinsOf(c) == [p \in c.pools |-> heap[c.ref][p].bin]

hotBar == [m \in MintsOf(hot) |-> EntryOf(hot, m).price]
bookBar ==
    [m \in MintsOf(configs) |->
        [price |-> EntryOf(configs, m).price, bins |-> BinsOf(EntryOf(configs, m))]]
dueBar == lpc \in {"lock", "push", "clear", "clearing"}

Atomic == INSTANCE AtomicBook WITH hot <- hotBar, book <- bookBar, due <- dueBar

\* Why the steps match: entries of the book and of newConfigs that share a backing
\* array are of one mint, so a walk moves a pool of one entry only.
OwnArrays ==
    \A c, d \in Entries(configs) \cup Entries(new) :
        c.ref = d.ref /\ c.ref # None => c.mint = d.mint

\* Each entry of newConfigs stands in the book already, at its new price, or was
\* fetched for a mint the book does not have.
KeptOrFetched ==
    \A i \in DOMAIN new, j \in DOMAIN hot : new[i].mint = hot[j].mint =>
        IF new[i].mint \in MintsOf(configs)
        THEN new[i] \in Entries(configs) /\ new[i].price = Rounded(hot[j].price)
        ELSE /\ new[i].price = Truncated(hot[j].price)
             /\ \A p \in new[i].pools :
                   PoolMint[p] = new[i].mint /\ heap[new[i].ref][p].bin \in Bins \cup {0}

\* A list is pushed and an empty one empties the book; a message names a real bin.
HotWhenPushed ==
    /\ lpc \in {"lock", "push"} => hot # <<>>
    /\ lpc \in {"clear", "clearing"} => hot = <<>>
RealBins ==
    \A u \in Updaters :
        upc[u] \in {"lock", "walk"} => msg[u].pool \in Pools /\ msg[u].bin \in Bins

MappingInv == OwnArrays /\ KeptOrFetched /\ HotWhenPushed /\ RealBins
RefinementInv == BookInv /\ MappingInv

\* Through those eyes the goroutines do what AtomicBook says: reports are followed in
\* one step or, when nothing could be fetched, not at all; entries that stay keep
\* their pools, and an account update moves one pool of one entry, whatever was
\* being pushed, copied or sent at that time.
ImplementsAtomicBook == Atomic!Spec

-----------------------------------------------------------------------------
(* A claim of the source that the code does not keep.                      *)

\* tradeLoop.go calls the copy a safe snapshot: no goroutine is about to write
\* a DLMM pool that a sender is about to read from its snapshot.
NoRaceOnSnapshot ==
    \A u \in Updaters, s \in Senders :
        upc[u] = "walk" /\ at[u] \in DOMAIN configs /\ spc[s] = "build" =>
            \A p \in Moved(configs[at[u]], msg[u]) :
                ~(cfg[s].ref = configs[at[u]].ref /\ read[s][p] = {})

-----------------------------------------------------------------------------
(* Fairness: goroutines are scheduled, RPC calls return, and a goroutine   *)
(* waiting on a sync.Mutex gets it (its starvation mode hands the lock to  *)
(* the longest waiter), hence strong fairness on the lock acquisitions.    *)

Fairness ==
    /\ WF_vars(PushKeep \/ PushFetch \/ PushFail \/ PushCommit)
    /\ WF_vars(ClearBegin \/ ClearEnd \/ ClearFlag)
    /\ SF_vars(PushLock)
    /\ \A u \in Updaters :
        /\ SF_vars(UpdateLock(u))
        /\ WF_vars(UpdateVisit(u) \/ UpdatePanic(u) \/ UpdateReturn(u))

FairSpec == Spec /\ Fairness

\* Every account update that was received is applied, and its goroutine ends,
\* however many pushes compete for the lock (unless the process dies first).
UpdateSettles ==
    \A u \in Updaters : upc[u] = "lock" ~> (upc[u] = "done" \/ ~Up)

\* A published hot list reaches the book: the logger returns from PushToMaster,
\* or from emptying the book, and can report again.
ReportSettles == lpc # "idle" ~> (lpc = "idle" \/ ~Up)
=============================================================================
