------------------------------ MODULE Lifecycle ------------------------------
(***************************************************************************)
(* From start to end of the process.  main starts the hot-mint logger, has *)
(* Initialize set the globals and start the loops, subscribes the "main"   *)
(* and the "wallet" stream, and waits for a signal.  Nothing but this      *)
(* order, and what each goroutine needs before it acts, keeps the others   *)
(* from using what main has not set: most globals have no lock and several *)
(* are nil when their load fails.                                          *)
(***************************************************************************)
EXTENDS Naturals, Sequences

CONSTANTS
    Calls,      \* calls of ReplaceDLMMAccountSubscriptions at any one time
    Senders     \* senders of the trade loop at any one time

VARIABLES
    pc,         \* the place of main
    at,         \* index of the stream main subscribes
    glob,       \* the globals: "unset", "nil" after a failed load, or "ok"
    stop,       \* "no", "signalled", or "cancelled" once ctx is
    receive,    \* the receive loop of each stream: "off", "on" or "over"
    refresher,  \* the loop of StartBlockhashRefresher, the same
    tradeLoop,  \* the loop of StartTradeLoop, the same
    hash,       \* LatestBlockhash: "zero", "fresh" or "expired"
    hot,        \* a report would find hot mints
    logger,     \* "idle", or the place in PushToMaster
    trading,    \* types.TradeConfigs is not empty
    call,       \* the place of each call
    sender,     \* the place of each sender
    exit        \* "no", or how the process ended: "nil" for want of a global, "panic" for
                \* what it was fed, "race" on StreamWorkers, "fatal" for log.Fatalf, ...

mainVars == <<pc, at, glob>>
loopVars == <<receive, refresher, tradeLoop, hash>>
pushVars == <<hot, logger, trading>>
vars == <<mainVars, stop, loopVars, pushVars, call, sender, exit>>

-----------------------------------------------------------------------------
streamNames == <<"main", "wallet">>

\* Of the worker of a stream only those of "main" are used by others.
Loaded == {"PrivateKey", "basicTable", "configuredTable"}
Globals == Loaded \cup {"RPCClient", "SendClient", "worker", "Stream", "Subscription"}

Running == exit = "no"

Set(names, value) == glob' = [g \in Globals |-> IF g \in names THEN value ELSE glob[g]]

End(how) ==
    /\ exit' = how
    /\ UNCHANGED <<mainVars, stop, loopVars, pushVars, call, sender>>

Init ==
    /\ pc = "clients" /\ at = 1
    /\ glob = [g \in Globals |-> "unset"]
    /\ stop = "no"
    /\ receive = [i \in DOMAIN streamNames |-> "off"]
    /\ refresher = "off" /\ tradeLoop = "off" /\ hash = "zero"
    /\ hot = FALSE /\ logger = "idle" /\ trading = FALSE
    /\ call = [c \in Calls |-> "idle"]
    /\ sender = [s \in Senders |-> "idle"]
    /\ exit = "no"

-----------------------------------------------------------------------------
(* main, with the logger's ticker already running.                         *)

Goto(from, to) == Running /\ pc = from /\ pc' = to
OnlyMain == UNCHANGED <<stop, receive, tradeLoop, refresher, hash, pushVars, call, sender, exit>>

\* The RPC clients are set and the refresher is started.
NewClients ==
    /\ Goto("clients", "PrivateKey")
    /\ Set({"RPCClient", "SendClient"}, "ok")
    /\ refresher' = "on"
    /\ UNCHANGED <<at, stop, receive, tradeLoop, hash, pushVars, call, sender, exit>>

\* The key: what the load returns is kept, and its error is dropped (the err looked at
\* afterwards is another variable).
LoadKey ==
    /\ Goto("PrivateKey", "basicTable")
    /\ \E value \in {"ok", "nil"} : Set({"PrivateKey"}, value)
    /\ UNCHANGED at /\ OnlyMain

\* InitLoadAlt, for each of the two tables, stores what it gets in the same way.
LoadTable ==
    \E step \in {<<"basicTable", "configuredTable">>, <<"configuredTable", "loops">>} :
        /\ Goto(step[1], step[2])
        /\ \E value \in {"ok", "nil"} : Set({step[1]}, value)
        /\ UNCHANGED at /\ OnlyMain

StartLoops ==
    /\ Goto("loops", "flags")
    /\ tradeLoop' = "on"
    /\ UNCHANGED <<at, glob, stop, receive, refresher, hash, pushVars, call, sender, exit>>

\* The endpoint is parsed and the handler of signals set up.
SetFlags ==
    /\ Goto("flags", "dial")
    /\ UNCHANGED <<at, glob>> /\ OnlyMain

\* grpc_connect.
Connect ==
    /\ Goto("dial", "register")
    /\ UNCHANGED <<at, glob>> /\ OnlyMain

\* The assignment to StreamWorkers has a begin ...
Register ==
    /\ Goto("register", "writing")
    /\ UNCHANGED <<at, glob>> /\ OnlyMain

\* ... and an end.
Registered ==
    /\ Goto("writing", "subscribe")
    /\ IF streamNames[at] = "main" THEN Set({"worker"}, "ok") ELSE UNCHANGED glob
    /\ UNCHANGED at /\ OnlyMain

\* The stream is received from while it is still being subscribed.
SubscribeReceiving ==
    /\ Goto("subscribe", "send")
    /\ IF streamNames[at] = "main" THEN Set({"Stream"}, "ok") ELSE UNCHANGED glob
    /\ receive' = [receive EXCEPT ![at] = "on"]
    /\ UNCHANGED <<at, stop, tradeLoop, refresher, hash, pushVars, call, sender, exit>>

Subscribe ==
    /\ Goto("subscribe", "send")
    /\ IF streamNames[at] = "main" THEN Set({"Stream"}, "ok") ELSE UNCHANGED glob
    /\ UNCHANGED at /\ OnlyMain

\* A third stream.
SendPastLast ==
    /\ Running /\ pc = "send"
    /\ IF streamNames[at] = "main" THEN Set({"Subscription"}, "ok") ELSE UNCHANGED glob
    /\ receive' = [receive EXCEPT ![at] = "on"]
    /\ pc' = "register" /\ at' = at + 1
    /\ UNCHANGED <<stop, tradeLoop, refresher, hash, pushVars, call, sender, exit>>

\* The request is sent and recorded, and only then is the stream received from.
SendSubscription ==
    /\ Running /\ pc = "send"
    /\ IF streamNames[at] = "main" THEN Set({"Subscription"}, "ok") ELSE UNCHANGED glob
    /\ receive' = [receive EXCEPT ![at] = "on"]
    /\ IF at < Len(streamNames) THEN pc' = "register" /\ at' = at + 1
       ELSE pc' = "wait" /\ UNCHANGED at
    /\ UNCHANGED <<stop, tradeLoop, refresher, hash, pushVars, call, sender, exit>>

\* log.Fatalf: a bad endpoint, or a stream that cannot be opened, for whatever reason,
\* a context cancelled meanwhile included; a panic: a bad address of the table.
StartFails ==
    /\ Running
    /\ \/ pc \in {"flags", "dial", "subscribe", "send"} /\ End("fatal")
       \/ pc = "configuredTable" /\ End("panic")

\* select {} in place of the wait.
BlockForever == Running /\ pc = "wait" /\ UNCHANGED vars

WaitDone == Running /\ pc = "wait" /\ stop = "cancelled" /\ End("returned")

Main ==
    \/ NewClients \/ LoadKey \/ LoadTable \/ StartLoops \/ SetFlags \/ Connect
    \/ Register \/ Registered \/ Subscribe \/ SendSubscription \/ StartFails \/ WaitDone

\* A signal ends the process until the handler is set up, and is kept for it after.
Signal ==
    /\ Running /\ stop = "no"
    /\ IF pc \in {"clients", "loops", "flags"} \cup Loaded THEN End("killed")
       ELSE /\ stop' = "signalled"
            /\ UNCHANGED <<mainVars, loopVars, pushVars, call, sender, exit>>

Cancel ==
    /\ Running /\ stop = "signalled" /\ stop' = "cancelled"
    /\ UNCHANGED <<mainVars, loopVars, pushVars, call, sender, exit>>

-----------------------------------------------------------------------------
(* The blockhash refresher and its variable.                               *)

OnlyHash == UNCHANGED <<mainVars, stop, receive, tradeLoop, pushVars, call, sender, exit>>

Refresh ==
    /\ Running /\ refresher = "on" /\ hash' = "fresh"
    /\ UNCHANGED refresher /\ OnlyHash

\* Giving up after an error.
RefreshGivesUp ==
    /\ Running /\ refresher = "on" /\ refresher' = "over"
    /\ UNCHANGED hash /\ OnlyHash

\* An error is logged and the hash stays.
RefreshError == Running /\ refresher = "on" /\ UNCHANGED vars

RefreshStops ==
    /\ Running /\ refresher = "on" /\ stop = "cancelled"
    /\ refresher' = "over"
    /\ UNCHANGED hash /\ OnlyHash

\* The chain goes on.
Expire ==
    /\ Running /\ hash = "fresh" /\ hash' = "expired"
    /\ UNCHANGED refresher /\ OnlyHash

-----------------------------------------------------------------------------
(* The receive loops and the logger.                                       *)

\* Enough arbitrages of others for a report; the main stream has mintTrackerMu.
ReceiveTrades ==
    /\ Running /\ receive[1] = "on" /\ logger = "idle"
    /\ hot' = TRUE
    /\ UNCHANGED <<mainVars, stop, loopVars, logger, trading, call, sender, exit>>

\* A receive loop ends with its stream or the context, and is not started again.
ReceiveEnds ==
    /\ Running
    /\ \E i \in DOMAIN receive : receive[i] = "on" /\ receive' = [receive EXCEPT ![i] = "over"]
    /\ UNCHANGED <<mainVars, stop, refresher, tradeLoop, hash, pushVars, call, sender, exit>>

\* A message that lacks what monitorTransactions reads of it, such as an account
\* shorter than 80 bytes, panics in the receive loop of the main stream.
ReceivePanics == Running /\ receive[1] = "on" /\ End("panic")

\* pruneOldTrades drops the trades.
Prune ==
    /\ Running /\ logger = "idle"
    /\ hot' = FALSE
    /\ UNCHANGED <<mainVars, stop, loopVars, logger, trading, call, sender, exit>>

\* printHotMints calls PushToMaster, or empties the book.
Report ==
    /\ Running /\ logger = "idle"
    /\ logger' = IF hot THEN "ata" ELSE "idle"
    /\ trading' = (trading /\ hot)
    /\ UNCHANGED <<mainVars, stop, loopVars, hot, call, sender, exit>>

\* The book is emptied without types.Mu, while a walk of UpdateDLMMActiveBin or a copy of
\* GetAllConfigs is under way: index out of range.
ReportPanics == Running /\ logger = "idle" /\ ~hot /\ trading /\ End("panic")

PushTo(to) ==
    /\ logger' = to
    /\ UNCHANGED <<mainVars, stop, loopVars, hot, trading, call, sender, exit>>

\* A missing key taken for an account that cannot be looked up.
PushAtaLenient == Running /\ logger = "ata" /\ PushTo("market")

\* GetOrCreateATA for a mint asks payer, the key, for its public key.
PushAta ==
    /\ Running /\ logger = "ata"
    /\ IF glob["PrivateKey"] = "ok" THEN PushTo("market") ELSE End("nil")

\* The mint is in the book, or its markets are read, which may end the process.
PushMarket ==
    /\ Running /\ logger = "market"
    /\ \/ PushTo("ata")
       \/ PushTo("commit")
       \/ End("panic") \/ End("fatal")

\* The new book, and a call for its pools; or no mint got an entry and nothing changes.
PushCommit ==
    /\ Running /\ logger = "commit"
    /\ logger' = "idle"
    /\ \/ \E c \in Calls :
            /\ call[c] = "idle" /\ call' = [call EXCEPT ![c] = "mark"]
            /\ trading' = TRUE
       \/ UNCHANGED <<call, trading>>
    /\ UNCHANGED <<mainVars, stop, loopVars, hot, sender, exit>>

Logger == Prune \/ Report \/ ReportPanics \/ PushAta \/ PushMarket \/ PushCommit

-----------------------------------------------------------------------------
(* The calls of ReplaceDLMMAccountSubscriptions("main", ...).              *)

CallTo(c, to) ==
    /\ call' = [call EXCEPT ![c] = to]
    /\ UNCHANGED <<stop, pc, at, loopVars, pushVars, sender, exit>>

\* SendMutex is held from here; a marked pool ends the call.
Mark(c) ==
    /\ Running /\ call[c] = "mark"
    /\ \A d \in Calls : call[d] \in {"idle", "mark"}
    /\ \E to \in {"idle", "empty"} : CallTo(c, to)
    /\ UNCHANGED glob

\* The read of StreamWorkers, which the runtime may find to race with main's write.
LookupRaces == pc = "writing"

\* The subscription is reset with its accounts.
ResubscribeEmptyResetting(c) ==
    /\ Running /\ call[c] = "empty"
    /\ CallTo(c, "updated")
    /\ Set({"Subscription"}, "nil")

\* The request without accounts; its errors are dropped.
ResubscribeEmpty(c) ==
    /\ Running /\ call[c] = "empty"
    /\ \/ CallTo(c, "updated") /\ UNCHANGED glob
       \/ LookupRaces /\ End("race")

\* The request with all accounts reads the recorded subscription, if there is a worker.
ResubscribeUpdated(c) ==
    /\ Running /\ call[c] = "updated"
    /\ \/ IF glob["worker"] = "ok" /\ glob["Subscription"] # "ok" THEN End("nil")
          ELSE CallTo(c, "idle") /\ UNCHANGED glob
       \/ LookupRaces /\ End("race")

Call == \E c \in Calls : Mark(c) \/ ResubscribeEmpty(c) \/ ResubscribeUpdated(c)

-----------------------------------------------------------------------------
(* The trade loop and its senders.                                         *)

\* A tick starts a sender; one that waits for its WaitGroup, which is never done,
\* does nothing any more.
Tick(s) ==
    /\ Running /\ tradeLoop = "on" /\ trading
    /\ sender[s] \in {"idle", "waiting"} /\ sender' = [sender EXCEPT ![s] = "check"]
    /\ UNCHANGED <<mainVars, stop, loopVars, pushVars, call, exit>>

TradeLoopStops ==
    /\ Running /\ tradeLoop = "on" /\ stop = "cancelled"
    /\ tradeLoop' = "over"
    /\ UNCHANGED <<mainVars, stop, receive, refresher, hash, pushVars, call, sender, exit>>

SenderTo(s, to) ==
    /\ sender' = [sender EXCEPT ![s] = to]
    /\ UNCHANGED <<mainVars, stop, loopVars, pushVars, call, exit>>

\* Too few bin movements, or SendTx.
Check(s) ==
    /\ Running /\ sender[s] = "check"
    /\ SenderTo(s, "idle") \/ SenderTo(s, "build")

\* The public key, the jitter of the price, the cached hash, and the addresses of both
\* tables.  With a key the process may end otherwise: rand.Intn panics on a price under 4,
\* and log.Fatalf follows when the account is not found, or the transaction not put
\* together or not signed.
BuildTx(s) ==
    /\ Running /\ sender[s] = "build"
    /\ \/ IF \A g \in Loaded : glob[g] = "ok" THEN SenderTo(s, "blast") ELSE End("nil")
       \/ glob["PrivateKey"] = "ok" /\ (End("panic") \/ End("fatal"))

\* BlastTx: a client that fails ends the process.
BlastTx(s) ==
    /\ Running /\ sender[s] = "blast"
    /\ SenderTo(s, "waiting") \/ End("fatal")

Trade == \E s \in Senders : Tick(s) \/ Check(s) \/ BuildTx(s) \/ BlastTx(s)

-----------------------------------------------------------------------------
Dead == ~Running /\ UNCHANGED vars

Next ==
    \/ Main \/ Signal \/ Cancel
    \/ Refresh \/ RefreshError \/ RefreshStops \/ Expire
    \/ ReceiveTrades \/ ReceiveEnds \/ ReceivePanics \/ Logger \/ Call
    \/ TradeLoopStops \/ Trade
    \/ Dead

Spec == Init /\ [][Next]_vars

\* main and the signal goroutine run, and the RPC node answers again and again.
FairSpec == Spec /\ WF_vars(Main) /\ WF_vars(Cancel) /\ SF_vars(Refresh)

-----------------------------------------------------------------------------
(* Properties.                                                             *)

TypeOK ==
    /\ pc \in {"clients", "loops", "flags", "dial", "register", "writing", "subscribe",
               "send", "wait"} \cup Loaded
    /\ at \in DOMAIN streamNames
    /\ glob \in [Globals -> {"unset", "nil", "ok"}]
    /\ stop \in {"no", "signalled", "cancelled"}
    /\ receive \in [DOMAIN streamNames -> {"off", "on", "over"}]
    /\ refresher \in {"off", "on", "over"} /\ tradeLoop \in {"off", "on", "over"}
    /\ hash \in {"zero", "fresh", "expired"}
    /\ hot \in BOOLEAN /\ trading \in BOOLEAN
    /\ logger \in {"idle", "ata", "market", "commit"}
    /\ call \in [Calls -> {"idle", "mark", "empty", "updated"}]
    /\ sender \in [Senders -> {"idle", "check", "build", "blast", "waiting"}]
    /\ exit \in {"no", "returned", "fatal", "nil", "panic", "race", "killed"}

\* What the goroutines are about to use.
Using ==
    UNION {IF logger \in {"ata", "market"} THEN {"PrivateKey", "RPCClient"} ELSE {},
           IF \E c \in Calls : call[c] \in {"empty", "updated"}
           THEN {"worker", "Stream", "Subscription"} ELSE {},
           IF \E s \in Senders : sender[s] \in {"build", "blast"}
           THEN Loaded \cup {"SendClient"} ELSE {}}

\* The logger starts before anything else is set, and yet nothing is used before main
\* has set it: the first report, the first resubscription and the first sender all
\* wait, through each other, for the first trade on the main stream.
UsedAfterSet == \A g \in Using : glob[g] # "unset"

\* A process whose key did not load ends at its first report and never has a book;
\* one without a table trades nothing either.
UnreadyNeverTrades ==
    /\ glob["PrivateKey"] = "nil" => ~trading /\ \A s \in Senders : sender[s] = "idle"
    /\ \A s \in Senders : sender[s] \in {"blast", "waiting"} => \A g \in Loaded : glob[g] = "ok"

\* Once both streams are up and everything was loaded, the process never ends for want
\* of a global or by a race on StreamWorkers, whatever reports, resubscriptions, prunings
\* and senders do.  What it is fed may still end it: markets, messages, a price under 4, a
\* book emptied under a walk, a transaction that is not built or sent; and a signal.
SafeOnceUp ==
    [][(Running /\ pc = "wait" /\ \A g \in Loaded : glob[g] = "ok") =>
           exit' \notin {"nil", "race"}]_vars

\* A signal ends the process, wherever main is.
StopEnds == stop # "no" ~> ~Running

\* However often refreshing fails, an expired hash is replaced, until the end.
HashRecovers == hash = "expired" ~> hash = "fresh" \/ stop = "cancelled" \/ ~Running
=============================================================================
