---------------------------- MODULE Subscriptions ----------------------------
(***************************************************************************)
(* Following the accounts of the DLMM pools on the "main" gRPC stream.     *)
(* PushToMaster starts a goroutine running ReplaceDLMMAccountSubscriptions *)
(* with the pools of the new book.  It marks them in CurrentDLMMPools and, *)
(* under SendMutex, sends two requests on the stream: one without accounts *)
(* and one with every marked account.  The stream may break at any time;   *)
(* nothing reconnects it.                                                  *)
(***************************************************************************)
EXTENDS SequencesExt

CONSTANTS
    Mints,     \* token mints
    Pools,     \* DLMM pools (the accounts of their pairs)
    PoolMint,  \* the mint a pool trades
    Calls,     \* goroutines running ReplaceDLMMAccountSubscriptions at once
    None       \* SendMutex is free

ASSUME ConstantsAssumption ==
    /\ IsFiniteSet(Mints) /\ IsFiniteSet(Pools)
    /\ PoolMint \in [Pools -> Mints]
    /\ None \notin Calls

VARIABLES
    book,    \* types.TradeConfigs: mints and the DLMM pools of each, in order
    marked,  \* GlobalSubManager.CurrentDLMMPools
    sub,     \* the accounts of worker.Subscription
    stream,  \* "up" or "down": the gRPC stream of the worker
    filter,  \* the accounts the server sends updates of on that stream
    holder,  \* holder of SendMutex
    cpc,     \* where each call is
    pda      \* its argument: the pools of the book when it was started

callVars == <<holder, cpc, pda>>
vars == <<book, marked, sub, stream, filter, callVars>>

-----------------------------------------------------------------------------
\* FetchMeteoraDLMM returns some of a mint's pools, the most liquid first.
FetchedConfigs(m) ==
    [mint: {m}, pools: SetToAllKPermutations({p \in Pools : PoolMint[p] = m})]

\* The book PushToMaster makes of hot mints: the entries it had stay as they are,
\* the others are fetched.
Entries(m) ==
    LET kept == {book[i] : i \in {j \in DOMAIN book : book[j].mint = m}}
    IN  IF kept # {} THEN kept ELSE FetchedConfigs(m)
NextBooks ==
    UNION {{b \in [DOMAIN ms -> UNION {Entries(m) : m \in Mints}] :
               \A i \in DOMAIN ms : b[i] \in Entries(ms[i])} :
              ms \in SetToAllKPermutations(Mints) \ {<<>>}}

\* accountSub: the pools of every entry, in the order of the book.
PoolsOf(b) ==
    LET accountSub[i \in 0..Len(b)] ==
            IF i = 0 THEN <<>> ELSE accountSub[i - 1] \o b[i].pools
    IN  accountSub[Len(b)]

\* The keys the loop over pda marks: those before the first marked one, where it
\* returns.
NewKeys(s) ==
    {s[i] : i \in {j \in DOMAIN s :
                      s[j] \notin marked /\ \A l \in 1..(j - 1) : s[l] \notin marked}}

Init ==
    /\ book = <<>>
    /\ marked = {} /\ sub = {} /\ filter = {}
    /\ stream = "up"
    /\ holder = None
    /\ cpc = [c \in Calls |-> "idle"]
    /\ pda = [c \in Calls |-> <<>>]

-----------------------------------------------------------------------------
\* PushToMaster installs a book and starts a call for its pools.
Push(c) ==
    /\ cpc[c] = "idle"
    /\ book' \in NextBooks
    /\ cpc' = [cpc EXCEPT ![c] = "lock"]
    /\ pda' = [pda EXCEPT ![c] = PoolsOf(book')]
    /\ UNCHANGED <<marked, sub, stream, filter, holder>>

\* printHotMints empties the book; nothing is unsubscribed.
Clear ==
    /\ book # <<>>
    /\ book' = <<>>
    /\ UNCHANGED <<marked, sub, stream, filter, callVars>>

\* A call that resubscribes whatever is marked already.
MarkAll(c) ==
    /\ cpc[c] = "lock" /\ holder = None
    /\ marked' = marked \cup ToSet(pda[c])
    /\ cpc' = [cpc EXCEPT ![c] = "empty"]
    /\ holder' = c
    /\ UNCHANGED <<book, sub, stream, filter, pda>>

\* An early return that keeps the lock.
MarkAndKeep(c) ==
    /\ cpc[c] = "lock" /\ holder = None
    /\ marked' = marked \cup NewKeys(pda[c])
    /\ holder' = c
    /\ IF NewKeys(pda[c]) = ToSet(pda[c])
       THEN cpc' = [cpc EXCEPT ![c] = "empty"] /\ UNCHANGED pda
       ELSE cpc' = [cpc EXCEPT ![c] = "idle"] /\ pda' = [pda EXCEPT ![c] = <<>>]
    /\ UNCHANGED <<book, sub, stream, filter>>

\* The keys are marked and the requests sent without taking SendMutex.
MarkUnlocked(c) ==
    /\ cpc[c] = "lock"
    /\ marked' = marked \cup NewKeys(pda[c])
    /\ IF NewKeys(pda[c]) = ToSet(pda[c])
       THEN cpc' = [cpc EXCEPT ![c] = "empty"] /\ UNCHANGED pda
       ELSE cpc' = [cpc EXCEPT ![c] = "idle"] /\ pda' = [pda EXCEPT ![c] = <<>>]
    /\ UNCHANGED <<book, sub, stream, filter, holder>>

\* Take SendMutex and mark the keys; a key already marked ends the call.
Mark(c) ==
    /\ cpc[c] = "lock" /\ holder = None
    /\ marked' = marked \cup NewKeys(pda[c])
    /\ IF NewKeys(pda[c]) = ToSet(pda[c])
       THEN /\ holder' = c
            /\ cpc' = [cpc EXCEPT ![c] = "empty"]
            /\ UNCHANGED pda
       ELSE /\ cpc' = [cpc EXCEPT ![c] = "idle"]
            /\ pda' = [pda EXCEPT ![c] = <<>>]
            /\ UNCHANGED holder
    /\ UNCHANGED <<book, sub, stream, filter>>

\* ResubscribeEmptyAccountStream; its error is dropped and the call goes on.
SendEmpty(c) ==
    /\ cpc[c] = "empty"
    /\ \/ stream = "up" /\ filter' = {} /\ UNCHANGED stream
       \/ stream' = "down" /\ UNCHANGED filter
    /\ cpc' = [cpc EXCEPT ![c] = "updated"]
    /\ UNCHANGED <<book, marked, sub, holder, pda>>

\* A second request that names the new pools only.
SendOwn(c) ==
    /\ cpc[c] = "updated"
    /\ \/ /\ stream = "up" /\ UNCHANGED stream
          /\ filter' = ToSet(pda[c]) /\ sub' = ToSet(pda[c])
       \/ stream' = "down" /\ UNCHANGED <<filter, sub>>
    /\ holder' = None
    /\ cpc' = [cpc EXCEPT ![c] = "idle"]
    /\ pda' = [pda EXCEPT ![c] = <<>>]
    /\ UNCHANGED <<book, marked>>

\* The accounts are recorded without waiting for the result of the send.
SendUnchecked(c) ==
    /\ cpc[c] = "updated"
    /\ \/ stream = "up" /\ filter' = marked /\ UNCHANGED stream
       \/ UNCHANGED <<stream, filter>>
    /\ sub' = marked
    /\ holder' = None
    /\ cpc' = [cpc EXCEPT ![c] = "idle"]
    /\ pda' = [pda EXCEPT ![c] = <<>>]
    /\ UNCHANGED <<book, marked>>

\* ResubscribeWithUpdatedAccounts: all marked keys, recorded if the send works.
SendUpdated(c) ==
    /\ cpc[c] = "updated"
    /\ \/ /\ stream = "up" /\ UNCHANGED stream
          /\ filter' = marked /\ sub' = marked
       \/ stream' = "down" /\ UNCHANGED <<filter, sub>>
    /\ holder' = None
    /\ cpc' = [cpc EXCEPT ![c] = "idle"]
    /\ pda' = [pda EXCEPT ![c] = <<>>]
    /\ UNCHANGED <<book, marked>>

\* The receive loop gets an error and returns; every later Send fails.
Break ==
    /\ stream = "up"
    /\ stream' = "down"
    /\ UNCHANGED <<book, marked, sub, filter, callVars>>

Next ==
    \/ \E c \in Calls : Push(c) \/ Mark(c) \/ SendEmpty(c) \/ SendUpdated(c)
    \/ Clear
    \/ Break

Spec == Init /\ [][Next]_vars

\* A goroutine runs on, and a waiter on SendMutex gets it in the end.
Fairness ==
    \A c \in Calls : SF_vars(Mark(c)) /\ WF_vars(SendEmpty(c) \/ SendUpdated(c))

FairSpec == Spec /\ Fairness

-----------------------------------------------------------------------------
(* Properties.                                                             *)

TypeOK ==
    /\ book \in Seq([mint: Mints, pools: Seq(Pools)])
    /\ marked \subseteq Pools /\ sub \subseteq Pools /\ filter \subseteq Pools
    /\ stream \in {"up", "down"}
    /\ holder \in Calls \cup {None}
    /\ cpc \in [Calls -> {"idle", "lock", "empty", "updated"}]
    /\ pda \in [Calls -> Seq(Pools)]

Pausing == \E c \in Calls : cpc[c] = "updated"

\* While the stream lives, the subscription a worker has recorded is the one the
\* server serves, except between the two requests of a call.
RecordedIsServed == stream = "up" /\ ~Pausing => filter = sub

\* A pool once followed is followed for good: the two requests of a later call
\* end with it in the list again, and no push takes it away.
FollowedForGood == [][sub \subseteq sub']_vars

\* The account updates of the followed pools are not interrupted for a book some
\* pool of which is followed already, also when several calls were waiting with the
\* same pools.
PauseForNewPools ==
    [][\A c \in Calls :
          cpc[c] = "empty" /\ cpc'[c] = "updated" => ToSet(pda[c]) \cap sub = {}]_vars

\* Every call that was started ends, however many queue for SendMutex, and a pause
\* ends with it.
CallsEnd == \A c \in Calls : cpc[c] = "lock" ~> cpc[c] = "idle"

-----------------------------------------------------------------------------
(* Why the safety properties hold.                                         *)

\* A call has SendMutex from its first mark to its last request, and no other sends.
OnlyHolderSends == \A c \in Calls : holder = c <=> cpc[c] \in {"empty", "updated"}

\* What a call is about to send is marked, and before its first request none of it is
\* followed: the call would have returned at a pool that was marked.
SendsMarked ==
    \A c \in Calls :
        /\ cpc[c] \in {"empty", "updated"} => ToSet(pda[c]) \subseteq marked
        /\ cpc[c] = "empty" => ToSet(pda[c]) \cap sub = {}

\* A worker never records a pool, and the server never serves one, that is not marked.
\* Inductive with the types and the two facts on the calls.
SubInv ==
    /\ TypeOK
    /\ sub \subseteq marked /\ filter \subseteq marked
    /\ OnlyHolderSends
    /\ SendsMarked
    /\ RecordedIsServed

-----------------------------------------------------------------------------
(* A claim of the source that the code does not keep.                      *)

\* ReplaceDLMMAccountSubscriptions returns at a marked key because it is "already
\* subscribed": when no call is running, a marked pool is followed.
MarkedIsFollowed ==
    stream = "up" /\ (\A c \in Calls : cpc[c] = "idle") => marked \subseteq filter
=============================================================================
