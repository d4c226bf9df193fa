--------------------------- MODULE LifecycleProofs ---------------------------
(***************************************************************************)
(* Proofs about start-up and shutdown, for any number of calls and senders. *)
(***************************************************************************)
EXTENDS Lifecycle, TLAPS

-----------------------------------------------------------------------------
(* The inductive invariant.  What main has set is a matter of its place;    *)
(* everything the others do starts with a trade of the main stream, which   *)
(* is received only once main has gone on to the wallet stream (at = 2).    *)

SetSoFar ==
    /\ pc # "clients" => glob["RPCClient"] = "ok" /\ glob["SendClient"] = "ok"
    /\ pc \notin {"clients", "PrivateKey"} => glob["PrivateKey"] # "unset"
    /\ pc \notin {"clients", "PrivateKey", "basicTable"} => glob["basicTable"] # "unset"
    /\ pc \notin {"clients"} \cup Loaded => glob["configuredTable"] # "unset"
    /\ pc \in {"subscribe", "send"} \/ at = 2 => glob["worker"] = "ok"
    /\ pc = "send" \/ at = 2 => glob["Stream"] = "ok"
    /\ at = 2 => glob["Subscription"] = "ok"

Places ==
    /\ at = 2 => pc \in {"register", "writing", "subscribe", "send", "wait"}
    /\ pc = "wait" => at = 2

Active ==
    \/ receive[1] # "off" \/ hot \/ logger # "idle" \/ trading
    \/ \E c \in Calls : call[c] # "idle"
    \/ \E s \in Senders : sender[s] # "idle"

KeyNeeded ==
    /\ logger \in {"market", "commit"} => glob["PrivateKey"] = "ok"
    /\ trading => glob["PrivateKey"] = "ok"
    /\ \A s \in Senders :
          /\ sender[s] # "idle" => glob["PrivateKey"] = "ok"
          /\ sender[s] \in {"blast", "waiting"} => \A g \in Loaded : glob[g] = "ok"

LifeInv == TypeOK /\ SetSoFar /\ Places /\ (Active => at = 2) /\ KeyNeeded

LEMMA StreamIndex == DOMAIN streamNames = {1, 2} /\ Len(streamNames) = 2
                     /\ streamNames[1] = "main" /\ streamNames[2] = "wallet"
BY DEF streamNames

LEMMA TypeInit == Init => TypeOK
<1> SUFFICES ASSUME Init PROVE TypeOK
    OBVIOUS
<1>1. glob \in [Globals -> {"unset", "nil", "ok"}]
    BY DEF Init
<1>2. at \in DOMAIN streamNames /\ receive \in [DOMAIN streamNames -> {"off", "on", "over"}]
    BY StreamIndex DEF Init
<1>3. /\ call \in [Calls -> {"idle", "mark", "empty", "updated"}]
      /\ sender \in [Senders -> {"idle", "check", "build", "blast", "waiting"}]
    BY DEF Init
<1> QED
    BY <1>1, <1>2, <1>3 DEF Init, TypeOK

LEMMA LifeInit == Init => LifeInv
<1> SUFFICES ASSUME Init PROVE LifeInv
    OBVIOUS
<1>1. TypeOK
    BY TypeInit
<1>2. SetSoFar /\ Places
    BY DEF Init, SetSoFar, Places
<1>3. ~Active
    BY StreamIndex DEF Init, Active
<1>4. KeyNeeded
    BY DEF Init, KeyNeeded
<1> QED
    BY <1>1, <1>2, <1>3, <1>4 DEF LifeInv

-----------------------------------------------------------------------------
\* Steps that leave main where it is: only the others have to be looked at.
LEMMA OthersOnly ==
    ASSUME LifeInv, UNCHANGED <<pc, at, glob>>, TypeOK', Active' => at = 2, KeyNeeded'
    PROVE  LifeInv'
BY DEF LifeInv, SetSoFar, Places

\* Main's own steps, with nobody active before the main stream is received.
LEMMA MainNext == LifeInv /\ Main => LifeInv'
<1> SUFFICES ASSUME LifeInv, Main PROVE LifeInv'
    OBVIOUS
<1> USE StreamIndex
<1>1. ASSUME NEW how \in {"returned", "fatal", "panic"}, End(how) PROVE LifeInv'
    BY <1>1 DEF End, mainVars, loopVars, pushVars, LifeInv, TypeOK, SetSoFar, Places,
                Active, KeyNeeded
<1> USE DEF LifeInv, TypeOK, SetSoFar, Places, Active, KeyNeeded, pushVars,
            Set, Globals, Loaded, Goto, Running, OnlyMain
<1>2. CASE NewClients
    BY <1>2 DEF NewClients
<1>3. CASE LoadKey
    BY <1>3 DEF LoadKey
<1>4. CASE LoadTable
  <2>1. PICK step \in {<<"basicTable", "configuredTable">>, <<"configuredTable", "loops">>},
             value \in {"ok", "nil"} :
           /\ pc = step[1] /\ pc' = step[2] /\ Set({step[1]}, value)
           /\ UNCHANGED at /\ OnlyMain
      BY <1>4 DEF LoadTable
  <2>2. at = 1 /\ ~Active /\ ~Active'
      BY <2>1
  <2>3. glob' = [g \in Globals |-> IF g = pc THEN value ELSE glob[g]]
      BY <2>1
  <2>4. /\ pc = "basicTable" => pc' = "configuredTable"
        /\ pc = "configuredTable" => pc' = "loops"
        /\ pc \in {"basicTable", "configuredTable"}
      BY <2>1
  <2>5. glob' \in [Globals -> {"unset", "nil", "ok"}] /\ TypeOK'
      BY <2>1, <2>3, <2>4
  <2>6. /\ glob'["RPCClient"] = glob["RPCClient"] /\ glob'["SendClient"] = glob["SendClient"]
        /\ glob'["PrivateKey"] = glob["PrivateKey"]
        /\ glob'["basicTable"] = IF pc = "basicTable" THEN value ELSE glob["basicTable"]
        /\ glob'["configuredTable"] = IF pc = "configuredTable" THEN value
                                      ELSE glob["configuredTable"]
      BY <2>3, <2>4
  <2>7. SetSoFar'
      BY <2>1, <2>2, <2>4, <2>6
  <2>8. Places' /\ KeyNeeded'
      BY <2>1, <2>2, <2>4
  <2> QED
      BY <2>2, <2>5, <2>7, <2>8
<1>5. CASE StartLoops
    BY <1>5 DEF StartLoops
<1>6. CASE SetFlags \/ Connect
    BY <1>6 DEF SetFlags, Connect
<1>7. CASE Register
    BY <1>7 DEF Register
<1>8. CASE Registered
    BY <1>8 DEF Registered
<1>9. CASE Subscribe
    BY <1>9 DEF Subscribe
<1>10. CASE SendSubscription
    BY <1>10 DEF SendSubscription
<1>11. CASE StartFails \/ WaitDone
    BY <1>1, <1>11 DEF StartFails, WaitDone
<1> QED
    BY <1>2, <1>3, <1>4, <1>5, <1>6, <1>7, <1>8, <1>9, <1>10, <1>11 DEF Main

LEMMA LifeNext == LifeInv /\ [Next]_vars => LifeInv'
<1> SUFFICES ASSUME LifeInv, [Next]_vars PROVE LifeInv'
    OBVIOUS
<1> USE StreamIndex
<1>1. ASSUME NEW how \in {"fatal", "nil", "panic", "race", "killed"}, End(how) PROVE LifeInv'
    BY <1>1 DEF End, mainVars, loopVars, pushVars, LifeInv, TypeOK, SetSoFar, Places,
                Active, KeyNeeded
<1>2. CASE Main
    BY <1>2, MainNext
<1> USE DEF LifeInv, TypeOK, Active, KeyNeeded, mainVars, loopVars, pushVars, Running
<1>3. CASE Signal \/ Cancel
    BY <1>3, <1>1, OthersOnly DEF Signal, Cancel
<1>4. CASE Refresh \/ RefreshError \/ RefreshStops \/ Expire \/ TradeLoopStops
    BY <1>4, OthersOnly DEF Refresh, RefreshError, RefreshStops, Expire, TradeLoopStops,
                            OnlyHash, vars
<1>5. CASE ReceiveTrades \/ ReceiveEnds
  <2>1. receive' \in [DOMAIN streamNames -> {"off", "on", "over"}]
      BY <1>5 DEF ReceiveTrades, ReceiveEnds
  <2>2. /\ UNCHANGED <<pc, at, glob, stop, refresher, tradeLoop, hash, logger, trading, call,
                       sender, exit>>
        /\ hot' \in BOOLEAN
      BY <1>5 DEF ReceiveTrades, ReceiveEnds
  <2>3. TypeOK'
      BY <2>1, <2>2
  <2>4. Active' => Active
      BY <1>5, <2>2 DEF ReceiveTrades, ReceiveEnds
  <2> QED
      BY <2>3, <2>4, <2>2, OthersOnly
<1>6. CASE Prune \/ Report
  <2>1. UNCHANGED <<pc, at, glob, receive, call, sender>> /\ TypeOK'
      BY <1>6 DEF Prune, Report
  <2>2. Active' => Active
      BY <1>6, <2>1 DEF Prune, Report
  <2>3. (trading' => trading) /\ logger' \notin {"market", "commit"}
      BY <1>6 DEF Prune, Report
  <2> QED
      BY <2>1, <2>2, <2>3, OthersOnly
<1>7. CASE PushAta \/ PushMarket
    BY <1>7, <1>1, OthersOnly DEF PushAta, PushMarket, PushTo
<1>8. CASE PushCommit
  <2>1. /\ UNCHANGED <<pc, at, glob, stop, receive, refresher, tradeLoop, hash, hot, sender, exit>>
        /\ logger = "commit" /\ logger' = "idle" /\ trading' \in BOOLEAN
      BY <1>8 DEF PushCommit
  <2>2. call' \in [Calls -> {"idle", "mark", "empty", "updated"}]
      BY <1>8 DEF PushCommit
  <2>3. TypeOK'
      BY <2>1, <2>2
  <2>4. Active
      BY <2>1
  <2> QED
      BY <2>1, <2>3, <2>4, OthersOnly
<1>9. ASSUME NEW c \in Calls, Mark(c) \/ ResubscribeEmpty(c) \/ ResubscribeUpdated(c)
      PROVE  LifeInv'
    BY <1>9, <1>1, OthersOnly DEF Mark, ResubscribeEmpty, ResubscribeUpdated, CallTo, LookupRaces
<1>10. ASSUME NEW s \in Senders, Tick(s) \/ Check(s) \/ BlastTx(s) PROVE LifeInv'
    BY <1>10, <1>1, OthersOnly DEF Tick, Check, BlastTx, SenderTo
<1>11. ASSUME NEW s \in Senders, BuildTx(s) PROVE LifeInv'
    BY <1>11, <1>1, OthersOnly DEF BuildTx, SenderTo
<1>12. CASE ReceivePanics \/ ReportPanics
    BY <1>12, <1>1 DEF ReceivePanics, ReportPanics
<1>13. CASE Dead \/ UNCHANGED vars
    BY <1>13, OthersOnly DEF Dead, vars
<1> QED
    BY <1>2, <1>3, <1>4, <1>5, <1>6, <1>7, <1>8, <1>9, <1>10, <1>11, <1>12, <1>13
       DEF Next, Logger, Call, Trade

LEMMA LifeCorrect == Spec => []LifeInv
BY LifeInit, LifeNext, PTL DEF Spec

-----------------------------------------------------------------------------
\* Every variable of the life cycle keeps its type.
THEOREM TypeCorrect == Spec => []TypeOK
<1>1. LifeInv => TypeOK
    BY DEF LifeInv
<1> QED
    BY <1>1, LifeCorrect, PTL

\* No goroutine is about to use a global that main has not set yet.
THEOREM UseCorrect == Spec => []UsedAfterSet
<1>1. LifeInv => UsedAfterSet
    BY DEF LifeInv, UsedAfterSet, Using, SetSoFar, Places, Active, Loaded
<1> QED
    BY <1>1, LifeCorrect, PTL

\* Without its key the process never has a book, and without a table it never sends.
THEOREM UnreadyCorrect == Spec => []UnreadyNeverTrades
<1>1. LifeInv => UnreadyNeverTrades
    BY DEF LifeInv, KeyNeeded, UnreadyNeverTrades
<1> QED
    BY <1>1, LifeCorrect, PTL

\* Once everything is loaded and subscribed, the process never ends for want of a global
\* or by a race on the map of workers; what else ends it is not excluded.
THEOREM SafeOnceUpCorrect == Spec => SafeOnceUp
<1>1. LifeInv /\ [Next]_vars =>
        [(Running /\ pc = "wait" /\ \A g \in Loaded : glob[g] = "ok") =>
             exit' \notin {"nil", "race"}]_vars
  <2> SUFFICES ASSUME LifeInv, Next, Running, pc = "wait",
                      \A g \in Loaded : glob[g] = "ok"
               PROVE  exit' \notin {"nil", "race"}
      OBVIOUS
  <2>1. glob["PrivateKey"] = "ok" /\ glob["Subscription"] = "ok"
      BY DEF LifeInv, SetSoFar, Places, Loaded
  <2> USE DEF Running
  <2>2. CASE Main \/ Signal \/ Cancel
      BY <2>2 DEF Main, NewClients, LoadKey, LoadTable, StartLoops, SetFlags, Connect,
                  Register, Registered, Subscribe, SendSubscription, StartFails, WaitDone, Goto, Signal, Cancel, End, OnlyMain
  <2>3. CASE Refresh \/ RefreshError \/ RefreshStops \/ Expire \/ TradeLoopStops
      BY <2>3 DEF Refresh, RefreshError, RefreshStops, Expire, TradeLoopStops, OnlyHash, vars
  <2>4. CASE ReceiveTrades \/ ReceiveEnds \/ ReceivePanics \/ Logger
      BY <2>1, <2>4 DEF ReceiveTrades, ReceiveEnds, ReceivePanics, Logger, Prune, Report,
                        ReportPanics, PushAta, PushMarket, PushTo, PushCommit, End
  <2>5. CASE Call
      BY <2>1, <2>5 DEF Call, Mark, ResubscribeEmpty, ResubscribeUpdated, CallTo, LookupRaces
  <2>6. CASE Trade
      BY <2>6 DEF Trade, Tick, Check, BuildTx, BlastTx, SenderTo, End
  <2> QED
      BY <2>2, <2>3, <2>4, <2>5, <2>6 DEF Next, Dead
<1> QED
    BY <1>1, LifeCorrect, PTL DEF Spec, SafeOnceUp
=============================================================================
