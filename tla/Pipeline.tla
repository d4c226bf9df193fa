------------------------------- MODULE Pipeline -------------------------------
(***************************************************************************)
(* From the trades of others to the book: the hot-mint tracker composed    *)
(* with the book it feeds.  printHotMints publishes the hot mints and, in  *)
(* the same call and still holding mintTrackerMu, has PushToMaster make    *)
(* the book follow them (or empties it); the book is AtomicBook, which     *)
(* TradeBook implements.  The bins of the pools do not matter here.        *)
(***************************************************************************)
EXTENDS HotMints

VARIABLE book   \* types.TradeConfigs: the entry of each mint

allVars == <<vars, book>>

-----------------------------------------------------------------------------
\* The price a mint is published with, in halves as AtomicBook takes it.
PriceOf(m) == (CHOOSE h \in {HotMintsList[i] : i \in DOMAIN HotMintsList} : h.mint = m).price

Book == INSTANCE AtomicBook WITH
    Pools <- {}, PoolMint <- <<>>, Bins <- {}, HotPrices <- Nat,
    hot <- [m \in Published |-> PriceOf(m)], due <- (lpc = "push")

PipelineInit == Init /\ book = Book!Nothing

\* The tracker goes on while the book stays as it is ...
Watch == (Elapse \/ Receive \/ ProcessTrade \/ PruneOldTrades \/ PrintHotMints) /\ UNCHANGED book

\* A return that leaves the book alone when nothing is hot.
ReturnKeeping ==
    /\ PrintReturn
    /\ IF Published = {} THEN UNCHANGED book ELSE Book!Settle

\* ... until printHotMints returns: from PushToMaster, or from emptying the book.
Return == PrintReturn /\ Book!Settle

PipelineNext == Watch \/ Return

\* Time passes, the logger's ticker fires and PushToMaster returns, and the receive
\* loop, waiting for mintTrackerMu, gets it.
PipelineSpec ==
    /\ PipelineInit /\ [][PipelineNext]_allVars
    /\ WF_allVars(Elapse /\ UNCHANGED book)
    /\ WF_allVars(((PruneOldTrades \/ PrintHotMints) /\ UNCHANGED book) \/ Return)
    /\ SF_allVars(ProcessTrade /\ UNCHANGED book)

-----------------------------------------------------------------------------
(* Properties.                                                             *)

Traded(m) == \E i \in DOMAIN mintTracker[m] : mintTracker[m][i].age <= Window

\* What is traded was traded by others: a mint enters the book only while it has
\* more than NumArbsFilter trades in the tracker and is not to be ignored, however
\* many trades came in between the report and the end of the push.
EntersWhenHot ==
    [][\A m \in Mints : m \in DOMAIN book' \ DOMAIN book => Hot(m)]_allVars

\* Nobody is dropped while traded: a mint leaves the book only when it is not hot any more
\* or enough others match it, whichever other fetches of the push fail and however the
\* ranking breaks ties.
LeavesWhenOutdone ==
    [][\A m \in Mints : m \in DOMAIN book \ DOMAIN book' /\ Hot(m) =>
           Cardinality({x \in Mints \ {m} : Trades(x) >= Trades(m)}) >= TopMints]_allVars

\* When the others' trades stop coming in (the stream is quiet, or broke and is
\* not opened again), the bot stops trading: the book ends up empty for good.
SilenceStops == <>[](\A m \in Mints : ~Traded(m)) => <>[](DOMAIN book = {})

\* A mint that is not hot any more is not traded for ever, unless from some point
\* on no report finds a single market for what it names.
ColdMintLeaves ==
    \A m \in Mints :
        <>[](~Traded(m)) =>
            \/ <>[](m \notin DOMAIN book)
            \/ <>[](Published # {} /\ Published \cap DOMAIN book = {})

-----------------------------------------------------------------------------
(* What every step of tracker and book keeps true.                         *)

Entry == [price: Nat, bins: {Book!Nothing}]

\* Between reports the book and the published list do not mix: the book is part of the
\* list, and each mint has the price it was published with, truncated or rounded (by
\* half a unit at most); or nothing hot could be fetched, and the book, left as it was,
\* has none of the list.
CurrentPrice(m) == book[m].price \in {Book!Truncated(PriceOf(m)), Book!Rounded(PriceOf(m))}
BookFollowsReport ==
    lpc # "push" =>
        \/ \A m \in DOMAIN book : m \in Published /\ CurrentPrice(m)
        \/ DOMAIN book \cap Published = {}

\* The tracker is right about what it publishes, and the book follows it.
PipelineInv ==
    /\ TrackerInv
    /\ DOMAIN book \subseteq Mints /\ \A m \in DOMAIN book : book[m] \in Entry
    /\ BookFollowsReport
===============================================================================
