----------------------------- MODULE AtomicBook -----------------------------
(***************************************************************************)
(* What the trade book promises to the rest of the program, without locks, *)
(* copies, arrays or half-built lists: a report of hot mints, sooner or    *)
(* later, turns the whole book over in one step, and between reports only  *)
(* the active bins of its pools move.  TradeBook implements this module;   *)
(* Pipeline uses it in place of TradeBook.                                 *)
(***************************************************************************)
EXTENDS Naturals

CONSTANTS
    Mints,      \* token mints
    Pools,      \* DLMM pools
    PoolMint,   \* the mint a pool trades
    Bins,       \* active bin ids a pool may report
    HotPrices   \* CU prices of hot mints, a float counted in halves

VARIABLES
    hot,    \* the last report: price per hot mint
    book,   \* the book: price and the active bin of each pool, per mint
    due     \* the book has yet to follow the last report

vars == <<hot, book, due>>

-----------------------------------------------------------------------------
PoolsOfMint(m) == {p \in Pools : PoolMint[p] = m}

\* uint64(math.Round(x)) and uint64(x) of a price counted in halves.
Rounded(half) == (half + 1) \div 2
Truncated(half) == half \div 2

\* What may stand in the book for a hot mint once it follows the report: the entry
\* it had, at the new price, or one fetched now, with some pools of the mint.
KeptEntry(m) == [book[m] EXCEPT !.price = Rounded(hot[m])]
FetchedEntries(m) ==
    [price: {Truncated(hot[m])}, bins: UNION {[ps -> Bins \cup {0}] : ps \in SUBSET PoolsOfMint(m)}]
EntriesFor(m) == IF m \in DOMAIN book THEN {KeptEntry(m)} ELSE FetchedEntries(m)

Nothing == [m \in {} |-> 0]

Init ==
    /\ hot = Nothing
    /\ book = Nothing
    /\ due = FALSE

\* The logger publishes a list of hot mints.
Report ==
    /\ ~due
    /\ \E ms \in SUBSET Mints : hot' \in [ms -> HotPrices]
    /\ due' = TRUE
    /\ UNCHANGED book

\* The price of a mint the book has already may show before the rest.
Reprice(m) ==
    /\ due
    /\ m \in DOMAIN hot \cap DOMAIN book
    /\ book' = [book EXCEPT ![m] = KeptEntry(m)]
    /\ UNCHANGED <<hot, due>>

\* A push that may lose a hot mint it has.
ReplaceLosing ==
    /\ due
    /\ \E S \in SUBSET DOMAIN hot :
        /\ S # {}
        /\ \E b \in [S -> UNION {EntriesFor(m) : m \in S}] :
            /\ \A m \in S : b[m] \in EntriesFor(m)
            /\ book' = b
    /\ due' = FALSE
    /\ UNCHANGED hot

\* Every hot mint that was in the book stays, every other one that could be fetched
\* comes in, and everything else goes.
Replace ==
    /\ due
    /\ \E S \in SUBSET DOMAIN hot :
        /\ S # {} /\ DOMAIN hot \cap DOMAIN book \subseteq S
        /\ \E b \in [S -> UNION {EntriesFor(m) : m \in S}] :
            /\ \A m \in S : b[m] \in EntriesFor(m)
            /\ book' = b
    /\ due' = FALSE
    /\ UNCHANGED hot

\* No hot mint was in the book and none could be fetched: the old book stays.
Skip ==
    /\ due
    /\ DOMAIN hot # {} /\ DOMAIN hot \cap DOMAIN book = {}
    /\ due' = FALSE
    /\ UNCHANGED <<hot, book>>

\* Nothing is hot.
Empty ==
    /\ due
    /\ DOMAIN hot = {}
    /\ book' = Nothing
    /\ due' = FALSE
    /\ UNCHANGED hot

\* A pool in the book moves to another bin.
Move(m, p, b) ==
    /\ m \in DOMAIN book /\ p \in DOMAIN book[m].bins
    /\ book' = [book EXCEPT ![m].bins[p] = b]
    /\ UNCHANGED <<hot, due>>

Settle == Replace \/ Skip \/ Empty

Next ==
    \/ Report
    \/ \E m \in Mints : Reprice(m)
    \/ Settle
    \/ \E m \in Mints, p \in Pools, b \in Bins : Move(m, p, b)

Spec == Init /\ [][Next]_vars
=============================================================================
