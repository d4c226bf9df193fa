----------------------------- MODULE MarketSelect -----------------------------
(***************************************************************************)
(* Finding the markets of one hot mint: QueryDexScreener sorts and filters *)
(* the pairs a web service lists, and FetchTradeConfigForMint reads the    *)
(* accounts of the first few of each kind, asking for the last two kinds   *)
(* only while it has fewer than two pools.  PushToMaster calls it with     *)
(* types.Mu held; TradeBook takes from it only the DLMM pools, a refusal   *)
(* or the end of the process.                                              *)
(***************************************************************************)
EXTENDS SequencesExt

CONSTANTS
    Pairs,      \* pairs of the mint the service may list
    Answers,    \* the sets of them it may answer with
    LiqFilter,  \* config.PoolLiqFilter
    Limit,      \* config.PumpMkts, MeteoraMkts, MeteoraAmm and RayCpmm, by kind
    Lengths     \* lengths in bytes an account may have

Kinds == {"pump", "dlmm", "dyn", "cpmm"}

ASSUME ConstantsAssumption ==
    /\ \A e \in Pairs :
          /\ e.dex \in {"pumpswap", "raydium", "meteora", "other"}
          /\ e.label \in {"DLMM", "DYN", "CPMM", "none"}   \* Labels[0], if any
          /\ e.wsol \in BOOLEAN /\ e.liq \in Nat           \* quoted in WSOL, liquidity
    /\ Answers \subseteq SUBSET Pairs /\ \A S \in Answers : IsFiniteSet(S)
    /\ LiqFilter \in Nat /\ Limit \in [Kinds -> Nat] /\ Lengths \subseteq Nat

VARIABLES
    pc,     \* "query", "filter", the kind being fetched, "accepted" or "rejected"
    data,   \* the pairs of the answer, as sorted
    n,      \* index in the loop pc is at
    mkts,   \* the pairs that passed, by kind
    got,    \* the pools read, by kind
    numDex, \* how many they are, of the kinds before pc
    fault   \* "none", or what ended the process

vars == <<pc, data, n, mkts, got, numDex, fault>>

-----------------------------------------------------------------------------
\* The orders the service may list them in.
Listed(S) == SetToSeqs(S)

\* sort.Sort by quote liquidity, descending; it is not stable.
ByLiquidityQuote(S) ==
    {s \in SetToSeqs(S) : \A i, j \in DOMAIN s : i < j => s[i].liq >= s[j].liq}

\* The condition of the loop; the volume filters are called with zero.
Passes(e) ==
    e.dex \in {"pumpswap", "raydium", "meteora"} /\ e.wsol /\ e.liq >= LiqFilter

IsKind(e) ==
    [pump |-> e.dex = "pumpswap",
     dlmm |-> e.dex = "meteora" /\ e.label = "DLMM",
     dyn |-> e.dex = "meteora" /\ e.label = "DYN",
     cpmm |-> e.dex = "raydium" /\ e.label = "CPMM"]

\* entry.Labels[0] of a Meteora pair without labels.
Unlabelled(e) == e.dex = "meteora" /\ e.label = "none"

\* The order in which FetchTradeConfigForMint asks for the kinds.
After == [pump |-> "dlmm", dlmm |-> "dyn", dyn |-> "cpmm"]

\* Asking Raydium only when nothing was found.
AskedIfNone(k) == k = "cpmm" => numDex < 1

Asked(k) == k \in {"dyn", "cpmm"} => numDex < 2

\* The turns of the loop over mkts[k]: all of them; the first Limit[k].
WantedAll(k) == Len(mkts[k])
Wanted(k) == IF Len(mkts[k]) < Limit[k] THEN Len(mkts[k]) ELSE Limit[k]
Fetching(k) == pc = k /\ fault = "none" /\ Asked(k) /\ n <= Wanted(k)

\* ExtractVaultData and ExtractCpmmData: shorter than 259 bytes gives a zero key,
\* otherwise 32 bytes at an offset of up to this are sliced.
LastOffset == [dyn |-> 7 * 32 + 34 + 8, cpmm |-> 288 + 8]
SlicePanics(k, length) == length >= 259 /\ length < LastOffset[k] + 32

Take(k) ==
    /\ got' = [got EXCEPT ![k] = Append(@, mkts[k][n])]
    /\ n' = n + 1
    /\ UNCHANGED <<pc, data, mkts, numDex, fault>>

Die(what) == fault' = what /\ UNCHANGED <<pc, data, n, mkts, got, numDex>>

Init ==
    /\ pc = "query" /\ data = <<>> /\ n = 1
    /\ mkts = [k \in Kinds |-> <<>>]
    /\ got = [k \in Kinds |-> <<>>] /\ numDex = 0
    /\ fault = "none"

-----------------------------------------------------------------------------
\* The request; when it fails, or its answer cannot be read, no kind has a pair.
Query ==
    /\ pc = "query"
    /\ \/ \E S \in Answers : data' \in ByLiquidityQuote(S) /\ pc' = "filter"
       \/ data' = <<>> /\ pc' = "pump"
    /\ UNCHANGED <<n, mkts, got, numDex, fault>>

\* One turn of the loop over the sorted pairs.
Filter ==
    /\ pc = "filter" /\ fault = "none" /\ n <= Len(data)
    /\ IF Passes(data[n]) /\ Unlabelled(data[n]) THEN Die("labels")
       ELSE /\ mkts' = [k \in Kinds |->
                   IF Passes(data[n]) /\ IsKind(data[n])[k] THEN Append(mkts[k], data[n])
                   ELSE mkts[k]]
            /\ n' = n + 1
            /\ UNCHANGED <<pc, data, got, numDex, fault>>

\* The end of QueryDexScreener: data[0] of an answer without pairs.
Return ==
    /\ pc = "filter" /\ fault = "none" /\ n > Len(data)
    /\ IF data = <<>> THEN Die("empty")
       ELSE pc' = "pump" /\ n' = 1 /\ UNCHANGED <<data, mkts, got, numDex, fault>>

\* FetchPumpPools: a pool whose token accounts cannot be found is an empty key, and
\* MustPublicKeyFromBase58 panics.
FetchPump == Fetching("pump") /\ (Take("pump") \/ Die("key"))

\* FetchMeteoraDLMM: the same, and log.Fatalf when the account cannot be read; no
\* address can be derived for a bin array, and the pools found so far are dropped.
FetchDLMM ==
    /\ Fetching("dlmm")
    /\ \/ Take("dlmm")
       \/ Die("key")
       \/ Die("account")
       \/ /\ pc' = "dyn" /\ n' = 1
          /\ got' = [got EXCEPT !.dlmm = <<>>]
          /\ UNCHANGED <<data, mkts, numDex, fault>>

\* FetchMeteoraAMM and FetchRayCpmmPools: an unreadable account is an empty one.
FetchFallback ==
    \E k \in {"dyn", "cpmm"}, length \in Lengths :
        /\ Fetching(k)
        /\ IF SlicePanics(k, length) THEN Die("slice") ELSE Take(k)

\* The next kind, or after the last one the decision.
NextKind ==
    /\ pc \in Kinds /\ fault = "none" /\ ~Fetching(pc)
    /\ numDex' = numDex + Len(got[pc])
    /\ pc' = IF pc # "cpmm" THEN After[pc]
             ELSE IF numDex' > 1 THEN "accepted" ELSE "rejected"
    /\ n' = 1
    /\ UNCHANGED <<data, mkts, got, fault>>

Next == Query \/ Filter \/ Return \/ FetchPump \/ FetchDLMM \/ FetchFallback \/ NextKind

Spec == Init /\ [][Next]_vars

-----------------------------------------------------------------------------
(* Properties.                                                             *)

TypeOK ==
    /\ pc \in Kinds \cup {"query", "filter", "accepted", "rejected"}
    /\ data \in Seq(Pairs) /\ n \in 1..(Len(data) + 1)
    /\ mkts \in [Kinds -> Seq(Pairs)] /\ got \in [Kinds -> Seq(Pairs)]
    /\ \A k \in Kinds : Len(got[k]) <= Limit[k]
    /\ numDex \in Nat
    /\ fault \in {"none", "labels", "empty", "key", "account", "slice"}

\* The pairs of a kind the mint could be traded on, and how many of them may be used.
Eligible(k) == {e \in ToSet(data) : Passes(e) /\ IsKind(e)[k]}
Offered(k) == IF Cardinality(Eligible(k)) < Limit[k] THEN Cardinality(Eligible(k)) ELSE Limit[k]

\* Asking for the kinds one by one, and stopping early, does not change the decision:
\* a mint is refused only when all kinds together offer fewer than two pools, and
\* never taken with fewer (DLMM pools count unless they were given up).
EnoughMarkets ==
    pc \in {"accepted", "rejected"} =>
        (pc = "accepted" <=> Offered("pump") + Len(got.dlmm) + Offered("dyn") + Offered("cpmm") >= 2)

\* Whatever the order of the answer, and of ties, no pool is read while a deeper one
\* of its kind is left out; so only the deepest can end the process.
DeepestFirst ==
    \A k \in Kinds :
        LET used == ToSet(got[k]) \cup (IF Fetching(k) THEN {mkts[k][n]} ELSE {})
        IN  pc \notin {"query", "filter"} =>
                \A e \in used, f \in Eligible(k) \ used : e.liq >= f.liq

-----------------------------------------------------------------------------
(* Why they hold: what every step of the search keeps true.                *)

\* How many pairs of the answer the loop has dealt with, and the kinds asked for.
Filtered == IF pc = "filter" THEN n - 1 ELSE Len(data)
AskedFor ==
    [query |-> {}, filter |-> {}, pump |-> {}, dlmm |-> {"pump"}, dyn |-> {"pump", "dlmm"},
     cpmm |-> {"pump", "dlmm", "dyn"}, accepted |-> Kinds, rejected |-> Kinds]

\* A list without repetition, the deepest first.
Descends(s) == \A i, j \in DOMAIN s : i < j => s[i] # s[j] /\ s[i].liq >= s[j].liq

\* The list of a kind is what passed so far, once each, in the order of the answer.
PassedInOrder ==
    /\ Descends(data) /\ (pc = "query" => data = <<>>)
    /\ \A k \in Kinds :
          /\ Descends(mkts[k]) /\ Len(mkts[k]) <= Filtered
          /\ ToSet(mkts[k]) = {data[i] : i \in {j \in 1..Filtered :
                                                  Passes(data[j]) /\ IsKind(data[j])[k]}}

\* The pools read of a kind are the first of its list.
FirstRead ==
    \A k \in Kinds :
        /\ Len(got[k]) <= Wanted(k)
        /\ \A i \in DOMAIN got[k] : got[k][i] = mkts[k][i]
        /\ k # pc /\ k \notin AskedFor[pc] => got[k] = <<>>

\* numDex counts the kinds asked for; those not given up, and not skipped because of
\* it, are read as far as they are wanted.
Counted ==
    LET of(k) == IF k \in AskedFor[pc] THEN Len(got[k]) ELSE 0
    IN  /\ numDex = of("pump") + of("dlmm") + of("dyn") + of("cpmm")
        /\ pc \in Kinds => n = Len(got[pc]) + 1 /\ (~Asked(pc) => got[pc] = <<>>)
        /\ "pump" \in AskedFor[pc] => Len(got.pump) = Wanted("pump")
        /\ "dyn" \in AskedFor[pc] /\ Len(got.pump) + Len(got.dlmm) < 2 =>
               Len(got.dyn) = Wanted("dyn")
        /\ "cpmm" \in AskedFor[pc] /\ Len(got.pump) + Len(got.dlmm) + Len(got.dyn) < 2 =>
               Len(got.cpmm) = Wanted("cpmm")
        /\ pc = "accepted" => numDex > 1
        /\ pc = "rejected" => numDex <= 1

SelectInv == TypeOK /\ PassedInOrder /\ FirstRead /\ Counted
=============================================================================
