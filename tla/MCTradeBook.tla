----------------------------- MODULE MCTradeBook -----------------------------
EXTENDS TradeBook, TLC

CONSTANTS A, B, pa1

MCPoolMint == pa1 :> A
MCBins == {-65, -1}
MCBinsOne == {-1}
MCHotPrices == {7, 20}
MCHotPricesOne == {7}

Symmetric == Permutations(Refs) \cup Permutations(Senders) \cup Permutations(Updaters)
=============================================================================
