--------------------------- MODULE MCMarketSelect ---------------------------
EXTENDS MarketSelect

Pair(address, dex, label, wsol, liq) ==
    [address |-> address, dex |-> dex, label |-> label, wsol |-> wsol, liq |-> liq]

MCPairs ==
    {Pair(1, "pumpswap", "none", TRUE, 3), Pair(2, "pumpswap", "none", TRUE, 4),
     Pair(3, "meteora", "DLMM", TRUE, 3), Pair(4, "meteora", "DLMM", TRUE, 2),
     Pair(5, "meteora", "DYN", TRUE, 4), Pair(6, "raydium", "CPMM", TRUE, 2),
     Pair(7, "raydium", "CPMM", TRUE, 2), Pair(8, "meteora", "none", TRUE, 2),
     Pair(9, "meteora", "none", TRUE, 1), Pair(10, "pumpswap", "none", FALSE, 4),
     Pair(11, "raydium", "none", TRUE, 4)}

MCAnswers == {S \in SUBSET MCPairs : Cardinality(S) <= 5}
MCLimit == [pump |-> 1, dlmm |-> 2, dyn |-> 1, cpmm |-> 1]
=============================================================================
