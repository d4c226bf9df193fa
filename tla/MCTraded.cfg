CONSTANTS
    A = A  B = B  C = C
    Mints = {A, B, C}
    WSOL = WSOL
    Txs <- MCTxs
    MintsIgnore = {C}
    NumArbsFilter = 0
    Window = 1
    Percentile = 50
    TopMints = 2
    MaxTrades = 3
    None = None
SPECIFICATION PipelineSpec
INVARIANTS
    RecordedChanged
