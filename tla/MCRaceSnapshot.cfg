CONSTANTS
    A = A  B = B
    pa1 = pa1
    Mints = {A}
    Pools = {pa1}
    PoolMint <- MCPoolMint
    Bins <- MCBins
    HotPrices <- MCHotPricesOne
    Refs = {r1}
    Updaters = {u1, u2}
    Senders = {s1}
    BinMovesInWindow = 0
    None = None
    Logger = Logger
SPECIFICATION Spec
INVARIANTS
    NoRaceOnSnapshot
