CONSTANTS
    A = A  B = B
    pa1 = pa1
    Mints = {A, B}
    Pools = {pa1}
    PoolMint <- MCPoolMint
    Bins <- MCBinsOne
    HotPrices <- MCHotPrices
    Refs = {r1}
    Updaters = {u1, u2}
    Senders = {}
    BinMovesInWindow = 0
    None = None
    Logger = Logger
SPECIFICATION FairSpec
INVARIANTS
    TypeOK
    BookFollowsHot
    BookPricesCurrent
    ActiveIffTrading
    IndexFaultOnlyFromClear
    RefinementInv
PROPERTIES
    ImplementsAtomicBook
    UpdateSettles
    ReportSettles
