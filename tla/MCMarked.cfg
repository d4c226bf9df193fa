CONSTANTS
    A = A  B = B
    pa1 = pa1  pa2 = pa2  pb1 = pb1
    Mints = {A, B}
    Pools = {pa1, pa2, pb1}
    PoolMint <- MCPoolMint
    Calls = {c1, c2}
    None = None
SPECIFICATION Spec
INVARIANTS
    MarkedIsFollowed
