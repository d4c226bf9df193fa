CONSTANTS
    FirstSlot = 5
    LastSlot = 6
    SlotsToCheck = 3
    MaxLag = 1
    Minute = 2
    MinLanded = 2
    MaxLanded = 2
    PriceAdjustmentFactor = 2
    MaxLevel = 5
    MaxCUPrice = 40
    CUPrices = {10}
    IntBits = 8
SPECIFICATION Spec
INVARIANTS
    BidCapped
