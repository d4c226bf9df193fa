CONSTANTS
    FirstSlot = 5
    LastSlot = 11
    SlotsToCheck = 3
    MaxLag = 1
    Minute = 2
    MinLanded = 2
    MaxLanded = 2
    PriceAdjustmentFactor = 2
    MaxLevel = 2
    MaxCUPrice = 40
    CUPrices = {10}
    IntBits = 8
SPECIFICATION Spec
INVARIANTS
    LandedIsRecent
