CONSTANTS
    Pairs <- MCPairs
    Answers <- MCAnswers
    LiqFilter = 2
    Limit <- MCLimit
    Lengths = {0, 258, 259, 297, 298, 327, 328}
SPECIFICATION Spec
INVARIANTS
    SelectInv
    EnoughMarkets
    DeepestFirst
CHECK_DEADLOCK FALSE
