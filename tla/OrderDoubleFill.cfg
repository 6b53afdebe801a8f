SPECIFICATION SettlementSpec
CONSTANTS
    o1 = o1
    o2 = o2
    s1 = s1
    s2 = s2
    None = None
    NoOrder = NoOrder
    Ids <- MCIds
    Terms <- MCTerms
    Swaps <- MCSwaps
    Amounts <- OneAmount
    Dust = 0
INVARIANTS
    ConsumedOnce
CHECK_DEADLOCK FALSE
