SPECIFICATION Spec
CONSTANTS
    o1 = o1
    o2 = o2
    o3 = o3
    s1 = s1
    None = None
    NoOrder = NoOrder
    Ids <- MCIds
    Terms <- MCTerms
    Swaps <- MCSwaps
    Amounts <- MCAmounts
    Dust = 1
    MaxNow = 1
    MaxFaults = 1
INVARIANTS
    ReservedIsCovered
    MatchIsMutual
PROPERTIES
    SettledIsFinal
    NeverGrows
