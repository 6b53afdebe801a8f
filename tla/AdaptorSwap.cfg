SPECIFICATION Spec
CONSTANTS
    t1 = t1
    t2 = t2
    x = x
    y = y
    None = None
    NoSwap = NoSwap
    Chains <- MCChains
    Secrets <- MCSecrets
    Heights <- MCHeights
    Scratch <- MCScratch
    Contents <- MCContents
    Candidates <- MCCandidates
SYMMETRY Symmetry
INVARIANTS
    FundedIsRefundable
    SecretKept
    CacheMatchesRow
PROPERTIES
    ForwardOnly
    WriteOnce
    Implements
