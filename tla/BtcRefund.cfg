SPECIFICATION Spec
CONSTANTS
    t1 = t1
    c1 = c1
    None = None
    NoSwap = NoSwap
    Chains <- MCChains
    Secrets <- MCSecrets
    Heights <- MCHeights
    Scratch = {}
    Contents <- MCContents
    Candidates <- MCCandidates
    Parties <- BtcParties
    Rank <- MCRank
    Reports <- MCReports
    Removals <- MCRemovals
    Settings <- BtcSettings
    MaxReports = 0
    FeeRefunds = {"low", "high"}
PROPERTIES
    BtcRefundReachesChain
