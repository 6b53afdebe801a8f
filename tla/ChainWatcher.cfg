SPECIFICATION Spec
CONSTANTS
    t1 = t1
    c1 = c1
    None = None
    NoSwap = NoSwap
    Chains <- MCChains
    Secrets <- MCSecrets
    Heights <- MCHeights
    Scratch = {}
    Contents <- MCContents
    Candidates <- MCCandidates
    Parties <- MCParties
    Rank <- MCRank
    Reports <- MCReports
    Removals <- MCRemovals
    Settings <- MCSettings
    MaxReports = 1
    FeeRefunds = {"low", "high"}
INVARIANTS
    SettledOnChain
    SecretOutlivesClaim
PROPERTIES
    MovedByCalls
    ConfirmationIsRecorded
    SpendIsNoticed
    RefundReachesChain
