SPECIFICATION Spec
CONSTANTS
    t1 = t1
    c1 = c1
    None = None
    NoSwap = NoSwap
    Chains <- MCChains
    Secrets <- MCSecrets
    Heights <- MCHeights
    Scratch = {}
    Contents <- MCContents
    Candidates <- MCCandidates
    Parties <- MCParties
    Rank <- MCRank
    Reports <- WideReports
    Removals <- WideRemovals
    Settings <- MCSettings
    MaxReports = 2
    FeeRefunds = {"low", "high"}
INVARIANTS
    TypeOK
    SettledOnChain
    SecretOutlivesClaim
