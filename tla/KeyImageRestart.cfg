SPECIFICATION Spec
CONSTANTS
    Blocks = {"g", "a1", "x2", "b1"}
    KeyImages = {"k1", "k2"}
    NullHash = "null"
    LongRawFile = TRUE
    Genesis = "g"
    Parent <- MCParent
    Anc <- MCAnc
    Txs = {"t1", "t2", "t3"}
    RelayedTxs = {"t1", "t3"}
    KeyImageOf <- MCKeyImageOf
    BlockTxs <- MCBlockTxs
    NoBlock = "none"
    CheckLevels = {3, 4}
    CheckBlocks = 6
    RpcCheckLevels = {2, 3}
    RpcCheckBlocks = 1
    MaxRestarts = 2
INVARIANTS
    TypeOK
    StoreWellFormed
    InSyncWhenRunning
    RunningKeepsChainValid
    ValidNeverFailedAfterPrune
    MempoolHasNoConflict
PROPERTIES
    MempoolStaysSpendable
CHECK_DEADLOCK FALSE
