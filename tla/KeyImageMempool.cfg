SPECIFICATION Spec
CONSTANTS
    Blocks = {"g", "a1", "x2", "b1", "b2", "y1"}
    KeyImages = {"k1", "k2"}
    NullHash = "null"
    LongRawFile = TRUE
    Genesis = "g"
    Parent <- MCParent
    Anc <- MCAnc
    Txs = {"t1", "t2", "t3"}
    RelayedTxs = {"t1", "t2", "t3"}
    KeyImageOf <- MCKeyImageOf
    BlockTxs <- MCBlockTxs
    NoBlock = "none"
    CheckLevels = {3}
    CheckBlocks = 6
    RpcCheckLevels = {2, 3}
    RpcCheckBlocks = 6
    MaxRestarts = 1
INVARIANTS
    MempoolHasNoConflict
PROPERTIES
    MempoolStaysSpendable
CHECK_DEADLOCK FALSE
