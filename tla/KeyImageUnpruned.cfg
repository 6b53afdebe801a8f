SPECIFICATION Spec
CONSTANTS
    Blocks = {"g", "a1", "x2", "b1", "b2"}
    KeyImages = {"k1", "k2"}
    NullHash = "null"
    LongRawFile = FALSE
    Genesis = "g"
    Parent <- MCParent
    Anc <- MCAnc
    Txs = {"t1", "t2", "t3"}
    RelayedTxs = {}
    KeyImageOf <- MCKeyImageOf
    BlockTxs <- MCBlockTxs
    NoBlock = "none"
    CheckLevels = {0}
    CheckBlocks = 6
    RpcCheckLevels = {}
    RpcCheckBlocks = 6
    MaxRestarts = 3
INVARIANTS
    ValidNeverFailed
CHECK_DEADLOCK FALSE
