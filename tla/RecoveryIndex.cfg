SPECIFICATION FairSpec
CONSTANTS
    Blocks = {"g", "a1", "a2", "b1", "b2"}
    Genesis = "g"
    Anc <- MCAnc
    Outputs = {"o1", "o2", "o3", "o4"}
    OutputsOf <- MCOutputsOf
    Unreadable = {"a1"}
    Payee <- MCPayee
    SubIndex <- MCSubIndex
    Seeds = {"s1", "s2"}
    NoSeed = "none"
    NoBlock = "null"
    kSubaddressGapLimit = 1
    MaxEntries = 2
INVARIANTS
    IndexIsExact
PROPERTIES
    CatchesUp
    StaysAtTip
