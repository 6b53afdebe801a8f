SPECIFICATION Spec
CONSTANTS
    Blocks = {"g", "a1", "a2", "b1", "b2", "b3"}
    Genesis = "g"
    Anc <- MCAnc
    Outputs = {"o1", "o3"}
    OutputsOf <- MCOutputsOf
    Unreadable = {}
    Payee <- MCPayee
    SubIndex <- MCSubIndex
    Seeds = {"s1"}
    NoSeed = "none"
    NoBlock = "null"
    kSubaddressGapLimit = 1
    MaxEntries = 2
INVARIANTS
    NoPermanentGap
