SPECIFICATION Spec
CONSTANTS
    Keys = {k1, k2}
    Sessions = {s1, s2}
    Alphas = {a1, a2, a3, a4}
    NoRecord = NoRecord
SYMMETRY Symmetry
INVARIANTS
    OneNoncePerOpenSlot
    OneSessionPerSlot
    HandedOutIsDurable
    CacheMatchesRows
PROPERTIES
    Implements
