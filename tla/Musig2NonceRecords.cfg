CONSTANTS
    Keys = {k1, k2}
    Nonces = {n1, n2}
    Aggs = {g1, g2}
    Sessions = {det, old}
    DetSession = det
    Handles = {h1, h2}
    NoRecord = NoRecord
    NoAgg = NoAgg
    Nothing = Nothing
SPECIFICATION Spec
SYMMETRY Symmetry
INVARIANTS
    OneAggregatePerSlot
    SignedIsBound
    ReleasedIsCommitted
    CacheMatchesRows
PROPERTIES
    Implements
