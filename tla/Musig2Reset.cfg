CONSTANTS
    Keys = {k1}
    Nonces = {n1, n2}
    Aggs = {g1, g2}
    Sessions = {det, old}
    DetSession = det
    Handles = {h1}
    NoRecord = NoRecord
    NoAgg = NoAgg
    Nothing = Nothing
SPECIFICATION Spec
PROPERTY ResetSparesFinalized
