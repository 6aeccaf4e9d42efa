SPECIFICATION FairSpec
CONSTANTS
    m1 = m1  m2 = m2  m3 = m3  w1 = w1  w2 = w2
    NoMsg = NoMsg  Free = Free  Dead = Dead
    Msgs = {m1, m2}  Workers = {w1, w2}
    Casts <- LivePairs  Version <- Versions
    MaxWakes = 0  MaxCrashes = 1  MaxLapses = 0  MaxStalls = 0
    MaxLosses = 0  MaxLimits = 1  MaxErrors = 1  MaxMoves = 0
INVARIANTS TypeOK
PROPERTIES EveryDeliverySettles
CHECK_DEADLOCK FALSE
