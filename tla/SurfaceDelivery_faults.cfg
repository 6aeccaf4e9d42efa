SPECIFICATION Spec
CONSTANTS
    m1 = m1  m2 = m2  m3 = m3  w1 = w1  w2 = w2
    NoMsg = NoMsg  Free = Free  Dead = Dead
    Msgs = {m1, m2}  Workers = {w1, w2}
    Casts <- Pairs  Version <- Versions
    MaxWakes = 0  MaxCrashes = 1  MaxLapses = 1  MaxStalls = 1
    MaxLosses = 0  MaxLimits = 1  MaxErrors = 0  MaxMoves = 0
SYMMETRY Symmetry
INVARIANTS ReceiptTruthful OneStatusPost
PROPERTIES ArchivedIsQuiet KeepsReceipts
CHECK_DEADLOCK FALSE
