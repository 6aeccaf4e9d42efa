SPECIFICATION Spec
CONSTANTS
    m1 = m1  m2 = m2  m3 = m3  w1 = w1  w2 = w2
    NoMsg = NoMsg  Free = Free  Dead = Dead
    Msgs = {m1, m2, m3}  Workers = {w1, w2}
    Casts <- Turns  Version <- Versions
    MaxWakes = 0  MaxCrashes = 0  MaxLapses = 0  MaxStalls = 0
    MaxLosses = 1  MaxLimits = 0  MaxErrors = 0  MaxMoves = 1
SYMMETRY Symmetry
INVARIANTS OneWorkingPost
PROPERTIES StatusNeverRegresses AnswerKept
CHECK_DEADLOCK FALSE
