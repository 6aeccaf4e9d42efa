SPECIFICATION Spec
CONSTANTS
    i1 = i1  i2 = i2  i3 = i3  s1 = s1  s2 = s2
    None = None
    Incidents = {i1}  Signals = {s1, s2}  Jobs = {j1, j2}  Workers = {w1, w2}
    Home <- HomeOne  Native = {s2}  Late = {s2}  Policies <- Verified
    MaxChecks = 2  MaxAttempts = 2
    Budget <- CheckBudget
SYMMETRY Symmetry
INVARIANTS TypeOK AtMostOneRun
PROPERTIES AutoResolveJustified
CHECK_DEADLOCK FALSE
