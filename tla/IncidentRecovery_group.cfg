SPECIFICATION Spec
CONSTANTS
    i1 = i1  i2 = i2  i3 = i3  s1 = s1  s2 = s2
    None = None
    Incidents = {i1, i2}  Signals = {s1, s2}  Jobs = {j1, j2}  Workers = {w1}
    Home <- HomeTwo  Native = {s1, s2}  Late = {s1}  Policies <- Verified
    MaxChecks = 1  MaxAttempts = 1
    Budget <- GroupBudget
INVARIANTS VerdictMatchesSignals BasisHolds GatheringIsOwned
PROPERTIES AutoResolveJustified
CHECK_DEADLOCK FALSE
