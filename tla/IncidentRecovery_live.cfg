SPECIFICATION LiveSpec
CONSTANTS
    i1 = i1  i2 = i2  i3 = i3  s1 = s1  s2 = s2
    None = None
    Incidents = {i1}  Signals = {s1, s2}  Jobs = {j1, j2, j3}  Workers = {w1}
    Home <- HomeOne  Native = {s1}  Late = {}  Policies <- AnyPolicy
    MaxChecks = 2  MaxAttempts = 2
    Budget <- LiveBudget
PROPERTIES ClearIsJudged ChecksSettle MonitoringEnds
CHECK_DEADLOCK FALSE
