SPECIFICATION Spec
CONSTANTS
    j1 = j1  j2 = j2  c1 = c1  c2 = c2  e1 = e1  e2 = e2  e3 = e3  key = key
    NoKey = NoKey  NoJob = NoJob  NoEntry = NoEntry
    Jobs = {j1, j2}
    Consumers = {c1, c2}
    Entries = {e1}
    Key <- SameKeys
    Topology = {j1}  Exclusive = {}  Foreign = {}
    Delayed = {}  Cancellable = {j2}
    ErrorKinds = {"error"}  Fatal = {}  Cap <- Once
    DeadlineCap = 1  Recycles = FALSE
    BatchSize = 1
    MaxCrashes = 0  MaxLapses = 2  MaxTrims = 0  MaxInput = 0  MaxPubs = 0
SYMMETRY Symmetry
INVARIANTS TokenUnique DeadStreamTruthful
PROPERTIES LostLeaseIsMute RetiredIsSuperseded
CHECK_DEADLOCK FALSE
