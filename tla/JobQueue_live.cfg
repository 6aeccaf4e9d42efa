SPECIFICATION FairSpec
CONSTANTS
    j1 = j1  j2 = j2  c1 = c1  c2 = c2  e1 = e1  e2 = e2  e3 = e3  key = key
    NoKey = NoKey  NoJob = NoJob  NoEntry = NoEntry
    Jobs = {j1}
    Consumers = {c1}
    Entries = {e1, e2}
    Key <- SameKeys
    Topology = {}  Exclusive = {}  Foreign = {}
    Delayed = {j1}  Cancellable = {}
    ErrorKinds = {"error"}  Fatal = {}  Cap <- Caps
    DeadlineCap = 2  Recycles = TRUE
    BatchSize = 1
    MaxCrashes = 1  MaxLapses = 0  MaxTrims = 1  MaxInput = 1  MaxPubs = 1
PROPERTIES EveryJobSettles PendingDrains
CHECK_DEADLOCK FALSE
