SPECIFICATION Spec
CONSTANTS
    Entries <- OneEntry
    Corrupt <- NoEntry
    Instances = {i1, i2}
    Tags = {t1, t2}
    BatchSize = 2
    Concurrency = 1
    MaxDeliveryAttempts = 2
    MaxCount = 4
    IdleInFlight = FALSE
    Disruptions = {}
    MaxDisruptions = 0
SYMMETRY ClusterSymmetry
INVARIANT CappedPerGroup
