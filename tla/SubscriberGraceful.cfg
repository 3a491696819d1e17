SPECIFICATION Spec
CONSTANTS
    Entries <- ThreeEntries
    Corrupt <- Third
    Instances = {i1, i2}
    Tags = {t1, t2}
    BatchSize = 2
    Concurrency = 1
    MaxDeliveryAttempts = 1
    MaxCount = 2
    IdleInFlight = FALSE
    Disruptions = {"stop"}
    MaxDisruptions = 2
SYMMETRY ClusterSymmetry
INVARIANT CompletedOnce
PROPERTY OrderedAtOne
