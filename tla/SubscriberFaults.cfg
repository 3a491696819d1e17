SPECIFICATION Spec
CONSTANTS
    Entries <- TwoEntries
    Corrupt <- Second
    Instances = {i1}
    Tags = {t1, t2, t3}
    BatchSize = 2
    Concurrency = 2
    MaxDeliveryAttempts = 1
    MaxCount = 2
    IdleInFlight = TRUE
    Disruptions = {"redis", "dlq", "crash", "stop", "timeout", "group", "stream"}
    MaxDisruptions = 2
SYMMETRY TagSymmetry
INVARIANTS TypeOK NothingLost SlotsBalanced
