SPECIFICATION FairSpec
CONSTANTS
    Entries <- TwoEntries
    Corrupt <- Second
    Instances = {i1}
    Tags = {t1, t2}
    BatchSize = 1
    Concurrency = 1
    MaxDeliveryAttempts = 1
    MaxCount = 6
    IdleInFlight = TRUE
    Disruptions = {"redis", "dlq", "crash", "stop", "group", "stream"}
    MaxDisruptions = 2
PROPERTIES EventuallySettled KeepsQueue
