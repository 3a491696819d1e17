SPECIFICATION ShutdownSpec
CONSTANTS
    Entries <- OneEntry
    Corrupt <- NoEntry
    Instances = {i1}
    Tags = {t1, t2}
    BatchSize = 2
    Concurrency = 2
    MaxDeliveryAttempts = 1
    MaxCount = 2
    IdleInFlight = TRUE
    Disruptions = {"redis", "stop", "timeout", "group"}
    MaxDisruptions = 2
PROPERTY RunReturns
