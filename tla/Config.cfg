SPECIFICATION Spec
CONSTANTS
    Width = 16
    Counts <- SomeCounts
    Backoffs <- SomeBackoffs
    Intervals <- SomeIntervals
    Attempts <- SomeAttempts
    Small <- SomeSmall
    Names <- SomeNames
INVARIANTS TypeOK BackoffAsDocumented SleepsBelowClaimMinIdle AcceptedUsable
CHECK_DEADLOCK FALSE
