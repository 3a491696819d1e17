SPECIFICATION Spec
CONSTANTS
    Width = 12
    Counts <- ManyCounts
    Backoffs <- LongBackoffs
    Intervals <- ShortIdle
    Attempts <- Defaulted
    Small <- Defaulted
    Names <- JustRequired
INVARIANT SleepsBelowClaimMinIdle
CHECK_DEADLOCK FALSE
