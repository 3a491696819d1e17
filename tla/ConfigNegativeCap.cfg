SPECIFICATION Spec
CONSTANTS
    Width = 16
    Counts <- Defaulted
    Backoffs <- Defaulted
    Intervals <- Defaulted
    Attempts <- OneCap
    Small <- Defaulted
    Names <- JustRequired
INVARIANT CapSparesFirstDelivery
CHECK_DEADLOCK FALSE
