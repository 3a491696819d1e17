SPECIFICATION FairSpec
CONSTANTS
    Deliveries = {d1, d2}
    Probed = {d2}
    MaxDeliveryAttempts = 2
    MaxImmediateRetries = 1
    Stamps = {0, 2, 3}
    MaxWraps = 2
INVARIANTS TypeOK LettersExplained TerminalInvariant RetryBudget LettersMarshal VerdictFaithful
PROPERTY KeepsPromise
CHECK_DEADLOCK FALSE
