SPECIFICATION StackSpec
CONSTANTS
    r1 = r1
    r2 = r2
    r3 = r3
    Calls = {r1, r2, r3}
    MaxAttempts = 2
    Retryable = {"error", "empty"}
    Overlap = FALSE
    Threshold = 2
    Recovery = 1
    MaxCount = 3
CHECK_DEADLOCK FALSE
SYMMETRY SymmetricCalls
INVARIANTS
    TypeOK
    RetriedOnlyAfterFailure
    EndsAsLastAttempt
    OpenedByFailedCalls
    UsageIsWhatWasDelivered
