SPECIFICATION Spec
CONSTANTS
    r1 = r1
    r2 = r2
    r3 = r3
    Calls = {r1, r2}
    MaxAttempts = 3
    Retryable = {"error"}
    Overlap = TRUE
CHECK_DEADLOCK FALSE
INVARIANTS
    NeverEmptyHanded
