SPECIFICATION Spec
CONSTANTS
    t1 = t1
    t2 = t2
    CallIds = {t1, t2}
    MaxIterations = 1
    MaxChunks = 1
    MaxCalls = 2
    Replies <- OneOrTwoCalls
CHECK_DEADLOCK FALSE
INVARIANTS
    ErrorCountsDelivered
