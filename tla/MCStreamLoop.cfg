SPECIFICATION FairSpec
CONSTANTS
    t1 = t1
    t2 = t2
    CallIds = {t1, t2}
    MaxIterations = 2
    MaxChunks = 2
    MaxCalls = 2
    Replies <- OneOrTwoCalls
CHECK_DEADLOCK FALSE
INVARIANTS
    TypeOK
    RequestsResolved
    OneStreamInTheLog
    ChunksAnnounced
PROPERTIES
    StreamEnds
