SPECIFICATION FairSpec
CONSTANTS
    k1 = k1
    k2 = k2
    k3 = k3
    Callers = {k1, k2, k3}
    Threshold = 2
    Recovery = 2
    MaxCount = 3
    MaxBack = 1
    MaxBacks = 1
INVARIANTS
    TypeOK
    CountMatchesState
PROPERTIES
    OpensOnlyOnStreak
    ClosesAfterRecovery
