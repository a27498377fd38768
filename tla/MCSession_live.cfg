SPECIFICATION FairSpec
CONSTANTS
    c1 = c1
    c2 = c2
    c3 = c3
    s1 = s1
    s2 = s2
    Prior = Prior
    Calls = {c1, c2, c3}
    Sessions = {s1}
    Ops = {"complete", "stream"}
    WithSystem = {}
    InMemory = FALSE
    SavedBefore <- OneTurn
CHECK_DEADLOCK FALSE
PROPERTIES
    CallsEnd
