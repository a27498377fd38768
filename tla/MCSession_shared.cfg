SPECIFICATION Spec
CONSTANTS
    c1 = c1
    c2 = c2
    c3 = c3
    s1 = s1
    s2 = s2
    Prior = Prior
    Calls = {c1, c2, c3}
    Sessions = {s1, s2}
    Ops = {"complete"}
    WithSystem = {}
    InMemory = TRUE
    SavedBefore <- Empty
CHECK_DEADLOCK FALSE
INVARIANTS
    SeesPriorConversation
