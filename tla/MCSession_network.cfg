SPECIFICATION Spec
CONSTANTS
    c1 = c1
    c2 = c2
    c3 = c3
    s1 = s1
    s2 = s2
    Prior = Prior
    Calls = {c1, c2, c3}
    Sessions = {s1}
    Ops = {"complete", "stream", "add", "clear", "delete"}
    WithSystem = {s1}
    InMemory = FALSE
    SavedBefore <- EmptyOrOneTurn
CHECK_DEADLOCK FALSE
SYMMETRY SymmetricCalls
INVARIANTS
    TypeOK
    ConversationsWhole
    RequestsWhole
    NoTraceOfFailedTurns
    AcknowledgedIsSaved
    SeesPriorConversation
PROPERTIES
    RollbacksExact
    ImplementsConversation
