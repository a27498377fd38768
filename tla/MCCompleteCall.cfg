SPECIFICATION CallSpec
CONSTANTS
    t1 = t1
    t2 = t2
    h1 = h1
    h2 = h2
    CallIds = {t1, t2}
    MaxIterations = 2
    Replies <- UpToTwoCalls
    Handlers = {h1, h2}
    EventNames <- EmittedEvents
    ToolNames = {"tool"}
    Functions <- ThreeFunctions
    MaxChanges = 1
CHECK_DEADLOCK FALSE
INVARIANTS
    TypeOK
    RequestsResolved
    ToolsRunOnce
    EventsBracketed
    SteadyHandlersHearAll
    SchemaTellsTheTruth
    ListLeftWhole
PROPERTIES
    CallEnds
