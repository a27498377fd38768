SPECIFICATION Spec
CONSTANTS
    Model = 1
    MaxTexts = 2
    Slots = {0, 1, 2}
    MaxPieces = 2
    MaxFinishes = 2
    FunctionNames = {1, 2}
    MaxCalls = 2
    MaxChunks = 3
    Prompts <- ShortPrompts
CHECK_DEADLOCK FALSE
INVARIANTS
    CallsAsMade
    TextPreserved
    UsageAsReported
    OpenAIWire
    GeminiWire
    ContentKept
