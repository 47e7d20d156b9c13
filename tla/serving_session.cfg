SPECIFICATION Spec
CONSTANTS
    Page = 8
    Budgets = {100}
    Sizes = {8}
    MaxLen = 80
    MaxGram = 3
    Layers = 1
    GramHeads = 2
    Buckets = 3
    Multipliers <- MCMultipliers
    PadId = 0
    MaxMessages = 4
    SloppyAnswers = 1
INVARIANTS SessionInv ContextSuffix ResultsInCallOrder ThinkingIsClosed AcceptedIsMeant
PROPERTIES PromptExtends TextsAreHashed
CHECK_DEADLOCK FALSE
