SPECIFICATION ServerSpec
CONSTANTS
    Page = 2
    Budgets = {12, 30}
    Sizes = {0, 1, 2, 4, 8}
    MaxLen = 10
    Statics = {2, 4, 8}
    Pages = {2, 4}
    ScoreMibs = {0, 1024}
    TableRows = 3
    Ratio = 2
    TopKeys = 2
    Heads = 1
    ScoreBudget = 24
    KChunkMax = 3
    BlockSize = 2
    TopBlocks = 2
    MaxScore = 2
INVARIANTS ServerInv ChunksFitBudget TopKIsExact CandidatesAreBest
CHECK_DEADLOCK FALSE
